------------------------------- MODULE Routes -------------------------------
(***************************************************************************)
(* The REST surface: for every RPC the HTTP method, the path below /v1/ and  *)
(* where the other fields of its request come from, as the request_<RPC>_0   *)
(* functions of gen/*/v1/*.pb.gw.go read them; and the order in which         *)
(* NewGatewayMux (internal/app/gateway.go) registers them.  A segment in      *)
(* braces is a path parameter, named for the request field it is bound to.    *)
(***************************************************************************)
EXTENDS Sequences, SequencesExt

\* rest: the fields that are not path parameters come from the JSON body, from the
\* query string, or from nowhere.
Route(rpc, method, path, verb, rest) ==
    [rpc |-> rpc, method |-> method, path |-> path, verb |-> verb, rest |-> rest]

Get(rpc, path) == Route(rpc, "GET", path, "", "none")
GetQuery(rpc, path) == Route(rpc, "GET", path, "", "query")
GetQueryVerb(rpc, path, verb) == Route(rpc, "GET", path, verb, "query")
GetVerb(rpc, path, verb) == Route(rpc, "GET", path, verb, "none")
Delete(rpc, path) == Route(rpc, "DELETE", path, "", "none")
DeleteQuery(rpc, path) == Route(rpc, "DELETE", path, "", "query")
Post(rpc, path) == Route(rpc, "POST", path, "", "body")
PostVerb(rpc, path, verb) == Route(rpc, "POST", path, verb, "body")
Put(rpc, path) == Route(rpc, "PUT", path, "", "body")
Patch(rpc, path) == Route(rpc, "PATCH", path, "", "body")

-----------------------------------------------------------------------------

(* gen/auth/v1/auth.pb.gw.go *)
Register == Post("Register", <<"auth", "register">>)
VerifyOTP == Post("VerifyOTP", <<"auth", "verify-otp">>)
ResendOTP == Post("ResendOTP", <<"auth", "resend-otp">>)
Login == Post("Login", <<"auth", "login">>)
RefreshToken == Post("RefreshToken", <<"auth", "refresh">>)
Logout == Post("Logout", <<"auth", "logout">>)
ValidateToken == Post("ValidateToken", <<"auth", "validate">>)

AuthRoutes == <<Register, VerifyOTP, ResendOTP, Login, RefreshToken, Logout, ValidateToken>>

(* gen/user/v1/user.pb.gw.go *)
GetUser == Get("GetUser", <<"users", "{user_id}">>)
UpdateUser == Patch("UpdateUser", <<"users", "me">>)
UpdateUsername == Patch("UpdateUsername", <<"users", "me", "username">>)
UpdateStatus == Patch("UpdateStatus", <<"users", "me", "status">>)
UploadUserAvatar == Post("UploadUserAvatar", <<"users", "me", "avatar">>)
DeleteUser == DeleteQuery("DeleteUser", <<"users", "me">>)
GetUserByUsername == Get("GetUserByUsername", <<"users", "by-username", "{username}">>)
SearchUsers == GetQuery("SearchUsers", <<"users", "search">>)
SendFriendRequest == Post("SendFriendRequest", <<"friends", "requests">>)
AcceptFriendRequest == Post("AcceptFriendRequest", <<"friends", "{requester_user_id}", "accept">>)
DeclineFriendRequest == Post("DeclineFriendRequest", <<"friends", "{requester_user_id}", "decline">>)
CancelFriendRequest == Post("CancelFriendRequest", <<"friends", "{target_user_id}", "cancel">>)
RemoveFriend == Delete("RemoveFriend", <<"friends", "{friend_id}">>)
BlockUser == Put("BlockUser", <<"blocks", "{target_user_id}">>)
UnblockUser == Delete("UnblockUser", <<"blocks", "{target_user_id}">>)
ListFriends == Get("ListFriends", <<"friends">>)
ListPendingRequests == Get("ListPendingRequests", <<"friends", "pending">>)
ListBlocked == Get("ListBlocked", <<"blocks">>)

ProfileRoutes == <<GetUser, UpdateUser, UpdateUsername, UpdateStatus, UploadUserAvatar,
                   DeleteUser, GetUserByUsername, SearchUsers>>

FriendRoutes == <<SendFriendRequest, AcceptFriendRequest, DeclineFriendRequest,
                  CancelFriendRequest, RemoveFriend, BlockUser, UnblockUser, ListFriends,
                  ListPendingRequests, ListBlocked>>

(* gen/guild/v1/guild.pb.gw.go *)
CreateGuild == Post("CreateGuild", <<"guilds">>)
GetGuild == Get("GetGuild", <<"guilds", "{guild_id}">>)
UpdateGuild == Patch("UpdateGuild", <<"guilds", "{guild_id}">>)
UploadGuildIcon == Post("UploadGuildIcon", <<"guilds", "{guild_id}", "icon">>)
UploadGuildBanner == Post("UploadGuildBanner", <<"guilds", "{guild_id}", "banner">>)
DeleteGuild == Delete("DeleteGuild", <<"guilds", "{guild_id}">>)
ListUserGuilds == Get("ListUserGuilds", <<"users", "{user_id}", "guilds">>)
PreviewInvite == Get("PreviewInvite", <<"invites", "{invite_code}">>)
JoinGuild == Post("JoinGuild", <<"invites", "{invite_code}", "join">>)
LeaveGuild == Delete("LeaveGuild", <<"guilds", "{guild_id}", "members", "me">>)
ListMembers == GetQuery("ListMembers", <<"guilds", "{guild_id}", "members">>)
KickMember == Delete("KickMember", <<"guilds", "{guild_id}", "members", "{user_id}">>)
BanMember == Put("BanMember", <<"guilds", "{guild_id}", "bans", "{user_id}">>)
UnbanMember == Delete("UnbanMember", <<"guilds", "{guild_id}", "bans", "{user_id}">>)
CreateInvite == Post("CreateInvite", <<"guilds", "{guild_id}", "invites">>)
CreateRole == Post("CreateRole", <<"guilds", "{guild_id}", "roles">>)
UpdateRole == Patch("UpdateRole", <<"guilds", "{guild_id}", "roles", "{role_id}">>)
DeleteRole == Delete("DeleteRole", <<"guilds", "{guild_id}", "roles", "{role_id}">>)
AssignRole == Put("AssignRole", <<"guilds", "{guild_id}", "members", "{user_id}", "roles", "{role_id}">>)
RemoveRole == Delete("RemoveRole", <<"guilds", "{guild_id}", "members", "{user_id}", "roles", "{role_id}">>)
TransferOwnership == Put("TransferOwnership", <<"guilds", "{guild_id}", "owner">>)
GrantPermission == Put("GrantPermission", <<"guilds", "{guild_id}", "members", "{user_id}", "permissions", "{permission}">>)
RevokePermission == Delete("RevokePermission", <<"guilds", "{guild_id}", "members", "{user_id}", "permissions", "{permission}">>)
GetUserPermissions == Get("GetUserPermissions", <<"guilds", "{guild_id}", "members", "{user_id}", "permissions">>)
GrantRolePermission == Put("GrantRolePermission", <<"guilds", "{guild_id}", "roles", "{role_id}", "permissions", "{permission}">>)
RevokeRolePermission == Delete("RevokeRolePermission", <<"guilds", "{guild_id}", "roles", "{role_id}", "permissions", "{permission}">>)

GuildRoutes == <<CreateGuild, GetGuild, UpdateGuild, UploadGuildIcon, UploadGuildBanner,
                 DeleteGuild, ListUserGuilds, PreviewInvite>>

MemberRoutes == <<JoinGuild, LeaveGuild, ListMembers, KickMember, BanMember, UnbanMember,
                  CreateInvite>>

RoleRoutes == <<CreateRole, UpdateRole, DeleteRole, AssignRole, RemoveRole,
                TransferOwnership, GrantPermission, RevokePermission, GetUserPermissions,
                GrantRolePermission, RevokeRolePermission>>

(* gen/channel/v1/channel.pb.gw.go *)
CreateChannel == Post("CreateChannel", <<"guilds", "{guild_id}", "channels">>)
GetChannel == Get("GetChannel", <<"channels", "{channel_id}">>)
UpdateChannel == Patch("UpdateChannel", <<"channels", "{channel_id}">>)
DeleteChannel == Delete("DeleteChannel", <<"channels", "{channel_id}">>)
ListGuildChannels == Get("ListGuildChannels", <<"guilds", "{guild_id}", "channels">>)
CreateDMChannel == Post("CreateDMChannel", <<"dms">>)
ListDMChannels == Get("ListDMChannels", <<"dms">>)
ListDMChannelMembers == Get("ListDMChannelMembers", <<"dms", "{channel_id}", "members">>)
ListDMChannelsWithMembers == GetVerb("ListDMChannelsWithMembers", <<"dms">>, "withMembers")
AddDMGroupMember == Put("AddDMGroupMember", <<"dms", "{channel_id}", "members", "{user_id}">>)
RemoveDMGroupMember == Delete("RemoveDMGroupMember", <<"dms", "{channel_id}", "members", "{user_id}">>)
SetChannelOverride == Put("SetChannelOverride", <<"channels", "{channel_id}", "overrides", "{target_type}", "{target_id}", "{permission}">>)
DeleteChannelOverride == Delete("DeleteChannelOverride", <<"channels", "{channel_id}", "overrides", "{target_type}", "{target_id}", "{permission}">>)
ListChannelOverrides == Get("ListChannelOverrides", <<"channels", "{channel_id}", "overrides">>)

ChannelRoutes == <<CreateChannel, GetChannel, UpdateChannel, DeleteChannel,
                   ListGuildChannels>>

DMChannelRoutes == <<CreateDMChannel, ListDMChannels, ListDMChannelMembers,
                     ListDMChannelsWithMembers, AddDMGroupMember, RemoveDMGroupMember,
                     SetChannelOverride, DeleteChannelOverride, ListChannelOverrides>>

(* gen/message/v1/message.pb.gw.go *)
SendMessage == Post("SendMessage", <<"channels", "{channel_id}", "messages">>)
GetMessage == Get("GetMessage", <<"channels", "{channel_id}", "messages", "{message_id}">>)
EditMessage == Patch("EditMessage", <<"channels", "{channel_id}", "messages", "{message_id}">>)
DeleteMessage == Delete("DeleteMessage", <<"channels", "{channel_id}", "messages", "{message_id}">>)
ListMessages == GetQuery("ListMessages", <<"channels", "{channel_id}", "messages">>)
PinMessage == Put("PinMessage", <<"channels", "{channel_id}", "messages", "{message_id}", "pin">>)
UnpinMessage == Delete("UnpinMessage", <<"channels", "{channel_id}", "messages", "{message_id}", "pin">>)
AddReaction == Put("AddReaction", <<"channels", "{channel_id}", "messages", "{message_id}", "reactions", "{emoji}">>)
RemoveReaction == Delete("RemoveReaction", <<"channels", "{channel_id}", "messages", "{message_id}", "reactions", "{emoji}">>)
AckMessage == Put("AckMessage", <<"channels", "{channel_id}", "messages", "{message_id}", "ack">>)
StartTyping == Post("StartTyping", <<"channels", "{channel_id}", "typing">>)
SendDirectMessage == Post("SendDirectMessage", <<"users", "{recipient_id}", "messages">>)
GetUnreadCounts == Get("GetUnreadCounts", <<"messages", "unread">>)
SearchMessages == GetQueryVerb("SearchMessages", <<"channels", "{channel_id}", "messages">>, "search")
GetThreadMessages == GetQuery("GetThreadMessages", <<"channels", "{channel_id}", "messages", "{parent_message_id}", "thread">>)
BulkDeleteMessages == PostVerb("BulkDeleteMessages", <<"channels", "{channel_id}", "messages">>, "bulk-delete")
GetEditHistory == Get("GetEditHistory", <<"channels", "{channel_id}", "messages", "{message_id}", "edits">>)

MessageRoutes == <<SendMessage, GetMessage, EditMessage, DeleteMessage, ListMessages,
                   PinMessage, UnpinMessage, AddReaction, RemoveReaction>>

ReadingRoutes == <<AckMessage, StartTyping, SendDirectMessage, GetUnreadCounts,
                   SearchMessages, GetThreadMessages, BulkDeleteMessages, GetEditHistory>>

(* gen/stream/v1/stream.pb.gw.go *)
StreamDmChat == Get("StreamDmChat", <<"stream", "dm", "chat">>)
StreamDmChannels == Get("StreamDmChannels", <<"stream", "dm", "channels">>)
StreamDmCalls == Get("StreamDmCalls", <<"stream", "dm", "calls">>)
StreamTextChannels == Get("StreamTextChannels", <<"stream", "channels", "text">>)
StreamVoiceChat == Get("StreamVoiceChat", <<"stream", "channels", "voice-chat">>)
StreamGuildEvents == Get("StreamGuildEvents", <<"stream", "guilds">>)
StreamVoiceState == Get("StreamVoiceState", <<"stream", "voice-state">>)
StreamTyping == Get("StreamTyping", <<"stream", "typing">>)
StreamFriendActivity == Get("StreamFriendActivity", <<"stream", "friends">>)

StreamRoutes == <<StreamDmChat, StreamDmChannels, StreamDmCalls, StreamTextChannels,
                  StreamVoiceChat, StreamGuildEvents, StreamVoiceState, StreamTyping,
                  StreamFriendActivity>>

(* gen/sync/v1/sync.pb.gw.go *)
Sync == Post("Sync", <<"sync">>)

SyncRoutes == <<Sync>>

(* gen/presence/v1/presence.pb.gw.go *)
UpdatePresence == Patch("UpdatePresence", <<"users", "me", "presence">>)
GetPresence == Get("GetPresence", <<"users", "{user_id}", "presence">>)
GetBulkPresence == GetQuery("GetBulkPresence", <<"presence">>)

PresenceRoutes == <<UpdatePresence, GetPresence, GetBulkPresence>>

(* gen/media/v1/media.pb.gw.go *)
RequestUpload == Post("RequestUpload", <<"media", "uploads">>)
ConfirmUpload == Post("ConfirmUpload", <<"media", "uploads", "{upload_id}", "confirm">>)
GetDownloadURL == Get("GetDownloadURL", <<"media", "files", "{file_id}", "download">>)
DeleteFile == Delete("DeleteFile", <<"media", "files", "{file_id}">>)

MediaRoutes == <<RequestUpload, ConfirmUpload, GetDownloadURL, DeleteFile>>

(* gen/voice/v1/voice.pb.gw.go *)
JoinChannel == Post("JoinChannel", <<"channels", "{channel_id}", "voice", "join">>)
LeaveChannel == DeleteQuery("LeaveChannel", <<"channels", "{channel_id}", "voice", "me">>)
GetChannelParticipants == Get("GetChannelParticipants", <<"channels", "{channel_id}", "voice", "participants">>)
StartDMCall == Post("StartDMCall", <<"channels", "{channel_id}", "calls">>)
JoinDMCall == Post("JoinDMCall", <<"channels", "{channel_id}", "calls", "join">>)
RejectDMCall == Post("RejectDMCall", <<"channels", "{channel_id}", "calls", "reject">>)
LeaveDMCall == Delete("LeaveDMCall", <<"channels", "{channel_id}", "calls", "me">>)
Mute == Put("Mute", <<"channels", "{channel_id}", "voice", "me", "mute">>)
Unmute == Delete("Unmute", <<"channels", "{channel_id}", "voice", "me", "mute">>)
Deafen == Put("Deafen", <<"channels", "{channel_id}", "voice", "me", "deaf">>)
Undeafen == Delete("Undeafen", <<"channels", "{channel_id}", "voice", "me", "deaf">>)
EnableVideo == Put("EnableVideo", <<"channels", "{channel_id}", "voice", "me", "video">>)
DisableVideo == Delete("DisableVideo", <<"channels", "{channel_id}", "voice", "me", "video">>)
StartScreenShare == Put("StartScreenShare", <<"channels", "{channel_id}", "voice", "me", "screen">>)
StopScreenShare == Delete("StopScreenShare", <<"channels", "{channel_id}", "voice", "me", "screen">>)
ServerMuteUser == Put("ServerMuteUser", <<"channels", "{channel_id}", "voice", "participants", "{target_user_id}", "mute">>)
ServerDeafenUser == Put("ServerDeafenUser", <<"channels", "{channel_id}", "voice", "participants", "{target_user_id}", "deaf">>)
DisconnectUser == Delete("DisconnectUser", <<"channels", "{channel_id}", "voice", "participants", "{target_user_id}">>)

CallRoutes == <<JoinChannel, LeaveChannel, GetChannelParticipants, StartDMCall, JoinDMCall,
                RejectDMCall, LeaveDMCall>>

VoiceStateRoutes == <<Mute, Unmute, Deafen, Undeafen, EnableVideo, DisableVideo,
                      StartScreenShare, StopScreenShare, ServerMuteUser, ServerDeafenUser,
                      DisconnectUser>>

-----------------------------------------------------------------------------

Field == {"{channel_id}", "{emoji}", "{file_id}", "{friend_id}", "{guild_id}", "{invite_code}",
          "{message_id}", "{parent_message_id}", "{permission}", "{recipient_id}",
          "{requester_user_id}", "{role_id}", "{target_id}", "{target_type}",
          "{target_user_id}", "{upload_id}", "{user_id}", "{username}"}

\* Every route, in the order of registration.
Registered ==
    AuthRoutes \o ProfileRoutes \o FriendRoutes \o GuildRoutes \o MemberRoutes \o RoleRoutes
        \o ChannelRoutes \o DMChannelRoutes \o MessageRoutes \o ReadingRoutes \o StreamRoutes
        \o SyncRoutes \o PresenceRoutes \o MediaRoutes \o CallRoutes \o VoiceStateRoutes

PathFields(route) == Range(route.path) \cap Field

\* The URL of a call: the path with its parameters filled in.
URL(route, args) ==
    [method |-> route.method, verb |-> route.verb,
     path |-> [i \in DOMAIN route.path |->
                 IF route.path[i] \in Field THEN args[route.path[i]] ELSE route.path[i]]]

Matches(route, url) ==
    /\ route.method = url.method /\ route.verb = url.verb
    /\ Len(route.path) = Len(url.path)
    /\ \A i \in DOMAIN url.path : route.path[i] \in Field \/ route.path[i] = url.path[i]

\* runtime.ServeMux: a registration goes in front of the earlier ones of its HTTP
\* method, so of several patterns that match the last one registered is taken.
Dispatch(url) ==
    LET hits == {i \in DOMAIN Registered : Matches(Registered[i], url)}
    IN  Registered[CHOOSE i \in hits : \A j \in hits : j <= i]

Param(route, url, f) == url.path[CHOOSE i \in DOMAIN url.path : route.path[i] = f]

Decoded(route, body) == IF route.rest = "body" THEN body ELSE [f \in {} |-> ""]

\* Mutant: the body is decoded after the path parameters have been set.
RequestBodyLast(route, url, body) ==
    LET decoded == Decoded(route, body)
    IN  [f \in DOMAIN decoded \cup PathFields(route) |->
            IF f \in DOMAIN decoded THEN decoded[f] ELSE Param(route, url, f)]

\* The fields of the request message that a path or a body can set: the body is
\* decoded first and the path parameters are set over it.
Request(route, url, body) ==
    LET decoded == Decoded(route, body)
    IN  [f \in DOMAIN decoded \cup PathFields(route) |->
            IF f \in PathFields(route) THEN Param(route, url, f) ELSE decoded[f]]
=============================================================================
