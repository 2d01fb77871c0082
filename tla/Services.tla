------------------------------ MODULE Services ------------------------------
(***************************************************************************)
(* The gRPC surface, from gen/*/v1/*_grpc.pb.go: the client stubs that the    *)
(* REST routes call and the full method name each of them invokes; the        *)
(* service descriptions by which the server finds a handler; and the full     *)
(* method name each handler reports to the interceptors, which look it up in  *)
(* tables of their own.  A full method name is a pair of service and method.  *)
(***************************************************************************)
EXTENDS Routes

\* The entries of f, and those of g under other names.
f ++ g == [n \in DOMAIN f \cup DOMAIN g |-> IF n \in DOMAIN f THEN f[n] ELSE g[n]]

Reporting(service, methods) == [n \in methods |-> <<service, n>>]

None == [n \in {} |-> <<>>]

Described(name, methods, streams) == [name |-> name, methods |-> methods, streams |-> streams]

\* What the client method behind each route invokes.
Stub(service, routes) == [n \in {routes[i].rpc : i \in DOMAIN routes} |-> <<service, n>>]

(* gen/auth/v1/auth_grpc.pb.go *)

AuthHandlers == Reporting("auth.v1.AuthService",
    {"Register", "VerifyOTP", "ResendOTP", "Login", "RefreshToken", "Logout",
     "ValidateToken"})
AuthService == Described("auth.v1.AuthService", AuthHandlers, None)
AuthClient == Stub("auth.v1.AuthService", AuthRoutes)

(* gen/user/v1/user_grpc.pb.go *)

ProfileHandlers == Reporting("user.v1.UserService",
    {"GetUser", "UpdateUser", "UpdateUsername", "UpdateStatus", "UploadUserAvatar",
     "DeleteUser", "GetUserByUsername", "SearchUsers"})
FriendHandlers == Reporting("user.v1.UserService",
    {"SendFriendRequest", "AcceptFriendRequest", "DeclineFriendRequest",
     "CancelFriendRequest", "RemoveFriend"})
BlockHandlers == Reporting("user.v1.UserService",
    {"BlockUser", "UnblockUser", "ListFriends", "ListPendingRequests", "ListBlocked"})
UserService ==
    Described("user.v1.UserService", ProfileHandlers ++ FriendHandlers ++ BlockHandlers, None)
UserClient == Stub("user.v1.UserService", ProfileRoutes \o FriendRoutes)

(* gen/guild/v1/guild_grpc.pb.go *)

GuildHandlers == Reporting("guild.v1.GuildService",
    {"CreateGuild", "GetGuild", "UpdateGuild", "UploadGuildIcon", "UploadGuildBanner",
     "DeleteGuild", "ListUserGuilds"})
MemberHandlers == Reporting("guild.v1.GuildService",
    {"PreviewInvite", "JoinGuild", "LeaveGuild", "ListMembers", "KickMember",
     "BanMember", "UnbanMember", "CreateInvite"})
RoleHandlers == Reporting("guild.v1.GuildService",
    {"CreateRole", "UpdateRole", "DeleteRole", "AssignRole", "RemoveRole",
     "TransferOwnership"})
PermissionHandlers == Reporting("guild.v1.GuildService",
    {"GrantPermission", "RevokePermission", "GetUserPermissions", "GrantRolePermission",
     "RevokeRolePermission"})
GuildService ==
    Described("guild.v1.GuildService", GuildHandlers ++ MemberHandlers ++ RoleHandlers ++ PermissionHandlers, None)
GuildClient == Stub("guild.v1.GuildService", GuildRoutes \o MemberRoutes \o RoleRoutes)

(* gen/channel/v1/channel_grpc.pb.go *)

ChannelHandlers == Reporting("channel.v1.ChannelService",
    {"CreateChannel", "GetChannel", "UpdateChannel", "DeleteChannel",
     "ListGuildChannels"})
DMChannelHandlers == Reporting("channel.v1.ChannelService",
    {"CreateDMChannel", "ListDMChannels", "ListDMChannelMembers",
     "ListDMChannelsWithMembers", "AddDMGroupMember", "RemoveDMGroupMember"})
OverrideHandlers == Reporting("channel.v1.ChannelService",
    {"SetChannelOverride", "DeleteChannelOverride", "ListChannelOverrides"})
ChannelService ==
    Described("channel.v1.ChannelService", ChannelHandlers ++ DMChannelHandlers ++ OverrideHandlers, None)
ChannelClient == Stub("channel.v1.ChannelService", ChannelRoutes \o DMChannelRoutes)

(* gen/message/v1/message_grpc.pb.go *)

MessageHandlers == Reporting("message.v1.MessageService",
    {"SendMessage", "GetMessage", "EditMessage", "DeleteMessage", "ListMessages",
     "PinMessage", "UnpinMessage", "AddReaction", "RemoveReaction"})
ReadingHandlers == Reporting("message.v1.MessageService",
    {"AckMessage", "StartTyping", "SendDirectMessage", "GetUnreadCounts",
     "SearchMessages", "GetThreadMessages", "BulkDeleteMessages", "GetEditHistory"})
MessageService ==
    Described("message.v1.MessageService", MessageHandlers ++ ReadingHandlers, None)
MessageClient == Stub("message.v1.MessageService", MessageRoutes \o ReadingRoutes)

(* gen/stream/v1/stream_grpc.pb.go *)

StreamHandlers == Reporting("stream.v1.StreamService",
    {"StreamDmChat", "StreamDmChannels", "StreamDmCalls", "StreamTextChannels",
     "StreamVoiceChat", "StreamGuildEvents", "StreamVoiceState", "StreamTyping",
     "StreamFriendActivity"})
StreamService == Described("stream.v1.StreamService", None, StreamHandlers)
StreamClient == Stub("stream.v1.StreamService", StreamRoutes)

(* gen/sync/v1/sync_grpc.pb.go *)

SyncHandlers == Reporting("sync.v1.SyncService", {"Sync"})
SyncService == Described("sync.v1.SyncService", SyncHandlers, None)
SyncClient == Stub("sync.v1.SyncService", SyncRoutes)

(* gen/presence/v1/presence_grpc.pb.go *)

PresenceHandlers == Reporting("presence.v1.PresenceService",
    {"UpdatePresence", "GetPresence", "GetBulkPresence"})
PresenceService == Described("presence.v1.PresenceService", PresenceHandlers, None)
PresenceClient == Stub("presence.v1.PresenceService", PresenceRoutes)

(* gen/media/v1/media_grpc.pb.go *)

MediaHandlers == Reporting("media.v1.MediaService",
    {"RequestUpload", "ConfirmUpload", "GetDownloadURL", "DeleteFile"})
MediaService == Described("media.v1.MediaService", MediaHandlers, None)
MediaClient == Stub("media.v1.MediaService", MediaRoutes)

(* gen/voice/v1/voice_grpc.pb.go *)

CallHandlers == Reporting("voice.v1.VoiceService",
    {"JoinChannel", "LeaveChannel", "GetChannelParticipants", "StartDMCall",
     "JoinDMCall", "RejectDMCall", "LeaveDMCall"})
ToggleHandlers == Reporting("voice.v1.VoiceService",
    {"Mute", "Unmute", "Deafen", "Undeafen", "EnableVideo", "DisableVideo",
     "StartScreenShare", "StopScreenShare"})
ModerationHandlers == Reporting("voice.v1.VoiceService",
    {"ServerMuteUser", "ServerDeafenUser", "DisconnectUser"})
VoiceService ==
    Described("voice.v1.VoiceService", CallHandlers ++ ToggleHandlers ++ ModerationHandlers, None)
VoiceClient == Stub("voice.v1.VoiceService", CallRoutes \o VoiceStateRoutes)

-----------------------------------------------------------------------------

\* The services registered with the server.
Services == {AuthService, UserService, GuildService, ChannelService, MessageService,
             StreamService, SyncService, PresenceService, MediaService, VoiceService}

Clients == AuthClient ++ UserClient ++ GuildClient ++ ChannelClient ++ MessageClient
             ++ StreamClient ++ SyncClient ++ PresenceClient ++ MediaClient ++ VoiceClient

Serving(full) == CHOOSE s \in Services : s.name = full[1]

IsUnary(full) == full[2] \in DOMAIN Serving(full).methods

\* The method that the interceptors see.  A stream's is the one the client has asked
\* for; a unary handler names its own.
Reported(full) == IF IsUnary(full) THEN Serving(full).methods[full[2]] ELSE full
=============================================================================
