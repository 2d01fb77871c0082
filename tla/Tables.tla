------------------------------- MODULE Tables -------------------------------
(***************************************************************************)
(* The rows that Sync reads, and the queries on them: gen/db (Postgres) and *)
(* gen/scylladb (messages).  A row is its content, its deleted mark and its *)
(* updated_at; the columns are one value, since what Sync tells apart is    *)
(* only whether the content changed.  A write query is an action, a read    *)
(* query the set of what it returns.                                        *)
(*                                                                         *)
(* NOW() is the instant a statement starts and its row is visible when the  *)
(* statement commits, so a write may become visible after later ones.       *)
(* Which RPC issues a query, and what it checks before, is modelled in      *)
(* Guild, Friends, Auth, Messages, ChannelPerms and GroupDM; here a query   *)
(* may come at any time at which the rows it needs exist.                   *)
(***************************************************************************)
EXTENDS Naturals, FiniteSets

CONSTANTS
    Users, Guilds,
    Channels,       \* guild channels
    DMs,            \* DM and group DM channels
    Roles, Messages,
    GuildOf,        \* the guild of a guild channel or a role
    ChannelOf,      \* the channel of a message
    Content         \* what the columns of a row can say

ASSUME TablesConstants ==
    /\ GuildOf \in [Channels \cup Roles -> Guilds]
    /\ ChannelOf \in [Messages -> Channels \cup DMs]
    /\ IsFiniteSet(Users)

VARIABLES
    row,            \* the stored rows
    slow,           \* writes that have started and not committed
    now             \* the clock: every write has an instant of its own

tables == <<row, slow, now>>

UserId == {"user"} \X Users
GuildId == {"guild"} \X Guilds
ChannelId == {"channel"} \X (Channels \cup DMs)
RoleId == {"role"} \X Roles
MemberId == {"member"} \X Guilds \X Users
FriendId == {<<"friend", u, v>> : u, v \in Users} \ {<<"friend", u, u>> : u \in Users}
DMMemberId == {"dmMember"} \X DMs \X Users
MessageId == {"message"} \X Messages

Id == UserId \cup GuildId \cup ChannelId \cup RoleId \cup MemberId \cup FriendId
        \cup DMMemberId \cup MessageId

FriendStatus == {"pending", "accepted", "blocked"}

\* updated_at of a message is NULL, here 0, until Deletemessage sets it.
NoRow == [val |-> "none", deleted |-> FALSE, at |-> 0]
Row == [val : Content \cup FriendStatus, deleted : BOOLEAN, at : Nat]

Exists(id) == row[id] # NoRow
Live(id) == Exists(id) /\ ~row[id].deleted

\* The rows that a row of guild_members or friendships REFERENCES.
Refers(id) ==
    IF id \in MemberId THEN {<<"guild", id[2]>>, <<"user", id[3]>>}
    ELSE IF id \in FriendId THEN {<<"user", id[2]>>, <<"user", id[3]>>} ELSE {}

\* Rows that the schema and the queries can have left: a stamp is in the past, only a
\* message lacks one, and a reference leads somewhere.
Consistent ==
    /\ row \in [Id -> Row \cup {NoRow}]
    /\ \A id \in Id :
        Exists(id) => /\ row[id].at <= now
                      /\ row[id].at = 0 => id \in MessageId
                      /\ \A e \in Refers(id) : Exists(e)

NoWrite == [id \in {} |-> NoRow]

Replacing(w) == [id \in Id |-> IF id \in DOMAIN w THEN w[id] ELSE row[id]]

-----------------------------------------------------------------------------
(* What a statement does to the rows it selects. *)

\* The statement commits at once, or holds its row locks for a while.
Store(w) ==
    /\ DOMAIN w # {} /\ DOMAIN w \cap DOMAIN slow = {}
    /\ now' = now + 1
    /\ \/ row' = Replacing(w) /\ UNCHANGED slow
       \/ slow = NoWrite /\ slow' = w /\ UNCHANGED row

Commit ==
    /\ slow # NoWrite
    /\ row' = Replacing(slow)
    /\ slow' = NoWrite
    /\ UNCHANGED now

StoreRow(id, r) == Store([i \in {id} |-> r])

\* INSERT with updated_at DEFAULT NOW().
Insert(id, v) == ~Exists(id) /\ StoreRow(id, [val |-> v, deleted |-> FALSE, at |-> now + 1])

\* INSERT ... ON CONFLICT DO UPDATE SET deleted = FALSE, updated_at = NOW().
Upsert(id, v) == StoreRow(id, [val |-> v, deleted |-> FALSE, at |-> now + 1])

\* UPDATE ... SET deleted = TRUE, updated_at = NOW().
Tombstone(id) == Exists(id) /\ StoreRow(id, [row[id] EXCEPT !.deleted = TRUE, !.at = now + 1])

\* UPDATE of columns, with and without updated_at = NOW().
Touch(id, v) == Exists(id) /\ StoreRow(id, [row[id] EXCEPT !.val = v, !.at = now + 1])
Change(id, v) == Exists(id) /\ StoreRow(id, [row[id] EXCEPT !.val = v])

-----------------------------------------------------------------------------
(* gen/db/users.sql.go *)

CreateUser(u, v) == Insert(<<"user", u>>, v)

UpdateUser(u, v) == Touch(<<"user", u>>, v)

VerifyUser(u, v) == Touch(<<"user", u>>, v)

DeleteUser(u) == Tombstone(<<"user", u>>)

(* gen/db/guilds.sql.go *)

CreateGuild(g, v) == Insert(<<"guild", g>>, v)

UpdateGuild(g, v) == Change(<<"guild", g>>, v)

TransferGuildOwnership(g, v) == Change(<<"guild", g>>, v)

DeleteGuild(g) == Tombstone(<<"guild", g>>)

AddGuildMember(g, u, v) ==
    Exists(<<"guild", g>>) /\ Exists(<<"user", u>>) /\ Upsert(<<"member", g, u>>, v)

RemoveGuildMember(g, u) == Tombstone(<<"member", g, u>>)

ListUserGuilds(u) == {g \in Guilds : Live(<<"member", g, u>>) /\ Live(<<"guild", g>>)}

\* Mutant: former members are listed.
ListGuildMembersAll(g) == {u \in Users : Exists(<<"member", g, u>>)}

\* All pages of the list together: LIMIT and OFFSET (50 rows a page by default,
\* guild/service.go:622) cut it.
ListGuildMembers(g) == {u \in Users : Live(<<"member", g, u>>)}

CountGuildMembers(g) == Cardinality(ListGuildMembers(g))

(* gen/db/roles.sql.go *)

CreateRole(r, v) == Exists(<<"guild", GuildOf[r]>>) /\ Insert(<<"role", r>>, v)

UpdateRole(r, v) == Change(<<"role", r>>, v)

DeleteRole(r) == Tombstone(<<"role", r>>)

ListGuildRoles(g) == {r \in Roles : GuildOf[r] = g /\ Live(<<"role", r>>)}

(* gen/db/channels.sql.go *)

CreateChannel(c, v) == Exists(<<"guild", GuildOf[c]>>) /\ Insert(<<"channel", c>>, v)

CreateDMChannel(c, v) == Insert(<<"channel", c>>, v)

UpdateChannel(c, v) == Change(<<"channel", c>>, v)

DeleteChannel(c) == Tombstone(<<"channel", c>>)

AddDMChannelMember(c, u, v) ==
    Exists(<<"channel", c>>) /\ Exists(<<"user", u>>) /\ Upsert(<<"dmMember", c, u>>, v)

RemoveDMChannelMember(c, u) == Tombstone(<<"dmMember", c, u>>)

ListGuildChannels(g) == {c \in Channels : GuildOf[c] = g /\ Live(<<"channel", c>>)}

ListDMChannels(u) == {c \in DMs : Live(<<"channel", c>>) /\ Live(<<"dmMember", c, u>>)}

GetDMChannelMembers(c) == {u \in Users : Live(<<"dmMember", c, u>>)}

(* gen/db/friendships.sql.go *)

CreateFriendship(u, v, s) ==
    /\ u # v /\ Exists(<<"user", u>>) /\ Exists(<<"user", v>>)
    /\ Upsert(<<"friend", u, v>>, s)

UpdateFriendshipStatus(u, v, s) == u # v /\ Change(<<"friend", u, v>>, s)

Edges(u, v) == {id \in {<<"friend", u, v>>, <<"friend", v, u>>} : Exists(id)}

\* Both directions at once.
DeleteFriendship(u, v) ==
    /\ u # v
    /\ Store([id \in Edges(u, v) |-> [row[id] EXCEPT !.deleted = TRUE, !.at = now + 1]])

HasStatus(id, s) == Live(id) /\ row[id].val = s

ListFriends(u) ==
    {v \in Users \ {u} : \E id \in Edges(u, v) : HasStatus(id, "accepted")}

ListPendingIncoming(u) == {v \in Users \ {u} : HasStatus(<<"friend", v, u>>, "pending")}

ListPendingOutgoing(u) == {v \in Users \ {u} : HasStatus(<<"friend", u, v>>, "pending")}

ListBlocked(u) == {v \in Users \ {u} : HasStatus(<<"friend", u, v>>, "blocked")}

(* gen/scylladb/message.go *)

Createmessage(m, v) ==
    /\ Live(<<"channel", ChannelOf[m]>>)
    /\ ~Exists(<<"message", m>>)
    /\ StoreRow(<<"message", m>>, [val |-> v, deleted |-> FALSE, at |-> 0])

Updatemessagecontent(m, v) == Live(<<"message", m>>) /\ Change(<<"message", m>>, v)

Setpinned(m, v) == Live(<<"message", m>>) /\ Change(<<"message", m>>, v)

Deletemessage(m) == Live(<<"message", m>>) /\ Tombstone(<<"message", m>>)

\* Which of the messages of a channel have an updated_at after an instant.
Getmessagessince(c, since) ==
    {id \in MessageId : ChannelOf[id[2]] = c /\ Exists(id) /\ row[id].at > since}

-----------------------------------------------------------------------------

\* Any handler's write, on any row.
Write ==
    \/ \E u \in Users, v \in Content :
         CreateUser(u, v) \/ UpdateUser(u, v) \/ VerifyUser(u, v) \/ DeleteUser(u)
    \/ \E g \in Guilds, v \in Content :
         \/ CreateGuild(g, v) \/ UpdateGuild(g, v) \/ TransferGuildOwnership(g, v) \/ DeleteGuild(g)
         \/ \E u \in Users : AddGuildMember(g, u, v) \/ RemoveGuildMember(g, u)
    \/ \E r \in Roles, v \in Content : CreateRole(r, v) \/ UpdateRole(r, v) \/ DeleteRole(r)
    \/ \E c \in Channels, v \in Content : CreateChannel(c, v)
    \/ \E c \in Channels \cup DMs, v \in Content : UpdateChannel(c, v) \/ DeleteChannel(c)
    \/ \E c \in DMs, v \in Content :
         \/ CreateDMChannel(c, v)
         \/ \E u \in Users : AddDMChannelMember(c, u, v) \/ RemoveDMChannelMember(c, u)
    \/ \E u, v \in Users, s \in FriendStatus :
         CreateFriendship(u, v, s) \/ UpdateFriendshipStatus(u, v, s) \/ DeleteFriendship(u, v)
    \/ \E m \in Messages, v \in Content :
         Createmessage(m, v) \/ Updatemessagecontent(m, v) \/ Setpinned(m, v) \/ Deletemessage(m)
=============================================================================
