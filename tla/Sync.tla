-------------------------------- MODULE Sync --------------------------------
(***************************************************************************)
(* The Sync RPC (internal/features/sync/handler.go) and the client that     *)
(* keeps a copy of its rows with it.  The handler notes the time, then runs  *)
(* one query after the other while other handlers write (module Tables); a   *)
(* query that fails is left out of the answer.  The client merges the rows   *)
(* it is sent and keeps the time as the cursor of its next call.             *)
(***************************************************************************)
EXTENDS Tables

CONSTANTS
    Me,             \* the user who syncs
    MaxNow,         \* bound: the clock, hence the writes of a behaviour
    MaxFaults       \* bound: queries that fail

ASSUME SyncConstants ==
    /\ Me \in Users
    /\ MaxNow \in Nat
    /\ MaxFaults \in Nat

VARIABLES
    sync,           \* the running Sync call
    known,          \* the rows the client has
    cursor,         \* last_sync_time of the client's next call
    faults,
    excused,        \* history: why the last change of a row may stay unreported
    current         \* history: the client has applied a first Sync, no query of which
                    \*          failed, and nothing was written since it began

vars == <<tables, sync, known, cursor, faults, excused, current>>

NoRows == [id \in {} |-> NoRow]

Idle == [pc |-> "idle", since |-> 0, time |-> 0, resp |-> NoRows, failed |-> {},
         guilds |-> {}, chans |-> {}, calm |-> FALSE]

Queries == {"SyncUsers", "SyncGuilds", "SyncChannels", "SyncRoles", "SyncGuildMembers",
            "SyncFriendships", "SyncDmMembers", "guildsForMsg", "ListGuildChannels",
            "ListDMChannels", "GetMessagesSince"}

SyncTypeOK ==
    /\ row \in [Id -> Row \cup {NoRow}]
    /\ DOMAIN slow \subseteq Id /\ \A id \in DOMAIN slow : slow[id] \in Row
    /\ now \in 0..MaxNow
    /\ sync.pc \in Queries \cup {"idle", "reply"}
    /\ DOMAIN sync.resp \subseteq Id /\ \A id \in DOMAIN sync.resp : sync.resp[id] \in Row
    /\ sync.since \in 0..MaxNow /\ sync.time \in 0..MaxNow /\ sync.calm \in BOOLEAN
    /\ sync.failed \subseteq Id
    /\ sync.guilds \subseteq Guilds /\ sync.chans \subseteq Channels \cup DMs
    /\ known \in [Id -> Row \cup {NoRow}]
    /\ cursor \in 0..MaxNow
    /\ faults \in 0..MaxFaults
    /\ excused \in [Id -> {"none", "unstamped", "late", "failed"}]
    /\ current \in BOOLEAN

\* A client that has synced nothing yet, of tables that have been in use.
Init ==
    /\ now \in 1..MaxNow
    /\ Consistent
    /\ slow = NoWrite
    /\ sync = Idle
    /\ known = [id \in Id |-> NoRow]
    /\ cursor = 0
    /\ faults = 0
    /\ excused = [id \in Id |-> IF id \in MessageId THEN "unstamped" ELSE "none"]
    /\ current = FALSE

-----------------------------------------------------------------------------
(* gen/db/sync.sql.go: the rows a query returns. *)

After(ids, since) == {id \in ids : Exists(id) /\ row[id].at > since}

MyGuilds == {g \in Guilds : Live(<<"member", g, Me>>)}
MyDMs == {c \in DMs : Live(<<"dmMember", c, Me>>)}

\* The profiles of the user, of friends in any state, and of everyone who is or was
\* a member of a guild of the user.
SyncUsers(since) ==
    {id \in After(UserId, since) :
        \/ id[2] = Me
        \/ \E e \in Edges(Me, id[2]) : Live(e)
        \/ \E g \in MyGuilds : Exists(<<"member", g, id[2]>>)}

SyncGuilds(since) == {id \in After(GuildId, since) : id[2] \in MyGuilds}

SyncChannels(since) ==
    {id \in After(ChannelId, since) :
        id[2] \in MyDMs \/ (id[2] \in Channels /\ GuildOf[id[2]] \in MyGuilds)}

SyncRoles(since) == {id \in After(RoleId, since) : GuildOf[id[2]] \in MyGuilds}

SyncGuildMembers(since) == {id \in After(MemberId, since) : id[2] \in MyGuilds}

\* The cursor is commented out of this query.
SyncFriendships(since) == {id \in FriendId : Exists(id) /\ Me \in {id[2], id[3]}}

SyncDmMembers(since) == {id \in After(DMMemberId, since) : id[2] \in MyDMs}

MessagesOf(cs) == {id \in MessageId : ChannelOf[id[2]] \in cs}

-----------------------------------------------------------------------------
(* The handler. *)

\* Mutant: server_time is taken when the answer is complete.
ServerTimeLate == now

\* What the answer carries as server_time.
ServerTime == sync.time

\* The client calls Sync with its cursor; the handler notes the time first.
StartSync ==
    /\ sync.pc = "idle"
    /\ sync' = [Idle EXCEPT !.pc = "SyncUsers", !.since = cursor, !.time = now, !.calm = TRUE]
    /\ UNCHANGED <<tables, known, cursor, faults, excused, current>>

\* A query of the handler succeeds, or fails and its rows are left out of the answer.
Ask(pc, success, failure, about) ==
    /\ sync.pc = pc
    /\ \/ sync' = success /\ UNCHANGED faults
       \/ /\ faults < MaxFaults /\ faults' = faults + 1
          /\ sync' = [failure EXCEPT !.failed = @ \cup about]
    /\ UNCHANGED <<tables, known, cursor, excused, current>>

Answer(ids) ==
    [id \in DOMAIN sync.resp \cup ids |-> IF id \in ids THEN row[id] ELSE sync.resp[id]]

Pull(pc, ids, about, next) ==
    Ask(pc, [sync EXCEPT !.resp = Answer(ids), !.pc = next], [sync EXCEPT !.pc = next], about)

\* The status that Redis holds for an online user is laid over the one of the row
\* (handler.go:74-79): it is no content of the row, and no row is added or left out.
PullUsers == Pull("SyncUsers", SyncUsers(sync.since), UserId, "SyncGuilds")

PullGuilds == Pull("SyncGuilds", SyncGuilds(sync.since), GuildId, "SyncChannels")

PullChannels == Pull("SyncChannels", SyncChannels(sync.since), ChannelId, "SyncRoles")

PullRoles == Pull("SyncRoles", SyncRoles(sync.since), RoleId, "SyncGuildMembers")

PullGuildMembers ==
    Pull("SyncGuildMembers", SyncGuildMembers(sync.since), MemberId, "SyncFriendships")

PullFriendships ==
    Pull("SyncFriendships", SyncFriendships(sync.since), FriendId, "SyncDmMembers")

PullDmMembers == Pull("SyncDmMembers", SyncDmMembers(sync.since), DMMemberId, "guildsForMsg")

WithGuilds(gs) ==
    [sync EXCEPT !.guilds = gs,
                 !.pc = IF gs = {} THEN "ListDMChannels" ELSE "ListGuildChannels"]

WithChannels(cs) ==
    [sync EXCEPT !.chans = cs, !.pc = IF cs = {} THEN "reply" ELSE "GetMessagesSince"]

\* SyncGuilds again, from the epoch: every guild of the user, deleted ones too.
GuildsForMsg ==
    Ask("guildsForMsg", WithGuilds({id[2] : id \in SyncGuilds(0)}), WithGuilds({}),
        MessagesOf(Channels))

ChannelsForMsg ==
    \E g \in sync.guilds :
        LET rest == WithGuilds(sync.guilds \ {g})
        IN  Ask("ListGuildChannels", [rest EXCEPT !.chans = @ \cup ListGuildChannels(g)], rest,
                MessagesOf({c \in Channels : GuildOf[c] = g}))

DMsForMsg ==
    Ask("ListDMChannels", WithChannels(sync.chans \cup ListDMChannels(Me)),
        WithChannels(sync.chans), MessagesOf(DMs))

PullMessages ==
    \E c \in sync.chans :
        LET rest == WithChannels(sync.chans \ {c})
        IN  Ask("GetMessagesSince",
                [rest EXCEPT !.resp = Answer(Getmessagessince(c, sync.since))], rest,
                MessagesOf({c}))

-----------------------------------------------------------------------------
(* The client. *)

\* The answer arrives: rows replace the copies, the cursor moves to server_time.
Receive ==
    /\ sync.pc = "reply"
    /\ known' = [id \in Id |-> IF id \in DOMAIN sync.resp THEN sync.resp[id] ELSE known[id]]
    /\ cursor' = ServerTime
    /\ excused' = [id \in Id |-> IF id \in sync.failed /\ excused[id] # "late"
                                  THEN "failed" ELSE excused[id]]
    /\ current' = (sync.calm /\ sync.since = 0 /\ sync.failed = {})
    /\ sync' = Idle
    /\ UNCHANGED <<tables, faults>>

\* The answer is lost and the client starts over.  A call that is cancelled earlier
\* leaves as little behind, since the handler only reads.
LoseReply ==
    /\ sync.pc = "reply"
    /\ sync' = Idle
    /\ UNCHANGED <<tables, known, cursor, faults, excused, current>>

\* Why the change of a row that this step makes visible may go unreported: it left
\* updated_at alone, or its updated_at is already behind a server_time.
Excuse(id) ==
    IF row'[id] = row[id] THEN excused[id]
    ELSE IF row'[id].at = row[id].at
         THEN IF excused[id] = "late" THEN "late" ELSE "unstamped"
    ELSE IF row'[id].at <= cursor \/ (sync.pc # "idle" /\ row'[id].at <= sync.time)
         THEN "late" ELSE "none"

OtherHandlers ==
    /\ (Write /\ now < MaxNow) \/ Commit
    /\ excused' = [id \in Id |-> Excuse(id)]
    /\ IF row' = row THEN UNCHANGED <<sync, current>>
       ELSE sync' = [sync EXCEPT !.calm = FALSE] /\ current' = FALSE
    /\ UNCHANGED <<known, cursor, faults>>

Handler ==
    \/ StartSync
    \/ PullUsers \/ PullGuilds \/ PullChannels \/ PullRoles \/ PullGuildMembers
    \/ PullFriendships \/ PullDmMembers
    \/ GuildsForMsg \/ ChannelsForMsg \/ DMsForMsg \/ PullMessages

Next == Handler \/ Receive \/ LoseReply \/ OtherHandlers

Spec == Init /\ [][Next]_vars

-----------------------------------------------------------------------------
(* What the client may rely on. *)

InGuild(g) == {{<<"member", g, Me>>}}
InDM(c) == {{<<"dmMember", c, Me>>}}
InChannel(c) == {w \cup {<<"channel", c>>} : w \in IF c \in DMs THEN InDM(c) ELSE InGuild(GuildOf[c])}

\* The sets of rows any of which, while they are live, gives Me a view of a row.
Ways(id) ==
    CASE id \in UserId /\ id[2] = Me -> {{}}
      [] id \in UserId /\ id[2] # Me ->
            {{e} : e \in Edges(Me, id[2])}
                \cup {{<<"member", g, Me>>, <<"member", g, id[2]>>} : g \in Guilds}
      [] id \in GuildId \cup MemberId -> InGuild(id[2])
      [] id \in RoleId -> InGuild(GuildOf[id[2]])
      [] id \in ChannelId -> IF id[2] \in DMs THEN InDM(id[2]) ELSE InGuild(GuildOf[id[2]])
      [] id \in FriendId -> IF Me \in {id[2], id[3]} THEN {{}} ELSE {}
      [] id \in DMMemberId -> InDM(id[2])
      [] id \in MessageId -> InChannel(ChannelOf[id[2]])

\* A row that Me could already see when it was last stamped, if it ever was.
Followed(id) ==
    \E w \in Ways(id) : \A e \in w :
        /\ Live(e)
        /\ e = id \/ row[id].at = 0 \/ (excused[e] # "late" /\ row[e].at < row[id].at)

Stale(id) == Exists(id) /\ known[id] # row[id]

\* Whatever is written while the queries of a Sync run, and whatever answers are lost,
\* a row that the user could see when it was stamped and whose change the client has
\* not got has an updated_at after the cursor, so the next Sync returns it.  The
\* exceptions are exactly: a query that leaves updated_at alone, a statement that
\* commits after a later server_time was noted, and a failed query.
NothingSkipped ==
    \A id \in Id :
        Stale(id) /\ Followed(id) /\ excused[id] = "none" => row[id].at > cursor

Known(id) == known[id] # NoRow /\ ~known[id].deleted

\* The first Sync of a client, when nothing is written meanwhile and no query fails,
\* shows the same guilds, members, channels, roles, DMs and friends as the list RPCs
\* do, and the profile of everyone in a guild of the user and of every friend.
FirstSyncMatchesLists ==
    current =>
        /\ ListUserGuilds(Me) = {g \in Guilds : Known(<<"guild", g>>)}
        /\ \A g \in ListUserGuilds(Me) :
              /\ ListGuildMembers(g) = {u \in Users : Known(<<"member", g, u>>)}
              /\ CountGuildMembers(g) = Cardinality({id \in MemberId : id[2] = g /\ Known(id)})
              /\ ListGuildChannels(g) = {c \in Channels : GuildOf[c] = g /\ Known(<<"channel", c>>)}
              /\ ListGuildRoles(g) = {r \in Roles : GuildOf[r] = g /\ Known(<<"role", r>>)}
              /\ \A u \in ListGuildMembers(g) : known[<<"user", u>>] # NoRow
        /\ ListDMChannels(Me) =
              {c \in DMs : Known(<<"channel", c>>) /\ Known(<<"dmMember", c, Me>>)}
        /\ \A c \in ListDMChannels(Me) :
              GetDMChannelMembers(c) = {u \in Users : Known(<<"dmMember", c, u>>)}
        /\ LET Marked(u, v, st) == Known(<<"friend", u, v>>) /\ known[<<"friend", u, v>>].val = st
               Others == Users \ {Me}
           IN  /\ ListFriends(Me) = {v \in Others : Marked(Me, v, "accepted") \/ Marked(v, Me, "accepted")}
               /\ ListPendingIncoming(Me) = {v \in Others : Marked(v, Me, "pending")}
               /\ ListPendingOutgoing(Me) = {v \in Others : Marked(Me, v, "pending")}
               /\ ListBlocked(Me) = {v \in Others : Marked(Me, v, "blocked")}
               /\ \A v \in ListFriends(Me) : known[<<"user", v>>] # NoRow
=============================================================================
