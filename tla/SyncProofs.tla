----------------------------- MODULE SyncProofs -----------------------------
(***************************************************************************)
(* Proofs that Sync skips nothing (NothingSkipped) and that a first Sync    *)
(* shows what the list RPCs show (FirstSyncMatchesLists), for any tables,   *)
(* any number of writes between and during the queries and any failures.    *)
(*                                                                         *)
(* A row is due by an instant when the client must have it once its cursor  *)
(* is there.  Another handler's write can make a row stop being due by the  *)
(* cursor, or by the server_time of the running call, and never makes one   *)
(* due (DueShrinks): a new stamp is later, or the history calls it late.    *)
(* So what is due by server_time was already there to be read by whichever  *)
(* query came to it, and SyncInv says of every such row that the answer     *)
(* has it as stored, or its query is still to come, or failed.              *)
(***************************************************************************)
EXTENDS Sync, FiniteSetTheorems, TLAPS

DueBy(id, t) == Exists(id) /\ Followed(id) /\ excused[id] = "none" /\ row[id].at <= t

-----------------------------------------------------------------------------
(* The inductive invariant. *)

Rows == UNION {[S -> Row] : S \in SUBSET Id}

Call == [pc : Queries \cup {"idle", "reply"}, since : 0..MaxNow, time : 0..MaxNow,
         resp : Rows, failed : SUBSET Id, guilds : SUBSET Guilds,
         chans : SUBSET (Channels \cup DMs), calm : BOOLEAN]

\* SyncTypeOK, with the types of functions and records spelled out.
TypeInv ==
    /\ row \in [Id -> Row \cup {NoRow}]
    /\ slow \in Rows
    /\ now \in 0..MaxNow
    /\ sync \in Call
    /\ known \in [Id -> Row \cup {NoRow}]
    /\ cursor \in 0..MaxNow
    /\ faults \in 0..MaxFaults
    /\ excused \in [Id -> {"none", "unstamped", "late", "failed"}]
    /\ current \in BOOLEAN

\* Consistent, of the writes under way too: stamps are in the past, references lead
\* somewhere, and only a message may lack a stamp, which the history knows.
TablesInv ==
    /\ \A id \in Id :
        Exists(id) => /\ row[id].at <= now
                      /\ row[id].at = 0 => id \in MessageId /\ excused[id] # "none"
                      /\ \A x \in Refers(id) : Exists(x)
    /\ \A id \in DOMAIN slow :
        /\ slow[id].at <= now
        /\ slow[id].at = 0 => id \in MessageId
        /\ \A x \in Refers(id) : Exists(x)

\* A write of these rows changes whether one is live only with its stamp.
Stamped(w) ==
    \A e \in DOMAIN w :
        w[e].at = row[e].at => e \in MessageId \/ (Exists(e) /\ w[e].deleted = row[e].deleted)

\* The channels whose messages the running call may still ask for.
ChannelsAhead ==
    CASE sync.pc = "reply" -> {}
      [] sync.pc = "GetMessagesSince" -> sync.chans
      [] sync.pc = "ListDMChannels" -> sync.chans \cup DMs
      [] sync.pc = "ListGuildChannels" ->
            sync.chans \cup DMs \cup {c \in Channels : GuildOf[c] \in sync.guilds}
      [] OTHER -> Channels \cup DMs

\* The rows whose query is still to come.
Ahead ==
    MessagesOf(ChannelsAhead) \cup
    (CASE sync.pc = "SyncUsers" -> Id \ MessageId
       [] sync.pc = "SyncGuilds" -> Id \ (MessageId \cup UserId)
       [] sync.pc = "SyncChannels" ->
            ChannelId \cup RoleId \cup MemberId \cup FriendId \cup DMMemberId
       [] sync.pc = "SyncRoles" -> RoleId \cup MemberId \cup FriendId \cup DMMemberId
       [] sync.pc = "SyncGuildMembers" -> MemberId \cup FriendId \cup DMMemberId
       [] sync.pc = "SyncFriendships" -> FriendId \cup DMMemberId
       [] sync.pc = "SyncDmMembers" -> DMMemberId
       [] OTHER -> {})

SyncInv ==
    sync.pc # "idle" =>
        /\ sync.since = cursor
        /\ \A id \in Id :
            DueBy(id, sync.time) =>
                /\ id \in DOMAIN sync.resp => sync.resp[id] = row[id]
                /\ row[id].at > sync.since /\ id \notin sync.failed =>
                        id \in DOMAIN sync.resp \/ id \in Ahead

Inv == TypeInv /\ TablesInv /\ Stamped(slow) /\ SyncInv /\ NothingSkipped

-----------------------------------------------------------------------------
(* The kinds of row, and the ways to see one. *)

\* An id tells what it is the id of.
LEMMA KindOf ==
  ASSUME NEW id \in Id
  PROVE  /\ id \in UserId => id[1] = "user" /\ id[2] \in Users /\ id = <<"user", id[2]>>
         /\ id \in GuildId => id[1] = "guild" /\ id[2] \in Guilds /\ id = <<"guild", id[2]>>
         /\ id \in ChannelId => id[1] = "channel" /\ id[2] \in Channels \cup DMs
         /\ id \in RoleId => id[1] = "role" /\ id[2] \in Roles
         /\ id \in MemberId => id[1] = "member" /\ id[2] \in Guilds /\ id[3] \in Users
         /\ id \in FriendId => id[1] = "friend" /\ id[2] \in Users /\ id[3] \in Users
         /\ id \in DMMemberId => id[1] = "dmMember" /\ id[2] \in DMs
         /\ id \in MessageId => id[1] = "message" /\ id[2] \in Messages
BY DEF UserId, GuildId, ChannelId, RoleId, MemberId, FriendId, DMMemberId, MessageId

LEMMA KindsCover ==
  ASSUME NEW id \in Id
  PROVE  \/ id \in UserId \/ id \in GuildId \/ id \in ChannelId \/ id \in RoleId
         \/ id \in MemberId \/ id \in FriendId \/ id \in DMMemberId \/ id \in MessageId
BY DEF Id

\* Ids that queries put together.
LEMMA IdsExist ==
  /\ \A u \in Users : <<"user", u>> \in Id /\ <<"user", u>> \in UserId
  /\ \A g \in Guilds : <<"guild", g>> \in Id /\ <<"guild", g>> \in GuildId
  /\ \A c \in Channels \cup DMs : <<"channel", c>> \in Id /\ <<"channel", c>> \in ChannelId
  /\ \A r \in Roles : <<"role", r>> \in Id /\ <<"role", r>> \in RoleId
  /\ \A g \in Guilds, u \in Users : <<"member", g, u>> \in Id /\ <<"member", g, u>> \in MemberId
  /\ \A u, v \in Users : u # v => <<"friend", u, v>> \in Id /\ <<"friend", u, v>> \in FriendId
  /\ \A c \in DMs, u \in Users : <<"dmMember", c, u>> \in Id /\ <<"dmMember", c, u>> \in DMMemberId
  /\ \A m \in Messages : <<"message", m>> \in Id /\ <<"message", m>> \in MessageId
BY DEF Id, UserId, GuildId, ChannelId, RoleId, MemberId, FriendId, DMMemberId, MessageId

LEMMA Subkinds ==
  /\ UserId \subseteq Id /\ GuildId \subseteq Id /\ ChannelId \subseteq Id /\ RoleId \subseteq Id
  /\ MemberId \subseteq Id /\ FriendId \subseteq Id /\ DMMemberId \subseteq Id
  /\ MessageId \subseteq Id
BY DEF Id

LEMMA ReferredIds ==
  ASSUME NEW id \in Id, NEW x \in Refers(id)
  PROVE  x \in Id /\ x \notin MessageId
<1>1. \/ id \in MemberId /\ (x = <<"guild", id[2]>> \/ x = <<"user", id[3]>>)
      \/ id \in FriendId /\ (x = <<"user", id[2]>> \/ x = <<"user", id[3]>>)
  BY DEF Refers
<1>2. x \in GuildId \/ x \in UserId
  BY <1>1, KindOf, IdsExist
<1> QED BY <1>2, Subkinds, KindOf

\* Only memberships and friendships refer to other rows.
LEMMA RefersOf ==
  ASSUME NEW id \in Id
  PROVE  /\ id \in MemberId => Refers(id) = {<<"guild", id[2]>>, <<"user", id[3]>>}
         /\ id \in FriendId => Refers(id) = {<<"user", id[2]>>, <<"user", id[3]>>}
         /\ id \notin MemberId /\ id \notin FriendId => Refers(id) = {}
BY KindOf DEF Refers

\* Ways, kind by kind.
LEMMA WaysOf ==
  ASSUME NEW id \in Id
  PROVE  /\ id \in UserId /\ id[2] = Me => Ways(id) = {{}}
         /\ id \in UserId /\ id[2] # Me =>
                Ways(id) = {{e} : e \in Edges(Me, id[2])}
                    \cup {{<<"member", g, Me>>, <<"member", g, id[2]>>} : g \in Guilds}
         /\ id \in GuildId \/ id \in MemberId => Ways(id) = {{<<"member", id[2], Me>>}}
         /\ id \in RoleId => Ways(id) = {{<<"member", GuildOf[id[2]], Me>>}}
         /\ id \in ChannelId => Ways(id) = IF id[2] \in DMs THEN {{<<"dmMember", id[2], Me>>}}
                                           ELSE {{<<"member", GuildOf[id[2]], Me>>}}
         /\ id \in FriendId => Ways(id) = IF Me \in {id[2], id[3]} THEN {{}} ELSE {}
         /\ id \in DMMemberId => Ways(id) = {{<<"dmMember", id[2], Me>>}}
         /\ id \in MessageId => Ways(id) = InChannel(ChannelOf[id[2]])
<1>1. CASE id \in UserId
  BY <1>1, KindOf DEF Ways
<1>2. CASE id \in GuildId
  BY <1>2, KindOf DEF Ways, InGuild
<1>3. CASE id \in MemberId
  BY <1>3, KindOf DEF Ways, InGuild
<1>4. CASE id \in RoleId
  BY <1>4, KindOf DEF Ways, InGuild
<1>5. CASE id \in ChannelId
  BY <1>5, KindOf DEF Ways, InGuild, InDM
<1>6. CASE id \in FriendId
  BY <1>6, KindOf DEF Ways
<1>7. CASE id \in DMMemberId
  BY <1>7, KindOf DEF Ways, InDM
<1>8. CASE id \in MessageId
  BY <1>8, KindOf DEF Ways
<1> QED BY <1>1, <1>2, <1>3, <1>4, <1>5, <1>6, <1>7, <1>8, KindsCover

LEMMA ChannelWays ==
  ASSUME NEW c \in Channels \cup DMs
  PROVE  InChannel(c) = IF c \in DMs THEN {{<<"dmMember", c, Me>>, <<"channel", c>>}}
                        ELSE {{<<"member", GuildOf[c], Me>>, <<"channel", c>>}}
BY DEF InChannel, InDM, InGuild

LEMMA UserWays ==
  ASSUME NEW id \in UserId, id[2] # Me, NEW e,
         \/ e = <<"friend", Me, id[2]>> \/ e = <<"friend", id[2], Me>>
         \/ \E g \in Guilds : e = <<"member", g, Me>> \/ e = <<"member", g, id[2]>>
  PROVE  e \in Id /\ e \notin MessageId
<1>1. id[2] \in Users
  BY KindOf, Subkinds
<1>2. e \in FriendId \/ e \in MemberId
  BY <1>1, IdsExist, SyncConstants
<1> QED BY <1>2, KindOf, Subkinds

\* No way to see a row is a message.
LEMMA WaysAreIds ==
  ASSUME NEW id \in Id, NEW p \in Ways(id), NEW e \in p
  PROVE  e \in Id /\ e \notin MessageId
<1> USE SyncConstants, TablesConstants
<1>1. CASE id \in UserId
  <2>1. CASE id[2] = Me
    BY <1>1, <2>1, WaysOf
  <2>2. CASE id[2] # Me
    <3>1. \/ e \in Edges(Me, id[2])
          \/ \E g \in Guilds : e \in {<<"member", g, Me>>, <<"member", g, id[2]>>}
      BY <1>1, <2>2, WaysOf
    <3> QED BY <3>1, <1>1, <2>2, UserWays DEF Edges
  <2> QED BY <2>1, <2>2
<1>2. CASE id \in GuildId \/ id \in MemberId
  <2>1. e = <<"member", id[2], Me>> /\ id[2] \in Guilds
    BY <1>2, WaysOf, KindOf
  <2> QED BY <2>1, IdsExist, KindOf
<1>3. CASE id \in RoleId
  <2>1. e = <<"member", GuildOf[id[2]], Me>> /\ GuildOf[id[2]] \in Guilds
    BY <1>3, WaysOf, KindOf
  <2> QED BY <2>1, IdsExist, KindOf
<1>4. CASE id \in ChannelId
  <2>1. CASE id[2] \in DMs
    <3>1. e = <<"dmMember", id[2], Me>>
      BY <1>4, <2>1, WaysOf
    <3> QED BY <3>1, <2>1, IdsExist, KindOf
  <2>2. CASE id[2] \notin DMs
    <3>1. e = <<"member", GuildOf[id[2]], Me>> /\ GuildOf[id[2]] \in Guilds
      BY <1>4, <2>2, WaysOf, KindOf
    <3> QED BY <3>1, IdsExist, KindOf
  <2> QED BY <2>1, <2>2
<1>5. CASE id \in FriendId
  BY <1>5, WaysOf
<1>6. CASE id \in DMMemberId
  <2>1. e = <<"dmMember", id[2], Me>> /\ id[2] \in DMs
    BY <1>6, WaysOf, KindOf
  <2> QED BY <2>1, IdsExist, KindOf
<1>7. CASE id \in MessageId
  <2> DEFINE c == ChannelOf[id[2]]
  <2>1. c \in Channels \cup DMs /\ Ways(id) = InChannel(c)
    BY <1>7, WaysOf, KindOf
  <2>2. e = <<"channel", c>> \/ (c \in DMs /\ e = <<"dmMember", c, Me>>)
          \/ (c \in Channels /\ e = <<"member", GuildOf[c], Me>>)
    BY <2>1, ChannelWays
  <2>3. c \in Channels => GuildOf[c] \in Guilds
    OBVIOUS
  <2> HIDE DEF c
  <2>4. e \in ChannelId \/ e \in DMMemberId \/ e \in MemberId
    BY <2>1, <2>2, <2>3, IdsExist
  <2> QED BY <2>4, Subkinds, KindOf
<1> QED BY <1>1, <1>2, <1>3, <1>4, <1>5, <1>6, <1>7, KindsCover

\* The ways depend on the tables only in that a friendship row has to be there.
LEMMA WaysStep ==
  ASSUME NEW id \in Id, NEW p \in Ways(id)', \A e \in p : Exists(e)
  PROVE  p \in Ways(id)
<1>1. CASE id \in UserId
  <2>1. CASE id[2] = Me
    BY <1>1, <2>1, KindOf DEF Ways
  <2>2. CASE id[2] # Me
    <3>1. \/ \E e \in Edges(Me, id[2])' : p = {e}
          \/ \E g \in Guilds : p = {<<"member", g, Me>>, <<"member", g, id[2]>>}
      BY <1>1, <2>2, KindOf DEF Ways
    <3>2. ASSUME NEW e \in Edges(Me, id[2])', p = {e}
          PROVE  e \in Edges(Me, id[2])
      BY <3>2 DEF Edges
    <3>3. \/ \E e \in Edges(Me, id[2]) : p = {e}
          \/ \E g \in Guilds : p = {<<"member", g, Me>>, <<"member", g, id[2]>>}
      BY <3>1, <3>2
    <3>4. Ways(id) = {{e} : e \in Edges(Me, id[2])}
                    \cup {{<<"member", g, Me>>, <<"member", g, id[2]>>} : g \in Guilds}
      BY <1>1, <2>2, WaysOf
    <3>5. CASE \E e \in Edges(Me, id[2]) : p = {e}
      BY <3>4, <3>5
    <3>6. CASE \E g \in Guilds : p = {<<"member", g, Me>>, <<"member", g, id[2]>>}
      BY <3>4, <3>6
    <3> QED BY <3>3, <3>5, <3>6
  <2> QED BY <2>1, <2>2
<1>2. CASE id \notin UserId
  <2>1. Ways(id)' = Ways(id)
    BY <1>2 DEF Ways, InGuild, InDM, InChannel
  <2> QED BY <2>1
<1> QED BY <1>1, <1>2

LEMMA WaysAreIdsNext ==
  ASSUME NEW id \in Id, NEW p \in Ways(id)', NEW e \in p
  PROVE  e \in Id /\ e \notin MessageId
<1>1. CASE id \in UserId
  <2>1. CASE id[2] = Me
    BY <1>1, <2>1, KindOf DEF Ways
  <2>2. CASE id[2] # Me
    <3>1. \/ e \in Edges(Me, id[2])'
          \/ \E g \in Guilds : e \in {<<"member", g, Me>>, <<"member", g, id[2]>>}
      BY <1>1, <2>2, KindOf DEF Ways
    <3> QED BY <3>1, <1>1, <2>2, UserWays DEF Edges
  <2> QED BY <2>1, <2>2
<1>2. CASE id \notin UserId
  <2>1. Ways(id)' = Ways(id)
    BY <1>2 DEF Ways, InGuild, InDM, InChannel
  <2> QED BY <2>1, WaysAreIds
<1> QED BY <1>1, <1>2

-----------------------------------------------------------------------------
(* A write does not make a row due. *)

\* The rows that a step makes visible, when it makes any visible.
Landing(w) ==
    /\ row' = Replacing(w)
    /\ DOMAIN w \subseteq Id
    /\ \A e \in DOMAIN w : w[e] \in Row
    /\ Stamped(w)

LEMMA RowAt ==
  ASSUME TypeInv, NEW id \in Id
  PROVE  row[id].at \in Nat
<1>1. row[id] \in Row \/ row[id] = NoRow
  BY DEF TypeInv
<1> QED BY <1>1 DEF Row, NoRow

LEMMA LandingRow ==
  ASSUME TypeInv, NEW w, Landing(w), NEW e \in Id, row'[e] # row[e]
  PROVE  /\ e \in DOMAIN w /\ row'[e] = w[e]
         /\ row'[e].at \in Nat
         /\ row'[e].at = row[e].at =>
                e \in MessageId \/ (Exists(e) /\ row'[e].deleted = row[e].deleted)
<1>1. row'[e] = IF e \in DOMAIN w THEN w[e] ELSE row[e]
  BY DEF Landing, Replacing
<1>2. e \in DOMAIN w /\ row'[e] = w[e] /\ w[e] \in Row
  BY <1>1 DEF Landing
<1>3. row'[e].at \in Nat
  BY <1>2 DEF Row
<1> QED BY <1>2, <1>3 DEF Landing, Stamped

\* What the history says of a row that changes.
LEMMA ExcusedRow ==
  ASSUME TypeInv, NEW e \in Id, excused' = [id \in Id |-> Excuse(id)]
  PROVE  /\ row'[e] = row[e] => excused'[e] = excused[e]
         /\ row'[e] # row[e] /\ row'[e].at = row[e].at =>
                excused'[e] # "none" /\ (excused'[e] = "late" <=> excused[e] = "late")
         /\ row'[e] # row[e] /\ row'[e].at # row[e].at /\ excused'[e] # "late" =>
                ~(row'[e].at <= cursor) /\ (sync.pc # "idle" => ~(row'[e].at <= sync.time))
BY DEF Excuse

\* The instants up to which the client has, or is about to have, everything due.
Noted(t) == t = cursor \/ (sync.pc # "idle" /\ t = sync.time)

LEMMA NotedIsNat ==
  ASSUME TypeInv, NEW t, Noted(t)
  PROVE  t \in Nat
BY SyncConstants DEF Noted, TypeInv, Call

\* The row and every row of the way to it were there already, as far as the way needs.
LEMMA DueShrinks ==
  ASSUME TypeInv, TablesInv, NEW w, Landing(w), excused' = [id \in Id |-> Excuse(id)],
         NEW t, Noted(t), NEW id \in Id, DueBy(id, t)'
  PROVE  DueBy(id, t) /\ row'[id] = row[id]
<1>1. Exists(id)' /\ excused'[id] = "none" /\ row'[id].at <= t /\ Followed(id)'
  BY DEF DueBy
<1>2. t \in Nat
  BY NotedIsNat
<1>3. row'[id] = row[id]
  <2> SUFFICES ASSUME row'[id] # row[id] PROVE FALSE
    OBVIOUS
  <2>1. row'[id].at # row[id].at /\ excused'[id] # "late"
    BY <1>1, ExcusedRow
  <2> QED BY <2>1, <1>1, ExcusedRow DEF Noted
<1>4. excused[id] = "none" /\ Exists(id) /\ row[id].at <= t /\ row[id].at # 0
  BY <1>1, <1>3, ExcusedRow DEF Exists, TablesInv
<1>5. PICK p \in Ways(id)' : \A e \in p :
            /\ Live(e)'
            /\ e = id \/ row'[id].at = 0 \/ (excused'[e] # "late" /\ row'[e].at < row'[id].at)
  BY <1>1 DEF Followed
<1>6. \A e \in p : e \in Id /\ e \notin MessageId
  BY <1>5, WaysAreIdsNext
<1>7. ASSUME NEW e \in p
      PROVE  Live(e) /\ (e = id \/ (excused[e] # "late" /\ row[e].at < row[id].at))
  <2>1. CASE row'[e] = row[e]
    BY <2>1, <1>3, <1>4, <1>5, <1>6, ExcusedRow DEF Live, Exists
  <2>2. CASE row'[e] # row[e]
    <3>1. e # id /\ excused'[e] # "late" /\ row'[e].at < row[id].at /\ e \in Id
      BY <2>2, <1>3, <1>4, <1>5, <1>6
    <3>2. row'[e].at \in Nat /\ row[id].at \in Nat /\ row[e].at \in Nat
      BY <3>1, <2>2, LandingRow, RowAt
    <3>3. row'[e].at = row[e].at
      <4> SUFFICES ASSUME row'[e].at # row[e].at PROVE FALSE
        OBVIOUS
      <4>1. ~(row'[e].at <= t)
        BY <3>1, <2>2, ExcusedRow DEF Noted
      <4> QED BY <4>1, <3>1, <3>2, <1>2, <1>4
    <3>4. Exists(e) /\ row'[e].deleted = row[e].deleted
      BY <3>3, <3>1, <2>2, <1>6, LandingRow
    <3>5. excused[e] # "late"
      BY <3>1, <3>3, <2>2, ExcusedRow
    <3> QED BY <3>1, <3>3, <3>4, <3>5, <1>5 DEF Live
  <2> QED BY <2>1, <2>2
<1>8. p \in Ways(id)
  BY <1>5, <1>7, WaysStep DEF Live
<1>9. Followed(id)
  BY <1>7, <1>8 DEF Followed
<1> QED BY <1>3, <1>4, <1>9 DEF DueBy

-----------------------------------------------------------------------------
(* What the queries write. *)

\* A row that a statement may write: stamped with its instant, or else no more than the
\* columns change; and what it refers to is there.
GoodRow(id, r) ==
    /\ r \in Row
    /\ \/ r.at = now + 1
       \/ /\ r.at = row[id].at
          /\ id \in MessageId \/ (Exists(id) /\ r.deleted = row[id].deleted)
    /\ \A x \in Refers(id) : Exists(x)

Good(w) == w \in Rows /\ \A e \in DOMAIN w : GoodRow(e, w[e])

StoresGood == \E w : Store(w) /\ Good(w)

LEMMA StoreGoodRow ==
  ASSUME NEW id \in Id, NEW r, StoreRow(id, r), GoodRow(id, r)
  PROVE  StoresGood
<1> DEFINE w == [i \in {id} |-> r]
<1>1. w \in Rows
  <2>1. w \in [{id} -> Row]
    BY DEF GoodRow
  <2> QED BY <2>1 DEF Rows
<1>2. DOMAIN w = {id} /\ w[id] = r
  OBVIOUS
<1>3. Store(w)
  BY DEF StoreRow
<1> HIDE DEF w
<1>4. Good(w)
  BY <1>1, <1>2 DEF Good
<1> QED BY <1>3, <1>4 DEF StoresGood

LEMMA ExistingRow ==
  ASSUME TypeInv, NEW id \in Id, Exists(id)
  PROVE  row[id] \in Row
BY DEF TypeInv, Exists

LEMMA FreshRow ==
  ASSUME TypeInv, NEW id \in Id, NEW v \in Content \cup FriendStatus,
         \A x \in Refers(id) : Exists(x),
         Insert(id, v) \/ Upsert(id, v)
  PROVE  StoresGood
<1> DEFINE r == [val |-> v, deleted |-> FALSE, at |-> now + 1]
<1>1. r \in Row
  BY SyncConstants DEF Row, TypeInv
<1>2. GoodRow(id, r)
  BY <1>1 DEF GoodRow
<1>3. StoreRow(id, r)
  BY DEF Insert, Upsert
<1> HIDE DEF r
<1> QED BY <1>2, <1>3, StoreGoodRow

LEMMA MarkedRow ==
  ASSUME TypeInv, TablesInv, NEW id \in Id, Exists(id)
  PROVE  GoodRow(id, [row[id] EXCEPT !.deleted = TRUE, !.at = now + 1])
<1>1. row[id] \in Row
  BY ExistingRow
<1>2. now + 1 \in Nat
  BY SyncConstants DEF TypeInv
<1>3. [row[id] EXCEPT !.deleted = TRUE, !.at = now + 1] \in Row
  BY <1>1, <1>2 DEF Row
<1>4. [row[id] EXCEPT !.deleted = TRUE, !.at = now + 1].at = now + 1
  BY <1>1 DEF Row
<1> QED BY <1>3, <1>4 DEF GoodRow, TablesInv

LEMMA TombstoneRow ==
  ASSUME TypeInv, TablesInv, NEW id \in Id, Tombstone(id)
  PROVE  StoresGood
BY MarkedRow, StoreGoodRow DEF Tombstone

LEMMA UpdatedRow ==
  ASSUME TypeInv, TablesInv, NEW id \in Id, NEW v \in Content \cup FriendStatus,
         Touch(id, v) \/ Change(id, v)
  PROVE  StoresGood
<1>1. Exists(id) /\ row[id] \in Row
  BY ExistingRow DEF Touch, Change
<1>2. now + 1 \in Nat
  BY SyncConstants DEF TypeInv
<1>3. \A x \in Refers(id) : Exists(x)
  BY <1>1 DEF TablesInv
<1>4. CASE Touch(id, v)
  <2> DEFINE r == [row[id] EXCEPT !.val = v, !.at = now + 1]
  <2>1. r \in Row /\ r.at = now + 1
    BY <1>1, <1>2 DEF Row
  <2>2. StoreRow(id, r)
    BY <1>4 DEF Touch
  <2> HIDE DEF r
  <2> QED BY <2>1, <2>2, <1>3, StoreGoodRow DEF GoodRow
<1>5. CASE Change(id, v)
  <2> DEFINE r == [row[id] EXCEPT !.val = v]
  <2>1. r \in Row /\ r.at = row[id].at /\ r.deleted = row[id].deleted
    BY <1>1 DEF Row
  <2>2. StoreRow(id, r)
    BY <1>5 DEF Change
  <2> HIDE DEF r
  <2> QED BY <2>1, <2>2, <1>1, <1>3, StoreGoodRow DEF GoodRow
<1> QED BY <1>4, <1>5

LEMMA UnfriendedRows ==
  ASSUME TypeInv, TablesInv, NEW u \in Users, NEW v \in Users, DeleteFriendship(u, v)
  PROVE  StoresGood
<1> DEFINE S == Edges(u, v)
           f(id) == [row[id] EXCEPT !.deleted = TRUE, !.at = now + 1]
           w == [id \in S |-> f(id)]
<1>1. \A id \in S : id \in Id /\ Exists(id)
  BY IdsExist DEF DeleteFriendship, Edges
<1>2. \A id \in S : GoodRow(id, f(id))
  BY <1>1, MarkedRow
<1>3. Store(w)
  BY DEF DeleteFriendship
<1> HIDE DEF S, f
<1>4. DOMAIN w = S /\ \A id \in S : w[id] = f(id)
  OBVIOUS
<1>5. w \in Rows
  <2>1. \A id \in S : f(id) \in Row
    BY <1>2 DEF GoodRow
  <2>2. w \in [S -> Row]
    BY <2>1
  <2> QED BY <2>2, <1>1 DEF Rows
<1> HIDE DEF w
<1> QED BY <1>2, <1>3, <1>4, <1>5 DEF Good, StoresGood

LEMMA CreatedMessage ==
  ASSUME TypeInv, TablesInv, NEW m \in Messages, NEW v \in Content, Createmessage(m, v)
  PROVE  StoresGood
<1> DEFINE id == <<"message", m>>
           r == [val |-> v, deleted |-> FALSE, at |-> 0]
<1>1. id \in Id /\ id \in MessageId
  BY IdsExist
<1>2. r \in Row /\ r.at = 0
  BY DEF Row
<1>3. row[id].at = 0
  BY DEF Createmessage, Exists, NoRow
<1>4. StoreRow(id, r)
  BY DEF Createmessage
<1>5. Refers(id) = {}
  BY <1>1, KindOf, RefersOf
<1> HIDE DEF id, r
<1> QED BY <1>1, <1>2, <1>3, <1>4, <1>5, StoreGoodRow DEF GoodRow

LEMMA WriteStores ==
  ASSUME TypeInv, TablesInv, Write
  PROVE  StoresGood
<1>1. ASSUME NEW u \in Users, NEW v \in Content,
             CreateUser(u, v) \/ UpdateUser(u, v) \/ VerifyUser(u, v) \/ DeleteUser(u)
      PROVE  StoresGood
  <2>1. <<"user", u>> \in Id /\ Refers(<<"user", u>>) = {}
    BY IdsExist, KindOf, RefersOf
  <2> QED BY <1>1, <2>1, FreshRow, UpdatedRow, TombstoneRow
          DEF CreateUser, UpdateUser, VerifyUser, DeleteUser
<1>2. ASSUME NEW g \in Guilds, NEW v \in Content,
             \/ CreateGuild(g, v) \/ UpdateGuild(g, v)
             \/ TransferGuildOwnership(g, v) \/ DeleteGuild(g)
      PROVE  StoresGood
  <2>1. <<"guild", g>> \in Id /\ Refers(<<"guild", g>>) = {}
    BY IdsExist, KindOf, RefersOf
  <2> QED BY <1>2, <2>1, FreshRow, UpdatedRow, TombstoneRow
          DEF CreateGuild, UpdateGuild, TransferGuildOwnership, DeleteGuild
<1>3. ASSUME NEW g \in Guilds, NEW u \in Users, NEW v \in Content,
             AddGuildMember(g, u, v) \/ RemoveGuildMember(g, u)
      PROVE  StoresGood
  <2>1. <<"member", g, u>> \in Id
          /\ Refers(<<"member", g, u>>) = {<<"guild", g>>, <<"user", u>>}
    BY IdsExist, RefersOf
  <2> QED BY <1>3, <2>1, FreshRow, TombstoneRow DEF AddGuildMember, RemoveGuildMember
<1>4. ASSUME NEW r \in Roles, NEW v \in Content,
             CreateRole(r, v) \/ UpdateRole(r, v) \/ DeleteRole(r)
      PROVE  StoresGood
  <2>1. <<"role", r>> \in Id /\ Refers(<<"role", r>>) = {}
    BY IdsExist, KindOf, RefersOf
  <2> QED BY <1>4, <2>1, FreshRow, UpdatedRow, TombstoneRow
          DEF CreateRole, UpdateRole, DeleteRole
<1>5. ASSUME NEW c \in Channels \cup DMs, NEW v \in Content,
             \/ c \in Channels /\ CreateChannel(c, v)
             \/ CreateDMChannel(c, v) \/ UpdateChannel(c, v) \/ DeleteChannel(c)
      PROVE  StoresGood
  <2>1. <<"channel", c>> \in Id /\ Refers(<<"channel", c>>) = {}
    BY IdsExist, KindOf, RefersOf
  <2> QED BY <1>5, <2>1, FreshRow, UpdatedRow, TombstoneRow
          DEF CreateChannel, CreateDMChannel, UpdateChannel, DeleteChannel
<1>6. ASSUME NEW c \in DMs, NEW u \in Users, NEW v \in Content,
             AddDMChannelMember(c, u, v) \/ RemoveDMChannelMember(c, u)
      PROVE  StoresGood
  <2>1. <<"dmMember", c, u>> \in Id /\ Refers(<<"dmMember", c, u>>) = {}
    BY IdsExist, KindOf, RefersOf
  <2> QED BY <1>6, <2>1, FreshRow, TombstoneRow DEF AddDMChannelMember, RemoveDMChannelMember
<1>7. ASSUME NEW u \in Users, NEW v \in Users, NEW st \in FriendStatus,
             CreateFriendship(u, v, st) \/ UpdateFriendshipStatus(u, v, st)
      PROVE  StoresGood
  <2>1. <<"friend", u, v>> \in Id
          /\ Refers(<<"friend", u, v>>) = {<<"user", u>>, <<"user", v>>}
    BY <1>7, IdsExist, RefersOf DEF CreateFriendship, UpdateFriendshipStatus
  <2> QED BY <1>7, <2>1, FreshRow, UpdatedRow DEF CreateFriendship, UpdateFriendshipStatus
<1>8. ASSUME NEW m \in Messages, NEW v \in Content,
             \/ Createmessage(m, v) \/ Updatemessagecontent(m, v)
             \/ Setpinned(m, v) \/ Deletemessage(m)
      PROVE  StoresGood
  <2>1. <<"message", m>> \in Id
    BY IdsExist
  <2> QED BY <1>8, <2>1, CreatedMessage, UpdatedRow, TombstoneRow
          DEF Updatemessagecontent, Setpinned, Deletemessage
<1> QED BY <1>1, <1>2, <1>3, <1>4, <1>5, <1>6, <1>7, <1>8, UnfriendedRows DEF Write

\* What the write of a handler does: it starts and does not commit yet, or lands.
LEMMA StoreCases ==
  ASSUME TypeInv, TablesInv, Stamped(slow), NEW w, Store(w), Good(w)
  PROVE  \/ row' = row /\ slow' = w
         \/ Landing(w) /\ slow' = slow
<1>1. DOMAIN w \subseteq Id /\ \A e \in DOMAIN w : w[e] \in Row
  BY DEF Good, GoodRow, Rows
<1>2. Stamped(w)
  <2> SUFFICES ASSUME NEW e \in DOMAIN w, w[e].at = row[e].at
               PROVE  e \in MessageId \/ (Exists(e) /\ w[e].deleted = row[e].deleted)
    BY DEF Stamped
  <2>1. CASE w[e].at = now + 1
    <3>1. now \in Nat /\ row[e].at \in Nat /\ row[e].at <= now
      <4>1. Exists(e) => row[e].at <= now
        BY <1>1 DEF TablesInv
      <4>2. ~Exists(e) => row[e].at = 0
        BY DEF Exists, NoRow
      <4>3. now \in Nat /\ row[e].at \in Nat
        BY <1>1, RowAt, SyncConstants DEF TypeInv
      <4> QED BY <4>1, <4>2, <4>3
    <3> QED BY <2>1, <3>1
  <2>2. CASE w[e].at # now + 1
    BY <2>2 DEF Good, GoodRow
  <2> QED BY <2>1, <2>2
<1> QED BY <1>1, <1>2 DEF Store, Landing

LEMMA CommitLands ==
  ASSUME TypeInv, Stamped(slow), Commit
  PROVE  Landing(slow)
<1>1. DOMAIN slow \subseteq Id /\ \A e \in DOMAIN slow : slow[e] \in Row
  BY DEF TypeInv, Rows
<1> QED BY <1>1 DEF Commit, Landing

-----------------------------------------------------------------------------
(* Steps of the other handlers. *)

LEMMA OtherKinds ==
  ASSUME TypeInv, TablesInv, Stamped(slow), OtherHandlers
  PROVE  \/ \E w : /\ Good(w) /\ row' = row /\ slow' = w
                   /\ now' = now + 1 /\ now < MaxNow
         \/ \E w : /\ Good(w) /\ Landing(w) /\ DOMAIN w \cap DOMAIN slow = {}
                   /\ slow' = slow /\ now' = now + 1 /\ now < MaxNow
         \/ Landing(slow) /\ slow' = NoWrite /\ now' = now
<1>1. CASE Write /\ now < MaxNow
  <2>1. PICK w : Store(w) /\ Good(w)
    BY <1>1, WriteStores DEF StoresGood
  <2>2. DOMAIN w \cap DOMAIN slow = {} /\ now' = now + 1
    BY <2>1 DEF Store
  <2> QED BY <1>1, <2>1, <2>2, StoreCases
<1>2. CASE Commit
  BY <1>2, CommitLands DEF Commit
<1> QED BY <1>1, <1>2 DEF OtherHandlers

LEMMA LandedRows ==
  ASSUME TypeInv, NEW w, Landing(w)
  PROVE  row' \in [Id -> Row \cup {NoRow}]
BY DEF Landing, Replacing, TypeInv

\* The running call goes on as it was.
LEMMA OtherSync ==
  ASSUME TypeInv, OtherHandlers
  PROVE  /\ sync' \in Call /\ current' \in BOOLEAN
         /\ sync'.pc = sync.pc /\ sync'.since = sync.since /\ sync'.time = sync.time
         /\ sync'.resp = sync.resp /\ sync'.failed = sync.failed
         /\ sync'.guilds = sync.guilds /\ sync'.chans = sync.chans
<1>1. sync \in Call /\ current \in BOOLEAN
  BY DEF TypeInv
<1>2. CASE row' = row
  <2>1. sync' = sync /\ current' = current
    BY <1>2 DEF OtherHandlers
  <2> QED BY <1>1, <2>1
<1>3. CASE row' # row
  <2>1. sync' = [sync EXCEPT !.calm = FALSE] /\ current' = FALSE
    BY <1>3 DEF OtherHandlers
  <2> QED BY <1>1, <2>1 DEF Call
<1> QED BY <1>2, <1>3

LEMMA NoRowsIsRows ==
  NoRows \in Rows /\ NoWrite \in Rows /\ DOMAIN NoRows = {} /\ DOMAIN NoWrite = {}
<1>1. NoRows \in [{} -> Row] /\ NoWrite \in [{} -> Row]
  BY DEF NoRows, NoWrite
<1> QED BY <1>1 DEF Rows, NoRows, NoWrite

LEMMA OtherType ==
  ASSUME TypeInv, TablesInv, Stamped(slow), OtherHandlers
  PROVE  TypeInv'
<1>1. row' \in [Id -> Row \cup {NoRow}]
  BY OtherKinds, LandedRows DEF TypeInv
<1>2. slow' \in Rows
  BY OtherKinds, NoRowsIsRows DEF Good, TypeInv
<1>3. now' \in 0..MaxNow
  BY OtherKinds, SyncConstants DEF TypeInv
<1>4. sync' \in Call /\ current' \in BOOLEAN
  BY OtherSync
<1>5. excused' \in [Id -> {"none", "unstamped", "late", "failed"}]
  <2>1. \A id \in Id : Excuse(id) \in {"none", "unstamped", "late", "failed"}
    BY DEF Excuse, TypeInv
  <2>2. excused' = [id \in Id |-> Excuse(id)]
    BY DEF OtherHandlers
  <2> HIDE DEF Excuse
  <2> QED BY <2>1, <2>2
<1>6. known' = known /\ cursor' = cursor /\ faults' = faults
  BY DEF OtherHandlers
<1> QED BY <1>1, <1>2, <1>3, <1>4, <1>5, <1>6 DEF TypeInv

\* Rows are never taken away.
LEMMA LandedExists ==
  ASSUME TypeInv, TablesInv, NEW w, Landing(w), NEW id \in Id, NEW e \in Refers(id), Exists(e),
         \A i \in DOMAIN w : w[i].at = 0 => i \in MessageId
  PROVE  Exists(e)'
<1>1. e \in Id /\ e \notin MessageId
  BY ReferredIds
<1>2. row'[e] = row[e] \/ (e \in DOMAIN w /\ row'[e] = w[e])
  BY <1>1 DEF Landing, Replacing
<1>3. CASE row'[e] = row[e]
  BY <1>3 DEF Exists
<1>4. CASE e \in DOMAIN w /\ row'[e] = w[e]
  BY <1>1, <1>4 DEF Exists, NoRow
<1> QED BY <1>2, <1>3, <1>4

LEMMA LandedTables ==
  ASSUME TypeInv, TablesInv, NEW w, Landing(w), excused' = [id \in Id |-> Excuse(id)],
         now' \in Nat, now <= now',
         \A e \in DOMAIN w : /\ w[e].at <= now'
                             /\ w[e].at = 0 => e \in MessageId
                             /\ \A x \in Refers(e) : Exists(x),
         NEW id \in Id, Exists(id)'
  PROVE  /\ row'[id].at <= now'
         /\ row'[id].at = 0 => id \in MessageId /\ excused'[id] # "none"
         /\ \A x \in Refers(id) : Exists(x)'
<1>1. row'[id] = row[id] \/ (id \in DOMAIN w /\ row'[id] = w[id])
  BY DEF Landing, Replacing
<1>2. row'[id].at <= now'
  <2>1. CASE row'[id] = row[id]
    <3>1. row[id].at <= now
      BY <2>1 DEF Exists, TablesInv
    <3>2. row[id].at \in Nat /\ now \in Nat
      BY RowAt, SyncConstants DEF TypeInv
    <3> QED BY <2>1, <3>1, <3>2
  <2> QED BY <2>1, <1>1
<1>3. row'[id].at = 0 => id \in MessageId /\ excused'[id] # "none"
  <2> SUFFICES ASSUME row'[id].at = 0
               PROVE  id \in MessageId /\ excused'[id] # "none"
    OBVIOUS
  <2>1. CASE row'[id] = row[id]
    BY <2>1, ExcusedRow DEF Exists, TablesInv
  <2>2. CASE row'[id] # row[id]
    <3>1. id \in MessageId
      BY <1>1, <2>2
    <3>2. CASE row[id].at = 0
      BY <2>2, <3>1, <3>2, ExcusedRow
    <3>3. CASE row[id].at # 0
      <4>1. excused'[id] = "late"
        <5>1. ~(row'[id].at <= cursor) => FALSE
          BY SyncConstants DEF TypeInv
        <5> QED BY <5>1, <2>2, <3>3, ExcusedRow
      <4> QED BY <3>1, <4>1
    <3> QED BY <3>2, <3>3
  <2> QED BY <2>1, <2>2
<1>4. \A x \in Refers(id) : Exists(x)'
  <2>1. \A x \in Refers(id) : Exists(x)
    BY <1>1 DEF Exists, TablesInv
  <2> QED BY <2>1, LandedExists
<1> QED BY <1>2, <1>3, <1>4

LEMMA GoodStamps ==
  ASSUME TypeInv, TablesInv, NEW w, Good(w), NEW e \in DOMAIN w
  PROVE  /\ e \in Id
         /\ w[e].at <= now + 1
         /\ w[e].at = 0 => e \in MessageId
         /\ \A x \in Refers(e) : Exists(x)
<1>1. e \in Id /\ GoodRow(e, w[e])
  BY DEF Good, Rows
<1>2. now \in Nat /\ row[e].at \in Nat
  BY <1>1, RowAt, SyncConstants DEF TypeInv
<1>3. Exists(e) => row[e].at <= now /\ (row[e].at = 0 => e \in MessageId)
  BY <1>1 DEF TablesInv
<1>4. ~Exists(e) => row[e].at = 0
  BY DEF Exists, NoRow
<1>5. w[e].at = now + 1 \/ (w[e].at = row[e].at /\ (e \in MessageId \/ Exists(e)))
  BY <1>1 DEF GoodRow
<1>6. w[e].at <= now + 1
  BY <1>2, <1>3, <1>4, <1>5
<1>7. w[e].at = 0 => e \in MessageId
  BY <1>2, <1>3, <1>5
<1> QED BY <1>1, <1>6, <1>7 DEF GoodRow

LEMMA OtherTables ==
  ASSUME TypeInv, TablesInv, Stamped(slow), OtherHandlers
  PROVE  TablesInv'
<1>1. excused' = [id \in Id |-> Excuse(id)]
  BY DEF OtherHandlers
<1>2. now \in Nat
  BY SyncConstants DEF TypeInv
<1>3. DOMAIN slow \subseteq Id /\ \A e \in DOMAIN slow : slow[e].at \in Nat
  <2>1. \A e \in DOMAIN slow : slow[e] \in Row
    BY DEF TypeInv, Rows
  <2> QED BY <2>1 DEF TypeInv, Rows, Row
<1>4. ASSUME NEW w, Good(w), row' = row, slow' = w, now' = now + 1
      PROVE  TablesInv'
  <2>1. \A id \in Id : Exists(id)' => Exists(id) /\ excused'[id] = excused[id]
    BY <1>1, <1>4, ExcusedRow DEF Exists
  <2>2. \A id \in Id : Exists(id) => row[id].at <= now + 1
    <3> SUFFICES ASSUME NEW id \in Id, Exists(id) PROVE row[id].at <= now + 1
      OBVIOUS
    <3>1. row[id].at <= now /\ row[id].at \in Nat
      BY RowAt DEF TablesInv
    <3> QED BY <3>1, <1>2
  <2>3. \A id \in Id :
          Exists(id)' => /\ row'[id].at <= now'
                         /\ row'[id].at = 0 => id \in MessageId /\ excused'[id] # "none"
                         /\ \A x \in Refers(id) : Exists(x)'
    BY <1>4, <2>1, <2>2 DEF TablesInv, Exists
  <2>4. \A e \in DOMAIN slow' : /\ slow'[e].at <= now'
                                /\ slow'[e].at = 0 => e \in MessageId
                                /\ \A x \in Refers(e) : Exists(x)'
    BY <1>4, GoodStamps DEF Exists
  <2> QED BY <2>3, <2>4 DEF TablesInv
<1>5. ASSUME NEW w, Good(w), Landing(w), slow' = slow, now' = now + 1
      PROVE  TablesInv'
  <2>1. \A e \in DOMAIN w : /\ w[e].at <= now'
                            /\ w[e].at = 0 => e \in MessageId
                            /\ \A x \in Refers(e) : Exists(x)
    BY <1>5, GoodStamps
  <2>2. now' \in Nat /\ now <= now'
    BY <1>2, <1>5
  <2>3. \A id \in Id :
          Exists(id)' => /\ row'[id].at <= now'
                         /\ row'[id].at = 0 => id \in MessageId /\ excused'[id] # "none"
                         /\ \A x \in Refers(id) : Exists(x)'
    BY <1>1, <1>5, <2>1, <2>2, LandedTables
  <2>4. ASSUME NEW e \in DOMAIN slow PROVE slow[e].at <= now'
    <3>1. slow[e].at <= now /\ slow[e].at \in Nat
      BY <1>3 DEF TablesInv
    <3> QED BY <3>1, <1>2, <1>5
  <2>5. \A e \in DOMAIN slow : \A x \in Refers(e) : Exists(x)'
    BY <1>3, <1>5, <2>1, LandedExists DEF TablesInv
  <2> QED BY <1>5, <2>3, <2>4, <2>5 DEF TablesInv
<1>6. ASSUME Landing(slow), slow' = NoWrite, now' = now
      PROVE  TablesInv'
  <2>1. \A e \in DOMAIN slow : /\ slow[e].at <= now'
                               /\ slow[e].at = 0 => e \in MessageId
                               /\ \A x \in Refers(e) : Exists(x)
    BY <1>6 DEF TablesInv
  <2>2. now' \in Nat /\ now <= now'
    BY <1>2, <1>6
  <2>3. \A id \in Id :
          Exists(id)' => /\ row'[id].at <= now'
                         /\ row'[id].at = 0 => id \in MessageId /\ excused'[id] # "none"
                         /\ \A x \in Refers(id) : Exists(x)'
    BY <1>1, <1>6, <2>1, <2>2, LandedTables
  <2> QED BY <1>6, <2>3, NoRowsIsRows DEF TablesInv
<1> QED BY <1>4, <1>5, <1>6, OtherKinds

LEMMA OtherStamped ==
  ASSUME TypeInv, TablesInv, Stamped(slow), OtherHandlers
  PROVE  Stamped(slow)'
<1>1. ASSUME NEW w, Good(w), row' = row, slow' = w
      PROVE  Stamped(slow)'
  <2> SUFFICES ASSUME NEW e \in DOMAIN w, w[e].at = row[e].at
               PROVE  e \in MessageId \/ (Exists(e) /\ w[e].deleted = row[e].deleted)
    BY <1>1 DEF Stamped, Exists
  <2>1. e \in Id /\ GoodRow(e, w[e])
    BY <1>1 DEF Good, Rows
  <2>2. w[e].at # now + 1
    <3>1. now \in Nat /\ row[e].at \in Nat
      BY <2>1, RowAt, SyncConstants DEF TypeInv
    <3>2. Exists(e) => row[e].at <= now
      BY <2>1 DEF TablesInv
    <3>3. ~Exists(e) => row[e].at = 0
      BY DEF Exists, NoRow
    <3> QED BY <3>1, <3>2, <3>3
  <2> QED BY <2>1, <2>2 DEF GoodRow
<1>2. ASSUME NEW w, Landing(w), DOMAIN w \cap DOMAIN slow = {}, slow' = slow
      PROVE  Stamped(slow)'
  <2>1. \A e \in DOMAIN slow : e \in Id /\ row'[e] = row[e]
    BY <1>2 DEF Landing, Replacing, TypeInv, Rows
  <2> QED BY <1>2, <2>1 DEF Stamped, Exists
<1>3. ASSUME slow' = NoWrite
      PROVE  Stamped(slow)'
  BY <1>3, NoRowsIsRows DEF Stamped
<1> QED BY <1>1, <1>2, <1>3, OtherKinds

LEMMA OtherDue ==
  ASSUME TypeInv, TablesInv, Stamped(slow), OtherHandlers,
         NEW t, Noted(t), NEW id \in Id, DueBy(id, t)'
  PROVE  DueBy(id, t) /\ row'[id] = row[id]
<1>1. excused' = [i \in Id |-> Excuse(i)]
  BY DEF OtherHandlers
<1>2. row' = row => Landing(NoWrite)
  <2> SUFFICES ASSUME row' = row PROVE Landing(NoWrite)
    OBVIOUS
  <2>1. Replacing(NoWrite) = row
    BY NoRowsIsRows DEF Replacing, TypeInv
  <2> QED BY <2>1, NoRowsIsRows DEF Landing, Stamped
<1>3. \E w : Landing(w)
  BY <1>2, OtherKinds
<1> QED BY <1>1, <1>3, DueShrinks

LEMMA OtherSyncInv ==
  ASSUME Inv, OtherHandlers
  PROVE  SyncInv'
<1> USE DEF Inv
<1>1. cursor' = cursor
  BY DEF OtherHandlers
<1>2. Ahead' = Ahead
  BY OtherSync DEF Ahead, ChannelsAhead, MessagesOf
<1>3. ASSUME sync.pc # "idle", NEW id \in Id, DueBy(id, sync.time)'
      PROVE  DueBy(id, sync.time) /\ row'[id] = row[id]
  <2>1. PICK t : t = sync.time
    OBVIOUS
  <2>2. DueBy(id, t)' /\ Noted(t)
    BY <1>3, <2>1, OtherSync DEF DueBy, Noted
  <2>3. DueBy(id, t) /\ row'[id] = row[id]
    BY <2>2, OtherDue
  <2> QED BY <2>1, <2>3
<1> QED BY <1>1, <1>2, <1>3, OtherSync DEF SyncInv

\* In terms of what is due: the client has every row due by its cursor.
LEMMA SkippedIsDue ==
  ASSUME TypeInv
  PROVE  NothingSkipped <=> \A id \in Id : DueBy(id, cursor) => known[id] = row[id]
<1>1. \A id \in Id : row[id].at > cursor <=> ~(row[id].at <= cursor)
  BY RowAt, SyncConstants DEF TypeInv
<1> QED BY <1>1 DEF NothingSkipped, Stale, DueBy

LEMMA SkippedIsDueNext ==
  ASSUME TypeInv'
  PROVE  NothingSkipped' <=> \A id \in Id : DueBy(id, cursor)' => known'[id] = row'[id]
<1>1. \A id \in Id : row'[id].at > cursor' <=> ~(row'[id].at <= cursor')
  <2> SUFFICES ASSUME NEW id \in Id
               PROVE  row'[id].at \in Nat /\ cursor' \in Nat
    OBVIOUS
  <2>1. row'[id] \in Row \/ row'[id] = NoRow
    BY DEF TypeInv
  <2> QED BY <2>1, SyncConstants DEF TypeInv, Row, NoRow
<1> QED BY <1>1 DEF NothingSkipped, Stale, DueBy

LEMMA OtherSkips ==
  ASSUME Inv, OtherHandlers
  PROVE  NothingSkipped'
<1> USE DEF Inv
<1>1. cursor' = cursor /\ known' = known
  BY DEF OtherHandlers
<1>2. ASSUME NEW id \in Id, DueBy(id, cursor)'
      PROVE  known'[id] = row'[id]
  <2>1. PICK t : t = cursor
    OBVIOUS
  <2>2. DueBy(id, t)' /\ Noted(t)
    BY <1>1, <1>2, <2>1 DEF DueBy, Noted
  <2>3. DueBy(id, t) /\ row'[id] = row[id]
    BY <2>2, OtherDue
  <2> QED BY <1>1, <2>1, <2>3, SkippedIsDue
<1> QED BY <1>2, OtherType, SkippedIsDueNext

-----------------------------------------------------------------------------
(* What the queries return: a row that Me follows is in the answer to its query. *)

LEMMA FollowedMember ==
  ASSUME NEW id \in Id, Followed(id), NEW e, Ways(id) = {{e}}
  PROVE  Live(e)
<1>1. PICK p \in Ways(id) : \A x \in p : Live(x)
  BY DEF Followed
<1> QED BY <1>1

LEMMA Asked ==
  ASSUME NEW id \in Id, NEW s, Exists(id), Followed(id), row[id].at > s
  PROVE  /\ id \in UserId => id \in SyncUsers(s)
         /\ id \in GuildId => id \in SyncGuilds(s)
         /\ id \in ChannelId => id \in SyncChannels(s)
         /\ id \in RoleId => id \in SyncRoles(s)
         /\ id \in MemberId => id \in SyncGuildMembers(s)
         /\ id \in FriendId => id \in SyncFriendships(s)
         /\ id \in DMMemberId => id \in SyncDmMembers(s)
<1> USE SyncConstants, TablesConstants
<1>1. ASSUME id \in UserId PROVE id \in SyncUsers(s)
  <2>1. id \in After(UserId, s)
    BY <1>1 DEF After
  <2>2. CASE id[2] = Me
    BY <2>1, <2>2 DEF SyncUsers
  <2>3. CASE id[2] # Me
    <3>1. PICK p \in Ways(id) : \A e \in p : Live(e)
      BY DEF Followed
    <3>2. p \in {{e} : e \in Edges(Me, id[2])}
            \cup {{<<"member", g, Me>>, <<"member", g, id[2]>>} : g \in Guilds}
      BY <1>1, <2>3, <3>1, WaysOf
    <3>3. CASE \E e \in Edges(Me, id[2]) : p = {e}
      BY <2>1, <3>1, <3>3 DEF SyncUsers
    <3>4. CASE \E g \in Guilds : p = {<<"member", g, Me>>, <<"member", g, id[2]>>}
      <4>1. PICK g \in Guilds : p = {<<"member", g, Me>>, <<"member", g, id[2]>>}
        BY <3>4
      <4>2. Live(<<"member", g, Me>>) /\ Live(<<"member", g, id[2]>>)
        BY <3>1, <4>1
      <4>3. g \in MyGuilds /\ Exists(<<"member", g, id[2]>>)
        BY <4>2 DEF MyGuilds, Live
      <4> QED BY <2>1, <4>3 DEF SyncUsers
    <3> QED BY <3>2, <3>3, <3>4
  <2> QED BY <2>2, <2>3
<1>2. ASSUME id \in GuildId \/ id \in MemberId PROVE id[2] \in MyGuilds
  <2>1. Live(<<"member", id[2], Me>>) /\ id[2] \in Guilds
    BY <1>2, WaysOf, KindOf, FollowedMember
  <2> QED BY <2>1 DEF MyGuilds
<1>3. ASSUME id \in RoleId PROVE GuildOf[id[2]] \in MyGuilds
  <2>1. Live(<<"member", GuildOf[id[2]], Me>>) /\ GuildOf[id[2]] \in Guilds
    BY <1>3, WaysOf, KindOf, FollowedMember
  <2> QED BY <2>1 DEF MyGuilds
<1>4. ASSUME id \in ChannelId
      PROVE  id[2] \in MyDMs \/ (id[2] \in Channels /\ GuildOf[id[2]] \in MyGuilds)
  <2>1. CASE id[2] \in DMs
    <3>1. Live(<<"dmMember", id[2], Me>>)
      BY <1>4, <2>1, WaysOf, FollowedMember
    <3> QED BY <2>1, <3>1 DEF MyDMs
  <2>2. CASE id[2] \notin DMs
    <3>1. id[2] \in Channels /\ GuildOf[id[2]] \in Guilds
      BY <1>4, <2>2, KindOf
    <3>2. Live(<<"member", GuildOf[id[2]], Me>>)
      BY <1>4, <2>2, WaysOf, FollowedMember
    <3> QED BY <3>1, <3>2 DEF MyGuilds
  <2> QED BY <2>1, <2>2
<1>5. ASSUME id \in FriendId PROVE Me \in {id[2], id[3]}
  <2>1. Ways(id) # {}
    BY DEF Followed
  <2> QED BY <1>5, <2>1, WaysOf
<1>6. ASSUME id \in DMMemberId PROVE id[2] \in MyDMs
  <2>1. Live(<<"dmMember", id[2], Me>>) /\ id[2] \in DMs
    BY <1>6, WaysOf, KindOf, FollowedMember
  <2> QED BY <2>1 DEF MyDMs
<1> QED BY <1>1, <1>2, <1>3, <1>4, <1>5, <1>6
        DEF SyncGuilds, SyncChannels, SyncRoles, SyncGuildMembers, SyncFriendships,
            SyncDmMembers, After

\* The rows through which Me sees a message.
LEMMA FollowedMessage ==
  ASSUME NEW id \in MessageId, Followed(id), NEW c, c = ChannelOf[id[2]]
  PROVE  /\ c \in Channels \cup DMs
         /\ Live(<<"channel", c>>)
         /\ c \in DMs => Live(<<"dmMember", c, Me>>)
         /\ c \notin DMs => /\ c \in Channels /\ GuildOf[c] \in Guilds
                            /\ Live(<<"member", GuildOf[c], Me>>)
<1>1. c \in Channels \cup DMs
  BY Subkinds, KindOf, TablesConstants
<1>2. Ways(id) = InChannel(c)
  BY Subkinds, WaysOf
<1>3. PICK p \in Ways(id) : \A e \in p : Live(e)
  BY DEF Followed
<1>4. c \in DMs => p = {<<"dmMember", c, Me>>, <<"channel", c>>}
  BY <1>1, <1>2, <1>3, ChannelWays
<1>5. c \notin DMs => p = {<<"member", GuildOf[c], Me>>, <<"channel", c>>}
  BY <1>1, <1>2, <1>3, ChannelWays
<1>6. c \notin DMs => c \in Channels /\ GuildOf[c] \in Guilds
  BY <1>1, TablesConstants
<1> QED BY <1>1, <1>3, <1>4, <1>5, <1>6

\* guildsForMsg finds the guild: a member row has a guild row, and that has a stamp.
LEMMA GuildFound ==
  ASSUME TypeInv, TablesInv, NEW g \in Guilds, Live(<<"member", g, Me>>)
  PROVE  g \in {id[2] : id \in SyncGuilds(0)}
<1> DEFINE i == <<"guild", g>>
           m == <<"member", g, Me>>
<1>1. i \in Id /\ i \in GuildId /\ i \notin MessageId /\ i[2] = g
  BY IdsExist, KindOf
<1>2. m \in Id /\ m \in MemberId /\ m[2] = g /\ Exists(m)
  BY IdsExist, SyncConstants DEF Live
<1>3. Exists(i)
  <2>1. i \in Refers(m)
    BY <1>2, RefersOf
  <2> QED BY <1>2, <2>1 DEF TablesInv
<1>4. row[i].at \in Nat /\ row[i].at # 0
  BY <1>1, <1>3, RowAt DEF TablesInv
<1>5. g \in MyGuilds
  BY DEF MyGuilds
<1>6. i \in SyncGuilds(0)
  BY <1>1, <1>3, <1>4, <1>5 DEF SyncGuilds, After
<1> QED BY <1>1, <1>6

-----------------------------------------------------------------------------
(* Steps of the call. *)

\* What the handler's queries return but messages, with the cursor s.
Returned(s) ==
    SyncUsers(s) \cup SyncGuilds(s) \cup SyncChannels(s) \cup SyncRoles(s)
        \cup SyncGuildMembers(s) \cup SyncFriendships(s) \cup SyncDmMembers(s)

\* A row that the running call should return if it came to it now.
Wanted(id) ==
    \/ Exists(id) /\ Followed(id) /\ row[id].at > sync.since
    \/ id \in Returned(sync.since)

\* What a query does: the answer only grows, with rows as they are stored, and every
\* wanted row that it was the turn of is in it, unless the query fails.
Grows ==
    /\ sync.pc # "idle" /\ sync'.pc # "idle"
    /\ UNCHANGED <<row, slow, now, known, cursor, excused, current>>
    /\ sync' \in Call /\ faults' \in 0..MaxFaults
    /\ sync'.since = sync.since /\ sync'.time = sync.time /\ sync'.calm = sync.calm
    /\ sync.failed \subseteq sync'.failed /\ DOMAIN sync.resp \subseteq DOMAIN sync'.resp
    /\ \A id \in DOMAIN sync'.resp :
            \/ sync'.resp[id] = row[id] /\ (id \in MessageId \/ id \in Returned(sync.since))
            \/ id \in DOMAIN sync.resp /\ sync'.resp[id] = sync.resp[id]
    /\ \A id \in Ahead :
            Wanted(id) => id \in DOMAIN sync'.resp \/ id \in Ahead' \/ id \in sync'.failed

LEMMA ReturnedKinds ==
  ASSUME NEW s, NEW id \in Returned(s)
  PROVE  /\ id \in Id /\ id \notin MessageId /\ Exists(id)
         /\ id \in UserId => id \in SyncUsers(s)
         /\ id \in GuildId => id \in SyncGuilds(s)
         /\ id \in ChannelId => id \in SyncChannels(s)
         /\ id \in RoleId => id \in SyncRoles(s)
         /\ id \in MemberId => id \in SyncGuildMembers(s)
         /\ id \in FriendId => id \in SyncFriendships(s)
         /\ id \in DMMemberId => id \in SyncDmMembers(s)
<1>1. /\ id \in SyncUsers(s) => id \in UserId /\ Exists(id)
      /\ id \in SyncGuilds(s) => id \in GuildId /\ Exists(id)
      /\ id \in SyncChannels(s) => id \in ChannelId /\ Exists(id)
      /\ id \in SyncRoles(s) => id \in RoleId /\ Exists(id)
      /\ id \in SyncGuildMembers(s) => id \in MemberId /\ Exists(id)
      /\ id \in SyncFriendships(s) => id \in FriendId /\ Exists(id)
      /\ id \in SyncDmMembers(s) => id \in DMMemberId /\ Exists(id)
  BY DEF SyncUsers, SyncGuilds, SyncChannels, SyncRoles, SyncGuildMembers, SyncFriendships,
         SyncDmMembers, After
<1>2. \/ id \in SyncUsers(s) \/ id \in SyncGuilds(s) \/ id \in SyncChannels(s)
      \/ id \in SyncRoles(s) \/ id \in SyncGuildMembers(s) \/ id \in SyncFriendships(s)
      \/ id \in SyncDmMembers(s)
  BY DEF Returned
<1>3. id \in Id
  BY <1>1, <1>2, Subkinds
<1> QED BY <1>1, <1>2, <1>3, KindOf

\* Of the messages, those that Me follows are wanted.
LEMMA WantedMessage ==
  ASSUME NEW id \in MessageId, Wanted(id)
  PROVE  Exists(id) /\ Followed(id) /\ row[id].at > sync.since
BY ReturnedKinds DEF Wanted

LEMMA GrowsKeeps ==
  ASSUME Inv, Grows
  PROVE  Inv'
<1>0. UNCHANGED <<row, slow, now, known, cursor, excused>> /\ sync'.time = sync.time
  BY DEF Grows
<1>1. TypeInv'
  BY DEF Inv, TypeInv, Grows
<1>2. TablesInv' /\ Stamped(slow)' /\ NothingSkipped'
  BY <1>0 DEF Inv, TablesInv, Stamped, NothingSkipped, Stale, Followed, Live, Exists, Ways, Edges,
              InGuild, InDM, InChannel
<1>3. \A id \in Id : DueBy(id, sync.time)' => DueBy(id, sync.time)
  BY <1>0 DEF DueBy, Followed, Live, Exists, Ways, Edges, InGuild, InDM, InChannel
<1> USE DEF Grows
<1>4. SyncInv'
  <2> SUFFICES ASSUME NEW id \in Id, DueBy(id, sync.time)
               PROVE  /\ id \in DOMAIN sync'.resp => sync'.resp[id] = row[id]
                      /\ row[id].at > sync.since /\ id \notin sync'.failed =>
                            id \in DOMAIN sync'.resp \/ id \in Ahead'
    <3>1. row' = row /\ cursor' = cursor
      OBVIOUS
    <3>2. sync.since = cursor
      BY DEF Inv, SyncInv
    <3> QED BY <1>3, <3>1, <3>2 DEF SyncInv
  <2>1. /\ id \in DOMAIN sync.resp => sync.resp[id] = row[id]
        /\ row[id].at > sync.since /\ id \notin sync.failed =>
              id \in DOMAIN sync.resp \/ id \in Ahead
    BY DEF Inv, SyncInv
  <2> QED BY <2>1 DEF DueBy, Wanted
<1> QED BY <1>1, <1>2, <1>4 DEF Inv

LEMMA AnswerRows ==
  ASSUME TypeInv, NEW ids \in SUBSET Id, \A id \in ids : Exists(id)
  PROVE  /\ Answer(ids) \in Rows
         /\ DOMAIN Answer(ids) = DOMAIN sync.resp \cup ids
         /\ \A id \in DOMAIN Answer(ids) :
                \/ Answer(ids)[id] = row[id] /\ id \in ids
                \/ id \in DOMAIN sync.resp /\ Answer(ids)[id] = sync.resp[id]
<1> DEFINE S == DOMAIN sync.resp \cup ids
<1>1. sync.resp \in Rows
  BY DEF TypeInv, Call
<1>2. DOMAIN sync.resp \subseteq Id /\ \A id \in DOMAIN sync.resp : sync.resp[id] \in Row
  BY <1>1 DEF Rows
<1>3. \A id \in ids : row[id] \in Row
  BY ExistingRow
<1>4. Answer(ids) \in [S -> Row]
  BY <1>2, <1>3 DEF Answer
<1>5. S \in SUBSET Id
  BY <1>2
<1>6. Answer(ids) \in Rows
  BY <1>4, <1>5 DEF Rows
<1> QED BY <1>6 DEF Answer

\* A wanted row is what its query returns.
LEMMA WantedReturned ==
  ASSUME NEW id \in Id, Wanted(id)
  PROVE  /\ id \in UserId => id \in SyncUsers(sync.since)
         /\ id \in GuildId => id \in SyncGuilds(sync.since)
         /\ id \in ChannelId => id \in SyncChannels(sync.since)
         /\ id \in RoleId => id \in SyncRoles(sync.since)
         /\ id \in MemberId => id \in SyncGuildMembers(sync.since)
         /\ id \in FriendId => id \in SyncFriendships(sync.since)
         /\ id \in DMMemberId => id \in SyncDmMembers(sync.since)
<1>1. CASE Exists(id) /\ Followed(id) /\ row[id].at > sync.since
  BY <1>1, Asked
<1>2. CASE id \in Returned(sync.since)
  BY <1>2, ReturnedKinds
<1> QED BY <1>1, <1>2 DEF Wanted

LEMMA PullGrows ==
  ASSUME TypeInv, NEW pc, NEW ids, NEW about \in SUBSET Id, NEW next \in Queries,
         pc # "idle", Pull(pc, ids, about, next),
         ids \subseteq Returned(sync.since),
         \A id \in about : Wanted(id) => id \in ids,
         sync.pc = pc /\ sync'.pc = next /\ sync'.guilds = sync.guilds
            /\ sync'.chans = sync.chans => Ahead \subseteq Ahead' \cup about
  PROVE  Grows
<1> DEFINE r == Answer(ids)
           yes == [sync EXCEPT !.resp = r, !.pc = next]
           no == [[sync EXCEPT !.pc = next] EXCEPT !.failed = @ \cup about]
<1>0. ids \in SUBSET Id /\ \A id \in ids : Exists(id)
  BY ReturnedKinds
<1>1. sync \in Call /\ faults \in 0..MaxFaults 
  BY DEF TypeInv
<1>2. r \in Rows /\ DOMAIN r = DOMAIN sync.resp \cup ids
        /\ \A id \in DOMAIN r :
             \/ r[id] = row[id] /\ id \in ids
             \/ id \in DOMAIN sync.resp /\ r[id] = sync.resp[id]
  BY <1>0, AnswerRows
<1>3. /\ sync.pc = pc
      /\ UNCHANGED <<row, slow, now, known, cursor, excused, current>>
      /\ \/ sync' = yes /\ faults' = faults
         \/ sync' = no /\ faults < MaxFaults /\ faults' = faults + 1
  BY DEF Pull, Ask, tables
<1>4. faults' \in 0..MaxFaults
  BY <1>1, <1>3, SyncConstants
<1> HIDE DEF r
<1>5. yes \in Call /\ yes.pc = next /\ yes.guilds = sync.guilds /\ yes.chans = sync.chans
        /\ yes.since = sync.since /\ yes.time = sync.time /\ yes.resp = r
        /\ yes.failed = sync.failed /\ yes.calm = sync.calm
  BY <1>1, <1>2 DEF Call
<1>6. no \in Call /\ no.pc = next /\ no.guilds = sync.guilds /\ no.chans = sync.chans
        /\ no.since = sync.since /\ no.time = sync.time /\ no.resp = sync.resp
        /\ no.failed = sync.failed \cup about /\ no.calm = sync.calm
  BY <1>1 DEF Call
<1> HIDE DEF yes, no
<1>7. Ahead \subseteq Ahead' \cup about
  BY <1>3, <1>5, <1>6
<1>8. next # "idle"
  BY DEF Queries
<1>9. CASE sync' = yes
  BY <1>2, <1>3, <1>4, <1>5, <1>7, <1>8, <1>9 DEF Grows
<1>10. CASE sync' = no
  BY <1>3, <1>4, <1>6, <1>7, <1>8, <1>10 DEF Grows
<1> QED BY <1>3, <1>9, <1>10

LEMMA PullsGrow ==
  ASSUME TypeInv,
         \/ PullUsers \/ PullGuilds \/ PullChannels \/ PullRoles \/ PullGuildMembers
         \/ PullFriendships \/ PullDmMembers
  PROVE  Grows
<1> USE DEF Queries
<1>1. CASE PullUsers
  <2>1. PICK ids : ids = SyncUsers(sync.since)
    OBVIOUS
  <2>2. ids \subseteq Returned(sync.since)
    BY <2>1 DEF Returned
  <2>3. \A id \in UserId : Wanted(id) => id \in ids
    BY <2>1, WantedReturned, Subkinds
  <2>4. sync.pc = "SyncUsers" /\ sync'.pc = "SyncGuilds" /\ sync'.guilds = sync.guilds
            /\ sync'.chans = sync.chans => Ahead \subseteq Ahead' \cup UserId
    BY DEF Ahead, ChannelsAhead, MessagesOf
  <2> QED BY <1>1, <2>1, <2>2, <2>3, <2>4, Subkinds, PullGrows DEF PullUsers
<1>2. CASE PullGuilds
  <2>1. PICK ids : ids = SyncGuilds(sync.since)
    OBVIOUS
  <2>2. ids \subseteq Returned(sync.since)
    BY <2>1 DEF Returned
  <2>3. \A id \in GuildId : Wanted(id) => id \in ids
    BY <2>1, WantedReturned, Subkinds
  <2>4. sync.pc = "SyncGuilds" /\ sync'.pc = "SyncChannels" /\ sync'.guilds = sync.guilds
            /\ sync'.chans = sync.chans => Ahead \subseteq Ahead' \cup GuildId
    BY DEF Ahead, ChannelsAhead, MessagesOf, Id
  <2> QED BY <1>2, <2>1, <2>2, <2>3, <2>4, Subkinds, PullGrows DEF PullGuilds
<1>3. CASE PullChannels
  <2>1. PICK ids : ids = SyncChannels(sync.since)
    OBVIOUS
  <2>2. ids \subseteq Returned(sync.since)
    BY <2>1 DEF Returned
  <2>3. \A id \in ChannelId : Wanted(id) => id \in ids
    BY <2>1, WantedReturned, Subkinds
  <2>4. sync.pc = "SyncChannels" /\ sync'.pc = "SyncRoles" /\ sync'.guilds = sync.guilds
            /\ sync'.chans = sync.chans => Ahead \subseteq Ahead' \cup ChannelId
    BY DEF Ahead, ChannelsAhead, MessagesOf
  <2> QED BY <1>3, <2>1, <2>2, <2>3, <2>4, Subkinds, PullGrows DEF PullChannels
<1>4. CASE PullRoles
  <2>1. PICK ids : ids = SyncRoles(sync.since)
    OBVIOUS
  <2>2. ids \subseteq Returned(sync.since)
    BY <2>1 DEF Returned
  <2>3. \A id \in RoleId : Wanted(id) => id \in ids
    BY <2>1, WantedReturned, Subkinds
  <2>4. sync.pc = "SyncRoles" /\ sync'.pc = "SyncGuildMembers" /\ sync'.guilds = sync.guilds
            /\ sync'.chans = sync.chans => Ahead \subseteq Ahead' \cup RoleId
    BY DEF Ahead, ChannelsAhead, MessagesOf
  <2> QED BY <1>4, <2>1, <2>2, <2>3, <2>4, Subkinds, PullGrows DEF PullRoles
<1>5. CASE PullGuildMembers
  <2>1. PICK ids : ids = SyncGuildMembers(sync.since)
    OBVIOUS
  <2>2. ids \subseteq Returned(sync.since)
    BY <2>1 DEF Returned
  <2>3. \A id \in MemberId : Wanted(id) => id \in ids
    BY <2>1, WantedReturned, Subkinds
  <2>4. sync.pc = "SyncGuildMembers" /\ sync'.pc = "SyncFriendships" /\ sync'.guilds = sync.guilds
            /\ sync'.chans = sync.chans => Ahead \subseteq Ahead' \cup MemberId
    BY DEF Ahead, ChannelsAhead, MessagesOf
  <2> QED BY <1>5, <2>1, <2>2, <2>3, <2>4, Subkinds, PullGrows DEF PullGuildMembers
<1>6. CASE PullFriendships
  <2>1. PICK ids : ids = SyncFriendships(sync.since)
    OBVIOUS
  <2>2. ids \subseteq Returned(sync.since)
    BY <2>1 DEF Returned
  <2>3. \A id \in FriendId : Wanted(id) => id \in ids
    BY <2>1, WantedReturned, Subkinds
  <2>4. sync.pc = "SyncFriendships" /\ sync'.pc = "SyncDmMembers" /\ sync'.guilds = sync.guilds
            /\ sync'.chans = sync.chans => Ahead \subseteq Ahead' \cup FriendId
    BY DEF Ahead, ChannelsAhead, MessagesOf
  <2> QED BY <1>6, <2>1, <2>2, <2>3, <2>4, Subkinds, PullGrows DEF PullFriendships
<1>7. CASE PullDmMembers
  <2>1. PICK ids : ids = SyncDmMembers(sync.since)
    OBVIOUS
  <2>2. ids \subseteq Returned(sync.since)
    BY <2>1 DEF Returned
  <2>3. \A id \in DMMemberId : Wanted(id) => id \in ids
    BY <2>1, WantedReturned, Subkinds
  <2>4. sync.pc = "SyncDmMembers" /\ sync'.pc = "guildsForMsg" /\ sync'.guilds = sync.guilds
            /\ sync'.chans = sync.chans => Ahead \subseteq Ahead' \cup DMMemberId
    BY DEF Ahead, ChannelsAhead, MessagesOf
  <2> QED BY <1>7, <2>1, <2>2, <2>3, <2>4, Subkinds, PullGrows DEF PullDmMembers
<1> QED BY <1>1, <1>2, <1>3, <1>4, <1>5, <1>6, <1>7

LEMMA AheadMessages ==
  ASSUME sync.pc \in {"guildsForMsg", "ListGuildChannels", "ListDMChannels", "GetMessagesSince"},
         NEW id \in Ahead
  PROVE  id \in MessageId /\ ChannelOf[id[2]] \in ChannelsAhead
BY DEF Ahead, MessagesOf

LEMMA StillAhead ==
  ASSUME NEW id \in MessageId, ChannelOf[id[2]] \in ChannelsAhead'
  PROVE  id \in Ahead'
BY DEF Ahead, MessagesOf

LEMMA WithGuildsCall ==
  ASSUME TypeInv, NEW gs \in SUBSET Guilds
  PROVE  LET s == WithGuilds(gs)
         IN  /\ s \in Call /\ s.guilds = gs
             /\ s.pc = IF gs = {} THEN "ListDMChannels" ELSE "ListGuildChannels"
             /\ s.since = sync.since /\ s.time = sync.time /\ s.calm = sync.calm
             /\ s.resp = sync.resp
             /\ s.failed = sync.failed /\ s.chans = sync.chans
<1>1. sync \in Call
  BY DEF TypeInv
<1> QED BY <1>1 DEF WithGuilds, Call, Queries

LEMMA WithChannelsCall ==
  ASSUME TypeInv, NEW cs \in SUBSET (Channels \cup DMs)
  PROVE  LET s == WithChannels(cs)
         IN  /\ s \in Call /\ s.chans = cs
             /\ s.pc = IF cs = {} THEN "reply" ELSE "GetMessagesSince"
             /\ s.since = sync.since /\ s.time = sync.time /\ s.calm = sync.calm
             /\ s.resp = sync.resp
             /\ s.failed = sync.failed
<1>1. sync \in Call
  BY DEF TypeInv
<1> QED BY <1>1 DEF WithChannels, Call, Queries

\* A call with one more field set, as Ask and the message queries set them.
LEMMA CallWith ==
  ASSUME NEW s \in Call
  PROVE  /\ \A f \in SUBSET Id : LET t == [s EXCEPT !.failed = @ \cup f]
              IN  /\ t \in Call /\ t.failed = s.failed \cup f
                  /\ t.pc = s.pc /\ t.since = s.since /\ t.time = s.time /\ t.calm = s.calm
                  /\ t.resp = s.resp
                  /\ t.guilds = s.guilds /\ t.chans = s.chans
         /\ \A cs \in SUBSET (Channels \cup DMs) : LET t == [s EXCEPT !.chans = @ \cup cs]
              IN  /\ t \in Call /\ t.chans = s.chans \cup cs
                  /\ t.pc = s.pc /\ t.since = s.since /\ t.time = s.time /\ t.calm = s.calm
                  /\ t.resp = s.resp
                  /\ t.guilds = s.guilds /\ t.failed = s.failed
         /\ \A r \in Rows : LET t == [s EXCEPT !.resp = r]
              IN  /\ t \in Call /\ t.resp = r
                  /\ t.pc = s.pc /\ t.since = s.since /\ t.time = s.time /\ t.calm = s.calm
                  /\ t.guilds = s.guilds /\ t.chans = s.chans /\ t.failed = s.failed
BY DEF Call

LEMMA MessagesOfIds ==
  ASSUME NEW cs
  PROVE  MessagesOf(cs) \in SUBSET Id
BY Subkinds DEF MessagesOf

\* What follows the queries for the guilds and the channels of one.
LEMMA GuildsAhead ==
  ASSUME sync'.pc = IF sync'.guilds = {} THEN "ListDMChannels" ELSE "ListGuildChannels"
  PROVE  /\ \A c \in sync'.chans \cup DMs : c \in ChannelsAhead'
         /\ \A c \in Channels : GuildOf[c] \in sync'.guilds => c \in ChannelsAhead'
BY DEF ChannelsAhead

LEMMA ChansAhead ==
  ASSUME sync'.pc = IF sync'.chans = {} THEN "reply" ELSE "GetMessagesSince"
  PROVE  \A c \in sync'.chans : c \in ChannelsAhead'
BY DEF ChannelsAhead

LEMMA GuildsForMsgGrows ==
  ASSUME TypeInv, TablesInv, GuildsForMsg
  PROVE  Grows
<1>1. sync \in Call /\ faults \in 0..MaxFaults
  BY DEF TypeInv
<1>2. PICK gs : gs = {id[2] : id \in SyncGuilds(0)}
  OBVIOUS
<1>3. gs \in SUBSET Guilds
  BY <1>2 DEF SyncGuilds, After, GuildId
<1> DEFINE f == MessagesOf(Channels)
           yes == WithGuilds(gs)
           no == WithGuilds({})
<1>4. /\ sync.pc = "guildsForMsg"
      /\ UNCHANGED <<row, slow, now, known, cursor, excused, current>>
      /\ \/ sync' = yes /\ faults' = faults
         \/ sync' = [no EXCEPT !.failed = @ \cup f] /\ faults < MaxFaults /\ faults' = faults + 1
  BY <1>2 DEF GuildsForMsg, Ask, tables
<1>5. faults' \in 0..MaxFaults
  BY <1>1, <1>4, SyncConstants
<1>6. \A id \in Ahead : id \in MessageId /\ ChannelOf[id[2]] \in Channels \cup DMs
  BY <1>4, AheadMessages, Subkinds, KindOf, TablesConstants
<1>7. CASE sync' = yes
  <2>1. sync' \in Call /\ sync'.guilds = gs
          /\ sync'.pc = (IF sync'.guilds = {} THEN "ListDMChannels" ELSE "ListGuildChannels")
          /\ sync'.since = sync.since /\ sync'.time = sync.time /\ sync'.calm = sync.calm
          /\ sync'.resp = sync.resp
          /\ sync'.failed = sync.failed
    BY <1>1, <1>3, <1>7, WithGuildsCall
  <2>2. ASSUME NEW id \in Ahead, Wanted(id)
        PROVE  id \in Ahead'
    <3>1. PICK c : c = ChannelOf[id[2]]
      OBVIOUS
    <3>2. CASE c \in DMs
      BY <2>1, <3>1, <3>2, <1>6, GuildsAhead, StillAhead
    <3>3. CASE c \notin DMs
      <4>1. c \in Channels /\ GuildOf[c] \in Guilds /\ Live(<<"member", GuildOf[c], Me>>)
        BY <2>2, <3>1, <3>3, <1>6, WantedMessage, FollowedMessage
      <4>2. GuildOf[c] \in gs
        BY <4>1, <1>1, <1>2, GuildFound
      <4> QED BY <4>1, <4>2, <2>1, <3>1, <1>6, GuildsAhead, StillAhead
    <3> QED BY <3>2, <3>3
  <2> QED BY <1>4, <1>5, <2>1, <2>2 DEF Grows
<1>8. CASE sync' = [no EXCEPT !.failed = @ \cup f]
  <2>1. no \in Call /\ no.guilds = {} /\ no.pc = "ListDMChannels"
          /\ no.since = sync.since /\ no.time = sync.time /\ no.calm = sync.calm
          /\ no.resp = sync.resp
          /\ no.failed = sync.failed
    BY <1>1, WithGuildsCall
  <2>2. f \in SUBSET Id
    BY MessagesOfIds
  <2> HIDE DEF no
  <2>3. sync' \in Call /\ sync'.guilds = {} /\ sync'.pc = "ListDMChannels"
          /\ sync'.since = sync.since /\ sync'.time = sync.time /\ sync'.calm = sync.calm
          /\ sync'.resp = sync.resp
          /\ sync'.failed = sync.failed \cup f
    BY <1>8, <2>1, <2>2, CallWith
  <2>4. ASSUME NEW id \in Ahead
        PROVE  id \in Ahead' \/ id \in f
    BY <2>3, <1>6, GuildsAhead, StillAhead DEF MessagesOf
  <2> QED BY <1>4, <1>5, <2>3, <2>4 DEF Grows
<1> QED BY <1>4, <1>7, <1>8

LEMMA ChannelsForMsgGrows ==
  ASSUME TypeInv, TablesInv, ChannelsForMsg
  PROVE  Grows
<1>1. sync \in Call /\ faults \in 0..MaxFaults /\ sync.guilds \in SUBSET Guilds
  BY DEF TypeInv, Call
<1>2. PICK g \in sync.guilds :
        LET rest == WithGuilds(sync.guilds \ {g})
        IN  Ask("ListGuildChannels", [rest EXCEPT !.chans = @ \cup ListGuildChannels(g)], rest,
                MessagesOf({c \in Channels : GuildOf[c] = g}))
  BY DEF ChannelsForMsg
<1>3. PICK rest : rest = WithGuilds(sync.guilds \ {g})
  OBVIOUS
<1>4. PICK cs : cs = ListGuildChannels(g)
  OBVIOUS
<1> DEFINE f == MessagesOf({c \in Channels : GuildOf[c] = g})
<1>5. /\ sync.pc = "ListGuildChannels"
      /\ UNCHANGED <<row, slow, now, known, cursor, excused, current>>
      /\ \/ sync' = [rest EXCEPT !.chans = @ \cup cs] /\ faults' = faults
         \/ sync' = [rest EXCEPT !.failed = @ \cup f] /\ faults < MaxFaults /\ faults' = faults + 1
  BY <1>2, <1>3, <1>4 DEF Ask, tables
<1>6. faults' \in 0..MaxFaults
  BY <1>1, <1>5, SyncConstants
<1>7. rest \in Call /\ rest.guilds = sync.guilds \ {g}
        /\ rest.pc = (IF rest.guilds = {} THEN "ListDMChannels" ELSE "ListGuildChannels")
        /\ rest.since = sync.since /\ rest.time = sync.time /\ rest.calm = sync.calm
        /\ rest.resp = sync.resp
        /\ rest.failed = sync.failed /\ rest.chans = sync.chans
  BY <1>1, <1>3, WithGuildsCall
<1>8. \A id \in Ahead :
        /\ id \in MessageId
        /\ \/ ChannelOf[id[2]] \in sync.chans \cup DMs
           \/ ChannelOf[id[2]] \in Channels /\ GuildOf[ChannelOf[id[2]]] \in sync.guilds
  BY <1>5, AheadMessages DEF ChannelsAhead
<1>9. CASE sync' = [rest EXCEPT !.chans = @ \cup cs]
  <2>1. cs \in SUBSET (Channels \cup DMs)
    BY <1>4 DEF ListGuildChannels
  <2>2. sync' \in Call /\ sync'.guilds = sync.guilds \ {g} /\ sync'.chans = sync.chans \cup cs
          /\ sync'.pc = (IF sync'.guilds = {} THEN "ListDMChannels" ELSE "ListGuildChannels")
          /\ sync'.since = sync.since /\ sync'.time = sync.time /\ sync'.calm = sync.calm
          /\ sync'.resp = sync.resp
          /\ sync'.failed = sync.failed
    BY <1>7, <1>9, <2>1, CallWith
  <2>3. ASSUME NEW id \in Ahead, Wanted(id)
        PROVE  id \in Ahead'
    <3>1. PICK c : c = ChannelOf[id[2]]
      OBVIOUS
    <3>2. CASE c \in sync.chans \cup DMs
      BY <2>2, <3>1, <3>2, <1>8, GuildsAhead, StillAhead
    <3>3. CASE c \in Channels /\ GuildOf[c] \in sync.guilds
      <4>1. CASE GuildOf[c] = g
        <5>1. Live(<<"channel", c>>)
          BY <2>3, <3>1, <1>8, WantedMessage, FollowedMessage
        <5>2. c \in cs
          BY <1>4, <3>3, <4>1, <5>1 DEF ListGuildChannels
        <5> QED BY <5>2, <2>2, <3>1, <1>8, GuildsAhead, StillAhead
      <4>2. CASE GuildOf[c] # g
        BY <4>2, <3>3, <2>2, <3>1, <1>8, GuildsAhead, StillAhead
      <4> QED BY <4>1, <4>2
    <3> QED BY <1>8, <3>1, <3>2, <3>3
  <2> QED BY <1>5, <1>6, <2>2, <2>3 DEF Grows
<1>10. CASE sync' = [rest EXCEPT !.failed = @ \cup f]
  <2>1. f \in SUBSET Id
    BY MessagesOfIds
  <2>2. sync' \in Call /\ sync'.guilds = sync.guilds \ {g} /\ sync'.chans = sync.chans
          /\ sync'.pc = (IF sync'.guilds = {} THEN "ListDMChannels" ELSE "ListGuildChannels")
          /\ sync'.since = sync.since /\ sync'.time = sync.time /\ sync'.calm = sync.calm
          /\ sync'.resp = sync.resp
          /\ sync'.failed = sync.failed \cup f
    <3> HIDE DEF f
    <3> QED BY <1>7, <1>10, <2>1, CallWith
  <2>3. ASSUME NEW id \in Ahead
        PROVE  id \in Ahead' \/ id \in f
    <3>1. PICK c : c = ChannelOf[id[2]]
      OBVIOUS
    <3>2. CASE c \in sync.chans \cup DMs
      BY <2>2, <3>1, <3>2, <1>8, GuildsAhead, StillAhead
    <3>3. CASE c \in Channels /\ GuildOf[c] = g
      BY <3>1, <3>3, <1>8 DEF MessagesOf
    <3>4. CASE c \in Channels /\ GuildOf[c] \in sync.guilds \ {g}
      BY <2>2, <3>1, <3>4, <1>8, GuildsAhead, StillAhead
    <3> QED BY <1>8, <3>1, <3>2, <3>3, <3>4
  <2> QED BY <1>5, <1>6, <2>2, <2>3 DEF Grows
<1> QED BY <1>5, <1>9, <1>10

LEMMA DMsForMsgGrows ==
  ASSUME TypeInv, TablesInv, DMsForMsg
  PROVE  Grows
<1>1. sync \in Call /\ faults \in 0..MaxFaults /\ sync.chans \in SUBSET (Channels \cup DMs)
  BY DEF TypeInv, Call
<1>2. PICK cs : cs = sync.chans \cup ListDMChannels(Me)
  OBVIOUS
<1>3. cs \in SUBSET (Channels \cup DMs)
  BY <1>1, <1>2 DEF ListDMChannels
<1> DEFINE f == MessagesOf(DMs)
<1>4. PICK no : no = WithChannels(sync.chans)
  OBVIOUS
<1>5. /\ sync.pc = "ListDMChannels"
      /\ UNCHANGED <<row, slow, now, known, cursor, excused, current>>
      /\ \/ sync' = WithChannels(cs) /\ faults' = faults
         \/ sync' = [no EXCEPT !.failed = @ \cup f] /\ faults < MaxFaults /\ faults' = faults + 1
  BY <1>2, <1>4 DEF DMsForMsg, Ask, tables
<1>6. faults' \in 0..MaxFaults
  BY <1>1, <1>5, SyncConstants
<1>7. \A id \in Ahead : id \in MessageId /\ ChannelOf[id[2]] \in sync.chans \cup DMs
  BY <1>5, AheadMessages DEF ChannelsAhead
<1>8. CASE sync' = WithChannels(cs)
  <2>1. sync' \in Call /\ sync'.chans = cs
          /\ sync'.pc = (IF sync'.chans = {} THEN "reply" ELSE "GetMessagesSince")
          /\ sync'.since = sync.since /\ sync'.time = sync.time /\ sync'.calm = sync.calm
          /\ sync'.resp = sync.resp
          /\ sync'.failed = sync.failed
    BY <1>1, <1>3, <1>8, WithChannelsCall
  <2>2. ASSUME NEW id \in Ahead, Wanted(id)
        PROVE  id \in Ahead'
    <3>1. PICK c : c = ChannelOf[id[2]]
      OBVIOUS
    <3>2. c \in cs
      <4>1. c \in DMs => Live(<<"channel", c>>) /\ Live(<<"dmMember", c, Me>>)
        BY <2>2, <3>1, <1>7, WantedMessage, FollowedMessage
      <4> QED BY <4>1, <3>1, <1>2, <1>7 DEF ListDMChannels
    <3> QED BY <3>1, <3>2, <2>1, <1>7, ChansAhead, StillAhead
  <2> QED BY <1>5, <1>6, <2>1, <2>2 DEF Grows
<1>9. CASE sync' = [no EXCEPT !.failed = @ \cup f]
  <2>1. no \in Call /\ no.chans = sync.chans
          /\ no.pc = (IF no.chans = {} THEN "reply" ELSE "GetMessagesSince")
          /\ no.since = sync.since /\ no.time = sync.time /\ no.calm = sync.calm
          /\ no.resp = sync.resp
          /\ no.failed = sync.failed
    BY <1>1, <1>4, WithChannelsCall
  <2>2. f \in SUBSET Id
    BY MessagesOfIds
  <2>3. sync' \in Call /\ sync'.chans = sync.chans
          /\ sync'.pc = (IF sync'.chans = {} THEN "reply" ELSE "GetMessagesSince")
          /\ sync'.since = sync.since /\ sync'.time = sync.time /\ sync'.calm = sync.calm
          /\ sync'.resp = sync.resp
          /\ sync'.failed = sync.failed \cup f
    BY <1>9, <2>1, <2>2, CallWith
  <2>4. ASSUME NEW id \in Ahead
        PROVE  id \in Ahead' \/ id \in f
    BY <2>3, <1>7, ChansAhead, StillAhead DEF MessagesOf
  <2> QED BY <1>5, <1>6, <2>3, <2>4 DEF Grows
<1> QED BY <1>5, <1>8, <1>9

LEMMA PullMessagesGrows ==
  ASSUME TypeInv, TablesInv, PullMessages
  PROVE  Grows
<1>1. sync \in Call /\ faults \in 0..MaxFaults /\ sync.chans \in SUBSET (Channels \cup DMs)
  BY DEF TypeInv, Call
<1>2. PICK c \in sync.chans :
        LET rest == WithChannels(sync.chans \ {c})
        IN  Ask("GetMessagesSince",
                [rest EXCEPT !.resp = Answer(Getmessagessince(c, sync.since))], rest,
                MessagesOf({c}))
  BY DEF PullMessages
<1>3. PICK rest : rest = WithChannels(sync.chans \ {c})
  OBVIOUS
<1>4. PICK ids : ids = Getmessagessince(c, sync.since)
  OBVIOUS
<1>5. PICK r : r = Answer(ids)
  OBVIOUS
<1> DEFINE f == MessagesOf({c})
<1>6. /\ sync.pc = "GetMessagesSince"
      /\ UNCHANGED <<row, slow, now, known, cursor, excused, current>>
      /\ \/ sync' = [rest EXCEPT !.resp = r] /\ faults' = faults
         \/ sync' = [rest EXCEPT !.failed = @ \cup f] /\ faults < MaxFaults /\ faults' = faults + 1
  BY <1>2, <1>3, <1>4, <1>5 DEF Ask, tables
<1>7. faults' \in 0..MaxFaults
  BY <1>1, <1>6, SyncConstants
<1>8. rest \in Call /\ rest.chans = sync.chans \ {c}
        /\ rest.pc = (IF rest.chans = {} THEN "reply" ELSE "GetMessagesSince")
        /\ rest.since = sync.since /\ rest.time = sync.time /\ rest.calm = sync.calm
        /\ rest.resp = sync.resp
        /\ rest.failed = sync.failed
  BY <1>1, <1>3, WithChannelsCall
<1>9. \A id \in Ahead : id \in MessageId /\ ChannelOf[id[2]] \in sync.chans
  BY <1>6, AheadMessages DEF ChannelsAhead
<1>10. CASE sync' = [rest EXCEPT !.resp = r]
  <2>1. ids \in SUBSET Id /\ \A id \in ids : Exists(id) /\ id \in MessageId
    BY <1>4, Subkinds DEF Getmessagessince
  <2>2. r \in Rows /\ DOMAIN r = DOMAIN sync.resp \cup ids
          /\ \A id \in DOMAIN r :
               \/ r[id] = row[id] /\ id \in MessageId
               \/ id \in DOMAIN sync.resp /\ r[id] = sync.resp[id]
    BY <1>1, <1>5, <2>1, AnswerRows
  <2>3. sync' \in Call /\ sync'.chans = sync.chans \ {c}
          /\ sync'.pc = (IF sync'.chans = {} THEN "reply" ELSE "GetMessagesSince")
          /\ sync'.since = sync.since /\ sync'.time = sync.time /\ sync'.calm = sync.calm
          /\ sync'.resp = r
          /\ sync'.failed = sync.failed
    BY <1>8, <1>10, <2>2, CallWith
  <2>4. ASSUME NEW id \in Ahead, Wanted(id)
        PROVE  id \in DOMAIN sync'.resp \/ id \in Ahead'
    <3>1. CASE ChannelOf[id[2]] = c
      BY <3>1, <2>2, <2>3, <2>4, <1>4, <1>9, WantedMessage DEF Getmessagessince
    <3>2. CASE ChannelOf[id[2]] # c
      BY <3>2, <2>3, <1>9, ChansAhead, StillAhead
    <3> QED BY <3>1, <3>2
  <2> QED BY <1>6, <1>7, <2>2, <2>3, <2>4 DEF Grows
<1>11. CASE sync' = [rest EXCEPT !.failed = @ \cup f]
  <2>1. f \in SUBSET Id
    BY MessagesOfIds
  <2>2. sync' \in Call /\ sync'.chans = sync.chans \ {c}
          /\ sync'.pc = (IF sync'.chans = {} THEN "reply" ELSE "GetMessagesSince")
          /\ sync'.since = sync.since /\ sync'.time = sync.time /\ sync'.calm = sync.calm
          /\ sync'.resp = sync.resp
          /\ sync'.failed = sync.failed \cup f
    BY <1>8, <1>11, <2>1, CallWith
  <2>3. ASSUME NEW id \in Ahead
        PROVE  id \in Ahead' \/ id \in f
    BY <2>2, <1>9, ChansAhead, StillAhead DEF MessagesOf
  <2> QED BY <1>6, <1>7, <2>2, <2>3 DEF Grows
<1> QED BY <1>6, <1>10, <1>11

LEMMA IdleCall == Idle \in Call /\ Idle.pc = "idle"
BY NoRowsIsRows, SyncConstants DEF Idle, Call

LEMMA StartedCall ==
  ASSUME TypeInv, StartSync
  PROVE  /\ sync' \in Call /\ sync'.pc = "SyncUsers"
         /\ sync'.since = cursor /\ sync'.time = now
         /\ DOMAIN sync'.resp = {} /\ sync'.failed = {}
<1>1. cursor \in 0..MaxNow /\ now \in 0..MaxNow
  BY DEF TypeInv
<1>2. sync' = [pc |-> "SyncUsers", since |-> cursor, time |-> now, resp |-> NoRows, failed |-> {},
               guilds |-> {}, chans |-> {}, calm |-> TRUE]
  BY DEF StartSync, Idle
<1>3. sync' \in Call
  BY <1>1, <1>2, NoRowsIsRows DEF Call, Queries
<1> QED BY <1>2, <1>3, NoRowsIsRows

\* Nothing is asked yet, so everything is ahead.
LEMMA StartKeeps ==
  ASSUME Inv, StartSync
  PROVE  Inv'
<1>2. sync' \in Call /\ sync'.pc = "SyncUsers" /\ sync'.since = cursor /\ DOMAIN sync'.resp = {}
  BY StartedCall DEF Inv
<1>3. UNCHANGED <<tables, known, cursor, faults, excused, current>>
  BY DEF StartSync
<1>4. TypeInv'
  BY <1>2, <1>3 DEF Inv, TypeInv, tables
<1>5. TablesInv' /\ Stamped(slow)' /\ NothingSkipped'
  BY <1>3 DEF Inv, TablesInv, Stamped, NothingSkipped, Stale, Followed, Live, Exists, Ways, Edges,
         InGuild, InDM, InChannel, tables
<1>6. \A id \in Id : id \in Ahead'
  <2>1. \A id \in MessageId : ChannelOf[id[2]] \in Channels \cup DMs
    BY TablesConstants DEF MessageId
  <2>2. ChannelsAhead' = Channels \cup DMs
    BY <1>2 DEF ChannelsAhead
  <2>3. \A id \in MessageId : id \in Ahead'
    BY <2>1, <2>2, StillAhead
  <2>4. \A id \in Id \ MessageId : id \in Ahead'
    BY <1>2 DEF Ahead
  <2> QED BY <2>3, <2>4
<1>7. SyncInv'
  BY <1>2, <1>3, <1>6 DEF SyncInv
<1> QED BY <1>4, <1>5, <1>7 DEF Inv

LEMMA LoseKeeps ==
  ASSUME Inv, LoseReply
  PROVE  Inv'
<1>1. sync' = Idle /\ UNCHANGED <<tables, known, cursor, faults, excused, current>>
  BY DEF LoseReply
<1>2. TypeInv'
  BY <1>1, IdleCall DEF Inv, TypeInv, tables
<1>3. TablesInv' /\ Stamped(slow)' /\ NothingSkipped'
  BY <1>1 DEF Inv, TablesInv, Stamped, NothingSkipped, Stale, Followed, Live, Exists, Ways, Edges,
         InGuild, InDM, InChannel, tables
<1>4. SyncInv'
  BY <1>1, IdleCall DEF SyncInv
<1> QED BY <1>2, <1>3, <1>4 DEF Inv

\* What is due by the new cursor was due by server_time before, and its query has
\* come and not failed: it is in the answer, or it was due by the old cursor.
LEMMA ReceiveKeeps ==
  ASSUME Inv, Receive
  PROVE  Inv'
<1>1. TypeInv /\ TablesInv /\ SyncInv /\ NothingSkipped /\ sync \in Call
  BY DEF Inv, TypeInv
<1>2. /\ sync.pc = "reply" /\ sync' = Idle /\ cursor' = sync.time
      /\ UNCHANGED <<row, slow, now, faults>>
      /\ known' = [id \in Id |-> IF id \in DOMAIN sync.resp THEN sync.resp[id] ELSE known[id]]
      /\ excused' = [id \in Id |-> IF id \in sync.failed /\ excused[id] # "late"
                                   THEN "failed" ELSE excused[id]]
      /\ current' = (sync.calm /\ sync.since = 0 /\ sync.failed = {})
  BY DEF Receive, ServerTime, tables
<1>3. \A id \in Id : /\ excused'[id] = "late" <=> excused[id] = "late"
                     /\ excused'[id] = "none" => excused[id] = "none" /\ id \notin sync.failed
                     /\ excused[id] # "none" => excused'[id] # "none"
  BY <1>2
<1>4. TypeInv'
  <2>1. known' \in [Id -> Row \cup {NoRow}]
    <3>1. \A id \in DOMAIN sync.resp : sync.resp[id] \in Row
      BY <1>1 DEF Call, Rows
    <3> QED BY <1>1, <1>2, <3>1 DEF TypeInv
  <2>2. excused' \in [Id -> {"none", "unstamped", "late", "failed"}]
    BY <1>1, <1>2 DEF TypeInv
  <2>3. cursor' \in 0..MaxNow /\ current' \in BOOLEAN
    BY <1>1, <1>2 DEF Call
  <2> QED BY <1>1, <1>2, <2>1, <2>2, <2>3, IdleCall DEF TypeInv
<1>5. TablesInv' /\ Stamped(slow)'
  BY <1>2, <1>3 DEF Inv, TablesInv, Stamped, Exists
<1>6. SyncInv'
  BY <1>2, IdleCall DEF SyncInv
<1>7. ASSUME NEW id \in Id, DueBy(id, cursor)'
      PROVE  known'[id] = row'[id]
  <2>1. Exists(id) /\ Followed(id)' /\ excused[id] = "none" /\ id \notin sync.failed
          /\ row[id].at <= sync.time
    BY <1>2, <1>3, <1>7 DEF DueBy, Exists
  <2>2. PICK p \in Ways(id)' : \A e \in p :
            /\ Live(e)'
            /\ e = id \/ row'[id].at = 0 \/ (excused'[e] # "late" /\ row'[e].at < row'[id].at)
    BY <2>1 DEF Followed
  <2>3. \A e \in p : /\ Live(e)
                     /\ e = id \/ row[id].at = 0 \/ (excused[e] # "late" /\ row[e].at < row[id].at)
    BY <1>2, <1>3, <2>2, WaysAreIdsNext DEF Live, Exists
  <2>4. Followed(id)
    BY <2>2, <2>3, WaysStep DEF Followed, Live
  <2>5. DueBy(id, sync.time)
    BY <2>1, <2>4 DEF DueBy
  <2>6. id \notin Ahead
    BY <1>2 DEF Ahead, ChannelsAhead, MessagesOf
  <2>7. id \in DOMAIN sync.resp => sync.resp[id] = row[id]
    BY <1>1, <1>2, <2>5 DEF SyncInv
  <2>8. CASE id \in DOMAIN sync.resp
    BY <1>2, <2>7, <2>8
  <2>9. CASE id \notin DOMAIN sync.resp
    <3>1. ~(row[id].at > sync.since) /\ sync.since = cursor
      BY <1>1, <1>2, <2>1, <2>5, <2>6, <2>9 DEF SyncInv
    <3>2. row[id].at \in Nat /\ cursor \in Nat
      BY <1>1, RowAt, SyncConstants DEF TypeInv
    <3>3. DueBy(id, cursor)
      BY <2>1, <2>4, <3>1, <3>2 DEF DueBy
    <3>4. known[id] = row[id]
      BY <1>1, <3>3, SkippedIsDue
    <3> QED BY <1>2, <2>9, <3>4
  <2> QED BY <2>8, <2>9
<1>8. NothingSkipped'
  BY <1>4, <1>7, SkippedIsDueNext
<1> QED BY <1>4, <1>5, <1>6, <1>8 DEF Inv

-----------------------------------------------------------------------------
(* The invariant holds. *)

LEMMA InitInv ==
  ASSUME Init
  PROVE  Inv
<1>1. TypeInv
  <2>1. excused \in [Id -> {"none", "unstamped", "late", "failed"}]
    BY DEF Init
  <2>2. known \in [Id -> Row \cup {NoRow}]
    BY DEF Init
  <2>3. now \in 0..MaxNow /\ cursor \in 0..MaxNow /\ faults \in 0..MaxFaults
    BY SyncConstants DEF Init
  <2>4. current \in BOOLEAN /\ sync \in Call /\ slow \in Rows
    BY IdleCall, NoRowsIsRows DEF Init
  <2>5. row \in [Id -> Row \cup {NoRow}]
    BY DEF Init, Consistent
  <2> QED BY <2>1, <2>2, <2>3, <2>4, <2>5 DEF TypeInv
<1>2. TablesInv
  BY NoRowsIsRows DEF Init, Consistent, TablesInv
<1>3. Stamped(slow)
  BY NoRowsIsRows DEF Init, Stamped
<1>4. SyncInv
  BY IdleCall DEF Init, SyncInv
<1>5. NothingSkipped
  <2>1. ASSUME NEW id \in Id, DueBy(id, cursor)
        PROVE  FALSE
    <3>1. Exists(id) /\ excused[id] = "none" /\ row[id].at <= 0 /\ row[id].at \in Nat
      BY <1>1, <2>1, RowAt DEF DueBy, Init
    <3>2. row[id].at = 0
      BY <3>1
    <3> QED BY <3>1, <3>2, <1>2 DEF TablesInv
  <2> QED BY <1>1, <2>1, SkippedIsDue
<1> QED BY <1>1, <1>2, <1>3, <1>4, <1>5 DEF Inv

LEMMA NextInv ==
  ASSUME Inv, [Next]_vars
  PROVE  Inv'
<1>0. TypeInv /\ TablesInv /\ Stamped(slow)
  BY DEF Inv
<1>1. CASE StartSync
  BY <1>1, StartKeeps
<1>2. CASE \/ PullUsers \/ PullGuilds \/ PullChannels \/ PullRoles \/ PullGuildMembers
           \/ PullFriendships \/ PullDmMembers
  BY <1>0, <1>2, PullsGrow, GrowsKeeps
<1>3. CASE GuildsForMsg
  BY <1>0, <1>3, GuildsForMsgGrows, GrowsKeeps
<1>4. CASE ChannelsForMsg
  BY <1>0, <1>4, ChannelsForMsgGrows, GrowsKeeps
<1>5. CASE DMsForMsg
  BY <1>0, <1>5, DMsForMsgGrows, GrowsKeeps
<1>6. CASE PullMessages
  BY <1>0, <1>6, PullMessagesGrows, GrowsKeeps
<1>7. CASE Receive
  BY <1>7, ReceiveKeeps
<1>8. CASE LoseReply
  BY <1>8, LoseKeeps
<1>9. CASE OtherHandlers
  BY <1>0, <1>9, OtherType, OtherTables, OtherStamped, OtherSyncInv, OtherSkips DEF Inv
<1>10. CASE UNCHANGED vars
  <2>1. UNCHANGED <<row, slow, now, sync, known, cursor, faults, excused, current>>
    BY <1>10 DEF vars, tables
  <2>2. TypeInv'
    BY <2>1 DEF Inv, TypeInv
  <2>3. TablesInv' /\ Stamped(slow)' /\ NothingSkipped'
    BY <2>1 DEF Inv, TablesInv, Stamped, NothingSkipped, Stale, Followed, Live, Exists, Ways,
                Edges, InGuild, InDM, InChannel
  <2>4. SyncInv'
    <3>1. Ahead' = Ahead
      BY <2>1 DEF Ahead, ChannelsAhead, MessagesOf
    <3>2. \A id \in Id : DueBy(id, sync.time)' <=> DueBy(id, sync.time)
      BY <2>1 DEF DueBy, Followed, Live, Exists, Ways, Edges, InGuild, InDM, InChannel
    <3> QED BY <2>1, <3>1, <3>2 DEF Inv, SyncInv
  <2> QED BY <2>2, <2>3, <2>4 DEF Inv
<1> QED BY <1>1, <1>2, <1>3, <1>4, <1>5, <1>6, <1>7, <1>8, <1>9, <1>10 DEF Next, Handler

-----------------------------------------------------------------------------
(* The first Sync: while nothing is written the answer is what the queries return. *)

\* The answer of a call during which nothing was written.
CalmInv ==
    sync.pc # "idle" /\ sync.calm =>
        /\ \A id \in DOMAIN sync.resp :
              id \in MessageId \/ (id \in Returned(sync.since) /\ sync.resp[id] = row[id])
        /\ sync.failed = {} =>
              \A id \in Returned(sync.since) : id \in DOMAIN sync.resp \/ id \in Ahead

\* A cursor of 0 is that of a client without rows.
NewInv ==
    /\ now > 0
    /\ sync.pc # "idle" => sync.time > 0
    /\ cursor = 0 => \A id \in Id : known[id] = NoRow

\* What a current client has.
CopyInv ==
    current => \A id \in Id \ MessageId :
                    known[id] = IF id \in Returned(0) THEN row[id] ELSE NoRow

First == CalmInv /\ NewInv /\ CopyInv

LEMMA ReturnedSame ==
  ASSUME row' = row, NEW s
  PROVE  Returned(s)' = Returned(s)
BY DEF Returned, SyncUsers, SyncGuilds, SyncChannels, SyncRoles, SyncGuildMembers,
       SyncFriendships, SyncDmMembers, After, MyGuilds, MyDMs, Live, Exists, Edges

LEMMA InitFirst ==
  ASSUME Init
  PROVE  First
<1>1. CalmInv
  BY IdleCall DEF Init, CalmInv
<1>2. NewInv
  <2>1. now > 0
    BY SyncConstants DEF Init
  <2>2. \A id \in Id : known[id] = NoRow
    BY DEF Init
  <2>3. sync.pc = "idle"
    BY IdleCall DEF Init
  <2> QED BY <2>1, <2>2, <2>3 DEF NewInv
<1>3. CopyInv
  BY DEF Init, CopyInv
<1> QED BY <1>1, <1>2, <1>3 DEF First

LEMMA GrowsFirst ==
  ASSUME Inv, First, Grows
  PROVE  First'
<1>1. PICK s : s = sync.since
  OBVIOUS
<1>2. Returned(s)' = Returned(s) /\ Returned(0)' = Returned(0) /\ sync'.since = s
  BY <1>1, ReturnedSame DEF Grows
<1>3. CalmInv'
  <2> SUFFICES ASSUME sync'.calm
               PROVE  /\ \A id \in DOMAIN sync'.resp :
                            id \in MessageId \/ (id \in Returned(s) /\ sync'.resp[id] = row[id])
                      /\ sync'.failed = {} =>
                            \A id \in Returned(s) : id \in DOMAIN sync'.resp \/ id \in Ahead'
    BY <1>2 DEF CalmInv, Grows
  <2>1. /\ \A id \in DOMAIN sync.resp :
              id \in MessageId \/ (id \in Returned(s) /\ sync.resp[id] = row[id])
        /\ sync.failed = {} =>
              \A id \in Returned(s) : id \in DOMAIN sync.resp \/ id \in Ahead
    BY <1>1 DEF First, CalmInv, Grows
  <2>2. \A id \in DOMAIN sync'.resp :
            id \in MessageId \/ (id \in Returned(s) /\ sync'.resp[id] = row[id])
    BY <1>1, <2>1 DEF Grows
  <2>3. ASSUME sync'.failed = {}, NEW id \in Returned(s)
        PROVE  id \in DOMAIN sync'.resp \/ id \in Ahead'
    <3>1. sync.failed = {}
      BY <2>3 DEF Grows
    <3>2. Wanted(id)
      BY <1>1 DEF Wanted
    <3> QED BY <2>1, <2>3, <3>1, <3>2 DEF Grows
  <2> QED BY <2>2, <2>3
<1>4. NewInv'
  BY DEF First, NewInv, Grows
<1>5. CopyInv'
  BY <1>2 DEF First, CopyInv, Grows
<1> QED BY <1>3, <1>4, <1>5 DEF First

LEMMA StartFirst ==
  ASSUME Inv, First, StartSync
  PROVE  First'
<1>2. sync' \in Call /\ sync'.pc = "SyncUsers" /\ sync'.time = now /\ DOMAIN sync'.resp = {}
  BY StartedCall DEF Inv
<1>3. UNCHANGED <<row, now, known, cursor, current>>
  BY DEF StartSync, tables
<1>4. CalmInv'
  <2>1. \A id \in Id \ MessageId : id \in Ahead'
    BY <1>2 DEF Ahead
  <2>2. PICK s : s = sync'.since
    OBVIOUS
  <2>3. \A id \in Returned(s) : id \in Ahead'
    BY <2>1, ReturnedKinds
  <2>4. Returned(s)' = Returned(s)
    BY <1>3, ReturnedSame
  <2> QED BY <1>2, <2>2, <2>3, <2>4 DEF CalmInv
<1>5. NewInv'
  BY <1>2, <1>3 DEF First, NewInv
<1>6. CopyInv'
  BY <1>3, ReturnedSame DEF First, CopyInv
<1> QED BY <1>4, <1>5, <1>6 DEF First

LEMMA LoseFirst ==
  ASSUME Inv, First, LoseReply
  PROVE  First'
<1>1. sync'.pc = "idle" /\ UNCHANGED <<row, now, known, cursor, current>>
  BY IdleCall DEF LoseReply, tables
<1> QED BY <1>1, ReturnedSame DEF First, CalmInv, NewInv, CopyInv

LEMMA ReceiveFirst ==
  ASSUME Inv, First, Receive
  PROVE  First'
<1>1. /\ sync.pc = "reply" /\ sync'.pc = "idle" /\ cursor' = sync.time
      /\ row' = row /\ now' = now
      /\ known' = [id \in Id |-> IF id \in DOMAIN sync.resp THEN sync.resp[id] ELSE known[id]]
      /\ current' = (sync.calm /\ sync.since = 0 /\ sync.failed = {})
  BY IdleCall DEF Receive, ServerTime, tables
<1>2. CalmInv'
  BY <1>1 DEF CalmInv
<1>3. NewInv'
  BY <1>1 DEF First, NewInv
<1>4. ASSUME current', NEW id \in Id \ MessageId
      PROVE  known'[id] = IF id \in Returned(0) THEN row[id] ELSE NoRow
  <2>1. sync.calm /\ sync.since = 0 /\ sync.failed = {} /\ cursor = 0
    BY <1>1, <1>4 DEF Inv, SyncInv
  <2>2. known[id] = NoRow
    BY <2>1 DEF First, NewInv
  <2>3. id \notin Ahead
    BY <1>1 DEF Ahead, ChannelsAhead, MessagesOf
  <2>4. id \in DOMAIN sync.resp => id \in Returned(0) /\ sync.resp[id] = row[id]
    BY <1>1, <2>1 DEF First, CalmInv
  <2>5. id \in Returned(0) => id \in DOMAIN sync.resp
    BY <1>1, <2>1, <2>3 DEF First, CalmInv
  <2> QED BY <1>1, <2>2, <2>4, <2>5
<1>5. CopyInv'
  BY <1>1, <1>4, ReturnedSame DEF CopyInv
<1> QED BY <1>2, <1>3, <1>5 DEF First

LEMMA OtherFirst ==
  ASSUME Inv, First, OtherHandlers
  PROVE  First'
<1>1. now \in Nat /\ TypeInv /\ TablesInv /\ Stamped(slow)
  BY SyncConstants DEF Inv, TypeInv
<1>2. now' = now \/ now' = now + 1
  BY <1>1, OtherKinds
<1>3. cursor' = cursor /\ known' = known
  BY DEF OtherHandlers
<1>4. NewInv'
  BY <1>1, <1>2, <1>3, OtherSync DEF First, NewInv
<1>5. CASE row' = row
  <2>1. sync' = sync /\ current' = current
    BY <1>5 DEF OtherHandlers
  <2>2. Ahead' = Ahead
    BY <2>1 DEF Ahead, ChannelsAhead, MessagesOf
  <2>3. PICK s : s = sync.since
    OBVIOUS
  <2>4. CalmInv'
    BY <1>5, <2>1, <2>2, <2>3, ReturnedSame DEF First, CalmInv
  <2>5. CopyInv'
    BY <1>3, <1>5, <2>1, ReturnedSame DEF First, CopyInv
  <2> QED BY <1>4, <2>4, <2>5 DEF First
<1>6. CASE row' # row
  <2>1. sync' = [sync EXCEPT !.calm = FALSE] /\ current' = FALSE
    BY <1>6 DEF OtherHandlers
  <2>2. sync'.calm = FALSE
    BY <1>1, <2>1 DEF TypeInv, Call
  <2> QED BY <1>4, <2>1, <2>2 DEF First, CalmInv, CopyInv
<1> QED BY <1>5, <1>6

LEMMA NextFirst ==
  ASSUME Inv, First, [Next]_vars
  PROVE  First'
<1>0. TypeInv /\ TablesInv
  BY DEF Inv
<1>1. CASE StartSync
  BY <1>1, StartFirst
<1>2. CASE Handler /\ ~StartSync
  BY <1>0, <1>2, PullsGrow, GuildsForMsgGrows, ChannelsForMsgGrows, DMsForMsgGrows,
     PullMessagesGrows, GrowsFirst DEF Handler
<1>3. CASE Receive
  BY <1>3, ReceiveFirst
<1>4. CASE LoseReply
  BY <1>4, LoseFirst
<1>5. CASE OtherHandlers
  BY <1>5, OtherFirst
<1>6. CASE UNCHANGED vars
  <2>1. UNCHANGED <<row, now, sync, known, cursor, current>>
    BY <1>6 DEF vars, tables
  <2>2. Ahead' = Ahead
    BY <2>1 DEF Ahead, ChannelsAhead, MessagesOf
  <2>3. PICK s : s = sync.since
    OBVIOUS
  <2>4. Returned(s)' = Returned(s) /\ Returned(0)' = Returned(0)
    BY <2>1, ReturnedSame
  <2> QED BY <2>1, <2>2, <2>3, <2>4 DEF First, CalmInv, NewInv, CopyInv
<1> QED BY <1>1, <1>2, <1>3, <1>4, <1>5, <1>6 DEF Next

\* What Returned(0) has of a row, in terms of the rows that the lists look at.
LEMMA KnownRows ==
  ASSUME TypeInv, TablesInv, CopyInv, current
  PROVE  /\ \A g \in Guilds :
               known[<<"guild", g>>] = IF g \in MyGuilds THEN row[<<"guild", g>>] ELSE NoRow
         /\ \A g \in Guilds, u \in Users :
               known[<<"member", g, u>>] = IF g \in MyGuilds THEN row[<<"member", g, u>>] ELSE NoRow
         /\ \A c \in Channels :
               known[<<"channel", c>>] = IF GuildOf[c] \in MyGuilds \/ c \in MyDMs
                                         THEN row[<<"channel", c>>] ELSE NoRow
         /\ \A c \in DMs \ Channels :
               known[<<"channel", c>>] = IF c \in MyDMs THEN row[<<"channel", c>>] ELSE NoRow
         /\ \A r \in Roles :
               known[<<"role", r>>] = IF GuildOf[r] \in MyGuilds THEN row[<<"role", r>>] ELSE NoRow
         /\ \A c \in DMs, u \in Users :
               known[<<"dmMember", c, u>>] = IF c \in MyDMs THEN row[<<"dmMember", c, u>>] ELSE NoRow
         /\ \A v \in Users \ {Me} :
               /\ known[<<"friend", Me, v>>] = row[<<"friend", Me, v>>]
               /\ known[<<"friend", v, Me>>] = row[<<"friend", v, Me>>]
         /\ \A u \in Users :
               Exists(<<"user", u>>) /\ (\/ \E g \in MyGuilds : Exists(<<"member", g, u>>)
                                         \/ \E e \in Edges(Me, u) : Live(e))
                    => known[<<"user", u>>] # NoRow
<1>0. Me \in Users
  BY SyncConstants
<1>1. \A id \in Id \ MessageId :
        /\ known[id] = IF id \in Returned(0) THEN row[id] ELSE NoRow
        /\ Exists(id) => row[id].at > 0
  <2> SUFFICES ASSUME NEW id \in Id \ MessageId, Exists(id) PROVE row[id].at > 0
    BY DEF CopyInv
  <2>1. row[id].at \in Nat /\ row[id].at # 0
    BY RowAt DEF TablesInv
  <2> QED BY <2>1
<1>2. \A id \in Id \ MessageId : ~Exists(id) => known[id] = NoRow
  BY <1>1 DEF Exists
<1>3. ASSUME NEW g \in Guilds
      PROVE  known[<<"guild", g>>] = IF g \in MyGuilds THEN row[<<"guild", g>>] ELSE NoRow
  <2> DEFINE id == <<"guild", g>>
  <2>1. id \in Id \ MessageId /\ id \in GuildId /\ id[2] = g
    BY IdsExist, KindOf
  <2>2. id \in Returned(0) => g \in MyGuilds
    BY <2>1, ReturnedKinds DEF SyncGuilds
  <2>3. g \in MyGuilds /\ Exists(id) => id \in Returned(0)
    BY <1>1, <2>1 DEF Returned, SyncGuilds, After
  <2> QED BY <1>1, <1>2, <2>1, <2>2, <2>3 DEF Exists
<1>4. ASSUME NEW g \in Guilds, NEW u \in Users
      PROVE  known[<<"member", g, u>>] = IF g \in MyGuilds THEN row[<<"member", g, u>>] ELSE NoRow
  <2> DEFINE id == <<"member", g, u>>
  <2>1. id \in Id \ MessageId /\ id \in MemberId /\ id[2] = g
    BY IdsExist, KindOf
  <2>2. id \in Returned(0) => g \in MyGuilds
    BY <2>1, ReturnedKinds DEF SyncGuildMembers
  <2>3. g \in MyGuilds /\ Exists(id) => id \in Returned(0)
    BY <1>1, <2>1 DEF Returned, SyncGuildMembers, After
  <2> QED BY <1>1, <1>2, <2>1, <2>2, <2>3 DEF Exists
<1>5. ASSUME NEW c \in Channels \cup DMs
      PROVE  known[<<"channel", c>>] = IF c \in MyDMs \/ (c \in Channels /\ GuildOf[c] \in MyGuilds)
                                       THEN row[<<"channel", c>>] ELSE NoRow
  <2> DEFINE id == <<"channel", c>>
  <2>1. id \in Id \ MessageId /\ id \in ChannelId /\ id[2] = c
    BY IdsExist, KindOf
  <2>2. id \in Returned(0) => c \in MyDMs \/ (c \in Channels /\ GuildOf[c] \in MyGuilds)
    BY <2>1, ReturnedKinds DEF SyncChannels
  <2>3. (c \in MyDMs \/ (c \in Channels /\ GuildOf[c] \in MyGuilds)) /\ Exists(id)
            => id \in Returned(0)
    BY <1>1, <2>1 DEF Returned, SyncChannels, After
  <2> QED BY <1>1, <1>2, <2>1, <2>2, <2>3 DEF Exists
<1>6. ASSUME NEW r \in Roles
      PROVE  known[<<"role", r>>] = IF GuildOf[r] \in MyGuilds THEN row[<<"role", r>>] ELSE NoRow
  <2> DEFINE id == <<"role", r>>
  <2>1. id \in Id \ MessageId /\ id \in RoleId /\ id[2] = r
    BY IdsExist, KindOf
  <2>2. id \in Returned(0) => GuildOf[r] \in MyGuilds
    BY <2>1, ReturnedKinds DEF SyncRoles
  <2>3. GuildOf[r] \in MyGuilds /\ Exists(id) => id \in Returned(0)
    BY <1>1, <2>1 DEF Returned, SyncRoles, After
  <2> QED BY <1>1, <1>2, <2>1, <2>2, <2>3 DEF Exists
<1>7. ASSUME NEW c \in DMs, NEW u \in Users
      PROVE  known[<<"dmMember", c, u>>] = IF c \in MyDMs THEN row[<<"dmMember", c, u>>] ELSE NoRow
  <2> DEFINE id == <<"dmMember", c, u>>
  <2>1. id \in Id \ MessageId /\ id \in DMMemberId /\ id[2] = c
    BY IdsExist, KindOf
  <2>2. id \in Returned(0) => c \in MyDMs
    BY <2>1, ReturnedKinds DEF SyncDmMembers
  <2>3. c \in MyDMs /\ Exists(id) => id \in Returned(0)
    BY <1>1, <2>1 DEF Returned, SyncDmMembers, After
  <2> QED BY <1>1, <1>2, <2>1, <2>2, <2>3 DEF Exists
<1>8. ASSUME NEW v \in Users \ {Me}
      PROVE  /\ known[<<"friend", Me, v>>] = row[<<"friend", Me, v>>]
             /\ known[<<"friend", v, Me>>] = row[<<"friend", v, Me>>]
  <2>1. ASSUME NEW id \in {<<"friend", Me, v>>, <<"friend", v, Me>>}
        PROVE  known[id] = row[id]
    <3>1. id \in Id \ MessageId /\ id \in FriendId /\ Me \in {id[2], id[3]}
      BY <1>0, IdsExist, KindOf
    <3>2. Exists(id) => id \in Returned(0)
      BY <3>1 DEF Returned, SyncFriendships
    <3> QED BY <1>1, <1>2, <3>1, <3>2 DEF Exists
  <2> QED BY <2>1
<1>9. ASSUME NEW u \in Users, Exists(<<"user", u>>),
             \/ \E g \in MyGuilds : Exists(<<"member", g, u>>)
             \/ \E e \in Edges(Me, u) : Live(e)
      PROVE  known[<<"user", u>>] # NoRow
  <2> DEFINE id == <<"user", u>>
  <2>1. id \in Id \ MessageId /\ id \in UserId /\ id[2] = u
    BY IdsExist, KindOf
  <2>2. id \in SyncUsers(0)
    BY <1>1, <1>9, <2>1 DEF SyncUsers, After
  <2> QED BY <1>1, <1>9, <2>1, <2>2 DEF Returned, Exists
<1> QED BY <1>3, <1>4, <1>5, <1>6, <1>7, <1>8, <1>9

LEMMA ListsAgree ==
  ASSUME Inv, First
  PROVE  FirstSyncMatchesLists
<1> SUFFICES ASSUME current PROVE FirstSyncMatchesLists
  BY DEF FirstSyncMatchesLists
<1>0. TypeInv /\ TablesInv /\ CopyInv /\ Me \in Users
  BY SyncConstants DEF Inv, First
<1> DEFINE Marked(u, v, st) == Known(<<"friend", u, v>>) /\ known[<<"friend", u, v>>].val = st
           Others == Users \ {Me}
<1>1. ListUserGuilds(Me) = {g \in Guilds : Known(<<"guild", g>>)}
  BY <1>0, KnownRows DEF ListUserGuilds, Known, MyGuilds, Live, Exists
<1>2. ASSUME NEW g \in ListUserGuilds(Me)
      PROVE  /\ ListGuildMembers(g) = {u \in Users : Known(<<"member", g, u>>)}
             /\ CountGuildMembers(g) = Cardinality({id \in MemberId : id[2] = g /\ Known(id)})
             /\ ListGuildChannels(g) = {c \in Channels : GuildOf[c] = g /\ Known(<<"channel", c>>)}
             /\ ListGuildRoles(g) = {r \in Roles : GuildOf[r] = g /\ Known(<<"role", r>>)}
             /\ \A u \in ListGuildMembers(g) : known[<<"user", u>>] # NoRow
  <2>1. g \in Guilds /\ g \in MyGuilds
    BY DEF ListUserGuilds, MyGuilds
  <2>2. ListGuildMembers(g) = {u \in Users : Known(<<"member", g, u>>)}
    BY <1>0, <2>1, KnownRows DEF ListGuildMembers, Known, Live, Exists
  <2>3. CountGuildMembers(g) = Cardinality({id \in MemberId : id[2] = g /\ Known(id)})
    <3> DEFINE S == ListGuildMembers(g)
               T == {id \in MemberId : id[2] = g /\ Known(id)}
               f == [u \in S |-> <<"member", g, u>>]
    <3>1. IsFiniteSet(S)
      <4>1. S \subseteq Users /\ IsFiniteSet(Users)
        BY TablesConstants DEF ListGuildMembers
      <4> QED BY <4>1, FS_Subset
    <3>2. \A u \in S : <<"member", g, u>> \in T
      BY <2>1, <2>2, IdsExist
    <3>3. \A id \in T : id = <<"member", g, id[3]>> /\ id[3] \in S
      <4> SUFFICES ASSUME NEW id \in T PROVE id = <<"member", g, id[3]>> /\ id[3] \in S
        OBVIOUS
      <4>1. id = <<"member", g, id[3]>> /\ id[3] \in Users /\ Known(id)
        BY DEF MemberId
      <4> QED BY <4>1, <2>2
    <3> HIDE DEF S, T
    <3>4. f \in [S -> T]
      BY <3>2
    <3>5. f \in Injection(S, T)
      BY <3>4 DEF Injection, IsInjective
    <3>6. f \in Surjection(S, T)
      BY <3>3, <3>4 DEF Surjection
    <3>7. f \in Bijection(S, T)
      BY <3>5, <3>6 DEF Bijection
    <3>8. Cardinality(S) = Cardinality(T)
      BY <3>1, <3>7, FS_Bijection DEF ExistsBijection
    <3> QED BY <3>8 DEF CountGuildMembers, S, T
  <2>4. ListGuildChannels(g) = {c \in Channels : GuildOf[c] = g /\ Known(<<"channel", c>>)}
    BY <1>0, <2>1, KnownRows DEF ListGuildChannels, Known, Live, Exists
  <2>5. ListGuildRoles(g) = {r \in Roles : GuildOf[r] = g /\ Known(<<"role", r>>)}
    BY <1>0, <2>1, KnownRows DEF ListGuildRoles, Known, Live, Exists
  <2>6. ASSUME NEW u \in ListGuildMembers(g)
        PROVE  known[<<"user", u>>] # NoRow
    <3>1. u \in Users /\ Exists(<<"member", g, u>>)
      BY DEF ListGuildMembers, Live
    <3>2. <<"user", u>> \in Refers(<<"member", g, u>>) /\ <<"member", g, u>> \in Id
      BY <2>1, <3>1, IdsExist, RefersOf
    <3>3. Exists(<<"user", u>>)
      BY <1>0, <3>1, <3>2 DEF TablesInv
    <3> QED BY <1>0, <2>1, <3>1, <3>3, KnownRows
  <2> QED BY <2>2, <2>3, <2>4, <2>5, <2>6
<1>3. ListDMChannels(Me) = {c \in DMs : Known(<<"channel", c>>) /\ Known(<<"dmMember", c, Me>>)}
  <2>1. ASSUME NEW c \in DMs
        PROVE  Live(<<"channel", c>>) /\ Live(<<"dmMember", c, Me>>)
                    <=> Known(<<"channel", c>>) /\ Known(<<"dmMember", c, Me>>)
    <3>1. CASE c \in MyDMs
      <4>1. known[<<"channel", c>>] = row[<<"channel", c>>]
              /\ known[<<"dmMember", c, Me>>] = row[<<"dmMember", c, Me>>]
        BY <1>0, <3>1, KnownRows
      <4> QED BY <4>1 DEF Known, Live, Exists
    <3>2. CASE c \notin MyDMs
      <4>1. known[<<"dmMember", c, Me>>] = NoRow
        BY <1>0, <3>2, KnownRows
      <4> QED BY <3>2, <4>1 DEF Known, MyDMs
    <3> QED BY <3>1, <3>2
  <2> QED BY <2>1 DEF ListDMChannels
<1>4. ASSUME NEW c \in ListDMChannels(Me)
      PROVE  GetDMChannelMembers(c) = {u \in Users : Known(<<"dmMember", c, u>>)}
  <2>1. c \in DMs /\ c \in MyDMs
    BY DEF ListDMChannels, MyDMs
  <2> QED BY <1>0, <2>1, KnownRows DEF GetDMChannelMembers, Known, Live, Exists
<1>5. ASSUME NEW v \in Others, NEW st
      PROVE  /\ Marked(Me, v, st) <=> HasStatus(<<"friend", Me, v>>, st)
             /\ Marked(v, Me, st) <=> HasStatus(<<"friend", v, Me>>, st)
  BY <1>0, KnownRows DEF Known, HasStatus, Live, Exists
<1>6. ListFriends(Me) = {v \in Others : Marked(Me, v, "accepted") \/ Marked(v, Me, "accepted")}
  <2>1. ASSUME NEW v \in Others
        PROVE  (\E id \in Edges(Me, v) : HasStatus(id, "accepted"))
                    <=> Marked(Me, v, "accepted") \/ Marked(v, Me, "accepted")
    <3> HIDE DEF Marked
    <3>1. (\E id \in Edges(Me, v) : HasStatus(id, "accepted"))
            <=> \/ HasStatus(<<"friend", Me, v>>, "accepted")
                \/ HasStatus(<<"friend", v, Me>>, "accepted")
      BY DEF Edges, HasStatus, Live
    <3> QED BY <1>5, <3>1
  <2> HIDE DEF Marked
  <2> QED BY <2>1 DEF ListFriends
<1>7. /\ ListPendingIncoming(Me) = {v \in Others : Marked(v, Me, "pending")}
      /\ ListPendingOutgoing(Me) = {v \in Others : Marked(Me, v, "pending")}
      /\ ListBlocked(Me) = {v \in Others : Marked(Me, v, "blocked")}
  <2> HIDE DEF Marked
  <2> QED BY <1>5 DEF ListPendingIncoming, ListPendingOutgoing, ListBlocked
<1>8. ASSUME NEW v \in ListFriends(Me)
      PROVE  known[<<"user", v>>] # NoRow
  <2>1. v \in Users \ {Me}
    BY DEF ListFriends
  <2>2. PICK e \in Edges(Me, v) : Live(e)
    BY DEF ListFriends, HasStatus
  <2>3. e \in Id /\ Exists(e) /\ <<"user", v>> \in Refers(e)
    BY <1>0, <2>1, <2>2, IdsExist, RefersOf DEF Edges
  <2>4. Exists(<<"user", v>>)
    BY <1>0, <2>3 DEF TablesInv
  <2> QED BY <1>0, <2>1, <2>2, <2>4, KnownRows
<1> QED BY <1>1, <1>2, <1>3, <1>4, <1>6, <1>7, <1>8 DEF FirstSyncMatchesLists

-----------------------------------------------------------------------------
(* Theorems. *)

\* The tables, the running call and the client's copy always have their types; the clock
\* and the failures keep to their bounds.
THEOREM TypeCorrect == Spec => []SyncTypeOK
<1>1. Inv => SyncTypeOK
  <2> SUFFICES ASSUME Inv PROVE SyncTypeOK
    OBVIOUS
  <2>1. \A r \in Rows : DOMAIN r \subseteq Id /\ \A id \in DOMAIN r : r[id] \in Row
    BY DEF Rows
  <2>2. TypeInv /\ sync \in Call
    BY DEF Inv, TypeInv
  <2>3. sync.resp \in Rows /\ slow \in Rows
    BY <2>2 DEF TypeInv, Call
  <2> QED BY <2>1, <2>2, <2>3 DEF SyncTypeOK, TypeInv, Call
<1> QED BY <1>1, InitInv, NextInv, PTL DEF Spec

\* NothingSkipped of the Sync RPC, for any tables: whatever other handlers write before,
\* between and during the queries, whatever answers are lost and whatever queries fail,
\* a row that Me could see when it was stamped and that the client has not got has an
\* updated_at after the client's cursor.
THEOREM SyncSkipsNothing == Spec => []NothingSkipped
<1>1. Inv => NothingSkipped
  BY DEF Inv
<1> QED BY <1>1, InitInv, NextInv, PTL DEF Spec

\* FirstSyncMatchesLists of the Sync RPC, for any tables: after a first Sync during which
\* nothing was written and no query failed, the client has the guilds, members, channels,
\* roles, DMs and friends that the list RPCs return, and the profiles of the people in them.
THEOREM FirstSyncIsComplete == Spec => []FirstSyncMatchesLists
<1>1. Init => Inv /\ First
  BY InitInv, InitFirst
<1>2. Inv /\ First /\ [Next]_vars => (Inv /\ First)'
  BY NextInv, NextFirst
<1>3. Inv /\ First => FirstSyncMatchesLists
  BY ListsAgree
<1> QED BY <1>1, <1>2, <1>3, PTL DEF Spec
=============================================================================
