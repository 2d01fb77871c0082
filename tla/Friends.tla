------------------------------ MODULE Friends ------------------------------
(***************************************************************************)
(* The friend graph of internal/features/user/service.go, the block check  *)
(* of SendDirectMessage, and the 1:1 DM channels that both AcceptFriend-   *)
(* Request and SendDirectMessage open through channel.CreateDMChannel.     *)
(*                                                                         *)
(* A friendships row belongs to an ordered pair; row keeps its status and  *)
(* live says that it is not soft-deleted.  As in Guild, an RPC is a        *)
(* sequence of atomic store calls with no transaction around them.         *)
(***************************************************************************)
EXTENDS Naturals, FiniteSets

CONSTANTS
    User, Worker, Channel,
    Ops,            \* the RPCs clients call in this instance
    NoUser, NoChannel,
    MaxFaults       \* bound: how many store calls fail

FriendOps ==
    {"SendFriendRequest", "AcceptFriendRequest", "DeclineFriendRequest",
     "CancelFriendRequest", "RemoveFriend", "BlockUser", "UnblockUser",
     "SendDirectMessage", "CreateDMChannel"}

ASSUME FriendsConstants ==
    /\ Ops \subseteq FriendOps
    /\ MaxFaults \in Nat

VARIABLES
    row,        \* friendships.status by ordered pair, "none" before the insert
    live,       \* the pairs whose row exists with deleted = FALSE
    channels,   \* type-5 channels: created or not, and their members
    rpc,        \* the running RPC of each worker
    faults,     \* store calls that have failed so far
    asked,      \* history: <<u, v>> once u's request to v was written
    agreed,     \* history: <<v, u>> once v accepted a request of u
    serial      \* history: no two RPCs have overlapped and no call has failed so far

store == <<row, live, channels>>
history == <<asked, agreed>>
vars == <<store, rpc, faults, history, serial>>

Pair == {p \in User \X User : p[1] # p[2]}

Calls == {"idle", "GetFriendship", "CreateFriendship", "UpdateFriendshipStatus",
          "DeleteFriendship", "IsBlocked", "IsBlockedReverse",
          "GetDMChannelBetweenUsers", "CreateDMChannel", "AddCreator", "AddRecipient"}

Request == [op : FriendOps \cup {"none"}, pc : Calls, user : User \cup {NoUser},
            target : User \cup {NoUser}, channel : Channel \cup {NoChannel}]

FriendsTypeOK ==
    /\ row \in [Pair -> {"none", "pending", "accepted", "blocked"}]
    /\ live \subseteq Pair
    /\ channels \in [Channel -> [made : BOOLEAN, members : SUBSET User]]
    /\ rpc \in [Worker -> Request]
    /\ faults \in Nat
    /\ asked \subseteq Pair
    /\ agreed \subseteq Pair
    /\ serial \in BOOLEAN

Idle == [op |-> "none", pc |-> "idle", user |-> NoUser, target |-> NoUser,
         channel |-> NoChannel]

Init ==
    /\ row = [p \in Pair |-> "none"]
    /\ live = {}
    /\ channels = [c \in Channel |-> [made |-> FALSE, members |-> {}]]
    /\ rpc = [w \in Worker |-> Idle]
    /\ faults = 0
    /\ asked = {}
    /\ agreed = {}
    /\ serial = TRUE

-----------------------------------------------------------------------------

Goto(w, pc) == rpc' = [rpc EXCEPT ![w].pc = pc]

Return(w) == rpc' = [rpc EXCEPT ![w] = Idle]

Proceed(w, ok, pc) == IF ok THEN Goto(w, pc) ELSE Return(w)

Read == UNCHANGED <<store, faults, history>>

Entry(op) ==
    CASE op = "BlockUser" -> "DeleteFriendship"
      [] op = "SendDirectMessage" -> "IsBlocked"
      [] op = "CreateDMChannel" -> "GetDMChannelBetweenUsers"
      [] OTHER -> "GetFriendship"

\* A client's RPC reaches a free worker.  SendFriendRequest and BlockUser refuse
\* a caller that names itself; the others find no row for such a pair.
Call(w) ==
    /\ rpc[w].pc = "idle"
    /\ \E op \in Ops, p \in Pair :
            rpc' = [rpc EXCEPT ![w] = [op |-> op, pc |-> Entry(op), user |-> p[1],
                                       target |-> p[2], channel |-> NoChannel]]
    /\ Read

-----------------------------------------------------------------------------
(* The friend graph.                                                       *)

\* The rows GetFriendship matches: either direction, not deleted.  It returns the
\* first one the database happens to find.
Between(u, v) == live \cap {<<u, v>>, <<v, u>>}

\* Mutant: AcceptFriendRequest takes a row of any status.
MayAcceptAny(u, v, p) == p = <<v, u>>

\* AcceptFriendRequest by u of v's request.
MayAccept(u, v, p) == row[p] = "pending" /\ p = <<v, u>>

\* Mutant: UnblockUser does not check whose block it is.
MayUnblockAny(u, p) == row[p] = "blocked" /\ u \in User

\* UnblockUser by u.
MayUnblock(u, p) == row[p] = "blocked" /\ p[1] = u

\* What the row that was found allows its reader to do.  SendFriendRequest goes
\* on only if none was found.
Permits(op, u, v, p) ==
    CASE op = "AcceptFriendRequest" -> MayAccept(u, v, p)
      [] op = "DeclineFriendRequest" -> row[p] = "pending"
      [] op = "CancelFriendRequest" -> row[p] = "pending" /\ p[1] = u
      [] op = "RemoveFriend" -> row[p] = "accepted"
      [] op = "UnblockUser" -> MayUnblock(u, p)
      [] OTHER -> FALSE

AfterFriendship(op) ==
    CASE op = "SendFriendRequest" -> "CreateFriendship"
      [] op = "AcceptFriendRequest" -> "UpdateFriendshipStatus"
      [] OTHER -> "DeleteFriendship"

GetFriendship(w) ==
    /\ rpc[w].pc = "GetFriendship"
    /\ LET found == Between(rpc[w].user, rpc[w].target) IN
        \/ /\ found = {}
           /\ Proceed(w, rpc[w].op = "SendFriendRequest", "CreateFriendship")
        \/ \E p \in found :
            Proceed(w, Permits(rpc[w].op, rpc[w].user, rpc[w].target, p),
                    AfterFriendship(rpc[w].op))
    /\ Read

\* The upsert of SendFriendRequest and BlockUser.
CreateFriendship(w) ==
    /\ rpc[w].pc = "CreateFriendship"
    /\ LET p == <<rpc[w].user, rpc[w].target>> IN
        /\ row' = [row EXCEPT ![p] = IF rpc[w].op = "BlockUser" THEN "blocked" ELSE "pending"]
        /\ live' = live \cup {p}
        /\ asked' = IF rpc[w].op = "BlockUser" THEN asked ELSE asked \cup {p}
    /\ Return(w)
    /\ UNCHANGED <<channels, faults, agreed>>

\* AcceptFriendRequest: the update ignores the deleted flag.
UpdateFriendshipStatus(w) ==
    /\ rpc[w].pc = "UpdateFriendshipStatus"
    /\ row' = [row EXCEPT ![<<rpc[w].target, rpc[w].user>>] = "accepted"]
    /\ agreed' = agreed \cup {<<rpc[w].user, rpc[w].target>>}
    /\ Goto(w, "GetDMChannelBetweenUsers")
    /\ UNCHANGED <<live, channels, faults, asked>>

\* Mutant: only the caller's own row is deleted.
DeleteOwnFriendship(w) ==
    /\ rpc[w].pc = "DeleteFriendship"
    /\ live' = live \ {<<rpc[w].user, rpc[w].target>>}
    /\ Proceed(w, rpc[w].op = "BlockUser", "CreateFriendship")
    /\ UNCHANGED <<row, channels, faults, history>>

\* Both directions at once.
DeleteFriendship(w) ==
    /\ rpc[w].pc = "DeleteFriendship"
    /\ live' = live \ {<<rpc[w].user, rpc[w].target>>, <<rpc[w].target, rpc[w].user>>}
    /\ Proceed(w, rpc[w].op = "BlockUser", "CreateFriendship")
    /\ UNCHANGED <<row, channels, faults, history>>

-----------------------------------------------------------------------------
(* SendDirectMessage's block check, asked once in each direction although    *)
(* BlockChecker.IsBlocked reads either row; then the DM channel.  The        *)
(* message itself changes nothing here.                                      *)

\* Mutant: one call only, which looks at the sender's own row.
IsBlockedOneWay(w) ==
    /\ rpc[w].pc = "IsBlocked"
    /\ Proceed(w, ~(<<rpc[w].user, rpc[w].target>> \in live
                        /\ row[<<rpc[w].user, rpc[w].target>>] = "blocked"),
               "GetDMChannelBetweenUsers")
    /\ Read

IsBlocked(w) ==
    /\ rpc[w].pc \in {"IsBlocked", "IsBlockedReverse"}
    /\ LET found == Between(rpc[w].user, rpc[w].target)
           next == IF rpc[w].pc = "IsBlocked" THEN "IsBlockedReverse"
                   ELSE "GetDMChannelBetweenUsers"
       IN  \/ found = {} /\ Goto(w, next)
           \/ \E p \in found : Proceed(w, row[p] # "blocked", next)
    /\ Read

DMBetween(u, v) == {c \in Channel : channels[c].made /\ {u, v} \subseteq channels[c].members}

\* Mutant: the look-up for an existing channel is left out.
AlwaysNewDM(w) ==
    /\ rpc[w].pc = "GetDMChannelBetweenUsers"
    /\ Goto(w, "CreateDMChannel")
    /\ Read

GetDMChannelBetweenUsers(w) ==
    /\ rpc[w].pc = "GetDMChannelBetweenUsers"
    /\ Proceed(w, DMBetween(rpc[w].user, rpc[w].target) = {}, "CreateDMChannel")
    /\ Read

CreateDMChannel(w) ==
    /\ rpc[w].pc = "CreateDMChannel"
    /\ \E c \in {d \in Channel : ~channels[d].made} :
        /\ channels' = [channels EXCEPT ![c].made = TRUE]
        /\ rpc' = [rpc EXCEPT ![w].channel = c, ![w].pc = "AddCreator"]
    /\ UNCHANGED <<row, live, faults, history>>

AddDMChannelMember(w) ==
    /\ \/ /\ rpc[w].pc = "AddCreator"
          /\ channels' = [channels EXCEPT ![rpc[w].channel].members = @ \cup {rpc[w].user}]
          /\ Goto(w, "AddRecipient")
       \/ /\ rpc[w].pc = "AddRecipient"
          /\ channels' = [channels EXCEPT ![rpc[w].channel].members = @ \cup {rpc[w].target}]
          /\ Return(w)
    /\ UNCHANGED <<row, live, faults, history>>

\* Bound: no channel id of the instance is left.
NoFreeChannel(w) ==
    /\ rpc[w].pc = "CreateDMChannel"
    /\ \A c \in Channel : channels[c].made
    /\ Return(w)
    /\ Read

-----------------------------------------------------------------------------
(* A store call that fails changes nothing; these failures are survived.     *)

AfterError(op, pc) ==
    CASE op = "SendFriendRequest" /\ pc = "GetFriendship" -> "CreateFriendship"
      [] op = "BlockUser" /\ pc = "DeleteFriendship" -> "CreateFriendship"
      [] pc = "IsBlocked" -> "IsBlockedReverse"
      [] pc = "IsBlockedReverse" -> "GetDMChannelBetweenUsers"
      [] pc = "GetDMChannelBetweenUsers" -> "CreateDMChannel"
      [] OTHER -> "idle"

CallFails(w) ==
    /\ rpc[w].pc # "idle"
    /\ faults < MaxFaults
    /\ faults' = faults + 1
    /\ LET pc == AfterError(rpc[w].op, rpc[w].pc) IN Proceed(w, pc # "idle", pc)
    /\ UNCHANGED <<store, history>>

OneAtATime ==
    /\ faults = 0
    /\ \A v, w \in Worker : rpc[v].pc # "idle" /\ rpc[w].pc # "idle" => v = w

Step(w) ==
    \/ Call(w) \/ GetFriendship(w) \/ CreateFriendship(w) \/ UpdateFriendshipStatus(w)
    \/ DeleteFriendship(w) \/ IsBlocked(w) \/ GetDMChannelBetweenUsers(w)
    \/ CreateDMChannel(w) \/ AddDMChannelMember(w) \/ NoFreeChannel(w) \/ CallFails(w)

Next ==
    /\ \E w \in Worker : Step(w)
    /\ serial' = (serial /\ OneAtATime')

Spec == Init /\ [][Next]_vars

-----------------------------------------------------------------------------
(* Whatever the interleaving, and whichever calls fail.                      *)

\* Nobody is anybody's friend without both having said so: u by a request that
\* was written, v by an AcceptFriendRequest of that request.
ConsentOfBoth ==
    \A p \in live : row[p] = "accepted" => p \in asked /\ <<p[2], p[1]>> \in agreed

-----------------------------------------------------------------------------
(* As long as RPCs do not overlap and no call fails.                         *)

\* Two users share at most one live row, which GetFriendship relies on: it takes the
\* first of whatever rows it finds.  And accepting a request, opening a DM and sending a
\* first message all end up in one channel for the two.
OnePerPair ==
    serial =>
        /\ \A p \in live : <<p[2], p[1]>> \notin live
        /\ \A p \in Pair : Cardinality(DMBetween(p[1], p[2])) <= 1

Blocks(u, v) == <<u, v>> \in live /\ row[<<u, v>>] = "blocked"

Runs(w, op, u, v) == rpc[w].op = op /\ rpc[w].user = u /\ rpc[w].target = v

\* The block of one user by another ends in this step only because its author takes it
\* back, or because one of the two blocks (again), which replaces it.
BlockStays ==
    \A p \in Pair :
        Blocks(p[1], p[2]) =>
            \/ Blocks(p[1], p[2])'
            \/ \E w \in Worker : \/ Runs(w, "UnblockUser", p[1], p[2])
                                 \/ Runs(w, "BlockUser", p[1], p[2])
                                 \/ Runs(w, "BlockUser", p[2], p[1])

\* A block ends only when its author takes it back, or is replaced by the block
\* of the one it is about.
BlockSticks == [][serial' => BlockStays]_vars

\* A SendDirectMessage that passes its block check in this step is between users neither
\* of whom blocks the other.
DMIsUnblocked ==
    \A w \in Worker :
        (rpc[w].pc \in {"IsBlocked", "IsBlockedReverse"}
            /\ rpc'[w].pc = "GetDMChannelBetweenUsers") =>
            ~Blocks(rpc[w].user, rpc[w].target) /\ ~Blocks(rpc[w].target, rpc[w].user)

\* SendDirectMessage passes its block check only between users neither of whom
\* blocks the other at that moment.
DMRespectsBlocks == [][serial' => DMIsUnblocked]_vars
=============================================================================
