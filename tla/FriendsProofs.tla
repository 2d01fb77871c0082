--------------------------- MODULE FriendsProofs ---------------------------
(***************************************************************************)
(* Theorems about Friends, for any number of users, workers and channels.  *)
(***************************************************************************)
EXTENDS Friends, FiniteSetTheorems, TLAPS

(* Type correctness.  A running request is about two different users: that   *)
(* is what makes the pair it writes a pair.                                  *)

AboutPair == \A w \in Worker : rpc[w].pc # "idle" => <<rpc[w].user, rpc[w].target>> \in Pair

TypeInv == FriendsTypeOK /\ AboutPair

LEMMA IdleType == Idle \in Request
  BY DEF Idle, Request, Calls

LEMMA ReturnType ==
  ASSUME TypeInv, NEW w \in Worker, Return(w)
  PROVE  rpc' \in [Worker -> Request] /\ AboutPair'
  BY IdleType DEF TypeInv, FriendsTypeOK, AboutPair, Return, Idle

LEMMA GotoType ==
  ASSUME TypeInv, NEW w \in Worker, NEW pc \in Calls, rpc[w].pc # "idle", Goto(w, pc)
  PROVE  rpc' \in [Worker -> Request] /\ AboutPair'
  BY DEF TypeInv, FriendsTypeOK, AboutPair, Goto, Request

LEMMA ProceedType ==
  ASSUME TypeInv, NEW w \in Worker, NEW pc \in Calls, NEW ok, rpc[w].pc # "idle",
         Proceed(w, ok, pc)
  PROVE  rpc' \in [Worker -> Request] /\ AboutPair'
  BY GotoType, ReturnType DEF Proceed

LEMMA ReverseIsPair ==
  ASSUME NEW p \in Pair
  PROVE  /\ p = <<p[1], p[2]>> /\ p[1] \in User /\ p[2] \in User /\ p[1] # p[2]
         /\ <<p[2], p[1]>> \in Pair
  BY DEF Pair

\* What a step does to the requests alone, and what a read leaves alone.
LEMMA RequestsType ==
  ASSUME TypeInv, NEW w \in Worker, Step(w)
  PROVE  rpc' \in [Worker -> Request] /\ AboutPair'
<1>1. CASE Call(w)
  <2>1. PICK op \in Ops, p \in Pair :
            rpc' = [rpc EXCEPT ![w] = [op |-> op, pc |-> Entry(op), user |-> p[1],
                                       target |-> p[2], channel |-> NoChannel]]
    BY <1>1 DEF Call
  <2>2. op \in FriendOps /\ Entry(op) \in Calls
    BY FriendsConstants DEF Entry, Calls
  <2> QED BY <2>1, <2>2, ReverseIsPair DEF TypeInv, FriendsTypeOK, AboutPair, Request
<1>2. CASE GetFriendship(w)
  <2>1. AfterFriendship(rpc[w].op) \in Calls /\ "CreateFriendship" \in Calls
    BY DEF AfterFriendship, Calls
  <2>2. rpc[w].pc # "idle"
    BY <1>2 DEF GetFriendship
  <2>3. CASE Proceed(w, rpc[w].op = "SendFriendRequest", "CreateFriendship")
    BY <2>1, <2>2, <2>3, ProceedType
  <2>4. CASE \E p \in Between(rpc[w].user, rpc[w].target) :
                Proceed(w, Permits(rpc[w].op, rpc[w].user, rpc[w].target, p),
                        AfterFriendship(rpc[w].op))
    BY <2>1, <2>2, <2>4, ProceedType
  <2> QED BY <1>2, <2>3, <2>4 DEF GetFriendship
<1>3. CASE CreateFriendship(w)
  BY <1>3, ReturnType DEF CreateFriendship
<1>4. CASE UpdateFriendshipStatus(w)
  BY <1>4, GotoType DEF UpdateFriendshipStatus, Calls
<1>5. CASE DeleteFriendship(w)
  BY <1>5, ProceedType DEF DeleteFriendship, Calls
<1>6. CASE IsBlocked(w)
  <2>1. rpc[w].pc # "idle" /\ {"IsBlockedReverse", "GetDMChannelBetweenUsers"} \subseteq Calls
    BY <1>6 DEF IsBlocked, Calls
  <2>2. PICK pc \in Calls, ok \in BOOLEAN : Goto(w, pc) \/ Proceed(w, ok, pc)
    BY <1>6, <2>1 DEF IsBlocked
  <2> QED BY <2>1, <2>2, GotoType, ProceedType
<1>7. CASE GetDMChannelBetweenUsers(w)
  BY <1>7, ProceedType DEF GetDMChannelBetweenUsers, Calls
<1>8. CASE CreateDMChannel(w)
  BY <1>8 DEF CreateDMChannel, TypeInv, FriendsTypeOK, AboutPair, Request, Calls
<1>9. CASE AddDMChannelMember(w)
  BY <1>9, GotoType, ReturnType DEF AddDMChannelMember, Calls
<1>10. CASE NoFreeChannel(w)
  BY <1>10, ReturnType DEF NoFreeChannel
<1>11. CASE CallFails(w)
  <2>1. AfterError(rpc[w].op, rpc[w].pc) \in Calls
    BY DEF AfterError, Calls
  <2> QED BY <1>11, <2>1, ProceedType DEF CallFails
<1> QED BY <1>1, <1>2, <1>3, <1>4, <1>5, <1>6, <1>7, <1>8, <1>9, <1>10, <1>11 DEF Step

LEMMA StoreType ==
  ASSUME TypeInv, NEW w \in Worker, Step(w)
  PROVE  /\ row' \in [Pair -> {"none", "pending", "accepted", "blocked"}]
         /\ live' \subseteq Pair /\ asked' \subseteq Pair /\ agreed' \subseteq Pair
         /\ channels' \in [Channel -> [made : BOOLEAN, members : SUBSET User]]
         /\ faults' \in Nat
<1> USE DEF TypeInv, FriendsTypeOK
<1>1. rpc[w].pc # "idle" => /\ <<rpc[w].user, rpc[w].target>> \in Pair
                           /\ <<rpc[w].target, rpc[w].user>> \in Pair
                           /\ rpc[w].user \in User /\ rpc[w].target \in User
  BY DEF AboutPair, Pair
<1>2. CASE Read
  BY <1>2 DEF Read, store, history
<1>3. CASE CreateFriendship(w)
  BY <1>1, <1>3 DEF CreateFriendship
<1>4. CASE UpdateFriendshipStatus(w)
  BY <1>1, <1>4 DEF UpdateFriendshipStatus
<1>5. CASE DeleteFriendship(w)
  BY <1>5 DEF DeleteFriendship, history
<1>6. CASE CreateDMChannel(w)
  BY <1>6 DEF CreateDMChannel, history
<1>7. CASE AddDMChannelMember(w)
  BY <1>1, <1>7 DEF AddDMChannelMember, history
<1>8. CASE CallFails(w)
  BY <1>8 DEF CallFails, store, history
<1> QED BY <1>2, <1>3, <1>4, <1>5, <1>6, <1>7, <1>8
    DEF Step, Call, GetFriendship, IsBlocked, GetDMChannelBetweenUsers, NoFreeChannel

\* The state of the friend graph and of the running requests is well typed, and every
\* row, friendship and request is about two different users.
THEOREM TypeCorrect == Spec => []TypeInv
<1>1. Init => TypeInv
  BY IdleType DEF Init, TypeInv, FriendsTypeOK, AboutPair, Idle
<1>2. TypeInv /\ [Next]_vars => TypeInv'
  <2> SUFFICES ASSUME TypeInv, [Next]_vars PROVE TypeInv'
    OBVIOUS
  <2>1. CASE Next
    <3>1. PICK w \in Worker : Step(w)
      BY <2>1 DEF Next
    <3>2. serial' \in BOOLEAN
      BY <2>1 DEF Next
    <3> QED BY <3>1, <3>2, RequestsType, StoreType DEF TypeInv, FriendsTypeOK
  <2>2. CASE UNCHANGED vars
    BY <2>2 DEF TypeInv, FriendsTypeOK, AboutPair, vars, store, history
  <2> QED BY <2>1, <2>2
<1> QED BY <1>1, <1>2, PTL DEF Spec

-----------------------------------------------------------------------------
(* Consent.  A request that was pending was asked for, deleted or not, and   *)
(* an AcceptFriendRequest past its look-up has seen such a request.          *)

ConsentInv ==
    /\ \A p \in Pair : row[p] \in {"pending", "accepted"} => p \in asked
    /\ \A p \in Pair : row[p] = "accepted" => <<p[2], p[1]>> \in agreed
    /\ \A w \in Worker : rpc[w].pc = "UpdateFriendshipStatus" =>
            <<rpc[w].target, rpc[w].user>> \in asked

\* A step that writes no friendship row and sends nobody on to accept one.
LEMMA ConsentKept ==
  ASSUME ConsentInv, NEW w \in Worker, UNCHANGED <<row, asked, agreed>>,
         rpc \in [Worker -> Request],
         NEW q, rpc' = [rpc EXCEPT ![w] = q], q.pc # "UpdateFriendshipStatus"
  PROVE  ConsentInv'
  BY DEF ConsentInv

LEMMA ConsentStep ==
  ASSUME TypeInv, ConsentInv, NEW w \in Worker, Step(w)
  PROVE  ConsentInv'
<1> USE DEF TypeInv, FriendsTypeOK
<1>0. /\ Idle.pc # "UpdateFriendshipStatus"
      /\ rpc[w].pc # "idle" => <<rpc[w].user, rpc[w].target>> \in Pair
  BY DEF Idle, AboutPair
<1>1. ASSUME NEW pc \in Calls, NEW ok, UNCHANGED <<row, asked, agreed>>,
             pc # "UpdateFriendshipStatus", Proceed(w, ok, pc)
      PROVE  ConsentInv'
  <2>1. CASE Goto(w, pc)
    BY <1>1, <2>1 DEF ConsentInv, Goto, Request
  <2>2. CASE Return(w)
    BY <1>0, <1>1, <2>2, ConsentKept DEF Return
  <2> QED BY <1>1, <2>1, <2>2 DEF Proceed
<1>2. CASE Call(w)
  <2>1. PICK op \in Ops, p \in Pair :
            rpc' = [rpc EXCEPT ![w] = [op |-> op, pc |-> Entry(op), user |-> p[1],
                                       target |-> p[2], channel |-> NoChannel]]
    BY <1>2 DEF Call
  <2>2. Entry(op) # "UpdateFriendshipStatus"
    BY DEF Entry
  <2> QED BY <1>2, <2>1, <2>2 DEF Call, Read, store, history, ConsentInv
<1>3. CASE GetFriendship(w)
  <2> DEFINE u == rpc[w].user
             v == rpc[w].target
  <2>1. UNCHANGED <<row, asked, agreed>>
    BY <1>3 DEF GetFriendship, Read, store, history
  <2>2. AfterFriendship(rpc[w].op) \in Calls /\ "CreateFriendship" \in Calls
    BY DEF AfterFriendship, Calls
  <2>3. CASE Proceed(w, rpc[w].op = "SendFriendRequest", "CreateFriendship")
    BY <1>1, <2>1, <2>2, <2>3
  <2>4. ASSUME NEW p \in Between(u, v),
               Proceed(w, Permits(rpc[w].op, u, v, p), AfterFriendship(rpc[w].op))
        PROVE  ConsentInv'
    <3>1. CASE AfterFriendship(rpc[w].op) # "UpdateFriendshipStatus"
      BY <1>1, <2>1, <2>2, <2>4, <3>1
    <3>2. CASE AfterFriendship(rpc[w].op) = "UpdateFriendshipStatus"
      <4>1. rpc[w].op = "AcceptFriendRequest"
        BY <3>2 DEF AfterFriendship
      <4>2. CASE Return(w)
        BY <1>0, <2>1, <4>2, ConsentKept DEF Return
      <4>3. CASE Permits(rpc[w].op, u, v, p) /\ Goto(w, "UpdateFriendshipStatus")
        <5>1. row[p] = "pending" /\ p = <<v, u>>
          BY <4>1, <4>3 DEF Permits, MayAccept
        <5>2. <<v, u>> \in asked
          BY <1>0, <1>3, <5>1 DEF ConsentInv, Pair, GetFriendship
        <5> QED BY <2>1, <4>3, <5>2 DEF ConsentInv, Goto, Request
      <4> QED BY <2>4, <3>2, <4>2, <4>3 DEF Proceed
    <3> QED BY <3>1, <3>2
  <2> QED BY <1>3, <2>3, <2>4 DEF GetFriendship
<1>4. CASE CreateFriendship(w)
  <2>1. rpc[w].op = "BlockUser" \/ asked' = asked \cup {<<rpc[w].user, rpc[w].target>>}
    BY <1>4 DEF CreateFriendship
  <2> QED BY <1>0, <1>4, <2>1 DEF CreateFriendship, ConsentInv, Return, Pair
<1>5. CASE UpdateFriendshipStatus(w)
  BY <1>0, <1>5 DEF UpdateFriendshipStatus, ConsentInv, Goto, Request, Pair
<1>6. CASE DeleteFriendship(w)
  BY <1>1, <1>6 DEF DeleteFriendship, Calls, history
<1>7. CASE IsBlocked(w)
  <2>1. {"IsBlockedReverse", "GetDMChannelBetweenUsers"} \subseteq Calls
    BY DEF Calls
  <2>2. PICK pc \in Calls, ok \in BOOLEAN :
            pc # "UpdateFriendshipStatus" /\ Proceed(w, ok, pc)
    BY <1>7, <2>1 DEF IsBlocked, Proceed
  <2> QED BY <1>1, <1>7, <2>2 DEF IsBlocked, Read, store, history
<1>8. CASE GetDMChannelBetweenUsers(w)
  BY <1>1, <1>8 DEF GetDMChannelBetweenUsers, Calls, Read, store, history
<1>9. CASE CreateDMChannel(w)
  BY <1>9 DEF CreateDMChannel, ConsentInv, Request, history
<1>10. CASE AddDMChannelMember(w)
  <2>1. PICK pc \in Calls, ok \in BOOLEAN :
            pc # "UpdateFriendshipStatus" /\ Proceed(w, ok, pc)
    BY <1>10 DEF AddDMChannelMember, Proceed, Calls
  <2> QED BY <1>1, <1>10, <2>1 DEF AddDMChannelMember, history
<1>11. CASE NoFreeChannel(w)
  BY <1>0, <1>11, ConsentKept DEF NoFreeChannel, Return, Read, store, history
<1>12. CASE CallFails(w)
  <2>1. /\ AfterError(rpc[w].op, rpc[w].pc) \in Calls
        /\ AfterError(rpc[w].op, rpc[w].pc) # "UpdateFriendshipStatus"
    BY DEF AfterError, Calls
  <2> QED BY <1>1, <1>12, <2>1 DEF CallFails, store, history
<1> QED BY <1>2, <1>3, <1>4, <1>5, <1>6, <1>7, <1>8, <1>9, <1>10, <1>11, <1>12 DEF Step

\* However requests, accepts, removals and blocks of any number of users interleave, and
\* whichever store calls fail, nobody is anybody's friend without both having said so.
THEOREM FriendshipIsMutual == Spec => []ConsentOfBoth
<1>1. Init => ConsentInv
  BY DEF Init, ConsentInv, Idle
<1>2. TypeInv /\ ConsentInv /\ [Next]_vars => ConsentInv'
  <2> SUFFICES ASSUME TypeInv, ConsentInv, [Next]_vars PROVE ConsentInv'
    OBVIOUS
  <2>1. CASE Next
    BY <2>1, ConsentStep DEF Next
  <2>2. CASE UNCHANGED vars
    BY <2>2 DEF ConsentInv, vars, store, history
  <2> QED BY <2>1, <2>2
<1>3. TypeInv /\ ConsentInv => ConsentOfBoth
  BY DEF TypeInv, FriendsTypeOK, ConsentInv, ConsentOfBoth
<1> QED BY <1>1, <1>2, <1>3, TypeCorrect, PTL DEF Spec

-----------------------------------------------------------------------------
(* RPCs that do not overlap.  What a request has read still holds when it    *)
(* acts on it, and between two users there is one row and one channel.       *)

OneRow == \A p \in live : <<p[2], p[1]>> \notin live

Shared(c, u, v) == channels[c].made /\ {u, v} \subseteq channels[c].members

OneDM ==
    /\ \A c, d \in Channel, u, v \in User :
            u # v /\ Shared(c, u, v) /\ Shared(d, u, v) => c = d
    /\ \A c \in Channel : ~channels[c].made => channels[c].members = {}

\* The row a request has found, or not found, is as it found it.
RowAsRead(w) ==
    LET u == rpc[w].user
        v == rpc[w].target
    IN  /\ rpc[w].pc = "CreateFriendship" => Between(u, v) = {}
        /\ rpc[w].pc = "UpdateFriendshipStatus" => row[<<v, u>>] = "pending"
        /\ rpc[w].pc = "DeleteFriendship" /\ rpc[w].op # "BlockUser" =>
                \E p \in Between(u, v) : Permits(rpc[w].op, u, v, p)

\* So is the channel it has not found, or has made.
ChannelAsRead(w) ==
    LET r == rpc[w]
    IN  /\ r.pc \in {"CreateDMChannel", "AddCreator", "AddRecipient"} =>
                \A c \in Channel : ~Shared(c, r.user, r.target)
        /\ r.pc \in {"AddCreator", "AddRecipient"} =>
                /\ r.channel \in Channel
                /\ channels[r.channel].made
                /\ channels[r.channel].members =
                        IF r.pc = "AddCreator" THEN {} ELSE {r.user}

SerialInv ==
    serial => /\ OneAtATime
              /\ OneRow
              /\ OneDM
              /\ \A w \in Worker : RowAsRead(w) /\ ChannelAsRead(w)

\* While RPCs do not overlap, the others are idle when one takes a step.
LEMMA Alone ==
  ASSUME TypeInv, OneAtATime, NEW w \in Worker, Step(w), OneAtATime'
  PROVE  /\ ~CallFails(w)
         /\ \A v \in Worker \ {w} : rpc[v].pc = "idle" /\ rpc'[v].pc = "idle"
<1> USE DEF TypeInv, FriendsTypeOK
<1>1. ~CallFails(w)
  BY DEF OneAtATime, CallFails
<1>2. \A v \in Worker \ {w} : rpc'[v] = rpc[v]
  BY DEF Step, Call, GetFriendship, CreateFriendship, UpdateFriendshipStatus,
         DeleteFriendship, IsBlocked, GetDMChannelBetweenUsers, CreateDMChannel,
         AddDMChannelMember, NoFreeChannel, CallFails, Proceed, Goto, Return
<1>3. CASE rpc[w].pc # "idle"
  BY <1>1, <1>2, <1>3 DEF OneAtATime
<1>4. CASE rpc[w].pc = "idle"
  <2>1. Call(w)
    BY <1>1, <1>4 DEF Step, GetFriendship, CreateFriendship, UpdateFriendshipStatus,
           DeleteFriendship, IsBlocked, GetDMChannelBetweenUsers, CreateDMChannel,
           AddDMChannelMember, NoFreeChannel
  <2>2. PICK op \in Ops, p \in Pair :
            rpc' = [rpc EXCEPT ![w] = [op |-> op, pc |-> Entry(op), user |-> p[1],
                                       target |-> p[2], channel |-> NoChannel]]
    BY <2>1 DEF Call
  <2>3. Entry(op) # "idle"
    BY DEF Entry
  <2>4. rpc'[w].pc # "idle"
    BY <2>2, <2>3
  <2> QED BY <1>1, <1>2, <2>4 DEF OneAtATime
<1> QED BY <1>1, <1>3, <1>4

LEMMA RowsStep ==
  ASSUME TypeInv, OneRow, NEW w \in Worker, RowAsRead(w), Step(w), ~CallFails(w)
  PROVE  OneRow' /\ RowAsRead(w)'
<1> USE DEF TypeInv, FriendsTypeOK
<1> DEFINE u == rpc[w].user
           v == rpc[w].target
<1>0. rpc[w].pc # "idle" => u \in User /\ v \in User /\ u # v /\ <<u, v>> \in Pair
  BY DEF AboutPair, Pair
<1>1. ASSUME live' = live
      PROVE  OneRow'
  BY <1>1 DEF OneRow
<1>2. ASSUME rpc'[w].pc \notin {"CreateFriendship", "UpdateFriendshipStatus", "DeleteFriendship"}
      PROVE  RowAsRead(w)'
  BY <1>2 DEF RowAsRead
<1>3. Idle.pc = "idle"
  BY DEF Idle
<1>4. CASE Call(w)
  <2>1. PICK op \in Ops, p \in Pair :
            rpc' = [rpc EXCEPT ![w] = [op |-> op, pc |-> Entry(op), user |-> p[1],
                                       target |-> p[2], channel |-> NoChannel]]
    BY <1>4 DEF Call
  <2>2. rpc'[w].op = op /\ rpc'[w].pc = Entry(op)
    BY <2>1
  <2>3. Entry(op) \notin {"CreateFriendship", "UpdateFriendshipStatus"}
    BY DEF Entry
  <2>4. Entry(op) = "DeleteFriendship" => op = "BlockUser"
    BY DEF Entry
  <2>5. RowAsRead(w)'
    BY <2>2, <2>3, <2>4 DEF RowAsRead
  <2> QED BY <1>1, <1>4, <2>5 DEF Call, Read, store
<1>5. CASE GetFriendship(w)
  <2>1. UNCHANGED <<row, live>>
    BY <1>5 DEF GetFriendship, Read, store
  <2>2. CASE Return(w)
    BY <1>1, <1>2, <1>3, <2>1, <2>2 DEF Return
  <2>3. CASE /\ Between(u, v) = {} /\ rpc[w].op = "SendFriendRequest"
             /\ Goto(w, "CreateFriendship")
    BY <1>1, <2>1, <2>3 DEF Goto, RowAsRead, Between, Request
  <2>4. ASSUME NEW p \in Between(u, v), Permits(rpc[w].op, u, v, p),
               Goto(w, AfterFriendship(rpc[w].op))
        PROVE  RowAsRead(w)'
    <3>1. /\ rpc'[w].user = u /\ rpc'[w].target = v /\ rpc'[w].op = rpc[w].op
          /\ rpc'[w].pc = AfterFriendship(rpc[w].op)
      BY <2>4 DEF Goto, Request
    <3>2. Between(u, v)' = Between(u, v)
      BY <2>1, <3>1 DEF Between
    <3>3. rpc[w].op # "SendFriendRequest"
      BY <2>4 DEF Permits
    <3>4. AfterFriendship(rpc[w].op) # "CreateFriendship"
      BY <3>3 DEF AfterFriendship
    <3>5. AfterFriendship(rpc[w].op) = "UpdateFriendshipStatus" => row[<<v, u>>] = "pending"
      BY <2>4 DEF AfterFriendship, Permits, MayAccept
    <3>6. p \in Between(u, v)' /\ Permits(rpc[w].op, u, v, p)'
      BY <2>1, <2>4, <3>1, <3>2 DEF Permits, MayAccept, MayUnblock
    <3> QED BY <2>1, <3>1, <3>4, <3>5, <3>6 DEF RowAsRead, Between
  <2> QED BY <1>1, <1>5, <2>1, <2>2, <2>3, <2>4 DEF GetFriendship, Proceed
<1>6. CASE CreateFriendship(w)
  <2>1. Between(u, v) = {}
    BY <1>6 DEF RowAsRead, CreateFriendship
  <2>2. OneRow'
    <3>1. live' = live \cup {<<u, v>>} /\ u # v
      BY <1>0, <1>6 DEF CreateFriendship
    <3>2. <<u, v>> \notin live /\ <<v, u>> \notin live
      BY <2>1 DEF Between
    <3> SUFFICES ASSUME NEW p \in live', <<p[2], p[1]>> \in live' PROVE FALSE
      BY DEF OneRow
    <3>3. CASE p = <<u, v>>
      BY <3>1, <3>2, <3>3
    <3>4. CASE p \in live
      BY <3>1, <3>2, <3>4, ReverseIsPair DEF OneRow
    <3> QED BY <3>1, <3>3, <3>4
  <2> QED BY <1>2, <1>3, <1>6, <2>2 DEF CreateFriendship, Return
<1>7. CASE UpdateFriendshipStatus(w)
  BY <1>1, <1>2, <1>7 DEF UpdateFriendshipStatus, Goto
<1>8. CASE DeleteFriendship(w)
  <2>1. OneRow'
    BY <1>8 DEF DeleteFriendship, OneRow
  <2>2. RowAsRead(w)'
    <3>1. CASE Return(w)
      BY <1>2, <1>3, <3>1 DEF Return
    <3>2. CASE Goto(w, "CreateFriendship")
      BY <1>8, <3>2 DEF DeleteFriendship, Goto, RowAsRead, Between, Request
    <3> QED BY <1>8, <3>1, <3>2 DEF DeleteFriendship, Proceed
  <2> QED BY <2>1, <2>2
<1>9. CASE IsBlocked(w)
  BY <1>1, <1>2, <1>3, <1>9 DEF IsBlocked, Proceed, Goto, Return, Read, store, Request
<1>10. CASE GetDMChannelBetweenUsers(w)
  BY <1>1, <1>2, <1>3, <1>10 DEF GetDMChannelBetweenUsers, Proceed, Goto, Return, Read, store, Request
<1>11. CASE CreateDMChannel(w)
  BY <1>1, <1>2, <1>11 DEF CreateDMChannel
<1>12. CASE AddDMChannelMember(w)
  BY <1>1, <1>2, <1>3, <1>12 DEF AddDMChannelMember, Goto, Return, Request
<1>13. CASE NoFreeChannel(w)
  BY <1>1, <1>2, <1>3, <1>13 DEF NoFreeChannel, Return, Read, store
<1> QED BY <1>4, <1>5, <1>6, <1>7, <1>8, <1>9, <1>10, <1>11, <1>12, <1>13 DEF Step

LEMMA ChannelsStep ==
  ASSUME TypeInv, OneDM, NEW w \in Worker, ChannelAsRead(w), Step(w), ~CallFails(w)
  PROVE  OneDM' /\ ChannelAsRead(w)'
<1> USE DEF TypeInv, FriendsTypeOK
<1>0. /\ Idle.pc = "idle"
      /\ rpc[w].pc # "idle" => /\ rpc[w].user \in User
                               /\ rpc[w].target \in User
                               /\ rpc[w].user # rpc[w].target
  BY DEF Idle, AboutPair, Pair
<1>1. ASSUME channels' = channels,
             rpc'[w].pc \notin {"CreateDMChannel", "AddCreator", "AddRecipient"}
      PROVE  OneDM' /\ ChannelAsRead(w)'
  BY <1>1 DEF OneDM, Shared, ChannelAsRead
<1>2. CASE Call(w)
  <2>1. PICK op \in Ops, p \in Pair :
            rpc' = [rpc EXCEPT ![w] = [op |-> op, pc |-> Entry(op), user |-> p[1],
                                       target |-> p[2], channel |-> NoChannel]]
    BY <1>2 DEF Call
  <2>2. Entry(op) \notin {"CreateDMChannel", "AddCreator", "AddRecipient"}
    BY DEF Entry
  <2>3. rpc'[w].pc = Entry(op)
    BY <2>1
  <2> QED BY <1>1, <1>2, <2>2, <2>3 DEF Call, Read, store
<1>3. CASE GetFriendship(w)
  <2>1. AfterFriendship(rpc[w].op) \notin {"CreateDMChannel", "AddCreator", "AddRecipient"}
    BY DEF AfterFriendship
  <2> QED BY <1>0, <1>1, <1>3, <2>1
      DEF GetFriendship, Proceed, Goto, Return, Read, store, Request
<1>4. CASE CreateFriendship(w)
  BY <1>0, <1>1, <1>4 DEF CreateFriendship, Return
<1>5. CASE UpdateFriendshipStatus(w)
  BY <1>1, <1>5 DEF UpdateFriendshipStatus, Goto, Request
<1>6. CASE DeleteFriendship(w)
  BY <1>0, <1>1, <1>6 DEF DeleteFriendship, Proceed, Goto, Return, Request
<1>7. CASE IsBlocked(w)
  BY <1>0, <1>1, <1>7 DEF IsBlocked, Proceed, Goto, Return, Read, store, Request
<1>8. CASE GetDMChannelBetweenUsers(w)
  <2>1. channels' = channels
    BY <1>8 DEF GetDMChannelBetweenUsers, Read, store
  <2>2. CASE Return(w)
    BY <1>0, <1>1, <2>1, <2>2 DEF Return
  <2>3. CASE DMBetween(rpc[w].user, rpc[w].target) = {} /\ Goto(w, "CreateDMChannel")
    <3>1. \A c \in Channel : ~Shared(c, rpc[w].user, rpc[w].target)
      BY <2>3 DEF DMBetween, Shared
    <3>2. /\ rpc'[w].user = rpc[w].user /\ rpc'[w].target = rpc[w].target
          /\ rpc'[w].pc = "CreateDMChannel"
      BY <2>3 DEF Goto, Request
    <3> QED BY <2>1, <3>1, <3>2 DEF OneDM, Shared, ChannelAsRead
  <2> QED BY <1>8, <2>2, <2>3 DEF GetDMChannelBetweenUsers, Proceed
<1>9. CASE CreateDMChannel(w)
  <2>1. PICK c \in {d \in Channel : ~channels[d].made} :
            /\ channels' = [channels EXCEPT ![c].made = TRUE]
            /\ rpc' = [rpc EXCEPT ![w].channel = c, ![w].pc = "AddCreator"]
    BY <1>9 DEF CreateDMChannel
  <2>2. /\ rpc'[w].channel = c /\ rpc'[w].pc = "AddCreator"
        /\ rpc'[w].user = rpc[w].user /\ rpc'[w].target = rpc[w].target
    BY <2>1 DEF Request
  <2>3. channels'[c].made /\ channels'[c].members = {}
    BY <2>1 DEF OneDM
  <2>4. \A d \in Channel \ {c} : channels'[d] = channels[d]
    BY <2>1
  <2>5. \A d \in Channel, x, y \in User : Shared(d, x, y)' => Shared(d, x, y)
    BY <2>3, <2>4 DEF Shared
  <2>6. \A d \in Channel : ~Shared(d, rpc[w].user, rpc[w].target)
    BY <1>9 DEF ChannelAsRead, CreateDMChannel
  <2>7. \A d \in Channel : ~Shared(d, rpc[w].user, rpc[w].target)'
    BY <1>0, <1>9, <2>2, <2>3, <2>4, <2>6 DEF CreateDMChannel, Shared
  <2> QED BY <2>2, <2>3, <2>4, <2>5, <2>7 DEF OneDM, ChannelAsRead
<1>10. CASE AddDMChannelMember(w)
  <2>1. PICK c \in Channel, u \in User, v \in User :
            c = rpc[w].channel /\ u = rpc[w].user /\ v = rpc[w].target /\ u # v
    BY <1>0, <1>10 DEF AddDMChannelMember, ChannelAsRead
  <2>2. /\ channels[c].made
        /\ \A d \in Channel : ~Shared(d, u, v)
        /\ channels[c].members = IF rpc[w].pc = "AddCreator" THEN {} ELSE {u}
    BY <1>10, <2>1 DEF AddDMChannelMember, ChannelAsRead
  <2>3. CASE rpc[w].pc = "AddCreator"
    <3>1. /\ channels' = [channels EXCEPT ![c].members = @ \cup {u}]
          /\ rpc'[w].channel = c /\ rpc'[w].pc = "AddRecipient"
          /\ rpc'[w].user = u /\ rpc'[w].target = v
      BY <1>10, <2>1, <2>3 DEF AddDMChannelMember, Goto, Request
    <3>2. channels'[c].made /\ channels'[c].members = {u}
      BY <2>1, <2>2, <2>3, <3>1
    <3>3. \A d \in Channel \ {c} : channels'[d] = channels[d]
      BY <3>1
    <3>4. \A d \in Channel, x, y \in User : x # y /\ Shared(d, x, y)' => Shared(d, x, y)
      BY <3>2, <3>3 DEF Shared
    <3>5. \A d \in Channel : ~Shared(d, u, v)'
      BY <2>1, <2>2, <3>2, <3>3 DEF Shared
    <3> QED BY <3>1, <3>2, <3>3, <3>4, <3>5 DEF OneDM, ChannelAsRead
  <2>4. CASE rpc[w].pc = "AddRecipient"
    <3>1. channels' = [channels EXCEPT ![c].members = @ \cup {v}] /\ rpc'[w].pc = "idle"
      BY <1>0, <1>10, <2>1, <2>4 DEF AddDMChannelMember, Return
    <3>2. channels'[c].made /\ channels'[c].members = {u, v}
      BY <2>2, <2>4, <3>1
    <3>3. \A d \in Channel \ {c} : channels'[d] = channels[d]
      BY <3>1
    <3>4. ASSUME NEW x \in User, NEW y \in User, x # y, Shared(c, x, y)'
          PROVE  \A d \in Channel : ~Shared(d, x, y)
      <4>1. {x, y} = {u, v}
        BY <3>2, <3>4 DEF Shared
      <4> QED BY <2>2, <4>1 DEF Shared
    <3>5. \A d \in Channel \ {c}, x, y \in User : Shared(d, x, y)' => Shared(d, x, y)
      BY <3>3 DEF Shared
    <3>6. ASSUME NEW d \in Channel, NEW e \in Channel, NEW x \in User, NEW y \in User,
                 x # y, Shared(d, x, y)', Shared(e, x, y)'
          PROVE  d = e
      BY <3>4, <3>5, <3>6 DEF OneDM
    <3>7. \A d \in Channel : ~channels'[d].made => channels'[d].members = {}
      BY <3>2, <3>3 DEF OneDM
    <3> QED BY <3>1, <3>6, <3>7 DEF OneDM, ChannelAsRead
  <2> QED BY <1>10, <2>3, <2>4 DEF AddDMChannelMember
<1>11. CASE NoFreeChannel(w)
  BY <1>0, <1>1, <1>11 DEF NoFreeChannel, Return, Read, store
<1> QED BY <1>2, <1>3, <1>4, <1>5, <1>6, <1>7, <1>8, <1>9, <1>10, <1>11 DEF Step

LEMMA SerialStep ==
  ASSUME TypeInv, SerialInv, Next
  PROVE  SerialInv'
<1> SUFFICES ASSUME serial'
             PROVE  /\ OneAtATime' /\ OneRow' /\ OneDM'
                    /\ \A w \in Worker : RowAsRead(w)' /\ ChannelAsRead(w)'
  BY DEF SerialInv
<1>1. serial /\ OneAtATime'
  BY DEF Next
<1>2. PICK w \in Worker : Step(w)
  BY DEF Next
<1>3. /\ OneAtATime /\ OneRow /\ OneDM
      /\ RowAsRead(w) /\ ChannelAsRead(w)
  BY <1>1 DEF SerialInv
<1>4. ~CallFails(w) /\ \A v \in Worker \ {w} : rpc'[v].pc = "idle"
  BY <1>1, <1>2, <1>3, Alone
<1>5. OneRow' /\ RowAsRead(w)' /\ OneDM' /\ ChannelAsRead(w)'
  BY <1>2, <1>3, <1>4, RowsStep, ChannelsStep
<1>6. \A v \in Worker \ {w} : RowAsRead(v)' /\ ChannelAsRead(v)'
  BY <1>4 DEF RowAsRead, ChannelAsRead
<1> QED BY <1>1, <1>5, <1>6

LEMMA Serial == Spec => []SerialInv
<1>1. Init => SerialInv
  BY DEF Init, SerialInv, OneAtATime, OneRow, OneDM, Shared, RowAsRead, ChannelAsRead, Idle
<1>2. TypeInv /\ SerialInv /\ [Next]_vars => SerialInv'
  <2> SUFFICES ASSUME TypeInv, SerialInv, [Next]_vars PROVE SerialInv'
    OBVIOUS
  <2>1. CASE UNCHANGED vars
    <3>1. UNCHANGED <<row, live, channels, rpc, faults, serial>>
      BY <2>1 DEF vars, store
    <3>2. /\ OneAtATime' = OneAtATime /\ OneRow' = OneRow /\ OneDM' = OneDM
          /\ \A w \in Worker : /\ RowAsRead(w)' = RowAsRead(w)
                                /\ ChannelAsRead(w)' = ChannelAsRead(w)
      BY <3>1 DEF OneAtATime, OneRow, OneDM, Shared, RowAsRead, ChannelAsRead, Between,
                  Permits, MayAccept, MayUnblock
    <3> QED BY <3>1, <3>2 DEF SerialInv
  <2> QED BY <2>1, SerialStep
<1> QED BY <1>1, <1>2, TypeCorrect, PTL DEF Spec

\* As long as no two RPCs overlap and no call fails, two users share at most one live
\* friendships row and at most one DM channel, whatever any number of users have called.
THEOREM OneRowAndOneChannel == Spec => []OnePerPair
<1>1. TypeInv /\ SerialInv => OnePerPair
  <2> SUFFICES ASSUME TypeInv, SerialInv, serial PROVE OnePerPair
    BY DEF OnePerPair
  <2>1. OneRow /\ OneDM
    BY DEF SerialInv
  <2>2. ASSUME NEW p \in Pair
        PROVE  Cardinality(DMBetween(p[1], p[2])) <= 1
    <3>1. \A c, d \in DMBetween(p[1], p[2]) : c = d
      BY <2>1 DEF OneDM, Shared, DMBetween, Pair
    <3>2. CASE DMBetween(p[1], p[2]) = {}
      BY <3>2, FS_EmptySet
    <3>3. CASE \E c : DMBetween(p[1], p[2]) = {c}
      BY <3>3, FS_Singleton
    <3> QED BY <3>1, <3>2, <3>3
  <2> QED BY <2>1, <2>2 DEF OnePerPair, OneRow
<1> QED BY <1>1, TypeCorrect, Serial, PTL

LEMMA BlockStep ==
  ASSUME TypeInv, SerialInv, Next, serial'
  PROVE  BlockStays
<1> USE DEF TypeInv, FriendsTypeOK
<1>1. serial /\ OneAtATime' /\ OneRow /\ OneAtATime
  BY DEF Next, SerialInv
<1>2. PICK w \in Worker : Step(w)
  BY DEF Next
<1>3. RowAsRead(w) /\ ~CallFails(w)
  BY <1>1, <1>2, Alone DEF SerialInv
<1> SUFFICES ASSUME NEW p \in Pair, Blocks(p[1], p[2]), ~Blocks(p[1], p[2])'
             PROVE  \/ Runs(w, "UnblockUser", p[1], p[2])
                    \/ Runs(w, "BlockUser", p[1], p[2])
                    \/ Runs(w, "BlockUser", p[2], p[1])
  BY DEF BlockStays
<1>4. PICK u \in User, v \in User : p = <<u, v>>
  BY DEF Pair
<1>5. p \in live /\ row[p] = "blocked" /\ (p \notin live' \/ row'[p] # "blocked")
  BY <1>4 DEF Blocks
<1>6. CASE CreateFriendship(w)
  <2>1. <<rpc[w].user, rpc[w].target>> \notin live
    BY <1>3, <1>6 DEF CreateFriendship, RowAsRead, Between
  <2> QED BY <1>5, <1>6, <2>1 DEF CreateFriendship
<1>7. CASE UpdateFriendshipStatus(w)
  <2>1. row[<<rpc[w].target, rpc[w].user>>] = "pending"
    BY <1>3, <1>7 DEF UpdateFriendshipStatus, RowAsRead
  <2> QED BY <1>5, <1>7, <2>1 DEF UpdateFriendshipStatus
<1>8. CASE DeleteFriendship(w)
  <2>1. p \in {<<rpc[w].user, rpc[w].target>>, <<rpc[w].target, rpc[w].user>>}
    BY <1>5, <1>8 DEF DeleteFriendship
  <2>2. CASE rpc[w].op = "BlockUser"
    BY <1>4, <2>1, <2>2 DEF Runs
  <2>3. CASE rpc[w].op # "BlockUser"
    <3>1. PICK q \in Between(rpc[w].user, rpc[w].target) :
              Permits(rpc[w].op, rpc[w].user, rpc[w].target, q)
      BY <1>3, <1>8, <2>3 DEF DeleteFriendship, RowAsRead
    <3>2. q = p
      BY <1>1, <1>5, <2>1, <3>1 DEF OneRow, Between
    <3>3. rpc[w].op = "UnblockUser" /\ p[1] = rpc[w].user
      BY <1>5, <3>1, <3>2 DEF Permits, MayAccept, MayUnblock
    <3>4. rpc[w].user # rpc[w].target
      BY <1>8 DEF DeleteFriendship, AboutPair, Pair
    <3> QED BY <2>1, <3>3, <3>4 DEF Runs
  <2> QED BY <2>2, <2>3
<1>9. CASE UNCHANGED <<row, live>>
  BY <1>5, <1>9
<1> QED BY <1>2, <1>3, <1>6, <1>7, <1>8, <1>9
    DEF Step, Call, GetFriendship, IsBlocked, GetDMChannelBetweenUsers, CreateDMChannel,
        AddDMChannelMember, NoFreeChannel, Read, store

\* As long as no two RPCs overlap and no call fails, a block ends only when its author
\* takes it back or one of the two blocks again: no request, acceptance, refusal or
\* removal by either of them lifts it.
THEOREM BlockHolds == Spec => BlockSticks
<1>1. TypeInv /\ SerialInv /\ [Next]_vars => [serial' => BlockStays]_vars
  BY BlockStep
<1> QED BY <1>1, TypeCorrect, Serial, PTL DEF Spec, BlockSticks

LEMMA DMStep ==
  ASSUME TypeInv, SerialInv, Next, serial'
  PROVE  DMIsUnblocked
<1> USE DEF TypeInv, FriendsTypeOK
<1>1. serial /\ OneAtATime' /\ OneRow /\ OneAtATime
  BY DEF Next, SerialInv
<1>2. PICK w \in Worker : Step(w)
  BY DEF Next
<1>3. ~CallFails(w) /\ \A v \in Worker \ {w} : rpc[v].pc = "idle"
  BY <1>1, <1>2, Alone
<1> DEFINE u == rpc[w].user
           v == rpc[w].target
<1> SUFFICES ASSUME rpc[w].pc \in {"IsBlocked", "IsBlockedReverse"},
                    rpc'[w].pc = "GetDMChannelBetweenUsers"
             PROVE  ~Blocks(u, v) /\ ~Blocks(v, u)
  BY <1>3 DEF DMIsUnblocked
<1>4. IsBlocked(w)
  BY <1>2, <1>3 DEF Step, Call, GetFriendship, CreateFriendship, UpdateFriendshipStatus,
         DeleteFriendship, GetDMChannelBetweenUsers, CreateDMChannel,
         AddDMChannelMember, NoFreeChannel
<1>5. ~Return(w)
  BY DEF Return, Idle
<1>6. Between(u, v) = {} \/ \E p \in Between(u, v) : row[p] # "blocked"
  BY <1>4, <1>5 DEF IsBlocked, Proceed
<1>7. u # v
  BY DEF AboutPair, Pair
<1> QED BY <1>1, <1>6, <1>7 DEF Between, Blocks, OneRow

\* As long as no two RPCs overlap and no call fails, a SendDirectMessage that passes its
\* block check is between users neither of whom blocks the other at that moment: one
\* look at the first row found is enough because there is only one.
THEOREM MessagesRespectBlocks == Spec => DMRespectsBlocks
<1>1. TypeInv /\ SerialInv /\ [Next]_vars => [serial' => DMIsUnblocked]_vars
  BY DMStep
<1> QED BY <1>1, TypeCorrect, Serial, PTL DEF Spec, DMRespectsBlocks
=============================================================================
