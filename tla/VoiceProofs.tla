---------------------------- MODULE VoiceProofs -----------------------------
(***************************************************************************)
(* Theorems about Voice, for any number of users and handlers, and about    *)
(* GroupDM, for any number of users and of RPCs that overlap.               *)
(*                                                                         *)
(* Voice: what a handler has read or is about to do still holds when it     *)
(* does it, as long as handlers do not overlap: LiveKit's own events change *)
(* neither the hash nor the timer.                                          *)
(***************************************************************************)
EXTENDS Voice, GroupDM, TLAPS

PC == {"idle", "CanConnect", "CreateRoom", "SetParticipant", "EnsureActiveSince", "RemoveFromRoom",
       "HDel", "HLen", "DelHash", "ClearActiveSince", "RequireStreamPerm", "GetParticipant",
       "SetToggled", "UpdateParticipant", "ListParticipants", "GetChannelState"}

Hooks == {"participant_left", "room_finished"}

Job == [op : VoiceOps \cup Hooks \cup {"none"}, pc : PC, user : User \cup {NoUser}, on : BOOLEAN,
        read : SUBSET Flag, stale : SUBSET User]

Webhook == ({"participant_left"} \X User) \cup {<<"room_finished", NoUser>>}

\* Which RPC or webhook gets where, and for whom.
Fits(j) ==
    /\ j.pc = "idle" => j.op = "none"
    /\ j.pc \in {"CanConnect", "CreateRoom", "SetParticipant", "EnsureActiveSince"} =>
            j.op = "JoinChannel"
    /\ j.pc = "RemoveFromRoom" => j.op \in {"LeaveChannel", "DisconnectUser"}
    /\ j.pc \in {"HDel", "HLen"} =>
            j.op \in {"LeaveChannel", "participant_left", "GetChannelParticipants"}
    /\ j.pc \in {"DelHash", "ClearActiveSince"} =>
            j.op \in {"LeaveChannel", "participant_left", "GetChannelParticipants", "room_finished"}
    /\ j.pc \in {"ListParticipants", "GetChannelState"} => j.op = "GetChannelParticipants"
    /\ j.stale # {} => j.op = "GetChannelParticipants"
    /\ j.pc \notin {"idle", "DelHash", "ClearActiveSince"} => j.user \in User

TypeInv ==
    /\ listed \subseteq User
    /\ flags \in [User -> SUBSET Flag]
    /\ since \in User \cup {NoUser}
    /\ connected \subseteq User
    /\ allowed \in [User -> SUBSET {"publish", "subscribe"}]
    /\ webhooks \subseteq Webhook
    /\ token \subseteq User /\ present \subseteq User
    /\ rpc \in [Worker -> Job]
    /\ \A w \in Worker : Fits(rpc[w])
    /\ faults \in Nat

\* The step a worker takes.
WorkerStep(w) == Call(w) \/ handleEvent(w) \/ Step(w) \/ CallFails(w)

-----------------------------------------------------------------------------
(* What a step does to the worker that takes it.                             *)

LEMMA IdleJob ==
  /\ Idle \in Job /\ Fits(Idle)
  /\ Idle.op = "none" /\ Idle.pc = "idle" /\ Idle.read = {} /\ Idle.stale = {}
<1>1. Idle \in Job
  BY DEF Idle, Job, PC
<1>2. Idle.op = "none" /\ Idle.pc = "idle" /\ Idle.read = {} /\ Idle.stale = {}
  BY DEF Idle
<1> QED BY <1>1, <1>2 DEF Fits

\* Only job w changes, and to j.
Becomes(w, j) ==
    /\ rpc' = [rpc EXCEPT ![w] = j]
    /\ rpc' \in [Worker -> Job]
    /\ rpc'[w] = j
    /\ \A v \in Worker \ {w} : rpc'[v] = rpc[v]

LEMMA GotoJob ==
  ASSUME TypeInv, NEW w \in Worker, NEW pc \in PC, Goto(w, pc)
  PROVE  \E j \in Job :
            /\ Becomes(w, j)
            /\ j.pc = pc /\ j.op = rpc[w].op /\ j.user = rpc[w].user /\ j.read = rpc[w].read
            /\ j.stale = rpc[w].stale
<1>1. rpc \in [Worker -> Job]
  BY DEF TypeInv
<1>2. PICK j \in Job : j = [rpc[w] EXCEPT !.pc = pc]
  BY <1>1 DEF Job
<1>3. /\ j.pc = pc /\ j.op = rpc[w].op /\ j.user = rpc[w].user /\ j.read = rpc[w].read
      /\ j.stale = rpc[w].stale
  BY <1>1, <1>2 DEF Job
<1>4. Becomes(w, j)
  BY <1>1, <1>2 DEF Goto, Becomes
<1> QED BY <1>3, <1>4

LEMMA ReturnJob ==
  ASSUME TypeInv, NEW w \in Worker, Return(w)
  PROVE  Becomes(w, Idle)
  BY IdleJob DEF TypeInv, Return, Becomes

LEMMA RemovedJob ==
  ASSUME TypeInv, NEW w \in Worker, Removed(w)
  PROVE  \/ Becomes(w, Idle)
         \/ \E u \in rpc[w].stale, j \in Job :
                /\ Becomes(w, j)
                /\ j.pc = "HDel" /\ j.op = rpc[w].op /\ j.user = u /\ j.read = rpc[w].read
                /\ j.stale = rpc[w].stale \ {u}
<1>1. CASE rpc[w].stale = {}
  BY <1>1, ReturnJob DEF Removed
<1>2. CASE rpc[w].stale # {}
  <2>1. PICK u \in rpc[w].stale :
            rpc' = [rpc EXCEPT ![w].user = u, ![w].stale = @ \ {u}, ![w].pc = "HDel"]
    BY <1>2 DEF Removed
  <2>2. PICK t \in Job : t = rpc[w]
    BY DEF TypeInv
  <2>3. PICK s \in SUBSET User : s = t.stale \ {u}
    BY <2>2 DEF Job
  <2>4. u \in User
    BY <2>1, <2>2 DEF Job
  <2>5. [t EXCEPT !.user = u, !.stale = s, !.pc = "HDel"] \in Job
    BY <2>4 DEF Job, PC
  <2>6. PICK j \in Job : j = [t EXCEPT !.user = u, !.stale = s, !.pc = "HDel"]
    BY <2>5
  <2>7. j.pc = "HDel" /\ j.op = t.op /\ j.user = u /\ j.read = t.read /\ j.stale = s
    BY <2>6 DEF Job
  <2>8. rpc' = [rpc EXCEPT ![w] = j]
    BY <2>1, <2>2, <2>3, <2>6
  <2>9. Becomes(w, j)
    BY <2>8 DEF Becomes, TypeInv
  <2> QED BY <2>1, <2>2, <2>3, <2>7, <2>9
<1> QED BY <1>1, <1>2

\* What the job of a worker may become.
Move(w, j) ==
    /\ Becomes(w, j) /\ Fits(j)
    /\ rpc[w].pc = "idle" => j.pc # "idle" /\ (Call(w) \/ handleEvent(w))
    /\ rpc[w].pc # "idle" => j.pc = "idle" \/ j.op = rpc[w].op
    /\ \/ j.pc = "idle" \/ rpc[w].pc = "idle" \/ j.user = rpc[w].user
       \/ rpc[w].op = "GetChannelParticipants"
    /\ j.pc = "SetToggled" =>
            rpc[w].user \in listed /\ j.user = rpc[w].user /\ j.read = flags[rpc[w].user]
    /\ j.pc = "SetToggled" => UNCHANGED <<listed, flags>>
    /\ j.pc = "ClearActiveSince" => DelHash(w) \/ CallFails(w)
    /\ j.pc = "EnsureActiveSince" => SetParticipant(w) \/ CallFails(w)
    /\ j.pc = "DelHash" => handleEvent(w) \/ (listed = {} /\ UNCHANGED <<present, listed>>)

LEMMA GotoMove ==
  ASSUME TypeInv, NEW w \in Worker, NEW pc \in PC, Goto(w, pc), rpc[w].pc # "idle", pc # "idle",
         pc \in {"CreateRoom", "SetParticipant", "EnsureActiveSince"} => rpc[w].op = "JoinChannel",
         pc \in {"HDel", "HLen"} =>
            rpc[w].op \in {"LeaveChannel", "participant_left", "GetChannelParticipants"},
         pc \in {"DelHash", "ClearActiveSince"} =>
            rpc[w].op \in {"LeaveChannel", "participant_left", "GetChannelParticipants",
                           "room_finished"},
         pc \notin {"SetToggled", "CanConnect", "RemoveFromRoom", "ListParticipants",
                    "GetChannelState"},
         pc \notin {"DelHash", "ClearActiveSince"} => rpc[w].user \in User,
         pc = "ClearActiveSince" => DelHash(w) \/ CallFails(w),
         pc = "EnsureActiveSince" => SetParticipant(w) \/ CallFails(w),
         pc = "DelHash" => listed = {} /\ UNCHANGED <<present, listed>>
  PROVE  \E j \in Job : Move(w, j)
<1>1. PICK j \in Job :
            /\ Becomes(w, j)
            /\ j.pc = pc /\ j.op = rpc[w].op /\ j.user = rpc[w].user /\ j.read = rpc[w].read
            /\ j.stale = rpc[w].stale
  BY GotoJob
<1>2. Fits(j)
  BY <1>1 DEF Fits, TypeInv
<1> QED BY <1>1, <1>2 DEF Move

LEMMA ReturnMove ==
  ASSUME TypeInv, NEW w \in Worker, Return(w), rpc[w].pc # "idle"
  PROVE  \E j \in Job : Move(w, j)
<1>1. Becomes(w, Idle) /\ Idle \in Job
  BY ReturnJob, IdleJob
<1>2. Move(w, Idle)
  BY <1>1, IdleJob DEF Move
<1> QED BY <1>1, <1>2

LEMMA RemovedMove ==
  ASSUME TypeInv, NEW w \in Worker, Removed(w), rpc[w].pc # "idle"
  PROVE  \E j \in Job : Move(w, j)
<1>1. CASE Becomes(w, Idle)
  <2>1. Move(w, Idle)
    BY <1>1, IdleJob DEF Move
  <2> QED BY <2>1, IdleJob
<1>2. ASSUME NEW u \in rpc[w].stale, NEW j \in Job,
             Becomes(w, j), j.pc = "HDel", j.op = rpc[w].op, j.user = u, j.read = rpc[w].read,
             j.stale = rpc[w].stale \ {u}
      PROVE  Move(w, j)
  <2>1. u \in User /\ rpc[w].op = "GetChannelParticipants"
    BY DEF TypeInv, Job, Fits
  <2>2. Fits(j)
    BY <1>2, <2>1 DEF Fits
  <2> QED BY <1>2, <2>1, <2>2 DEF Move
<1> QED BY <1>1, <1>2, RemovedJob

LEMMA CallMove ==
  ASSUME TypeInv, NEW w \in Worker, Call(w)
  PROVE  \E j \in Job : Move(w, j)
<1>1. PICK op \in Ops, u \in User, b \in BOOLEAN :
          rpc' = [rpc EXCEPT ![w] = [Idle EXCEPT !.op = op, !.pc = Entry(op), !.user = u, !.on = b]]
  BY DEF Call
<1>2. PICK c \in Job : c = Idle
  BY IdleJob
<1>3. op \in VoiceOps
  BY VoiceConstants
<1>4. PICK pc \in PC : pc = Entry(op)
  BY <1>3 DEF PC, Entry, VoiceOps, Toggles
<1>5. [c EXCEPT !.op = op, !.pc = pc, !.user = u, !.on = b] \in Job
  BY <1>3 DEF Job
<1>6. PICK j \in Job : j = [c EXCEPT !.op = op, !.pc = pc, !.user = u, !.on = b]
  BY <1>5
<1>7. j.op = op /\ j.pc = pc /\ j.user = u /\ j.stale = c.stale
  BY <1>6 DEF Job
<1>8. rpc' = [rpc EXCEPT ![w] = j]
  BY <1>1, <1>2, <1>4, <1>6
<1>9. Becomes(w, j)
  BY <1>8 DEF Becomes, TypeInv
<1>10. pc \notin {"idle", "SetToggled", "ClearActiveSince", "EnsureActiveSince", "DelHash"}
  BY <1>3, <1>4 DEF Entry, VoiceOps, Toggles
<1>11. Fits(j)
  BY <1>2, <1>3, <1>4, <1>7, IdleJob DEF Fits, Entry, VoiceOps, Toggles
<1>12. rpc[w].pc = "idle"
  BY DEF Call
<1> QED BY <1>7, <1>9, <1>10, <1>11, <1>12 DEF Move

LEMMA HandleMove ==
  ASSUME TypeInv, NEW w \in Worker, handleEvent(w)
  PROVE  \E e \in webhooks, j \in Job :
            /\ Move(w, j) /\ webhooks' = webhooks \ {e}
            /\ j.op = e[1] /\ j.user = e[2] /\ j.pc = Entry(e[1]) /\ j.stale = {}
<1>1. PICK e \in webhooks :
          /\ webhooks' = webhooks \ {e}
          /\ rpc' = [rpc EXCEPT ![w] = [Idle EXCEPT !.op = e[1], !.pc = Entry(e[1]), !.user = e[2]]]
  BY DEF handleEvent
<1>2. PICK c \in Job : c = Idle
  BY IdleJob
<1>3. e \in Webhook
  BY DEF TypeInv
<1>4. PICK op \in Hooks, u \in User \cup {NoUser} :
          e[1] = op /\ e[2] = u /\ (op = "participant_left" => u \in User)
  BY <1>3 DEF Webhook, Hooks
<1>5. PICK pc \in PC : pc = Entry(op)
  BY DEF PC, Entry, Hooks
<1>6. [c EXCEPT !.op = op, !.pc = pc, !.user = u] \in Job
  BY DEF Job
<1>7. PICK j \in Job : j = [c EXCEPT !.op = op, !.pc = pc, !.user = u]
  BY <1>6
<1>8. j.op = op /\ j.pc = pc /\ j.user = u /\ j.stale = c.stale
  BY <1>7 DEF Job
<1>9. rpc' = [rpc EXCEPT ![w] = j]
  BY <1>1, <1>2, <1>4, <1>5, <1>7
<1>10. Becomes(w, j)
  BY <1>9 DEF Becomes, TypeInv
<1>11. pc \in {"HDel", "DelHash"} /\ (pc = "HDel" => op = "participant_left")
  BY <1>5 DEF Entry, Hooks
<1>12. Fits(j)
  BY <1>2, <1>4, <1>8, <1>11, IdleJob DEF Fits, Hooks
<1>13. rpc[w].pc = "idle"
  BY DEF handleEvent
<1>14. Move(w, j)
  BY <1>8, <1>10, <1>11, <1>12, <1>13 DEF Move
<1> QED BY <1>1, <1>2, <1>4, <1>5, <1>8, <1>14, IdleJob

LEMMA StreamMove ==
  ASSUME TypeInv, NEW w \in Worker, StreamAnswer(w), rpc[w].pc = "RequireStreamPerm"
  PROVE  \E j \in Job : Move(w, j)
<1> USE DEF PC
<1>1. rpc[w].user \in User
  BY DEF Fits, TypeInv
<1>2. Goto(w, "GetParticipant") \/ Return(w)
  BY DEF StreamAnswer, Proceed
<1> QED BY <1>1, <1>2, GotoMove, ReturnMove

LEMMA StepMove ==
  ASSUME TypeInv, NEW w \in Worker, Step(w)
  PROVE  \E j \in Job : Move(w, j)
<1> USE DEF PC
<1>0. rpc[w] \in Job /\ Fits(rpc[w])
  BY DEF TypeInv
<1>1. CASE CanConnect(w)
  <2>1. rpc[w].pc = "CanConnect" /\ rpc[w].op = "JoinChannel" /\ rpc[w].user \in User
    BY <1>0, <1>1 DEF CanConnect, Fits
  <2>2. Goto(w, "CreateRoom") \/ Return(w)
    BY <1>1 DEF CanConnect, Proceed
  <2> QED BY <2>1, <2>2, GotoMove, ReturnMove
<1>2. CASE CreateRoom(w)
  <2>1. rpc[w].pc = "CreateRoom" /\ rpc[w].op = "JoinChannel" /\ rpc[w].user \in User
    BY <1>0, <1>2 DEF CreateRoom, Fits
  <2> QED BY <1>2, <2>1, GotoMove DEF CreateRoom
<1>3. CASE SetParticipant(w)
  <2>1. rpc[w].pc = "SetParticipant" /\ rpc[w].op = "JoinChannel" /\ rpc[w].user \in User
    BY <1>0, <1>3 DEF SetParticipant, Fits
  <2>2. Goto(w, "EnsureActiveSince")
    BY <1>3 DEF SetParticipant
  <2> QED BY <1>3, <2>1, <2>2, GotoMove
<1>4. CASE EnsureActiveSince(w)
  BY <1>4, ReturnMove DEF EnsureActiveSince
<1>5. CASE RemoveFromRoom(w)
  <2>1. rpc[w].pc = "RemoveFromRoom" /\ rpc[w].user \in User
    BY <1>0, <1>5 DEF RemoveFromRoom, Fits
  <2>2. (rpc[w].op = "LeaveChannel" /\ Goto(w, "HDel")) \/ Return(w)
    BY <1>5 DEF RemoveFromRoom, Proceed
  <2> QED BY <2>1, <2>2, GotoMove, ReturnMove
<1>6. CASE HDel(w)
  <2>1. rpc[w].pc = "HDel" /\ rpc[w].user \in User
          /\ rpc[w].op \in {"LeaveChannel", "participant_left", "GetChannelParticipants"}
    BY <1>0, <1>6 DEF HDel, Fits
  <2> QED BY <1>6, <2>1, GotoMove DEF HDel
<1>7. CASE HLen(w)
  <2>1. rpc[w].pc = "HLen" /\ rpc[w].op \in {"LeaveChannel", "participant_left", "GetChannelParticipants"}
    BY <1>0, <1>7 DEF HLen, Fits
  <2>2. UNCHANGED <<present, listed>>
    BY <1>7 DEF HLen, redis
  <2>3. (listed = {} /\ Goto(w, "DelHash")) \/ Removed(w)
    BY <1>7 DEF HLen
  <2> QED BY <2>1, <2>2, <2>3, GotoMove, RemovedMove
<1>8. CASE DelHash(w)
  <2>1. rpc[w].pc = "DelHash" /\ rpc[w].op \in {"LeaveChannel", "participant_left",
                                                 "GetChannelParticipants", "room_finished"}
    BY <1>0, <1>8 DEF DelHash, Fits
  <2>2. Goto(w, "ClearActiveSince")
    BY <1>8 DEF DelHash
  <2> QED BY <1>8, <2>1, <2>2, GotoMove
<1>9. CASE ClearActiveSince(w)
  BY <1>9, RemovedMove DEF ClearActiveSince
<1>10. CASE RequireStreamPerm(w)
  BY <1>10, StreamMove DEF RequireStreamPerm
<1>11. CASE GetParticipant(w)
  <2>1. rpc[w].pc = "GetParticipant" /\ rpc[w].user \in User
    BY <1>0, <1>11 DEF GetParticipant, Fits
  <2>2. CASE rpc[w].user \notin listed
    BY <1>11, <2>1, <2>2, ReturnMove DEF GetParticipant
  <2>3. CASE rpc[w].user \in listed
    <3>1. PICK f \in SUBSET Flag : f = flags[rpc[w].user]
      BY <2>1 DEF TypeInv
    <3>2. PICK t \in Job : t = rpc[w]
      BY <1>0
    <3>3. PICK j \in Job : j = [t EXCEPT !.read = f, !.pc = "SetToggled"]
      BY DEF Job
    <3>4. j.pc = "SetToggled" /\ j.op = t.op /\ j.user = t.user /\ j.read = f /\ j.stale = t.stale
      BY <3>3 DEF Job
    <3>5. rpc' = [rpc EXCEPT ![w] = j]
      BY <1>11, <2>3, <3>1, <3>2, <3>3 DEF GetParticipant
    <3>6. Becomes(w, j)
      BY <3>5 DEF Becomes, TypeInv
    <3>7. Fits(j)
      BY <1>0, <2>1, <3>2, <3>4 DEF Fits
    <3>8. UNCHANGED <<listed, flags>>
      BY <1>11 DEF GetParticipant, redis
    <3>9. Move(w, j)
      BY <2>1, <2>3, <3>1, <3>2, <3>4, <3>6, <3>7, <3>8 DEF Move
    <3> QED BY <3>9
  <2> QED BY <2>2, <2>3
<1>12. CASE SetToggled(w)
  BY <1>12, ReturnMove DEF SetToggled
<1>13. CASE UpdateParticipant(w)
  BY <1>13, ReturnMove DEF UpdateParticipant
<1>14. CASE ListParticipants(w)
  <2>1. rpc[w].pc = "ListParticipants" /\ rpc[w].op = "GetChannelParticipants" /\ rpc[w].user \in User
    BY <1>0, <1>14 DEF ListParticipants, Fits
  <2>2. CASE connected = {}
    BY <1>14, <2>1, <2>2, ReturnMove DEF ListParticipants
  <2>3. CASE connected # {}
    <3>1. PICK t \in Job : t = rpc[w]
      BY <1>0
    <3>2. PICK c \in SUBSET User : c = connected
      BY DEF TypeInv
    <3>3. PICK j \in Job : j = [t EXCEPT !.stale = c, !.pc = "GetChannelState"]
      BY DEF Job
    <3>4. j.pc = "GetChannelState" /\ j.op = t.op /\ j.user = t.user /\ j.stale = c
      BY <3>3 DEF Job
    <3>5. rpc' = [rpc EXCEPT ![w] = j]
      BY <1>14, <2>3, <3>1, <3>2, <3>3 DEF ListParticipants
    <3>6. Becomes(w, j)
      BY <3>5 DEF Becomes, TypeInv
    <3>7. Fits(j)
      BY <2>1, <3>1, <3>4 DEF Fits
    <3>8. Move(w, j)
      BY <2>1, <3>1, <3>4, <3>6, <3>7 DEF Move
    <3> QED BY <3>8
  <2> QED BY <2>2, <2>3
<1>15. CASE GetChannelState(w)
  <2>1. rpc[w].pc = "GetChannelState" /\ rpc[w].op = "GetChannelParticipants"
    BY <1>0, <1>15 DEF GetChannelState, Fits
  <2>2. PICK s \in SUBSET User : s = listed \ rpc[w].stale
    BY DEF TypeInv
  <2>3. CASE s = {}
    BY <1>15, <2>1, <2>2, <2>3, ReturnMove DEF GetChannelState
  <2>4. CASE s # {}
    <3>1. PICK u \in s : rpc' = [rpc EXCEPT ![w].user = u, ![w].stale = s \ {u}, ![w].pc = "HDel"]
      BY <1>15, <2>2, <2>4 DEF GetChannelState
    <3>2. PICK t \in Job : t = rpc[w]
      BY <1>0
    <3>3. PICK r \in SUBSET User : r = s \ {u}
      OBVIOUS
    <3>4. PICK j \in Job : j = [t EXCEPT !.user = u, !.stale = r, !.pc = "HDel"]
      BY DEF Job
    <3>5. j.pc = "HDel" /\ j.op = t.op /\ j.user = u /\ j.stale = r
      BY <3>4 DEF Job
    <3>6. rpc' = [rpc EXCEPT ![w] = j]
      BY <3>1, <3>2, <3>3, <3>4
    <3>7. Becomes(w, j)
      BY <3>6 DEF Becomes, TypeInv
    <3>8. Fits(j)
      BY <2>1, <3>1, <3>2, <3>5 DEF Fits
    <3>9. Move(w, j)
      BY <2>1, <3>2, <3>5, <3>7, <3>8 DEF Move
    <3> QED BY <3>9
  <2> QED BY <2>3, <2>4
<1> QED BY <1>1, <1>2, <1>3, <1>4, <1>5, <1>6, <1>7, <1>8, <1>9, <1>10, <1>11, <1>12, <1>13, <1>14,
           <1>15 DEF Step

LEMMA CallFailsMove ==
  ASSUME TypeInv, NEW w \in Worker, CallFails(w)
  PROVE  \E j \in Job : Move(w, j)
<1> USE DEF PC
<1>0. rpc[w] \in Job /\ Fits(rpc[w]) /\ rpc[w].pc # "idle" /\ AfterError(w)
  BY DEF TypeInv, CallFails
<1>1. CASE rpc[w].pc = "SetParticipant"
  <2>1. rpc[w].op = "JoinChannel" /\ rpc[w].user \in User /\ Goto(w, "EnsureActiveSince")
    BY <1>0, <1>1 DEF AfterError, Fits
  <2> QED BY <1>0, <2>1, GotoMove
<1>2. CASE rpc[w].pc = "RemoveFromRoom"
  <2>1. rpc[w].user \in User
    BY <1>0, <1>2 DEF Fits
  <2>2. (rpc[w].op = "LeaveChannel" /\ Goto(w, "HDel")) \/ Return(w)
    BY <1>0, <1>2 DEF AfterError, Proceed
  <2> QED BY <1>0, <2>1, <2>2, GotoMove, ReturnMove
<1>3. CASE rpc[w].pc \in {"HDel", "HLen", "ClearActiveSince"}
  <2>1. Removed(w)
    BY <1>0, <1>3 DEF AfterError
  <2> QED BY <1>0, <2>1, RemovedMove
<1>4. CASE rpc[w].pc = "DelHash"
  <2>1. Goto(w, "ClearActiveSince")
    BY <1>0, <1>4 DEF AfterError
  <2>2. rpc[w].op \in {"LeaveChannel", "participant_left", "GetChannelParticipants", "room_finished"}
    BY <1>0, <1>4 DEF Fits
  <2> QED BY <1>0, <2>1, <2>2, GotoMove
<1>5. CASE rpc[w].pc \notin {"SetParticipant", "RemoveFromRoom", "HDel", "HLen", "ClearActiveSince", "DelHash",
                          "RequireStreamPerm"}
  <2>1. Return(w)
    BY <1>0, <1>5 DEF AfterError
  <2> QED BY <1>0, <2>1, ReturnMove
<1>6. CASE rpc[w].pc = "RequireStreamPerm"
  <2>1. StreamAnswer(w)
    BY <1>0, <1>6 DEF AfterError
  <2> QED BY <1>0, <1>6, <2>1, StreamMove
<1> QED BY <1>1, <1>2, <1>3, <1>4, <1>5, <1>6

LEMMA WorkerMove ==
  ASSUME TypeInv, NEW w \in Worker, WorkerStep(w)
  PROVE  \E j \in Job : Move(w, j)
  BY CallMove, HandleMove, StepMove, CallFailsMove DEF WorkerStep

\* The steps of LiveKit and of the clients.
Outside == (\E u \in User : Connect(u) \/ TokenExpires(u) \/ Disconnect(u) \/ GiveUp(u)) \/ FinishRoom

LEMMA NextCases ==
  ASSUME Next
  PROVE  \/ \E w \in Worker : WorkerStep(w)
         \/ Outside
  BY DEF Next, WorkerStep, Outside

Frame ==
    /\ UNCHANGED <<listed, flags, since, rpc, faults>>
    /\ connected' \subseteq User /\ token' \subseteq User /\ present' \subseteq present
    /\ allowed' \in [User -> SUBSET {"publish", "subscribe"}]
    /\ webhooks' \subseteq Webhook

LEMMA OutsideFrame ==
  ASSUME TypeInv, Outside
  PROVE  Frame
<1> USE DEF Frame
<1>1. ASSUME NEW u \in User, Connect(u) PROVE Frame
  BY <1>1 DEF Connect, redis, TypeInv
<1>2. ASSUME NEW u \in User, Disconnect(u) PROVE Frame
  <2>1. <<"participant_left", u>> \in Webhook
    BY DEF Webhook
  <2> QED BY <1>2, <2>1 DEF Disconnect, Send, redis, TypeInv
<1>3. ASSUME NEW u \in User, GiveUp(u) PROVE Frame
  BY <1>3 DEF GiveUp, redis, livekit, TypeInv
<1>5. ASSUME NEW u \in User, TokenExpires(u) PROVE Frame
  BY <1>5 DEF TokenExpires, redis, TypeInv
<1>4. CASE FinishRoom
  <2>1. <<"room_finished", NoUser>> \in Webhook
    BY DEF Webhook
  <2> QED BY <1>4, <2>1 DEF FinishRoom, Send, redis, TypeInv
<1> QED BY <1>1, <1>2, <1>3, <1>4, <1>5 DEF Outside

\* Everything of TypeInv but the jobs.
StoreType ==
    /\ listed \subseteq User
    /\ flags \in [User -> SUBSET Flag]
    /\ since \in User \cup {NoUser}
    /\ connected \subseteq User
    /\ allowed \in [User -> SUBSET {"publish", "subscribe"}]
    /\ webhooks \subseteq Webhook
    /\ token \subseteq User /\ present \subseteq User
    /\ faults \in Nat

LEMMA MutateType ==
  ASSUME NEW op, NEW f \in SUBSET Flag
  PROVE  Mutate(op, f) \in SUBSET Flag
  BY DEF Mutate, Flag

LEMMA StoreStep ==
  ASSUME TypeInv, NEW w \in Worker, WorkerStep(w)
  PROVE  StoreType'
<1>0. StoreType /\ rpc[w] \in Job /\ Fits(rpc[w])
  BY DEF TypeInv, StoreType
<1> USE DEF StoreType
<1>1. CASE Call(w)
  BY <1>0, <1>1 DEF Call, redis, livekit
<1>2. CASE handleEvent(w)
  BY <1>0, <1>2 DEF handleEvent, redis
<1>3. CASE CanConnect(w) \/ HLen(w) \/ RequireStreamPerm(w) \/ GetParticipant(w)
           \/ ListParticipants(w) \/ GetChannelState(w)
  <2>1. UNCHANGED <<redis, livekit, present, faults>>
    BY <1>3 DEF CanConnect, HLen, RequireStreamPerm, GetParticipant, ListParticipants, GetChannelState
  <2> QED BY <1>0, <2>1 DEF redis, livekit
<1>4. CASE CreateRoom(w)
  BY <1>0, <1>4 DEF CreateRoom, redis
<1>5. CASE SetParticipant(w)
  <2>1. rpc[w].user \in User
    BY <1>0, <1>5 DEF SetParticipant, Fits
  <2> QED BY <1>0, <1>5, <2>1 DEF SetParticipant, livekit
<1>6. CASE EnsureActiveSince(w)
  <2>1. rpc[w].user \in User
    BY <1>0, <1>6 DEF EnsureActiveSince, Fits
  <2> QED BY <1>0, <1>6, <2>1 DEF EnsureActiveSince, Admit
<1>7. CASE RemoveFromRoom(w)
  <2>1. rpc[w].user \in User
    BY <1>0, <1>7 DEF RemoveFromRoom, Fits
  <2>2. <<"participant_left", rpc[w].user>> \in Webhook
    BY <2>1 DEF Webhook
  <2>3. CASE rpc[w].user \in connected
    BY <1>0, <1>7, <2>1, <2>2, <2>3 DEF RemoveFromRoom, Send, redis
  <2>4. CASE rpc[w].user \notin connected
    BY <1>0, <1>7, <2>4 DEF RemoveFromRoom, redis
  <2> QED BY <2>3, <2>4
<1>8. CASE HDel(w)
  BY <1>0, <1>8 DEF HDel, livekit
<1>9. CASE DelHash(w)
  BY <1>0, <1>9 DEF DelHash, livekit
<1>10. CASE ClearActiveSince(w)
  BY <1>0, <1>10 DEF ClearActiveSince, livekit
<1>11. CASE SetToggled(w)
  <2>1. rpc[w].user \in User /\ rpc[w].read \in SUBSET Flag
    BY <1>0, <1>11 DEF SetToggled, Fits, Job
  <2>2. PICK f \in SUBSET Flag : f = Mutate(rpc[w].op, rpc[w].read)
    BY <2>1, MutateType
  <2> QED BY <1>0, <1>11, <2>1, <2>2 DEF SetToggled, livekit
<1>12. CASE UpdateParticipant(w)
  <2>1. PICK q \in SUBSET {"publish", "subscribe"} : q = Permission(rpc[w].op, rpc[w].on)
    BY DEF Permission
  <2>2. \/ allowed' = allowed
        \/ allowed' = [allowed EXCEPT ![rpc[w].user] = q]
    BY <1>12, <2>1 DEF UpdateParticipant
  <2>3. allowed' \in [User -> SUBSET {"publish", "subscribe"}]
    BY <1>0, <2>2
  <2> QED BY <1>0, <1>12, <2>3 DEF UpdateParticipant, redis
<1>13. CASE CallFails(w)
  <2>1. rpc[w].pc = "EnsureActiveSince" => rpc[w].user \in User
    BY <1>0 DEF Fits
  <2> QED BY <1>0, <1>13, <2>1 DEF CallFails, Admit, redis
<1> QED BY <1>1, <1>2, <1>3, <1>4, <1>5, <1>6, <1>7, <1>8, <1>9, <1>10, <1>11, <1>12, <1>13
        DEF WorkerStep, Step

LEMMA TypeStep ==
  ASSUME TypeInv, [Next]_vars
  PROVE  TypeInv'
<1>1. CASE UNCHANGED vars
  BY <1>1 DEF TypeInv, vars, system, redis, livekit
<1>2. CASE Outside
  BY <1>2, OutsideFrame DEF Frame, TypeInv
<1>3. ASSUME NEW w \in Worker, WorkerStep(w)
      PROVE  TypeInv'
  <2>1. StoreType'
    BY <1>3, StoreStep
  <2>2. PICK j \in Job : Move(w, j)
    BY <1>3, WorkerMove
  <2>3. rpc' \in [Worker -> Job] /\ \A v \in Worker : Fits(rpc'[v])
    BY <2>2 DEF Move, Becomes, TypeInv
  <2>4. (\A v \in Worker : Fits(rpc[v]))'
    BY <2>3
  <2> QED BY <2>1, <2>3, <2>4 DEF TypeInv, StoreType
<1> QED BY <1>1, <1>2, <1>3, NextCases

LEMMA TypeInit == Init => TypeInv
<1> SUFFICES ASSUME Init PROVE TypeInv
  OBVIOUS
<1>1. rpc \in [Worker -> Job] /\ \A w \in Worker : Fits(rpc[w])
  BY IdleJob DEF Init
<1> QED BY <1>1 DEF Init, TypeInv

-----------------------------------------------------------------------------
(* Handlers that do not overlap.                                             *)

SerialInv == serial => OneAtATime

LEMMA SerialStep ==
  ASSUME SerialInv, [Next]_vars
  PROVE  SerialInv'
<1>1. CASE UNCHANGED vars
  BY <1>1 DEF SerialInv, OneAtATime, vars, system
<1>2. CASE Next
  BY <1>2 DEF Next, SerialInv
<1> QED BY <1>1, <1>2

\* When a worker moves, the others are idle.
LEMMA Alone ==
  ASSUME TypeInv, SerialInv, Next, serial', NEW w \in Worker, NEW j \in Job, Move(w, j)
  PROVE  \A v \in Worker \ {w} : rpc[v].pc = "idle" /\ rpc'[v] = rpc[v]
<1>1. OneAtATime /\ OneAtATime'
  BY DEF Next, SerialInv
<1>2. rpc'[w] = j /\ \A v \in Worker \ {w} : rpc'[v] = rpc[v]
  BY DEF Move, Becomes
<1>3. rpc[w].pc # "idle" \/ j.pc # "idle"
  BY DEF Move
<1> QED BY <1>1, <1>2, <1>3 DEF OneAtATime

\* What a toggle has read is still so, and the hash is gone when the timer is cleared.
HeldInv ==
    serial => \A w \in Worker :
        /\ rpc[w].pc = "SetToggled" => rpc[w].user \in listed /\ rpc[w].read = flags[rpc[w].user]
        /\ rpc[w].pc = "ClearActiveSince" /\ faults = 0 => listed = {}

LEMMA HeldStep ==
  ASSUME TypeInv, SerialInv, HeldInv, [Next]_vars
  PROVE  HeldInv'
<1> USE DEF HeldInv
<1>1. CASE UNCHANGED vars
  BY <1>1 DEF vars, system, redis
<1>2. CASE Next /\ Outside
  BY <1>2, OutsideFrame DEF Frame, Next
<1>3. ASSUME Next, serial', NEW w \in Worker, WorkerStep(w), NEW v \in Worker
      PROVE  /\ rpc'[v].pc = "SetToggled" =>
                    rpc'[v].user \in listed' /\ rpc'[v].read = flags'[rpc'[v].user]
             /\ rpc'[v].pc = "ClearActiveSince" /\ faults' = 0 => listed' = {}
  <2>1. PICK j \in Job : Move(w, j)
    BY <1>3, WorkerMove
  <2>2. CASE v # w
    BY <1>3, <2>1, <2>2, Alone
  <2>3. CASE v = w
    <3>1. rpc'[v] = j
      BY <2>1, <2>3 DEF Move, Becomes
    <3>2. j.pc = "SetToggled" => j.user \in listed' /\ j.read = flags'[j.user]
      BY <2>1 DEF Move
    <3>3. DelHash(w) => listed' = {}
      BY DEF DelHash
    <3>4. CallFails(w) => faults' # 0
      BY DEF CallFails, TypeInv
    <3>5. j.pc = "ClearActiveSince" => DelHash(w) \/ CallFails(w)
      BY <2>1 DEF Move
    <3> QED BY <3>1, <3>2, <3>3, <3>4, <3>5
  <2> QED BY <2>2, <2>3
<1> QED BY <1>1, <1>2, <1>3, NextCases

LEMMA HeldInit == Init => SerialInv /\ HeldInv
<1> SUFFICES ASSUME Init PROVE SerialInv /\ HeldInv
  OBVIOUS
<1>1. \A w \in Worker : rpc[w].pc = "idle"
  BY IdleJob DEF Init
<1> QED BY <1>1 DEF SerialInv, HeldInv, OneAtATime

LEMMA HeldAlways == Spec => [](TypeInv /\ SerialInv /\ HeldInv)
<1>1. Init => TypeInv /\ SerialInv /\ HeldInv
  BY TypeInit, HeldInit
<1>2. TypeInv /\ SerialInv /\ HeldInv /\ [Next]_vars => (TypeInv /\ SerialInv /\ HeldInv)'
  BY TypeStep, SerialStep, HeldStep
<1> QED BY <1>1, <1>2, PTL DEF Spec

\* A toggle (Mute, Deafen, EnableVideo, ...) that runs alone changes its own flag of a
\* listed participant and nothing else, although it reads the record, changes it and
\* writes it back whole, whichever calls fail and whatever LiveKit does meanwhile.
THEOREM TogglesAreLocal == Spec => ToggleIsLocal
<1>1. ASSUME TypeInv, SerialInv, HeldInv, [Next]_vars,
             NEW w \in Worker, serial, rpc[w].pc = "SetToggled", rpc'[w].pc = "idle", faults' = faults
      PROVE  LET u == rpc[w].user IN
             /\ u \in listed
             /\ flags' = [flags EXCEPT ![u] = Mutate(rpc[w].op, flags[u])]
  <2>1. rpc' # rpc
    BY <1>1
  <2>2. PICK v \in Worker : WorkerStep(v)
    BY <1>1, <2>1, NextCases, OutsideFrame DEF vars, system, Frame
  <2>3. v = w
    <3>1. PICK j \in Job : Move(v, j)
      BY <1>1, <2>2, WorkerMove
    <3> QED BY <1>1, <3>1 DEF Move, Becomes
  <2>4. SetToggled(w)
    <3>1. ~CallFails(w)
      BY <1>1 DEF CallFails, TypeInv
    <3>2. rpc[w].pc = "SetToggled"
      BY <1>1
    <3> QED BY <2>2, <2>3, <3>1, <3>2
            DEF WorkerStep, Step, Call, handleEvent, CanConnect, CreateRoom, SetParticipant,
                EnsureActiveSince, RemoveFromRoom, HDel, HLen, DelHash, ClearActiveSince,
                RequireStreamPerm, GetParticipant, UpdateParticipant, ListParticipants,
                GetChannelState
  <2> QED BY <1>1, <2>4 DEF SetToggled, HeldInv
<1>2. TypeInv /\ SerialInv /\ HeldInv /\ [Next]_vars =>
        [\A w \in Worker :
            (serial /\ rpc[w].pc = "SetToggled" /\ rpc'[w].pc = "idle" /\ faults' = faults) =>
                LET u == rpc[w].user IN
                /\ u \in listed
                /\ flags' = [flags EXCEPT ![u] = Mutate(rpc[w].op, flags[u])]]_vars
  BY <1>1
<1> QED BY <1>2, HeldAlways, PTL DEF Spec, ToggleIsLocal

\* active_since, which SETNX of JoinChannel sets, is changed by no other join, nor by a
\* leave while someone is listed, when no call fails and handlers do not overlap.
THEOREM TimerIsFirstJoiners == Spec => FirstJoinerTimer
<1>1. ASSUME TypeInv, HeldInv, [Next]_vars,
             serial, faults' = 0, since # NoUser, since' # since
      PROVE  listed = {}
  <2>1. PICK w \in Worker : WorkerStep(w)
    BY <1>1, NextCases, OutsideFrame DEF vars, system, redis, Frame
  <2>2. ~Call(w) /\ ~handleEvent(w) /\ ~CallFails(w)
    BY <1>1 DEF Call, handleEvent, CallFails, redis
  <2>3. ClearActiveSince(w)
    BY <1>1, <2>1, <2>2
       DEF WorkerStep, Step, CanConnect, CreateRoom, SetParticipant, EnsureActiveSince,
           RemoveFromRoom, HDel, HLen, DelHash, RequireStreamPerm, GetParticipant, SetToggled,
           UpdateParticipant, ListParticipants, GetChannelState, redis
  <2> QED BY <1>1, <2>3 DEF ClearActiveSince, HeldInv
<1>2. TypeInv /\ SerialInv /\ HeldInv /\ [Next]_vars =>
        [serial /\ faults' = 0 /\ since # NoUser /\ since' # since => listed = {}]_vars
  BY <1>1
<1> QED BY <1>2, HeldAlways, PTL DEF Spec, FirstJoinerTimer

-----------------------------------------------------------------------------
(* Prompt webhooks.  A webhook that is still to come, and the handler that    *)
(* removes a user, are about users that are not present: so no removal hits   *)
(* a client that has come back.                                              *)

Orderly == serial /\ prompt /\ faults = 0

Harmless(j) ==
    /\ j.op # "GetChannelParticipants"
    /\ j.op = "JoinChannel" => webhooks = {}
    /\ j.op \in {"LeaveChannel", "DisconnectUser", "participant_left"} => j.user \notin present
    /\ j.pc = "EnsureActiveSince" => j.user \in listed
    /\ j.pc = "DelHash" => present = {}

PromptInv ==
    Orderly =>
        /\ present \subseteq listed
        /\ \A u \in User : <<"participant_left", u>> \in webhooks => u \notin present
        /\ <<"room_finished", NoUser>> \in webhooks => present = {}
        /\ \A w \in Worker : Harmless(rpc[w])

LEMMA PromptInit == Init => PromptInv
<1> SUFFICES ASSUME Init PROVE PromptInv
  OBVIOUS
<1>1. \A w \in Worker : rpc[w] = Idle
  BY DEF Init
<1>2. \A w \in Worker : Harmless(rpc[w])
  BY <1>1, IdleJob DEF Harmless
<1> QED BY <1>2 DEF Init, PromptInv

LEMMA PromptOutside ==
  ASSUME TypeInv, PromptInv, Next, Outside, Orderly'
  PROVE  /\ (present \subseteq listed)'
         /\ \A u \in User : <<"participant_left", u>> \in webhooks' => u \notin present'
         /\ <<"room_finished", NoUser>> \in webhooks' => present' = {}
         /\ \A w \in Worker : Harmless(rpc[w])'
<1>0. UNCHANGED <<listed, flags, since, rpc, faults>> /\ present' \subseteq present
  BY OutsideFrame DEF Frame
<1>1. Orderly /\ Prompt
  BY <1>0 DEF Orderly, Next
<1>2. /\ present \subseteq listed
      /\ \A u \in User : <<"participant_left", u>> \in webhooks => u \notin present
      /\ <<"room_finished", NoUser>> \in webhooks => present = {}
      /\ \A w \in Worker : Harmless(rpc[w])
  BY <1>1 DEF PromptInv
<1>3. ASSUME NEW w \in Worker, rpc[w].op = "JoinChannel"
      PROVE  webhooks' = {}
  <2>1. webhooks = {}
    BY <1>2, <1>3 DEF Harmless
  <2>2. ~Quiet
    BY <1>3 DEF Quiet, TypeInv, Fits
  <2> QED BY <1>0, <1>1, <2>1, <2>2 DEF Prompt
<1>4. \A w \in Worker : Harmless(rpc[w])'
  BY <1>0, <1>2, <1>3 DEF Harmless
<1>5. (present \subseteq listed)'
  BY <1>0, <1>2
<1>6. \A u \in User : <<"participant_left", u>> \in webhooks' => u \notin present'
  BY <1>0, <1>2 DEF Outside, Connect, TokenExpires, Disconnect, GiveUp, FinishRoom, Send, livekit
<1>7. <<"room_finished", NoUser>> \in webhooks' => present' = {}
  BY <1>0, <1>2 DEF Outside, Connect, TokenExpires, Disconnect, GiveUp, FinishRoom, Send, livekit
<1> QED BY <1>4, <1>5, <1>6, <1>7

\* The steps of the one handler that runs.
LEMMA PromptWorker ==
  ASSUME TypeInv, SerialInv, PromptInv, Next, NEW w \in Worker, WorkerStep(w), Orderly'
  PROVE  /\ (present \subseteq listed)'
         /\ \A u \in User : <<"participant_left", u>> \in webhooks' => u \notin present'
         /\ <<"room_finished", NoUser>> \in webhooks' => present' = {}
         /\ Harmless(rpc[w])'
         /\ \A v \in Worker \ {w} : rpc'[v].pc = "idle"
<1>0. ~CallFails(w)
  BY DEF CallFails, Orderly, TypeInv
<1>1. faults' = faults
  BY <1>0 DEF WorkerStep, Step, Call, handleEvent, CanConnect, CreateRoom, SetParticipant,
              EnsureActiveSince, RemoveFromRoom, HDel, HLen, DelHash, ClearActiveSince,
              RequireStreamPerm, GetParticipant, SetToggled, UpdateParticipant, ListParticipants,
              GetChannelState
<1>2. Orderly /\ Prompt
  BY <1>1 DEF Orderly, Next
<1>3. /\ present \subseteq listed
      /\ \A u \in User : <<"participant_left", u>> \in webhooks => u \notin present
      /\ <<"room_finished", NoUser>> \in webhooks => present = {}
      /\ Harmless(rpc[w])
  BY <1>2 DEF PromptInv
<1>4. Fits(rpc[w]) /\ rpc[w] \in Job
  BY DEF TypeInv
<1>5. PICK j \in Job : Move(w, j)
  BY WorkerMove
<1>6. rpc'[w] = j
  BY <1>5 DEF Move, Becomes
<1>7. \A v \in Worker \ {w} : rpc'[v].pc = "idle"
  BY <1>5, Alone DEF Orderly
<1>8. CASE Call(w)
  <2>1. PICK op \in Ops, u \in User :
            /\ present' = IF op \in {"JoinChannel", "LeaveChannel", "DisconnectUser"}
                          THEN present \ {u} ELSE present
            /\ \E b \in BOOLEAN :
                  rpc' = [rpc EXCEPT ![w] = [Idle EXCEPT !.op = op, !.pc = Entry(op),
                                                         !.user = u, !.on = b]]
    BY <1>8 DEF Call
  <2>2. op \in VoiceOps
    BY VoiceConstants
  <2>3. j.op = op /\ j.user = u /\ j.pc = Entry(op)
    <3>1. PICK b \in BOOLEAN :
              rpc' = [rpc EXCEPT ![w] = [Idle EXCEPT !.op = op, !.pc = Entry(op), !.user = u, !.on = b]]
      BY <2>1
    <3>2. PICK c \in Job : c = Idle
      BY IdleJob
    <3>3. PICK pc : pc = Entry(op)
      OBVIOUS
    <3>4. rpc'[w] = [c EXCEPT !.op = op, !.pc = pc, !.user = u, !.on = b]
      BY <3>1, <3>2, <3>3 DEF TypeInv
    <3> QED BY <1>6, <3>2, <3>3, <3>4 DEF Job
  <2>4. rpc[w].pc = "idle"
    BY <1>8 DEF Call
  <2>5. webhooks = {} /\ op # "GetChannelParticipants"
    BY <1>2, <1>6, <2>2, <2>3, <2>4 DEF Prompt
  <2>6. UNCHANGED <<listed, webhooks>>
    BY <1>8 DEF Call, redis, livekit
  <2>7. j.pc # "EnsureActiveSince" /\ j.pc # "DelHash"
    BY <2>2, <2>3 DEF Entry, VoiceOps, Toggles
  <2>8. op # "participant_left"
    BY <2>2 DEF VoiceOps, Toggles
  <2>9. Harmless(rpc[w])'
    BY <1>6, <2>1, <2>3, <2>5, <2>6, <2>7, <2>8 DEF Harmless
  <2> QED BY <1>3, <1>7, <2>1, <2>5, <2>6, <2>9
<1>9. CASE handleEvent(w)
  <2>1. PICK e \in webhooks, i \in Job :
            /\ Move(w, i) /\ webhooks' = webhooks \ {e}
            /\ i.op = e[1] /\ i.user = e[2] /\ i.pc = Entry(e[1]) /\ i.stale = {}
    BY <1>9, HandleMove
  <2>2. i = j
    BY <1>6, <2>1 DEF Move, Becomes
  <2>3. UNCHANGED <<listed, present>>
    BY <1>9 DEF handleEvent, redis
  <2>4. e \in Webhook
    BY DEF TypeInv
  <2>5. CASE e[1] = "participant_left"
    <3>1. e[2] \in User /\ e = <<"participant_left", e[2]>>
      BY <2>4, <2>5 DEF Webhook
    <3>2. e[2] \notin present /\ j.pc = "HDel"
      BY <1>3, <2>1, <2>2, <2>5, <3>1 DEF Entry
    <3>3. Harmless(rpc[w])'
      BY <1>6, <2>1, <2>2, <2>3, <2>5, <3>2 DEF Harmless
    <3> QED BY <1>3, <1>7, <2>1, <2>3, <3>3
  <2>6. CASE e[1] = "room_finished"
    <3>1. e = <<"room_finished", NoUser>>
      BY <2>4, <2>6 DEF Webhook
    <3>2. present = {} /\ j.pc = "DelHash"
      BY <1>3, <2>1, <2>2, <2>6, <3>1 DEF Entry
    <3>3. Harmless(rpc[w])'
      BY <1>6, <2>1, <2>2, <2>3, <2>6, <3>2 DEF Harmless
    <3> QED BY <1>3, <1>7, <2>1, <2>3, <3>3
  <2>7. e[1] \in {"participant_left", "room_finished"}
    BY <2>4 DEF Webhook
  <2> QED BY <2>5, <2>6, <2>7
<1>10. CASE Step(w)
  <2>1. rpc[w].pc # "idle"
    BY <1>10 DEF Step, CanConnect, CreateRoom, SetParticipant, EnsureActiveSince, RemoveFromRoom,
                 HDel, HLen, DelHash, ClearActiveSince, RequireStreamPerm, GetParticipant,
                 SetToggled, UpdateParticipant, ListParticipants, GetChannelState
  <2>2. \/ j.pc = "idle" /\ j.op = "none"
        \/ j.op = rpc[w].op /\ j.user = rpc[w].user
    BY <1>3, <1>5, <2>1 DEF Move, Harmless, Fits
  <2>3. ~handleEvent(w)
    BY <2>1 DEF handleEvent
  <2>4. CASE EnsureActiveSince(w)
    <3>1. rpc[w].op = "JoinChannel" /\ webhooks = {} /\ rpc[w].user \in listed
      BY <1>3, <1>4, <2>4 DEF EnsureActiveSince, Fits, Harmless
    <3>2. rpc'[w] = Idle
      BY <2>4, ReturnJob DEF EnsureActiveSince, Becomes
    <3>3. Harmless(rpc[w])'
      BY <3>2, IdleJob DEF Harmless
    <3> QED BY <1>3, <1>7, <2>4, <3>1, <3>3 DEF EnsureActiveSince, Admit
  <2>5. CASE RemoveFromRoom(w)
    <3>1. rpc[w].op \in {"LeaveChannel", "DisconnectUser"} /\ rpc[w].user \notin present
      BY <1>3, <1>4, <2>5 DEF RemoveFromRoom, Fits, Harmless
    <3>2. listed' = listed /\ present' = present /\
            (webhooks' = webhooks \/ webhooks' = webhooks \cup {<<"participant_left", rpc[w].user>>})
      BY <2>5, <3>1 DEF RemoveFromRoom, Send, redis
    <3>3. /\ j.op # "JoinChannel" /\ j.pc # "EnsureActiveSince"
          /\ j.pc = "DelHash" => present = {}
      BY <1>0, <1>3, <1>5, <2>2, <2>3, <2>5, <3>1 DEF Move, RemoveFromRoom, SetParticipant
    <3>4. Harmless(rpc[w])'
      BY <1>3, <1>6, <2>2, <3>1, <3>2, <3>3 DEF Harmless
    <3> QED BY <1>3, <1>7, <3>1, <3>2, <3>4
  <2>6. CASE HDel(w)
    <3>1. rpc[w].user \notin present
      BY <1>3, <1>4, <2>6 DEF HDel, Fits, Harmless
    <3>2. listed' = listed \ {rpc[w].user} /\ UNCHANGED <<present, webhooks>>
      BY <2>6 DEF HDel, livekit
    <3>3. j.pc # "DelHash" /\ j.pc # "EnsureActiveSince"
      <4>1. j.pc = "HLen"
        <5>1. PICK i \in Job : Becomes(w, i) /\ i.pc = "HLen"
          BY <2>6, GotoJob DEF HDel, PC
        <5> QED BY <1>6, <5>1 DEF Becomes
      <4> QED BY <4>1
    <3>4. Harmless(rpc[w])'
      BY <1>3, <1>6, <2>2, <3>2, <3>3 DEF Harmless
    <3> QED BY <1>3, <1>7, <3>1, <3>2, <3>4
  <2>7. CASE DelHash(w)
    <3>1. present = {}
      BY <1>3, <2>7 DEF DelHash, Harmless
    <3>2. UNCHANGED <<present, webhooks>>
      BY <2>7 DEF DelHash, livekit
    <3>3. j.pc = "ClearActiveSince"
      <4>1. PICK i \in Job : Becomes(w, i) /\ i.pc = "ClearActiveSince"
        BY <2>7, GotoJob DEF DelHash, PC
      <4> QED BY <1>6, <4>1 DEF Becomes
    <3>4. Harmless(rpc[w])'
      BY <1>3, <1>6, <2>2, <3>2, <3>3 DEF Harmless
    <3> QED BY <1>3, <1>7, <3>1, <3>2, <3>4
  <2>8. CASE ~EnsureActiveSince(w) /\ ~RemoveFromRoom(w) /\ ~HDel(w) /\ ~DelHash(w)
    <3>1. UNCHANGED <<present, webhooks>> /\ listed \subseteq listed'
      BY <1>10, <2>8 DEF Step, CanConnect, CreateRoom, SetParticipant, HLen, ClearActiveSince,
           RequireStreamPerm, GetParticipant, SetToggled, UpdateParticipant, ListParticipants,
           GetChannelState, redis, livekit
    <3>2. j.pc = "EnsureActiveSince" => rpc[w].user \in listed'
      BY <1>0, <1>5 DEF Move, SetParticipant
    <3>3. j.pc = "DelHash" => present = {}
      BY <1>3, <1>5, <2>3 DEF Move
    <3>4. Harmless(rpc[w])'
      BY <1>3, <1>6, <2>2, <3>1, <3>2, <3>3 DEF Harmless
    <3> QED BY <1>3, <1>7, <3>1, <3>4
  <2> QED BY <2>4, <2>5, <2>6, <2>7, <2>8
<1> QED BY <1>0, <1>8, <1>9, <1>10 DEF WorkerStep

LEMMA PromptStep ==
  ASSUME TypeInv, TypeInv', SerialInv, PromptInv, [Next]_vars
  PROVE  PromptInv'
<1>1. CASE UNCHANGED vars
  BY <1>1 DEF PromptInv, Orderly, Harmless, vars, system, redis, livekit
<1>2. CASE Next /\ Outside
  BY <1>2, PromptOutside DEF PromptInv
<1>3. ASSUME Next, NEW w \in Worker, WorkerStep(w), Orderly'
      PROVE  PromptInv'
  <2>1. /\ (present \subseteq listed)'
        /\ \A u \in User : <<"participant_left", u>> \in webhooks' => u \notin present'
        /\ <<"room_finished", NoUser>> \in webhooks' => present' = {}
        /\ Harmless(rpc[w])'
        /\ \A v \in Worker \ {w} : rpc'[v].pc = "idle"
    BY <1>3, PromptWorker
  <2>2. \A v \in Worker \ {w} : rpc'[v].op = "none" /\ rpc'[v].pc = "idle"
    BY <2>1 DEF TypeInv, Fits
  <2>3. \A v \in Worker : Harmless(rpc[v])'
    BY <2>1, <2>2 DEF Harmless
  <2> QED BY <2>1, <2>3 DEF PromptInv
<1>4. ~Orderly' => PromptInv'
  BY DEF PromptInv
<1> QED BY <1>1, <1>2, <1>3, <1>4, NextCases

\* With prompt webhooks and no failing call, whoever joined, and has neither left nor
\* lost the connection, is listed: the handlers of LiveKit's webhooks and LeaveChannel
\* remove nobody who is there.
THEOREM PresentAreListed == Spec => []PresentIsListed
<1>1. TypeInv /\ SerialInv /\ PromptInv /\ TypeInv' /\ [Next]_vars => PromptInv'
  BY PromptStep
<1>2. PromptInv => PresentIsListed
  BY DEF PromptInv, PresentIsListed, Orderly
<1> QED BY <1>1, <1>2, HeldAlways, PromptInit, PTL DEF Spec

-----------------------------------------------------------------------------
(* GroupDM: calls and membership of a group DM.                              *)

TaskPC == {"idle", "IsDMMember", "GetChannelByID", "IsTargetMember", "DMMembers", "Profiles", "CreateRow",
       "AddMember", "RemoveMember", "DeleteRow", "CreateRoom", "RemoveParticipant",
       "ListParticipants", "Publish"}

Event == {"none", "INCOMING", "ACCEPTED", "REJECTED", "PARTICIPANT_LEFT", "ENDED", "CREATE", "UPDATE",
          "DELETE"}

Task == [op : CallOps \cup GroupOps \cup {"none"}, pc : TaskPC, user : Person \cup {Nobody},
        target : Person \cup {Nobody}, add : SUBSET Person, members : SUBSET Person, to : SUBSET Person,
        profiles : SUBSET Person, event : Event, stayed : SUBSET Person]

\* Which RPCs get where.
Reach ==
    [idle |-> {"none"},
     IsDMMember |-> CallOps \cup {"AddDMGroupMember", "RemoveDMGroupMember"},
     GetChannelByID |-> {"AddDMGroupMember", "RemoveDMGroupMember", "DeleteChannel"},
     IsTargetMember |-> {"AddDMGroupMember", "RemoveDMGroupMember"},
     DMMembers |-> CallOps \cup {"AddDMGroupMember", "RemoveDMGroupMember", "DeleteChannel"},
     Profiles |-> {"AddDMGroupMember", "RemoveDMGroupMember", "CreateDMChannel"},
     CreateRow |-> {"CreateDMChannel"},
     AddMember |-> {"AddDMGroupMember", "CreateDMChannel"},
     RemoveMember |-> {"RemoveDMGroupMember"},
     DeleteRow |-> {"DeleteChannel"},
     CreateRoom |-> {"StartDMCall", "JoinDMCall"},
     RemoveParticipant |-> {"LeaveDMCall"},
     ListParticipants |-> {"LeaveDMCall"},
     Publish |-> CallOps \cup GroupOps]

\* What an RPC tells the members.
EventOf(op) ==
    CASE op = "StartDMCall" -> {"INCOMING"}
      [] op = "JoinDMCall" -> {"ACCEPTED"}
      [] op = "RejectDMCall" -> {"REJECTED"}
      [] op = "LeaveDMCall" -> {"PARTICIPANT_LEFT", "ENDED"}
      [] op = "CreateDMChannel" -> {"CREATE"}
      [] op = "DeleteChannel" -> {"DELETE"}
      [] OTHER -> {"UPDATE"}

FitsTask(j) ==
    /\ j.op \in Reach[j.pc]
    /\ j.pc # "idle" => j.user \in Person
    /\ j.op \in {"AddDMGroupMember", "RemoveDMGroupMember"} \/ j.pc = "AddMember" => j.target \in Person
    /\ j.pc \in {"Publish", "Profiles", "RemoveMember"} => j.event \in EventOf(j.op)

GroupTypeInv ==
    /\ chan \in {"none", "live", "deleted"}
    /\ member \subseteq Person
    /\ inRoom \subseteq Person
    /\ inCall \subseteq Person
    /\ task \in [Server -> Task]
    /\ \A w \in Server : FitsTask(task[w])
    /\ shown \in [Person -> SUBSET Person]
    /\ ringing \subseteq Person
    /\ groupFaults \in Nat

-----------------------------------------------------------------------------
(* What a step makes of a server's job.                                      *)

LEMMA FreeTask ==
  /\ Free \in Task /\ FitsTask(Free)
  /\ Free.op = "none" /\ Free.pc = "idle" /\ Free.to = {} /\ Free.members = {} /\ Free.event = "none"
  /\ Free.stayed = {} /\ Free.target = Nobody
<1>1. Free \in Task
  BY DEF Free, Task, TaskPC, Event
<1>2. /\ Free.op = "none" /\ Free.pc = "idle" /\ Free.to = {} /\ Free.members = {} /\ Free.event = "none"
      /\ Free.stayed = {} /\ Free.target = Nobody
  BY DEF Free
<1> QED BY <1>1, <1>2 DEF FitsTask, Reach

\* The same job, but for who has stayed.
Alike(i, j) ==
    /\ i.op = j.op /\ i.pc = j.pc /\ i.user = j.user /\ i.target = j.target /\ i.add = j.add
    /\ i.members = j.members /\ i.to = j.to /\ i.profiles = j.profiles /\ i.event = j.event

\* Server w turns to job j, and the others go on with theirs.
TaskBecomes(w, j) ==
    /\ task' \in [Server -> Task]
    /\ task'[w] = j
    /\ \A v \in Server \ {w} : Alike(task[v], task'[v]) /\ task'[v].stayed \subseteq task[v].stayed

LEMMA Replaced ==
  ASSUME GroupTypeInv, NEW w \in Server, NEW j \in Task, task' = [task EXCEPT ![w] = j]
  PROVE  TaskBecomes(w, j)
<1>1. task \in [Server -> Task]
  BY DEF GroupTypeInv
<1>2. task' \in [Server -> Task] /\ task'[w] = j /\ \A v \in Server \ {w} : task'[v] = task[v]
  BY <1>1
<1> QED BY <1>2 DEF TaskBecomes, Alike

LEMMA AdvanceTask ==
  ASSUME GroupTypeInv, NEW w \in Server, NEW pc \in TaskPC, Advance(w, pc)
  PROVE  \E j \in Task :
            /\ TaskBecomes(w, j)
            /\ j.op = task[w].op /\ j.pc = pc /\ j.user = task[w].user /\ j.target = task[w].target
            /\ j.add = task[w].add /\ j.members = task[w].members /\ j.to = task[w].to
            /\ j.profiles = task[w].profiles /\ j.event = task[w].event /\ j.stayed = task[w].stayed
<1>1. PICK t \in Task : t = task[w]
  BY DEF GroupTypeInv
<1>2. PICK j \in Task : j = [t EXCEPT !.pc = pc]
  BY DEF Task
<1>3. /\ j.op = t.op /\ j.pc = pc /\ j.user = t.user /\ j.target = t.target /\ j.add = t.add
      /\ j.members = t.members /\ j.to = t.to /\ j.profiles = t.profiles /\ j.event = t.event
      /\ j.stayed = t.stayed
  BY <1>2 DEF Task
<1>4. task' = [task EXCEPT ![w] = j]
  BY <1>1, <1>2 DEF Advance
<1> QED BY <1>1, <1>3, <1>4, Replaced

LEMMA AnswerTask ==
  ASSUME GroupTypeInv, NEW w \in Server, Answer(w)
  PROVE  TaskBecomes(w, Free)
  BY FreeTask, Replaced DEF Answer

LEMMA CallJob ==
  ASSUME GroupTypeInv, NEW w \in Server, NEW op \in CallOps \cup GroupOps, NEW u \in Person,
         NEW t \in Person \cup {Nobody}, NEW rs \in SUBSET Person, Request(w, op, u, t, rs)
  PROVE  \E j \in Task :
            /\ TaskBecomes(w, j)
            /\ j.op = op /\ j.pc = FirstCall(op) /\ j.user = u /\ j.target = t /\ j.add = rs
            /\ j.event = "none" /\ j.stayed \subseteq inRoom
<1>1. PICK c \in Task : c = Free
  BY FreeTask
<1>2. PICK pc \in TaskPC : pc = FirstCall(op)
  BY DEF TaskPC, FirstCall, CallOps, GroupOps
<1>3. PICK s \in SUBSET inRoom : s = IF op = "LeaveDMCall" THEN inRoom \ {u} ELSE {}
  OBVIOUS
<1>8. s \in SUBSET Person
  BY DEF GroupTypeInv
<1>4. [c EXCEPT !.op = op, !.pc = pc, !.user = u, !.target = t, !.add = rs, !.stayed = s] \in Task
  BY <1>8 DEF Task
<1>5. PICK j \in Task : j = [c EXCEPT !.op = op, !.pc = pc, !.user = u, !.target = t, !.add = rs,
                                     !.stayed = s]
  BY <1>4
<1>6. /\ j.op = op /\ j.pc = pc /\ j.user = u /\ j.target = t /\ j.add = rs /\ j.event = c.event
      /\ j.stayed = s
  BY <1>5 DEF Task
<1>7. task' = [task EXCEPT ![w] = j]
  BY <1>1, <1>2, <1>3, <1>5 DEF Request
<1> QED BY <1>1, <1>2, <1>3, <1>6, <1>7, FreeTask, Replaced

LEMMA WithMembersJob ==
  ASSUME GroupTypeInv, NEW w \in Server, NEW list \in SUBSET Person, WithMembers(w, list),
         task[w].pc = "DMMembers"
  PROVE  \E j \in Task :
            /\ TaskBecomes(w, j)
            /\ j.op = task[w].op /\ j.user = task[w].user /\ j.target = task[w].target /\ j.add = task[w].add
            /\ j.to = list /\ j.stayed = task[w].stayed
            /\ j.op = "LeaveDMCall" => j.members = list
            /\ j.event # "ENDED"
            /\ j.pc = AfterDMMembers(j.op) /\ FitsTask(j)
<1>1. PICK t \in Task : t = task[w]
  BY DEF GroupTypeInv
<1>2. t.op \in CallOps \cup {"AddDMGroupMember", "RemoveDMGroupMember", "DeleteChannel"}
        /\ t.user \in Person /\ FitsTask(t)
  BY <1>1 DEF GroupTypeInv, FitsTask, Reach
<1>3. PICK pc \in {"Publish", "Profiles", "RemoveMember", "DeleteRow"} : pc = AfterDMMembers(t.op)
  BY <1>2 DEF AfterDMMembers, CallOps
<1>4. PICK m \in SUBSET Person : m = IF t.op = "LeaveDMCall" THEN list ELSE {}
  OBVIOUS
<1>5. PICK e \in Event : e = IF t.op \in CallOps THEN CallEvent[t.op] ELSE "UPDATE"
  BY DEF CallOps, CallEvent, Event
<1>6. [t EXCEPT !.members = m, !.to = list, !.event = e, !.pc = pc] \in Task
  BY DEF Task, TaskPC
<1>7. PICK j \in Task : j = [t EXCEPT !.members = m, !.to = list, !.event = e, !.pc = pc]
  BY <1>6
<1>8. /\ j.op = t.op /\ j.user = t.user /\ j.target = t.target /\ j.add = t.add /\ j.to = list
      /\ j.members = m /\ j.event = e /\ j.pc = pc /\ j.stayed = t.stayed
  BY <1>7 DEF Task
<1>9. task' = [task EXCEPT ![w] = j]
  BY <1>1, <1>3, <1>4, <1>5, <1>7 DEF WithMembers
<1>10. TaskBecomes(w, j)
  BY <1>9, Replaced
<1>11. e \in EventOf(t.op) \ {"ENDED"} \/ (t.op = "DeleteChannel" /\ e = "UPDATE")
  BY <1>2, <1>5 DEF EventOf, CallOps, CallEvent
<1>12. t.op \in Reach[pc]
  BY <1>2, <1>3 DEF Reach, AfterDMMembers, CallOps, GroupOps
<1>13. pc \in {"Publish", "Profiles", "RemoveMember"} => t.op # "DeleteChannel"
  BY <1>3 DEF AfterDMMembers, CallOps
<1>14. FitsTask(j)
  BY <1>2, <1>3, <1>8, <1>11, <1>12, <1>13 DEF FitsTask
<1> QED BY <1>1, <1>2, <1>3, <1>4, <1>8, <1>10, <1>11, <1>14

\* The other jobs lose u among those who stayed.
LEMMA PartedJobs ==
  ASSUME GroupTypeInv, NEW u
  PROVE  /\ Parted(u) \in [Server -> Task]
         /\ \A w \in Server : Alike(task[w], Parted(u)[w]) /\ Parted(u)[w].stayed = task[w].stayed \ {u}
<1>1. ASSUME NEW w \in Server
      PROVE  /\ [task[w] EXCEPT !.stayed = @ \ {u}] \in Task
             /\ Alike(task[w], [task[w] EXCEPT !.stayed = @ \ {u}])
             /\ [task[w] EXCEPT !.stayed = @ \ {u}].stayed = task[w].stayed \ {u}
  <2>1. PICK t \in Task : t = task[w]
    BY DEF GroupTypeInv
  <2>2. PICK s \in SUBSET Person : s = t.stayed \ {u}
    BY DEF Task
  <2>3. PICK j \in Task : j = [t EXCEPT !.stayed = s]
    BY DEF Task
  <2>4. Alike(t, j) /\ j.stayed = s
    BY <2>3 DEF Task, Alike
  <2>5. [task[w] EXCEPT !.stayed = @ \ {u}] = j
    BY <2>1, <2>2, <2>3
  <2> QED BY <2>1, <2>2, <2>4, <2>5
<1>2. Parted(u) = [w \in Server |-> [task[w] EXCEPT !.stayed = @ \ {u}]]
  BY DEF Parted
<1>3. Parted(u) \in [Server -> Task]
  BY <1>1, <1>2
<1>4. \A w \in Server : Parted(u)[w] = [task[w] EXCEPT !.stayed = @ \ {u}]
  BY <1>2
<1> QED BY <1>1, <1>3, <1>4

LEMMA RemoveParticipantJob ==
  ASSUME GroupTypeInv, NEW w \in Server, RemoveParticipant(w)
  PROVE  \E j \in Task :
            /\ TaskBecomes(w, j)
            /\ j.pc = "DMMembers" /\ j.op = task[w].op /\ j.user = task[w].user /\ j.target = task[w].target
            /\ j.event = task[w].event
            /\ \A v \in Server : task'[v].stayed = task[v].stayed \ {task[w].user}
<1>1. PICK p \in [Server -> Task] : p = Parted(task[w].user)
  BY PartedJobs
<1>2. \A v \in Server : Alike(task[v], p[v]) /\ p[v].stayed = task[v].stayed \ {task[w].user}
  BY <1>1, PartedJobs
<1>3. PICK t \in Task : t = p[w]
  OBVIOUS
<1>4. PICK j \in Task : j = [t EXCEPT !.pc = "DMMembers"]
  BY DEF Task, TaskPC
<1>5. /\ j.pc = "DMMembers" /\ j.op = t.op /\ j.user = t.user /\ j.target = t.target
      /\ j.event = t.event /\ j.stayed = t.stayed
  BY <1>4 DEF Task
<1>6. task' = [p EXCEPT ![w] = j]
  BY <1>1, <1>3, <1>4 DEF RemoveParticipant
<1>7. task' \in [Server -> Task] /\ task'[w] = j /\ \A v \in Server \ {w} : task'[v] = p[v]
  BY <1>6
<1>8. TaskBecomes(w, j)
  BY <1>2, <1>7 DEF TaskBecomes
<1>9. t.op = task[w].op /\ t.user = task[w].user /\ t.target = task[w].target /\ t.event = task[w].event
  BY <1>2, <1>3 DEF Alike
<1>10. \A v \in Server : task'[v].stayed = task[v].stayed \ {task[w].user}
  BY <1>2, <1>3, <1>5, <1>7
<1> QED BY <1>5, <1>8, <1>9, <1>10

LEMMA ProfilesJob ==
  ASSUME GroupTypeInv, NEW w \in Server, Profiles(w)
  PROVE  \E j \in Task :
            /\ TaskBecomes(w, j)
            /\ j.pc = "Publish" /\ j.profiles = member /\ j.op = task[w].op /\ j.user = task[w].user
            /\ j.target = task[w].target /\ j.to = task[w].to /\ j.event = task[w].event
            /\ j.stayed = task[w].stayed
<1>1. PICK t \in Task : t = task[w]
  BY DEF GroupTypeInv
<1>2. PICK ps \in SUBSET Person : ps = member
  BY DEF GroupTypeInv
<1>3. [t EXCEPT !.profiles = ps, !.pc = "Publish"] \in Task
  BY DEF Task, TaskPC, Event
<1>4. PICK j \in Task : j = [t EXCEPT !.profiles = ps, !.pc = "Publish"]
  BY <1>3
<1>5. /\ j.op = t.op /\ j.pc = "Publish" /\ j.user = t.user /\ j.target = t.target /\ j.add = t.add
      /\ j.members = t.members /\ j.to = t.to /\ j.profiles = ps /\ j.event = t.event /\ j.stayed = t.stayed
  BY <1>4 DEF Task
<1>6. task' = [task EXCEPT ![w] = j]
  BY <1>1, <1>2, <1>4 DEF Profiles
<1> QED BY <1>1, <1>2, <1>5, <1>6, Replaced

LEMMA CreateRowJob ==
  ASSUME GroupTypeInv, NEW w \in Server, CreateRow(w)
  PROVE  \E j \in Task :
            /\ TaskBecomes(w, j)
            /\ j.pc = "AddMember" /\ j.target = task[w].user /\ j.to = {task[w].user} \cup task[w].add
            /\ j.op = task[w].op /\ j.user = task[w].user /\ j.add = task[w].add
            /\ j.event = task[w].event /\ j.stayed = task[w].stayed
<1>1. PICK t \in Task : t = task[w]
  BY DEF GroupTypeInv
<1>2. PICK tg \in Person \cup {Nobody} : tg = t.user
  BY DEF Task
<1>3. PICK to \in SUBSET Person : to = {t.user} \cup t.add
  BY <1>1 DEF GroupTypeInv, FitsTask, CreateRow, Task
<1>4. [t EXCEPT !.target = tg, !.pc = "AddMember", !.to = to] \in Task
  BY DEF Task, TaskPC, Event
<1>5. PICK j \in Task : j = [t EXCEPT !.target = tg, !.pc = "AddMember", !.to = to]
  BY <1>4
<1>6. /\ j.op = t.op /\ j.pc = "AddMember" /\ j.user = t.user /\ j.target = tg /\ j.add = t.add
      /\ j.members = t.members /\ j.to = to /\ j.profiles = t.profiles /\ j.event = t.event /\ j.stayed = t.stayed
  BY <1>5 DEF Task
<1>7. task' = [task EXCEPT ![w] = j]
  BY <1>1, <1>2, <1>3, <1>5 DEF CreateRow
<1> QED BY <1>1, <1>2, <1>3, <1>6, <1>7, Replaced

LEMMA AddNextJob ==
  ASSUME GroupTypeInv, NEW w \in Server, NEW u \in task[w].add,
         task' = [task EXCEPT ![w].target = u, ![w].add = @ \ {u}]
  PROVE  \E j \in Task :
            /\ TaskBecomes(w, j)
            /\ j.pc = task[w].pc /\ j.target = u /\ u \in Person /\ j.add = task[w].add \ {u} /\ j.to = task[w].to
            /\ j.op = task[w].op /\ j.user = task[w].user /\ j.event = task[w].event
            /\ j.stayed = task[w].stayed
<1>1. PICK t \in Task : t = task[w]
  BY DEF GroupTypeInv
<1>2. PICK tg \in Person : tg = u
  BY <1>1 DEF Task
<1>3. PICK rest \in SUBSET Person : rest = t.add \ {u}
  BY DEF Task
<1>4. [t EXCEPT !.target = tg, !.add = rest] \in Task
  BY DEF Task, TaskPC, Event
<1>5. PICK j \in Task : j = [t EXCEPT !.target = tg, !.add = rest]
  BY <1>4
<1>6. /\ j.op = t.op /\ j.pc = t.pc /\ j.user = t.user /\ j.target = tg /\ j.add = rest
      /\ j.members = t.members /\ j.to = t.to /\ j.profiles = t.profiles /\ j.event = t.event /\ j.stayed = t.stayed
  BY <1>5 DEF Task
<1>7. task' = [task EXCEPT ![w] = j]
  BY <1>1, <1>2, <1>3, <1>5
<1> QED BY <1>1, <1>2, <1>3, <1>6, <1>7, Replaced

LEMMA AllAddedJob ==
  ASSUME GroupTypeInv, NEW w \in Server, task' = [task EXCEPT ![w].event = "CREATE", ![w].pc = "Profiles"]
  PROVE  \E j \in Task :
            /\ TaskBecomes(w, j)
            /\ j.pc = "Profiles" /\ j.event = "CREATE" /\ j.op = task[w].op /\ j.user = task[w].user
            /\ j.target = task[w].target /\ j.to = task[w].to /\ j.add = task[w].add
            /\ j.stayed = task[w].stayed
<1>1. PICK t \in Task : t = task[w]
  BY DEF GroupTypeInv
<1>2. [t EXCEPT !.event = "CREATE", !.pc = "Profiles"] \in Task
  BY DEF Task, TaskPC, Event
<1>3. PICK j \in Task : j = [t EXCEPT !.event = "CREATE", !.pc = "Profiles"]
  BY <1>2
<1>4. /\ j.op = t.op /\ j.pc = "Profiles" /\ j.user = t.user /\ j.target = t.target /\ j.add = t.add
      /\ j.members = t.members /\ j.to = t.to /\ j.profiles = t.profiles /\ j.event = "CREATE" /\ j.stayed = t.stayed
  BY <1>3 DEF Task
<1>5. task' = [task EXCEPT ![w] = j]
  BY <1>1, <1>3
<1> QED BY <1>1, <1>4, <1>5, Replaced

LEMMA DeleteRowJob ==
  ASSUME GroupTypeInv, NEW w \in Server, DeleteRow(w)
  PROVE  \E j \in Task :
            /\ TaskBecomes(w, j)
            /\ j.pc = "Publish" /\ j.event = "DELETE" /\ j.op = task[w].op /\ j.user = task[w].user
            /\ j.target = task[w].target /\ j.to = task[w].to /\ j.stayed = task[w].stayed
<1>1. PICK t \in Task : t = task[w]
  BY DEF GroupTypeInv
<1>2. [t EXCEPT !.event = "DELETE", !.pc = "Publish"] \in Task
  BY DEF Task, TaskPC, Event
<1>3. PICK j \in Task : j = [t EXCEPT !.event = "DELETE", !.pc = "Publish"]
  BY <1>2
<1>4. /\ j.op = t.op /\ j.pc = "Publish" /\ j.user = t.user /\ j.target = t.target /\ j.add = t.add
      /\ j.members = t.members /\ j.to = t.to /\ j.profiles = t.profiles /\ j.event = "DELETE" /\ j.stayed = t.stayed
  BY <1>3 DEF Task
<1>5. task' = [task EXCEPT ![w] = j]
  BY <1>1, <1>3 DEF DeleteRow
<1> QED BY <1>1, <1>4, <1>5, Replaced

LEMMA EndedJob ==
  ASSUME GroupTypeInv, NEW w \in Server, task' = [task EXCEPT ![w].event = "ENDED", ![w].to = task[w].members, ![w].pc = "Publish"]
  PROVE  \E j \in Task :
            /\ TaskBecomes(w, j)
            /\ j.pc = "Publish" /\ j.event = "ENDED" /\ j.to = task[w].members /\ j.op = task[w].op
            /\ j.user = task[w].user /\ j.target = task[w].target /\ j.stayed = task[w].stayed
<1>1. PICK t \in Task : t = task[w]
  BY DEF GroupTypeInv
<1>2. PICK to \in SUBSET Person : to = t.members
  BY DEF Task
<1>3. [t EXCEPT !.event = "ENDED", !.to = to, !.pc = "Publish"] \in Task
  BY DEF Task, TaskPC, Event
<1>4. PICK j \in Task : j = [t EXCEPT !.event = "ENDED", !.to = to, !.pc = "Publish"]
  BY <1>3
<1>5. /\ j.op = t.op /\ j.pc = "Publish" /\ j.user = t.user /\ j.target = t.target /\ j.add = t.add
      /\ j.members = t.members /\ j.to = to /\ j.profiles = t.profiles /\ j.event = "ENDED" /\ j.stayed = t.stayed
  BY <1>4 DEF Task
<1>6. task' = [task EXCEPT ![w] = j]
  BY <1>1, <1>2, <1>4
<1> QED BY <1>1, <1>2, <1>5, <1>6, Replaced

\* The job i goes on as j once u has been told.
OneLess(i, u, j) ==
    /\ j.to = i.to \ {u} /\ j.pc = i.pc /\ j.op = i.op /\ j.user = i.user /\ j.target = i.target
    /\ j.members = i.members /\ j.profiles = i.profiles /\ j.event = i.event /\ j.stayed = i.stayed

LEMMA ToldJob ==
  ASSUME GroupTypeInv, NEW w \in Server, NEW u, task' = [task EXCEPT ![w].to = @ \ {u}]
  PROVE  \E j \in Task : TaskBecomes(w, j) /\ OneLess(task[w], u, j)
<1>1. PICK t \in Task : t = task[w]
  BY DEF GroupTypeInv
<1>2. PICK to \in SUBSET Person : to = t.to \ {u}
  BY DEF Task
<1>3. [t EXCEPT !.to = to] \in Task
  BY DEF Task, TaskPC, Event
<1>4. PICK j \in Task : j = [t EXCEPT !.to = to]
  BY <1>3
<1>5. /\ j.op = t.op /\ j.pc = t.pc /\ j.user = t.user /\ j.target = t.target /\ j.add = t.add
      /\ j.members = t.members /\ j.to = to /\ j.profiles = t.profiles /\ j.event = t.event /\ j.stayed = t.stayed
  BY <1>4 DEF Task
<1>6. task' = [task EXCEPT ![w] = j]
  BY <1>1, <1>2, <1>4
<1> QED BY <1>1, <1>2, <1>5, <1>6, Replaced DEF OneLess

ServerStep(w) == Arrive(w) \/ GroupStep(w) \/ RequestFails(w)

\* Whoever has stayed is connected.
StayInv ==
    \A w \in Server :
        /\ task[w].stayed \subseteq inRoom
        /\ task[w].event = "ENDED" => task[w].stayed = {}

\* What the job of a server may become.
TaskMove(w, j) ==
    /\ TaskBecomes(w, j) /\ FitsTask(j)
    /\ task[w].pc = "idle" => j.pc # "idle"
    /\ task[w].pc # "idle" => j.pc = "idle" \/ (j.op = task[w].op /\ j.user = task[w].user)
    /\ StayInv => StayInv'

\* Nobody leaves the room, and who hangs up is not said to have stayed.
LEMMA StaySame ==
  ASSUME NEW w \in Server, NEW j \in Task, TaskBecomes(w, j), inRoom' = inRoom, StayInv,
         j.stayed \subseteq inRoom, j.event = "ENDED" => j.stayed = {}
  PROVE  StayInv'
<1>1. ASSUME NEW v \in Server
      PROVE  task'[v].stayed \subseteq inRoom' /\ (task'[v].event = "ENDED" => task'[v].stayed = {})
  <2>1. CASE v = w
    BY <2>1 DEF TaskBecomes
  <2>2. CASE v # w
    <3>1. task'[v].event = task[v].event /\ task'[v].stayed \subseteq task[v].stayed
      BY <2>2 DEF TaskBecomes, Alike
    <3> QED BY <3>1 DEF StayInv
  <2> QED BY <2>1, <2>2
<1> QED BY <1>1 DEF StayInv

LEMMA AdvanceMove ==
  ASSUME GroupTypeInv, NEW w \in Server, NEW pc \in TaskPC, Advance(w, pc), task[w].pc # "idle",
         task[w].op \in Reach[pc], pc \notin {"idle", "Publish", "Profiles", "RemoveMember"},
         pc = "AddMember" => task[w].op = "AddDMGroupMember", inRoom' = inRoom
  PROVE  \E j \in Task : TaskMove(w, j)
<1>1. PICK j \in Task :
            /\ TaskBecomes(w, j)
            /\ j.op = task[w].op /\ j.pc = pc /\ j.user = task[w].user /\ j.target = task[w].target
            /\ j.add = task[w].add /\ j.members = task[w].members /\ j.to = task[w].to
            /\ j.profiles = task[w].profiles /\ j.event = task[w].event /\ j.stayed = task[w].stayed
  BY AdvanceTask
<1>2. FitsTask(j)
  BY <1>1 DEF FitsTask, GroupTypeInv
<1>3. StayInv => StayInv'
  <2> SUFFICES ASSUME StayInv PROVE StayInv'
    OBVIOUS
  <2>1. j.stayed \subseteq inRoom /\ (j.event = "ENDED" => j.stayed = {})
    BY <1>1 DEF StayInv
  <2> QED BY <1>1, <2>1, StaySame
<1> QED BY <1>1, <1>2, <1>3 DEF TaskMove

LEMMA AnswerMove ==
  ASSUME GroupTypeInv, NEW w \in Server, Answer(w), task[w].pc # "idle", inRoom' = inRoom
  PROVE  \E j \in Task : TaskMove(w, j)
<1>1. TaskBecomes(w, Free) /\ Free \in Task
  BY AnswerTask, FreeTask
<1>2. Free.stayed \subseteq inRoom /\ (Free.event = "ENDED" => Free.stayed = {})
  BY FreeTask
<1>3. StayInv => StayInv'
  BY <1>1, <1>2, StaySame
<1>4. TaskMove(w, Free)
  BY <1>1, <1>3, FreeTask DEF TaskMove
<1> QED BY <1>1, <1>4

\* A job that goes on with the same op and user, and ends the call only if nobody stayed.
LEMMA OnwardMove ==
  ASSUME GroupTypeInv, NEW w \in Server, NEW j \in Task, TaskBecomes(w, j), FitsTask(j),
         task[w].pc # "idle", inRoom' = inRoom,
         j.op = task[w].op, j.user = task[w].user, j.stayed = task[w].stayed,
         j.event = "ENDED" => task[w].event = "ENDED" \/ inRoom = {}
  PROVE  TaskMove(w, j)
<1>1. StayInv => StayInv'
  <2> SUFFICES ASSUME StayInv PROVE StayInv'
    OBVIOUS
  <2>1. j.stayed \subseteq inRoom /\ (j.event = "ENDED" => j.stayed = {})
    BY DEF StayInv
  <2> QED BY <2>1, StaySame
<1> QED BY <1>1 DEF TaskMove

LEMMA ArriveMove ==
  ASSUME GroupTypeInv, NEW w \in Server, Arrive(w)
  PROVE  \E j \in Task : TaskMove(w, j)
<1>1. PICK op \in CallOps \cup GroupOps, u \in Person, t \in Person \cup {Nobody}, rs \in SUBSET Person :
          /\ Request(w, op, u, t, rs)
          /\ op \in {"AddDMGroupMember", "RemoveDMGroupMember"} => t \in Person
  BY DEF Arrive, GroupOps, CallOps
<1>2. PICK j \in Task :
            /\ TaskBecomes(w, j)
            /\ j.op = op /\ j.pc = FirstCall(op) /\ j.user = u /\ j.target = t /\ j.add = rs
            /\ j.event = "none" /\ j.stayed \subseteq inRoom
  BY <1>1, CallJob
<1>3. /\ j.pc \in {"IsDMMember", "CreateRow", "GetChannelByID"} /\ j.op \in Reach[j.pc]
  BY <1>2 DEF FirstCall, CallOps, GroupOps, Reach
<1>4. FitsTask(j)
  BY <1>1, <1>2, <1>3 DEF FitsTask
<1>5. inRoom' = inRoom /\ task[w].pc = "idle"
  BY <1>1 DEF Request, callMedia
<1>6. StayInv => StayInv'
  BY <1>2, <1>5, StaySame
<1>7. TaskMove(w, j)
  BY <1>2, <1>3, <1>4, <1>5, <1>6 DEF TaskMove
<1> QED BY <1>7

LEMMA GroupStepMove ==
  ASSUME GroupTypeInv, NEW w \in Server, GroupStep(w)
  PROVE  \E j \in Task : TaskMove(w, j)
<1>0. task[w] \in Task /\ FitsTask(task[w])
  BY DEF GroupTypeInv
<1>1. CASE GetChannelByID(w)
  <2>1. task[w].pc = "GetChannelByID" /\ inRoom' = inRoom
    BY <1>1 DEF GetChannelByID, callMedia
  <2>2. task[w].op \in {"AddDMGroupMember", "RemoveDMGroupMember", "DeleteChannel"}
    BY <1>0, <2>1 DEF FitsTask, Reach
  <2>3. \/ Answer(w)
        \/ task[w].op = "DeleteChannel" /\ Advance(w, "DMMembers")
        \/ task[w].op # "DeleteChannel" /\ Advance(w, "IsDMMember")
    BY <1>1 DEF GetChannelByID, AdvanceIf
  <2> QED BY <2>1, <2>2, <2>3, AdvanceMove, AnswerMove DEF Reach, TaskPC
<1>2. CASE IsDMMember(w)
  <2>1. task[w].pc = "IsDMMember" /\ inRoom' = inRoom
    BY <1>2 DEF IsDMMember, callMedia
  <2>2. task[w].op \in CallOps \cup {"AddDMGroupMember", "RemoveDMGroupMember"}
    BY <1>0, <2>1 DEF FitsTask, Reach
  <2>3. PICK pc : pc = AfterIsDMMember[task[w].op]
    OBVIOUS
  <2>4. pc \in {"CreateRoom", "DMMembers", "RemoveParticipant", "IsTargetMember"} /\ task[w].op \in Reach[pc]
    BY <2>2, <2>3 DEF AfterIsDMMember, CallOps, Reach
  <2>5. Answer(w) \/ Advance(w, pc)
    BY <1>2, <2>3 DEF IsDMMember, AdvanceIf
  <2> QED BY <2>1, <2>4, <2>5, AdvanceMove, AnswerMove DEF TaskPC
<1>3. CASE IsTargetMember(w)
  <2>1. task[w].pc = "IsTargetMember" /\ inRoom' = inRoom
    BY <1>3 DEF IsTargetMember, callMedia
  <2>2. task[w].op \in {"AddDMGroupMember", "RemoveDMGroupMember"}
    BY <1>0, <2>1 DEF FitsTask, Reach
  <2>3. \/ Answer(w)
        \/ task[w].op = "AddDMGroupMember" /\ Advance(w, "AddMember")
        \/ task[w].op # "AddDMGroupMember" /\ Advance(w, "DMMembers")
    BY <1>3 DEF IsTargetMember, AdvanceIf
  <2> QED BY <2>1, <2>2, <2>3, AdvanceMove, AnswerMove DEF Reach, TaskPC
<1>4. CASE DMMembers(w)
  <2>1. task[w].pc = "DMMembers" /\ inRoom' = inRoom /\ WithMembers(w, member)
    BY <1>4 DEF DMMembers, callMedia
  <2>2. member \in SUBSET Person
    BY DEF GroupTypeInv
  <2>3. PICK j \in Task :
            /\ TaskBecomes(w, j) /\ FitsTask(j) /\ j.op = task[w].op /\ j.user = task[w].user
            /\ j.stayed = task[w].stayed /\ j.event # "ENDED"
    BY <2>1, <2>2, WithMembersJob
  <2>4. TaskMove(w, j)
    BY <2>1, <2>3, OnwardMove
  <2> QED BY <2>4
<1>5. CASE Profiles(w)
  <2>1. task[w].pc = "Profiles" /\ inRoom' = inRoom
    BY <1>5 DEF Profiles, callMedia
  <2>2. PICK j \in Task :
            /\ TaskBecomes(w, j) /\ j.pc = "Publish" /\ j.op = task[w].op /\ j.user = task[w].user
            /\ j.target = task[w].target /\ j.event = task[w].event /\ j.stayed = task[w].stayed
    BY <1>5, ProfilesJob
  <2>3. FitsTask(j)
    BY <1>0, <2>1, <2>2 DEF FitsTask, Reach, GroupOps
  <2>4. TaskMove(w, j)
    BY <2>1, <2>2, <2>3, OnwardMove
  <2> QED BY <2>4
<1>6. CASE CreateRow(w)
  <2>1. task[w].pc = "CreateRow" /\ inRoom' = inRoom
    BY <1>6 DEF CreateRow, callMedia
  <2>2. PICK j \in Task :
            /\ TaskBecomes(w, j) /\ j.pc = "AddMember" /\ j.target = task[w].user
            /\ j.op = task[w].op /\ j.user = task[w].user
            /\ j.event = task[w].event /\ j.stayed = task[w].stayed
    BY <1>6, CreateRowJob
  <2>3. FitsTask(j)
    BY <1>0, <2>1, <2>2 DEF FitsTask, Reach
  <2>4. TaskMove(w, j)
    BY <2>1, <2>2, <2>3, OnwardMove
  <2> QED BY <2>4
<1>7. CASE AddMember(w)
  <2>1. task[w].pc = "AddMember" /\ inRoom' = inRoom
    BY <1>7 DEF AddMember, callMedia
  <2>2. task[w].op \in {"AddDMGroupMember", "CreateDMChannel"}
    BY <1>0, <2>1 DEF FitsTask, Reach
  <2>3. CASE task[w].op = "AddDMGroupMember"
    BY <1>7, <2>1, <2>3, AdvanceMove DEF AddMember, Reach, TaskPC
  <2>4. CASE task[w].op # "AddDMGroupMember" /\ task[w].add = {}
    <3>1. PICK j \in Task :
              /\ TaskBecomes(w, j) /\ j.pc = "Profiles" /\ j.event = "CREATE" /\ j.op = task[w].op
              /\ j.user = task[w].user /\ j.target = task[w].target /\ j.stayed = task[w].stayed
      BY <1>7, <2>4, AllAddedJob DEF AddMember
    <3>2. FitsTask(j)
      BY <1>0, <2>1, <2>2, <2>4, <3>1 DEF FitsTask, Reach, EventOf
    <3>3. TaskMove(w, j)
      BY <2>1, <3>1, <3>2, OnwardMove
    <3> QED BY <3>3
  <2>5. CASE task[w].op # "AddDMGroupMember" /\ task[w].add # {}
    <3>1. PICK u \in task[w].add : task' = [task EXCEPT ![w].target = u, ![w].add = @ \ {u}]
      BY <1>7, <2>5 DEF AddMember
    <3>2. PICK j \in Task :
              /\ TaskBecomes(w, j)
              /\ j.pc = task[w].pc /\ j.target = u /\ u \in Person /\ j.add = task[w].add \ {u} /\ j.to = task[w].to
              /\ j.op = task[w].op /\ j.user = task[w].user /\ j.event = task[w].event
              /\ j.stayed = task[w].stayed
      BY <3>1, AddNextJob, Zenon
    <3>3. FitsTask(j)
      BY <1>0, <2>1, <3>2 DEF FitsTask
    <3>4. TaskMove(w, j)
      BY <2>1, <3>2, <3>3, OnwardMove
    <3> QED BY <3>4
  <2> QED BY <2>3, <2>4, <2>5
<1>8. CASE RemoveMember(w)
  <2>1. task[w].pc = "RemoveMember" /\ inRoom' = inRoom /\ Advance(w, "Profiles")
    BY <1>8 DEF RemoveMember, callMedia
  <2>2. PICK j \in Task :
            /\ TaskBecomes(w, j) /\ j.pc = "Profiles" /\ j.op = task[w].op /\ j.user = task[w].user
            /\ j.target = task[w].target /\ j.event = task[w].event /\ j.stayed = task[w].stayed
    BY <2>1, AdvanceTask DEF TaskPC
  <2>3. FitsTask(j)
    BY <1>0, <2>1, <2>2 DEF FitsTask, Reach
  <2>4. TaskMove(w, j)
    BY <2>1, <2>2, <2>3, OnwardMove
  <2> QED BY <2>4
<1>9. CASE DeleteRow(w)
  <2>1. task[w].pc = "DeleteRow" /\ inRoom' = inRoom
    BY <1>9 DEF DeleteRow, callMedia
  <2>2. PICK j \in Task :
            /\ TaskBecomes(w, j) /\ j.pc = "Publish" /\ j.event = "DELETE" /\ j.op = task[w].op
            /\ j.user = task[w].user /\ j.target = task[w].target /\ j.stayed = task[w].stayed
    BY <1>9, DeleteRowJob
  <2>3. FitsTask(j)
    BY <1>0, <2>1, <2>2 DEF FitsTask, Reach, GroupOps, EventOf
  <2>4. TaskMove(w, j)
    BY <2>1, <2>2, <2>3, OnwardMove
  <2> QED BY <2>4
<1>10. CASE CreateCallRoom(w)
  <2>1. task[w].pc = "CreateRoom" /\ inRoom' = inRoom /\ Advance(w, "DMMembers")
    BY <1>10 DEF CreateCallRoom
  <2>2. task[w].op \in Reach["DMMembers"]
    BY <1>0, <2>1 DEF FitsTask, Reach, CallOps
  <2> QED BY <2>1, <2>2, AdvanceMove DEF TaskPC
<1>11. CASE RemoveParticipant(w)
  <2>1. task[w].pc = "RemoveParticipant" /\ inRoom' = inRoom \ {task[w].user}
    BY <1>11 DEF RemoveParticipant
  <2>2. PICK j \in Task :
            /\ TaskBecomes(w, j)
            /\ j.pc = "DMMembers" /\ j.op = task[w].op /\ j.user = task[w].user /\ j.target = task[w].target
            /\ j.event = task[w].event
            /\ \A v \in Server : task'[v].stayed = task[v].stayed \ {task[w].user}
    BY <1>11, RemoveParticipantJob
  <2>3. FitsTask(j)
    BY <1>0, <2>1, <2>2 DEF FitsTask, Reach, CallOps
  <2>4. \A v \in Server : task'[v].event = task[v].event
    BY <2>2 DEF TaskBecomes, Alike
  <2>5. StayInv => StayInv'
    BY <2>1, <2>2, <2>4 DEF StayInv
  <2>6. TaskMove(w, j)
    BY <2>1, <2>2, <2>3, <2>5 DEF TaskMove
  <2> QED BY <2>6
<1>12. CASE ListCallers(w)
  <2>1. task[w].pc = "ListParticipants" /\ inRoom' = inRoom
    BY <1>12 DEF ListCallers, callMedia
  <2>2. CASE Answer(w)
    BY <2>1, <2>2, AnswerMove
  <2>3. CASE inRoom = {} /\ task' = [task EXCEPT ![w].event = "ENDED", ![w].to = task[w].members,
                                                 ![w].pc = "Publish"]
    <3>1. PICK j \in Task :
              /\ TaskBecomes(w, j) /\ j.pc = "Publish" /\ j.event = "ENDED" /\ j.op = task[w].op
              /\ j.user = task[w].user /\ j.target = task[w].target /\ j.stayed = task[w].stayed
      BY <2>3, EndedJob
    <3>2. FitsTask(j)
      BY <1>0, <2>1, <3>1 DEF FitsTask, Reach, CallOps, EventOf
    <3>3. TaskMove(w, j)
      BY <2>1, <2>3, <3>1, <3>2, OnwardMove
    <3> QED BY <3>3
  <2> QED BY <1>12, <2>2, <2>3 DEF ListCallers
<1>13. CASE Publish(w)
  <2>1. task[w].pc = "Publish" /\ inRoom' = inRoom
    BY <1>13 DEF Publish, callMedia
  <2>2. PICK u \in task[w].to : task' = [task EXCEPT ![w].to = @ \ {u}]
    BY <1>13 DEF Publish
  <2>3. PICK j \in Task :
            /\ TaskBecomes(w, j) /\ j.pc = task[w].pc /\ j.op = task[w].op /\ j.user = task[w].user
            /\ j.target = task[w].target /\ j.event = task[w].event /\ j.stayed = task[w].stayed
    BY <2>2, ToldJob DEF OneLess
  <2>4. FitsTask(j)
    BY <1>0, <2>3 DEF FitsTask
  <2>5. TaskMove(w, j)
    BY <2>1, <2>3, <2>4, OnwardMove
  <2> QED BY <2>5
<1>14. CASE Published(w)
  <2>1. task[w].pc = "Publish" /\ inRoom' = inRoom
    BY <1>14 DEF Published, callMedia
  <2>2. Answer(w) \/ (task[w].event = "PARTICIPANT_LEFT" /\ Advance(w, "ListParticipants"))
    BY <1>14 DEF Published, AdvanceIf
  <2>3. task[w].event = "PARTICIPANT_LEFT" => task[w].op \in Reach["ListParticipants"]
    BY <1>0, <2>1 DEF FitsTask, EventOf, Reach
  <2> QED BY <2>1, <2>2, <2>3, AdvanceMove, AnswerMove DEF TaskPC
<1> QED BY <1>1, <1>2, <1>3, <1>4, <1>5, <1>6, <1>7, <1>8, <1>9, <1>10, <1>11, <1>12, <1>13, <1>14
        DEF GroupStep

LEMMA RequestFailsMove ==
  ASSUME GroupTypeInv, NEW w \in Server, RequestFails(w)
  PROVE  \E j \in Task : TaskMove(w, j)
<1>0. task[w] \in Task /\ FitsTask(task[w]) /\ task[w].pc # "idle" /\ inRoom' = inRoom
  BY DEF GroupTypeInv, RequestFails, callMedia
<1>1. CASE task[w].pc = "RemoveParticipant"
  <2>1. Advance(w, "DMMembers")
    BY <1>1 DEF RequestFails
  <2>2. task[w].op \in Reach["DMMembers"]
    BY <1>0, <1>1 DEF FitsTask, Reach, CallOps
  <2> QED BY <1>0, <2>1, <2>2, AdvanceMove DEF TaskPC
<1>2. CASE task[w].pc = "DMMembers"
  <2>1. WithMembers(w, {})
    BY <1>2 DEF RequestFails
  <2>2. PICK j \in Task :
            /\ TaskBecomes(w, j) /\ FitsTask(j) /\ j.op = task[w].op /\ j.user = task[w].user
            /\ j.stayed = task[w].stayed /\ j.event # "ENDED"
    BY <1>2, <2>1, WithMembersJob
  <2>3. TaskMove(w, j)
    BY <1>0, <2>2, OnwardMove
  <2> QED BY <2>3
<1>3. CASE task[w].pc = "IsTargetMember"
  <2>1. Answer(w) \/ (task[w].op = "AddDMGroupMember" /\ Advance(w, "AddMember"))
    BY <1>3 DEF RequestFails, AdvanceIf
  <2> QED BY <1>0, <2>1, AdvanceMove, AnswerMove DEF TaskPC, Reach
<1>4. CASE task[w].pc = "Publish"
  <2>1. PICK u \in task[w].to : task' = [task EXCEPT ![w].to = @ \ {u}]
    BY <1>4 DEF RequestFails
  <2>2. PICK j \in Task :
            /\ TaskBecomes(w, j) /\ j.pc = task[w].pc /\ j.op = task[w].op /\ j.user = task[w].user
            /\ j.target = task[w].target /\ j.event = task[w].event /\ j.stayed = task[w].stayed
    BY <2>1, ToldJob DEF OneLess
  <2>3. FitsTask(j)
    BY <1>0, <2>2 DEF FitsTask
  <2>4. TaskMove(w, j)
    BY <1>0, <2>2, <2>3, OnwardMove
  <2> QED BY <2>4
<1>5. CASE task[w].pc \notin {"RemoveParticipant", "DMMembers", "IsTargetMember", "Publish"}
  <2>1. Answer(w)
    BY <1>5 DEF RequestFails
  <2> QED BY <1>0, <2>1, AnswerMove
<1> QED BY <1>1, <1>2, <1>3, <1>4, <1>5

LEMMA ServerMove ==
  ASSUME GroupTypeInv, NEW w \in Server, ServerStep(w)
  PROVE  \E j \in Task : TaskMove(w, j)
  BY ArriveMove, GroupStepMove, RequestFailsMove DEF ServerStep

\* The steps of LiveKit.
GroupOutside == (\E u \in Person : EnterCall(u) \/ DropOut(u)) \/ FinishCall

LEMMA GroupNextCases ==
  ASSUME GroupNext
  PROVE  (\E w \in Server : ServerStep(w)) \/ GroupOutside
  BY DEF GroupNext, ServerStep, GroupOutside

\* Everything of TypeInv but the jobs.
GroupStoreType ==
    /\ chan \in {"none", "live", "deleted"}
    /\ member \subseteq Person
    /\ inRoom \subseteq Person
    /\ inCall \subseteq Person
    /\ shown \in [Person -> SUBSET Person]
    /\ ringing \subseteq Person
    /\ groupFaults \in Nat

LEMMA GroupStoreStep ==
  ASSUME GroupTypeInv, NEW w \in Server, ServerStep(w)
  PROVE  GroupStoreType'
<1>0. GroupStoreType /\ task[w] \in Task /\ FitsTask(task[w])
  BY DEF GroupTypeInv, GroupStoreType
<1> USE DEF GroupStoreType
<1>1. CASE Arrive(w)
  <2>1. PICK op, u, t, rs : Request(w, op, u, t, rs)
    BY <1>1 DEF Arrive
  <2> QED BY <1>0, <2>1 DEF Request, dm, callMedia
<1>2. CASE GetChannelByID(w) \/ IsDMMember(w) \/ IsTargetMember(w) \/ DMMembers(w) \/ Profiles(w)
           \/ ListCallers(w)
  <2>1. UNCHANGED <<dm, callMedia, clients, groupFaults>>
    BY <1>2 DEF GetChannelByID, IsDMMember, IsTargetMember, DMMembers, Profiles, ListCallers
  <2> QED BY <1>0, <2>1 DEF dm, callMedia, clients
<1>3. CASE CreateRow(w)
  BY <1>0, <1>3 DEF CreateRow, callMedia, clients
<1>4. CASE AddMember(w)
  <2>1. task[w].target \in Person
    BY <1>0, <1>4 DEF AddMember, FitsTask
  <2> QED BY <1>0, <1>4, <2>1 DEF AddMember, callMedia, clients
<1>5. CASE RemoveMember(w)
  BY <1>0, <1>5 DEF RemoveMember, callMedia
<1>6. CASE DeleteRow(w)
  BY <1>0, <1>6 DEF DeleteRow, callMedia, clients
<1>7. CASE CreateCallRoom(w)
  BY <1>0, <1>7 DEF CreateCallRoom, dm, clients
<1>8. CASE RemoveParticipant(w)
  BY <1>0, <1>8 DEF RemoveParticipant, dm, clients
<1>9. CASE Publish(w)
  <2>1. PICK u \in task[w].to : Told(u, w)
    BY <1>9 DEF Publish
  <2>2. u \in Person /\ task[w].profiles \subseteq Person
    BY <1>0 DEF Task
  <2>3. shown' \in [Person -> SUBSET Person] /\ ringing' \subseteq Person
    BY <1>0, <2>1, <2>2 DEF Told
  <2> QED BY <1>0, <1>9, <2>3 DEF Publish, dm, callMedia
<1>10. CASE Published(w)
  <2>1. task[w].user \in Person
    BY <1>0, <1>10 DEF Published, FitsTask
  <2> QED BY <1>0, <1>10, <2>1 DEF Published, dm, callMedia
<1>11. CASE RequestFails(w)
  BY <1>0, <1>11 DEF RequestFails, dm, callMedia, clients
<1> QED BY <1>1, <1>2, <1>3, <1>4, <1>5, <1>6, <1>7, <1>8, <1>9, <1>10, <1>11 DEF ServerStep, GroupStep

GroupFrame ==
    /\ GroupStoreType' /\ task' \in [Server -> Task]
    /\ UNCHANGED <<dm, shown, ringing, groupFaults>>
    /\ \A w \in Server : Alike(task[w], task'[w])
    /\ StayInv => StayInv'

LEMMA GroupOutsideFrame ==
  ASSUME GroupTypeInv, GroupOutside
  PROVE  GroupFrame
<1> USE DEF GroupFrame
<1>1. ASSUME task' = task
      PROVE  task' \in [Server -> Task] /\ \A w \in Server : Alike(task[w], task'[w])
  BY <1>1 DEF Alike, GroupTypeInv
<1>2. ASSUME NEW u \in Person, EnterCall(u) PROVE GroupFrame
  BY <1>1, <1>2 DEF EnterCall, GroupTypeInv, GroupStoreType, StayInv, dm, clients
<1>3. ASSUME NEW u \in Person, DropOut(u) PROVE GroupFrame
  <2>1. task' = Parted(u) /\ inRoom' = inRoom \ {u}
    BY <1>3 DEF DropOut
  <2>2. /\ task' \in [Server -> Task]
        /\ \A w \in Server : Alike(task[w], task'[w]) /\ task'[w].stayed = task[w].stayed \ {u}
    BY <2>1, PartedJobs
  <2>3. StayInv => StayInv'
    BY <2>1, <2>2 DEF StayInv, Alike
  <2>4. GroupStoreType' /\ UNCHANGED <<dm, shown, ringing, groupFaults>>
    BY <1>3 DEF DropOut, GroupTypeInv, GroupStoreType, dm
  <2> QED BY <2>2, <2>3, <2>4
<1>4. CASE FinishCall
  BY <1>1, <1>4 DEF FinishCall, GroupTypeInv, GroupStoreType, StayInv, dm, clients
<1> QED BY <1>2, <1>3, <1>4 DEF GroupOutside

LEMMA GroupTypeStep ==
  ASSUME GroupTypeInv, [GroupNext]_groupVars
  PROVE  GroupTypeInv' /\ (StayInv => StayInv')
<1>1. CASE UNCHANGED groupVars
  BY <1>1 DEF GroupTypeInv, StayInv, groupVars, dm, callMedia, clients
<1>2. CASE GroupOutside
  <2>1. GroupFrame
    BY <1>2, GroupOutsideFrame
  <2>2. \A w \in Server : FitsTask(task'[w])
    BY <2>1 DEF GroupFrame, Alike, FitsTask, GroupTypeInv
  <2>3. (\A w \in Server : FitsTask(task[w]))'
    BY <2>2
  <2> QED BY <2>1, <2>3 DEF GroupFrame, GroupTypeInv, GroupStoreType
<1>3. ASSUME NEW w \in Server, ServerStep(w)
      PROVE  GroupTypeInv' /\ (StayInv => StayInv')
  <2>1. GroupStoreType'
    BY <1>3, GroupStoreStep
  <2>2. PICK j \in Task : TaskMove(w, j)
    BY <1>3, ServerMove
  <2>3. task' \in [Server -> Task] /\ task'[w] = j /\ \A v \in Server \ {w} : Alike(task[v], task'[v])
    BY <2>2 DEF TaskMove, TaskBecomes
  <2>4. ASSUME NEW v \in Server PROVE FitsTask(task'[v])
    <3>1. CASE v = w
      BY <2>2, <2>3, <3>1 DEF TaskMove
    <3>2. CASE v # w
      BY <2>3, <3>2 DEF Alike, FitsTask, GroupTypeInv
    <3> QED BY <3>1, <3>2
  <2>5. (\A v \in Server : FitsTask(task[v]))'
    BY <2>4
  <2> QED BY <2>1, <2>2, <2>3, <2>5 DEF GroupTypeInv, GroupStoreType, TaskMove
<1> QED BY <1>1, <1>2, <1>3, GroupNextCases

LEMMA GroupTypeInit == GroupInit => GroupTypeInv /\ StayInv
<1> SUFFICES ASSUME GroupInit PROVE GroupTypeInv /\ StayInv
  OBVIOUS
<1>1. \A w \in Server : task[w] = Free
  BY DEF GroupInit
<1>2. task \in [Server -> Task] /\ \A w \in Server : FitsTask(task[w])
  BY <1>1, FreeTask DEF GroupInit
<1>3. StayInv
  BY <1>1, FreeTask DEF StayInv
<1> QED BY <1>2, <1>3 DEF GroupInit, GroupTypeInv

LEMMA Typed == GroupSpec => []GroupTypeInv
<1>1. GroupTypeInv /\ [GroupNext]_groupVars => GroupTypeInv'
  BY GroupTypeStep
<1> QED BY <1>1, GroupTypeInit, PTL DEF GroupSpec

\* LeaveDMCall announces the end of a call only when nobody else has been in it all the
\* time since it began: however many RPCs overlap, whichever calls fail and whoever
\* connects, disconnects or is removed meanwhile.
THEOREM EndsOnlyEmptyCalls == GroupSpec => []EndedOnlyWhenEmpty
<1>1. GroupTypeInv /\ StayInv /\ [GroupNext]_groupVars => StayInv'
  BY GroupTypeStep
<1>2. StayInv => EndedOnlyWhenEmpty
  BY DEF StayInv, EndedOnlyWhenEmpty
<1> QED BY <1>1, <1>2, Typed, GroupTypeInit, PTL DEF GroupSpec

-----------------------------------------------------------------------------
(* Ringing.                                                                  *)

\* No call has failed, nobody has vanished and the group has not changed.
Calm == groupFaults = 0 /\ ~dropped /\ ~regrouped

\* What an RPC of a call has learned of the group.
Informed(j) ==
    /\ j.op \in CallOps \cup {"none"}
    /\ j.pc \notin {"idle", "IsDMMember"} => j.user \in member
    /\ j.pc = "Publish" => j.to \subseteq member
    /\ j.op = "LeaveDMCall" /\ (j.pc = "ListParticipants" \/ (j.pc = "Publish" /\ j.event # "ENDED"))
            => j.members = member
    /\ j.op = "StartDMCall" /\ j.pc \in {"DMMembers", "Publish"} => callRoom

\* A hang-up that has yet to take its user out of the room.
HangsUp(j, u) == j.op = "LeaveDMCall" /\ j.pc \in {"IsDMMember", "RemoveParticipant"} /\ j.user = u

\* The RPC will bring somebody into the call, look whether anybody is left in it, or
\* tell u that it has ended.
Answers(j, u) ==
    \/ j.op \in {"StartDMCall", "JoinDMCall"} /\ j.pc \in {"CreateRoom", "DMMembers", "Publish"}
    \/ /\ j.op = "LeaveDMCall" /\ j.user \in member
       /\ \/ j.pc \in {"IsDMMember", "RemoveParticipant", "DMMembers", "ListParticipants"}
          \/ j.pc = "Publish" /\ (j.event = "PARTICIPANT_LEFT" \/ u \in j.to)

RingInv ==
    Calm =>
        /\ inCall \subseteq member /\ inRoom \subseteq member /\ ringing \subseteq member
        /\ \A w \in Server : Informed(task[w])
        /\ \A u \in inRoom : u \in inCall \/ \E w \in Server : HangsUp(task[w], u)
        /\ ringing # {} => callRoom
        /\ \A u \in ringing : inCall # {} \/ \E w \in Server : Answers(task[w], u)

LEMMA NoFault ==
  ASSUME GroupTypeInv, NEW w \in Server, ServerStep(w), groupFaults' = 0
  PROVE  groupFaults = 0 /\ ~RequestFails(w) /\ (Arrive(w) \/ GroupStep(w))
<1>1. ~RequestFails(w)
  BY DEF RequestFails, GroupTypeInv
<1>2. CASE Arrive(w)
  <2>1. PICK op, u, t, rs : Request(w, op, u, t, rs)
    BY <1>2 DEF Arrive
  <2> QED BY <1>1, <1>2, <2>1 DEF Request
<1>3. CASE GroupStep(w)
  <2>1. groupFaults' = groupFaults
    BY <1>3 DEF GroupStep, GetChannelByID, IsDMMember, IsTargetMember, DMMembers, Profiles, CreateRow,
                AddMember, RemoveMember, DeleteRow, CreateCallRoom, RemoveParticipant, ListCallers,
                Publish, Published
  <2> QED BY <1>1, <1>3, <2>1
<1> QED BY <1>1, <1>2, <1>3 DEF ServerStep

\* What RingInv asks of the servers besides w holds after its step.
LEMMA RingMove ==
  ASSUME NEW w \in Server, NEW j \in Task, TaskBecomes(w, j), Calm, RingInv, member' = member,
         Informed(j)', callRoom => callRoom',
         inCall' \subseteq member, inRoom' \subseteq member, ringing' \subseteq member,
         ringing' # {} => callRoom',
         \A u \in inRoom' : \/ u \in inCall' \/ HangsUp(j, u)
                            \/ \E v \in Server \ {w} : HangsUp(task[v], u),
         \A u \in ringing' : \/ inCall' # {} \/ Answers(j, u)
                             \/ \E v \in Server \ {w} : Answers(task[v], u)
  PROVE  RingInv'
<1>1. task'[w] = j /\ \A v \in Server \ {w} : Alike(task[v], task'[v])
  BY DEF TaskBecomes
<1>2. \A v \in Server \ {w} : Informed(task[v])
  BY DEF RingInv
<1>3. ASSUME NEW v \in Server \ {w} PROVE Informed(task[v])'
  <2>1. Alike(task[v], task'[v]) /\ Informed(task[v])
    BY <1>1, <1>2
  <2> QED BY <2>1 DEF Alike, Informed
<1>4. (\A v \in Server : Informed(task[v]))'
  BY <1>1, <1>3
<1>5. ASSUME NEW u \in inRoom' PROVE (u \in inCall \/ \E v \in Server : HangsUp(task[v], u))'
  <2>1. \A v \in Server \ {w} : HangsUp(task[v], u) => HangsUp(task[v], u)'
    BY <1>1 DEF Alike, HangsUp
  <2>2. HangsUp(j, u) => HangsUp(task[w], u)'
    BY <1>1 DEF HangsUp
  <2> QED BY <2>1, <2>2
<1>6. ASSUME NEW u \in ringing' PROVE (inCall # {} \/ \E v \in Server : Answers(task[v], u))'
  <2>1. \A v \in Server \ {w} : Answers(task[v], u) => Answers(task[v], u)'
    BY <1>1 DEF Alike, Answers
  <2>2. Answers(j, u) => Answers(task[w], u)'
    BY <1>1 DEF Answers
  <2> QED BY <2>1, <2>2
<1> QED BY <1>4, <1>5, <1>6 DEF RingInv

\* What RingInv says of a server and of the others.
LEMMA RingNow ==
  ASSUME Calm, RingInv, NEW w \in Server
  PROVE  /\ inCall \subseteq member /\ inRoom \subseteq member /\ ringing \subseteq member
         /\ Informed(task[w])
         /\ ringing # {} => callRoom
         /\ \A u \in inRoom : \/ u \in inCall \/ HangsUp(task[w], u)
                              \/ \E v \in Server \ {w} : HangsUp(task[v], u)
         /\ \A u \in ringing : \/ inCall # {} \/ Answers(task[w], u)
                               \/ \E v \in Server \ {w} : Answers(task[v], u)
  BY DEF RingInv

\* Server w has been handed the job j.
Called(w, j) ==
    /\ task[w].pc = "idle"
    /\ j.op \in CallOps \cup GroupOps /\ j.pc = FirstCall(j.op) /\ j.user \in Person /\ j.event = "none"
    /\ inCall' = IF j.op = "LeaveDMCall" THEN inCall \ {j.user} ELSE inCall
    /\ UNCHANGED <<chan, member, callRoom, inRoom, shown, ringing, groupFaults>>

LEMMA ArriveJob ==
  ASSUME GroupTypeInv, NEW w \in Server, Arrive(w)
  PROVE  \E j \in Task : TaskBecomes(w, j) /\ Called(w, j)
<1>1. PICK op \in CallOps \cup GroupOps, u \in Person, t \in Person \cup {Nobody}, rs \in SUBSET Person :
          /\ Request(w, op, u, t, rs)
          /\ op \in {"AddDMGroupMember", "RemoveDMGroupMember"} => t \in Person
  BY DEF Arrive, GroupOps, CallOps
<1>2. PICK j \in Task :
            /\ TaskBecomes(w, j)
            /\ j.op = op /\ j.pc = FirstCall(op) /\ j.user = u /\ j.target = t /\ j.add = rs
            /\ j.event = "none" /\ j.stayed \subseteq inRoom
  BY <1>1, CallJob
<1>3. Called(w, j)
  BY <1>1, <1>2 DEF Called, Request, dm, callMedia
<1> QED BY <1>2, <1>3

LEMMA RingArrive ==
  ASSUME GroupTypeInv, Calm, RingInv, NEW w \in Server, Arrive(w),
         \A v \in Server : task'[v].op \notin GroupOps
  PROVE  RingInv'
<1>1. PICK j \in Task : TaskBecomes(w, j) /\ Called(w, j)
  BY ArriveJob
<1>2. PICK op \in CallOps, u \in Person : op = j.op /\ u = j.user /\ j.pc = "IsDMMember" /\ j.event = "none"
  <2>1. task'[w] = j
    BY <1>1 DEF TaskBecomes
  <2>2. j.op \in CallOps
    BY <1>1, <2>1 DEF Called
  <2> QED BY <1>1, <2>2 DEF Called, FirstCall, CallOps
<1>3. op \in CallOps /\ j.pc = "IsDMMember" /\ TaskBecomes(w, j)
  BY <1>1, <1>2
<1>4. /\ task[w].pc = "idle" /\ UNCHANGED <<member, callRoom, inRoom, ringing>>
      /\ inCall' = IF op = "LeaveDMCall" THEN inCall \ {u} ELSE inCall
  BY <1>1, <1>2 DEF Called
<1>5. Informed(j)'
  BY <1>2, <1>3 DEF Informed
<1>6. \A x : ~HangsUp(task[w], x) /\ ~Answers(task[w], x)
  <2>1. task[w].op = "none"
    BY <1>4 DEF GroupTypeInv, FitsTask, Reach
  <2> QED BY <2>1 DEF HangsUp, Answers
<1>7. op = "LeaveDMCall" => HangsUp(j, u)
  BY <1>2, <1>3 DEF HangsUp
<1>8. op = "LeaveDMCall" /\ u \in member => \A x : Answers(j, x)
  BY <1>2, <1>3 DEF Answers
<1>9. \A x \in inRoom' : \/ x \in inCall' \/ HangsUp(j, x)
                         \/ \E v \in Server \ {w} : HangsUp(task[v], x)
  BY <1>4, <1>6, <1>7, RingNow
<1>10. \A x \in ringing' : \/ inCall' # {} \/ Answers(j, x)
                           \/ \E v \in Server \ {w} : Answers(task[v], x)
  <2>1. CASE inCall' = inCall
    BY <1>4, <1>6, <2>1, RingNow
  <2>2. CASE inCall' # inCall
    BY <1>4, <1>8, <2>2, RingNow
  <2> QED BY <2>1, <2>2
<1> QED BY <1>3, <1>4, <1>5, <1>9, <1>10, RingMove, RingNow

\* A step that tells nobody, and after which the RPC still answers for all it did.
LEMMA RingOn ==
  ASSUME NEW w \in Server, NEW j \in Task, TaskBecomes(w, j), Calm, RingInv,
         Informed(j)', callRoom => callRoom', UNCHANGED <<member, ringing, inRoom, inCall>>,
         \A u : HangsUp(task[w], u) => HangsUp(j, u) \/ u \notin inRoom,
         (\A u \in ringing : Answers(task[w], u) => Answers(j, u)) \/ inCall # {}
            \/ \A u \in ringing : \E v \in Server \ {w} : Answers(task[v], u)
  PROVE  RingInv'
<1>1. \A u \in inRoom' : \/ u \in inCall' \/ HangsUp(j, u)
                         \/ \E v \in Server \ {w} : HangsUp(task[v], u)
  BY RingNow
<1>2. \A u \in ringing' : \/ inCall' # {} \/ Answers(j, u)
                          \/ \E v \in Server \ {w} : Answers(task[v], u)
  BY RingNow
<1> QED BY <1>1, <1>2, RingMove, RingNow

LEMMA RingReturn ==
  ASSUME GroupTypeInv, NEW w \in Server, Answer(w), Calm, RingInv,
         UNCHANGED <<member, ringing, inRoom, inCall, callRoom>>,
         \A u : HangsUp(task[w], u) => u \notin inRoom,
         (\A u \in ringing : ~Answers(task[w], u)) \/ inCall # {}
            \/ \A u \in ringing : \E v \in Server \ {w} : Answers(task[v], u)
  PROVE  RingInv'
<1>1. TaskBecomes(w, Free) /\ Free \in Task
  BY AnswerTask, FreeTask
<1>2. Informed(Free)'
  BY FreeTask DEF Informed
<1> QED BY <1>1, <1>2, RingOn

LEMMA RingIsDMMember ==
  ASSUME GroupTypeInv, Calm, RingInv, NEW w \in Server, IsDMMember(w)
  PROVE  RingInv'
<1>0. FitsTask(task[w]) /\ Informed(task[w])
  BY RingNow DEF GroupTypeInv
<1>1. task[w].pc = "IsDMMember" /\ UNCHANGED <<member, ringing, inRoom, inCall, callRoom>>
  BY DEF IsDMMember, dm, callMedia, clients
<1>2. task[w].op \in CallOps
  BY <1>0, <1>1 DEF Informed, FitsTask, Reach
<1>3. CASE task[w].user \notin member
  <2>1. Answer(w)
    BY <1>3 DEF IsDMMember, AdvanceIf
  <2>2. \A u : HangsUp(task[w], u) => u \notin inRoom
    BY <1>3, RingNow DEF HangsUp
  <2>3. \A u : ~Answers(task[w], u)
    BY <1>1, <1>3 DEF Answers
  <2> QED BY <1>1, <2>1, <2>2, <2>3, RingReturn
<1>4. CASE task[w].user \in member
  <2>1. PICK pc \in TaskPC : pc = AfterIsDMMember[task[w].op]
    BY <1>2 DEF AfterIsDMMember, CallOps, TaskPC
  <2>2. Advance(w, pc)
    BY <1>4, <2>1 DEF IsDMMember, AdvanceIf
  <2>3. PICK j \in Task :
            /\ TaskBecomes(w, j)
            /\ j.op = task[w].op /\ j.pc = pc /\ j.user = task[w].user /\ j.target = task[w].target
            /\ j.add = task[w].add /\ j.members = task[w].members /\ j.to = task[w].to
            /\ j.profiles = task[w].profiles /\ j.event = task[w].event /\ j.stayed = task[w].stayed
    BY <2>2, AdvanceTask
  <2>4. \/ j.op \in {"StartDMCall", "JoinDMCall"} /\ pc = "CreateRoom"
        \/ j.op = "RejectDMCall" /\ pc = "DMMembers"
        \/ j.op = "LeaveDMCall" /\ pc = "RemoveParticipant"
    BY <1>2, <2>1, <2>3 DEF AfterIsDMMember, CallOps
  <2>5. Informed(j)'
    BY <1>1, <1>2, <1>4, <2>3, <2>4 DEF Informed
  <2>6. \A u : HangsUp(task[w], u) => HangsUp(j, u)
    BY <2>3, <2>4 DEF HangsUp
  <2>7. \A u : Answers(task[w], u) => Answers(j, u)
    BY <1>1, <2>3, <2>4 DEF Answers
  <2> QED BY <1>1, <2>3, <2>5, <2>6, <2>7, RingOn
<1> QED BY <1>3, <1>4

LEMMA RingDMMembers ==
  ASSUME GroupTypeInv, Calm, RingInv, NEW w \in Server, DMMembers(w)
  PROVE  RingInv'
<1>0. FitsTask(task[w]) /\ Informed(task[w]) /\ member \in SUBSET Person
  BY RingNow DEF GroupTypeInv
<1>1. /\ task[w].pc = "DMMembers" /\ UNCHANGED <<member, ringing, inRoom, inCall, callRoom>>
      /\ WithMembers(w, member)
  BY DEF DMMembers, dm, callMedia, clients
<1>2. task[w].op \in CallOps /\ task[w].user \in member
  BY <1>0, <1>1 DEF Informed, FitsTask, Reach
<1>3. PICK j \in Task :
            /\ TaskBecomes(w, j)
            /\ j.op = task[w].op /\ j.user = task[w].user /\ j.target = task[w].target /\ j.add = task[w].add
            /\ j.to = member /\ j.stayed = task[w].stayed
            /\ j.op = "LeaveDMCall" => j.members = member
            /\ j.event # "ENDED"
            /\ j.pc = AfterDMMembers(j.op) /\ FitsTask(j)
  BY <1>0, <1>1, WithMembersJob
<1>4. j.pc = "Publish"
  BY <1>2, <1>3 DEF AfterDMMembers, CallOps
<1>5. j.op = "LeaveDMCall" => j.event = "PARTICIPANT_LEFT"
  BY <1>3, <1>4 DEF FitsTask, EventOf
<1>6. Informed(j)'
  BY <1>0, <1>1, <1>2, <1>3, <1>4 DEF Informed
<1>7. \A u : ~HangsUp(task[w], u)
  BY <1>1 DEF HangsUp
<1>8. \A u : Answers(task[w], u) => Answers(j, u)
  BY <1>1, <1>2, <1>3, <1>4, <1>5 DEF Answers
<1> QED BY <1>1, <1>3, <1>6, <1>7, <1>8, RingOn

LEMMA RingCreateRoom ==
  ASSUME GroupTypeInv, Calm, RingInv, NEW w \in Server, CreateCallRoom(w)
  PROVE  RingInv'
<1>0. FitsTask(task[w]) /\ Informed(task[w])
  BY RingNow DEF GroupTypeInv
<1>1. /\ task[w].pc = "CreateRoom" /\ UNCHANGED <<member, ringing, inRoom, inCall>> /\ callRoom'
      /\ Advance(w, "DMMembers")
  BY DEF CreateCallRoom, dm, clients
<1>2. PICK j \in Task :
            /\ TaskBecomes(w, j)
            /\ j.op = task[w].op /\ j.pc = "DMMembers" /\ j.user = task[w].user /\ j.target = task[w].target
            /\ j.add = task[w].add /\ j.members = task[w].members /\ j.to = task[w].to
            /\ j.profiles = task[w].profiles /\ j.event = task[w].event /\ j.stayed = task[w].stayed
  BY <1>1, AdvanceTask DEF TaskPC
<1>3. task[w].op \in {"StartDMCall", "JoinDMCall"}
  BY <1>0, <1>1 DEF FitsTask, Reach
<1>4. Informed(j)'
  BY <1>0, <1>1, <1>2, <1>3 DEF Informed
<1>5. \A u : ~HangsUp(task[w], u)
  BY <1>1 DEF HangsUp
<1>6. \A u : Answers(j, u)
  BY <1>2, <1>3 DEF Answers
<1> QED BY <1>1, <1>2, <1>4, <1>5, <1>6, RingOn

LEMMA RingRemoveParticipant ==
  ASSUME GroupTypeInv, Calm, RingInv, NEW w \in Server, RemoveParticipant(w)
  PROVE  RingInv'
<1>0. FitsTask(task[w]) /\ Informed(task[w])
  BY RingNow DEF GroupTypeInv
<1>1. /\ task[w].pc = "RemoveParticipant" /\ UNCHANGED <<member, ringing, callRoom, inCall>>
      /\ inRoom' = inRoom \ {task[w].user}
  BY DEF RemoveParticipant, dm, clients
<1>2. PICK j \in Task :
            /\ TaskBecomes(w, j)
            /\ j.pc = "DMMembers" /\ j.op = task[w].op /\ j.user = task[w].user /\ j.target = task[w].target
            /\ j.event = task[w].event
            /\ \A v \in Server : task'[v].stayed = task[v].stayed \ {task[w].user}
  BY RemoveParticipantJob
<1>3. task[w].op = "LeaveDMCall" /\ task[w].user \in member
  BY <1>0, <1>1 DEF FitsTask, Reach, Informed
<1>4. Informed(j)'
  BY <1>0, <1>1, <1>2, <1>3 DEF Informed
<1>5. \A u : Answers(j, u)
  BY <1>2, <1>3 DEF Answers
<1>6. \A u \in inRoom' : \/ u \in inCall' \/ HangsUp(j, u)
                         \/ \E v \in Server \ {w} : HangsUp(task[v], u)
  BY <1>1, RingNow DEF HangsUp
<1> QED BY <1>1, <1>2, <1>4, <1>5, <1>6, RingMove, RingNow

LEMMA RingListParticipants ==
  ASSUME GroupTypeInv, Calm, RingInv, NEW w \in Server, ListCallers(w)
  PROVE  RingInv'
<1>0. FitsTask(task[w]) /\ Informed(task[w])
  BY RingNow DEF GroupTypeInv
<1>1. task[w].pc = "ListParticipants" /\ UNCHANGED <<member, ringing, inRoom, inCall, callRoom>>
  BY DEF ListCallers, dm, callMedia, clients
<1>2. task[w].op = "LeaveDMCall" /\ task[w].user \in member /\ task[w].members = member
  BY <1>0, <1>1 DEF Informed, FitsTask, Reach
<1>3. \A u : ~HangsUp(task[w], u)
  BY <1>1 DEF HangsUp
<1>4. CASE (inRoom # {} \/ ~callRoom) /\ Answer(w)
  <2>1. CASE inRoom # {}
    <3>1. PICK c \in inRoom : c \in member
      BY <2>1, RingNow
    <3>2. inCall # {} \/ \E v \in Server \ {w} : HangsUp(task[v], c)
      BY <1>3, RingNow
    <3>3. ASSUME NEW v \in Server, HangsUp(task[v], c) PROVE \A u : Answers(task[v], u)
      BY <3>1, <3>3 DEF HangsUp, Answers
    <3>4. inCall # {} \/ \A u \in ringing : \E v \in Server \ {w} : Answers(task[v], u)
      BY <3>2, <3>3
    <3> QED BY <1>1, <1>3, <1>4, <3>4, RingReturn
  <2>2. CASE ~callRoom
    <3>1. ringing = {}
      BY <2>2, RingNow
    <3> QED BY <1>1, <1>3, <1>4, <3>1, RingReturn
  <2> QED BY <1>4, <2>1, <2>2
<1>5. CASE inRoom = {} /\ task' = [task EXCEPT ![w].event = "ENDED", ![w].to = task[w].members,
                                               ![w].pc = "Publish"]
  <2>1. PICK j \in Task :
            /\ TaskBecomes(w, j)
            /\ j.pc = "Publish" /\ j.event = "ENDED" /\ j.to = task[w].members /\ j.op = task[w].op
            /\ j.user = task[w].user /\ j.target = task[w].target /\ j.stayed = task[w].stayed
    BY <1>5, EndedJob
  <2>2. Informed(j)'
    BY <1>0, <1>1, <1>2, <2>1 DEF Informed
  <2>3. \A u \in ringing : Answers(j, u)
    BY <1>2, <2>1, RingNow DEF Answers
  <2> QED BY <1>1, <1>3, <2>1, <2>2, <2>3, RingOn
<1> QED BY <1>4, <1>5 DEF ListCallers

LEMMA RingPublish ==
  ASSUME GroupTypeInv, Calm, RingInv, NEW w \in Server, Publish(w)
  PROVE  RingInv'
<1>0. FitsTask(task[w]) /\ Informed(task[w])
  BY RingNow DEF GroupTypeInv
<1>1. task[w].pc = "Publish" /\ UNCHANGED <<member, inRoom, inCall, callRoom>>
  BY DEF Publish, dm, callMedia
<1>2. PICK u \in task[w].to : Told(u, w) /\ task' = [task EXCEPT ![w].to = @ \ {u}]
  BY DEF Publish
<1>a. task' = [task EXCEPT ![w].to = @ \ {u}]
  BY <1>2
<1>b. PICK j \in Task : TaskBecomes(w, j) /\ OneLess(task[w], u, j)
  BY <1>a, ToldJob
<1>3. /\ TaskBecomes(w, j)
      /\ j.to = task[w].to \ {u} /\ j.pc = task[w].pc /\ j.op = task[w].op /\ j.user = task[w].user
      /\ j.members = task[w].members /\ j.event = task[w].event
  BY <1>b DEF OneLess
<1>4. Informed(j)'
  BY <1>0, <1>1, <1>3 DEF Informed
<1>5. task[w].event = "INCOMING" => task[w].op = "StartDMCall" /\ callRoom
  BY <1>0, <1>1 DEF FitsTask, EventOf, Informed
<1>6. task[w].event = "ENDED" \/ task[w].op # "LeaveDMCall" \/ task[w].event = "PARTICIPANT_LEFT"
  BY <1>0, <1>1 DEF FitsTask, EventOf
<1>7. /\ task[w].event = "INCOMING" => ringing' = ringing \cup {u}
      /\ task[w].event = "ENDED" => ringing' = ringing \ {u}
      /\ task[w].event \notin {"INCOMING", "ENDED"} => ringing' = ringing
  BY <1>2 DEF Told
<1>8. ringing' \subseteq member /\ (ringing' # {} => callRoom')
  BY <1>0, <1>1, <1>2, <1>5, <1>7, RingNow DEF Informed
<1>9. \A x \in inRoom' : \/ x \in inCall' \/ HangsUp(j, x)
                         \/ \E v \in Server \ {w} : HangsUp(task[v], x)
  BY <1>1, RingNow DEF HangsUp
<1>10. ASSUME NEW x \in ringing'
       PROVE  inCall' # {} \/ Answers(j, x) \/ \E v \in Server \ {w} : Answers(task[v], x)
  <2>1. CASE task[w].event = "INCOMING"
    BY <1>1, <1>3, <1>5, <2>1 DEF Answers
  <2>2. CASE task[w].event # "INCOMING"
    <3>1. x \in ringing /\ (task[w].event = "ENDED" => x # u)
      BY <1>7, <2>2
    <3>2. Answers(task[w], x) => Answers(j, x)
      BY <1>3, <1>6, <3>1 DEF Answers
    <3> QED BY <1>1, <3>1, <3>2, RingNow
  <2> QED BY <2>1, <2>2
<1> QED BY <1>1, <1>3, <1>4, <1>8, <1>9, <1>10, RingMove, RingNow

LEMMA RingPublished ==
  ASSUME GroupTypeInv, Calm, RingInv, NEW w \in Server, Published(w)
  PROVE  RingInv'
<1>0. FitsTask(task[w]) /\ Informed(task[w])
  BY RingNow DEF GroupTypeInv
<1>1. task[w].pc = "Publish" /\ task[w].to = {} /\ UNCHANGED <<member, inRoom, ringing, callRoom>>
  BY DEF Published, dm, callMedia
<1>2. \A u : ~HangsUp(task[w], u)
  BY <1>1 DEF HangsUp
<1>3. task[w].event \in EventOf(task[w].op) /\ task[w].op \in CallOps /\ task[w].user \in member
  BY <1>0, <1>1 DEF FitsTask, Reach, Informed, GroupOps
<1>4. CASE task[w].event = "PARTICIPANT_LEFT"
  <2>1. task[w].op = "LeaveDMCall" /\ Advance(w, "ListParticipants") /\ inCall' = inCall
    BY <1>3, <1>4 DEF EventOf, Published, AdvanceIf
  <2>2. PICK j \in Task :
            /\ TaskBecomes(w, j)
            /\ j.op = task[w].op /\ j.pc = "ListParticipants" /\ j.user = task[w].user /\ j.target = task[w].target
            /\ j.add = task[w].add /\ j.members = task[w].members /\ j.to = task[w].to
            /\ j.profiles = task[w].profiles /\ j.event = task[w].event /\ j.stayed = task[w].stayed
    BY <2>1, AdvanceTask DEF TaskPC
  <2>3. Informed(j)'
    BY <1>0, <1>1, <1>4, <2>1, <2>2 DEF Informed
  <2>4. \A u : Answers(j, u)
    BY <1>3, <2>1, <2>2 DEF Answers
  <2> QED BY <1>1, <1>2, <2>1, <2>2, <2>3, <2>4, RingOn
<1>5. CASE task[w].event # "PARTICIPANT_LEFT"
  <2>1. Answer(w)
    BY <1>5 DEF Published, AdvanceIf
  <2>2. CASE task[w].op \in {"StartDMCall", "JoinDMCall"}
    <3>1. inCall' = inCall \cup {task[w].user}
      BY <2>2 DEF Published
    <3>2. TaskBecomes(w, Free) /\ Free \in Task
      BY <2>1, AnswerTask, FreeTask
    <3>3. Informed(Free)'
      BY FreeTask DEF Informed
    <3>4. \A u \in inRoom' : \/ u \in inCall' \/ HangsUp(Free, u)
                             \/ \E v \in Server \ {w} : HangsUp(task[v], u)
      BY <1>1, <1>2, <3>1, RingNow
    <3>5. inCall' # {} /\ inCall' \subseteq member
      BY <1>3, <3>1, RingNow
    <3> QED BY <1>1, <3>2, <3>3, <3>4, <3>5, RingMove, RingNow
  <2>3. CASE task[w].op \notin {"StartDMCall", "JoinDMCall"}
    <3>1. inCall' = inCall
      BY <2>3 DEF Published
    <3>2. \A u : ~Answers(task[w], u)
      BY <1>1, <1>5, <2>3 DEF Answers
    <3> QED BY <1>1, <1>2, <2>1, <3>1, <3>2, RingReturn
  <2> QED BY <2>2, <2>3
<1> QED BY <1>4, <1>5

LEMMA RingStep ==
  ASSUME GroupTypeInv, Calm, RingInv, NEW w \in Server, GroupStep(w)
  PROVE  RingInv'
<1>1. FitsTask(task[w]) /\ task[w].op \in CallOps \cup {"none"}
  BY RingNow DEF GroupTypeInv, Informed
<1>2. task[w].pc \notin {"GetChannelByID", "IsTargetMember", "Profiles", "CreateRow", "AddMember",
                        "RemoveMember", "DeleteRow"}
  BY <1>1 DEF FitsTask, Reach, CallOps
<1>3. \/ IsDMMember(w) \/ DMMembers(w) \/ CreateCallRoom(w) \/ RemoveParticipant(w) \/ ListCallers(w)
      \/ Publish(w) \/ Published(w)
  BY <1>2 DEF GroupStep, GetChannelByID, IsTargetMember, Profiles, CreateRow, AddMember, RemoveMember, DeleteRow
<1> QED BY <1>3, RingIsDMMember, RingDMMembers, RingCreateRoom, RingRemoveParticipant,
           RingListParticipants, RingPublish, RingPublished

LEMMA RingConnect ==
  ASSUME Calm, RingInv, NEW u \in Person, EnterCall(u)
  PROVE  RingInv'
<1>1. /\ u \in inCall /\ callRoom' /\ inRoom' = inRoom \cup {u}
      /\ UNCHANGED <<member, inCall, ringing, task>>
  BY DEF EnterCall, dm, clients
<1>2. \A w \in Server : Informed(task[w])'
  BY <1>1 DEF RingInv, Informed
<1>3. \A x \in inRoom' : x \in inCall' \/ \E w \in Server : HangsUp(task[w], x)'
  BY <1>1 DEF RingInv, HangsUp
<1>4. \A x \in ringing' : inCall' # {} \/ \E w \in Server : Answers(task[w], x)'
  BY <1>1 DEF RingInv, Answers
<1> QED BY <1>1, <1>2, <1>3, <1>4 DEF RingInv

LEMMA RingNext ==
  ASSUME GroupTypeInv, RingInv, [GroupNext]_groupVars
  PROVE  RingInv'
<1>1. CASE UNCHANGED groupVars
  BY <1>1 DEF RingInv, Calm, Informed, HangsUp, Answers, groupVars, dm, callMedia, clients, history
<1>2. CASE GroupNext
  <2> SUFFICES ASSUME Calm' PROVE RingInv'
    BY DEF RingInv
  <2>1. /\ groupFaults' = 0 /\ ~dropped' /\ ~regrouped' /\ ~regrouped
        /\ \A w \in Server : task'[w].op \notin GroupOps
    BY <1>2 DEF GroupNext, Calm
  <2>2. ~dropped /\ ((\E w \in Server : ServerStep(w)) \/ \E u \in Person : EnterCall(u))
    BY <1>2, <2>1 DEF GroupNext, ServerStep
  <2>3. ASSUME NEW w \in Server, ServerStep(w) PROVE RingInv'
    <3>1. Calm /\ (Arrive(w) \/ GroupStep(w))
      BY <2>1, <2>2, <2>3, NoFault DEF Calm
    <3> QED BY <2>1, <3>1, RingArrive, RingStep
  <2>4. ASSUME NEW u \in Person, EnterCall(u) PROVE RingInv'
    <3>1. Calm
      BY <2>1, <2>2, <2>4 DEF EnterCall, Calm
    <3> QED BY <2>4, <3>1, RingConnect
  <2> QED BY <2>2, <2>3, <2>4
<1> QED BY <1>1, <1>2

LEMMA RingInit == GroupInit => RingInv
<1> SUFFICES ASSUME GroupInit PROVE RingInv
  OBVIOUS
<1>1. \A w \in Server : Informed(task[w])
  BY FreeTask DEF GroupInit, Informed
<1> QED BY <1>1 DEF GroupInit, RingInv

\* In a group that nobody joins or leaves, once everyone has hung up through LeaveDMCall
\* and every RPC has been answered nobody is left ringing, for any number of members and
\* of starts, joins, rejections and hang-ups that overlap.
THEOREM RingingEnds == GroupSpec => []NobodyLeftRinging
<1>1. GroupTypeInv /\ RingInv /\ [GroupNext]_groupVars => RingInv'
  BY RingNext
<1>2. ASSUME GroupTypeInv, RingInv PROVE NobodyLeftRinging
  <2> SUFFICES ASSUME Calm, AllAnswered, inCall = {} PROVE ringing = {}
    BY DEF NobodyLeftRinging, Calm
  <2>1. \A w \in Server, u \in ringing : ~Answers(task[w], u)
    BY DEF AllAnswered, Answers
  <2> QED BY <1>2, <2>1 DEF RingInv
<1> QED BY <1>1, <1>2, RingInit, Typed, PTL DEF GroupSpec

-----------------------------------------------------------------------------
(* What the members are shown.                                               *)

GroupSerialInv == oneByOne => NoOverlap

Right(u) ==
    IF u \in member THEN shown[u] = IF chan = "live" THEN member ELSE {}
    ELSE u \notin shown[u]

\* What an RPC about the group has read is still so, while it is the only one.
Reads(j) ==
    /\ j.op \in {"AddDMGroupMember", "RemoveDMGroupMember"} /\ j.pc # "GetChannelByID" => chan = "live"
    /\ j.op = "CreateDMChannel" /\ j.pc # "CreateRow" => chan = "live"
    /\ j.op = "CreateDMChannel" /\ j.pc = "AddMember" => member \cup {j.target} \cup j.add \subseteq j.to
    /\ j.op \in GroupOps \ {"DeleteChannel"} /\ j.pc = "Publish" => j.profiles = member
    /\ j.op \in GroupOps /\ j.pc \in {"RemoveMember", "DeleteRow"} => j.to = member
    /\ j.op = "DeleteChannel" /\ j.pc = "Publish" => chan = "deleted"

\* The RPC has yet to tell u.
Owes(j, u) ==
    /\ j.op \in GroupOps
    /\ \/ j.pc \in {"Profiles", "Publish"} /\ u \in j.to
       \/ j.op = "AddDMGroupMember" /\ j.pc = "DMMembers" /\ u \in member
       \/ j.op = "CreateDMChannel" /\ j.pc = "AddMember" /\ u \in j.to

ViewInv ==
    oneByOne /\ groupFaults = 0 =>
        /\ chan = "none" => member = {}
        /\ \A w \in Server : Reads(task[w])
        /\ \A u \in Person : Right(u) \/ \E w \in Server : Owes(task[w], u)

LEMMA SerialNext ==
  ASSUME GroupSerialInv, [GroupNext]_groupVars
  PROVE  GroupSerialInv' /\ (oneByOne' => oneByOne)
<1>1. CASE UNCHANGED groupVars
  BY <1>1 DEF GroupSerialInv, NoOverlap, groupVars, history
<1>2. CASE GroupNext
  BY <1>2 DEF GroupNext, GroupSerialInv
<1> QED BY <1>1, <1>2

\* While RPCs do not overlap, whoever takes a step is the only one.
LEMMA AloneTask ==
  ASSUME GroupTypeInv, GroupSerialInv, GroupNext, oneByOne', NEW w \in Server, ServerStep(w)
  PROVE  \A v \in Server \ {w} : task[v].op = "none"
<1>1. oneByOne /\ NoOverlap /\ NoOverlap'
  BY DEF GroupNext, GroupSerialInv
<1>2. PICK j \in Task : TaskMove(w, j)
  BY ServerMove
<1>3. SUFFICES ASSUME NEW v \in Server \ {w} PROVE task[v].pc = "idle"
  BY DEF GroupTypeInv, FitsTask, Reach
<1>4. CASE task[w].pc # "idle"
  BY <1>1, <1>4 DEF NoOverlap
<1>5. CASE task[w].pc = "idle"
  <2>1. task'[w] = j /\ j.pc # "idle" /\ task'[v].pc = task[v].pc
    BY <1>2, <1>5 DEF TaskMove, TaskBecomes, Alike
  <2>2. task'[v].pc # "idle" /\ task'[w].pc # "idle" => v = w
    BY <1>1 DEF NoOverlap
  <2> QED BY <2>1, <2>2
<1> QED BY <1>4, <1>5

Undisturbed(w) == oneByOne /\ groupFaults = 0 /\ \A v \in Server \ {w} : task[v].op = "none"

LEMMA ViewNow ==
  ASSUME NEW w \in Server, Undisturbed(w), ViewInv
  PROVE  /\ chan = "none" => member = {}
         /\ Reads(task[w])
         /\ \A u \in Person : Right(u) \/ Owes(task[w], u)
<1>1. \A v \in Server \ {w}, u \in Person : ~Owes(task[v], u)
  BY DEF Undisturbed, Owes, GroupOps
<1> QED BY <1>1 DEF ViewInv, Undisturbed

LEMMA ViewMove ==
  ASSUME NEW w \in Server, NEW j \in Task, TaskBecomes(w, j), Undisturbed(w), chan' = "none" => member' = {},
         Reads(j)', \A u \in Person : Right(u)' \/ Owes(j, u)'
  PROVE  ViewInv'
<1>1. task'[w] = j /\ \A v \in Server \ {w} : task'[v].op = "none"
  BY DEF TaskBecomes, Alike, Undisturbed
<1>2. \A v \in Server \ {w} : Reads(task[v])'
  BY <1>1 DEF Reads, GroupOps
<1>3. Reads(task[w])' /\ \A u \in Person : Owes(j, u)' => Owes(task[w], u)'
  BY <1>1 DEF Reads, Owes
<1>4. (\A v \in Server : Reads(task[v]))'
  BY <1>2, <1>3
<1>5. (\A u \in Person : Right(u) \/ \E v \in Server : Owes(task[v], u))'
  BY <1>3
<1> QED BY <1>4, <1>5 DEF ViewInv

\* A step after which the RPC still owes all that it owed.
LEMMA ViewOn ==
  ASSUME NEW w \in Server, NEW j \in Task, TaskBecomes(w, j), Undisturbed(w), ViewInv,
         UNCHANGED <<chan, member, shown>>, Reads(j),
         \A u \in Person : Owes(task[w], u) => Owes(j, u)
  PROVE  ViewInv'
<1>1. Reads(j)' /\ \A u \in Person : (Right(u) => Right(u)') /\ (Owes(j, u) => Owes(j, u)')
  BY DEF Reads, Right, Owes
<1> QED BY <1>1, ViewNow, ViewMove

LEMMA ViewReturn ==
  ASSUME GroupTypeInv, NEW w \in Server, Answer(w), Undisturbed(w), ViewInv, UNCHANGED <<chan, member, shown>>,
         \A u \in Person : ~Owes(task[w], u)
  PROVE  ViewInv'
<1>1. TaskBecomes(w, Free) /\ Free \in Task
  BY AnswerTask, FreeTask
<1>2. Reads(Free)
  BY FreeTask DEF Reads, GroupOps
<1> QED BY <1>1, <1>2, ViewOn

\* The RPCs of calls have no part in it.
LEMMA ViewCall ==
  ASSUME GroupTypeInv, NEW w \in Server, NEW j \in Task, TaskMove(w, j), task[w].op \in CallOps, Undisturbed(w), ViewInv,
         task[w].pc # "idle", UNCHANGED <<chan, member, shown>>
  PROVE  ViewInv'
<1>1. j.op \in CallOps \cup {"none"} /\ TaskBecomes(w, j)
  BY DEF TaskMove, FitsTask, Reach
<1>2. \A u \in Person : ~Owes(task[w], u)
  BY DEF Owes, CallOps, GroupOps
<1>3. Reads(j)
  BY <1>1 DEF Reads, CallOps, GroupOps
<1> QED BY <1>1, <1>2, <1>3, ViewOn

LEMMA ViewGoto ==
  ASSUME GroupTypeInv, NEW w \in Server, NEW pc \in TaskPC, Advance(w, pc), Undisturbed(w), ViewInv,
         UNCHANGED <<chan, member, shown>>, \A u \in Person : ~Owes(task[w], u),
         task[w].op # "CreateDMChannel", pc \notin {"RemoveMember", "DeleteRow", "Publish"},
         task[w].op \in {"AddDMGroupMember", "RemoveDMGroupMember"} => chan = "live"
  PROVE  ViewInv'
<1>1. PICK j \in Task :
            /\ TaskBecomes(w, j)
            /\ j.op = task[w].op /\ j.pc = pc /\ j.user = task[w].user /\ j.target = task[w].target
            /\ j.add = task[w].add /\ j.members = task[w].members /\ j.to = task[w].to
            /\ j.profiles = task[w].profiles /\ j.event = task[w].event /\ j.stayed = task[w].stayed
  BY AdvanceTask
<1>2. Reads(j)
  BY <1>1 DEF Reads
<1> QED BY <1>1, <1>2, ViewOn

LEMMA ViewArrive ==
  ASSUME GroupTypeInv, NEW w \in Server, Arrive(w), Undisturbed(w), ViewInv
  PROVE  ViewInv'
<1>1. PICK j \in Task : TaskBecomes(w, j) /\ Called(w, j)
  BY ArriveJob
<1>2. task[w].op = "none" /\ UNCHANGED <<chan, member, shown>>
  BY <1>1 DEF Called, GroupTypeInv, FitsTask, Reach
<1>3. \A u \in Person : ~Owes(task[w], u)
  BY <1>2 DEF Owes, GroupOps
<1>4. \/ j.op \in CallOps /\ j.pc = "IsDMMember"
      \/ j.op = "CreateDMChannel" /\ j.pc = "CreateRow"
      \/ j.op \in GroupOps \ {"CreateDMChannel"} /\ j.pc = "GetChannelByID"
  BY <1>1 DEF Called, FirstCall, GroupOps, CallOps
<1>5. Reads(j)
  BY <1>4 DEF Reads, CallOps, GroupOps
<1> QED BY <1>1, <1>2, <1>3, <1>5, ViewOn

\* The reads that decide whether an RPC goes on.
LEMMA ViewChecks ==
  ASSUME GroupTypeInv, NEW w \in Server, Undisturbed(w), ViewInv,
         GetChannelByID(w) \/ IsDMMember(w) \/ IsTargetMember(w)
  PROVE  ViewInv'
<1>0. FitsTask(task[w]) /\ Reads(task[w])
  BY ViewNow DEF GroupTypeInv
<1>1. UNCHANGED <<chan, member, shown>> /\ task[w].pc \in {"GetChannelByID", "IsDMMember", "IsTargetMember"}
  BY DEF GetChannelByID, IsDMMember, IsTargetMember, dm, clients
<1>2. \A u \in Person : ~Owes(task[w], u)
  BY <1>1 DEF Owes
<1>3. task[w].op # "CreateDMChannel"
  BY <1>0, <1>1 DEF FitsTask, Reach, CallOps
<1>4. CASE Answer(w)
  BY <1>1, <1>2, <1>4, ViewReturn
<1>5. CASE GetChannelByID(w) /\ ~Answer(w)
  <2>1. chan = "live" /\ (Advance(w, "DMMembers") \/ Advance(w, "IsDMMember"))
    BY <1>5 DEF GetChannelByID, AdvanceIf
  <2> QED BY <1>1, <1>2, <1>3, <2>1, ViewGoto DEF TaskPC
<1>6. CASE IsDMMember(w) /\ ~Answer(w)
  <2>1. task[w].pc = "IsDMMember"
    BY <1>6 DEF IsDMMember
  <2>2. PICK pc \in {"CreateRoom", "DMMembers", "RemoveParticipant", "IsTargetMember"} :
            pc = AfterIsDMMember[task[w].op]
    BY <1>0, <2>1 DEF FitsTask, Reach, AfterIsDMMember, CallOps
  <2>3. Advance(w, pc)
    BY <1>6, <2>2 DEF IsDMMember, AdvanceIf
  <2>4. task[w].op \in {"AddDMGroupMember", "RemoveDMGroupMember"} => chan = "live"
    BY <1>0, <2>1 DEF Reads
  <2> QED BY <1>1, <1>2, <1>3, <2>3, <2>4, ViewGoto DEF TaskPC
<1>7. CASE IsTargetMember(w) /\ ~Answer(w)
  <2>1. task[w].pc = "IsTargetMember" /\ (Advance(w, "AddMember") \/ Advance(w, "DMMembers"))
    BY <1>7 DEF IsTargetMember, AdvanceIf
  <2>2. task[w].op \in {"AddDMGroupMember", "RemoveDMGroupMember"} => chan = "live"
    BY <1>0, <2>1 DEF Reads
  <2> QED BY <1>1, <1>2, <1>3, <2>1, <2>2, ViewGoto DEF TaskPC
<1> QED BY <1>4, <1>5, <1>6, <1>7

LEMMA ViewDMMembers ==
  ASSUME GroupTypeInv, NEW w \in Server, Undisturbed(w), ViewInv, DMMembers(w)
  PROVE  ViewInv'
<1>0. FitsTask(task[w]) /\ Reads(task[w]) /\ member \in SUBSET Person
  BY ViewNow DEF GroupTypeInv
<1>1. task[w].pc = "DMMembers" /\ UNCHANGED <<chan, member, shown>> /\ WithMembers(w, member)
  BY DEF DMMembers, dm, clients
<1>2. PICK j \in Task :
            /\ TaskBecomes(w, j)
            /\ j.op = task[w].op /\ j.user = task[w].user /\ j.target = task[w].target /\ j.add = task[w].add
            /\ j.to = member /\ j.stayed = task[w].stayed
            /\ j.op = "LeaveDMCall" => j.members = member
            /\ j.event # "ENDED"
            /\ j.pc = AfterDMMembers(j.op) /\ FitsTask(j)
  BY <1>0, <1>1, WithMembersJob
<1>3. \/ j.op \in CallOps /\ j.pc = "Publish"
      \/ j.op = "AddDMGroupMember" /\ j.pc = "Profiles" /\ chan = "live"
      \/ j.op = "RemoveDMGroupMember" /\ j.pc = "RemoveMember" /\ chan = "live"
      \/ j.op = "DeleteChannel" /\ j.pc = "DeleteRow"
  BY <1>0, <1>1, <1>2 DEF FitsTask, Reach, Reads, AfterDMMembers, CallOps
<1>4. Reads(j)
  BY <1>2, <1>3 DEF Reads, CallOps, GroupOps
<1>5. \A u \in Person : Owes(task[w], u) => Owes(j, u)
  BY <1>1, <1>2, <1>3 DEF Owes, CallOps, GroupOps
<1> QED BY <1>1, <1>2, <1>4, <1>5, ViewOn

LEMMA ViewProfiles ==
  ASSUME GroupTypeInv, NEW w \in Server, Undisturbed(w), ViewInv, Profiles(w)
  PROVE  ViewInv'
<1>0. FitsTask(task[w]) /\ Reads(task[w])
  BY ViewNow DEF GroupTypeInv
<1>1. task[w].pc = "Profiles" /\ UNCHANGED <<chan, member, shown>>
  BY DEF Profiles, dm, clients
<1>2. PICK j \in Task :
            /\ TaskBecomes(w, j)
            /\ j.pc = "Publish" /\ j.profiles = member /\ j.op = task[w].op /\ j.user = task[w].user
            /\ j.target = task[w].target /\ j.to = task[w].to /\ j.event = task[w].event
            /\ j.stayed = task[w].stayed
  BY ProfilesJob
<1>3. task[w].op \in {"AddDMGroupMember", "RemoveDMGroupMember", "CreateDMChannel"}
  BY <1>0, <1>1 DEF FitsTask, Reach
<1>4. Reads(j)
  BY <1>0, <1>1, <1>2, <1>3 DEF Reads
<1>5. \A u \in Person : Owes(task[w], u) => Owes(j, u)
  BY <1>1, <1>2 DEF Owes
<1> QED BY <1>1, <1>2, <1>4, <1>5, ViewOn

LEMMA ViewCreateRow ==
  ASSUME GroupTypeInv, NEW w \in Server, Undisturbed(w), ViewInv, CreateRow(w)
  PROVE  ViewInv'
<1>0. FitsTask(task[w])
  BY DEF GroupTypeInv
<1>1. /\ task[w].pc = "CreateRow" /\ chan = "none" /\ chan' = "live" /\ member = {} /\ member' = {}
      /\ UNCHANGED shown
  BY ViewNow DEF CreateRow, clients
<1>2. PICK j \in Task :
            /\ TaskBecomes(w, j)
            /\ j.pc = "AddMember" /\ j.target = task[w].user /\ j.to = {task[w].user} \cup task[w].add
            /\ j.op = task[w].op /\ j.user = task[w].user /\ j.add = task[w].add
            /\ j.event = task[w].event /\ j.stayed = task[w].stayed
  BY CreateRowJob
<1>3. j.op = "CreateDMChannel"
  BY <1>0, <1>1, <1>2 DEF FitsTask, Reach
<1>4. Reads(j)'
  BY <1>1, <1>2, <1>3 DEF Reads
<1>5. \A u \in Person : Right(u)
  BY <1>1, ViewNow DEF Owes
<1>6. \A u \in Person : Right(u)'
  BY <1>1, <1>5 DEF Right
<1> QED BY <1>1, <1>2, <1>4, <1>6, ViewMove

LEMMA ViewAddMember ==
  ASSUME GroupTypeInv, NEW w \in Server, Undisturbed(w), ViewInv, AddMember(w)
  PROVE  ViewInv'
<1>0. FitsTask(task[w]) /\ Reads(task[w])
  BY ViewNow DEF GroupTypeInv
<1>1. task[w].pc = "AddMember" /\ member' = member \cup {task[w].target} /\ UNCHANGED <<chan, shown>>
  BY DEF AddMember, clients
<1>2. chan = "live" /\ task[w].op \in {"AddDMGroupMember", "CreateDMChannel"}
  BY <1>0, <1>1 DEF Reads, FitsTask, Reach
<1>3. \A u \in Person : Right(u) /\ u \notin member' => Right(u)'
  BY <1>1 DEF Right
<1>4. CASE task[w].op = "AddDMGroupMember"
  <2>1. Advance(w, "DMMembers")
    BY <1>4 DEF AddMember
  <2>2. PICK j \in Task :
            /\ TaskBecomes(w, j)
            /\ j.op = task[w].op /\ j.pc = "DMMembers" /\ j.user = task[w].user /\ j.target = task[w].target
            /\ j.add = task[w].add /\ j.members = task[w].members /\ j.to = task[w].to
            /\ j.profiles = task[w].profiles /\ j.event = task[w].event /\ j.stayed = task[w].stayed
    BY <2>1, AdvanceTask DEF TaskPC
  <2>3. Reads(j)'
    BY <1>1, <1>2, <1>4, <2>2 DEF Reads
  <2>4. \A u \in Person : u \in member' => Owes(j, u)'
    BY <1>4, <2>2 DEF Owes, GroupOps
  <2>5. \A u \in Person : Right(u)
    BY <1>1, <1>4, ViewNow DEF Owes
  <2> QED BY <1>1, <1>2, <1>3, <2>2, <2>3, <2>4, <2>5, ViewMove
<1>5. CASE task[w].op = "CreateDMChannel"
  <2>1. member' \cup task[w].add \subseteq task[w].to
    BY <1>0, <1>1, <1>5 DEF Reads
  <2>2. PICK j \in Task :
            /\ TaskBecomes(w, j) /\ j.op = "CreateDMChannel" /\ j.to = task[w].to
            /\ \/ j.pc = "Profiles"
               \/ j.pc = "AddMember" /\ j.target \in task[w].add /\ j.add \subseteq task[w].add
    <3>1. CASE task[w].add = {}
      <4>1. task' = [task EXCEPT ![w].event = "CREATE", ![w].pc = "Profiles"]
        BY <1>5, <3>1 DEF AddMember
      <4> QED BY <1>5, <4>1, AllAddedJob
    <3>2. CASE task[w].add # {}
      <4>1. PICK u \in task[w].add : task' = [task EXCEPT ![w].target = u, ![w].add = @ \ {u}]
        BY <1>5, <3>2 DEF AddMember
      <4>2. PICK j \in Task :
              /\ TaskBecomes(w, j)
              /\ j.pc = task[w].pc /\ j.target = u /\ u \in Person /\ j.add = task[w].add \ {u} /\ j.to = task[w].to
              /\ j.op = task[w].op /\ j.user = task[w].user /\ j.event = task[w].event
              /\ j.stayed = task[w].stayed
        BY <4>1, AddNextJob, Zenon
      <4> QED BY <1>1, <1>5, <4>2
    <3> QED BY <3>1, <3>2
  <2>3. Reads(j)'
    BY <1>1, <1>2, <2>1, <2>2 DEF Reads, GroupOps
  <2>4. \A u \in Person : u \in task[w].to => Owes(j, u)'
    BY <2>2 DEF Owes, GroupOps
  <2>5. \A u \in Person : u \notin task[w].to => Right(u)'
    BY <1>1, <1>3, <2>1, ViewNow DEF Owes
  <2> QED BY <1>1, <1>2, <2>2, <2>3, <2>4, <2>5, ViewMove
<1> QED BY <1>2, <1>4, <1>5

LEMMA ViewRemoveMember ==
  ASSUME GroupTypeInv, NEW w \in Server, Undisturbed(w), ViewInv, RemoveMember(w)
  PROVE  ViewInv'
<1>0. FitsTask(task[w]) /\ Reads(task[w])
  BY ViewNow DEF GroupTypeInv
<1>1. /\ task[w].pc = "RemoveMember" /\ member' = member \ {task[w].target} /\ UNCHANGED <<chan, shown>>
      /\ Advance(w, "Profiles")
  BY DEF RemoveMember
<1>2. chan = "live" /\ task[w].op = "RemoveDMGroupMember" /\ task[w].to = member
  BY <1>0, <1>1 DEF Reads, FitsTask, Reach, GroupOps
<1>3. PICK j \in Task :
            /\ TaskBecomes(w, j)
            /\ j.op = task[w].op /\ j.pc = "Profiles" /\ j.user = task[w].user /\ j.target = task[w].target
            /\ j.add = task[w].add /\ j.members = task[w].members /\ j.to = task[w].to
            /\ j.profiles = task[w].profiles /\ j.event = task[w].event /\ j.stayed = task[w].stayed
  BY <1>1, AdvanceTask DEF TaskPC
<1>4. Reads(j)'
  BY <1>1, <1>2, <1>3 DEF Reads
<1>5. \A u \in Person : u \in member => Owes(j, u)'
  BY <1>2, <1>3 DEF Owes, GroupOps
<1>6. \A u \in Person : u \notin member => Right(u)'
  BY <1>1, ViewNow DEF Owes, Right
<1> QED BY <1>1, <1>2, <1>3, <1>4, <1>5, <1>6, ViewMove

LEMMA ViewDeleteRow ==
  ASSUME GroupTypeInv, NEW w \in Server, Undisturbed(w), ViewInv, DeleteRow(w)
  PROVE  ViewInv'
<1>0. FitsTask(task[w]) /\ Reads(task[w])
  BY ViewNow DEF GroupTypeInv
<1>1. task[w].pc = "DeleteRow" /\ chan' = "deleted" /\ UNCHANGED <<member, shown>>
  BY DEF DeleteRow, clients
<1>2. task[w].op = "DeleteChannel" /\ task[w].to = member
  BY <1>0, <1>1 DEF Reads, FitsTask, Reach, GroupOps
<1>3. PICK j \in Task :
            /\ TaskBecomes(w, j)
            /\ j.pc = "Publish" /\ j.event = "DELETE" /\ j.op = task[w].op /\ j.user = task[w].user
            /\ j.target = task[w].target /\ j.to = task[w].to /\ j.stayed = task[w].stayed
  BY DeleteRowJob
<1>4. Reads(j)'
  BY <1>1, <1>2, <1>3 DEF Reads
<1>5. \A u \in Person : u \in member => Owes(j, u)'
  BY <1>2, <1>3 DEF Owes, GroupOps
<1>6. \A u \in Person : u \notin member => Right(u)'
  BY <1>1, ViewNow DEF Owes, Right
<1> QED BY <1>1, <1>3, <1>4, <1>5, <1>6, ViewMove

LEMMA ViewPublish ==
  ASSUME GroupTypeInv, NEW w \in Server, Undisturbed(w), ViewInv, Publish(w)
  PROVE  ViewInv'
<1>0. FitsTask(task[w]) /\ Reads(task[w]) /\ shown \in [Person -> SUBSET Person] /\ task[w].to \subseteq Person
  BY ViewNow DEF GroupTypeInv, Task
<1>1. task[w].pc = "Publish" /\ UNCHANGED <<chan, member>>
  BY DEF Publish, dm
<1>2. PICK u \in task[w].to : Told(u, w) /\ task' = [task EXCEPT ![w].to = @ \ {u}]
  BY DEF Publish
<1>3. task' = [task EXCEPT ![w].to = @ \ {u}]
  BY <1>2
<1>4. PICK j \in Task : TaskBecomes(w, j) /\ OneLess(task[w], u, j)
  BY <1>3, ToldJob
<1>5. Reads(j)'
  BY <1>0, <1>1, <1>4 DEF Reads, OneLess
<1>6. \A x \in Person : x # u /\ Owes(task[w], x) => Owes(j, x)'
  BY <1>1, <1>4 DEF Owes, OneLess
<1>7. \A x \in Person : x # u => shown'[x] = shown[x]
  BY <1>0, <1>2 DEF Told
<1>8. \A x \in Person : x # u /\ Right(x) => Right(x)'
  BY <1>1, <1>7 DEF Right
<1>9. u \in Person /\ (Right(u)' \/ Owes(j, u)')
  <2>1. CASE task[w].op \in CallOps
    <3>1. ~Owes(task[w], u) /\ u \in Person
      BY <1>0, <2>1 DEF Owes, CallOps, GroupOps
    <3>2. task[w].event \notin {"CREATE", "UPDATE", "DELETE"}
      BY <1>0, <1>1, <2>1 DEF FitsTask, EventOf, CallOps
    <3>3. shown' = shown
      BY <1>2, <3>2 DEF Told
    <3> QED BY <1>1, <3>1, <3>3, ViewNow DEF Right
  <2>2. CASE task[w].op \in GroupOps \ {"DeleteChannel"}
    <3>1. task[w].event \in {"CREATE", "UPDATE"}
      BY <1>0, <1>1, <2>2 DEF FitsTask, EventOf, GroupOps
    <3>2. task[w].profiles = member /\ chan = "live"
      BY <1>0, <1>1, <2>2 DEF Reads, GroupOps
    <3>3. shown'[u] = member
      BY <1>0, <1>2, <3>1, <3>2 DEF Told
    <3> QED BY <1>0, <1>1, <3>2, <3>3 DEF Right
  <2>3. CASE task[w].op = "DeleteChannel"
    <3>1. task[w].event = "DELETE" /\ chan = "deleted"
      BY <1>0, <1>1, <2>3 DEF FitsTask, EventOf, Reads
    <3>2. shown'[u] = {}
      BY <1>0, <1>2, <3>1 DEF Told
    <3> QED BY <1>0, <1>1, <3>1, <3>2 DEF Right
  <2> QED BY <1>0, <1>1, <2>1, <2>2, <2>3 DEF FitsTask, Reach
<1> QED BY <1>1, <1>4, <1>5, <1>6, <1>8, <1>9, ViewNow, ViewMove

LEMMA ViewPublished ==
  ASSUME GroupTypeInv, NEW w \in Server, Undisturbed(w), ViewInv, Published(w)
  PROVE  ViewInv'
<1>0. FitsTask(task[w])
  BY DEF GroupTypeInv
<1>1. task[w].pc = "Publish" /\ task[w].to = {} /\ UNCHANGED <<chan, member, shown>>
  BY DEF Published, dm
<1>2. \A u \in Person : ~Owes(task[w], u)
  BY <1>1 DEF Owes
<1>3. CASE task[w].event = "PARTICIPANT_LEFT"
  <2>1. task[w].op \in CallOps
    BY <1>0, <1>1, <1>3 DEF FitsTask, EventOf, CallOps
  <2>2. PICK j \in Task : TaskMove(w, j)
    BY GroupStepMove DEF GroupStep
  <2> QED BY <1>1, <2>1, <2>2, ViewCall
<1>4. CASE task[w].event # "PARTICIPANT_LEFT"
  <2>1. Answer(w)
    BY <1>4 DEF Published, AdvanceIf
  <2> QED BY <1>1, <1>2, <2>1, ViewReturn
<1> QED BY <1>3, <1>4

LEMMA ViewRoom ==
  ASSUME GroupTypeInv, NEW w \in Server, Undisturbed(w), ViewInv,
         CreateCallRoom(w) \/ RemoveParticipant(w) \/ ListCallers(w)
  PROVE  ViewInv'
<1>1. task[w].pc \in {"CreateRoom", "RemoveParticipant", "ListParticipants"} /\ UNCHANGED <<chan, member, shown>>
  BY DEF CreateCallRoom, RemoveParticipant, ListCallers, dm, clients
<1>2. task[w].op \in CallOps
  BY <1>1 DEF GroupTypeInv, FitsTask, Reach, CallOps
<1>3. PICK j \in Task : TaskMove(w, j)
  BY GroupStepMove DEF GroupStep
<1> QED BY <1>1, <1>2, <1>3, ViewCall

LEMMA ViewStep ==
  ASSUME GroupTypeInv, NEW w \in Server, Undisturbed(w), ViewInv, GroupStep(w)
  PROVE  ViewInv'
  BY ViewChecks, ViewDMMembers, ViewProfiles, ViewCreateRow, ViewAddMember, ViewRemoveMember,
     ViewDeleteRow, ViewRoom, ViewPublish, ViewPublished DEF GroupStep

LEMMA ViewNext ==
  ASSUME GroupTypeInv, GroupSerialInv, ViewInv, [GroupNext]_groupVars
  PROVE  ViewInv'
<1>1. CASE UNCHANGED groupVars
  BY <1>1 DEF ViewInv, Reads, Right, Owes, groupVars, dm, clients, history
<1>2. CASE GroupNext
  <2> SUFFICES ASSUME oneByOne', groupFaults' = 0 PROVE ViewInv'
    BY DEF ViewInv
  <2>1. oneByOne
    BY <1>2, SerialNext
  <2>2. CASE GroupOutside
    <3>1. GroupFrame
      BY <2>2, GroupOutsideFrame
    <3>2. groupFaults = 0 /\ UNCHANGED <<chan, member, shown>> /\ \A w \in Server : Alike(task[w], task'[w])
      BY <3>1 DEF GroupFrame, dm
    <3>3. \A w \in Server : Reads(task[w])'
      BY <2>1, <3>2 DEF ViewInv, Reads, Alike
    <3>4. \A u \in Person, w \in Server : Owes(task[w], u) => Owes(task[w], u)'
      BY <3>2 DEF Owes, Alike
    <3>5. \A u \in Person : Right(u) => Right(u)'
      BY <3>2 DEF Right
    <3> QED BY <2>1, <3>2, <3>3, <3>4, <3>5 DEF ViewInv
  <2>3. ASSUME NEW w \in Server, ServerStep(w) PROVE ViewInv'
    <3>1. groupFaults = 0 /\ (Arrive(w) \/ GroupStep(w))
      BY <2>3, NoFault
    <3>2. Undisturbed(w)
      BY <1>2, <2>1, <2>3, <3>1, AloneTask DEF Undisturbed
    <3> QED BY <3>1, <3>2, ViewArrive, ViewStep
  <2> QED BY <1>2, <2>2, <2>3, GroupNextCases
<1> QED BY <1>1, <1>2

LEMMA ViewInit == GroupInit => GroupSerialInv /\ ViewInv
<1> SUFFICES ASSUME GroupInit PROVE GroupSerialInv /\ ViewInv
  OBVIOUS
<1>1. \A w \in Server : task[w].pc = "idle" /\ task[w].op = "none"
  BY FreeTask DEF GroupInit
<1>2. \A w \in Server : Reads(task[w])
  BY <1>1 DEF Reads, GroupOps
<1>3. \A u \in Person : Right(u)
  BY DEF GroupInit, Right
<1> QED BY <1>1, <1>2, <1>3 DEF GroupInit, GroupSerialInv, NoOverlap, ViewInv

\* With RPCs that do not overlap and calls that do not fail, once an RPC has been
\* answered every member is shown the group's members, whoever was removed a list
\* without themselves and nobody a deleted group: for any number of members, with calls
\* held meanwhile and LiveKit losing whom it likes.
THEOREM MembersSeeTheGroup == GroupSpec => []GroupViewAgrees
<1>1. GroupTypeInv /\ GroupSerialInv /\ ViewInv /\ [GroupNext]_groupVars => GroupSerialInv' /\ ViewInv'
  BY SerialNext, ViewNext
<1>2. ASSUME GroupTypeInv, ViewInv PROVE GroupViewAgrees
  <2>1. SUFFICES ASSUME oneByOne, groupFaults = 0, AllAnswered, NEW u \in Person PROVE Right(u)
    BY DEF GroupViewAgrees, Right
  <2>2. \A w \in Server : ~Owes(task[w], u)
    BY <2>1 DEF AllAnswered, Owes
  <2> QED BY <1>2, <2>1, <2>2 DEF ViewInv
<1> QED BY <1>1, <1>2, ViewInit, Typed, PTL DEF GroupSpec
=============================================================================
