--------------------------- MODULE PresenceProofs ---------------------------
(***************************************************************************)
(* Theorems about Presence, for any number of streams and RPCs of the user *)
(* at once and any number of failing calls and crashes, and about Streams, *)
(* for any number of clients and rooms.                                    *)
(***************************************************************************)
EXTENDS Presence, Streams, SequenceTheorems, TLAPS

(* Type correctness.  What a running hook or RPC is about to write fits what  *)
(* it is: this is what keeps a free text out of the hash and of the events.   *)

Job == [op : PresenceOps \cup {"none", "OnUserConnect", "OnUserDisconnect"},
        pc : {"idle", "GetStatusIntent", "UpdateUser", "HSet", "Publish", "open"},
        status : Status \cup Choice \cup {"unspecified", "kept", "none"}]

Hooks == {"OnUserConnect", "OnUserDisconnect"}

\* The RPCs that publish from the row of users.
Profile == {"UpdateStatus", "UpdateUser", "UpdateUsername"}

WellFormed(a) ==
    LET j == job[a]
    IN  /\ j.pc \in {"idle", "open"} <=> j.op = "none"
        /\ j.pc = "GetStatusIntent" => j.op = "OnUserConnect"
        /\ j.pc = "UpdateUser" => j.op \in Profile /\ j.status \in Choice \cup {"kept"}
        /\ j.pc = "HSet" => /\ j.op \in Hooks \cup {"UpdatePresence", "Logout"}
                            /\ j.status \in Status
        /\ j.pc = "Publish" => j.status \in Status \cup {"unspecified"}
        /\ j.op \in {"OnUserDisconnect", "Logout"} => j.status = "offline"
        /\ j.op \in Hooks => a \in Session

TypeInv == PresenceTypeOK /\ \A a \in Actor : WellFormed(a)

LEMMA IdleType == Idle \in Job /\ Idle.pc = "idle" /\ Idle.op = "none" /\ Idle.status = "none"
  BY DEF Idle, Job

LEMMA JobExcept ==
  ASSUME NEW j \in Job, NEW pc, NEW status
  PROVE  [j EXCEPT !.pc = pc, !.status = status] = [op |-> j.op, pc |-> pc, status |-> status]
<1>1. j = [op |-> j.op, pc |-> j.pc, status |-> j.status]
  BY DEF Job
<1>2. [j EXCEPT !.pc = pc] = [op |-> j.op, pc |-> pc, status |-> j.status]
  BY <1>1
<1>3. [[op |-> j.op, pc |-> pc, status |-> j.status] EXCEPT !.status = status]
        = [op |-> j.op, pc |-> pc, status |-> status]
  OBVIOUS
<1> QED BY <1>2, <1>3

\* The jobs after the step that gives actor a the job j.
LEMMA JobType ==
  ASSUME TypeInv, NEW a \in Actor, NEW j \in Job, job' = [job EXCEPT ![a] = j],
         /\ j.pc \in {"idle", "open"} <=> j.op = "none"
         /\ j.pc = "GetStatusIntent" => j.op = "OnUserConnect"
         /\ j.pc = "UpdateUser" => j.op \in Profile /\ j.status \in Choice \cup {"kept"}
         /\ j.pc = "HSet" => /\ j.op \in Hooks \cup {"UpdatePresence", "Logout"}
                             /\ j.status \in Status
         /\ j.pc = "Publish" => j.status \in Status \cup {"unspecified"}
         /\ j.op \in {"OnUserDisconnect", "Logout"} => j.status = "offline"
         /\ j.op \in Hooks => a \in Session
  PROVE  job' \in [Actor -> Job] /\ \A b \in Actor : WellFormed(b)'
<1>1. \A b \in Actor \ {a} : job'[b] = job[b]
  OBVIOUS
<1>2. job \in [Actor -> Job]
  BY DEF TypeInv, PresenceTypeOK, Job
<1>3. job'[a] = j
  BY <1>2
<1>4. job' \in [Actor -> Job]
  BY <1>2
<1>5. WellFormed(a)'
  BY <1>3 DEF WellFormed
<1>6. \A b \in Actor \ {a} : WellFormed(b)'
  BY <1>1 DEF WellFormed, TypeInv
<1> QED BY <1>4, <1>5, <1>6

LEMMA StartType ==
  ASSUME TypeInv, NEW a \in Actor, NEW op, NEW pc, NEW status, Start(a, op, pc, status),
         [op |-> op, pc |-> pc, status |-> status] \in Job,
         /\ pc \in {"idle", "open"} <=> op = "none"
         /\ pc = "GetStatusIntent" => op = "OnUserConnect"
         /\ pc = "UpdateUser" => op \in Profile /\ status \in Choice \cup {"kept"}
         /\ pc = "HSet" => op \in Hooks \cup {"UpdatePresence", "Logout"} /\ status \in Status
         /\ pc # "Publish"
         /\ op \in {"OnUserDisconnect", "Logout"} => status = "offline"
         /\ op \in Hooks => a \in Session
  PROVE  job' \in [Actor -> Job] /\ \A b \in Actor : WellFormed(b)'
<1>1. job' = [job EXCEPT ![a] = [op |-> op, pc |-> pc, status |-> status]]
  BY DEF Start
<1> QED BY <1>1, JobType

LEMMA DoneType ==
  ASSUME TypeInv, NEW a \in Actor, Done(a)
  PROVE  job' \in [Actor -> Job] /\ \A b \in Actor : WellFormed(b)'
<1>1. CASE job' = [job EXCEPT ![a] = Idle]
  BY <1>1, IdleType, JobType DEF Hooks
<1>2. CASE job' = [job EXCEPT ![a] = [Idle EXCEPT !.pc = "open"]]
  <2>1. [Idle EXCEPT !.pc = "open"] = [op |-> "none", pc |-> "open", status |-> "none"]
    BY DEF Idle
  <2>2. [op |-> "none", pc |-> "open", status |-> "none"] \in Job
    BY DEF Job
  <2> QED BY <1>2, <2>1, <2>2, JobType DEF Hooks
<1> QED BY <1>1, <1>2 DEF Done

LEMMA ActorIs == Session \subseteq Actor /\ Worker \subseteq Actor
  BY DEF Actor

LEMMA JobsType ==
  ASSUME TypeInv, UserStep
  PROVE  job' \in [Actor -> Job] /\ \A b \in Actor : WellFormed(b)'
<1> USE ActorIs
<1>0. job \in [Actor -> Job]
  BY DEF TypeInv, PresenceTypeOK, Job
<1>1. ASSUME NEW s \in Session, OpenStream(s)
      PROVE  job' \in [Actor -> Job] /\ \A b \in Actor : WellFormed(b)'
  BY <1>1, StartType DEF OpenStream, Job, Hooks
<1>2. ASSUME NEW s \in Session, GetStatusIntent(s)
      PROVE  job' \in [Actor -> Job] /\ \A b \in Actor : WellFormed(b)'
  <2>1. PICK st \in Status : job' = [job EXCEPT ![s].pc = "HSet", ![s].status = st]
    BY <1>2 DEF GetStatusIntent, StatusOf, Status
  <2>2. job[s].op = "OnUserConnect"
    BY <1>2 DEF GetStatusIntent, TypeInv, WellFormed
  <2>3. [job[s] EXCEPT !.pc = "HSet", !.status = st]
            = [op |-> "OnUserConnect", pc |-> "HSet", status |-> st]
    BY <1>0, <2>2, JobExcept
  <2>4. job' = [job EXCEPT ![s] = [op |-> "OnUserConnect", pc |-> "HSet", status |-> st]]
    BY <1>0, <2>1, <2>3
  <2>5. [op |-> "OnUserConnect", pc |-> "HSet", status |-> st] \in Job
    BY DEF Job
  <2> QED BY <2>4, <2>5, JobType DEF Hooks
<1>3. ASSUME NEW s \in Session, CloseStream(s)
      PROVE  job' \in [Actor -> Job] /\ \A b \in Actor : WellFormed(b)'
  <2>1. [op |-> "OnUserDisconnect", pc |-> "HSet", status |-> "offline"] \in Job
    BY DEF Job, Status
  <2> QED BY <1>3, <2>1, JobType DEF CloseStream, Hooks, Status
<1>4. ASSUME NEW w \in Worker, UpdatePresence(w) \/ Logout(w) \/ UpdateStatus(w)
      PROVE  job' \in [Actor -> Job] /\ \A b \in Actor : WellFormed(b)'
  <2>1. CASE UpdatePresence(w)
    <3>1. PICK st \in Choice \cap Status : Start(w, "UpdatePresence", "HSet", st)
      BY <2>1 DEF UpdatePresence
    <3>2. [op |-> "UpdatePresence", pc |-> "HSet", status |-> st] \in Job
      BY DEF Job, PresenceOps
    <3> QED BY <3>1, <3>2, StartType DEF Hooks
  <2>2. CASE Logout(w)
    <3>1. [op |-> "Logout", pc |-> "HSet", status |-> "offline"] \in Job
      BY DEF Job, PresenceOps, Status
    <3> QED BY <2>2, <3>1, StartType DEF Logout, Hooks, Status
  <2>3. CASE UpdateStatus(w)
    <3>1. PICK op \in Profile, text \in Choice \cup {"kept"} : Start(w, op, "UpdateUser", text)
      BY <2>3 DEF UpdateStatus, Profile
    <3>2. [op |-> op, pc |-> "UpdateUser", status |-> text] \in Job /\ op \notin Hooks
            /\ op \notin {"none", "Logout"}
      BY DEF Job, PresenceOps, Profile, Hooks
    <3> QED BY <3>1, <3>2, StartType DEF Hooks
  <2> QED BY <1>4, <2>1, <2>2, <2>3
<1>5. ASSUME NEW w \in Worker, UpdateUser(w)
      PROVE  job' \in [Actor -> Job] /\ \A b \in Actor : WellFormed(b)'
  <2>1. job[w].op \in Profile
    BY <1>5 DEF UpdateUser, TypeInv, WellFormed
  <2> DEFINE e == IF job[w].op = "UpdateUsername" THEN "unspecified" ELSE StreamStatusOf(intent')
  <2>2. CASE job' = [job EXCEPT ![w].pc = "Publish", ![w].status = e]
    <3>1. e \in Status \cup {"unspecified"}
      BY DEF StreamStatusOf
    <3>2. PICK ev \in Status \cup {"unspecified"} : ev = e
      BY <3>1
    <3>3. [job[w] EXCEPT !.pc = "Publish", !.status = ev]
            = [op |-> job[w].op, pc |-> "Publish", status |-> ev]
      BY <1>0, JobExcept
    <3>4. job' = [job EXCEPT ![w] = [op |-> job[w].op, pc |-> "Publish", status |-> ev]]
      BY <1>0, <2>2, <3>2, <3>3
    <3>5. [op |-> job[w].op, pc |-> "Publish", status |-> ev] \in Job
      BY <1>0 DEF Job
    <3> HIDE DEF e
    <3> QED BY <2>1, <3>4, <3>5, JobType DEF Hooks, Profile
  <2> QED BY <1>5, <2>2, DoneType DEF UpdateUser
<1>6. ASSUME NEW a \in Actor, HSet(a)
      PROVE  job' \in [Actor -> Job] /\ \A b \in Actor : WellFormed(b)'
  <2>1. CASE job' = [job EXCEPT ![a].pc = "Publish"]
    <3>1. /\ job[a].op \in Hooks \cup {"UpdatePresence", "Logout"} /\ job[a].status \in Status
          /\ job[a].op \in {"OnUserDisconnect", "Logout"} => job[a].status = "offline"
          /\ job[a].op \in Hooks => a \in Session
      BY <1>6 DEF HSet, TypeInv, WellFormed
    <3>2. [job[a] EXCEPT !.pc = "Publish"]
            = [op |-> job[a].op, pc |-> "Publish", status |-> job[a].status]
      BY <1>0 DEF Job
    <3>3. job' = [job EXCEPT ![a] = [op |-> job[a].op, pc |-> "Publish", status |-> job[a].status]]
      BY <1>0, <2>1, <3>2
    <3>4. [op |-> job[a].op, pc |-> "Publish", status |-> job[a].status] \in Job
      BY <1>0 DEF Job
    <3>5. job[a].op # "none" /\ job[a].status \in Status \cup {"unspecified"}
      BY <3>1 DEF Hooks
    <3> QED BY <3>1, <3>3, <3>4, <3>5, JobType
  <2> QED BY <1>6, <2>1, DoneType DEF HSet
<1>7. ASSUME NEW a \in Actor, Publish(a)
      PROVE  job' \in [Actor -> Job] /\ \A b \in Actor : WellFormed(b)'
  BY <1>7, DoneType DEF Publish
<1>8. CASE Crash
  BY <1>8, IdleType DEF Crash, WellFormed, Hooks
<1> QED BY <1>1, <1>2, <1>3, <1>4, <1>5, <1>6, <1>7, <1>8 DEF UserStep

LEMMA SourceIs ==
  ASSUME NEW op
  PROVE  /\ SourceOf(op) \in {"hash", "users", "unset"}
         /\ op \in Profile <=> SourceOf(op) # "hash"
         /\ SourceOf(op) = "unset" <=> op = "UpdateUsername"
  BY DEF SourceOf, Profile

\* What is published is an event.
LEMMA EventType ==
  ASSUME TypeInv, NEW a \in Actor, Publish(a)
  PROVE  /\ EventOf(a) \in Event
         /\ EventOf(a).status = job[a].status /\ EventOf(a).from = SourceOf(job[a].op)
<1>1. job[a].status \in Status \cup {"unspecified"}
  BY DEF Publish, TypeInv, WellFormed
<1>2. SourceOf(job[a].op) \in {"hash", "users", "unset"}
  BY SourceIs
<1> QED BY <1>1, <1>2 DEF EventOf, Event

LEMMA UserStoreType ==
  ASSUME TypeInv, UserStep
  PROVE  /\ intent' \in Status \cup Choice /\ live' \in Status \cup {"absent"}
         /\ inbox' \in Seq(Event) /\ Len(inbox') <= MaxInFlight
         /\ faults' \in 0..MaxFaults /\ crashes' \in 0..MaxCrashes /\ unsettled' \in BOOLEAN
         /\ UNCHANGED <<friend, listening, cache, caching, seen>>
<1> USE ActorIs, PresenceConstants DEF TypeInv, PresenceTypeOK, stream, history
<1>1. ASSUME NEW s \in Session, OpenStream(s) \/ GetStatusIntent(s) \/ CloseStream(s)
      PROVE  /\ UNCHANGED <<intent, live, stream, crashes, unsettled>>
             /\ faults' \in 0..MaxFaults
  BY <1>1 DEF OpenStream, GetStatusIntent, CloseStream, Fault
<1>2. ASSUME NEW w \in Worker, UpdatePresence(w) \/ Logout(w) \/ UpdateStatus(w)
      PROVE  UNCHANGED <<intent, live, stream, history>>
  BY <1>2 DEF UpdatePresence, Logout, UpdateStatus
<1>3. ASSUME NEW w \in Worker, UpdateUser(w)
      PROVE  /\ UNCHANGED <<live, stream, crashes, unsettled>>
             /\ faults' \in 0..MaxFaults /\ intent' \in Status \cup Choice
  <2>1. job[w].status \in Choice \cup {"kept"}
    BY <1>3 DEF UpdateUser, WellFormed
  <2> QED BY <1>3, <2>1 DEF UpdateUser, Fault
<1>4. ASSUME NEW a \in Actor, HSet(a)
      PROVE  /\ UNCHANGED <<intent, stream, crashes>>
             /\ faults' \in 0..MaxFaults /\ live' \in Status \cup {"absent"}
             /\ unsettled' \in BOOLEAN
  <2>1. job[a].status \in Status
    BY <1>4 DEF HSet, WellFormed
  <2>2. unsettled' \in BOOLEAN
    BY <1>4 DEF HSet
  <2>3. faults' \in 0..MaxFaults
    BY <1>4 DEF HSet, Fault
  <2> QED BY <1>4, <2>1, <2>2, <2>3 DEF HSet
<1>5. ASSUME NEW a \in Actor, Publish(a)
      PROVE  /\ UNCHANGED <<intent, live, friend, listening, cache, caching, seen, history>>
             /\ inbox' \in Seq(Event) /\ Len(inbox') <= MaxInFlight
  <2>1. EventOf(a) \in Event /\ Len(inbox) < MaxInFlight /\ Len(inbox) \in Nat
    BY <1>5, EventType, LenProperties DEF Publish
  <2>2. /\ Append(inbox, EventOf(a)) \in Seq(Event)
        /\ Len(Append(inbox, EventOf(a))) = Len(inbox) + 1
    BY <2>1, AppendProperties
  <2> QED BY <1>5, <2>1, <2>2 DEF Publish
<1>6. CASE Crash
  BY <1>6 DEF Crash
<1> QED BY <1>1, <1>2, <1>3, <1>4, <1>5, <1>6 DEF UserStep

Screen == [status : Status \cup {"unspecified", "none"},
           via : {"none", "replay", "event", "intent", "read"}]

LEMMA ShownType ==
  ASSUME TypeInv, NEW e \in Event, NEW via \in {"replay", "event"}
  PROVE  Shown(e, via) \in Screen
<1>1. e.status \in Status \cup {"unspecified"}
  BY DEF Event
<1> QED BY <1>1 DEF Shown, Screen, TypeInv, PresenceTypeOK

LEMMA FriendType ==
  ASSUME TypeInv, FriendStep
  PROVE  /\ UNCHANGED <<intent, live, job, crashes, unsettled>>
         /\ faults' \in 0..MaxFaults
         /\ friend' \in {"closed", "Replay", "Subscribe", "open"}
         /\ listening' \in BOOLEAN
         /\ inbox' \in Seq(Event) /\ Len(inbox') <= MaxInFlight
         /\ cache' \in Event \cup {NoActivity} /\ caching' \in Event \cup {NoActivity}
         /\ seen' \in Screen
<1> USE PresenceConstants DEF TypeInv, PresenceTypeOK, server, history
<1>0. seen \in Screen
  BY DEF Screen
<1>1. CASE Watch \/ Subscribe \/ CacheEvent \/ CacheExpires
  <2>1. faults' \in 0..MaxFaults
    BY <1>1 DEF Watch, Subscribe, CacheEvent, CacheExpires, Fault
  <2>2. UNCHANGED <<intent, live, job, crashes, unsettled, inbox, seen>>
    BY <1>1 DEF Watch, Subscribe, CacheEvent, CacheExpires
  <2>3. /\ friend' \in {"closed", "Replay", "Subscribe", "open"} /\ listening' \in BOOLEAN
        /\ cache' \in Event \cup {NoActivity} /\ caching' \in Event \cup {NoActivity}
    BY <1>1 DEF Watch, Subscribe, CacheEvent, CacheExpires
  <2> QED BY <1>0, <2>1, <2>2, <2>3
<1>2. CASE Replay
  <2>1. seen' \in Screen
    BY <1>0, <1>2, ShownType DEF Replay
  <2> QED BY <1>2, <2>1 DEF Replay, Fault
<1>3. CASE Deliver
  <2>1. /\ Head(inbox) \in Event /\ Tail(inbox) \in Seq(Event)
        /\ Len(Tail(inbox)) = Len(inbox) - 1 /\ Len(inbox) \in Nat
    BY <1>3, HeadTailProperties, LenProperties DEF Deliver
  <2>2. seen' \in Screen
    BY <1>3, <2>1, ShownType DEF Deliver
  <2> QED BY <1>3, <2>1, <2>2 DEF Deliver
<1>4. CASE ReadPresence
  <2>1. View(live) \in Status
    BY DEF View, Status
  <2>2. seen' \in Screen
    BY <1>4, <2>1 DEF ReadPresence, Screen
  <2> QED BY <1>4, <2>2 DEF ReadPresence
<1>5. CASE Unwatch
  <2>1. <<>> \in Seq(Event) /\ Len(<<>>) = 0
    BY EmptySeq
  <2>2. Unknown \in Screen
    BY DEF Unknown, Screen
  <2>3. /\ UNCHANGED <<intent, live, job, crashes, unsettled, faults, cache>>
        /\ friend' = "closed" /\ listening' = FALSE /\ inbox' = <<>>
        /\ caching' = NoActivity /\ seen' = Unknown
    BY <1>5 DEF Unwatch
  <2>4. inbox' \in Seq(Event) /\ Len(inbox') <= MaxInFlight
    BY <2>1, <2>3
  <2>5. cache' \in Event \cup {NoActivity} /\ faults' \in 0..MaxFaults
    BY <2>3
  <2> QED BY <2>2, <2>3, <2>4, <2>5
<1> QED BY <1>1, <1>2, <1>3, <1>4, <1>5 DEF FriendStep

\* What the hash, the events and the running hooks and RPCs hold is well typed: whatever
\* text users.status has, only the four statuses reach the hash.
THEOREM TypeCorrect == Spec => []TypeInv
<1>1. Init => TypeInv
  <2>1. <<>> \in Seq(Event) /\ Len(<<>>) = 0
    BY EmptySeq
  <2> SUFFICES ASSUME Init PROVE TypeInv
    OBVIOUS
  <2>2. job \in [Actor -> Job] /\ \A a \in Actor : WellFormed(a)
    BY IdleType DEF Init, WellFormed, Hooks
  <2>3. seen \in Screen
    BY DEF Init, Unknown, Screen
  <2>4. faults \in 0..MaxFaults /\ crashes \in 0..MaxCrashes /\ Len(inbox) <= MaxInFlight
    BY <2>1, PresenceConstants DEF Init
  <2> QED BY <2>1, <2>2, <2>3, <2>4 DEF Init, TypeInv, PresenceTypeOK, Status, Job, Screen
<1>2. TypeInv /\ [Next]_vars => TypeInv'
  <2> SUFFICES ASSUME TypeInv, [Next]_vars PROVE TypeInv'
    OBVIOUS
  <2>1. CASE Next
    <3>0. serial' \in BOOLEAN /\ orderly' \in BOOLEAN
      BY <2>1 DEF Next
    <3>1. CASE UserStep
      BY <3>0, <3>1, JobsType, UserStoreType DEF TypeInv, PresenceTypeOK, Job
    <3>2. CASE FriendStep
      BY <3>0, <3>2, FriendType DEF TypeInv, PresenceTypeOK, WellFormed, Screen
    <3> QED BY <2>1, <3>1, <3>2 DEF Next
  <2>2. CASE UNCHANGED vars
    BY <2>2 DEF TypeInv, PresenceTypeOK, WellFormed, vars, server, stream, history
  <2> QED BY <2>1, <2>2
<1> QED BY <1>1, <1>2, PTL DEF Spec

-----------------------------------------------------------------------------
(* A hash that does not say offline is somebody's to put right: a stream is    *)
(* connecting, open, or about to write offline.                               *)

Minding(s) ==
    \/ job[s].op = "OnUserConnect"
    \/ job[s].pc = "open"
    \/ job[s].op = "OnUserDisconnect" /\ job[s].pc = "HSet"

MindedInv ==
    ~unsettled => View(live) = "offline" \/ \E s \in Session : Minding(s)

LEMMA DoneJob ==
  ASSUME TypeInv, NEW a \in Actor, Done(a)
  PROVE  /\ \A b \in Actor \ {a} : job'[b] = job[b]
         /\ job[a].op = "OnUserConnect" => job'[a].pc = "open" /\ job'[a].op = "none"
         /\ job[a].op # "OnUserConnect" => job'[a] = Idle
<1>1. [Idle EXCEPT !.pc = "open"] = [op |-> "none", pc |-> "open", status |-> "none"]
  BY DEF Idle
<1> QED BY <1>1 DEF TypeInv, PresenceTypeOK, Done

LEMMA StartJob ==
  ASSUME TypeInv, NEW a \in Actor, NEW op, NEW pc, NEW status, Start(a, op, pc, status)
  PROVE  /\ \A b \in Actor \ {a} : job'[b] = job[b]
         /\ job[a].pc = "idle"
         /\ job'[a].op = op /\ job'[a].pc = pc /\ job'[a].status = status
  BY DEF TypeInv, PresenceTypeOK, Start

\* An RPC of the user is no stream of the user.
LEMMA RPCStep ==
  ASSUME TypeInv, NEW w \in Worker,
         UpdatePresence(w) \/ Logout(w) \/ UpdateStatus(w) \/ UpdateUser(w)
  PROVE  /\ \A s \in Session : job'[s] = job[s]
         /\ UNCHANGED <<live, stream, unsettled>>
<1> USE ActorIs, PresenceConstants
<1>1. \A b \in Actor \ {w} : job'[b] = job[b]
  <2>1. CASE UpdateUser(w)
    BY <2>1, DoneJob DEF UpdateUser, TypeInv, PresenceTypeOK
  <2>2. CASE UpdatePresence(w) \/ Logout(w) \/ UpdateStatus(w)
    BY <2>2, StartJob DEF UpdatePresence, Logout, UpdateStatus
  <2> QED BY <2>1, <2>2
<1>2. UNCHANGED <<live, stream, unsettled>>
  BY DEF UpdatePresence, Logout, UpdateStatus, UpdateUser, history
<1> QED BY <1>1, <1>2

\* Where a stream's step takes it.
LEMMA StreamStep ==
  ASSUME TypeInv, NEW s \in Session, OpenStream(s) \/ GetStatusIntent(s) \/ CloseStream(s)
  PROVE  /\ \A b \in Actor \ {s} : job'[b] = job[b]
         /\ job'[s].op \in Hooks
         /\ Minding(s)'
         /\ UNCHANGED <<live, stream, unsettled, crashes>>
<1> USE ActorIs DEF TypeInv, PresenceTypeOK, Hooks
<1>1. CASE OpenStream(s)
  BY <1>1, StartJob DEF OpenStream, Minding, history
<1>2. CASE GetStatusIntent(s)
  <2>1. job[s].op = "OnUserConnect"
    BY <1>2 DEF GetStatusIntent, WellFormed
  <2>2. job'[s].op = job[s].op /\ \A b \in Actor \ {s} : job'[b] = job[b]
    BY <1>2 DEF GetStatusIntent
  <2> QED BY <1>2, <2>1, <2>2 DEF GetStatusIntent, Minding
<1>3. CASE CloseStream(s)
  BY <1>3 DEF CloseStream, Minding, history
<1> QED BY <1>1, <1>2, <1>3

\* What a write of the hash does, and a write that fails.
LEMMA HSetStep ==
  ASSUME TypeInv, NEW a \in Actor, HSet(a)
  PROVE  /\ \A b \in Actor \ {a} : job'[b] = job[b]
         /\ UNCHANGED <<stream, crashes>>
         /\ \/ /\ live' = job[a].status
               /\ job'[a].op = job[a].op /\ job'[a].pc = "Publish" /\ job'[a].status = job[a].status
               /\ unsettled' = (job[a].op = "UpdatePresence"
                                 \/ (unsettled /\ job[a].op # "OnUserDisconnect"))
            \/ /\ UNCHANGED live
               /\ Done(a)
               /\ unsettled' = (unsettled \/ job[a].op = "OnUserDisconnect")
<1> USE DEF TypeInv, PresenceTypeOK
<1>1. CASE live' = job[a].status /\ job' = [job EXCEPT ![a].pc = "Publish"]
  <2>1. /\ \A b \in Actor \ {a} : job'[b] = job[b]
        /\ job'[a].op = job[a].op /\ job'[a].pc = "Publish" /\ job'[a].status = job[a].status
    BY <1>1
  <2>2. CASE unsettled' = (job[a].op = "UpdatePresence"
                             \/ (unsettled /\ job[a].op # "OnUserDisconnect"))
    BY <1>1, <2>1, <2>2 DEF HSet
  <2>3. CASE Done(a) /\ UNCHANGED live /\ unsettled' = (unsettled \/ job[a].op = "OnUserDisconnect")
    BY <2>1, <2>3 DEF HSet
  <2> QED BY <2>2, <2>3 DEF HSet
<1>2. CASE Done(a) /\ UNCHANGED live /\ unsettled' = (unsettled \/ job[a].op = "OnUserDisconnect")
  BY <1>2, DoneJob DEF HSet
<1> QED BY <1>1, <1>2 DEF HSet

LEMMA MindedStep ==
  ASSUME TypeInv, MindedInv, UserStep
  PROVE  MindedInv'
<1> USE ActorIs
<1> SUFFICES ASSUME ~unsettled'
             PROVE  View(live') = "offline" \/ \E s \in Session : Minding(s)'
  BY DEF MindedInv, View
<1>1. ASSUME NEW s \in Session, OpenStream(s) \/ GetStatusIntent(s) \/ CloseStream(s)
      PROVE  \E r \in Session : Minding(r)'
  BY <1>1, StreamStep
<1>2. ASSUME NEW w \in Worker,
             UpdatePresence(w) \/ Logout(w) \/ UpdateStatus(w) \/ UpdateUser(w)
      PROVE  View(live') = "offline" \/ \E s \in Session : Minding(s)'
  BY <1>2, RPCStep DEF MindedInv, Minding
<1>3. ASSUME NEW a \in Actor, Done(a), UNCHANGED <<live, unsettled>>,
             job[a].pc \in {"HSet", "Publish"},
             job[a].op = "OnUserDisconnect" => job[a].pc = "Publish"
      PROVE  View(live') = "offline" \/ \E s \in Session : Minding(s)'
  <2>1. CASE job[a].op = "OnUserConnect"
    <3>1. a \in Session
      BY <2>1 DEF TypeInv, WellFormed, Hooks
    <3> QED BY <1>3, <2>1, <3>1, DoneJob DEF Minding
  <2>2. CASE job[a].op # "OnUserConnect"
    <3>1. ~Minding(a)
      BY <1>3, <2>2 DEF Minding
    <3>2. View(live) = "offline" \/ \E s \in Session \ {a} : Minding(s)
      BY <1>3, <3>1 DEF MindedInv
    <3> QED BY <1>3, <3>2, DoneJob DEF Minding
  <2> QED BY <2>1, <2>2
<1>4. ASSUME NEW a \in Actor, HSet(a)
      PROVE  View(live') = "offline" \/ \E s \in Session : Minding(s)'
  <2>0. /\ job[a].op \in {"OnUserConnect", "OnUserDisconnect", "UpdatePresence", "Logout"}
        /\ job[a].op \in {"OnUserDisconnect", "Logout"} => job[a].status = "offline"
        /\ job[a].op = "OnUserConnect" => a \in Session
        /\ job[a].pc = "HSet"
    BY <1>4 DEF TypeInv, WellFormed, Hooks, HSet
  <2>1. CASE live' = job[a].status /\ job'[a].op = job[a].op /\ job[a].op # "UpdatePresence"
    BY <2>0, <2>1 DEF View, Minding
  <2>2. CASE UNCHANGED live /\ Done(a) /\ ~unsettled /\ job[a].op # "OnUserDisconnect"
    <3>1. unsettled = FALSE /\ unsettled' = FALSE
      BY <2>2, UserStoreType DEF TypeInv, PresenceTypeOK
    <3> QED BY <1>3, <2>0, <2>2, <3>1
  <2> QED BY <1>4, <2>1, <2>2, HSetStep
<1>5. ASSUME NEW a \in Actor, Publish(a)
      PROVE  View(live') = "offline" \/ \E s \in Session : Minding(s)'
  BY <1>3, <1>5 DEF Publish, history
<1>6. CASE Crash
  <2>1. UNCHANGED live /\ ~unsettled /\ \A s \in Session : job[s] = Idle
    BY <1>6 DEF Crash
  <2> QED BY <2>1, IdleType DEF MindedInv, Minding
<1> QED BY <1>1, <1>2, <1>4, <1>5, <1>6 DEF UserStep

LEMMA Minded == Spec => []MindedInv
<1>1. Init => MindedInv
  BY DEF Init, MindedInv, View
<1>2. TypeInv /\ MindedInv /\ [Next]_vars => MindedInv'
  <2> SUFFICES ASSUME TypeInv, MindedInv, [Next]_vars PROVE MindedInv'
    OBVIOUS
  <2>1. CASE FriendStep
    BY <2>1, FriendType DEF MindedInv, Minding, View
  <2>2. CASE UNCHANGED vars
    BY <2>2 DEF MindedInv, Minding, View, vars, server, history
  <2> QED BY <2>1, <2>2, MindedStep DEF Next
<1> QED BY <1>1, <1>2, TypeCorrect, PTL DEF Spec

\* However the connect and disconnect hooks of any number of streams overlap with each
\* other and with the user's RPCs, once the last stream has closed the hash says offline,
\* unless a disconnect write failed, a crash skipped it or UpdatePresence wrote since.
THEOREM GoneIsOffline == Spec => []GoneMeansOffline
<1>1. TypeInv /\ MindedInv => GoneMeansOffline
  <2> SUFFICES ASSUME TypeInv, MindedInv, Gone PROVE ~unsettled => View(live) = "offline"
    BY DEF GoneMeansOffline
  <2>1. \A s \in Session : ~Minding(s)
    BY ActorIs DEF Gone, TypeInv, WellFormed, Minding
  <2> QED BY <2>1 DEF MindedInv
<1> QED BY <1>1, TypeCorrect, Minded, PTL

-----------------------------------------------------------------------------
(* What the friend will show when it has read what is on its way to it.       *)

Unheard == {i \in 1..Len(inbox) : inbox[i].from # "unset"}

Heard(status) ==
    /\ \A i \in Unheard :
           (\A j \in Unheard : j <= i) /\ inbox[i].from = "hash" => inbox[i].status = status
    /\ Unheard = {} /\ Told => seen.status = status

\* A friend whose stream is not up, or is without the user's subject, has nothing on its way
\* to it.
QuietInv ==
    /\ ~(friend = "open" /\ listening) => inbox = <<>>
    /\ friend # "open" => seen.via \notin {"event", "read"}

\* A status published from the hash is what the friend will show; after one of users.status
\* nothing is claimed; an event without status changes nothing.
LEMMA PublishStep ==
  ASSUME TypeInv, QuietInv, NEW a \in Actor, Publish(a)
  PROVE  /\ QuietInv'
         /\ SourceOf(job[a].op) = "hash" =>
                \A status : status = job[a].status => Heard(status)'
         /\ SourceOf(job[a].op) = "unset" => \A status : Heard(status) => Heard(status)'
         /\ SourceOf(job[a].op) = "users" => \A status : Heard(status)'
<1> USE DEF TypeInv, PresenceTypeOK
<1>1. PICK e \in Event : /\ e = EventOf(a)
                         /\ e.status = job[a].status /\ e.from = SourceOf(job[a].op)
  BY EventType
<1>2. UNCHANGED <<friend, listening, seen>> /\ (Told <=> Told')
  BY DEF Publish, Told
<1>3. CASE ~(friend = "open" /\ listening)
  <2>1. inbox' = inbox /\ QuietInv' /\ inbox' = <<>> /\ ~Told'
    BY <1>2, <1>3 DEF Publish, QuietInv, Told
  <2>2. Unheard' = {}
    BY <2>1, EmptySeq DEF Unheard
  <2>3. \A status : Heard(status)'
    BY <2>1, <2>2 DEF Heard
  <2> QED BY <2>1, <2>3
<1>4. CASE friend = "open" /\ listening
  <2> DEFINE n == Len(inbox)
  <2>1. inbox' = Append(inbox, e) /\ QuietInv'
    BY <1>1, <1>2, <1>4 DEF Publish, QuietInv
  <2>2. /\ n \in Nat /\ Len(inbox') = n + 1 /\ inbox'[n + 1] = e
        /\ \A i \in 1..n : inbox'[i] = inbox[i]
    BY <2>1, LenProperties, AppendProperties
  <2>3. CASE e.from # "unset"
    <3>1. n + 1 \in Unheard' /\ \A i \in Unheard' : i <= n + 1
      BY <2>2, <2>3 DEF Unheard
    <3>2. \A i \in Unheard' : (\A j \in Unheard' : j <= i) => i = n + 1
      BY <2>2, <3>1 DEF Unheard
    <3>3. \A status : e.from = "hash" /\ status = e.status => Heard(status)'
      BY <2>2, <3>1, <3>2 DEF Heard
    <3>4. e.from # "hash" => \A status : Heard(status)'
      BY <2>2, <3>1, <3>2 DEF Heard
    <3> QED BY <1>1, <2>1, <2>3, <3>3, <3>4
  <2>4. CASE e.from = "unset"
    <3>1. Unheard' = Unheard
      BY <2>2, <2>4 DEF Unheard
    <3>2. \A i \in Unheard : inbox'[i] = inbox[i]
      BY <2>2 DEF Unheard
    <3> QED BY <1>1, <1>2, <2>1, <2>4, <3>1, <3>2 DEF Heard
  <2> QED BY <2>3, <2>4
<1> QED BY <1>3, <1>4

\* Reading the inbox does not change what the friend will show; asking does.
LEMMA FriendHeard ==
  ASSUME TypeInv, QuietInv, FriendStep
  PROVE  /\ QuietInv'
         /\ \A status : Heard(status) /\ (ReadPresence => View(live) = status) => Heard(status)'
<1> USE DEF TypeInv, PresenceTypeOK
<1>1. CASE Watch \/ Replay \/ Subscribe
  <2>1. inbox = <<>> /\ inbox' = inbox
    BY <1>1 DEF Watch, Replay, Subscribe, QuietInv
  <2>3. seen.via \notin {"event", "read"}
    BY <1>1 DEF Watch, Replay, Subscribe, QuietInv
  <2>4. \A e : Shown(e, "replay") = seen \/ Shown(e, "replay").via = "replay"
    BY DEF Shown
  <2>5. seen'.via \notin {"event", "read"}
    BY <1>1, <2>3, <2>4 DEF Watch, Replay, Subscribe
  <2>2. Unheard' = {} /\ ~Told'
    BY <2>1, <2>5, EmptySeq DEF Unheard, Told
  <2> QED BY <2>1, <2>2, <2>5 DEF QuietInv, Heard
<1>2. CASE CacheEvent \/ CacheExpires
  BY <1>2 DEF CacheEvent, CacheExpires, QuietInv, Heard, Unheard, Told
<1>3. CASE ReadPresence
  BY <1>3 DEF ReadPresence, QuietInv, Heard, Unheard
<1>4. CASE Unwatch
  <2>1. inbox' = <<>> /\ friend' # "open" /\ seen'.via \notin {"event", "read"}
    BY <1>4 DEF Unwatch, Unknown
  <2> QED BY <2>1, EmptySeq DEF QuietInv, Heard, Unheard, Told
<1>5. CASE Deliver
  <2> DEFINE n == Len(inbox)
  <2>1. /\ n \in Nat /\ n # 0 /\ Len(inbox') = n - 1 /\ Head(inbox) = inbox[1]
        /\ \A i \in 1..(n - 1) : inbox'[i] = inbox[i + 1]
    BY <1>5, LenProperties, HeadTailProperties, EmptySeq DEF Deliver
  <2>2. QuietInv'
    BY <1>5 DEF Deliver, QuietInv, server
  <2>3. \A i \in Unheard' : i + 1 \in Unheard
    BY <2>1 DEF Unheard
  <2>4. \A i \in Unheard : i = 1 \/ i - 1 \in Unheard'
    BY <2>1 DEF Unheard
  <2> SUFFICES ASSUME NEW status, Heard(status) PROVE Heard(status)'
    BY <2>2
  <2>5. ASSUME NEW i \in Unheard', \A j \in Unheard' : j <= i
        PROVE  inbox'[i].from = "hash" => inbox'[i].status = status
    <3>1. i \in 1..(n - 1) /\ i + 1 \in Unheard
      BY <2>1, <2>3 DEF Unheard
    <3>2. \A j \in Unheard : j <= i + 1
      BY <2>1, <2>4, <2>5, <3>1 DEF Unheard
    <3> QED BY <2>1, <3>1, <3>2 DEF Heard
  <2>6. ASSUME Unheard' = {}, Told'
        PROVE  seen'.status = status
    <3>1. CASE inbox[1].from = "unset"
      <4>1. Unheard = {}
        BY <2>1, <2>4, <2>6, <3>1 DEF Unheard
      <4>2. seen' = seen /\ Told
        BY <1>5, <2>1, <2>6, <3>1 DEF Deliver, Shown, Told
      <4> QED BY <4>1, <4>2 DEF Heard
    <3>2. CASE inbox[1].from # "unset"
      <4>0. 1 \in 1..Len(inbox)
        BY <2>1
      <4>1. 1 \in Unheard /\ \A j \in Unheard : j <= 1
        BY <2>4, <2>6, <3>2, <4>0 DEF Unheard
      <4>2. /\ seen'.status = inbox[1].status
            /\ seen'.via = IF inbox[1].from = "users" THEN "intent" ELSE "event"
        BY <1>5, <2>1, <3>2 DEF Deliver, Shown
      <4>3. inbox[1].from # "users"
        BY <2>6, <4>2 DEF Told
      <4>4. inbox[1] \in Event
        BY <2>1, ElementOfSeq
      <4>5. inbox[1].from = "hash"
        BY <3>2, <4>3, <4>4 DEF Event
      <4>6. inbox[1].status = status
        BY <4>1, <4>5 DEF Heard
      <4> QED BY <4>2, <4>6
    <3> QED BY <3>1, <3>2
  <2> QED BY <2>5, <2>6 DEF Heard
<1> QED BY <1>1, <1>2, <1>3, <1>4, <1>5 DEF FriendStep

\* Only a publication puts something on its way to the friend.
LEMMA UserHeard ==
  ASSUME UNCHANGED stream
  PROVE  (QuietInv => QuietInv') /\ \A status : Heard(status) => Heard(status)'
  BY DEF stream, QuietInv, Heard, Unheard, Told

LEMMA Quiet == Spec => []QuietInv
<1>1. Init => QuietInv
  BY DEF Init, QuietInv, Unknown
<1>2. TypeInv /\ QuietInv /\ [Next]_vars => QuietInv'
  <2> SUFFICES ASSUME TypeInv, QuietInv, [Next]_vars PROVE QuietInv'
    OBVIOUS
  <2>1. CASE UserStep
    <3>1. ASSUME NEW a \in Actor, Publish(a) PROVE QuietInv'
      BY <3>1, PublishStep
    <3>2. CASE UNCHANGED stream
      BY <3>2, UserHeard
    <3> QED BY <2>1, <3>1, <3>2
        DEF UserStep, OpenStream, GetStatusIntent, CloseStream, UpdatePresence, Logout,
            UpdateStatus, UpdateUser, HSet, Crash
  <2>2. CASE FriendStep
    BY <2>2, FriendHeard
  <2>3. CASE UNCHANGED vars
    BY <2>3, UserHeard DEF vars
  <2> QED BY <2>1, <2>2, <2>3 DEF Next
<1> QED BY <1>1, <1>2, TypeCorrect, PTL DEF Spec

\* The event of actor a, which says what it wrote to the hash, is about to be published.
Pending(a) == job[a].pc = "Publish" /\ SourceOf(job[a].op) = "hash"

\* One at a time: the friend will show what the hash says, but for the event that is
\* about to be published.
SerialInv ==
    serial =>
        /\ OneAtATime
        /\ \A a \in Actor : Pending(a) => job[a].status = live
        /\ Heard(View(live)) \/ \E a \in Actor : Pending(a)

LEMMA SerialUserStep ==
  ASSUME TypeInv, QuietInv, UserStep, serial, SerialInv, OneAtATime'
  PROVE  /\ \A a \in Actor : Pending(a)' => job'[a].status = live'
         /\ Heard(View(live))' \/ \E a \in Actor : Pending(a)'
<1> USE ActorIs
<1>0. /\ OneAtATime
      /\ \A a \in Actor : Pending(a) => job[a].status = live
      /\ Heard(View(live)) \/ \E a \in Actor : Pending(a)
  BY DEF SerialInv
<1>1. PICK v : v = View(live)
  OBVIOUS
\* A step of a that neither writes nor publishes.
<1>2. ASSUME NEW a \in Actor, UNCHANGED <<live, stream>>, ~Pending(a), ~Pending(a)',
             \A b \in Actor \ {a} : job'[b] = job[b]
      PROVE  /\ \A b \in Actor : Pending(b)' => job'[b].status = live'
             /\ Heard(View(live))' \/ \E b \in Actor : Pending(b)'
  <2>1. \A b \in Actor \ {a} : Pending(b)' <=> Pending(b)
    BY <1>2 DEF Pending
  <2>2. \A b \in Actor : Pending(b)' => job'[b].status = live'
    BY <1>0, <1>2, <2>1
  <2>3. CASE Heard(v)
    <3>1. Heard(v)' /\ v = View(live')
      BY <1>1, <1>2, <2>3, UserHeard DEF View
    <3> QED BY <2>2, <3>1 DEF View
  <2>4. CASE \E b \in Actor : Pending(b)
    BY <1>2, <2>1, <2>2, <2>4
  <2> QED BY <1>0, <1>1, <2>3, <2>4
<1>3. ASSUME NEW s \in Session, OpenStream(s) \/ GetStatusIntent(s) \/ CloseStream(s)
      PROVE  /\ \A b \in Actor : Pending(b)' => job'[b].status = live'
             /\ Heard(View(live))' \/ \E b \in Actor : Pending(b)'
  <2>1. ~Pending(s) /\ ~Pending(s)'
    BY <1>3, StartJob DEF OpenStream, GetStatusIntent, CloseStream, Pending, TypeInv, PresenceTypeOK
  <2> QED BY <1>2, <1>3, <2>1, StreamStep
<1>4. ASSUME NEW w \in Worker, UpdatePresence(w) \/ Logout(w) \/ UpdateStatus(w)
      PROVE  /\ \A b \in Actor : Pending(b)' => job'[b].status = live'
             /\ Heard(View(live))' \/ \E b \in Actor : Pending(b)'
  <2>1. /\ ~Pending(w) /\ ~Pending(w)'
        /\ \A b \in Actor \ {w} : job'[b] = job[b]
    BY <1>4, StartJob DEF UpdatePresence, Logout, UpdateStatus, Pending
  <2> QED BY <1>2, <1>4, <2>1, RPCStep
<1>5. ASSUME NEW w \in Worker, UpdateUser(w)
      PROVE  /\ \A b \in Actor : Pending(b)' => job'[b].status = live'
             /\ Heard(View(live))' \/ \E b \in Actor : Pending(b)'
  <2>1. job[w].op \in Profile /\ ~Pending(w)
    BY <1>5 DEF UpdateUser, TypeInv, WellFormed, Pending
  <2>2. \A b \in Actor \ {w} : job'[b] = job[b]
    BY <1>5, DoneJob DEF UpdateUser, TypeInv, PresenceTypeOK
  <2>3. ~Pending(w)'
    <3>1. CASE Done(w)
      BY <2>1, <3>1, DoneJob, IdleType DEF Pending
    <3>2. CASE job'[w].op = job[w].op
      BY <2>1, <3>2, SourceIs DEF Pending
    <3> QED BY <1>5, <3>1, <3>2 DEF UpdateUser, TypeInv, PresenceTypeOK
  <2> QED BY <1>2, <1>5, <2>1, <2>2, <2>3, RPCStep
<1>6. ASSUME NEW a \in Actor, Done(a)
      PROVE  ~Pending(a)' /\ \A b \in Actor \ {a} : job'[b] = job[b]
  BY <1>6, DoneJob, IdleType DEF Pending
<1>7. ASSUME NEW a \in Actor, HSet(a)
      PROVE  /\ \A b \in Actor : Pending(b)' => job'[b].status = live'
             /\ Heard(View(live))' \/ \E b \in Actor : Pending(b)'
  <2>1. ~Pending(a) /\ UNCHANGED stream /\ \A b \in Actor \ {a} : job'[b] = job[b]
    BY <1>7, HSetStep DEF HSet, Pending
  <2>2. CASE /\ live' = job[a].status /\ job'[a].pc = "Publish" /\ job'[a].status = job[a].status
             /\ job'[a].op = job[a].op
    <3>0. job[a].op \notin Profile
      BY <1>7 DEF HSet, TypeInv, WellFormed, Hooks, Profile
    <3>1. Pending(a)'
      BY <2>2, <3>0, SourceIs DEF Pending
    <3>2. \A b \in Actor \ {a} : ~Pending(b)
      BY <1>0, <1>7 DEF OneAtATime, NoOverlap, Busy, Pending, HSet
    <3> QED BY <2>1, <2>2, <3>1, <3>2 DEF Pending
  <2>3. CASE UNCHANGED live /\ Done(a)
    BY <1>2, <1>6, <2>1, <2>3
  <2> QED BY <1>7, <2>2, <2>3, HSetStep
<1>8. ASSUME NEW a \in Actor, Publish(a)
      PROVE  /\ \A b \in Actor : Pending(b)' => job'[b].status = live'
             /\ Heard(View(live))' \/ \E b \in Actor : Pending(b)'
  <2>1. /\ ~Pending(a)' /\ \A b \in Actor \ {a} : job'[b] = job[b]
        /\ UNCHANGED live
    BY <1>6, <1>8 DEF Publish
  <2>2. \A b \in Actor \ {a} : Pending(b)' <=> Pending(b)
    BY <2>1 DEF Pending
  <2>3. \A b \in Actor : Pending(b)' => job'[b].status = live'
    BY <1>0, <2>1, <2>2
  <2>4. CASE Pending(a)
    <3>1. v = job[a].status /\ SourceOf(job[a].op) = "hash"
      BY <1>0, <1>1, <2>4 DEF Pending, View, TypeInv, WellFormed, Status
    <3>2. Heard(v)' /\ v = View(live')
      BY <1>1, <1>8, <2>1, <3>1, PublishStep
    <3> QED BY <2>3, <3>2 DEF View
  <2>5. CASE ~Pending(a)
    <3>1. SourceOf(job[a].op) \in {"users", "unset"}
      BY <1>8, <2>5, SourceIs DEF Publish, Pending
    <3>2. CASE Heard(v)
      <4>1. Heard(v)' /\ v = View(live')
        BY <1>1, <1>8, <2>1, <3>1, <3>2, PublishStep
      <4> QED BY <2>3, <4>1 DEF View
    <3>3. CASE \E b \in Actor : Pending(b)
      BY <2>2, <2>3, <2>5, <3>3
    <3> QED BY <1>0, <1>1, <3>2, <3>3
  <2> QED BY <2>4, <2>5
<1>9. CASE Crash
  BY <1>9 DEF Crash, OneAtATime, TypeInv, PresenceTypeOK
<1> QED BY <1>3, <1>4, <1>5, <1>7, <1>8, <1>9 DEF UserStep

\* While handlers do not overlap, a friend whose stream has the user's subject, and who has
\* last heard what the hash said, or has asked, shows what the hash says whenever the server
\* is at rest, whichever calls fail and however the friend's stream comes and goes.
THEOREM FriendSeesLive == Spec => []SeenIsLive
<1>1. Init => SerialInv
  BY EmptySeq DEF Init, SerialInv, OneAtATime, NoOverlap, Busy, Idle, Pending, Heard, Unheard, Told
<1>2. TypeInv /\ QuietInv /\ SerialInv /\ [Next]_vars => SerialInv'
  <2> SUFFICES ASSUME TypeInv, QuietInv, SerialInv, [Next]_vars PROVE SerialInv'
    OBVIOUS
  <2>1. ASSUME UNCHANGED <<job, live, crashes, serial>>,
               \A status : Heard(status) /\ status = View(live) => Heard(status)'
        PROVE  SerialInv'
    <3>1. PICK v : v = View(live)
      OBVIOUS
    <3>2. Heard(View(live)) => Heard(View(live))'
      <4>1. Heard(v) => Heard(v)'
        BY <2>1, <3>1
      <4>2. View(live') = v
        BY <2>1, <3>1
      <4> QED BY <3>1, <4>1, <4>2 DEF View
    <3>3. OneAtATime' = OneAtATime /\ \A a \in Actor : Pending(a)' = Pending(a)
      BY <2>1 DEF OneAtATime, NoOverlap, Busy, Pending
    <3> QED BY <2>1, <3>2, <3>3 DEF SerialInv
  <2>2. CASE Next /\ serial'
    <3>1. serial /\ OneAtATime'
      BY <2>2 DEF Next
    <3>2. CASE UserStep
      BY <3>1, <3>2, SerialUserStep DEF SerialInv
    <3>3. CASE FriendStep
      BY <2>1, <2>2, <3>1, <3>3, FriendHeard, FriendType DEF TypeInv, PresenceTypeOK
    <3> QED BY <2>2, <3>2, <3>3 DEF Next
  <2>3. CASE UNCHANGED vars
    BY <2>1, <2>3, UserHeard DEF vars, server, history
  <2> QED BY <2>2, <2>3 DEF SerialInv
<1>3. TypeInv /\ SerialInv => SeenIsLive
  <2> SUFFICES ASSUME TypeInv, SerialInv, serial, AtRest, Told
               PROVE  seen.status = View(live)
    BY DEF SeenIsLive
  <2>1. \A a \in Actor : ~Pending(a)
    BY DEF AtRest, Busy, Pending
  <2>2. Unheard = {}
    BY EmptySeq DEF AtRest, Unheard
  <2> QED BY <2>1, <2>2 DEF SerialInv, Heard
<1> QED BY <1>1, <1>2, <1>3, TypeCorrect, Quiet, PTL DEF Spec

\* A stream that has still to tell the friend that it is gone.
Voicing(s) == Minding(s) \/ (job[s].op = "OnUserDisconnect" /\ job[s].pc = "Publish")

OrderlyInv ==
    orderly =>
        /\ PicksAlone
        /\ \A a \in Actor : job[a].op = "UpdatePresence" /\ job[a].pc = "Publish" => unsettled
        /\ ~unsettled => Heard("offline") \/ \E s \in Session : Voicing(s)

LEMMA OrderlyUserStep ==
  ASSUME TypeInv, QuietInv, UserStep, orderly, OrderlyInv
  PROVE  /\ \A a \in Actor : job'[a].op = "UpdatePresence" /\ job'[a].pc = "Publish" => unsettled'
         /\ ~unsettled' => Heard("offline")' \/ \E s \in Session : Voicing(s)'
<1> USE ActorIs, PresenceConstants
<1>0. /\ PicksAlone
      /\ \A a \in Actor : job[a].op = "UpdatePresence" /\ job[a].pc = "Publish" => unsettled
      /\ ~unsettled => Heard("offline") \/ \E s \in Session : Voicing(s)
  BY DEF OrderlyInv
<1> DEFINE Picked == \A a \in Actor : job[a].op = "UpdatePresence" /\ job[a].pc = "Publish" => unsettled
           Voiced == ~unsettled => Heard("offline") \/ \E s \in Session : Voicing(s)
<1>1. ASSUME NEW s \in Session, OpenStream(s) \/ GetStatusIntent(s) \/ CloseStream(s)
      PROVE  Picked' /\ Voiced'
  BY <1>0, <1>1, StreamStep DEF Voicing, Hooks
<1>2. ASSUME NEW w \in Worker, UpdatePresence(w) \/ Logout(w) \/ UpdateStatus(w)
      PROVE  Picked' /\ Voiced'
  <2>1. job'[w].pc # "Publish" /\ \A b \in Actor \ {w} : job'[b] = job[b]
    BY <1>2, StartJob DEF UpdatePresence, Logout, UpdateStatus
  <2>2. /\ \A s \in Session : job'[s] = job[s]
        /\ UNCHANGED <<live, stream, unsettled>>
    BY <1>2, RPCStep
  <2>3. Picked'
    BY <1>0, <2>1, <2>2
  <2> QED BY <1>0, <2>2, <2>3, UserHeard DEF Voicing, Minding
<1>3. ASSUME NEW w \in Worker, UpdateUser(w)
      PROVE  Picked' /\ Voiced'
  <2>1. job'[w].op # "UpdatePresence" /\ \A b \in Actor \ {w} : job'[b] = job[b]
    <3>1. job[w].op \in {"UpdateStatus", "UpdateUser", "UpdateUsername"}
      BY <1>3 DEF UpdateUser, TypeInv, WellFormed, Profile
    <3> QED BY <1>3, <3>1, DoneJob, IdleType DEF UpdateUser, TypeInv, PresenceTypeOK
  <2>2. /\ \A s \in Session : job'[s] = job[s]
        /\ UNCHANGED <<live, stream, unsettled>>
    BY <1>3, RPCStep
  <2>3. Picked'
    BY <1>0, <2>1, <2>2
  <2> QED BY <1>0, <2>2, <2>3, UserHeard DEF Voicing, Minding
\* A hook or RPC ends: a connect hook leaves an open stream behind.
<1>4. ASSUME NEW a \in Actor, Done(a), unsettled' = unsettled,
             \/ Heard("offline") => Heard("offline")'
             \/ job[a].op = "OnUserConnect",
             \/ job[a].op # "OnUserDisconnect"
             \/ Heard("offline")',
             job[a].pc \in {"HSet", "Publish"}
      PROVE  Picked' /\ Voiced'
  <2>1. \A b \in Actor \ {a} : job'[b] = job[b]
    BY <1>4, DoneJob
  <2>2. job'[a].op # "UpdatePresence"
    BY <1>4, DoneJob, IdleType
  <2>3. Picked'
    BY <1>0, <1>4, <2>1, <2>2
  <2>4. CASE job[a].op = "OnUserConnect"
    <3>1. a \in Session /\ Voicing(a)'
      BY <1>4, <2>4, DoneJob DEF TypeInv, WellFormed, Hooks, Voicing, Minding
    <3> QED BY <2>3, <3>1
  <2>5. CASE job[a].op = "OnUserDisconnect"
    BY <1>4, <2>3, <2>5
  <2>6. CASE job[a].op \notin Hooks
    <3>1. ~Voicing(a)
      BY <1>4, <2>6 DEF Voicing, Minding, Hooks
    <3>2. \A s \in Session \ {a} : Voicing(s) => Voicing(s)'
      BY <2>1 DEF Voicing, Minding
    <3> QED BY <1>0, <1>4, <2>3, <2>6, <3>1, <3>2 DEF Hooks
  <2> QED BY <2>4, <2>5, <2>6 DEF Hooks
<1>5. ASSUME NEW a \in Actor, HSet(a)
      PROVE  Picked' /\ Voiced'
  <2>0. /\ job[a].op \in Hooks \cup {"UpdatePresence", "Logout"} /\ job[a].pc = "HSet"
        /\ job[a].op \in Hooks => a \in Session
    BY <1>5 DEF TypeInv, WellFormed, HSet
  <2>1. UNCHANGED stream /\ \A b \in Actor \ {a} : job'[b] = job[b]
    BY <1>5, HSetStep
  <2>2. CASE /\ job'[a].op = job[a].op /\ job'[a].pc = "Publish"
             /\ unsettled' = (job[a].op = "UpdatePresence"
                                \/ (unsettled /\ job[a].op # "OnUserDisconnect"))
    <3>1. Picked'
      <4>1. ASSUME NEW b \in Actor \ {a}, job[b].op = "UpdatePresence", job[b].pc = "Publish"
            PROVE  FALSE
        BY <1>0, <2>0, <4>1 DEF PicksAlone, Calling, NoOverlap, Busy
      <4>2. job[a].op = "UpdatePresence" => unsettled'
        BY <2>2
      <4>3. job'[a].op = job[a].op
        BY <2>2
      <4> QED BY <2>1, <4>1, <4>2, <4>3
    <3>2. CASE job[a].op \in Hooks
      BY <2>0, <2>2, <3>1, <3>2 DEF Voicing, Minding, Hooks
    <3>3. CASE job[a].op = "UpdatePresence"
      BY <2>2, <3>1, <3>3
    <3>4. CASE job[a].op = "Logout"
      <4>1. ~Voicing(a) /\ \A s \in Session \ {a} : Voicing(s) => Voicing(s)'
        BY <2>0, <2>1, <3>4 DEF Voicing, Minding
      <4>2. unsettled \in BOOLEAN /\ unsettled' = unsettled
        BY <2>2, <3>4 DEF TypeInv, PresenceTypeOK
      <4> QED BY <1>0, <2>1, <3>1, <4>1, <4>2, UserHeard
    <3> QED BY <2>0, <3>2, <3>3, <3>4
  <2>3. CASE Done(a) /\ unsettled' = (unsettled \/ job[a].op = "OnUserDisconnect")
    <3>1. CASE job[a].op = "OnUserDisconnect"
      <4>1. unsettled'
        BY <2>3, <3>1
      <4> QED BY <4>1
    <3>2. CASE job[a].op # "OnUserDisconnect"
      <4>1. unsettled' = unsettled
        BY <2>3, <3>2 DEF TypeInv, PresenceTypeOK
      <4> QED BY <1>4, <2>0, <2>1, <2>3, <3>2, <4>1, UserHeard
    <3> QED BY <3>1, <3>2
  <2> QED BY <1>5, <2>2, <2>3, HSetStep
<1>6. ASSUME NEW a \in Actor, Publish(a)
      PROVE  Picked' /\ Voiced'
  <2>0. /\ job[a].pc = "Publish"
        /\ job[a].op \in {"OnUserDisconnect", "Logout"} => job[a].status = "offline"
        /\ job[a].op \in Hooks \cup PresenceOps
    BY <1>6 DEF TypeInv, PresenceTypeOK, WellFormed, Publish, Hooks
  <2>1. Done(a) /\ unsettled' = unsettled
    BY <1>6 DEF Publish, history
  <2>2. CASE job[a].op = "OnUserConnect"
    BY <1>4, <2>0, <2>1, <2>2
  <2>3. CASE job[a].op \in {"OnUserDisconnect", "Logout"}
    <3>1. SourceOf(job[a].op) = "hash"
      BY <2>3, SourceIs DEF Profile
    <3>2. Heard("offline")'
      BY <1>6, <2>0, <2>3, <3>1, PublishStep
    <3> QED BY <1>4, <2>0, <2>1, <3>2
  <2>4. CASE job[a].op \in Profile
    <3>0. SourceOf(job[a].op) \in {"users", "unset"}
      BY <2>4, SourceIs
    <3>1. Heard("offline") => Heard("offline")'
      BY <1>6, <3>0, PublishStep
    <3> QED BY <1>4, <2>0, <2>1, <2>4, <3>1 DEF Profile
  <2>5. CASE job[a].op = "UpdatePresence"
    <3>1. unsettled'
      BY <1>0, <2>0, <2>1, <2>5
    <3> QED BY <3>1
  <2> QED BY <2>0, <2>2, <2>3, <2>4, <2>5 DEF Hooks, PresenceOps, Profile
<1>7. CASE Crash
  <2>1. \A a \in Actor : job'[a] = Idle
    BY <1>7 DEF Crash
  <2>2. CASE unsettled'
    BY <2>2
  <2>3. CASE ~unsettled'
    <3>1. ~unsettled /\ UNCHANGED stream /\ \A s \in Session : job[s] = Idle
      BY <1>7, <2>3 DEF Crash
    <3>2. Heard("offline")
      BY <1>0, <3>1, IdleType DEF Voicing, Minding
    <3> QED BY <2>1, <3>1, <3>2, IdleType, UserHeard
  <2> QED BY <2>2, <2>3
<1> QED BY <1>1, <1>2, <1>3, <1>5, <1>6, <1>7 DEF UserStep

\* However the writes and the publications of any number of connect and disconnect hooks,
\* logouts and updates of the profile are ordered, a friend whose stream has the user's
\* subject, and who has last heard what the hash said, or has asked, shows offline once
\* the last stream has closed and everything published has been read.
THEOREM FriendSeesGone == Spec => []GoneLooksOffline
<1>1. Init => OrderlyInv
  BY EmptySeq DEF Init, OrderlyInv, PicksAlone, Calling, Idle, Heard, Unheard, Told
<1>2. TypeInv /\ QuietInv /\ MindedInv /\ OrderlyInv /\ [Next]_vars => OrderlyInv'
  <2> SUFFICES ASSUME TypeInv, QuietInv, MindedInv, OrderlyInv, [Next]_vars PROVE OrderlyInv'
    OBVIOUS
  <2>1. ASSUME UNCHANGED <<job, unsettled, orderly>>,
               \/ Heard("offline") => Heard("offline")'
               \/ \E s \in Session : Voicing(s)
        PROVE  OrderlyInv'
    <3>1. PicksAlone' = PicksAlone /\ \A s \in Session : Voicing(s)' = Voicing(s)
      BY <2>1 DEF PicksAlone, Calling, NoOverlap, Busy, Voicing, Minding
    <3> QED BY <2>1, <3>1 DEF OrderlyInv
  <2>2. CASE Next /\ orderly'
    <3>1. orderly /\ PicksAlone'
      BY <2>2 DEF Next
    <3>2. CASE UserStep
      BY <3>1, <3>2, OrderlyUserStep DEF OrderlyInv
    <3>3. CASE FriendStep
      <4>1. UNCHANGED <<job, unsettled, orderly>>
        BY <2>2, <3>1, <3>3, FriendType DEF TypeInv, PresenceTypeOK
      <4>2. CASE unsettled
        <5>1. PicksAlone' /\ unsettled'
          BY <3>1, <4>1, <4>2
        <5> QED BY <5>1 DEF OrderlyInv
      <4>3. CASE ~unsettled /\ View(live) = "offline"
        BY <2>1, <3>3, <4>1, <4>3, FriendHeard
      <4>4. CASE \E s \in Session : Minding(s)
        BY <2>1, <4>1, <4>4 DEF Voicing
      <4> QED BY <4>2, <4>3, <4>4 DEF MindedInv
    <3> QED BY <2>2, <3>2, <3>3 DEF Next
  <2>3. CASE UNCHANGED vars
    BY <2>1, <2>3, UserHeard DEF vars, server, history
  <2> QED BY <2>2, <2>3 DEF OrderlyInv
<1>3. TypeInv /\ OrderlyInv => GoneLooksOffline
  <2> SUFFICES ASSUME TypeInv, OrderlyInv, orderly, AtRest, Gone, ~unsettled, Told
               PROVE  seen.status = "offline"
    BY DEF GoneLooksOffline
  <2>1. \A s \in Session : ~Voicing(s)
    BY ActorIs DEF Gone, TypeInv, WellFormed, Voicing, Minding
  <2>2. Unheard = {}
    BY EmptySeq DEF AtRest, Unheard
  <2> QED BY <2>1, <2>2 DEF OrderlyInv, Heard
<1> QED BY <1>1, <1>2, <1>3, TypeCorrect, Quiet, Minded, PTL DEF Spec

-----------------------------------------------------------------------------
(* Streams.                                                                  *)

Notice == [room : Room, on : BOOLEAN]

\* The event of a change that is still to be published.
Draft == [room : Room, on : BOOLEAN, n : Nat]

Tap == [pc : {"closed", "Snapshot", "Replay", "Subscribe", "open"}, todo : SUBSET Room,
        subject : BOOLEAN, mail : Seq(Notice), caching : Notice \cup {NoEvent}]

StreamTypeOK ==
    /\ kind \in Kind
    /\ inGuild \subseteq Viewer
    /\ mayView \in [Viewer -> SUBSET Room]
    /\ on \subseteq Room
    /\ changes \in Nat
    /\ outgoing \subseteq Draft
    /\ crossed \subseteq Room
    /\ tap \in [Viewer -> Tap]
    /\ replay \in [Viewer \cup {"guild"} -> Notice \cup {NoEvent}]
    /\ screen \in [Viewer -> SUBSET Room]
    /\ told \in [Viewer -> SUBSET Room]
    /\ admitted \in [Viewer -> SUBSET Room]
    /\ blurred \subseteq Viewer

\* What a client is shown is what its user may view.
ViewInv ==
    \A u \in Viewer :
        /\ mayView[u] \subseteq admitted[u]
        /\ Filtered => screen[u] \subseteq admitted[u] /\ told[u] \subseteq mayView[u]

\* Only a stream that is up, and has a subject, gets mail.
MailInv ==
    \A u \in Viewer :
        /\ ~(tap[u].pc = "open" /\ tap[u].subject) => tap[u].mail = <<>>
        /\ tap[u].pc = "Snapshot" => tap[u].subject

\* Of a room whose changes did not overlap one event at most is still to be published, and
\* it says what the room is like.
PendingInv ==
    \A o \in outgoing : o.room \notin crossed =>
        /\ o.on <=> o.room \in on
        /\ \A p \in outgoing : p.room = o.room => p = o

\* Where the mail about a room is.
About(u, r) == {i \in 1..Len(tap[u].mail) : tap[u].mail[i].room = r}

\* The last mail about a room says what the room is like, and the screen does when there
\* is none: but for the rooms of which an event is still to be published.
Agrees(u, r) ==
    /\ \A i \in About(u, r) : (\A j \in About(u, r) : j <= i) => (tap[u].mail[i].on <=> r \in on)
    /\ tap[u].pc # "closed" /\ u \notin blurred /\ r \in told[u] /\ About(u, r) = {} =>
            (r \in screen[u] <=> r \in on)

AgreeInv ==
    \A u \in Viewer, r \in Room : r \notin crossed /\ ~Unpublished(r) => Agrees(u, r)

\* A stream without a subject is told nothing.
ToldInv == \A u \in Viewer : tap[u].pc # "closed" /\ ~tap[u].subject => told[u] = {}

LEMMA ClosedTap ==
  /\ Closed \in Tap
  /\ Closed.pc = "closed" /\ Closed.mail = <<>> /\ Closed.subject = FALSE
<1>1. <<>> \in Seq(Notice)
  BY EmptySeq
<1> QED BY <1>1 DEF Closed, Tap

\* The stream of u after each of its steps.
LEMMA OpenTap ==
  ASSUME StreamTypeOK, NEW u \in Viewer, Open(u) \/ OpenUnresolved(u)
  PROVE  /\ tap' \in [Viewer -> Tap] /\ \A v \in Viewer \ {u} : tap'[v] = tap[v]
         /\ tap'[u].pc \in {"Replay", "Snapshot"} /\ tap'[u].mail = <<>>
         /\ tap'[u].pc = "Snapshot" => tap'[u].subject
<1> USE DEF StreamTypeOK
<1>0. PICK c \in Tap : c = Closed
  BY ClosedTap
<1>1. PICK subject \in BOOLEAN, todo \in SUBSET Room, pc \in {"Replay", "Snapshot"} :
          /\ pc = "Snapshot" => subject
          /\ tap' = [tap EXCEPT ![u] = [c EXCEPT !.subject = subject, !.todo = todo, !.pc = pc]]
  <2>1. CASE Open(u)
    <3> DEFINE subject == kind = "dm" \/ u \in inGuild
               rooms == IF kind = "voice" /\ subject THEN Room ELSE {}
               pc == IF rooms = {} THEN "Replay" ELSE "Snapshot"
    <3>1. tap' = [tap EXCEPT ![u] = [c EXCEPT !.subject = subject, !.todo = rooms, !.pc = pc]]
      BY <1>0, <2>1 DEF Open
    <3>2. subject \in BOOLEAN /\ rooms \in SUBSET Room /\ pc \in {"Replay", "Snapshot"}
      OBVIOUS
    <3>3. pc = "Snapshot" => subject
      OBVIOUS
    <3> HIDE DEF subject, rooms, pc
    <3> QED BY <3>1, <3>2, <3>3
  <2>2. CASE OpenUnresolved(u)
    <3>1. tap' = [tap EXCEPT ![u] = [c EXCEPT !.pc = "Replay"]]
      BY <1>0, <2>2 DEF OpenUnresolved
    <3>2. [c EXCEPT !.pc = "Replay"]
            = [c EXCEPT !.subject = c.subject, !.todo = c.todo, !.pc = "Replay"]
      BY DEF Tap
    <3>3. c.subject \in BOOLEAN /\ c.todo \in SUBSET Room
      BY DEF Tap
    <3> QED BY <3>1, <3>2, <3>3
  <2> QED BY <2>1, <2>2
<1>2. PICK d \in Tap : d = [c EXCEPT !.subject = subject, !.todo = todo, !.pc = pc]
  BY DEF Tap
<1>3. d.pc = pc /\ d.mail = c.mail /\ d.subject = subject
  BY <1>2 DEF Tap
<1>4. tap' = [tap EXCEPT ![u] = d]
  BY <1>1, <1>2
<1>5. c.mail = <<>>
  BY <1>0, ClosedTap
<1> QED BY <1>1, <1>3, <1>4, <1>5

LEMMA VisitedTap ==
  ASSUME StreamTypeOK, NEW u \in Viewer, NEW rooms, Visited(u, rooms)
  PROVE  /\ tap' \in [Viewer -> Tap] /\ \A v \in Viewer \ {u} : tap'[v] = tap[v]
         /\ tap'[u].pc \in {"Replay", "Snapshot"}
         /\ tap'[u].mail = tap[u].mail /\ tap'[u].subject = tap[u].subject
<1> USE DEF StreamTypeOK
<1>1. PICK todo \in SUBSET Room, pc \in {"Replay", "Snapshot"} :
          tap' = [tap EXCEPT ![u].todo = todo, ![u].pc = pc]
  <2> DEFINE todo == tap[u].todo \ rooms
             pc == IF tap[u].todo \subseteq rooms THEN "Replay" ELSE "Snapshot"
  <2>1. tap' = [tap EXCEPT ![u].todo = todo, ![u].pc = pc]
    BY DEF Visited
  <2>2. todo \in SUBSET Room /\ pc \in {"Replay", "Snapshot"}
    BY DEF Tap
  <2> HIDE DEF todo, pc
  <2> QED BY <2>1, <2>2
<1>0. PICK t \in Tap : t = tap[u]
  OBVIOUS
<1>2. [t EXCEPT !.todo = todo, !.pc = pc] \in Tap
  BY DEF Tap
<1>3. PICK d \in Tap : d = [t EXCEPT !.todo = todo, !.pc = pc]
  BY <1>2
<1>5. d.pc = pc /\ d.mail = t.mail /\ d.subject = t.subject
  BY <1>3 DEF Tap
<1>4. tap' = [tap EXCEPT ![u] = d]
  BY <1>0, <1>1, <1>3
<1> QED BY <1>0, <1>4, <1>5

LEMMA PassTap ==
  ASSUME StreamTypeOK, NEW u \in Viewer, NEW pc \in {"Subscribe", "open"},
         tap' = [tap EXCEPT ![u].pc = pc]
  PROVE  /\ tap' \in [Viewer -> Tap] /\ \A v \in Viewer \ {u} : tap'[v] = tap[v]
         /\ tap'[u].pc = pc /\ tap'[u].mail = tap[u].mail /\ tap'[u].subject = tap[u].subject
<1>1. tap \in [Viewer -> Tap]
  BY DEF StreamTypeOK
<1>2. PICK d \in Tap : d = [tap[u] EXCEPT !.pc = pc]
  BY <1>1 DEF Tap
<1>3. d.pc = pc /\ d.mail = tap[u].mail /\ d.subject = tap[u].subject
  BY <1>1, <1>2 DEF Tap
<1>4. tap' = [tap EXCEPT ![u] = d]
  BY <1>2
<1> QED BY <1>1, <1>3, <1>4

LEMMA DeliverTap ==
  ASSUME StreamTypeOK, NEW u \in Viewer, DeliverEvent(u)
  PROVE  /\ tap' \in [Viewer -> Tap] /\ \A v \in Viewer \ {u} : tap'[v] = tap[v]
         /\ tap'[u].pc = tap[u].pc /\ tap'[u].subject = tap[u].subject
         /\ tap'[u].mail = Tail(tap[u].mail) /\ Head(tap[u].mail) \in Notice
<1>0. tap \in [Viewer -> Tap]
  BY DEF StreamTypeOK
<1>1. PICK e \in Notice : e = Head(tap[u].mail)
  BY <1>0, HeadTailProperties DEF DeliverEvent, Tap
<1>2. PICK mail \in Seq(Notice) : mail = Tail(tap[u].mail)
  BY <1>0, HeadTailProperties DEF DeliverEvent, Tap
<1>3. PICK c \in Notice \cup {NoEvent} : c = IF kind = "typing" THEN NoEvent ELSE e
  OBVIOUS
<1>4. tap' = [tap EXCEPT ![u].mail = mail, ![u].caching = c]
  BY <1>1, <1>2, <1>3 DEF DeliverEvent
<1>5. tap' \in [Viewer -> Tap] /\ \A v \in Viewer \ {u} : tap'[v] = tap[v]
  BY <1>0, <1>4 DEF Tap
<1>6. tap'[u].pc = tap[u].pc /\ tap'[u].subject = tap[u].subject /\ tap'[u].mail = mail
  BY <1>0, <1>4 DEF Tap
<1> QED BY <1>1, <1>2, <1>5, <1>6

LEMMA CacheTap ==
  ASSUME StreamTypeOK, NEW u \in Viewer, CacheDelivered(u)
  PROVE  /\ tap' \in [Viewer -> Tap] /\ \A v \in Viewer \ {u} : tap'[v] = tap[v]
         /\ tap'[u].pc = tap[u].pc /\ tap'[u].mail = tap[u].mail
         /\ tap'[u].subject = tap[u].subject
         /\ tap[u].caching \in Notice
<1>1. tap \in [Viewer -> Tap]
  BY DEF StreamTypeOK
<1>2. PICK c \in Notice \cup {NoEvent} : c = NoEvent
  OBVIOUS
<1>3. tap' = [tap EXCEPT ![u].caching = c]
  BY <1>2 DEF CacheDelivered
<1>4. tap[u].caching \in Notice
  BY <1>1 DEF CacheDelivered, Tap
<1> QED BY <1>1, <1>3, <1>4 DEF Tap

LEMMA PublishTap ==
  ASSUME StreamTypeOK, PublishEvent
  PROVE  /\ tap' \in [Viewer -> Tap]
         /\ \A u \in Viewer : tap'[u].pc = tap[u].pc /\ tap'[u].subject = tap[u].subject
         /\ \E o \in outgoing, e \in Notice :
                /\ outgoing' = outgoing \ {o} /\ e.room = o.room /\ e.on = o.on
                /\ \A u \in Viewer :
                       tap'[u].mail = IF tap[u].pc = "open" /\ tap[u].subject
                                      THEN Append(tap[u].mail, e) ELSE tap[u].mail
<1>0. tap \in [Viewer -> Tap]
  BY DEF StreamTypeOK
<1>1. PICK o \in outgoing :
          /\ outgoing' = outgoing \ {o}
          /\ tap' = [u \in Viewer |->
                      IF tap[u].pc = "open" /\ tap[u].subject
                      THEN [tap[u] EXCEPT !.mail = Append(@, [room |-> o.room, on |-> o.on])]
                      ELSE tap[u]]
  BY DEF PublishEvent
<1>2. PICK e \in Notice : e = [room |-> o.room, on |-> o.on]
  BY DEF StreamTypeOK, Draft, Notice
<1>3. e.room = o.room /\ e.on = o.on
  BY <1>2
<1>4. ASSUME NEW u \in Viewer, tap[u].pc = "open" /\ tap[u].subject
      PROVE  /\ tap'[u] \in Tap
             /\ tap'[u].pc = tap[u].pc /\ tap'[u].subject = tap[u].subject
             /\ tap'[u].mail = Append(tap[u].mail, e)
  <2>1. PICK mail \in Seq(Notice) : mail = Append(tap[u].mail, e)
    BY <1>0, AppendProperties DEF Tap
  <2>2. tap'[u] = [tap[u] EXCEPT !.mail = mail]
    BY <1>1, <1>2, <1>4, <2>1
  <2> QED BY <1>0, <2>1, <2>2 DEF Tap
<1>5. ASSUME NEW u \in Viewer, ~(tap[u].pc = "open" /\ tap[u].subject)
      PROVE  tap'[u] = tap[u]
  BY <1>1, <1>5
<1>6. tap' = [u \in Viewer |-> tap'[u]]
  BY <1>1
<1>7. \A u \in Viewer : tap'[u] \in Tap
  BY <1>0, <1>4, <1>5
<1>8. tap' \in [Viewer -> Tap]
  BY <1>6, <1>7
<1>9. \A u \in Viewer : /\ tap'[u].pc = tap[u].pc /\ tap'[u].subject = tap[u].subject
                        /\ tap'[u].mail = IF tap[u].pc = "open" /\ tap[u].subject
                                          THEN Append(tap[u].mail, e) ELSE tap[u].mail
  BY <1>4, <1>5
<1> QED BY <1>1, <1>3, <1>8, <1>9

LEMMA ShowType ==
  ASSUME StreamTypeOK, NEW u \in Viewer, NEW r \in Room, NEW isOn \in BOOLEAN, Show(u, r, isOn)
  PROVE  screen' \in [Viewer -> SUBSET Room] /\ told' \in [Viewer -> SUBSET Room]
  BY DEF StreamTypeOK, Show, Draw

LEMMA ShowElsewhere ==
  ASSUME StreamTypeOK, NEW u \in Viewer, NEW r, NEW isOn, Show(u, r, isOn), NEW v \in Viewer, v # u
  PROVE  screen'[v] = screen[v] /\ told'[v] = told[v]
  BY DEF StreamTypeOK, Show, Draw

LEMMA ShowTold ==
  ASSUME StreamTypeOK, NEW u \in Viewer, NEW r, NEW isOn, Show(u, r, isOn)
  PROVE  told'[u] = IF Sees(u, r) THEN told[u] \cup {r} ELSE told[u]
  BY DEF StreamTypeOK, Show, Draw

LEMMA ShowScreen ==
  ASSUME StreamTypeOK, NEW u \in Viewer, NEW r, NEW isOn \in BOOLEAN, Show(u, r, isOn), NEW q
  PROVE  q \in screen'[u] <=> IF Sees(u, r) /\ q = r THEN isOn ELSE q \in screen[u]
  BY DEF StreamTypeOK, Show, Draw

\* A room of which the permission could not be asked.
LEMMA UncheckedIs ==
  ASSUME StreamTypeOK, NEW u \in Viewer, NEW r \in Room, NEW isOn \in BOOLEAN,
         ShowUnchecked(u, r, isOn)
  PROVE  /\ screen' \in [Viewer -> SUBSET Room] /\ told' \in [Viewer -> SUBSET Room]
         /\ admitted' \in [Viewer -> SUBSET Room]
         /\ \A v \in Viewer \ {u} : /\ screen'[v] = screen[v] /\ told'[v] = told[v]
                                    /\ admitted'[v] = admitted[v]
         /\ told'[u] = told[u] \ {r}
         /\ \A q : q # r => (q \in screen'[u] <=> q \in screen[u])
         /\ r \in screen'[u] => r \in screen[u] \/ r \in admitted'[u]
         /\ admitted[u] \subseteq admitted'[u]
<1>1. CASE UNCHANGED <<screen, admitted>>
  BY <1>1 DEF StreamTypeOK, ShowUnchecked
<1>2. CASE Draw(u, r, isOn) /\ admitted' = [admitted EXCEPT ![u] = @ \cup {r}]
  <2>1. told' = [told EXCEPT ![u] = @ \ {r}]
    BY DEF ShowUnchecked
  <2>2. screen' = [screen EXCEPT ![u] = IF isOn THEN @ \cup {r} ELSE @ \ {r}]
    BY <1>2 DEF Draw
  <2> QED BY <1>2, <2>1, <2>2 DEF StreamTypeOK
<1> QED BY <1>1, <1>2 DEF ShowUnchecked

\* What the cache and the mail of a stream hold are events of the rooms.
LEMMA NoticeFields == \A e \in Notice : e.room \in Room /\ e.on \in BOOLEAN
  BY DEF Notice

LEMMA NoEventRoom == NoEvent.room = "none" /\ NoEvent \notin Notice
  BY StreamsConstants DEF NoEvent, Notice

\* The replay is shown only if it is an event.
LEMMA Replayed ==
  ASSUME StreamTypeOK, NEW u \in Viewer, ReplayCached(u)
  PROVE  \/ \E e \in Notice :
                /\ tap[u].subject
                /\ Show(u, e.room, e.on)
                /\ blurred' = IF e.on = Published(e.room) THEN blurred ELSE blurred \cup {u}
         \/ \E e \in Notice : ShowUnchecked(u, e.room, e.on) /\ UNCHANGED blurred
         \/ UNCHANGED <<screen, told, admitted, blurred>>
<1>1. Subject(u) \in Viewer \cup {"guild"}
  BY DEF Subject
<1>2. replay[Subject(u)] \in Notice \cup {NoEvent}
  BY <1>1 DEF StreamTypeOK
<1>3. PICK e \in Notice \cup {NoEvent} : e = replay[Subject(u)]
  BY <1>2
<1>4. IF tap[u].subject /\ kind # "typing" /\ e # NoEvent
      THEN \/ /\ Show(u, e.room, e.on)
              /\ blurred' = IF e.on = Published(e.room) THEN blurred ELSE blurred \cup {u}
           \/ ShowUnchecked(u, e.room, e.on) /\ UNCHANGED blurred
           \/ Skip /\ UNCHANGED <<screen, told, admitted, blurred>>
      ELSE UNCHANGED <<screen, skips, told, admitted, blurred>>
  BY <1>3 DEF ReplayCached
<1> QED BY <1>4

LEMMA Delivered ==
  ASSUME StreamTypeOK, NEW u \in Viewer, DeliverEvent(u)
  PROVE  \E e \in Notice :
            /\ e = Head(tap[u].mail) /\ e.room \in Room /\ e.on \in BOOLEAN
            /\ Show(u, e.room, e.on) \/ ShowUnchecked(u, e.room, e.on)
  BY DeliverTap, NoticeFields DEF DeliverEvent

LEMMA StreamTypeInit == StreamInit => StreamTypeOK
<1> SUFFICES ASSUME StreamInit PROVE StreamTypeOK
  OBVIOUS
<1>1. tap \in [Viewer -> Tap]
  BY ClosedTap DEF StreamInit
<1> QED BY <1>1 DEF StreamInit, StreamTypeOK

LEMMA StreamTypeStep ==
  ASSUME StreamTypeOK, [StreamNext]_streamVars
  PROVE  StreamTypeOK'
<1>1. CASE UNCHANGED streamVars
  BY <1>1 DEF StreamTypeOK, streamVars, guild, ledger
<1>2. CASE Change
  <2>1. PICK r \in Room :
            /\ changes' = changes + 1
            /\ on' = IF r \in on THEN on \ {r} ELSE on \cup {r}
            /\ outgoing' = outgoing \cup {[room |-> r, on |-> r \notin on, n |-> changes]}
            /\ crossed' = IF Unpublished(r) THEN crossed \cup {r} ELSE crossed \ {r}
            /\ UNCHANGED <<kind, guild, tap, replay, screen, skips, told, admitted, blurred>>
    BY <1>2 DEF Change
  <2>2. PICK b \in BOOLEAN : b <=> r \notin on
    OBVIOUS
  <2>3. [room |-> r, on |-> r \notin on, n |-> changes] = [room |-> r, on |-> b, n |-> changes]
    BY <2>2
  <2>4. [room |-> r, on |-> b, n |-> changes] \in Draft
    BY DEF Draft, StreamTypeOK
  <2>5. on' \subseteq Room /\ outgoing' \subseteq Draft /\ crossed' \subseteq Room
          /\ changes' \in Nat
    BY <2>1, <2>3, <2>4 DEF StreamTypeOK
  <2> QED BY <2>1, <2>5 DEF StreamTypeOK, guild
<1>3. CASE PublishEvent
  <2>1. tap' \in [Viewer -> Tap] /\ outgoing' \subseteq outgoing
    BY <1>3, PublishTap
  <2>2. /\ blurred' \subseteq Viewer
        /\ UNCHANGED <<kind, guild, on, replay, screen, changes, skips, told, admitted, crossed>>
    BY <1>3 DEF PublishEvent, StreamTypeOK
  <2> QED BY <2>1, <2>2 DEF StreamTypeOK, guild
<1>4. CASE Permit
  BY <1>4 DEF Permit, StreamTypeOK
<1>5. CASE Revoke
  BY <1>5 DEF Revoke, StreamTypeOK
<1>6. CASE LeaveGuild
  BY <1>6 DEF LeaveGuild, StreamTypeOK
<1>7. CASE CachedExpires
  BY <1>7 DEF CachedExpires, StreamTypeOK, guild, ledger
<1>8. ASSUME NEW u \in Viewer, Open(u) \/ OpenUnresolved(u)
      PROVE  StreamTypeOK'
  <2>1. /\ screen' = [screen EXCEPT ![u] = {}]
        /\ told' = [told EXCEPT ![u] = {}]
        /\ admitted' = [admitted EXCEPT ![u] = mayView[u]]
        /\ blurred' = blurred \ {u}
        /\ UNCHANGED <<kind, inGuild, mayView, on, outgoing, replay, changes, crossed>>
    BY <1>8 DEF Open, OpenUnresolved, guild
  <2> QED BY <1>8, <2>1, OpenTap DEF StreamTypeOK
<1>9. ASSUME NEW u \in Viewer, Snapshot(u)
      PROVE  StreamTypeOK'
  <2>1. PICK r \in tap[u].todo : Show(u, r, r \in on) /\ Visited(u, {r})
    BY <1>9 DEF Snapshot
  <2>2. r \in Room
    BY <2>1 DEF StreamTypeOK, Tap
  <2>3. (r \in on) \in BOOLEAN
    OBVIOUS
  <2>4. screen' \in [Viewer -> SUBSET Room] /\ told' \in [Viewer -> SUBSET Room]
    BY <2>1, <2>2, <2>3, ShowType
  <2>5. tap' \in [Viewer -> Tap]
    BY <2>1, VisitedTap
  <2>6. UNCHANGED admitted
    BY <2>1 DEF Show
  <2> QED BY <1>9, <2>4, <2>5, <2>6 DEF Snapshot, StreamTypeOK, guild
<1>10. ASSUME NEW u \in Viewer, SnapshotFails(u)
       PROVE  StreamTypeOK'
  <2>1. PICK rooms : Visited(u, rooms)
    BY <1>10 DEF SnapshotFails
  <2>2. /\ screen' \in [Viewer -> SUBSET Room] /\ told' \in [Viewer -> SUBSET Room]
        /\ admitted' \in [Viewer -> SUBSET Room]
    <3>1. CASE UNCHANGED <<screen, told, admitted>>
      BY <3>1 DEF StreamTypeOK
    <3>2. ASSUME NEW r \in tap[u].todo, ShowUnchecked(u, r, r \in on)
          PROVE  <2>2
      <4>1. r \in Room /\ (r \in on) \in BOOLEAN
        BY DEF StreamTypeOK, Tap
      <4> QED BY <3>2, <4>1, UncheckedIs
    <3> QED BY <1>10, <3>1, <3>2 DEF SnapshotFails
  <2> QED BY <1>10, <2>1, <2>2, VisitedTap DEF SnapshotFails, StreamTypeOK, guild
<1>11. ASSUME NEW u \in Viewer, ReplayCached(u)
       PROVE  StreamTypeOK'
  <2>1. screen' \in [Viewer -> SUBSET Room] /\ told' \in [Viewer -> SUBSET Room]
          /\ admitted' \in [Viewer -> SUBSET Room] /\ blurred' \subseteq Viewer
    <3>1. CASE UNCHANGED <<screen, told, admitted, blurred>>
      BY <3>1 DEF StreamTypeOK
    <3>3. ASSUME NEW e \in Notice, ShowUnchecked(u, e.room, e.on), UNCHANGED blurred
          PROVE  <2>1
      BY <3>3, NoticeFields, UncheckedIs DEF StreamTypeOK
    <3>2. ASSUME NEW e \in Notice, Show(u, e.room, e.on),
                 blurred' = IF e.on = Published(e.room) THEN blurred ELSE blurred \cup {u}
          PROVE  <2>1
      <4>1. e.room \in Room /\ e.on \in BOOLEAN
        BY NoticeFields
      <4>2. screen' \in [Viewer -> SUBSET Room] /\ told' \in [Viewer -> SUBSET Room]
        BY <3>2, <4>1, ShowType
      <4>3. blurred' \subseteq Viewer /\ admitted' \in [Viewer -> SUBSET Room]
        BY <3>2 DEF StreamTypeOK, Show
      <4> QED BY <4>2, <4>3
    <3> QED BY <1>11, <3>1, <3>2, <3>3, Replayed
  <2>2. tap' \in [Viewer -> Tap]
    BY <1>11, PassTap DEF ReplayCached
  <2> QED BY <1>11, <2>1, <2>2 DEF ReplayCached, StreamTypeOK, guild
<1>12. ASSUME NEW u \in Viewer, SubscribeAll(u)
       PROVE  StreamTypeOK'
  BY <1>12, PassTap DEF SubscribeAll, StreamTypeOK, guild, ledger
<1>13. ASSUME NEW u \in Viewer, DeliverEvent(u)
       PROVE  StreamTypeOK'
  <2>1. PICK e \in Notice : /\ e.room \in Room /\ e.on \in BOOLEAN
                            /\ Show(u, e.room, e.on) \/ ShowUnchecked(u, e.room, e.on)
    BY <1>13, Delivered
  <2>2. /\ screen' \in [Viewer -> SUBSET Room] /\ told' \in [Viewer -> SUBSET Room]
        /\ admitted' \in [Viewer -> SUBSET Room]
    <3>1. CASE Show(u, e.room, e.on)
      <4>1. screen' \in [Viewer -> SUBSET Room] /\ told' \in [Viewer -> SUBSET Room]
        BY <2>1, <3>1, ShowType
      <4> QED BY <3>1, <4>1 DEF Show, StreamTypeOK
    <3>2. CASE ShowUnchecked(u, e.room, e.on)
      BY <2>1, <3>2, UncheckedIs
    <3> QED BY <2>1, <3>1, <3>2
  <2> QED BY <1>13, <2>2, DeliverTap DEF DeliverEvent, StreamTypeOK, guild
<1>14. ASSUME NEW u \in Viewer, CacheDelivered(u)
       PROVE  StreamTypeOK'
  <2>1. replay' \in [Viewer \cup {"guild"} -> Notice \cup {NoEvent}]
    BY <1>14, CacheTap DEF CacheDelivered, Subject, StreamTypeOK
  <2> QED BY <1>14, <2>1, CacheTap DEF CacheDelivered, StreamTypeOK, guild, ledger
<1>15. ASSUME NEW u \in Viewer, Close(u)
       PROVE  StreamTypeOK'
  BY <1>15, ClosedTap DEF Close, StreamTypeOK, guild, ledger
<1> QED BY <1>1, <1>2, <1>3, <1>4, <1>5, <1>6, <1>7, <1>8, <1>9, <1>10, <1>11, <1>12, <1>13,
           <1>14, <1>15 DEF StreamNext

LEMMA ViewInit == StreamInit => ViewInv /\ MailInv /\ ToldInv /\ PendingInv /\ AgreeInv
<1> SUFFICES ASSUME StreamInit PROVE ViewInv /\ MailInv /\ ToldInv /\ PendingInv /\ AgreeInv
  OBVIOUS
<1>1. \A u \in Viewer : tap[u] = Closed /\ screen[u] = {} /\ told[u] = {} /\ admitted[u] = mayView[u]
  BY DEF StreamInit
<1>2. ViewInv
  BY <1>1 DEF ViewInv
<1>3. \A u \in Viewer : tap[u].pc = "closed" /\ tap[u].mail = <<>>
  BY <1>1, ClosedTap
<1>4. \A u \in Viewer, r \in Room : About(u, r) = {}
  BY <1>3 DEF About
<1>5. PendingInv
  BY DEF StreamInit, PendingInv
<1> QED BY <1>1, <1>2, <1>3, <1>4, <1>5 DEF MailInv, ToldInv, AgreeInv, Agrees

\* A client is told of a room that its user may view.
LEMMA ShowView ==
  ASSUME StreamTypeOK, ViewInv, NEW u \in Viewer, NEW r \in Room, NEW isOn \in BOOLEAN,
         Show(u, r, isOn), UNCHANGED <<kind, mayView, admitted>>
  PROVE  ViewInv'
<1>0. /\ \A v \in Viewer \ {u} : screen'[v] = screen[v] /\ told'[v] = told[v]
      /\ told'[u] = IF Sees(u, r) THEN told[u] \cup {r} ELSE told[u]
      /\ screen'[u] \subseteq IF Sees(u, r) THEN screen[u] \cup {r} ELSE screen[u]
  <2>1. told'[u] = IF Sees(u, r) THEN told[u] \cup {r} ELSE told[u]
    BY ShowTold
  <2>2. \A q : q \in screen'[u] => (Sees(u, r) /\ q = r) \/ q \in screen[u]
    BY ShowScreen
  <2>3. \A v \in Viewer \ {u} : screen'[v] = screen[v] /\ told'[v] = told[v]
    BY ShowElsewhere
  <2> QED BY <2>1, <2>2, <2>3
<1>1. ASSUME NEW v \in Viewer
      PROVE  /\ mayView[v] \subseteq admitted[v]
             /\ Filtered => screen'[v] \subseteq admitted[v] /\ told'[v] \subseteq mayView[v]
  <2>1. CASE v # u
    BY <1>0, <2>1 DEF ViewInv
  <2>2. CASE v = u
    BY <1>0, <2>2 DEF ViewInv, Sees, Filtered
  <2> QED BY <2>1, <2>2
<1>2. Filtered' = Filtered
  BY DEF Filtered
<1> QED BY <1>1, <1>2 DEF ViewInv

LEMMA UncheckedView ==
  ASSUME StreamTypeOK, ViewInv, NEW u \in Viewer, NEW r \in Room, NEW isOn \in BOOLEAN,
         ShowUnchecked(u, r, isOn), UNCHANGED <<kind, mayView>>
  PROVE  ViewInv'
<1>1. ASSUME NEW v \in Viewer
      PROVE  /\ mayView[v] \subseteq admitted'[v]
             /\ Filtered => screen'[v] \subseteq admitted'[v] /\ told'[v] \subseteq mayView[v]
  <2>1. CASE v # u
    BY <2>1, UncheckedIs DEF ViewInv
  <2>2. CASE v = u
    <3>1. /\ told'[u] = told[u] \ {r}
          /\ \A q : q # r => (q \in screen'[u] <=> q \in screen[u])
          /\ r \in screen'[u] => r \in screen[u] \/ r \in admitted'[u]
          /\ admitted[u] \subseteq admitted'[u]
      BY UncheckedIs
    <3> QED BY <2>2, <3>1 DEF ViewInv
  <2> QED BY <2>1, <2>2
<1>2. Filtered' = Filtered
  BY DEF Filtered
<1> QED BY <1>1, <1>2 DEF ViewInv

LEMMA ViewStep ==
  ASSUME StreamTypeOK, ViewInv, [StreamNext]_streamVars
  PROVE  ViewInv'
<1>1. CASE UNCHANGED <<kind, mayView, admitted, screen, told>>
  BY <1>1 DEF ViewInv, Filtered
<1>2. CASE Permit
  BY <1>2 DEF Permit, ViewInv, Filtered, StreamTypeOK
<1>3. CASE Revoke
  BY <1>3 DEF Revoke, ViewInv, Filtered, StreamTypeOK
<1>4. CASE LeaveGuild
  <2>1. PICK u \in Viewer, left \in SUBSET Room :
            /\ left \subseteq mayView[u]
            /\ mayView' = [mayView EXCEPT ![u] = left]
            /\ told' = [told EXCEPT ![u] = @ \cap left]
            /\ UNCHANGED <<kind, screen, admitted>>
    BY <1>4 DEF LeaveGuild, StreamTypeOK
  <2>2. Filtered' = Filtered
    BY <2>1 DEF Filtered
  <2> QED BY <2>1, <2>2 DEF ViewInv, StreamTypeOK
<1>5. ASSUME NEW u \in Viewer, Open(u) \/ OpenUnresolved(u)
      PROVE  ViewInv'
  <2>1. /\ screen' = [screen EXCEPT ![u] = {}]
        /\ told' = [told EXCEPT ![u] = {}]
        /\ admitted' = [admitted EXCEPT ![u] = mayView[u]]
        /\ UNCHANGED <<kind, mayView>>
    BY <1>5 DEF Open, OpenUnresolved, guild
  <2> QED BY <2>1 DEF ViewInv, Filtered, StreamTypeOK
<1>6. ASSUME NEW u \in Viewer, Snapshot(u)
      PROVE  ViewInv'
  <2>1. PICK r \in tap[u].todo : Show(u, r, r \in on)
    BY <1>6 DEF Snapshot
  <2>2. r \in Room /\ (r \in on) \in BOOLEAN
    BY <2>1 DEF StreamTypeOK, Tap
  <2>3. UNCHANGED <<kind, mayView, admitted>>
    BY <1>6, <2>1 DEF Snapshot, guild, Show
  <2> QED BY <2>1, <2>2, <2>3, ShowView
<1>7. ASSUME NEW u \in Viewer, ReplayCached(u)
      PROVE  ViewInv'
  <2>1. UNCHANGED <<kind, mayView>>
    BY <1>7 DEF ReplayCached, guild
  <2>2. CASE UNCHANGED <<screen, told, admitted, blurred>>
    BY <1>1, <2>1, <2>2
  <2>3. ASSUME NEW e \in Notice, Show(u, e.room, e.on) \/ ShowUnchecked(u, e.room, e.on)
        PROVE  ViewInv'
    <3>1. e.room \in Room /\ e.on \in BOOLEAN
      BY NoticeFields
    <3>2. CASE Show(u, e.room, e.on)
      BY <2>1, <3>1, <3>2, ShowView DEF Show
    <3>3. CASE ShowUnchecked(u, e.room, e.on)
      BY <2>1, <3>1, <3>3, UncheckedView
    <3> QED BY <2>3, <3>2, <3>3
  <2> QED BY <1>7, <2>2, <2>3, Replayed
<1>8. ASSUME NEW u \in Viewer, DeliverEvent(u)
      PROVE  ViewInv'
  <2>1. PICK e \in Notice : /\ e.room \in Room /\ e.on \in BOOLEAN
                            /\ Show(u, e.room, e.on) \/ ShowUnchecked(u, e.room, e.on)
    BY <1>8, Delivered
  <2>2. UNCHANGED <<kind, mayView>>
    BY <1>8 DEF DeliverEvent, guild
  <2>3. CASE Show(u, e.room, e.on)
    BY <2>1, <2>2, <2>3, ShowView DEF Show
  <2>4. CASE ShowUnchecked(u, e.room, e.on)
    BY <2>1, <2>2, <2>4, UncheckedView
  <2> QED BY <2>1, <2>3, <2>4
<1>9. ASSUME NEW u \in Viewer, SnapshotFails(u)
      PROVE  ViewInv'
  <2>1. UNCHANGED <<kind, mayView>>
    BY <1>9 DEF SnapshotFails, guild
  <2>2. CASE UNCHANGED <<screen, told, admitted>>
    BY <1>1, <2>1, <2>2
  <2>3. ASSUME NEW r \in tap[u].todo, ShowUnchecked(u, r, r \in on)
        PROVE  ViewInv'
    <3>1. r \in Room /\ (r \in on) \in BOOLEAN
      BY DEF StreamTypeOK, Tap
    <3> QED BY <2>1, <2>3, <3>1, UncheckedView
  <2> QED BY <1>9, <2>2, <2>3 DEF SnapshotFails
<1> QED
  <2>1. CASE Change
    BY <1>1, <2>1 DEF Change, guild
  <2>2. CASE PublishEvent
    BY <1>1, <2>2 DEF PublishEvent, guild
  <2>3. CASE CachedExpires
    BY <1>1, <2>3 DEF CachedExpires, guild, ledger
  <2>4. ASSUME NEW u \in Viewer, SubscribeAll(u) \/ CacheDelivered(u) \/ Close(u)
        PROVE  ViewInv'
    BY <1>1, <2>4 DEF SubscribeAll, CacheDelivered, Close, guild, ledger
  <2>5. CASE UNCHANGED streamVars
    BY <1>1, <2>5 DEF streamVars, guild, ledger
  <2> QED BY <1>2, <1>3, <1>4, <1>5, <1>6, <1>7, <1>8, <1>9, <2>1, <2>2, <2>3, <2>4, <2>5
      DEF StreamNext

\* The step that each user's stream takes, seen from outside: the mail, the subject and pc.
LEMMA MailStep ==
  ASSUME StreamTypeOK, MailInv, [StreamNext]_streamVars
  PROVE  MailInv'
<1> USE DEF MailInv
<1>1. CASE UNCHANGED tap
  BY <1>1
<1>2. CASE PublishEvent
  <2>1. \A u \in Viewer : /\ tap'[u].pc = tap[u].pc /\ tap'[u].subject = tap[u].subject
                          /\ ~(tap[u].pc = "open" /\ tap[u].subject) => tap'[u].mail = tap[u].mail
    BY <1>2, PublishTap
  <2> QED BY <2>1
<1>3. ASSUME NEW u \in Viewer, Open(u) \/ OpenUnresolved(u)
      PROVE  MailInv'
  BY <1>3, OpenTap
<1>4. ASSUME NEW u \in Viewer, NEW rooms, Visited(u, rooms), tap[u].pc = "Snapshot"
      PROVE  MailInv'
  BY <1>4, VisitedTap
<1>5. ASSUME NEW u \in Viewer, NEW pc \in {"Subscribe", "open"}, tap' = [tap EXCEPT ![u].pc = pc],
             tap[u].pc # "open"
      PROVE  MailInv'
  BY <1>5, PassTap
<1>6. ASSUME NEW u \in Viewer, DeliverEvent(u)
      PROVE  MailInv'
  <2>1. tap[u].pc = "open" /\ tap[u].subject
    BY <1>6 DEF DeliverEvent
  <2> QED BY <1>6, <2>1, DeliverTap
<1>7. ASSUME NEW u \in Viewer, CacheDelivered(u)
      PROVE  MailInv'
  BY <1>7, CacheTap
<1>8. ASSUME NEW u \in Viewer, Close(u)
      PROVE  MailInv'
  <2>1. tap'[u] = Closed /\ \A v \in Viewer \ {u} : tap'[v] = tap[v]
    BY <1>8 DEF Close, StreamTypeOK
  <2> QED BY <2>1, ClosedTap
<1> QED
  <2>1. CASE Change \/ Permit \/ Revoke \/ LeaveGuild \/ CachedExpires \/ UNCHANGED streamVars
    BY <1>1, <2>1 DEF Change, Permit, Revoke, LeaveGuild, CachedExpires, streamVars
  <2>2. ASSUME NEW u \in Viewer, Snapshot(u) \/ SnapshotFails(u) PROVE MailInv'
    BY <1>4, <2>2 DEF Snapshot, SnapshotFails
  <2>3. ASSUME NEW u \in Viewer, ReplayCached(u) \/ SubscribeAll(u) PROVE MailInv'
    BY <1>5, <2>3 DEF ReplayCached, SubscribeAll
  <2> QED BY <1>2, <1>3, <1>6, <1>7, <1>8, <2>1, <2>2, <2>3 DEF StreamNext

LEMMA ToldStep ==
  ASSUME StreamTypeOK, MailInv, ToldInv, [StreamNext]_streamVars
  PROVE  ToldInv'
<1> USE DEF ToldInv
<1>1. CASE UNCHANGED <<tap, told>>
  BY <1>1
<1>2. CASE PublishEvent
  <2>1. /\ UNCHANGED told
        /\ \A u \in Viewer : tap'[u].pc = tap[u].pc /\ tap'[u].subject = tap[u].subject
    BY <1>2, PublishTap DEF PublishEvent
  <2> QED BY <2>1
<1>3. CASE Revoke \/ LeaveGuild
  BY <1>3 DEF Revoke, LeaveGuild, StreamTypeOK
<1>4. ASSUME NEW u \in Viewer, Open(u) \/ OpenUnresolved(u)
      PROVE  ToldInv'
  <2>1. told' = [told EXCEPT ![u] = {}]
    BY <1>4 DEF Open, OpenUnresolved
  <2> QED BY <1>4, <2>1, OpenTap DEF StreamTypeOK
<1>5. ASSUME NEW u \in Viewer, Snapshot(u)
      PROVE  ToldInv'
  <2>1. PICK r \in tap[u].todo : Show(u, r, r \in on) /\ Visited(u, {r})
    BY <1>5 DEF Snapshot
  <2>2. r \in Room /\ (r \in on) \in BOOLEAN
    BY <2>1 DEF StreamTypeOK, Tap
  <2>3. \A v \in Viewer \ {u} : told'[v] = told[v]
    BY <2>1, <2>2, ShowElsewhere
  <2>4. tap'[u].subject /\ \A v \in Viewer \ {u} : tap'[v] = tap[v]
    BY <1>5, <2>1, VisitedTap DEF MailInv, Snapshot
  <2> QED BY <2>3, <2>4
<1>6. ASSUME NEW u \in Viewer, SnapshotFails(u)
      PROVE  ToldInv'
  <2>1. PICK rooms : Visited(u, rooms)
    BY <1>6 DEF SnapshotFails
  <2>2. tap'[u].subject /\ \A v \in Viewer \ {u} : tap'[v] = tap[v]
    BY <1>6, <2>1, VisitedTap DEF MailInv, SnapshotFails
  <2>3. \A v \in Viewer \ {u} : told'[v] = told[v]
    BY <1>6 DEF SnapshotFails, ShowUnchecked, StreamTypeOK
  <2> QED BY <2>2, <2>3
<1>7. ASSUME NEW u \in Viewer, ReplayCached(u)
      PROVE  ToldInv'
  <2>1. /\ tap'[u].subject = tap[u].subject /\ tap[u].pc # "closed"
        /\ \A v \in Viewer \ {u} : tap'[v] = tap[v]
    BY <1>7, PassTap DEF ReplayCached
  <2>2. CASE UNCHANGED <<screen, told, admitted, blurred>>
    BY <2>1, <2>2
  <2>4. ASSUME NEW e \in Notice, ShowUnchecked(u, e.room, e.on)
        PROVE  ToldInv'
    <3>1. \A v \in Viewer : told'[v] \subseteq told[v]
      BY <2>4 DEF ShowUnchecked, StreamTypeOK
    <3> QED BY <2>1, <3>1
  <2>3. ASSUME NEW e \in Notice, tap[u].subject, Show(u, e.room, e.on)
        PROVE  ToldInv'
    <3>1. e.room \in Room /\ e.on \in BOOLEAN
      BY NoticeFields
    <3>2. \A v \in Viewer \ {u} : told'[v] = told[v]
      BY <2>3, <3>1, ShowElsewhere
    <3> QED BY <2>1, <2>3, <3>2
  <2> QED BY <1>7, <2>2, <2>3, <2>4, Replayed
<1>8. ASSUME NEW u \in Viewer, SubscribeAll(u)
      PROVE  ToldInv'
  BY <1>8, PassTap DEF SubscribeAll, ledger
<1>9. ASSUME NEW u \in Viewer, DeliverEvent(u)
      PROVE  ToldInv'
  <2>1. PICK e \in Notice : Show(u, e.room, e.on) \/ ShowUnchecked(u, e.room, e.on)
    BY <1>9, Delivered
  <2>3. \A v \in Viewer \ {u} : told'[v] = told[v]
    BY <2>1 DEF Show, ShowUnchecked, StreamTypeOK
  <2>4. tap[u].subject
    BY <1>9 DEF DeliverEvent, MailInv
  <2> QED BY <1>9, <2>3, <2>4, DeliverTap
<1>10. ASSUME NEW u \in Viewer, CacheDelivered(u)
       PROVE  ToldInv'
  BY <1>10, CacheTap DEF CacheDelivered, ledger
<1>11. ASSUME NEW u \in Viewer, Close(u)
       PROVE  ToldInv'
  <2>1. tap'[u] = Closed /\ \A v \in Viewer \ {u} : tap'[v] = tap[v]
    BY <1>11 DEF Close, StreamTypeOK
  <2> QED BY <1>11, <2>1, ClosedTap DEF Close, ledger
<1> QED
  <2>1. CASE Change \/ Permit \/ CachedExpires \/ UNCHANGED streamVars
    BY <1>1, <2>1 DEF Change, Permit, CachedExpires, streamVars, ledger
  <2> QED BY <1>2, <1>3, <1>4, <1>5, <1>6, <1>7, <1>8, <1>9, <1>10, <1>11, <2>1 DEF StreamNext

\* A stream whose mail stays as it is goes on agreeing with a room that does.
LEMMA AgreesStill ==
  ASSUME NEW u \in Viewer, NEW r \in Room, Agrees(u, r),
         tap'[u].mail = tap[u].mail,
         tap'[u].pc # "closed" => tap[u].pc # "closed",
         u \in blurred => u \in blurred',
         r \in told'[u] => r \in told[u],
         r \in screen'[u] <=> r \in screen[u],
         r \in on' <=> r \in on
  PROVE  Agrees(u, r)'
<1>1. About(u, r)' = About(u, r)
  BY DEF About
<1> QED BY <1>1 DEF Agrees

\* A stream without mail agrees when its screen does.
LEMMA AgreesWithoutMail ==
  ASSUME NEW u \in Viewer, NEW r \in Room, tap'[u].mail = <<>>,
         tap'[u].pc # "closed" /\ u \notin blurred' /\ r \in told'[u] =>
             (r \in screen'[u] <=> r \in on')
  PROVE  Agrees(u, r)'
<1>1. About(u, r)' = {}
  BY DEF About
<1> QED BY <1>1 DEF Agrees

\* One event at most is pending about a room whose changes do not overlap.
LEMMA PendingStep ==
  ASSUME StreamTypeOK, PendingInv, [StreamNext]_streamVars
  PROVE  PendingInv'
<1>1. CASE UNCHANGED <<on, outgoing, crossed>>
  BY <1>1 DEF PendingInv
<1>2. CASE Change
  <2>1. PICK r \in Room :
            /\ on' = IF r \in on THEN on \ {r} ELSE on \cup {r}
            /\ outgoing' = outgoing \cup {[room |-> r, on |-> r \notin on, n |-> changes]}
            /\ crossed' = IF Unpublished(r) THEN crossed \cup {r} ELSE crossed \ {r}
    BY <1>2 DEF Change
  <2>0. PICK b \in BOOLEAN : b <=> r \notin on
    OBVIOUS
  <2>5. PICK d : d = [room |-> r, on |-> b, n |-> changes]
    OBVIOUS
  <2>6. d.room = r /\ d.on = b
    BY <2>5
  <2>7. d = [room |-> r, on |-> r \notin on, n |-> changes]
    BY <2>0, <2>5
  <2>8. b <=> r \in on'
    BY <2>0, <2>1
  <2>2. /\ d = [room |-> r, on |-> r \notin on, n |-> changes]
        /\ d.room = r /\ (d.on <=> r \in on')
    BY <2>6, <2>7, <2>8
  <2> SUFFICES ASSUME NEW o \in outgoing', o.room \notin crossed'
               PROVE  /\ o.on <=> o.room \in on'
                      /\ \A p \in outgoing' : p.room = o.room => p = o
    BY DEF PendingInv
  <2>3. CASE o.room = r
    <3>1. ~Unpublished(r)
      BY <2>1, <2>3
    <3>2. \A p \in outgoing' : p.room = r => p = d
      BY <2>1, <2>2, <3>1 DEF Unpublished
    <3> QED BY <2>2, <2>3, <3>2
  <2>4. CASE o.room # r
    <3>1. o \in outgoing /\ o.room \notin crossed
      BY <2>1, <2>2, <2>4
    <3>2. \A p \in outgoing' : p.room = o.room => p \in outgoing
      BY <2>1, <2>2, <2>4
    <3> QED BY <2>1, <2>4, <3>1, <3>2 DEF PendingInv
  <2> QED BY <2>3, <2>4
<1>3. CASE PublishEvent
  BY <1>3 DEF PublishEvent, PendingInv
<1>4. CASE Permit \/ Revoke \/ LeaveGuild \/ CachedExpires \/ UNCHANGED streamVars
  BY <1>1, <1>4 DEF Permit, Revoke, LeaveGuild, CachedExpires, streamVars, ledger
<1>5. ASSUME NEW u \in Viewer,
             \/ Open(u) \/ OpenUnresolved(u) \/ Snapshot(u) \/ SnapshotFails(u) \/ ReplayCached(u)
             \/ SubscribeAll(u) \/ DeliverEvent(u) \/ CacheDelivered(u) \/ Close(u)
      PROVE  PendingInv'
  BY <1>1, <1>5 DEF Open, OpenUnresolved, Snapshot, SnapshotFails, ReplayCached, SubscribeAll,
                    DeliverEvent, CacheDelivered, Close, ledger
<1> QED BY <1>2, <1>3, <1>4, <1>5 DEF StreamNext

\* The event of the change joins the mail of those who listen, as its last.
LEMMA AgreesPublished ==
  ASSUME StreamTypeOK, MailInv, ToldInv, PendingInv, AgreeInv, PublishEvent, NEW u \in Viewer,
         NEW r \in Room, r \notin crossed, ~Unpublished(r)'
  PROVE  Agrees(u, r)'
<1>1. UNCHANGED <<on, screen, told>> /\ blurred' = blurred \cup {v \in Viewer : Opening(v)}
  BY DEF PublishEvent
<1>2. PICK o \in outgoing, e \in Notice :
          /\ outgoing' = outgoing \ {o} /\ e.room = o.room /\ e.on = o.on
          /\ \A v \in Viewer : tap'[v].mail = IF tap[v].pc = "open" /\ tap[v].subject
                                             THEN Append(tap[v].mail, e) ELSE tap[v].mail
  BY PublishTap
<1>3. tap[u].mail \in Seq(Notice) /\ tap'[u].pc = tap[u].pc
  BY PublishTap DEF StreamTypeOK, Tap
<1>6. e.room # r => Agrees(u, r)
  BY <1>2 DEF AgreeInv, Unpublished
<1>7. e.room = r => (e.on <=> r \in on)
  BY <1>2 DEF PendingInv
<1>4. CASE ~(tap[u].pc = "open" /\ tap[u].subject)
  <2>1. tap'[u].mail = tap[u].mail
    BY <1>2, <1>4
  <2>2. CASE e.room # r
    BY <1>1, <1>3, <1>6, <2>1, <2>2, AgreesStill
  <2>3. CASE e.room = r
    <3>1. tap'[u].mail = <<>>
      BY <1>4, <2>1 DEF MailInv
    <3>2. tap'[u].pc # "closed" /\ u \notin blurred' => tap[u].pc = "open"
      BY <1>1, <1>3 DEF Opening, StreamTypeOK, Tap
    <3>3. tap[u].pc = "open" => told[u] = {}
      BY <1>4 DEF ToldInv
    <3> QED BY <1>1, <3>1, <3>2, <3>3, AgreesWithoutMail
  <2> QED BY <2>2, <2>3
<1>5. CASE tap[u].pc = "open" /\ tap[u].subject
  <2> DEFINE n == Len(tap[u].mail)
  <2>1. tap'[u].mail = Append(tap[u].mail, e)
    BY <1>2, <1>5
  <2>2. /\ n \in Nat /\ Len(tap'[u].mail) = n + 1 /\ tap'[u].mail[n + 1] = e
        /\ \A i \in 1..n : tap'[u].mail[i] = tap[u].mail[i]
    BY <1>3, <2>1, AppendProperties
  <2>3. CASE e.room # r
    <3>1. About(u, r)' = About(u, r)
      <4>1. About(u, r)' = {i \in 1..(n + 1) : tap'[u].mail[i].room = r}
        BY <2>2 DEF About
      <4>2. \A i : i \in 1..(n + 1) <=> i \in 1..n \/ i = n + 1
        BY <2>2
      <4>3. About(u, r) = {i \in 1..n : tap[u].mail[i].room = r}
        BY DEF About
      <4> HIDE DEF n
      <4>4. \A i : i \in About(u, r)' <=> i \in About(u, r)
        BY <2>2, <2>3, <4>1, <4>2, <4>3
      <4> QED BY <4>4, <4>1, <4>3
    <3>2. \A i \in About(u, r) : tap'[u].mail[i] = tap[u].mail[i]
      BY <2>2 DEF About
    <3> QED BY <1>1, <1>3, <1>6, <2>3, <3>1, <3>2 DEF Agrees
  <2>4. CASE e.room = r
    <3>1. n + 1 \in About(u, r)'
      <4>1. About(u, r)' = {i \in 1..(n + 1) : tap'[u].mail[i].room = r}
        BY <2>2 DEF About
      <4> QED BY <2>2, <2>4, <4>1
    <3>2. \A i \in About(u, r)' : n + 1 <= i => i = n + 1
      BY <2>2 DEF About
    <3>3. tap'[u].mail[n + 1].on <=> r \in on'
      BY <1>1, <1>7, <2>2, <2>4
    <3> QED BY <3>1, <3>2, <3>3 DEF Agrees
  <2> QED BY <2>3, <2>4
<1> QED BY <1>4, <1>5

\* Showing the event of room q on stream u, which had no mail: what was there still agrees.
LEMMA AgreesShown ==
  ASSUME StreamTypeOK, AgreeInv, NEW u \in Viewer, NEW q \in Room, NEW isOn \in BOOLEAN,
         Show(u, q, isOn), tap[u].mail = <<>>, tap'[u].mail = <<>>, tap[u].pc # "closed",
         u \in blurred => u \in blurred', UNCHANGED <<on, outgoing>>,
         NEW r \in Room, r \notin crossed, ~Unpublished(r),
         r = q /\ u \notin blurred' => (isOn <=> q \in on)
  PROVE  Agrees(u, r)'
<1>1. Agrees(u, r) /\ About(u, r) = {}
  BY DEF AgreeInv, About
<1>2. told'[u] = IF Sees(u, q) THEN told[u] \cup {q} ELSE told[u]
  BY ShowTold
<1>3. r \in screen'[u] <=> IF Sees(u, q) /\ r = q THEN isOn ELSE r \in screen[u]
  BY ShowScreen
<1>4. u \notin blurred' /\ r \in told'[u] => (r \in screen'[u] <=> r \in on')
  BY <1>1, <1>2, <1>3 DEF Agrees
<1> QED BY <1>4, AgreesWithoutMail

\* Nor does a failing query of the permission for room q change what agrees.
LEMMA AgreesUnchecked ==
  ASSUME StreamTypeOK, AgreeInv, NEW u \in Viewer, NEW q \in Room, NEW isOn \in BOOLEAN,
         ShowUnchecked(u, q, isOn), tap[u].mail = <<>>, tap'[u].mail = <<>>, tap[u].pc # "closed",
         UNCHANGED <<on, blurred>>, NEW r \in Room, r \notin crossed, ~Unpublished(r)
  PROVE  Agrees(u, r)'
<1>1. Agrees(u, r) /\ About(u, r) = {}
  BY DEF AgreeInv, About
<1>2. told'[u] = told[u] \ {q} /\ (r # q => (r \in screen'[u] <=> r \in screen[u]))
  BY UncheckedIs
<1>3. u \notin blurred' /\ r \in told'[u] => (r \in screen'[u] <=> r \in on')
  BY <1>1, <1>2 DEF Agrees
<1> QED BY <1>3, AgreesWithoutMail

\* The head of the mail goes to the screen, and the rest moves up.
LEMMA AgreesDelivered ==
  ASSUME StreamTypeOK, ViewInv, MailInv, AgreeInv, NEW u \in Viewer, DeliverEvent(u),
         NEW r \in Room, r \notin crossed, ~Unpublished(r)
  PROVE  Agrees(u, r)'
<1> DEFINE mail == tap[u].mail
<1>1. PICK e \in Notice : /\ e = Head(mail)
                          /\ Show(u, e.room, e.on) \/ ShowUnchecked(u, e.room, e.on)
  BY Delivered
<1>2. e.room \in Room /\ e.on \in BOOLEAN
  BY NoticeFields
<1>3. UNCHANGED <<on, outgoing, blurred, mayView, kind>>
  BY DEF DeliverEvent, guild
<1>4. mail \in Seq(Notice) /\ mail # <<>>
  BY DEF StreamTypeOK, Tap, DeliverEvent
<1>5. tap'[u].mail = Tail(mail) /\ tap'[u].pc = tap[u].pc
  BY DeliverTap
<1>6. PICK n \in Nat : n = Len(mail)
  BY <1>4, LenProperties
<1>7. /\ n >= 1 /\ Len(Tail(mail)) = n - 1 /\ mail[1] = e
      /\ \A i \in 1..(n - 1) : Tail(mail)[i] = mail[i + 1]
  BY <1>1, <1>4, <1>6, HeadTailProperties
<1>8. About(u, r) = {i \in 1..n : mail[i].room = r}
  BY <1>6 DEF About
<1>9. About(u, r)' = {i \in 1..(n - 1) : Tail(mail)[i].room = r}
  BY <1>5, <1>7 DEF About
<1>10. ASSUME NEW i
       PROVE  i \in About(u, r)' => i \in Nat /\ i + 1 \in About(u, r)
  BY <1>7, <1>8, <1>9
<1>11. ASSUME NEW i
       PROVE  i \in About(u, r) => i = 1 \/ i - 1 \in About(u, r)'
  <2> SUFFICES ASSUME i \in About(u, r), i # 1 PROVE i - 1 \in About(u, r)'
    OBVIOUS
  <2>1. i \in 1..n /\ mail[i].room = r
    BY <1>8
  <2>2. i - 1 \in 1..(n - 1) /\ (i - 1) + 1 = i
    BY <2>1
  <2>3. Tail(mail)[i - 1] = mail[i]
    BY <1>7, <2>2
  <2> QED BY <1>9, <2>1, <2>2, <2>3
<1>12. Agrees(u, r)
  BY DEF AgreeInv
<1>13. ASSUME NEW i \in About(u, r)', \A j \in About(u, r)' : j <= i
       PROVE  tap'[u].mail[i].on <=> r \in on'
  <2>1. i \in Nat /\ i + 1 \in About(u, r)
    BY <1>10
  <2>2. ASSUME NEW j \in About(u, r) PROVE j <= i + 1
    <3>1. j \in Int
      BY <1>8
    <3>2. CASE j = 1
      BY <2>1, <3>2
    <3>3. CASE j - 1 \in About(u, r)'
      BY <1>13, <2>1, <3>1, <3>3
    <3> QED BY <1>11, <3>2, <3>3
  <2>3. mail[i + 1].on <=> r \in on
    BY <1>12, <2>1, <2>2 DEF Agrees
  <2>4. tap'[u].mail[i] = mail[i + 1]
    BY <1>5, <1>7, <1>9
  <2> QED BY <1>3, <2>3, <2>4
<1>14. ASSUME tap'[u].pc # "closed", u \notin blurred', r \in told'[u], About(u, r)' = {}
       PROVE  r \in screen'[u] <=> r \in on'
  <2>1. CASE ShowUnchecked(u, e.room, e.on)
    <3>1. told'[u] = told[u] \ {e.room} /\ (r # e.room => (r \in screen'[u] <=> r \in screen[u]))
      BY <1>2, <2>1, UncheckedIs
    <3>2. r # e.room /\ r \in told[u] /\ u \notin blurred /\ tap[u].pc # "closed"
      BY <1>3, <1>5, <1>14, <3>1
    <3>3. About(u, r) = {}
      BY <1>7, <1>8, <1>11, <1>14, <3>2
    <3> QED BY <1>3, <1>12, <3>1, <3>2, <3>3 DEF Agrees
  <2>2. CASE Show(u, e.room, e.on) /\ e.room = r
    <3>0. /\ told'[u] = IF Sees(u, r) THEN told[u] \cup {r} ELSE told[u]
          /\ r \in screen'[u] <=> IF Sees(u, r) THEN e.on ELSE r \in screen[u]
      BY <1>2, <2>2, ShowTold, ShowScreen
    <3>1. 1 \in About(u, r) /\ \A j \in About(u, r) : j <= 1
      BY <1>7, <1>8, <1>11, <1>14, <2>2
    <3>2. e.on <=> r \in on
      BY <1>7, <1>12, <3>1 DEF Agrees
    <3>3. Sees(u, r)
      BY <1>14, <3>0 DEF Sees, ViewInv
    <3> QED BY <1>3, <3>0, <3>2, <3>3
  <2>3. CASE Show(u, e.room, e.on) /\ e.room # r
    <3>0. /\ r \in told'[u] => r \in told[u]
          /\ r \in screen'[u] <=> r \in screen[u]
      <4>1. told'[u] = IF Sees(u, e.room) THEN told[u] \cup {e.room} ELSE told[u]
        BY <2>3, ShowTold
      <4>2. r \in screen'[u] <=> IF Sees(u, e.room) /\ r = e.room THEN e.on ELSE r \in screen[u]
        BY <1>2, <2>3, ShowScreen
      <4> QED BY <2>3, <4>1, <4>2
    <3>1. About(u, r) = {}
      BY <1>7, <1>8, <1>11, <1>14, <2>3
    <3>2. r \in told[u] /\ u \notin blurred /\ tap[u].pc # "closed"
      BY <1>3, <1>5, <1>14, <3>0
    <3> QED BY <1>3, <1>12, <3>0, <3>1, <3>2 DEF Agrees
  <2> QED BY <1>1, <2>1, <2>2, <2>3
<1> QED BY <1>13, <1>14 DEF Agrees

LEMMA AgreeStep ==
  ASSUME StreamTypeOK, StreamTypeOK', ViewInv, MailInv, ToldInv, PendingInv, AgreeInv,
         [StreamNext]_streamVars
  PROVE  AgreeInv'
<1> SUFFICES ASSUME NEW v \in Viewer, NEW r \in Room, r \notin crossed', ~Unpublished(r)'
             PROVE  Agrees(v, r)'
  BY DEF AgreeInv
<1>1. ASSUME outgoing' = outgoing, crossed' = crossed,
             tap'[v].mail = tap[v].mail,
             tap'[v].pc # "closed" => tap[v].pc # "closed",
             v \in blurred => v \in blurred',
             r \in told'[v] => r \in told[v],
             screen'[v] = screen[v], on' = on
      PROVE  Agrees(v, r)'
  <2>1. Agrees(v, r)
    BY <1>1 DEF AgreeInv, Unpublished
  <2> QED BY <1>1, <2>1, AgreesStill
<1>2. CASE Change
  <2>1. PICK q \in Room :
            /\ on' = IF q \in on THEN on \ {q} ELSE on \cup {q}
            /\ outgoing' = outgoing \cup {[room |-> q, on |-> q \notin on, n |-> changes]}
            /\ crossed' = IF Unpublished(q) THEN crossed \cup {q} ELSE crossed \ {q}
            /\ UNCHANGED <<kind, guild, tap, replay, screen, skips, told, admitted, blurred>>
    BY <1>2 DEF Change
  <2>2. PICK d \in outgoing' : d.room = q
    <3>1. [room |-> q, on |-> q \notin on, n |-> changes].room = q
      OBVIOUS
    <3> QED BY <2>1, <3>1
  <2>3. r # q /\ r \notin crossed /\ ~Unpublished(r)
    BY <2>1, <2>2 DEF Unpublished
  <2>4. Agrees(v, r)
    BY <2>3 DEF AgreeInv
  <2>5. r \in on' <=> r \in on
    BY <2>1, <2>3
  <2> QED BY <2>1, <2>4, <2>5, AgreesStill
<1>3. CASE PublishEvent
  <2>1. UNCHANGED crossed
    BY <1>3 DEF PublishEvent
  <2> QED BY <1>3, <2>1, AgreesPublished
<1>4. CASE Permit \/ CachedExpires \/ UNCHANGED streamVars
  <2>1. UNCHANGED <<outgoing, crossed, tap, blurred, told, screen, on>>
    BY <1>4 DEF Permit, CachedExpires, streamVars, ledger
  <2> QED BY <1>1, <2>1
<1>5. CASE Revoke \/ LeaveGuild
  <2>1. UNCHANGED <<outgoing, crossed, tap, blurred, screen, on>>
    BY <1>5 DEF Revoke, LeaveGuild
  <2>2. r \in told'[v] => r \in told[v]
    BY <1>5 DEF Revoke, LeaveGuild, StreamTypeOK
  <2> QED BY <1>1, <2>1, <2>2
<1>6. ASSUME NEW u \in Viewer, Open(u) \/ OpenUnresolved(u)
      PROVE  Agrees(v, r)'
  <2>1. /\ screen' = [screen EXCEPT ![u] = {}]
        /\ told' = [told EXCEPT ![u] = {}]
        /\ blurred' = blurred \ {u}
        /\ UNCHANGED <<on, outgoing, crossed>>
    BY <1>6 DEF Open, OpenUnresolved
  <2>2. CASE v # u
    <3>1. tap'[v] = tap[v]
      BY <1>6, <2>2, OpenTap
    <3> QED BY <1>1, <2>1, <2>2, <3>1 DEF StreamTypeOK
  <2>3. CASE v = u
    <3>1. tap'[v].mail = <<>>
      BY <1>6, <2>3, OpenTap
    <3>2. told'[v] = {}
      BY <2>1, <2>3 DEF StreamTypeOK
    <3> QED BY <3>1, <3>2, AgreesWithoutMail
  <2> QED BY <2>2, <2>3
<1>7. ASSUME NEW u \in Viewer, Snapshot(u)
      PROVE  Agrees(v, r)'
  <2>1. PICK q \in tap[u].todo : Show(u, q, q \in on) /\ Visited(u, {q})
    BY <1>7 DEF Snapshot
  <2>2. q \in Room /\ (q \in on) \in BOOLEAN
    BY <2>1 DEF StreamTypeOK, Tap
  <2>3. UNCHANGED <<on, outgoing, crossed, blurred>> /\ tap[u].pc = "Snapshot"
    BY <1>7 DEF Snapshot
  <2>4. CASE v # u
    <3>1. screen'[v] = screen[v] /\ told'[v] = told[v]
      BY <2>1, <2>4, ShowElsewhere
    <3>2. tap'[v] = tap[v]
      BY <2>1, <2>4, VisitedTap
    <3> QED BY <1>1, <2>3, <3>1, <3>2
  <2>5. CASE v = u
    <3>1. tap[u].mail = <<>> /\ tap'[u].mail = <<>>
      BY <2>1, <2>3, VisitedTap DEF MailInv
    <3>2. told'[u] = IF Sees(u, q) THEN told[u] \cup {q} ELSE told[u]
      BY <2>1, ShowTold
    <3>3. r \in screen'[u] <=> IF Sees(u, q) /\ r = q THEN q \in on ELSE r \in screen[u]
      BY <2>1, <2>2, ShowScreen
    <3>4. Agrees(u, r) /\ About(u, r) = {}
      BY <2>3, <3>1 DEF AgreeInv, About, Unpublished
    <3>5. u \notin blurred' /\ r \in told'[u] => (r \in screen'[u] <=> r \in on')
      BY <2>3, <3>2, <3>3, <3>4 DEF Agrees
    <3> QED BY <2>5, <3>1, <3>5, AgreesWithoutMail
  <2> QED BY <2>4, <2>5
<1>8. ASSUME NEW u \in Viewer, SnapshotFails(u)
      PROVE  Agrees(v, r)'
  <2>1. PICK rooms : Visited(u, rooms)
    BY <1>8 DEF SnapshotFails
  <2>2. tap'[v].mail = tap[v].mail /\ (tap'[v].pc # "closed" => tap[v].pc # "closed")
    BY <1>8, <2>1, VisitedTap DEF SnapshotFails
  <2>3. UNCHANGED <<outgoing, crossed, blurred, on>> /\ tap[u].pc = "Snapshot"
    BY <1>8 DEF SnapshotFails
  <2>4. CASE UNCHANGED <<screen, told, admitted>>
    BY <1>1, <2>2, <2>3, <2>4
  <2>5. ASSUME NEW q \in tap[u].todo, ShowUnchecked(u, q, q \in on)
        PROVE  Agrees(v, r)'
    <3>1. q \in Room /\ (q \in on) \in BOOLEAN
      BY DEF StreamTypeOK, Tap
    <3>2. CASE v # u
      <4>1. screen'[v] = screen[v] /\ told'[v] = told[v]
        <5>1. PICK b \in BOOLEAN : b = (q \in on)
          BY <3>1
        <5>2. ShowUnchecked(u, q, b)
          BY <2>5, <5>1
        <5> QED BY <3>1, <3>2, <5>2, UncheckedIs
      <4> QED BY <1>1, <2>2, <2>3, <4>1
    <3>3. CASE v = u
      <4>1. tap[u].mail = <<>> /\ tap'[u].mail = <<>>
        BY <2>2, <2>3, <3>3 DEF MailInv
      <4>2. r \notin crossed /\ ~Unpublished(r)
        BY <2>3 DEF Unpublished
      <4> QED BY <2>3, <2>5, <3>1, <3>3, <4>1, <4>2, AgreesUnchecked
    <3> QED BY <3>2, <3>3
  <2> QED BY <1>8, <2>4, <2>5 DEF SnapshotFails
<1>9. ASSUME NEW u \in Viewer, ReplayCached(u)
      PROVE  Agrees(v, r)'
  <2>1. UNCHANGED <<on, outgoing, crossed>> /\ tap[u].pc = "Replay"
    BY <1>9 DEF ReplayCached
  <2>0. r \notin crossed /\ ~Unpublished(r)
    BY <2>1 DEF Unpublished
  <2>2. /\ tap'[u].mail = tap[u].mail
        /\ \A w \in Viewer \ {u} : tap'[w] = tap[w]
    BY <1>9, PassTap DEF ReplayCached
  <2>3. CASE UNCHANGED <<screen, told, admitted, blurred>>
    BY <1>1, <2>1, <2>2, <2>3
  <2>5. ASSUME NEW e \in Notice, ShowUnchecked(u, e.room, e.on), UNCHANGED blurred
        PROVE  Agrees(v, r)'
    <3>1. e.room \in Room /\ e.on \in BOOLEAN
      BY NoticeFields
    <3>2. CASE v # u
      <4>1. screen'[v] = screen[v] /\ told'[v] = told[v]
        BY <2>5, <3>1, <3>2, UncheckedIs
      <4> QED BY <1>1, <2>1, <2>2, <2>5, <3>2, <4>1
    <3>3. CASE v = u
      <4>1. tap[u].mail = <<>> /\ tap'[u].mail = <<>>
        BY <2>1, <2>2 DEF MailInv
      <4> QED BY <2>0, <2>1, <2>5, <3>1, <3>3, <4>1, AgreesUnchecked
    <3> QED BY <3>2, <3>3
  <2>4. ASSUME NEW e \in Notice, Show(u, e.room, e.on),
               blurred' = IF e.on = Published(e.room) THEN blurred ELSE blurred \cup {u}
        PROVE  Agrees(v, r)'
    <3>1. e.room \in Room /\ e.on \in BOOLEAN
      BY NoticeFields
    <3>2. u \in blurred => u \in blurred'
      BY <2>4
    <3>3. CASE v # u
      <4>1. screen'[v] = screen[v] /\ told'[v] = told[v]
        BY <2>4, <3>3, ShowElsewhere
      <4>2. v \in blurred => v \in blurred'
        BY <2>4
      <4> QED BY <1>1, <2>1, <2>2, <3>3, <4>1, <4>2
    <3>4. CASE v = u
      <4>1. tap[u].mail = <<>> /\ tap'[u].mail = <<>>
        BY <2>1, <2>2 DEF MailInv
      <4>2. r = e.room /\ u \notin blurred' => (e.on <=> e.room \in on)
        <5> SUFFICES ASSUME r = e.room, u \notin blurred' PROVE e.on <=> e.room \in on
          OBVIOUS
        <5>1. e.on = Published(e.room)
          BY <2>4
        <5>2. Published(e.room) = (e.room \in on)
          BY <2>0 DEF Published
        <5> QED BY <3>1, <5>1, <5>2
      <4> QED BY <2>0, <2>1, <2>4, <3>1, <3>2, <3>4, <4>1, <4>2, AgreesShown
    <3> QED BY <3>3, <3>4
  <2> QED BY <1>9, <2>3, <2>4, <2>5, Replayed
<1>10. ASSUME NEW u \in Viewer, SubscribeAll(u)
       PROVE  Agrees(v, r)'
  <2>1. tap'[v].mail = tap[v].mail /\ (tap'[v].pc # "closed" => tap[v].pc # "closed")
    BY <1>10, PassTap DEF SubscribeAll
  <2>2. UNCHANGED <<outgoing, crossed, blurred, told, screen, on>>
    BY <1>10 DEF SubscribeAll, ledger
  <2> QED BY <1>1, <2>1, <2>2
<1>11. ASSUME NEW u \in Viewer, DeliverEvent(u)
       PROVE  Agrees(v, r)'
  <2>1. UNCHANGED <<on, outgoing, crossed, blurred>>
    BY <1>11 DEF DeliverEvent
  <2>0. r \notin crossed /\ ~Unpublished(r)
    BY <2>1 DEF Unpublished
  <2>2. CASE v # u
    <3>1. PICK e \in Notice : /\ e.room \in Room /\ e.on \in BOOLEAN
                              /\ Show(u, e.room, e.on) \/ ShowUnchecked(u, e.room, e.on)
      BY <1>11, Delivered
    <3>2. screen'[v] = screen[v] /\ told'[v] = told[v]
      BY <2>2, <3>1, ShowElsewhere, UncheckedIs
    <3>3. tap'[v] = tap[v]
      BY <1>11, <2>2, DeliverTap
    <3> QED BY <1>1, <2>1, <3>2, <3>3
  <2>3. CASE v = u
    BY <1>11, <2>0, <2>3, AgreesDelivered
  <2> QED BY <2>2, <2>3
<1>12. ASSUME NEW u \in Viewer, CacheDelivered(u)
       PROVE  Agrees(v, r)'
  <2>1. tap'[v].mail = tap[v].mail /\ tap'[v].pc = tap[v].pc
    BY <1>12, CacheTap
  <2>2. UNCHANGED <<outgoing, crossed, blurred, told, screen, on>>
    BY <1>12 DEF CacheDelivered, ledger
  <2> QED BY <1>1, <2>1, <2>2
<1>13. ASSUME NEW u \in Viewer, Close(u)
       PROVE  Agrees(v, r)'
  <2>1. tap'[u] = Closed /\ \A w \in Viewer \ {u} : tap'[w] = tap[w]
    BY <1>13 DEF Close, StreamTypeOK
  <2>2. UNCHANGED <<outgoing, crossed, blurred, told, screen, on>>
    BY <1>13 DEF Close, ledger
  <2>3. CASE v # u
    BY <1>1, <2>1, <2>2, <2>3
  <2>4. CASE v = u
    BY <2>1, <2>4, ClosedTap, AgreesWithoutMail
  <2> QED BY <2>3, <2>4
<1> QED BY <1>2, <1>3, <1>4, <1>5, <1>6, <1>7, <1>8, <1>9, <1>10, <1>11, <1>12, <1>13 DEF StreamNext

\* A stream that is up, and whose mail is delivered, shows each room it was told of as it is
\* once the events about the room are published, unless it missed one, was replayed or
\* denied one, or changes of the room overlapped; of a room the user could not view since it
\* was opened it shows nothing, but for a failing query of the overrides: the filter and the
\* order of the mail of every stream of the handler suffice for that, whatever the number of
\* viewers, rooms, changes and failing queries.
THEOREM StreamsAgree == StreamSpec => []StreamAgrees
<1> DEFINE Inv == StreamTypeOK /\ ViewInv /\ MailInv /\ ToldInv /\ PendingInv /\ AgreeInv
<1>1. StreamInit => Inv
  BY StreamTypeInit, ViewInit
<1>2. Inv /\ [StreamNext]_streamVars => Inv'
  BY StreamTypeStep, ViewStep, MailStep, ToldStep, PendingStep, AgreeStep
<1>3. Inv => StreamAgrees
  <2> SUFFICES ASSUME Inv, NEW u \in Viewer, tap[u].pc = "open"
               PROVE  /\ tap[u].mail = <<>> /\ u \notin blurred =>
                            \A r \in told[u] \ crossed :
                                ~Unpublished(r) => (r \in screen[u] <=> r \in on)
                      /\ Filtered => screen[u] \subseteq admitted[u]
    BY DEF StreamAgrees
  <2>1. Filtered => screen[u] \subseteq admitted[u]
    BY DEF ViewInv
  <2>2. ASSUME tap[u].mail = <<>>, u \notin blurred, NEW r \in told[u] \ crossed, ~Unpublished(r)
        PROVE  r \in screen[u] <=> r \in on
    <3>1. r \in Room
      BY DEF StreamTypeOK
    <3>2. About(u, r) = {}
      BY <2>2 DEF About
    <3>3. Agrees(u, r)
      BY <2>2, <3>1 DEF AgreeInv
    <3> QED BY <2>2, <3>2, <3>3 DEF Agrees
  <2> QED BY <2>1, <2>2
<1> QED BY <1>1, <1>2, <1>3, PTL DEF StreamSpec
=============================================================================
