------------------------------ MODULE GroupDM ------------------------------
(***************************************************************************)
(* One group DM: its members (internal/features/channel/service.go), the     *)
(* calls held in it (internal/features/voice/service.go), and what both      *)
(* publish to each member's subjects.  A publication is one step for each    *)
(* member, and a subject is delivered in order.  The LiveKit room is as the  *)
(* code uses it.                                                             *)
(***************************************************************************)
EXTENDS Naturals, FiniteSets

CONSTANTS
    Person, Server,
    Nobody,
    MaxGroupFaults  \* bound: how many store, LiveKit or NATS calls fail

ASSUME GroupDMConstants == Nobody \notin Person /\ MaxGroupFaults \in Nat

VARIABLES
    chan,        \* the channels row: "none", "live" or "deleted"
    member,      \* dm_channel_members, the live rows
    callRoom,    \* LiveKit: the room exists
    inRoom,      \* LiveKit: who is in it
    inCall,      \* the clients that hold a token and have not hung up
    task,        \* the RPC each server runs
    shown,       \* what each client shows as the members; nothing after a DELETE
    ringing,     \* whom an INCOMING has reached and no ENDED since
    groupFaults, \* calls that have failed so far
    oneByOne,    \* history: no two RPCs have overlapped
    dropped,     \* history: a connection was lost, or a room timed out
    regrouped    \* history: an RPC about the group itself was called

dm == <<chan, member>>
callMedia == <<callRoom, inRoom>>
clients == <<inCall, shown, ringing>>
history == <<oneByOne, dropped, regrouped>>
groupVars == <<dm, callMedia, clients, task, groupFaults, history>>

CallOps == {"StartDMCall", "JoinDMCall", "RejectDMCall", "LeaveDMCall"}
GroupOps == {"CreateDMChannel", "AddDMGroupMember", "RemoveDMGroupMember", "DeleteChannel"}

\* members: the list a hang-up has read; to: those still to be told of the event.
\* stayed: history, the others who have been connected ever since the hang-up began.
Free == [op |-> "none", pc |-> "idle", user |-> Nobody, target |-> Nobody, add |-> {},
         members |-> {}, to |-> {}, profiles |-> {}, event |-> "none", stayed |-> {}]

\* There is no group yet, or one that everybody in it is shown.
GroupInit ==
    /\ \/ chan = "none" /\ member = {}
       \/ chan = "live" /\ member \in SUBSET Person
    /\ callRoom = FALSE
    /\ inRoom = {}
    /\ inCall = {}
    /\ task = [w \in Server |-> Free]
    /\ shown = [u \in Person |-> IF u \in member THEN member ELSE {}]
    /\ ringing = {}
    /\ groupFaults = 0
    /\ oneByOne = TRUE /\ dropped = FALSE /\ regrouped = FALSE

Advance(w, pc) == task' = [task EXCEPT ![w].pc = pc]

Answer(w) == task' = [task EXCEPT ![w] = Free]

AdvanceIf(w, ok, pc) == IF ok THEN Advance(w, pc) ELSE Answer(w)

FirstCall(op) ==
    CASE op \in CallOps -> "IsDMMember"
      [] op = "CreateDMChannel" -> "CreateRow"
      [] OTHER -> "GetChannelByID"

\* A client's RPC reaches a free server.  Who hangs up does so before the answer.
Request(w, op, u, t, recipients) ==
    /\ task[w].pc = "idle"
    /\ task' = [task EXCEPT ![w] = [Free EXCEPT !.op = op, !.pc = FirstCall(op), !.user = u, !.target = t,
                                                !.add = recipients,
                                                !.stayed = IF op = "LeaveDMCall" THEN inRoom \ {u} ELSE {}]]
    /\ inCall' = IF op = "LeaveDMCall" THEN inCall \ {u} ELSE inCall
    /\ UNCHANGED <<dm, callMedia, shown, ringing, groupFaults>>

-----------------------------------------------------------------------------
(* LiveKit and the clients. *)

\* Who leaves the room is no longer among those who stayed.
Parted(u) == [w \in Server |-> [task[w] EXCEPT !.stayed = @ \ {u}]]

EnterCall(u) ==
    /\ u \in inCall \ inRoom
    /\ callRoom' = TRUE /\ inRoom' = inRoom \cup {u}
    /\ UNCHANGED <<dm, clients, task, groupFaults>>

\* A connection is lost, and the client with it.
DropOut(u) ==
    /\ u \in inRoom
    /\ inRoom' = inRoom \ {u} /\ inCall' = inCall \ {u}
    /\ task' = Parted(u)
    /\ UNCHANGED <<dm, callRoom, shown, ringing, groupFaults>>

\* EmptyTimeout has passed.
FinishCall ==
    /\ callRoom /\ inRoom = {}
    /\ callRoom' = FALSE
    /\ UNCHANGED <<dm, inRoom, clients, task, groupFaults>>

-----------------------------------------------------------------------------
(* Reads. *)

GetChannelByID(w) ==
    /\ task[w].pc = "GetChannelByID"
    /\ AdvanceIf(w, chan = "live", IF task[w].op = "DeleteChannel" THEN "DMMembers" ELSE "IsDMMember")
    /\ UNCHANGED <<dm, callMedia, clients, groupFaults>>

AfterIsDMMember ==
    [op \in CallOps \cup {"AddDMGroupMember", "RemoveDMGroupMember"} |->
        CASE op \in {"StartDMCall", "JoinDMCall"} -> "CreateRoom"
          [] op = "RejectDMCall" -> "DMMembers"
          [] op = "LeaveDMCall" -> "RemoveParticipant"
          [] OTHER -> "IsTargetMember"]

\* The caller must be a member.
IsDMMember(w) ==
    /\ task[w].pc = "IsDMMember"
    /\ AdvanceIf(w, task[w].user \in member, AfterIsDMMember[task[w].op])
    /\ UNCHANGED <<dm, callMedia, clients, groupFaults>>

IsTargetMember(w) ==
    /\ task[w].pc = "IsTargetMember"
    /\ IF task[w].op = "AddDMGroupMember"
       THEN AdvanceIf(w, task[w].target \notin member, "AddMember")
       ELSE AdvanceIf(w, task[w].target \in member, "DMMembers")
    /\ UNCHANGED <<dm, callMedia, clients, groupFaults>>

CallEvent ==
    [StartDMCall |-> "INCOMING", JoinDMCall |-> "ACCEPTED", RejectDMCall |-> "REJECTED",
     LeaveDMCall |-> "PARTICIPANT_LEFT"]

AfterDMMembers(op) ==
    CASE op \in CallOps -> "Publish"
      [] op = "AddDMGroupMember" -> "Profiles"
      [] op = "RemoveDMGroupMember" -> "RemoveMember"
      [] op = "DeleteChannel" -> "DeleteRow"

WithMembers(w, list) ==
    LET op == task[w].op
    IN  task' = [task EXCEPT ![w].members = IF op = "LeaveDMCall" THEN list ELSE {}, ![w].to = list,
                             ![w].event = IF op \in CallOps THEN CallEvent[op] ELSE "UPDATE",
                             ![w].pc = AfterDMMembers(op)]

\* Mutant: RemoveDMGroupMember tells the members that are left.
DMMembersAfter(w) ==
    /\ task[w].pc = "DMMembers"
    /\ WithMembers(w, IF task[w].op = "RemoveDMGroupMember" THEN member \ {task[w].target} ELSE member)
    /\ UNCHANGED <<dm, callMedia, clients, groupFaults>>

\* Whom to tell; a member that RemoveDMGroupMember is about to remove is among them.
DMMembers(w) ==
    /\ task[w].pc = "DMMembers"
    /\ WithMembers(w, member)
    /\ UNCHANGED <<dm, callMedia, clients, groupFaults>>

\* GetDMChannelMemberProfiles of publishDMChannelEvent.
Profiles(w) ==
    /\ task[w].pc = "Profiles"
    /\ task' = [task EXCEPT ![w].profiles = member, ![w].pc = "Publish"]
    /\ UNCHANGED <<dm, callMedia, clients, groupFaults>>

-----------------------------------------------------------------------------
(* Writes. *)

\* The group's row; the creator is added first.
CreateRow(w) ==
    /\ task[w].pc = "CreateRow"
    /\ chan = "none"            \* another group is another channel
    /\ chan' = "live"
    /\ task' = [task EXCEPT ![w].target = task[w].user, ![w].pc = "AddMember",
                            ![w].to = {task[w].user} \cup task[w].add]
    /\ UNCHANGED <<member, callMedia, clients, groupFaults>>

AddMember(w) ==
    /\ task[w].pc = "AddMember"
    /\ member' = member \cup {task[w].target}
    /\ IF task[w].op = "AddDMGroupMember" THEN Advance(w, "DMMembers")
       ELSE IF task[w].add = {}
            THEN task' = [task EXCEPT ![w].event = "CREATE", ![w].pc = "Profiles"]
            ELSE \E u \in task[w].add :
                    task' = [task EXCEPT ![w].target = u, ![w].add = @ \ {u}]
    /\ UNCHANGED <<chan, callMedia, clients, groupFaults>>

\* Ringing is only followed for those who stay members.
RemoveMember(w) ==
    /\ task[w].pc = "RemoveMember"
    /\ member' = member \ {task[w].target}
    /\ ringing' = ringing \ {task[w].target}
    /\ Advance(w, "Profiles")
    /\ UNCHANGED <<chan, callMedia, inCall, shown, groupFaults>>

\* DeleteChannel asks no membership of its caller and leaves the members' rows.
DeleteRow(w) ==
    /\ task[w].pc = "DeleteRow"
    /\ chan' = "deleted"
    /\ task' = [task EXCEPT ![w].event = "DELETE", ![w].pc = "Publish"]
    /\ UNCHANGED <<member, callMedia, clients, groupFaults>>

CreateCallRoom(w) ==
    /\ task[w].pc = "CreateRoom"
    /\ callRoom' = TRUE
    /\ Advance(w, "DMMembers")
    /\ UNCHANGED <<dm, inRoom, clients, groupFaults>>

\* Mutant: who is not in the room gets LiveKit's error back.
RemoveParticipantOrFail(w) ==
    /\ task[w].pc = "RemoveParticipant"
    /\ inRoom' = inRoom \ {task[w].user}
    /\ IF task[w].user \in inRoom
       THEN task' = [Parted(task[w].user) EXCEPT ![w].pc = "DMMembers"] ELSE Answer(w)
    /\ UNCHANGED <<dm, callRoom, clients, groupFaults>>

\* An error of LiveKit is ignored, not being in the room among them.
RemoveParticipant(w) ==
    /\ task[w].pc = "RemoveParticipant"
    /\ inRoom' = inRoom \ {task[w].user}
    /\ task' = [Parted(task[w].user) EXCEPT ![w].pc = "DMMembers"]
    /\ UNCHANGED <<dm, callRoom, clients, groupFaults>>

\* Mutant: a failing ListParticipants is taken for an empty room.
ListFailingIsEmpty(w) ==
    /\ task[w].pc = "ListParticipants"
    /\ \/ /\ inRoom = {} \/ groupFaults < MaxGroupFaults
          /\ task' = [task EXCEPT ![w].event = "ENDED", ![w].to = task[w].members, ![w].pc = "Publish"]
       \/ inRoom # {} /\ Answer(w)
    /\ UNCHANGED <<dm, callMedia, clients, groupFaults>>

\* The room is asked again; of a finished room LiveKit reports nobody, or an error.
ListCallers(w) ==
    /\ task[w].pc = "ListParticipants"
    /\ \/ /\ inRoom = {}
          /\ task' = [task EXCEPT ![w].event = "ENDED", ![w].to = task[w].members, ![w].pc = "Publish"]
       \/ (inRoom # {} \/ ~callRoom) /\ Answer(w)
    /\ UNCHANGED <<dm, callMedia, clients, groupFaults>>

-----------------------------------------------------------------------------
(* Publications. *)

\* What a client makes of an event.
Told(u, w) ==
    /\ shown' = CASE task[w].event \in {"CREATE", "UPDATE"} -> [shown EXCEPT ![u] = task[w].profiles]
                  [] task[w].event = "DELETE" -> [shown EXCEPT ![u] = {}]
                  [] OTHER -> shown
    /\ ringing' = CASE task[w].event = "INCOMING" -> ringing \cup {u}
                    [] task[w].event = "ENDED" -> ringing \ {u}
                    [] OTHER -> ringing

Publish(w) ==
    /\ task[w].pc = "Publish"
    /\ \E u \in task[w].to :
        /\ Told(u, w)
        /\ task' = [task EXCEPT ![w].to = @ \ {u}]
    /\ UNCHANGED <<dm, callMedia, inCall, groupFaults>>

\* Everyone has been told: LeaveDMCall looks at the room, the others answer, the two
\* that mint a token with it.
Published(w) ==
    /\ task[w].pc = "Publish" /\ task[w].to = {}
    /\ AdvanceIf(w, task[w].event = "PARTICIPANT_LEFT", "ListParticipants")
    /\ inCall' = IF task[w].op \in {"StartDMCall", "JoinDMCall"} THEN inCall \cup {task[w].user} ELSE inCall
    /\ UNCHANGED <<dm, callMedia, shown, ringing, groupFaults>>

\* A call fails: most end the RPC; LiveKit's answer to a removal is ignored, no member
\* list is an empty list, a target that cannot be looked up is taken for a newcomer,
\* and a publication is lost.
RequestFails(w) ==
    /\ task[w].pc # "idle" /\ groupFaults < MaxGroupFaults
    /\ groupFaults' = groupFaults + 1
    /\ CASE task[w].pc = "RemoveParticipant" -> Advance(w, "DMMembers")
         [] task[w].pc = "DMMembers" -> WithMembers(w, {})
         [] task[w].pc = "IsTargetMember" -> AdvanceIf(w, task[w].op = "AddDMGroupMember", "AddMember")
         [] task[w].pc = "Publish" -> \E u \in task[w].to : task' = [task EXCEPT ![w].to = @ \ {u}]
         [] OTHER -> Answer(w)
    /\ UNCHANGED <<dm, callMedia, clients>>

GroupStep(w) ==
    \/ GetChannelByID(w) \/ IsDMMember(w) \/ IsTargetMember(w) \/ DMMembers(w) \/ Profiles(w)
    \/ CreateRow(w) \/ AddMember(w) \/ RemoveMember(w) \/ DeleteRow(w)
    \/ CreateCallRoom(w) \/ RemoveParticipant(w) \/ ListCallers(w)
    \/ Publish(w) \/ Published(w)

\* Anyone may call anything; a group is created with two recipients or more.
Arrive(w) ==
    \E u \in Person :
        \/ \E op \in CallOps \cup {"DeleteChannel"} : Request(w, op, u, Nobody, {})
        \/ \E op \in {"AddDMGroupMember", "RemoveDMGroupMember"}, t \in Person : Request(w, op, u, t, {})
        \/ /\ chan = "none" /\ \A v \in Server : task[v].op # "CreateDMChannel"
           /\ \E rs \in SUBSET (Person \ {u}) : Cardinality(rs) > 1 /\ Request(w, "CreateDMChannel", u, Nobody, rs)

NoOverlap == \A v, w \in Server : task[v].pc # "idle" /\ task[w].pc # "idle" => v = w

GroupNext ==
    /\ \/ /\ \/ \E w \in Server : Arrive(w) \/ GroupStep(w) \/ RequestFails(w)
             \/ \E u \in Person : EnterCall(u)
          /\ UNCHANGED dropped
       \/ /\ (\E u \in Person : DropOut(u)) \/ FinishCall
          /\ dropped' = TRUE
    /\ oneByOne' = (oneByOne /\ NoOverlap')
    /\ regrouped' = (regrouped \/ \E w \in Server : task'[w].op \in GroupOps)

GroupSpec == GroupInit /\ [][GroupNext]_groupVars

-----------------------------------------------------------------------------

\* A hang-up announces the end of the call only when nobody has been in it all along:
\* whatever the other handlers and LiveKit do meanwhile, and whichever calls fail, a
\* member who stays connected while LeaveDMCall runs keeps the call from being ended.
EndedOnlyWhenEmpty ==
    \A w \in Server : task[w].event = "ENDED" => task[w].stayed = {}

AllAnswered == \A w \in Server : task[w].pc = "idle"

\* Once everyone who was in a call has hung up through LeaveDMCall, no member is left
\* ringing: among overlapping starts, joins, rejections and hang-ups the last word to
\* each member is ENDED.
NobodyLeftRinging ==
    groupFaults = 0 /\ ~dropped /\ ~regrouped /\ AllAnswered /\ inCall = {} => ringing = {}

\* With RPCs that do not overlap and no failing call, every member of a group is shown
\* its members, whoever was removed is shown a list without themselves, and nobody is
\* shown a deleted group.
GroupViewAgrees ==
    oneByOne /\ groupFaults = 0 /\ AllAnswered =>
        \A u \in Person :
            IF u \in member THEN shown[u] = IF chan = "live" THEN member ELSE {}
            ELSE u \notin shown[u]
=============================================================================
