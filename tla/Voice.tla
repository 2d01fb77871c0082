------------------------------- MODULE Voice -------------------------------
(***************************************************************************)
(* One guild voice channel: the Redis participant hash and its timer       *)
(* (internal/features/voice/state.go), the RPCs of service.go, the LiveKit *)
(* webhook of webhook.go, and the LiveKit room as these files use it.      *)
(*                                                                         *)
(* Redis and LiveKit calls are atomic, and nothing ties two of them        *)
(* together.  What is published to subscribers is left out: no handler     *)
(* reads it back.                                                          *)
(***************************************************************************)
EXTENDS Naturals, FiniteSets

CONSTANTS
    User, Worker,
    Ops,            \* the RPCs clients call in this instance
    NoUser,
    MaxFaults       \* bound: how many Redis or LiveKit calls fail

Toggles == {"Mute", "Unmute", "Deafen", "Undeafen", "EnableVideo", "DisableVideo",
            "StartScreenShare", "StopScreenShare"}

VoiceOps == Toggles \cup {"JoinChannel", "LeaveChannel", "DisconnectUser",
                          "ServerMuteUser", "ServerDeafenUser", "GetChannelParticipants"}

ASSUME VoiceConstants ==
    /\ Ops \subseteq VoiceOps
    /\ NoUser \notin User
    /\ MaxFaults \in Nat

VARIABLES
    listed,     \* the fields of the hash voice:<channel>
    flags,      \* the flags of each listed participant
    since,      \* voice:<channel>:active_since, as the user whose join set it
    room,       \* LiveKit: the room exists
    connected,  \* LiveKit: who is in it
    allowed,    \* LiveKit: what each participant may do
    webhooks,   \* LiveKit: events not yet delivered
    token,      \* LiveKit: the clients with a token that has not expired
    present,    \* history: whose stay is unbroken since their JoinChannel
    rpc,        \* the RPC or webhook each worker runs
    faults,     \* calls that have failed so far
    serial,     \* history: no two handlers have overlapped
    prompt      \* history: every step so far has been Prompt

redis == <<listed, flags, since>>
livekit == <<room, connected, allowed, webhooks, token>>
system == <<redis, livekit, present, rpc, faults>>
vars == <<system, serial, prompt>>

Flag == {"self_mute", "self_deaf", "video", "screen_share"}

\* read: the flags a toggle has read.  stale: the users a snapshot saw connected,
\* then those it has still to remove.
Idle == [op |-> "none", pc |-> "idle", user |-> NoUser, on |-> FALSE, read |-> {}, stale |-> {}]

Init ==
    /\ listed = {}
    /\ flags = [u \in User |-> {}]
    /\ since = NoUser
    /\ room = FALSE
    /\ connected = {}
    /\ allowed = [u \in User |-> {}]
    /\ webhooks = {}
    /\ token = {}
    /\ present = {}
    /\ rpc = [w \in Worker |-> Idle]
    /\ faults = 0
    /\ serial = TRUE /\ prompt = TRUE

-----------------------------------------------------------------------------

Goto(w, pc) == rpc' = [rpc EXCEPT ![w].pc = pc]

Return(w) == rpc' = [rpc EXCEPT ![w] = Idle]

Proceed(w, ok, pc) == IF ok THEN Goto(w, pc) ELSE Return(w)

\* RemoveParticipant is done: a snapshot goes on with the next stale user, anyone
\* else has finished.
Removed(w) ==
    IF rpc[w].stale = {} THEN Return(w)
    ELSE \E u \in rpc[w].stale :
            rpc' = [rpc EXCEPT ![w].user = u, ![w].stale = @ \ {u}, ![w].pc = "HDel"]

Entry(op) ==
    CASE op = "JoinChannel" -> "CanConnect"
      [] op \in {"LeaveChannel", "DisconnectUser"} -> "RemoveFromRoom"
      [] op \in {"ServerMuteUser", "ServerDeafenUser"} -> "UpdateParticipant"
      [] op = "GetChannelParticipants" -> "ListParticipants"
      [] op \in {"EnableVideo", "StartScreenShare"} -> "RequireStreamPerm"
      [] op = "participant_left" -> "HDel"
      [] op = "room_finished" -> "DelHash"
      [] OTHER -> "GetParticipant"

\* A client's RPC reaches a free worker.  Joining starts the caller's stay afresh
\* and leaving ends it, before the server answers.  No RPC takes a token back.
Call(w) ==
    /\ rpc[w].pc = "idle"
    /\ \E op \in Ops, u \in User, b \in BOOLEAN :
        /\ b => op \in {"ServerMuteUser", "ServerDeafenUser"}
        /\ present' = IF op \in {"JoinChannel", "LeaveChannel", "DisconnectUser"}
                      THEN present \ {u} ELSE present
        /\ rpc' = [rpc EXCEPT ![w] = [Idle EXCEPT !.op = op, !.pc = Entry(op),
                                                  !.user = u, !.on = b]]
    /\ UNCHANGED <<redis, livekit, faults>>

-----------------------------------------------------------------------------
(* LiveKit.                                                                *)

Send(e) == webhooks' = webhooks \cup {e}

\* A client enters with its token, which creates the room when it is gone.  The token
\* is as good after the client has left, or the room was finished, as before.
Connect(u) ==
    /\ u \in token \ connected
    /\ room' = TRUE
    /\ connected' = connected \cup {u}
    /\ allowed' = [allowed EXCEPT ![u] = {"publish", "subscribe"}]
    /\ UNCHANGED <<redis, webhooks, token, present, rpc, faults>>

\* tokenTTL has passed.
TokenExpires(u) ==
    /\ u \in token
    /\ token' = token \ {u}
    /\ UNCHANGED <<redis, room, connected, allowed, webhooks, present, rpc, faults>>

\* A client's connection is lost.
Disconnect(u) ==
    /\ u \in connected
    /\ connected' = connected \ {u}
    /\ allowed' = [allowed EXCEPT ![u] = {}]
    /\ Send(<<"participant_left", u>>)
    /\ present' = present \ {u}
    /\ UNCHANGED <<redis, room, token, rpc, faults>>

\* A client that has joined gives up before it connects.
GiveUp(u) ==
    /\ u \in present \ connected
    /\ present' = present \ {u}
    /\ UNCHANGED <<redis, livekit, rpc, faults>>

\* EmptyTimeout has passed: it ends the stay of the clients that have yet to connect.
FinishRoom ==
    /\ room
    /\ connected = {}
    /\ room' = FALSE
    /\ present' = {}
    /\ Send(<<"room_finished", NoUser>>)
    /\ UNCHANGED <<redis, connected, allowed, token, rpc, faults>>

-----------------------------------------------------------------------------
(* webhook.go.  The events that only publish are left out.                   *)

\* Mutant: room_finished is taken for an event that only publishes.
HandleOnlyLeft(w) ==
    /\ rpc[w].pc = "idle"
    /\ \E e \in webhooks :
        /\ webhooks' = webhooks \ {e}
        /\ rpc' = [rpc EXCEPT ![w] = IF e[1] = "room_finished" THEN Idle
                                     ELSE [Idle EXCEPT !.op = e[1], !.pc = Entry(e[1]), !.user = e[2]]]
    /\ UNCHANGED <<redis, room, connected, allowed, token, present, faults>>

handleEvent(w) ==
    /\ rpc[w].pc = "idle"
    /\ \E e \in webhooks :
        /\ webhooks' = webhooks \ {e}
        /\ rpc' = [rpc EXCEPT ![w] = [Idle EXCEPT !.op = e[1], !.pc = Entry(e[1]), !.user = e[2]]]
    /\ UNCHANGED <<redis, room, connected, allowed, token, present, faults>>

-----------------------------------------------------------------------------
(* JoinChannel.                                                              *)

\* authz answers yes or no.
CanConnect(w) ==
    /\ rpc[w].pc = "CanConnect"
    /\ \E ok \in BOOLEAN : Proceed(w, ok, "CreateRoom")
    /\ UNCHANGED <<redis, livekit, present, faults>>

CreateRoom(w) ==
    /\ rpc[w].pc = "CreateRoom"
    /\ room' = TRUE
    /\ Goto(w, "SetParticipant")
    /\ UNCHANGED <<redis, connected, allowed, webhooks, token, present, faults>>

SetParticipant(w) ==
    /\ rpc[w].pc = "SetParticipant"
    /\ listed' = listed \cup {rpc[w].user}
    /\ flags' = [flags EXCEPT ![rpc[w].user] = {}]
    /\ Goto(w, "EnsureActiveSince")
    /\ UNCHANGED <<since, livekit, present, faults>>

\* The answer with the token.
Admit(w) ==
    /\ token' = token \cup {rpc[w].user}
    /\ present' = present \cup {rpc[w].user}

\* Mutant: SET instead of SETNX.
RestartActiveSince(w) ==
    /\ rpc[w].pc = "EnsureActiveSince"
    /\ since' = rpc[w].user
    /\ Admit(w)
    /\ Return(w)
    /\ UNCHANGED <<listed, flags, room, connected, allowed, webhooks, faults>>

\* SETNX; then the answer with the token.
EnsureActiveSince(w) ==
    /\ rpc[w].pc = "EnsureActiveSince"
    /\ since' = IF since = NoUser THEN rpc[w].user ELSE since
    /\ Admit(w)
    /\ Return(w)
    /\ UNCHANGED <<listed, flags, room, connected, allowed, webhooks, faults>>

-----------------------------------------------------------------------------
(* LeaveChannel, DisconnectUser, and RemoveParticipant of state.go.          *)

\* Kicks the user out of the LiveKit room; nothing happens if they are not in it.
RemoveFromRoom(w) ==
    /\ rpc[w].pc = "RemoveFromRoom"
    /\ LET u == rpc[w].user IN
        IF u \in connected
        THEN /\ connected' = connected \ {u}
             /\ allowed' = [allowed EXCEPT ![u] = {}]
             /\ Send(<<"participant_left", u>>)
             /\ present' = present \ {u}
        ELSE UNCHANGED <<connected, allowed, webhooks, present>>
    /\ Proceed(w, rpc[w].op = "LeaveChannel", "HDel")
    /\ UNCHANGED <<redis, room, token, faults>>

HDel(w) ==
    /\ rpc[w].pc = "HDel"
    /\ listed' = listed \ {rpc[w].user}
    /\ flags' = [flags EXCEPT ![rpc[w].user] = {}]
    /\ Goto(w, "HLen")
    /\ UNCHANGED <<since, livekit, present, faults>>

\* Mutant: the hash is deleted although others are still listed.
HLenIgnored(w) ==
    /\ rpc[w].pc = "HLen"
    /\ Goto(w, "DelHash")
    /\ UNCHANGED <<redis, livekit, present, faults>>

HLen(w) ==
    /\ rpc[w].pc = "HLen"
    /\ IF listed = {} THEN Goto(w, "DelHash") ELSE Removed(w)
    /\ UNCHANGED <<redis, livekit, present, faults>>

DelHash(w) ==
    /\ rpc[w].pc = "DelHash"
    /\ listed' = {}
    /\ flags' = [u \in User |-> {}]
    /\ Goto(w, "ClearActiveSince")
    /\ UNCHANGED <<since, livekit, present, faults>>

ClearActiveSince(w) ==
    /\ rpc[w].pc = "ClearActiveSince"
    /\ since' = NoUser
    /\ Removed(w)
    /\ UNCHANGED <<listed, flags, livekit, present, faults>>

-----------------------------------------------------------------------------
(* The toggles: read, change, write back.                                    *)

\* requireStreamPerm: nobody is refused who is not listed.
StreamAnswer(w) ==
    \E ok \in BOOLEAN : Proceed(w, rpc[w].user \in listed => ok, "GetParticipant")

RequireStreamPerm(w) ==
    /\ rpc[w].pc = "RequireStreamPerm"
    /\ StreamAnswer(w)
    /\ UNCHANGED <<redis, livekit, present, faults>>

Mutate(op, f) ==
    CASE op = "Mute" -> f \cup {"self_mute"}
      [] op = "Unmute" -> f \ {"self_mute"}
      [] op = "Deafen" -> f \cup {"self_deaf", "self_mute"}
      [] op = "Undeafen" -> f \ {"self_deaf", "self_mute"}
      [] op = "EnableVideo" -> f \cup {"video"}
      [] op = "DisableVideo" -> f \ {"video"}
      [] op = "StartScreenShare" -> f \cup {"screen_share"}
      [] op = "StopScreenShare" -> f \ {"screen_share"}
      [] OTHER -> f

GetParticipant(w) ==
    /\ rpc[w].pc = "GetParticipant"
    /\ IF rpc[w].user \in listed
       THEN rpc' = [rpc EXCEPT ![w].read = flags[rpc[w].user], ![w].pc = "SetToggled"]
       ELSE Return(w)
    /\ UNCHANGED <<redis, livekit, present, faults>>

\* Mutant: the record is written from scratch, with the toggled flag alone.
SetToggledAfresh(w) ==
    /\ rpc[w].pc = "SetToggled"
    /\ listed' = listed \cup {rpc[w].user}
    /\ flags' = [flags EXCEPT ![rpc[w].user] = Mutate(rpc[w].op, {})]
    /\ Return(w)
    /\ UNCHANGED <<since, livekit, present, faults>>

SetToggled(w) ==
    /\ rpc[w].pc = "SetToggled"
    /\ listed' = listed \cup {rpc[w].user}
    /\ flags' = [flags EXCEPT ![rpc[w].user] = Mutate(rpc[w].op, rpc[w].read)]
    /\ Return(w)
    /\ UNCHANGED <<since, livekit, present, faults>>

-----------------------------------------------------------------------------
(* ServerMuteUser and ServerDeafenUser replace the whole permission.         *)

Permission(op, on) ==
    CASE op = "ServerMuteUser" -> {"subscribe"} \cup (IF on THEN {} ELSE {"publish"})
      [] op = "ServerDeafenUser" -> IF on THEN {} ELSE {"publish", "subscribe"}
      [] OTHER -> {}

UpdateParticipant(w) ==
    /\ rpc[w].pc = "UpdateParticipant"
    /\ allowed' = IF rpc[w].user \in connected
                  THEN [allowed EXCEPT ![rpc[w].user] = Permission(rpc[w].op, rpc[w].on)]
                  ELSE allowed
    /\ Return(w)
    /\ UNCHANGED <<redis, room, connected, webhooks, token, present, faults>>

-----------------------------------------------------------------------------
(* VoiceSnapshot.GetChannelParticipants, when a client opens its stream: it   *)
(* removes from Redis whoever LiveKit does not list, unless it lists nobody.  *)

ListParticipants(w) ==
    /\ rpc[w].pc = "ListParticipants"
    /\ IF connected = {} THEN Return(w)
       ELSE rpc' = [rpc EXCEPT ![w].stale = connected, ![w].pc = "GetChannelState"]
    /\ UNCHANGED <<redis, livekit, present, faults>>

GetChannelState(w) ==
    /\ rpc[w].pc = "GetChannelState"
    /\ LET stale == listed \ rpc[w].stale IN
        IF stale = {} THEN Return(w)
        ELSE \E u \in stale :
            rpc' = [rpc EXCEPT ![w].user = u, ![w].stale = stale \ {u}, ![w].pc = "HDel"]
    /\ UNCHANGED <<redis, livekit, present, faults>>

-----------------------------------------------------------------------------
(* A failing call changes nothing.  Most of these errors are ignored: in      *)
(* requireStreamPerm a failing read lets the caller through, and a failing    *)
(* CanStream refuses them.                                                   *)

AfterError(w) ==
    CASE rpc[w].pc = "SetParticipant" -> Goto(w, "EnsureActiveSince")
      [] rpc[w].pc = "RemoveFromRoom" -> Proceed(w, rpc[w].op = "LeaveChannel", "HDel")
      [] rpc[w].pc \in {"HDel", "HLen", "ClearActiveSince"} -> Removed(w)
      [] rpc[w].pc = "DelHash" -> Goto(w, "ClearActiveSince")
      [] rpc[w].pc = "RequireStreamPerm" -> StreamAnswer(w)
      [] OTHER -> Return(w)

CallFails(w) ==
    /\ rpc[w].pc # "idle"
    /\ faults < MaxFaults
    /\ faults' = faults + 1
    /\ AfterError(w)
    /\ IF rpc[w].pc = "EnsureActiveSince" THEN Admit(w) ELSE UNCHANGED <<token, present>>
    /\ UNCHANGED <<redis, room, connected, allowed, webhooks>>

Step(w) ==
    \/ CanConnect(w) \/ CreateRoom(w) \/ SetParticipant(w) \/ EnsureActiveSince(w)
    \/ RemoveFromRoom(w) \/ HDel(w) \/ HLen(w) \/ DelHash(w) \/ ClearActiveSince(w)
    \/ RequireStreamPerm(w) \/ GetParticipant(w) \/ SetToggled(w) \/ UpdateParticipant(w)
    \/ ListParticipants(w) \/ GetChannelState(w)

OneAtATime == \A v, w \in Worker : rpc[v].pc # "idle" /\ rpc[w].pc # "idle" => v = w

Quiet == \A w \in Worker : rpc[w].pc = "idle"

\* Webhooks are prompt: no RPC starts while one waits, and LiveKit's own events wait for
\* the handlers; nor does anybody ask for a snapshot.
Prompt ==
    /\ \A w \in Worker : rpc[w].pc = "idle" /\ rpc'[w].op \in VoiceOps =>
            webhooks = {} /\ rpc'[w].op # "GetChannelParticipants"
    /\ ~Quiet /\ rpc' = rpc => webhooks' = webhooks

Next ==
    /\ \/ \E w \in Worker : Call(w) \/ handleEvent(w) \/ Step(w) \/ CallFails(w)
       \/ \E u \in User : Connect(u) \/ TokenExpires(u) \/ Disconnect(u) \/ GiveUp(u)
       \/ FinishRoom
    /\ serial' = (serial /\ OneAtATime')
    /\ prompt' = (prompt /\ Prompt)

Spec == Init /\ [][Next]_vars

-----------------------------------------------------------------------------
(* One handler at a time.                                                    *)

\* Whichever calls fail, a toggle changes its own flag of a participant that is listed
\* at that moment, and no other flag of theirs or of anybody else.
ToggleIsLocal ==
    [][\A w \in Worker :
        (serial /\ rpc[w].pc = "SetToggled" /\ rpc'[w].pc = "idle" /\ faults' = faults) =>
            LET u == rpc[w].user IN
            /\ u \in listed
            /\ flags' = [flags EXCEPT ![u] = Mutate(rpc[w].op, flags[u])]]_vars

\* With no failing call, active_since is the first joiner's: it changes only when nobody
\* is listed.
FirstJoinerTimer ==
    [][serial /\ faults' = 0 /\ since # NoUser /\ since' # since => listed = {}]_vars

\* With prompt webhooks and no failing call, a client whose stay is unbroken is listed: it
\* joined, has neither left nor lost its connection since, and the room was not finished
\* while it had yet to connect.  A client that enters on a token from an earlier stay, or
\* after room_finished has cleared it, is in the room unlisted until it joins again.
PresentIsListed == serial /\ prompt /\ faults = 0 => present \subseteq listed
=============================================================================
