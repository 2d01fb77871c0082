------------------------------ MODULE MCVoice ------------------------------
(***************************************************************************)
(* The voice feature for TLC: a guild voice channel (Voice), one handler at  *)
(* a time, or a group DM and its calls (GroupDM).  A behaviour is of one     *)
(* mode: which of the two, the RPCs that are called, how many users there    *)
(* are and how many calls fail; of Voice, whether webhooks are prompt; of    *)
(* GroupDM, how many RPCs overlap, whether clients leave without hanging up, *)
(* and whether there is a group at first.                                    *)
(***************************************************************************)
EXTENDS Voice, GroupDM, TLC

VARIABLE mode

VoiceMode ==
    {\* Comings and goings, webhooks delivered at any later moment.
     [kind |-> "voice",
      ops |-> {"JoinChannel", "LeaveChannel", "DisconnectUser", "GetChannelParticipants",
               "Mute", "Unmute"},
      crowd |-> 2, failing |-> 0, prompt |-> FALSE],
     \* Every RPC by one user, one call failing.
     [kind |-> "voice", ops |-> VoiceOps, crowd |-> 1, failing |-> 1, prompt |-> FALSE],
     \* Webhooks handled before the next RPC, and nobody asks for a snapshot.
     [kind |-> "voice",
      ops |-> {"JoinChannel", "LeaveChannel", "DisconnectUser", "StartScreenShare",
               "ServerDeafenUser"},
      crowd |-> 2, failing |-> 0, prompt |-> TRUE]}

GroupMode ==
    {\* Calls of a group whose members do not change, every client hanging up.
     [kind |-> "group", ops |-> CallOps,
      crowd |-> 2, width |-> 2, failing |-> 0, drops |-> FALSE, chan |-> "live"],
     \* Calls while clients vanish, rooms time out and a call fails.
     [kind |-> "group", ops |-> {"StartDMCall", "LeaveDMCall"},
      crowd |-> 2, width |-> 2, failing |-> 1, drops |-> TRUE, chan |-> "live"],
     \* The life of a group, one RPC at a time.
     [kind |-> "group", ops |-> GroupOps,
      crowd |-> 3, width |-> 1, failing |-> 0, drops |-> FALSE, chan |-> "none"],
     \* The same with a failing call.
     [kind |-> "group", ops |-> GroupOps,
      crowd |-> 3, width |-> 1, failing |-> 1, drops |-> TRUE, chan |-> "none"],
     \* The life of a group while one member calls, one RPC at a time.
     [kind |-> "group", ops |-> {"StartDMCall", "LeaveDMCall", "AddDMGroupMember", "RemoveDMGroupMember",
                                 "DeleteChannel"},
      crowd |-> 2, width |-> 1, failing |-> 0, drops |-> FALSE, chan |-> "live"]}

\* The users of the mode, out of S.
Crowd(S) == CHOOSE C \in SUBSET S : Cardinality(C) = mode.crowd

Involved ==
    (listed \cup present \cup token \cup connected \cup {rpc[w].user : w \in Worker}
        \cup {e[2] : e \in webhooks}) \cap User

\* A mode restricts which RPCs start and which calls fail, so it does not take the
\* steps away that fairness asks for.
InVoiceMode ==
    /\ faults <= mode.failing
    /\ \A w \in Worker : rpc[w].op \in VoiceOps => rpc[w].op \in mode.ops
    /\ Involved \subseteq Crowd(User)
    /\ mode.prompt => prompt

InGroupMode ==
    /\ groupFaults <= mode.failing
    /\ dropped => mode.drops
    /\ \A w \in Server : /\ {task[w].user, task[w].target} \subseteq Crowd(Person) \cup {Nobody}
                         /\ task[w].op \in mode.ops \cup {"none"}
    /\ Cardinality({w \in Server : task[w].op # "none"}) <= mode.width

\* A mode without a group DM has none.
MCInit ==
    /\ Init /\ GroupInit
    /\ mode \in VoiceMode \cup GroupMode
    /\ chan = IF mode.kind = "group" THEN mode.chan ELSE "none"
    /\ chan = "live" => member = Crowd(Person)

MCNext ==
    /\ UNCHANGED mode
    /\ \/ mode.kind = "voice" /\ Next /\ InVoiceMode' /\ UNCHANGED groupVars
       \/ mode.kind = "group" /\ GroupNext /\ InGroupMode' /\ UNCHANGED vars

\* A handler that has started goes on, a webhook is delivered in the end, and an
\* empty room is finished in the end.
Fairness ==
    /\ \A w \in Worker : WF_system(Step(w)) /\ WF_system(handleEvent(w))
    /\ WF_system(FinishRoom)

MCSpec == MCInit /\ [][MCNext]_<<vars, groupVars, mode>> /\ Fairness

-----------------------------------------------------------------------------

Abandoned ==
    /\ present = {}
    /\ connected = {}
    /\ \A w \in Worker : rpc[w].op \notin VoiceOps

\* With no call failing, once every client has gone for good the hash and the timer are
\* cleared, be it by LeaveChannel, by participant_left or by room_finished.
Converges == (mode.failing = 0 /\ <>[]Abandoned) => <>[](listed = {} /\ since = NoUser)
=============================================================================
