----------------------------- MODULE MCPresence -----------------------------
(***************************************************************************)
(* The stream feature for TLC: the presence of one user and one friend, or   *)
(* the other streams.  A behaviour is of one mode: of Presence, the RPCs the *)
(* user calls, the statuses picked, how many hooks and RPCs overlap, and     *)
(* whether the server crashes; of Streams, how many streams are up at once,  *)
(* how often rooms change and whether permissions do.                        *)
(***************************************************************************)
EXTENDS Presence, Streams, TLC

VARIABLE mode

PresenceMode ==
    {\* One handler at a time.
     [part |-> "presence", ops |-> {"UpdatePresence", "Logout", "UpdateUsername"},
      choice |-> {"dnd"}, open |-> 2, width |-> 1, failing |-> 1, dying |-> 0],
     \* UpdateUser, which tells friends what it does not write to the hash; "away" is a text
     \* that is no status.
     [part |-> "presence", ops |-> {"UpdateUser"},
      choice |-> {"dnd", "away"}, open |-> 1, width |-> 1, failing |-> 1, dying |-> 0],
     \* Two handlers at a time, UpdateStatus among them, and a crash.
     [part |-> "presence", ops |-> {"Logout", "UpdateStatus"}, choice |-> {"online"},
      open |-> 2, width |-> 2, failing |-> 0, dying |-> 1],
     \* Two hooks at a time, and a failing call or a crash.
     [part |-> "presence", ops |-> {}, choice |-> {},
      open |-> 2, width |-> 2, failing |-> 1, dying |-> 1]}

Picks(w) == job[w].op = "UpdatePresence" \/ job[w].pc = "UpdateUser"

InPresenceMode ==
    /\ crashes <= mode.dying /\ faults <= mode.failing
    /\ faults + crashes <= 1
    /\ Cardinality({s \in Session : job[s] # Idle}) <= mode.open
    /\ Cardinality(Busy) <= mode.width
    /\ \A w \in Worker : /\ job[w].op \in mode.ops \cup {"none"}
                         /\ Picks(w) => job[w].status \in mode.choice \cup {"kept"}

StreamMode ==
    {\* One stream at a time, while permissions and memberships change; one of the users
     \* may view rooms.
     [part |-> "streams", kinds |-> {"voice"}, open |-> 1, viewing |-> 1, changes |-> 2,
      skips |-> 0, steady |-> FALSE],
     \* A query fails meanwhile.
     [part |-> "streams", kinds |-> Kind, open |-> 1, viewing |-> 1, changes |-> 1,
      skips |-> 1, steady |-> FALSE],
     \* A query fails while events overtake one another.
     [part |-> "streams", kinds |-> Kind, open |-> 1, viewing |-> 1, changes |-> 2,
      skips |-> 1, steady |-> TRUE],
     \* Two users' streams, which share the replay cache.
     [part |-> "streams", kinds |-> {"voice", "text"}, open |-> 2, viewing |-> 2, changes |-> 2,
      skips |-> 0, steady |-> TRUE]}

InStreamMode ==
    /\ changes <= mode.changes
    /\ skips <= mode.skips
    /\ Cardinality({u \in Viewer : tap[u].pc # "closed"}) <= mode.open
    /\ Cardinality({u \in Viewer : mayView[u] # {}}) <= mode.viewing

MCInit ==
    /\ Init /\ StreamInit
    /\ mode \in PresenceMode \cup StreamMode
    /\ mode.part = "presence" => kind = "voice" /\ mayView = [u \in Viewer |-> {}]
    /\ mode.part = "streams" => kind \in mode.kinds /\ InStreamMode

MCNext ==
    /\ UNCHANGED mode
    /\ \/ mode.part = "presence" /\ Next /\ InPresenceMode' /\ UNCHANGED streamVars
       \/ /\ mode.part = "streams" /\ StreamNext /\ InStreamMode' /\ UNCHANGED vars
          /\ mode.steady => UNCHANGED guild

MCSpec == MCInit /\ [][MCNext]_<<vars, streamVars, mode>>

Symmetric == Permutations(Session) \cup Permutations(Viewer) \cup Permutations(Room)
=============================================================================
