--------------------------- MODULE MCChannelPerms ---------------------------
(***************************************************************************)
(* ChannelPerms for TLC.  A behaviour is of one mode: what the workers do,  *)
(* how many of them at a time, how often rows change, how many statements   *)
(* fail, and how many roles, guild channels and DMs are in use.             *)
(***************************************************************************)
EXTENDS ChannelPerms, SequencesExt

VARIABLE mode

Overriding == {"checkChannel", "SetChannelOverride", "DeleteChannelOverride"}

Mode ==
    {\* Roles that disagree.
     [ops |-> Overriding, perms |-> {"VIEW_CHANNELS"},
      width |-> 1, changes |-> 2, failing |-> 0, roles |-> 2, channels |-> 1, dms |-> 0],
     \* An owner and administrators who come and go.
     [ops |-> Overriding, perms |-> {"VIEW_CHANNELS", "ADMINISTRATOR"},
      width |-> 1, changes |-> 2, failing |-> 1, roles |-> 1, channels |-> 1, dms |-> 0],
     \* Overrides that change during a check.
     [ops |-> Overriding, perms |-> {"VIEW_CHANNELS"},
      width |-> 2, changes |-> 1, failing |-> 0, roles |-> 1, channels |-> 1, dms |-> 0],
     \* More channels than the cache holds, and a failing statement.
     [ops |-> ChannelOps, perms |-> {"VIEW_CHANNELS", "MANAGE_CHANNELS"},
      width |-> 1, changes |-> 1, failing |-> 1, roles |-> 1, channels |-> 2, dms |-> 0],
     \* A DM beside a channel in the cache, with a membership that changes during a check.
     [ops |-> {"checkChannel", "DeleteChannel", "SetChannelOverride"}, perms |-> {"MANAGE_CHANNELS"},
      width |-> 1, changes |-> 1, failing |-> 1, roles |-> 1, channels |-> 1, dms |-> 1]}

Running == {w \in Worker : rpc[w].pc # "idle"}

RolesInUse ==
    {r \in Role : \/ \E u \in User : <<r, u>> \in roleMembers
                  \/ \E p \in Perm : <<r, p>> \in rolePerms
                  \/ \E c \in Channel : overrides[c][r] # "none"
                  \/ \E w \in Running : rpc[w].target = r}

ChannelsInUse ==
    {c \in Channel : channel[c] # "none" \/ \E w \in Running : rpc[w].chan = c}

InMode ==
    /\ changes + Cardinality({w \in Running : rpc[w].op # "checkChannel"}) <= mode.changes
    /\ faults <= mode.failing
    /\ Cardinality(Running) <= mode.width
    /\ \A w \in Running : rpc[w].op \in mode.ops
    /\ rolePerms \subseteq Role \X mode.perms
    /\ Cardinality(RolesInUse) <= mode.roles
    /\ Cardinality(ChannelsInUse \ DM) <= mode.channels
    /\ Cardinality(ChannelsInUse \cap DM) <= mode.dms
    /\ \A member \in dmMembers : channel[member[1]] # "none"

\* The owner, who needs none, begins without a role.
MCInit ==
    /\ Init
    /\ roleMembers \subseteq Role \X (User \ {owner})
    /\ mode \in Mode /\ InMode

MCNext == Next /\ UNCHANGED mode /\ InMode'

MCSpec == MCInit /\ [][MCNext]_<<vars, mode>>

Symmetric == Permutations(User) \cup Permutations(Role) \cup Permutations(Channel \ DM)
                \cup Permutations(Worker)

-----------------------------------------------------------------------------

\* The loop itself, row by row: once stuck, an effect is kept.
Loop(sticky, rowEffects) ==
    FoldLeft(LAMBDA acc, e : IF acc = sticky THEN acc ELSE e, "none", rowEffects)

\* Up to the bound MaxRows, Kept is what the loop leaves, over all orders of the rows.
MaxRows == 4

ASSUME LoopLeavesKept ==
    \A sticky \in {"allow", "deny"}, n \in 0..MaxRows :
        \A effects \in SUBSET {"allow", "deny"} :
            LET orders == {o \in [1..n -> effects] : Range(o) = effects}
            IN  orders # {} => Kept(sticky, effects) = {Loop(sticky, o) : o \in orders}
=============================================================================
