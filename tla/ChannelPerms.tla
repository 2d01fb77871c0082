---------------------------- MODULE ChannelPerms ----------------------------
(***************************************************************************)
(* Channels and their permission overrides: checkChannel of                *)
(* internal/shared/authz and the override RPCs of internal/features/channel*)
(*                                                                         *)
(* checkChannel is four statements: it resolves the channel's guild (from  *)
(* a cache when it can), asks for the bypass, then for the guild-level     *)
(* grant, then for the overrides, and the rows may change in between.  For *)
(* a DM, which has no guild, it asks for the membership instead.           *)
(* Overrides are kept per permission; one permission, Asked, stands for    *)
(* all of them.                                                            *)
(***************************************************************************)
EXTENDS Authz, FiniteSetsExt

CONSTANTS
    Channel, Worker,
    DM,             \* the channels that have no guild
    Ops,            \* what workers do in this instance
    Asked,          \* the permission that is asked for and overridden
    CacheMax,       \* chanGuildCacheMax
    Nobody,         \* no user, role or channel
    MaxChanges,     \* bound: how often the rows change
    MaxFaults       \* bound: how many statements fail

Target == User \cup Role

ChannelOps == {"CreateChannel", "DeleteChannel", "SetChannelOverride",
               "DeleteChannelOverride", "checkChannel"}

ASSUME ChannelPermsConstants ==
    /\ Ops \subseteq ChannelOps
    /\ DM \subseteq Channel
    /\ {Asked, "ADMINISTRATOR", "MANAGE_CHANNELS"} \subseteq Perm
    /\ User \cap Role = {}
    /\ Nobody \notin Target \cup Channel
    /\ CacheMax \in Nat \ {0}
    /\ MaxChanges \in Nat
    /\ MaxFaults \in Nat

VARIABLES
    channel,    \* channels: deleted or not
    overrides,  \* channel_permission_overwrites for Asked
    dmMembers,  \* dm_channel_members rows with deleted = FALSE
    cached,     \* chanGuildCache: the channels whose guild is known
    rpc,        \* what each worker is doing
    changes,    \* how often the rows have changed
    faults,     \* statements that have failed so far
    seen        \* history: what applied to the asker, since its check began

rows == <<authzVars, channel, overrides, dmMembers>>
vars == <<rows, cached, rpc, changes, faults, seen>>

Reason == {"no channel", "member", "not member", "bypass", "user deny", "user allow",
           "roles disagree", "role allow", "role deny", "granted", "not granted"}

Request == [op : ChannelOps \cup {"none"},
            pc : {"idle", "GetChannelByID", "CanManageChannels", "Exec", "resolveChannelGuild",
                  "cacheChannelGuild", "isDMMember", "isOwnerOrAdmin", "Check",
                  "applyChannelOverride", "answered"},
            user : User \cup {Nobody}, chan : Channel \cup {Nobody},
            target : Target \cup {Nobody}, effect : {"allow", "deny", "none"},
            granted : BOOLEAN, answer : BOOLEAN]

ChannelPermsTypeOK ==
    /\ AuthzTypeOK
    /\ channel \in [Channel -> {"none", "live", "deleted"}]
    /\ overrides \in [Channel -> [Target -> {"allow", "deny", "none"}]]
    /\ dmMembers \subseteq DM \X User
    /\ cached \subseteq Channel
    /\ rpc \in [Worker -> Request]
    /\ changes \in Nat /\ faults \in Nat
    /\ seen \in [Worker -> SUBSET [reason : Reason, grounds : BOOLEAN]]

Idle == [op |-> "none", pc |-> "idle", user |-> Nobody, chan |-> Nobody, target |-> Nobody,
         effect |-> "none", granted |-> FALSE, answer |-> FALSE]

\* A guild with all its roles, given to users and granted permissions in any way.
Init ==
    /\ owner \in User
    /\ guildDeleted = FALSE
    /\ roles = [r \in Role |-> [state |-> "live", everyone |-> FALSE, position |-> 0]]
    /\ roleMembers \in SUBSET (Role \X User)
    /\ rolePerms \in SUBSET (Role \X Perm)
    /\ channel \in [Channel -> {"none", "live"}]
    /\ overrides = [c \in Channel |-> [t \in Target |-> "none"]]
    /\ dmMembers \in SUBSET (DM \X User)
    /\ cached = {}
    /\ rpc = [w \in Worker |-> Idle]
    /\ changes = 0
    /\ faults = 0
    /\ seen = [w \in Worker |-> {}]

-----------------------------------------------------------------------------
(* What applies to a user, read off the rows at one moment.                  *)

Effects(c, targets) == {overrides[c][t] : t \in targets} \ {"none"}

ReasonFor(u, c) ==
    LET byRole == Effects(c, RolesOf(u)) IN
    IF channel[c] # "live" THEN "no channel"
    ELSE IF c \in DM THEN IF <<c, u>> \in dmMembers THEN "member" ELSE "not member"
    ELSE IF OwnerOrAdmin(u) THEN "bypass"
    ELSE IF overrides[c][u] # "none"
         THEN IF overrides[c][u] = "deny" THEN "user deny" ELSE "user allow"
    ELSE IF byRole # {}
         THEN IF byRole = {"allow"} THEN "role allow"
              ELSE IF byRole = {"deny"} THEN "role deny" ELSE "roles disagree"
    ELSE IF Check(u, Asked) THEN "granted" ELSE "not granted"

Allows(reason) == reason \in {"member", "bypass", "user allow", "role allow", "granted"}

\* Anything at all that speaks for the user; Check covers the bypass.
Grounds(u, c) ==
    IF c \in DM THEN <<c, u>> \in dmMembers
    ELSE Check(u, Asked) \/ "allow" \in Effects(c, RolesOf(u) \cup {u})

Noted(w) == [reason |-> ReasonFor(rpc[w].user, rpc[w].chan),
             grounds |-> Grounds(rpc[w].user, rpc[w].chan)]

-----------------------------------------------------------------------------

Goto(w, pc) == rpc' = [rpc EXCEPT ![w].pc = pc]

Return(w) == rpc' = [rpc EXCEPT ![w] = Idle]

Proceed(w, ok, pc) == IF ok THEN Goto(w, pc) ELSE Return(w)

Answer(w, yes) == rpc' = [rpc EXCEPT ![w].pc = "answered", ![w].answer = yes]

Read == UNCHANGED <<rows, cached, changes, faults>>

Entry(op) ==
    CASE op = "checkChannel" -> "resolveChannelGuild"
      [] op = "CreateChannel" -> "CanManageChannels"
      [] OTHER -> "GetChannelByID"

\* What a client may ask for: CreateChannel makes a guild's channel, only the override RPCs
\* have a target, and only SetChannelOverride an effect.
Inputs(op, u, c) ==
    LET targets == IF op \in {"SetChannelOverride", "DeleteChannelOverride"} THEN Target ELSE {Nobody}
        effects == IF op = "SetChannelOverride" THEN {"allow", "deny"} ELSE {"none"}
    IN  {[op |-> op, pc |-> Entry(op), user |-> u, chan |-> c, target |-> t, effect |-> e,
          granted |-> FALSE, answer |-> FALSE] : t \in targets, e \in effects}

Callable(op, c) == op = "CreateChannel" => c \notin DM

Call(w) ==
    /\ rpc[w].pc = "idle"
    /\ \E op \in Ops, u \in User, c \in Channel :
        Callable(op, c) /\ \E r \in Inputs(op, u, c) : rpc' = [rpc EXCEPT ![w] = r]
    /\ Read

-----------------------------------------------------------------------------
(* The RPCs that change channels and overrides.                              *)

\* Of a DM, which has no overrides, DeleteChannel asks for no permission.
GetChannelByID(w) ==
    /\ rpc[w].pc = "GetChannelByID"
    /\ LET r == rpc[w]
           dm == r.chan \in DM
       IN  Proceed(w, channel[r.chan] = "live" /\ (dm => r.op = "DeleteChannel"),
                   IF dm THEN "Exec" ELSE "CanManageChannels")
    /\ Read

\* The guild-level permission, whatever the channel's overrides say.  CreateChannel
\* also looks for the membership row.
CanManageChannels(w) ==
    /\ rpc[w].pc = "CanManageChannels"
    /\ \E member \in BOOLEAN :
        Proceed(w, Check(rpc[w].user, "MANAGE_CHANNELS")
                    /\ (rpc[w].op = "CreateChannel" => member), "Exec")
    /\ Read

\* The one write of the RPC; the events that follow change nothing here.
Exec(w) ==
    /\ rpc[w].pc = "Exec"
    /\ changes < MaxChanges
    /\ changes' = changes + 1
    /\ LET r == rpc[w] IN
        \/ /\ r.op = "CreateChannel" /\ channel[r.chan] = "none"
           /\ channel' = [channel EXCEPT ![r.chan] = "live"]
           /\ UNCHANGED overrides
        \/ /\ r.op = "DeleteChannel"
           /\ channel' = [channel EXCEPT ![r.chan] = "deleted"]
           /\ UNCHANGED overrides
        \/ /\ r.op \in {"SetChannelOverride", "DeleteChannelOverride"}
           /\ overrides' = [overrides EXCEPT ![r.chan][r.target] = r.effect]
           /\ UNCHANGED channel
    /\ Return(w)
    /\ UNCHANGED <<authzVars, dmMembers, cached, faults>>

\* Bound: no change is left, or no channel id.
Exhausted(w) ==
    /\ rpc[w].pc = "Exec"
    /\ \/ changes = MaxChanges
       \/ rpc[w].op = "CreateChannel" /\ channel[rpc[w].chan] # "none"
    /\ Return(w)
    /\ Read

\* A role is given or taken, a permission granted or revoked, or a role deleted, as Guild
\* has it.
RoleChange ==
    /\ changes < MaxChanges
    /\ changes' = changes + 1
    /\ \/ /\ \E r \in Role, u \in User : roleMembers' = SymDiff(roleMembers, {<<r, u>>})
          /\ UNCHANGED <<roles, rolePerms>>
       \/ /\ \E r \in Role, p \in Perm : rolePerms' = SymDiff(rolePerms, {<<r, p>>})
          /\ UNCHANGED <<roles, roleMembers>>
       \/ /\ \E r \in LiveRoles : roles' = [roles EXCEPT ![r].state = "deleted"]
          /\ UNCHANGED <<roleMembers, rolePerms>>
    /\ UNCHANGED <<owner, guildDeleted, channel, overrides, dmMembers, cached, rpc, faults>>

\* The guild is given to another owner, or deleted; its channels and roles stay.
GuildChange ==
    /\ changes < MaxChanges
    /\ changes' = changes + 1
    /\ ~guildDeleted
    /\ \/ owner' \in User \ {owner} /\ UNCHANGED guildDeleted
       \/ guildDeleted' = TRUE /\ UNCHANGED owner
    /\ UNCHANGED <<roles, roleMembers, rolePerms, channel, overrides, dmMembers, cached, rpc, faults>>

\* A user is added to a DM or removed from it, as GroupDM has it.
MemberChange ==
    /\ changes < MaxChanges
    /\ changes' = changes + 1
    /\ \E c \in DM, u \in User : dmMembers' = SymDiff(dmMembers, {<<c, u>>})
    /\ UNCHANGED <<authzVars, channel, overrides, cached, rpc, faults>>

-----------------------------------------------------------------------------
(* checkChannel.                                                             *)

AfterGuild(c) == IF c \in DM THEN "isDMMember" ELSE "isOwnerOrAdmin"

resolveChannelGuild(w) ==
    /\ rpc[w].pc = "resolveChannelGuild"
    /\ LET c == rpc[w].chan IN
        IF c \in cached THEN Goto(w, AfterGuild(c))
        ELSE IF channel[c] = "live" THEN Goto(w, "cacheChannelGuild")
        ELSE Answer(w, FALSE)
    /\ Read

\* At capacity the whole cache is thrown away.
cacheChannelGuild(w) ==
    /\ rpc[w].pc = "cacheChannelGuild"
    /\ cached' = (IF Cardinality(cached) >= CacheMax THEN {} ELSE cached) \cup {rpc[w].chan}
    /\ Goto(w, AfterGuild(rpc[w].chan))
    /\ UNCHANGED <<rows, changes, faults>>

\* chanGuildCacheTTL runs out.
Expire ==
    /\ \E c \in cached : cached' = cached \ {c}
    /\ UNCHANGED <<rows, rpc, changes, faults>>

isDMMember(w) ==
    /\ rpc[w].pc = "isDMMember"
    /\ Answer(w, <<rpc[w].chan, rpc[w].user>> \in dmMembers)
    /\ Read

isOwnerOrAdmin(w) ==
    /\ rpc[w].pc = "isOwnerOrAdmin"
    /\ IF OwnerOrAdmin(rpc[w].user) THEN Answer(w, TRUE) ELSE Goto(w, "Check")
    /\ Read

GuildCheck(w) ==
    /\ rpc[w].pc = "Check"
    /\ rpc' = [rpc EXCEPT ![w].granted = Check(rpc[w].user, Asked),
                          ![w].pc = "applyChannelOverride"]
    /\ Read

\* What the loop over the rows of a layer may leave, as the query returns them in any
\* order: an effect that sticks if there is one, otherwise that of the last row.
Kept(sticky, effects) ==
    CASE effects = {}        -> {"none"}
      [] sticky \in effects  -> {sticky}
      [] OTHER               -> effects

\* Mutant: a grant of the guild outweighs a role's deny.
GrantFirst(byUser, byRole, granted) ==
    IF byUser # "none" THEN byUser = "allow" ELSE granted \/ byRole = "allow"

\* The user's row decides before those of the roles, and these before the grant.
Applied(byUser, byRole, granted) ==
    IF byUser # "none" THEN byUser = "allow"
    ELSE IF byRole # "none" THEN byRole = "allow"
    ELSE granted

\* A sticky deny among user rows, a sticky allow among the rows of the roles.
Decide(w, inRoles) ==
    LET r == rpc[w] IN
    \E byUser \in Kept("deny", Effects(r.chan, {r.user})),
       byRole \in Kept("allow", Effects(r.chan, inRoles)) :
        Answer(w, Applied(byUser, byRole, r.granted))

applyChannelOverride(w) ==
    /\ rpc[w].pc = "applyChannelOverride"
    /\ Decide(w, RolesOf(rpc[w].user))
    /\ Read

Answered(w) ==
    /\ rpc[w].pc = "answered"
    /\ Return(w)
    /\ Read

\* Mutant: a failing override query lets everybody in.
StatementFailsOpen(w) ==
    /\ rpc[w].pc \notin {"idle", "answered", "cacheChannelGuild"}
    /\ faults < MaxFaults
    /\ faults' = faults + 1
    /\ LET r == rpc[w] IN
        CASE r.pc = "resolveChannelGuild" -> r.chan \notin cached /\ Answer(w, FALSE)
          [] r.pc = "isDMMember" -> Answer(w, FALSE)
          [] r.pc = "isOwnerOrAdmin" -> Goto(w, "Check")
          [] r.pc = "Check" -> Goto(w, "applyChannelOverride")
          [] r.pc = "applyChannelOverride" -> Answer(w, TRUE)
          [] OTHER -> Return(w)
    /\ UNCHANGED <<rows, cached, changes>>

\* A statement fails: the look-ups then deny, except that the overrides are passed
\* over; an RPC ends.  Rows of overrides that did arrive are decided by, as the loop does
\* not ask for the error that ended it: the user's comes first, then some of the roles'.
StatementFails(w) ==
    /\ rpc[w].pc \notin {"idle", "answered", "cacheChannelGuild"}
    /\ faults < MaxFaults
    /\ faults' = faults + 1
    /\ LET r == rpc[w] IN
        CASE r.pc = "resolveChannelGuild" -> r.chan \notin cached /\ Answer(w, FALSE)
          [] r.pc = "isDMMember" -> Answer(w, FALSE)
          [] r.pc = "isOwnerOrAdmin" -> Goto(w, "Check")
          [] r.pc = "Check" -> Goto(w, "applyChannelOverride")
          [] r.pc = "applyChannelOverride" ->
                \/ Answer(w, r.granted)
                \/ \E some \in SUBSET RolesOf(r.user) : Decide(w, some)
          [] OTHER -> Return(w)
    /\ UNCHANGED <<rows, cached, changes>>

Step(w) ==
    \/ Call(w) \/ GetChannelByID(w) \/ CanManageChannels(w) \/ Exec(w) \/ Exhausted(w)
    \/ resolveChannelGuild(w) \/ cacheChannelGuild(w) \/ isDMMember(w) \/ isOwnerOrAdmin(w) \/ GuildCheck(w)
    \/ applyChannelOverride(w) \/ Answered(w) \/ StatementFails(w)

\* What applies to the askers in the state reached.
Note ==
    seen' = [w \in Worker |->
                IF rpc'[w].op # "checkChannel" THEN {}
                ELSE seen[w] \cup {Noted(w)'}]

Next ==
    /\ \/ \E w \in Worker : Step(w)
       \/ RoleChange \/ GuildChange \/ MemberChange
       \/ Expire
    /\ Note

Spec == Init /\ [][Next]_vars

-----------------------------------------------------------------------------

\* As long as no statement fails, a check whose reason never changed while it ran, on a
\* channel that was not deleted, answers by that reason: the membership of a DM, and in a
\* guild the user's deny or allow, what the roles agree on and the guild's grant in this
\* order, and never any of them for the owner and administrators, whatever the order of
\* the rows.  Where some roles allow and others deny, the comments and the documentation
\* of checkChannel contradict each other, and nothing is said.
SteadyReasonDecides ==
    faults = 0 => \A w \in Worker : rpc[w].pc = "answered" =>
        \A x \in Reason \ {"no channel", "roles disagree"} :
            {n.reason : n \in seen[w]} = {x} => rpc[w].answer = Allows(x)

\* Even with failing statements and a deleted channel in the cache, nobody is let in
\* for whom no bypass, grant or allow spoke at any moment of the check.
AdmittedOnGrounds ==
    \A w \in Worker : (rpc[w].pc = "answered" /\ rpc[w].answer) =>
        \E n \in seen[w] : n.grounds
=============================================================================
