------------------------------- MODULE Guild -------------------------------
(***************************************************************************)
(* One guild: its owner, members, bans, invites and roles, and the RPCs of *)
(* internal/features/guild/service.go that change them.                    *)
(*                                                                         *)
(* The service opens no transaction: an RPC is a sequence of store calls,  *)
(* each one atomic SQL statement, and any number of RPCs run at once.  A   *)
(* worker is one goroutine serving one RPC; rpc[w] holds the request, what *)
(* the RPC still remembers of its reads, and the next store call it makes  *)
(* (pc).  Every action below is one store call with the local decision     *)
(* that follows it.  Publishing to NATS at the end of an RPC changes none  *)
(* of this state and is left out.                                          *)
(***************************************************************************)
EXTENDS Authz

CONSTANTS
    Worker,         \* goroutines serving RPCs
    Code,           \* invite codes
    Ops,            \* the RPCs clients call in this instance
    NoRole, NoPerm, NoCode,
    MaxUsesChoices, \* values of max_uses an invite is created with, 0 = unlimited
    Positions,      \* values UpdateRole sets roles.position to
    UseBound,       \* bound: no new JoinGuild on a code used this often
    MaxFaults       \* bound: how many store calls fail

GuildOps ==
    {"CreateGuild", "DeleteGuild", "TransferOwnership", "JoinGuild", "LeaveGuild",
     "KickMember", "BanMember", "UnbanMember", "CreateInvite", "CreateRole",
     "UpdateRole", "DeleteRole", "AssignRole", "RemoveRole",
     "GrantRolePermission", "RevokeRolePermission"}

RoleOps == {"CreateRole", "UpdateRole", "DeleteRole", "AssignRole", "RemoveRole",
            "GrantRolePermission", "RevokeRolePermission"}

ASSUME GuildConstants ==
    /\ MaxUsesChoices \subseteq Nat
    /\ Positions \subseteq Nat
    /\ UseBound \in Nat
    /\ MaxFaults \in Nat
    /\ IsFiniteSet(Role) /\ Role # {}
    /\ IsFiniteSet(Worker) /\ Worker # {}
    /\ Ops \subseteq GuildOps

VARIABLES
    members,        \* guild_members rows with deleted = FALSE
    bans,           \* bans rows with deleted = FALSE
    invites,        \* the invites table
    audit,          \* number of invite_uses rows per code
    rpc,            \* the running RPC of each worker
    faults,         \* store calls that have failed so far
    ownerGranted,   \* history: permissions an owner was cleared to grant
    serial,         \* history: no two RPCs have overlapped and no call has failed so far
    rolesEdited,    \* history: a role RPC has been called
    strayed         \* history: permissions named under another guild's id

store == <<owner, guildDeleted, roles, roleMembers, rolePerms,
           members, bans, invites, audit>>
vars == <<store, rpc, faults, ownerGranted, serial, rolesEdited, strayed>>

Calls ==
    {"idle", "Check", "CanActOn", "CanGuildPermission", "GetGuildByID",
     "GetGuildMember", "GetInvite", "GetBan", "GetRoleByID", "ListGuildRoles",
     "CreateGuild", "DeleteGuild", "TransferGuildOwnership", "AddGuildMember",
     "RemoveGuildMember", "CreateBan", "DeleteBan", "CreateInvite",
     "IncrementInviteUses", "RecordInviteUse", "CreateRole", "UpdateRole",
     "DeleteRole", "AssignRole", "AddUserToRole", "RemoveRole",
     "RemoveUserFromRole", "GrantRolePermission", "RevokeRolePermission",
     "AssignEveryone", "EnsureGet", "EnsureCreate", "EnsureAssign", "DropGet"}

InviteRow == [state : {"none", "live", "expired"}, max : Nat, uses : Nat]

Request == [op : GuildOps \cup {"none"}, pc : Calls, caller : User \cup {NoUser},
            target : User \cup {NoUser}, role : Role \cup {NoRole},
            perm : Perm \cup {NoPerm}, code : Code \cup {NoCode}, position : Nat,
            here : BOOLEAN]

TypeOK ==
    /\ AuthzTypeOK
    /\ members \subseteq User
    /\ bans \subseteq User
    /\ invites \in [Code -> InviteRow]
    /\ audit \in [Code -> Nat]
    /\ rpc \in [Worker -> Request]
    /\ faults \in Nat
    /\ ownerGranted \subseteq Perm \cup {NoPerm}
    /\ serial \in BOOLEAN /\ rolesEdited \in BOOLEAN
    /\ strayed \subseteq Perm \cup {NoPerm}

Idle == [op |-> "none", pc |-> "idle", caller |-> NoUser, target |-> NoUser,
         role |-> NoRole, perm |-> NoPerm, code |-> NoCode, position |-> 0, here |-> TRUE]

Init ==
    /\ owner = NoUser
    /\ guildDeleted = FALSE
    /\ roles = [r \in Role |-> [state |-> "none", everyone |-> FALSE, position |-> 0]]
    /\ roleMembers = {}
    /\ rolePerms = {}
    /\ members = {}
    /\ bans = {}
    /\ invites = [c \in Code |-> [state |-> "none", max |-> 0, uses |-> 0]]
    /\ audit = [c \in Code |-> 0]
    /\ rpc = [w \in Worker |-> Idle]
    /\ faults = 0
    /\ ownerGranted = {}
    /\ serial = TRUE /\ rolesEdited = FALSE /\ strayed = {}

-----------------------------------------------------------------------------
(* How a worker moves.                                                     *)

At(w, op, pc) == rpc[w].op = op /\ rpc[w].pc = pc

Goto(w, pc) == rpc' = [rpc EXCEPT ![w].pc = pc]

\* A lookup of @everyone found r.
KeepRole(w, r, pc) == rpc' = [rpc EXCEPT ![w].role = r, ![w].pc = pc]

\* The RPC returns, with its result or with an error.
Return(w) == rpc' = [rpc EXCEPT ![w] = Idle]

\* An early return unless ok.
Proceed(w, ok, pc) == IF ok THEN Goto(w, pc) ELSE Return(w)

\* A step that only reads the store.
Read == UNCHANGED <<store, faults, ownerGranted>>

\* The tables a writing step leaves alone, by the table it writes.
ButGuilds == UNCHANGED <<roles, roleMembers, rolePerms, members, bans, invites,
                         audit, faults, ownerGranted>>
ButMembers == UNCHANGED <<authzVars, bans, invites, audit, faults, ownerGranted>>
ButBans == UNCHANGED <<authzVars, members, invites, audit, faults, ownerGranted>>
ButInvites == UNCHANGED <<authzVars, members, bans, faults, ownerGranted>>
ButRoles == UNCHANGED <<owner, guildDeleted, roleMembers, rolePerms, members, bans,
                        invites, audit, faults, ownerGranted>>
ButRoleMembers == UNCHANGED <<owner, guildDeleted, roles, rolePerms, members, bans,
                              invites, audit, faults, ownerGranted>>
ButRolePerms == UNCHANGED <<owner, guildDeleted, roles, roleMembers, members, bans,
                            invites, audit, faults, ownerGranted>>

-----------------------------------------------------------------------------
(* Requests.  "target" is the user acted on: the caller itself for         *)
(* CreateGuild, JoinGuild, LeaveGuild and CreateInvite.  "here" says        *)
(* whether guild_id is this guild: an RPC on a role takes guild_id and      *)
(* role_id from the request, and nothing compares the first with the        *)
(* role's own guild.                                                        *)

Entry(op) ==
    CASE op = "CreateGuild" -> "CreateGuild"
      [] op = "JoinGuild" -> "GetInvite"
      [] op \in {"LeaveGuild", "TransferOwnership", "DeleteGuild"} -> "GetGuildByID"
      [] op = "CreateInvite" -> "GetGuildMember"
      [] OTHER -> "Check"

NewRequest(op, u, t, r, p, c) ==
    [op |-> op, pc |-> Entry(op), caller |-> u, target |-> t, role |-> r,
     perm |-> p, code |-> c, position |-> 0, here |-> TRUE]

\* The same request under the id of another guild.
Elsewhere(q) == [q EXCEPT !.here = q.role = NoRole]

Inputs(op, u) ==
    CASE op \in {"CreateGuild", "LeaveGuild", "CreateInvite", "DeleteGuild", "CreateRole"} ->
            {NewRequest(op, u, u, NoRole, NoPerm, NoCode)}
      [] op = "JoinGuild" ->
            {NewRequest(op, u, u, NoRole, NoPerm, c) :
                c \in {d \in Code : invites[d].uses < UseBound}}
      [] op \in {"KickMember", "BanMember", "UnbanMember", "TransferOwnership"} ->
            {NewRequest(op, u, t, NoRole, NoPerm, NoCode) : t \in User}
      [] op \in {"UpdateRole", "DeleteRole"} ->
            {NewRequest(op, u, NoUser, r, NoPerm, NoCode) : r \in Role}
      [] op \in {"AssignRole", "RemoveRole"} ->
            {NewRequest(op, u, t, r, NoPerm, NoCode) : t \in User, r \in Role}
      [] OTHER ->
            {NewRequest(op, u, NoUser, r, p, NoCode) : r \in Role, p \in Perm}

\* A client's RPC reaches a free worker.
Call(w) ==
    /\ rpc[w].pc = "idle"
    /\ \E op \in Ops, u \in User : \E q \in Inputs(op, u) :
            rpc' = [rpc EXCEPT ![w] = q] \/ rpc' = [rpc EXCEPT ![w] = Elsewhere(q)]
    /\ Read

-----------------------------------------------------------------------------
(* Gates shared by the RPCs: authz.CanKick, CanBan, CanManageInvites and   *)
(* CanManageRoles are Check with a fixed permission.                       *)

Needs(op) ==
    CASE op = "KickMember" -> "KICK_MEMBERS"
      [] op \in {"BanMember", "UnbanMember"} -> "BAN_MEMBERS"
      [] op = "CreateInvite" -> "MANAGE_INVITES"
      [] OTHER -> "MANAGE_ROLES"

AfterCheck(op) ==
    CASE op \in {"KickMember", "BanMember"} -> "CanActOn"
      [] op = "UnbanMember" -> "GetBan"
      [] op = "CreateInvite" -> "CreateInvite"
      [] op = "CreateRole" -> "ListGuildRoles"
      [] op = "UpdateRole" -> "UpdateRole"
      [] op = "AssignRole" -> "GetGuildMember"
      [] op \in {"GrantRolePermission", "RevokeRolePermission"} -> "CanGuildPermission"
      [] OTHER -> "GetRoleByID"

\* What a look-up in the guild of the request yields: in another guild, where the
\* caller may be the owner, anything.
Answers(w, holdsHere) == IF rpc[w].here THEN {holdsHere} ELSE BOOLEAN

Gate(w) ==
    /\ rpc[w].pc = "Check"
    /\ \E ok \in Answers(w, Check(rpc[w].caller, Needs(rpc[w].op))) :
            Proceed(w, ok, AfterCheck(rpc[w].op))
    /\ Read

\* KickMember and BanMember: the role-hierarchy rule.
Hierarchy(w) ==
    /\ rpc[w].pc = "CanActOn"
    /\ Proceed(w, CanActOn(rpc[w].caller, rpc[w].target), "GetGuildByID")
    /\ Read

-----------------------------------------------------------------------------
(* CreateGuild, and the @everyone helpers it shares with the others.       *)

CreateGuildRow(w) ==
    /\ At(w, "CreateGuild", "CreateGuild")
    /\ owner = NoUser
    /\ owner' = rpc[w].caller
    /\ Goto(w, "AddGuildMember")
    /\ UNCHANGED guildDeleted
    /\ ButGuilds

\* A second CreateGuild makes another guild, which is outside the model.
CreateOtherGuild(w) ==
    /\ At(w, "CreateGuild", "CreateGuild")
    /\ owner # NoUser
    /\ Return(w)
    /\ Read

CreateGuildAddOwner(w) ==
    /\ At(w, "CreateGuild", "AddGuildMember")
    /\ members' = members \cup {rpc[w].caller}
    /\ Goto(w, "EnsureGet")
    /\ ButMembers

EveryoneRoles == {r \in LiveRoles : roles[r].everyone}

\* ensureEveryoneRole: GET before INSERT, no unique constraint behind it.
EnsureGet(w) ==
    /\ rpc[w].pc = "EnsureGet"
    /\ \/ /\ EveryoneRoles = {}
          /\ Goto(w, "EnsureCreate")
       \/ \E r \in EveryoneRoles : KeepRole(w, r, "EnsureAssign")
    /\ Read

\* Mutant: the new role's id is not kept for the assignment.
EnsureCreateIdLost(w) ==
    /\ rpc[w].pc = "EnsureCreate"
    /\ \E r \in {x \in Role : roles[x].state = "none"} :
            roles' = [roles EXCEPT ![r] =
                        [state |-> "live", everyone |-> TRUE, position |-> 0]]
    /\ Goto(w, "EnsureAssign")
    /\ ButRoles

EnsureCreate(w) ==
    /\ rpc[w].pc = "EnsureCreate"
    /\ \E r \in {x \in Role : roles[x].state = "none"} :
        /\ roles' = [roles EXCEPT ![r] =
                        [state |-> "live", everyone |-> TRUE, position |-> 0]]
        /\ KeepRole(w, r, "EnsureAssign")
    /\ ButRoles

EnsureAssign(w) ==
    /\ rpc[w].pc = "EnsureAssign"
    /\ roleMembers' = roleMembers \cup {<<rpc[w].role, rpc[w].target>>}
    /\ Return(w)
    /\ ButRoleMembers

\* Mutant: the kick path forgets removeEveryoneRole.
DropGetNotOnKick(w) ==
    /\ rpc[w].pc = "DropGet"
    /\ \/ /\ EveryoneRoles = {} \/ rpc[w].op = "KickMember"
          /\ Return(w)
       \/ \E r \in EveryoneRoles :
            rpc[w].op # "KickMember" /\ KeepRole(w, r, "RemoveRole")
    /\ Read

\* removeEveryoneRole, on the leave, kick and ban paths: LIMIT 1, any match.
DropGet(w) ==
    /\ rpc[w].pc = "DropGet"
    /\ \/ /\ EveryoneRoles = {}
          /\ Return(w)
       \/ \E r \in EveryoneRoles : KeepRole(w, r, "RemoveRole")
    /\ Read

-----------------------------------------------------------------------------
(* JoinGuild.                                                              *)

\* Mutant: off by one at the last seat.
InviteUsableOffByOne(i) == i.state = "live" /\ (i.max > 0 => i.uses <= i.max)

InviteUsable(i) == i.state = "live" /\ (i.max > 0 => i.uses < i.max)

JoinGetInvite(w) ==
    /\ At(w, "JoinGuild", "GetInvite")
    /\ Proceed(w, InviteUsable(invites[rpc[w].code]), "GetBan")
    /\ Read

\* Mutant: the ban check is dropped.
JoinWithoutGetBan(w) ==
    /\ At(w, "JoinGuild", "GetBan")
    /\ Goto(w, "GetGuildMember")
    /\ Read

JoinGetBan(w) ==
    /\ At(w, "JoinGuild", "GetBan")
    /\ Proceed(w, rpc[w].target \notin bans, "GetGuildMember")
    /\ Read

\* Already a member: the guild is returned and nothing is counted.
JoinGetGuildMember(w) ==
    /\ At(w, "JoinGuild", "GetGuildMember")
    /\ Proceed(w, rpc[w].target \notin members, "AddGuildMember")
    /\ Read

JoinAddGuildMember(w) ==
    /\ At(w, "JoinGuild", "AddGuildMember")
    /\ members' = members \cup {rpc[w].target}
    /\ Goto(w, "IncrementInviteUses")
    /\ ButMembers

JoinIncrementInviteUses(w) ==
    /\ At(w, "JoinGuild", "IncrementInviteUses")
    /\ invites' = [invites EXCEPT ![rpc[w].code].uses = @ + 1]
    /\ Goto(w, "RecordInviteUse")
    /\ UNCHANGED audit
    /\ ButInvites

JoinRecordInviteUse(w) ==
    /\ At(w, "JoinGuild", "RecordInviteUse")
    /\ audit' = [audit EXCEPT ![rpc[w].code] = @ + 1]
    /\ Goto(w, "AssignEveryone")
    /\ UNCHANGED invites
    /\ ButInvites

\* assignEveryoneRole: falls back to ensureEveryoneRole if there is none.
JoinAssignEveryone(w) ==
    /\ At(w, "JoinGuild", "AssignEveryone")
    /\ \/ /\ EveryoneRoles = {}
          /\ Goto(w, "EnsureGet")
       \/ \E r \in EveryoneRoles : KeepRole(w, r, "AssignRole")
    /\ Read

-----------------------------------------------------------------------------
(* LeaveGuild, KickMember, BanMember, UnbanMember.                         *)

GuildExists == owner # NoUser /\ ~guildDeleted

\* Mutant: the owner rule is missing.
RemovalOfAnyone(w) ==
    /\ rpc[w].op \in {"LeaveGuild", "KickMember", "BanMember"}
    /\ rpc[w].pc = "GetGuildByID"
    /\ Proceed(w, GuildExists,
               IF rpc[w].op = "BanMember" THEN "RemoveGuildMember" ELSE "GetGuildMember")
    /\ Read

\* GetGuildByID and the owner rule: the owner can be neither removed nor leave.
RemovalGetGuild(w) ==
    /\ rpc[w].op \in {"LeaveGuild", "KickMember", "BanMember"}
    /\ rpc[w].pc = "GetGuildByID"
    /\ Proceed(w, GuildExists /\ owner # rpc[w].target,
               IF rpc[w].op = "BanMember" THEN "RemoveGuildMember" ELSE "GetGuildMember")
    /\ Read

RemovalGetGuildMember(w) ==
    /\ rpc[w].op \in {"LeaveGuild", "KickMember"}
    /\ rpc[w].pc = "GetGuildMember"
    /\ Proceed(w, rpc[w].target \in members, "RemoveGuildMember")
    /\ Read

RemoveGuildMember(w) ==
    /\ rpc[w].pc = "RemoveGuildMember"
    /\ members' = members \ {rpc[w].target}
    /\ Goto(w, IF rpc[w].op = "BanMember" THEN "CreateBan" ELSE "DropGet")
    /\ ButMembers

CreateBan(w) ==
    /\ At(w, "BanMember", "CreateBan")
    /\ bans' = bans \cup {rpc[w].target}
    /\ Goto(w, "DropGet")
    /\ ButBans

UnbanGetBan(w) ==
    /\ At(w, "UnbanMember", "GetBan")
    /\ Proceed(w, rpc[w].target \in bans, "DeleteBan")
    /\ Read

DeleteBan(w) ==
    /\ At(w, "UnbanMember", "DeleteBan")
    /\ bans' = bans \ {rpc[w].target}
    /\ Return(w)
    /\ ButBans

-----------------------------------------------------------------------------
(* Invites.                                                                *)

InviteGetGuildMember(w) ==
    /\ At(w, "CreateInvite", "GetGuildMember")
    /\ Proceed(w, rpc[w].caller \in members, "Check")
    /\ Read

\* generateInviteCode draws an unused code; a collision fails the insert.
CreateInviteRow(w) ==
    /\ At(w, "CreateInvite", "CreateInvite")
    /\ \E c \in {d \in Code : invites[d].state = "none"}, m \in MaxUsesChoices :
            invites' = [invites EXCEPT ![c] = [state |-> "live", max |-> m, uses |-> 0]]
    /\ Return(w)
    /\ UNCHANGED audit
    /\ ButInvites

\* The clock passes expires_at of an invite created with a maximum age.
InviteExpires(c) ==
    /\ invites[c].state = "live"
    /\ invites' = [invites EXCEPT ![c].state = "expired"]
    /\ UNCHANGED <<audit, rpc>>
    /\ ButInvites

-----------------------------------------------------------------------------
(* Roles.                                                                  *)

\* CreateRole counts the roles, then inserts with the count as position.
CreateRoleCount(w) ==
    /\ At(w, "CreateRole", "ListGuildRoles")
    /\ rpc' = [rpc EXCEPT ![w].position = Cardinality(LiveRoles), ![w].pc = "CreateRole"]
    /\ Read

CreateRoleRow(w) ==
    /\ At(w, "CreateRole", "CreateRole")
    /\ \E r \in {x \in Role : roles[x].state = "none"}, e \in BOOLEAN :
            roles' = [roles EXCEPT ![r] =
                        [state |-> "live", everyone |-> e, position |-> rpc[w].position]]
    /\ Return(w)
    /\ ButRoles

\* Any name and any position may be set, or either kept; the row may already
\* be deleted.
UpdateRole(w) ==
    /\ At(w, "UpdateRole", "UpdateRole")
    /\ roles[rpc[w].role].state # "none"
    /\ \E e \in BOOLEAN, n \in Positions \cup {roles[rpc[w].role].position} :
            roles' = [roles EXCEPT ![rpc[w].role].everyone = e,
                                   ![rpc[w].role].position = n]
    /\ Return(w)
    /\ ButRoles

UpdateMissingRole(w) ==
    /\ At(w, "UpdateRole", "UpdateRole")
    /\ roles[rpc[w].role].state = "none"
    /\ Return(w)
    /\ Read

AfterGetRole(op) ==
    CASE op = "DeleteRole" -> "DeleteRole"
      [] op = "AssignRole" -> "AssignRole"
      [] op = "RemoveRole" -> "RemoveRole"
      [] op = "GrantRolePermission" -> "GrantRolePermission"
      [] OTHER -> "RevokeRolePermission"

\* WHERE id = $1: a role of any guild.
GetRoleByID(w) ==
    /\ rpc[w].pc = "GetRoleByID"
    /\ Proceed(w, rpc[w].role \in LiveRoles, AfterGetRole(rpc[w].op))
    /\ Read

DeleteRole(w) ==
    /\ At(w, "DeleteRole", "DeleteRole")
    /\ roles' = [roles EXCEPT ![rpc[w].role].state = "deleted"]
    /\ Return(w)
    /\ ButRoles

AssignGetGuildMember(w) ==
    /\ At(w, "AssignRole", "GetGuildMember")
    /\ \E ok \in Answers(w, rpc[w].target \in members) : Proceed(w, ok, "GetRoleByID")
    /\ Read

\* The role_members upsert, made twice: by the repository, then by authz.
AssignRole(w) ==
    /\ rpc[w].pc \in {"AssignRole", "AddUserToRole"}
    /\ roleMembers' = roleMembers \cup {<<rpc[w].role, rpc[w].target>>}
    /\ Proceed(w, rpc[w].pc = "AssignRole", "AddUserToRole")
    /\ ButRoleMembers

\* The soft delete of a role_members row, made twice as well.
RemoveRole(w) ==
    /\ rpc[w].pc \in {"RemoveRole", "RemoveUserFromRole"}
    /\ roleMembers' = roleMembers \ {<<rpc[w].role, rpc[w].target>>}
    /\ Proceed(w, rpc[w].pc = "RemoveRole", "RemoveUserFromRole")
    /\ ButRoleMembers

\* Mutant: MANAGE_ROLES alone is enough to grant anything.
HoldsNothing(w) == rpc[w].perm \in Perm

\* Grant and Revoke: the caller must itself hold the permission.
HoldsGranted(w) == Check(rpc[w].caller, rpc[w].perm)

CanGuildPermission(w) ==
    /\ rpc[w].pc = "CanGuildPermission"
    /\ \E ok \in Answers(w, HoldsGranted(w)) : Proceed(w, ok, "GetRoleByID")
    /\ ownerGranted' = IF /\ rpc[w].op = "GrantRolePermission" /\ rpc[w].here
                          /\ IsOwner(rpc[w].caller)
                       THEN ownerGranted \cup {rpc[w].perm} ELSE ownerGranted
    /\ UNCHANGED <<store, faults>>

GrantRolePermission(w) ==
    /\ At(w, "GrantRolePermission", "GrantRolePermission")
    /\ rolePerms' = rolePerms \cup {<<rpc[w].role, rpc[w].perm>>}
    /\ Return(w)
    /\ ButRolePerms

RevokeRolePermission(w) ==
    /\ At(w, "RevokeRolePermission", "RevokeRolePermission")
    /\ rolePerms' = rolePerms \ {<<rpc[w].role, rpc[w].perm>>}
    /\ Return(w)
    /\ ButRolePerms

-----------------------------------------------------------------------------
(* Ownership.                                                              *)

OwnerGetGuild(w) ==
    /\ rpc[w].op \in {"TransferOwnership", "DeleteGuild"}
    /\ rpc[w].pc = "GetGuildByID"
    /\ Proceed(w, GuildExists /\ owner = rpc[w].caller,
               IF rpc[w].op = "DeleteGuild" THEN "DeleteGuild" ELSE "GetGuildMember")
    /\ Read

TransferGetGuildMember(w) ==
    /\ At(w, "TransferOwnership", "GetGuildMember")
    /\ Proceed(w, rpc[w].target \in members, "TransferGuildOwnership")
    /\ Read

TransferGuildOwnership(w) ==
    /\ At(w, "TransferOwnership", "TransferGuildOwnership")
    /\ owner' = rpc[w].target
    /\ Return(w)
    /\ UNCHANGED guildDeleted
    /\ ButGuilds

DeleteGuild(w) ==
    /\ At(w, "DeleteGuild", "DeleteGuild")
    /\ guildDeleted' = TRUE
    /\ Return(w)
    /\ UNCHANGED owner
    /\ ButGuilds

-----------------------------------------------------------------------------
(* Faults: a store call that fails leaves the store alone.  Most calls     *)
(* then make the RPC return an error; these it survives.                   *)

AfterError(op, pc) ==
    CASE op = "JoinGuild" /\ pc = "GetBan" -> "GetGuildMember"
      [] op = "JoinGuild" /\ pc = "GetGuildMember" -> "AddGuildMember"
      [] op = "JoinGuild" /\ pc = "IncrementInviteUses" -> "RecordInviteUse"
      [] op = "JoinGuild" /\ pc = "RecordInviteUse" -> "AssignEveryone"
      [] op = "JoinGuild" /\ pc = "AssignEveryone" -> "EnsureGet"
      [] op = "JoinGuild" /\ pc = "AssignRole" -> "AddUserToRole"
      [] op = "BanMember" /\ pc = "RemoveGuildMember" -> "CreateBan"
      [] op # "RemoveRole" /\ pc = "RemoveRole" -> "RemoveUserFromRole"
      [] pc = "EnsureGet" -> "EnsureCreate"
      [] OTHER -> "idle"

CallFails(w) ==
    /\ rpc[w].pc # "idle"
    /\ faults < MaxFaults
    /\ faults' = faults + 1
    /\ LET pc == AfterError(rpc[w].op, rpc[w].pc) IN Proceed(w, pc # "idle", pc)
    /\ UNCHANGED <<store, ownerGranted>>

\* Bound: an insert that finds no free id of the instance fails as well.
NoFreeId(w) ==
    /\ \/ /\ rpc[w].pc \in {"EnsureCreate", "CreateRole"}
          /\ \A r \in Role : roles[r].state # "none"
       \/ /\ rpc[w].pc = "CreateInvite"
          /\ \A c \in Code : invites[c].state # "none"
    /\ Return(w)
    /\ Read

-----------------------------------------------------------------------------

CreateGuild(w) == CreateGuildRow(w) \/ CreateOtherGuild(w) \/ CreateGuildAddOwner(w)

Everyone(w) == EnsureGet(w) \/ EnsureCreate(w) \/ EnsureAssign(w) \/ DropGet(w)

JoinGuild(w) ==
    \/ JoinGetInvite(w) \/ JoinGetBan(w) \/ JoinGetGuildMember(w)
    \/ JoinAddGuildMember(w) \/ JoinIncrementInviteUses(w)
    \/ JoinRecordInviteUse(w) \/ JoinAssignEveryone(w)

Removal(w) ==
    \/ RemovalGetGuild(w) \/ RemovalGetGuildMember(w) \/ RemoveGuildMember(w)
    \/ CreateBan(w) \/ UnbanGetBan(w) \/ DeleteBan(w)

Invites(w) == InviteGetGuildMember(w) \/ CreateInviteRow(w)

Roles(w) ==
    \/ CreateRoleCount(w) \/ CreateRoleRow(w) \/ UpdateRole(w) \/ UpdateMissingRole(w)
    \/ GetRoleByID(w) \/ DeleteRole(w) \/ AssignGetGuildMember(w) \/ AssignRole(w)
    \/ RemoveRole(w) \/ CanGuildPermission(w) \/ GrantRolePermission(w)
    \/ RevokeRolePermission(w)

Ownership(w) ==
    \/ OwnerGetGuild(w) \/ TransferGetGuildMember(w) \/ TransferGuildOwnership(w)
    \/ DeleteGuild(w)

Step(w) ==
    \/ Call(w) \/ Gate(w) \/ Hierarchy(w) \/ CreateGuild(w) \/ Everyone(w)
    \/ JoinGuild(w) \/ Removal(w) \/ Invites(w) \/ Roles(w) \/ Ownership(w)
    \/ CallFails(w) \/ NoFreeId(w)

Running == {w \in Worker : rpc[w].pc # "idle"}

OneAtATime == faults = 0 /\ \A v, w \in Running : v = w

\* What the history variables make of a step.
Recorded ==
    /\ serial' = (serial /\ OneAtATime')
    /\ rolesEdited' = (rolesEdited \/ \E w \in Worker : rpc'[w].op \in RoleOps)
    /\ strayed' = strayed \cup {rpc'[w].perm : w \in {v \in Worker : ~rpc'[v].here}}

Next == ((\E w \in Worker : Step(w)) \/ (\E c \in Code : InviteExpires(c))) /\ Recorded

Spec == Init /\ [][Next]_vars

-----------------------------------------------------------------------------
(* Properties that hold however the RPCs interleave.                       *)

\* A permission that goes back to an owner: one was cleared to grant it, or to grant
\* ADMINISTRATOR; or, as nothing stops it, to a request under another guild's id.
Sourced(p) == {p, "ADMINISTRATOR"} \cap (ownerGranted \cup strayed) # {}

\* GrantRolePermission's anti-escalation rule (service.go 916-920): whatever the
\* interleaving of grants, revokes, role assignments and ownership transfers, no
\* role carries a permission that no owner ever let into the guild, even though the
\* caller's own permission is checked several store calls earlier.  The one way
\* around is a request that names the role under another guild's id: after it the
\* permission it named, or any after ADMINISTRATOR, is no longer the owner's to give.
NoEscalation == \A r \in Role, p \in Perm : <<r, p>> \in rolePerms => Sourced(p)

\* A request that will add u to guild_members without looking at bans again.
AddPending(u) ==
    \E w \in Worker :
        /\ rpc[w].target = u
        /\ \/ At(w, "JoinGuild", "GetGuildMember")
           \/ rpc[w].pc = "AddGuildMember"

ShutOut(u) == u \in bans /\ u \notin members /\ ~AddPending(u)

\* A failing GetBan counts as not banned.
BanCheckFails(u) ==
    \E w \in Worker : /\ rpc[w].target = u
                     /\ At(w, "JoinGuild", "GetBan")
                     /\ faults' # faults

\* Once a banned user is out of the guild and no join of theirs has already
\* passed the ban check, no sequence of RPCs lets them back in before UnbanMember
\* removes the ban, unless the ban check of a join of theirs fails: neither a retry
\* of the same invite, nor a new invite, nor a transfer of ownership.
BanIsSticky ==
    [][\A u \in User :
        ShutOut(u) => (ShutOut(u)' \/ (u \notin bans)' \/ BanCheckFails(u))]_vars

\* The max_uses check of JoinGuild reads a counter that other joins are still
\* about to increment, so it can be overshot, but only by the joins that run at
\* the same moment: with one worker max_uses is exact.
InviteOvershoot ==
    \A c \in Code : invites[c].max > 0 =>
        invites[c].uses < invites[c].max + Cardinality(Worker)

-----------------------------------------------------------------------------
(* RPCs that do not overlap, no call failing.                                *)

\* The owner never loses membership: not by leaving, being kicked or banned, nor
\* by handing the guild to somebody who is not in it.
OwnerStaysMember == [][serial' /\ owner \in members => owner' \in members']_vars

\* Every join, leave, kick and ban keeps @everyone equal to the membership, as long
\* as nobody edits roles: exactly the members hold it, through exactly one role row.
EveryoneIsMembership ==
    serial /\ ~rolesEdited /\ Running = {} /\ members # {} =>
        \E r \in Role : /\ EveryoneRoles = {r}
                        /\ \A u \in User : u \in members <=> <<r, u>> \in roleMembers

-----------------------------------------------------------------------------
(* Claims of the repository's documents and comments the code does not keep. *)

\* docs/features/guild.md: the invite row is locked, so the last seat is claimed
\* once.
InviteMaxUses ==
    \A c \in Code : invites[c].max > 0 => invites[c].uses <= invites[c].max

=============================================================================
