---------------------------- MODULE GuildProofs ----------------------------
(***************************************************************************)
(* Theorems about Guild, for any number of users, workers, roles,          *)
(* permissions and invite codes.                                           *)
(***************************************************************************)
EXTENDS Guild, FiniteSetTheorems, TLAPS

(* What a running request carries: the arguments of its RPC, and the role   *)
(* that a lookup of @everyone has put there.  TypeOK alone is not inductive:*)
(* a step writes rpc[w].role and rpc[w].target into role_members.           *)

TargetOps == {"CreateGuild", "JoinGuild", "LeaveGuild", "KickMember", "BanMember",
              "UnbanMember", "TransferOwnership", "AssignRole", "RemoveRole"}
RoleOfCall == {"UpdateRole", "DeleteRole", "AssignRole", "RemoveRole",
               "GrantRolePermission", "RevokeRolePermission"}
AssignCalls == {"EnsureAssign", "AssignRole", "AddUserToRole", "RemoveRole",
                "RemoveUserFromRole"}
TargetCalls == AssignCalls \cup {"EnsureGet", "EnsureCreate", "DropGet", "RemoveGuildMember"}

RequestOK(q) ==
    /\ q.op # "none" => q.caller \in User
    /\ q.op \in TargetOps => q.target \in User
    /\ q.op \in RoleOfCall => q.role \in Role
    /\ q.op \in {"GrantRolePermission", "RevokeRolePermission"} => q.perm \in Perm
    /\ q.op = "JoinGuild" => q.code \in Code
    /\ q.op = "CreateGuild" => q.target = q.caller
    /\ q.pc \in TargetCalls => q.target \in User
    /\ q.pc \in AssignCalls => q.role \in Role

RpcOK == rpc \in [Worker -> Request] /\ \A w \in Worker : RequestOK(rpc[w])

LEMMA IdleOK == Idle \in Request /\ RequestOK(Idle)
  BY DEF Idle, Request, RequestOK, Calls, TargetOps, RoleOfCall, TargetCalls, AssignCalls

\* A step that replaces one worker's request by a good one keeps them all good.
LEMMA OneRequest ==
  ASSUME RpcOK, NEW w \in Worker, NEW q \in Request, RequestOK(q),
         rpc' = [rpc EXCEPT ![w] = q]
  PROVE  RpcOK'
  BY DEF RpcOK

LEMMA ReturnOK ==
  ASSUME RpcOK, NEW w \in Worker, Return(w)
  PROVE  RpcOK'
  BY IdleOK, OneRequest DEF Return

\* Moving to a store call that needs no more arguments than the request has.
LEMMA GotoOK ==
  ASSUME RpcOK, NEW w \in Worker, NEW pc \in Calls, Goto(w, pc),
         pc \in TargetCalls => rpc[w].target \in User,
         pc \in AssignCalls => rpc[w].role \in Role
  PROVE  RpcOK'
  BY DEF RpcOK, Goto, Request, RequestOK

LEMMA ProceedOK ==
  ASSUME RpcOK, NEW w \in Worker, NEW pc \in Calls, NEW ok, Proceed(w, ok, pc),
         pc \in TargetCalls => rpc[w].target \in User,
         pc \in AssignCalls => rpc[w].role \in Role
  PROVE  RpcOK'
  BY GotoOK, ReturnOK DEF Proceed

StoreOK ==
    /\ AuthzTypeOK
    /\ members \subseteq User
    /\ bans \subseteq User
    /\ invites \in [Code -> InviteRow]
    /\ audit \in [Code -> Nat]
    /\ faults \in Nat
    /\ ownerGranted \subseteq Perm \cup {NoPerm}

TypeInv == StoreOK /\ RpcOK

LEMMA ReadOK == ASSUME StoreOK, Read PROVE StoreOK'
  BY DEF StoreOK, Read, store, AuthzTypeOK

LEMMA MembersOK ==
  ASSUME StoreOK, members' \subseteq User, ButMembers PROVE StoreOK'
  BY DEF StoreOK, ButMembers, AuthzTypeOK, authzVars

LEMMA BansOK ==
  ASSUME StoreOK, bans' \subseteq User, ButBans PROVE StoreOK'
  BY DEF StoreOK, ButBans, AuthzTypeOK, authzVars

LEMMA InvitesOK ==
  ASSUME StoreOK, invites' \in [Code -> InviteRow], audit' \in [Code -> Nat], ButInvites
  PROVE  StoreOK'
  BY DEF StoreOK, ButInvites, AuthzTypeOK, authzVars

LEMMA RolesOK ==
  ASSUME StoreOK, roles' \in [Role -> RoleRow], ButRoles PROVE StoreOK'
  BY DEF StoreOK, ButRoles, AuthzTypeOK

LEMMA RoleMembersOK ==
  ASSUME StoreOK, roleMembers' \subseteq Role \X User, ButRoleMembers PROVE StoreOK'
  BY DEF StoreOK, ButRoleMembers, AuthzTypeOK

LEMMA RolePermsOK ==
  ASSUME StoreOK, rolePerms' \subseteq Role \X Perm, ButRolePerms PROVE StoreOK'
  BY DEF StoreOK, ButRolePerms, AuthzTypeOK

LEMMA GuildsOK ==
  ASSUME StoreOK, owner' \in User \cup {NoUser}, guildDeleted' \in BOOLEAN, ButGuilds
  PROVE  StoreOK'
  BY DEF StoreOK, ButGuilds, AuthzTypeOK

-----------------------------------------------------------------------------

\* The request is served as it is, or comes under another guild's id.
Arrives(w, q) == rpc' = [rpc EXCEPT ![w] = q] \/ rpc' = [rpc EXCEPT ![w] = Elsewhere(q)]

LEMMA ArrivesAs ==
  ASSUME RpcOK, NEW w \in Worker, NEW op, NEW u, NEW q \in Inputs(op, u), Arrives(w, q)
  PROVE  /\ rpc' = [rpc EXCEPT ![w] = rpc'[w]]
         /\ rpc'[w].op = op /\ rpc'[w].pc = Entry(op)
<1>1. /\ q.op = op /\ q.pc = Entry(op)
      /\ Elsewhere(q).op = q.op /\ Elsewhere(q).pc = q.pc
  BY DEF Inputs, NewRequest, Elsewhere
<1>2. PICK r \in {q, Elsewhere(q)} : rpc' = [rpc EXCEPT ![w] = r]
  BY DEF Arrives
<1>3. rpc'[w] = r
  BY <1>2 DEF RpcOK
<1> QED BY <1>1, <1>2, <1>3

LEMMA CallOK ==
  ASSUME TypeInv, NEW w \in Worker, Call(w)
  PROVE  TypeInv'
<1>1. PICK op \in Ops, u \in User : \E q \in Inputs(op, u) : Arrives(w, q)
  BY DEF Call, Arrives
<1>2. PICK q \in Inputs(op, u) : Arrives(w, q)
  BY <1>1
<1>3. op \in GuildOps /\ Entry(op) \in Calls
  BY GuildConstants DEF Entry, Calls
<1>4. Entry(op) \notin TargetCalls
  BY DEF Entry, TargetCalls, AssignCalls
<1>5. q \in Request /\ RequestOK(q)
  <2>1. CASE op \in {"CreateGuild", "LeaveGuild", "CreateInvite", "DeleteGuild", "CreateRole"}
    <3>1. q = NewRequest(op, u, u, NoRole, NoPerm, NoCode)
      BY <2>1 DEF Inputs
    <3> QED BY <1>3, <1>4, <2>1, <3>1
        DEF NewRequest, Request, RequestOK, TargetOps, RoleOfCall, TargetCalls
  <2>2. CASE op = "JoinGuild"
    <3>1. PICK c \in Code : q = NewRequest(op, u, u, NoRole, NoPerm, c)
      BY <2>2 DEF Inputs
    <3> QED BY <1>3, <1>4, <2>2, <3>1
        DEF NewRequest, Request, RequestOK, TargetOps, RoleOfCall, TargetCalls
  <2>3. CASE op \in {"KickMember", "BanMember", "UnbanMember", "TransferOwnership"}
    <3>1. PICK t \in User : q = NewRequest(op, u, t, NoRole, NoPerm, NoCode)
      BY <2>3 DEF Inputs
    <3> QED BY <1>3, <1>4, <2>3, <3>1
        DEF NewRequest, Request, RequestOK, TargetOps, RoleOfCall, TargetCalls
  <2>4. CASE op \in {"UpdateRole", "DeleteRole"}
    <3>1. PICK r \in Role : q = NewRequest(op, u, NoUser, r, NoPerm, NoCode)
      BY <2>4 DEF Inputs
    <3> QED BY <1>3, <1>4, <2>4, <3>1
        DEF NewRequest, Request, RequestOK, TargetOps, RoleOfCall, TargetCalls
  <2>5. CASE op \in {"AssignRole", "RemoveRole"}
    <3>1. PICK t \in User, r \in Role : q = NewRequest(op, u, t, r, NoPerm, NoCode)
      BY <2>5 DEF Inputs
    <3> QED BY <1>3, <1>4, <2>5, <3>1
        DEF NewRequest, Request, RequestOK, TargetOps, RoleOfCall, TargetCalls
  <2>6. CASE op \in {"GrantRolePermission", "RevokeRolePermission"}
    <3>1. PICK r \in Role, p \in Perm : q = NewRequest(op, u, NoUser, r, p, NoCode)
      BY <2>6 DEF Inputs
    <3> QED BY <1>3, <1>4, <2>6, <3>1
        DEF NewRequest, Request, RequestOK, TargetOps, RoleOfCall, TargetCalls
  <2> QED BY <1>3, <2>1, <2>2, <2>3, <2>4, <2>5, <2>6 DEF GuildOps
<1>6. Elsewhere(q) \in Request /\ RequestOK(Elsewhere(q))
  BY <1>5 DEF Elsewhere, Request, RequestOK
<1>7. RpcOK'
  BY <1>2, <1>5, <1>6, OneRequest DEF TypeInv, Arrives
<1> QED BY <1>7, ReadOK DEF TypeInv, Call

LEMMA GatesOK ==
  ASSUME TypeInv, NEW w \in Worker, Gate(w) \/ Hierarchy(w)
  PROVE  TypeInv'
<1> USE DEF TypeInv
<1>1. AfterCheck(rpc[w].op) \in Calls /\ AfterCheck(rpc[w].op) \notin TargetCalls
  BY DEF AfterCheck, Calls, TargetCalls, AssignCalls
<1>2. "GetGuildByID" \in Calls /\ "GetGuildByID" \notin TargetCalls
  BY DEF Calls, TargetCalls, AssignCalls
<1>3. CASE Gate(w)
  BY <1>1, <1>3, ProceedOK, ReadOK DEF Gate, TargetCalls
<1>4. CASE Hierarchy(w)
  BY <1>2, <1>4, ProceedOK, ReadOK DEF Hierarchy, TargetCalls
<1> QED BY <1>3, <1>4

LEMMA CreateGuildOK ==
  ASSUME TypeInv, NEW w \in Worker, CreateGuild(w)
  PROVE  TypeInv'
<1> USE DEF TypeInv
<1>1. rpc[w] \in Request /\ RequestOK(rpc[w])
  BY DEF RpcOK
<1>2. CASE CreateGuildRow(w)
  <2>1. RpcOK'
    BY <1>2, GotoOK DEF CreateGuildRow, Calls, TargetCalls, AssignCalls
  <2>2. StoreOK'
    BY <1>1, <1>2, GuildsOK DEF CreateGuildRow, Request, StoreOK, AuthzTypeOK
  <2> QED BY <2>1, <2>2
<1>3. CASE CreateOtherGuild(w)
  BY <1>3, ReturnOK, ReadOK DEF CreateOtherGuild
<1>4. CASE CreateGuildAddOwner(w)
  <2>1. rpc[w].caller \in User /\ rpc[w].target \in User
    BY <1>1, <1>4 DEF CreateGuildAddOwner, At, RequestOK, TargetOps
  <2>2. RpcOK'
    BY <1>4, <2>1, GotoOK DEF CreateGuildAddOwner, Calls, AssignCalls
  <2>3. StoreOK'
    BY <1>4, <2>1, MembersOK DEF CreateGuildAddOwner, StoreOK
  <2> QED BY <2>2, <2>3
<1> QED BY <1>2, <1>3, <1>4 DEF CreateGuild

\* A lookup of @everyone puts the role it found into the request.
LEMMA KeepRoleOK ==
  ASSUME RpcOK, NEW w \in Worker, NEW r \in Role, NEW pc \in Calls, rpc[w].target \in User,
         KeepRole(w, r, pc)
  PROVE  RpcOK'
<1> DEFINE q == [rpc[w] EXCEPT !.role = r, !.pc = pc]
<1>1. rpc[w] \in Request /\ RequestOK(rpc[w])
  BY DEF RpcOK
<1>2. q \in Request
  BY <1>1 DEF Request
<1>3. RequestOK(q)
  BY <1>1 DEF Request, RequestOK
<1>4. rpc' = [rpc EXCEPT ![w] = q]
  BY DEF KeepRole
<1> QED BY <1>2, <1>3, <1>4, OneRequest

LEMMA EveryoneOK ==
  ASSUME TypeInv, NEW w \in Worker, Everyone(w)
  PROVE  TypeInv'
<1> USE DEF TypeInv
<1>1. rpc[w] \in Request /\ RequestOK(rpc[w])
  BY DEF RpcOK
<1>2. CASE EnsureGet(w)
  <2>1. rpc[w].target \in User
    BY <1>1, <1>2 DEF EnsureGet, RequestOK, TargetCalls
  <2>2. CASE EveryoneRoles = {} /\ Goto(w, "EnsureCreate")
    BY <1>2, <2>1, <2>2, GotoOK, ReadOK DEF EnsureGet, Calls, AssignCalls
  <2>3. CASE \E r \in EveryoneRoles : KeepRole(w, r, "EnsureAssign")
    BY <1>2, <2>1, <2>3, KeepRoleOK, ReadOK DEF EnsureGet, EveryoneRoles, LiveRoles, Calls
  <2> QED BY <1>2, <2>2, <2>3 DEF EnsureGet
<1>3. CASE EnsureCreate(w)
  <2>1. rpc[w].target \in User
    BY <1>1, <1>3 DEF EnsureCreate, RequestOK, TargetCalls
  <2>2. PICK r \in Role :
            /\ roles' = [roles EXCEPT ![r] =
                            [state |-> "live", everyone |-> TRUE, position |-> 0]]
            /\ KeepRole(w, r, "EnsureAssign")
    BY <1>3 DEF EnsureCreate
  <2>3. RpcOK'
    BY <2>1, <2>2, KeepRoleOK DEF Calls
  <2>4. StoreOK'
    BY <1>3, <2>2, RolesOK DEF EnsureCreate, StoreOK, AuthzTypeOK, RoleRow
  <2> QED BY <2>3, <2>4
<1>4. CASE EnsureAssign(w)
  <2>1. rpc[w].target \in User /\ rpc[w].role \in Role
    BY <1>1, <1>4 DEF EnsureAssign, RequestOK, TargetCalls, AssignCalls
  <2>2. StoreOK'
    BY <1>4, <2>1, RoleMembersOK DEF EnsureAssign, StoreOK, AuthzTypeOK
  <2> QED BY <1>4, <2>2, ReturnOK DEF EnsureAssign
<1>5. CASE DropGet(w)
  <2>1. rpc[w].target \in User
    BY <1>1, <1>5 DEF DropGet, RequestOK, TargetCalls
  <2>2. CASE \E r \in EveryoneRoles : KeepRole(w, r, "RemoveRole")
    BY <1>5, <2>1, <2>2, KeepRoleOK, ReadOK DEF DropGet, EveryoneRoles, LiveRoles, Calls
  <2>3. CASE Return(w)
    BY <1>5, <2>3, ReturnOK, ReadOK DEF DropGet
  <2> QED BY <1>5, <2>2, <2>3 DEF DropGet
<1> QED BY <1>2, <1>3, <1>4, <1>5 DEF Everyone

LEMMA JoinGuildOK ==
  ASSUME TypeInv, NEW w \in Worker, JoinGuild(w)
  PROVE  TypeInv'
<1> USE DEF TypeInv
<1>1. rpc[w] \in Request /\ RequestOK(rpc[w])
  BY DEF RpcOK
<1>2. rpc[w].op = "JoinGuild" => rpc[w].target \in User /\ rpc[w].code \in Code
  BY <1>1 DEF RequestOK, TargetOps
<1>3. CASE JoinGetInvite(w)
  BY <1>3, ProceedOK, ReadOK DEF JoinGetInvite, Calls, TargetCalls, AssignCalls
<1>4. CASE JoinGetBan(w)
  BY <1>4, ProceedOK, ReadOK DEF JoinGetBan, Calls, TargetCalls, AssignCalls
<1>5. CASE JoinGetGuildMember(w)
  BY <1>5, ProceedOK, ReadOK DEF JoinGetGuildMember, Calls, TargetCalls, AssignCalls
<1>6. CASE JoinAddGuildMember(w)
  <2>1. RpcOK'
    BY <1>6, GotoOK DEF JoinAddGuildMember, Calls, TargetCalls, AssignCalls
  <2>2. StoreOK'
    BY <1>2, <1>6, MembersOK DEF JoinAddGuildMember, At, StoreOK
  <2> QED BY <2>1, <2>2
<1>7. CASE JoinIncrementInviteUses(w)
  <2>1. RpcOK'
    BY <1>7, GotoOK DEF JoinIncrementInviteUses, Calls, TargetCalls, AssignCalls
  <2>2. invites' \in [Code -> InviteRow]
    <3>1. rpc[w].code \in Code /\ invites[rpc[w].code] \in InviteRow
      BY <1>2, <1>7 DEF JoinIncrementInviteUses, At, StoreOK
    <3>2. invites[rpc[w].code].uses + 1 \in Nat
      BY <3>1 DEF InviteRow
    <3> QED BY <1>7, <3>1, <3>2 DEF JoinIncrementInviteUses, StoreOK, InviteRow
  <2>3. StoreOK'
    BY <1>7, <2>2, InvitesOK DEF JoinIncrementInviteUses, StoreOK
  <2> QED BY <2>1, <2>3
<1>8. CASE JoinRecordInviteUse(w)
  <2>1. RpcOK'
    BY <1>8, GotoOK DEF JoinRecordInviteUse, Calls, TargetCalls, AssignCalls
  <2>2. StoreOK'
    <3>1. audit' \in [Code -> Nat]
      BY <1>2, <1>8 DEF JoinRecordInviteUse, At, StoreOK
    <3> QED BY <1>8, <3>1, InvitesOK DEF JoinRecordInviteUse, StoreOK
  <2> QED BY <2>1, <2>2
<1>9. CASE JoinAssignEveryone(w)
  <2>1. rpc[w].target \in User
    BY <1>2, <1>9 DEF JoinAssignEveryone, At
  <2>2. CASE Goto(w, "EnsureGet")
    BY <1>9, <2>1, <2>2, GotoOK, ReadOK DEF JoinAssignEveryone, Calls, AssignCalls
  <2>3. CASE \E r \in EveryoneRoles : KeepRole(w, r, "AssignRole")
    <3>1. PICK r \in Role : KeepRole(w, r, "AssignRole")
      BY <2>3 DEF EveryoneRoles, LiveRoles
    <3>2. RpcOK'
      BY <2>1, <3>1, KeepRoleOK DEF Calls
    <3> QED BY <1>9, <3>2, ReadOK DEF JoinAssignEveryone
  <2> QED BY <1>9, <2>2, <2>3 DEF JoinAssignEveryone
<1> QED BY <1>3, <1>4, <1>5, <1>6, <1>7, <1>8, <1>9 DEF JoinGuild

LEMMA RemovalOK ==
  ASSUME TypeInv, NEW w \in Worker, Removal(w)
  PROVE  TypeInv'
<1> USE DEF TypeInv
<1>1. rpc[w] \in Request /\ RequestOK(rpc[w])
  BY DEF RpcOK
<1>2. rpc[w].op \in {"LeaveGuild", "KickMember", "BanMember"} => rpc[w].target \in User
  BY <1>1 DEF RequestOK, TargetOps
<1>3. CASE RemovalGetGuild(w)
  <2>1. CASE rpc[w].op = "BanMember"
    BY <1>2, <1>3, <2>1, ProceedOK, ReadOK DEF RemovalGetGuild, Calls, AssignCalls
  <2>2. CASE rpc[w].op # "BanMember"
    BY <1>3, <2>2, ProceedOK, ReadOK DEF RemovalGetGuild, Calls, TargetCalls, AssignCalls
  <2> QED BY <2>1, <2>2
<1>4. CASE RemovalGetGuildMember(w)
  BY <1>2, <1>4, ProceedOK, ReadOK DEF RemovalGetGuildMember, Calls, AssignCalls
<1>5. CASE RemoveGuildMember(w)
  <2>1. rpc[w].target \in User
    BY <1>1, <1>5 DEF RemoveGuildMember, RequestOK, TargetCalls
  <2>2. RpcOK'
    BY <1>5, <2>1, GotoOK DEF RemoveGuildMember, Calls, AssignCalls
  <2>3. StoreOK'
    BY <1>5, MembersOK DEF RemoveGuildMember, StoreOK
  <2> QED BY <2>2, <2>3
<1>6. CASE CreateBan(w)
  <2>1. rpc[w].target \in User
    BY <1>2, <1>6 DEF CreateBan, At
  <2>2. RpcOK'
    BY <1>6, <2>1, GotoOK DEF CreateBan, Calls, AssignCalls
  <2>3. StoreOK'
    BY <1>6, <2>1, BansOK DEF CreateBan, StoreOK
  <2> QED BY <2>2, <2>3
<1>7. CASE UnbanGetBan(w)
  BY <1>7, ProceedOK, ReadOK DEF UnbanGetBan, Calls, TargetCalls, AssignCalls
<1>8. CASE DeleteBan(w)
  BY <1>8, ReturnOK, BansOK DEF DeleteBan, StoreOK
<1> QED BY <1>3, <1>4, <1>5, <1>6, <1>7, <1>8 DEF Removal

LEMMA InvitesStepOK ==
  ASSUME TypeInv, NEW w \in Worker, Invites(w)
  PROVE  TypeInv'
<1> USE DEF TypeInv
<1>1. CASE InviteGetGuildMember(w)
  BY <1>1, ProceedOK, ReadOK DEF InviteGetGuildMember, Calls, TargetCalls, AssignCalls
<1>2. CASE CreateInviteRow(w)
  <2>1. PICK c \in Code, n \in MaxUsesChoices :
            invites' = [invites EXCEPT ![c] = [state |-> "live", max |-> n, uses |-> 0]]
    BY <1>2 DEF CreateInviteRow
  <2>2. invites' \in [Code -> InviteRow]
    BY <2>1, GuildConstants DEF StoreOK, InviteRow
  <2>3. StoreOK'
    BY <1>2, <2>2, InvitesOK DEF CreateInviteRow, StoreOK
  <2> QED BY <1>2, <2>3, ReturnOK DEF CreateInviteRow
<1> QED BY <1>1, <1>2 DEF Invites

LEMMA InviteExpiresOK ==
  ASSUME TypeInv, NEW c \in Code, InviteExpires(c)
  PROVE  TypeInv'
<1>1. invites' \in [Code -> InviteRow]
  BY DEF InviteExpires, TypeInv, StoreOK, InviteRow
<1> QED BY <1>1, InvitesOK DEF InviteExpires, TypeInv, StoreOK, RpcOK

LEMMA RolesStepOK ==
  ASSUME TypeInv, NEW w \in Worker, Roles(w)
  PROVE  TypeInv'
<1> USE DEF TypeInv
<1>1. rpc[w] \in Request /\ RequestOK(rpc[w])
  BY DEF RpcOK
<1>2. rpc[w].op \in RoleOfCall => rpc[w].role \in Role
  BY <1>1 DEF RequestOK
<1>3. CASE CreateRoleCount(w)
  <2>1. Cardinality(LiveRoles) \in Nat
    BY GuildConstants, FS_Subset, FS_CardinalityType DEF LiveRoles
  <2>2. RpcOK'
    <3> DEFINE q == [rpc[w] EXCEPT !.position = Cardinality(LiveRoles), !.pc = "CreateRole"]
    <3>1. q \in Request
      BY <1>1, <2>1 DEF Request, Calls
    <3>2. RequestOK(q)
      BY <1>1 DEF Request, RequestOK, TargetCalls, AssignCalls
    <3>3. rpc' = [rpc EXCEPT ![w] = q]
      BY <1>3 DEF CreateRoleCount
    <3> QED BY <3>1, <3>2, <3>3, OneRequest
  <2> QED BY <1>3, <2>2, ReadOK DEF CreateRoleCount
<1>4. CASE CreateRoleRow(w)
  <2>1. PICK r \in Role, e \in BOOLEAN :
            roles' = [roles EXCEPT ![r] =
                        [state |-> "live", everyone |-> e, position |-> rpc[w].position]]
    BY <1>4 DEF CreateRoleRow
  <2>2. roles' \in [Role -> RoleRow]
    BY <1>1, <2>1 DEF StoreOK, AuthzTypeOK, RoleRow, Request
  <2> QED BY <1>4, <2>2, RolesOK, ReturnOK DEF CreateRoleRow
<1>5. CASE UpdateRole(w)
  <2>1. rpc[w].role \in Role
    BY <1>2, <1>5 DEF UpdateRole, At, RoleOfCall
  <2>2. PICK e \in BOOLEAN, n \in Nat :
            roles' = [roles EXCEPT ![rpc[w].role].everyone = e,
                                   ![rpc[w].role].position = n]
    BY <1>5, <2>1, GuildConstants DEF UpdateRole, StoreOK, AuthzTypeOK, RoleRow
  <2>3. roles' \in [Role -> RoleRow]
    BY <2>1, <2>2 DEF StoreOK, AuthzTypeOK, RoleRow
  <2> QED BY <1>5, <2>3, RolesOK, ReturnOK DEF UpdateRole
<1>6. CASE UpdateMissingRole(w)
  BY <1>6, ReturnOK, ReadOK DEF UpdateMissingRole
<1>7. CASE GetRoleByID(w)
  <2>1. AfterGetRole(rpc[w].op) \in Calls
    BY DEF AfterGetRole, Calls
  <2>2. AfterGetRole(rpc[w].op) \in TargetCalls =>
            rpc[w].target \in User /\ rpc[w].role \in Role
    BY <1>1 DEF AfterGetRole, TargetCalls, AssignCalls, RequestOK, TargetOps, RoleOfCall
  <2>3. RpcOK'
    BY <1>7, <2>1, <2>2, ProceedOK DEF GetRoleByID, TargetCalls
  <2> QED BY <1>7, <2>3, ReadOK DEF GetRoleByID
<1>8. CASE DeleteRole(w)
  <2>1. roles' \in [Role -> RoleRow]
    BY <1>8 DEF DeleteRole, StoreOK, AuthzTypeOK, RoleRow
  <2> QED BY <1>8, <2>1, RolesOK, ReturnOK DEF DeleteRole
<1>9. CASE AssignGetGuildMember(w)
  BY <1>9, ProceedOK, ReadOK DEF AssignGetGuildMember, Calls, TargetCalls, AssignCalls
<1>10. CASE AssignRole(w)
  <2>1. rpc[w].target \in User /\ rpc[w].role \in Role
    BY <1>1, <1>10 DEF AssignRole, RequestOK, TargetCalls, AssignCalls
  <2>2. StoreOK'
    BY <1>10, <2>1, RoleMembersOK DEF AssignRole, StoreOK, AuthzTypeOK
  <2> QED BY <1>10, <2>1, <2>2, ProceedOK DEF AssignRole, Calls
<1>11. CASE RemoveRole(w)
  <2>1. rpc[w].target \in User /\ rpc[w].role \in Role
    BY <1>1, <1>11 DEF RemoveRole, RequestOK, TargetCalls, AssignCalls
  <2>2. StoreOK'
    BY <1>11, RoleMembersOK DEF RemoveRole, StoreOK, AuthzTypeOK
  <2> QED BY <1>11, <2>1, <2>2, ProceedOK DEF RemoveRole, Calls
<1>12. CASE CanGuildPermission(w)
  <2>1. RpcOK'
    BY <1>12, ProceedOK DEF CanGuildPermission, Calls, TargetCalls, AssignCalls
  <2>2. ownerGranted' \subseteq Perm \cup {NoPerm}
    BY <1>1, <1>12 DEF CanGuildPermission, StoreOK, Request
  <2>3. StoreOK'
    BY <1>12, <2>2 DEF CanGuildPermission, StoreOK, store, AuthzTypeOK
  <2> QED BY <2>1, <2>3
<1>13. CASE GrantRolePermission(w)
  <2>1. rpc[w].role \in Role /\ rpc[w].perm \in Perm
    BY <1>1, <1>13 DEF GrantRolePermission, At, RequestOK, RoleOfCall
  <2>2. StoreOK'
    BY <1>13, <2>1, RolePermsOK DEF GrantRolePermission, StoreOK, AuthzTypeOK
  <2> QED BY <1>13, <2>2, ReturnOK DEF GrantRolePermission
<1>14. CASE RevokeRolePermission(w)
  <2>1. StoreOK'
    BY <1>14, RolePermsOK DEF RevokeRolePermission, StoreOK, AuthzTypeOK
  <2> QED BY <1>14, <2>1, ReturnOK DEF RevokeRolePermission
<1> QED BY <1>3, <1>4, <1>5, <1>6, <1>7, <1>8, <1>9, <1>10, <1>11, <1>12, <1>13, <1>14
        DEF Roles

LEMMA OwnershipOK ==
  ASSUME TypeInv, NEW w \in Worker, Ownership(w)
  PROVE  TypeInv'
<1> USE DEF TypeInv
<1>1. rpc[w] \in Request
  BY DEF RpcOK
<1>2. CASE OwnerGetGuild(w)
  BY <1>2, ProceedOK, ReadOK DEF OwnerGetGuild, Calls, TargetCalls, AssignCalls
<1>3. CASE TransferGetGuildMember(w)
  BY <1>3, ProceedOK, ReadOK DEF TransferGetGuildMember, Calls, TargetCalls, AssignCalls
<1>4. CASE TransferGuildOwnership(w)
  <2>1. StoreOK'
    BY <1>1, <1>4, GuildsOK DEF TransferGuildOwnership, Request, StoreOK, AuthzTypeOK
  <2> QED BY <1>4, <2>1, ReturnOK DEF TransferGuildOwnership
<1>5. CASE DeleteGuild(w)
  <2>1. StoreOK'
    BY <1>5, GuildsOK DEF DeleteGuild, StoreOK, AuthzTypeOK
  <2> QED BY <1>5, <2>1, ReturnOK DEF DeleteGuild
<1> QED BY <1>2, <1>3, <1>4, <1>5 DEF Ownership

LEMMA FaultsOK ==
  ASSUME TypeInv, NEW w \in Worker, CallFails(w) \/ NoFreeId(w)
  PROVE  TypeInv'
<1> USE DEF TypeInv
<1>1. rpc[w] \in Request /\ RequestOK(rpc[w])
  BY DEF RpcOK
<1>2. CASE CallFails(w)
  <2> DEFINE pc == AfterError(rpc[w].op, rpc[w].pc)
  <2>1. pc \in Calls
    BY DEF AfterError, Calls
  <2>2. pc \in TargetCalls => rpc[w].target \in User
    BY <1>1 DEF AfterError, RequestOK, TargetCalls, AssignCalls, TargetOps
  <2>3. pc \in AssignCalls => rpc[w].role \in Role
    BY <1>1 DEF AfterError, RequestOK, TargetCalls, AssignCalls
  <2>4. Proceed(w, pc # "idle", pc)
    BY <1>2 DEF CallFails
  <2>5. RpcOK'
    BY <2>1, <2>2, <2>3, <2>4, ProceedOK
  <2>6. StoreOK'
    BY <1>2 DEF CallFails, StoreOK, store, AuthzTypeOK
  <2> QED BY <2>5, <2>6
<1>3. CASE NoFreeId(w)
  BY <1>3, ReturnOK, ReadOK DEF NoFreeId
<1> QED BY <1>2, <1>3

LEMMA TypeStep == TypeInv /\ [Next]_vars => TypeInv'
<1> SUFFICES ASSUME TypeInv, [Next]_vars PROVE TypeInv'
  OBVIOUS
<1>1. CASE UNCHANGED vars
  BY <1>1 DEF vars, store, TypeInv, StoreOK, RpcOK, AuthzTypeOK
<1>2. CASE \E w \in Worker : Step(w)
  BY <1>2, CallOK, GatesOK, CreateGuildOK, EveryoneOK, JoinGuildOK, RemovalOK,
     InvitesStepOK, RolesStepOK, OwnershipOK, FaultsOK DEF Step
<1>3. CASE \E c \in Code : InviteExpires(c)
  BY <1>3, InviteExpiresOK
<1> QED BY <1>1, <1>2, <1>3 DEF Next

LEMMA TypeInit == Init => TypeInv
<1> SUFFICES ASSUME Init PROVE TypeInv
  OBVIOUS
<1>1. RpcOK
  BY IdleOK DEF Init, RpcOK
<1>2. StoreOK
  BY DEF Init, StoreOK, AuthzTypeOK, RoleRow, InviteRow
<1> QED BY <1>1, <1>2 DEF TypeInv

\* Every state of the guild is well typed, and every running request carries the
\* arguments its next store call uses: no RPC reaches a store call with a nil
\* role or target, on any path of JoinGuild, LeaveGuild, KickMember, BanMember
\* or the role RPCs, whichever store calls fail.
THEOREM TypeCorrect == Spec => []TypeOK
<1> DEFINE HistoryOK == /\ serial \in BOOLEAN /\ rolesEdited \in BOOLEAN
                        /\ strayed \subseteq Perm \cup {NoPerm}
<1>1. TypeInv /\ HistoryOK => TypeOK
  BY DEF TypeInv, TypeOK, StoreOK, RpcOK
<1>2. Init => HistoryOK
  BY DEF Init
<1>3. TypeInv' /\ HistoryOK /\ [Next]_vars => HistoryOK'
  <2>1. ASSUME TypeInv', HistoryOK, Next PROVE HistoryOK'
    <3>1. \A w \in Worker : rpc'[w].perm \in Perm \cup {NoPerm}
      BY <2>1 DEF TypeInv, RpcOK, Request
    <3> QED BY <2>1, <3>1 DEF Next, Recorded
  <2> QED BY <2>1 DEF vars
<1> HIDE DEF HistoryOK
<1> QED BY TypeInit, TypeStep, <1>1, <1>2, <1>3, PTL DEF Spec

-----------------------------------------------------------------------------
(* The anti-escalation rule.  NoEscalation alone is not inductive: the grant *)
(* is written two store calls after the caller's own permission was checked, *)
(* and the caller may have lost it, or the ownership, in between.            *)

PastCheck(w) ==
    rpc[w].op = "GrantRolePermission" /\ rpc[w].pc \in {"GetRoleByID", "GrantRolePermission"}

ClearedGrants == \A w \in Worker : PastCheck(w) => Sourced(rpc[w].perm)

\* What a request under another guild's id names is known from the moment it arrives.
StraysKnown == \A w \in Worker : ~rpc[w].here => rpc[w].perm \in strayed

EscalationInv == NoEscalation /\ ClearedGrants

\* A caller who holds a permission, as owner or through a role, may only hold one
\* that goes back to an owner.
LEMMA HeldIsSourced ==
  ASSUME TypeInv, NoEscalation, NEW u \in User, NEW p \in Perm, Check(u, p), ~IsOwner(u)
  PROVE  Sourced(p)
<1>1. CASE HoldsThroughRole(u, p)
  BY <1>1 DEF HoldsThroughRole, RolesOf, LiveRoles, NoEscalation
<1>2. CASE HoldsThroughRole(u, "ADMINISTRATOR")
  <2>1. PICK r \in Role : <<r, "ADMINISTRATOR">> \in rolePerms
    BY <1>2 DEF HoldsThroughRole, RolesOf, LiveRoles
  <2>2. "ADMINISTRATOR" \in Perm
    BY <2>1 DEF TypeInv, StoreOK, AuthzTypeOK
  <2> QED BY <2>1, <2>2 DEF NoEscalation, Sourced
<1> QED BY <1>1, <1>2 DEF Check

\* No grant passes the check in this step.
NothingCleared ==
    \A v \in Worker : PastCheck(v)' => PastCheck(v) /\ rpc'[v].perm = rpc[v].perm

\* A step that grants nothing and clears no new grant keeps EscalationInv.
LEMMA NoNewGrant ==
  ASSUME EscalationInv, rolePerms' \subseteq rolePerms, ownerGranted \subseteq ownerGranted',
         strayed \subseteq strayed', NothingCleared
  PROVE  EscalationInv'
<1>1. \A p : Sourced(p) => Sourced(p)'
  BY DEF Sourced
<1> QED BY <1>1 DEF EscalationInv, NoEscalation, ClearedGrants, NothingCleared

LEMMA ReturnClearsNone ==
  ASSUME TypeInv, NEW w \in Worker, Return(w)
  PROVE  NothingCleared
  BY DEF TypeInv, RpcOK, Return, Idle, PastCheck, NothingCleared

LEMMA GotoClearsNone ==
  ASSUME TypeInv, NEW w \in Worker, NEW pc, Goto(w, pc),
         rpc[w].op # "GrantRolePermission"
            \/ pc \notin {"GetRoleByID", "GrantRolePermission"} \/ PastCheck(w)
  PROVE  NothingCleared
  BY DEF TypeInv, RpcOK, Request, Goto, PastCheck, NothingCleared

LEMMA ProceedClearsNone ==
  ASSUME TypeInv, NEW w \in Worker, NEW pc, NEW ok, Proceed(w, ok, pc),
         rpc[w].op # "GrantRolePermission"
            \/ pc \notin {"GetRoleByID", "GrantRolePermission"} \/ PastCheck(w)
  PROVE  NothingCleared
  BY GotoClearsNone, ReturnClearsNone DEF Proceed

LEMMA KeepRoleClearsNone ==
  ASSUME TypeInv, NEW w \in Worker, NEW r, NEW pc,
         KeepRole(w, r, pc),
         pc \notin {"GetRoleByID", "GrantRolePermission"}
  PROVE  NothingCleared
  BY DEF TypeInv, RpcOK, Request, KeepRole, PastCheck, NothingCleared

LEMMA CallClearsNone ==
  ASSUME TypeInv, NEW w \in Worker, Call(w)
  PROVE  NothingCleared
<1>1. PICK op \in Ops, u \in User : \E q \in Inputs(op, u) : Arrives(w, q)
  BY DEF Call, Arrives
<1>2. PICK asked \in Inputs(op, u) : Arrives(w, asked)
  BY <1>1
<1> DEFINE q == rpc'[w]
<1>3. q.pc = Entry(op) /\ rpc' = [rpc EXCEPT ![w] = q]
  BY <1>2, ArrivesAs DEF TypeInv
<1> HIDE DEF q
<1>4. q.pc \notin {"GetRoleByID", "GrantRolePermission"}
  BY <1>3 DEF Entry
<1> QED BY <1>3, <1>4 DEF TypeInv, RpcOK, PastCheck, NothingCleared

\* The steps that neither read a grant's permission nor write role_permissions.
LEMMA OtherSteps ==
  ASSUME TypeInv, NEW w \in Worker,
         \/ Gate(w) \/ Hierarchy(w) \/ CreateGuild(w) \/ Everyone(w) \/ JoinGuild(w)
         \/ Removal(w) \/ Invites(w) \/ Ownership(w) \/ NoFreeId(w)
  PROVE  NothingCleared /\ UNCHANGED <<rolePerms, ownerGranted>>
<1>1. CASE Gate(w)
  <2>1. rpc[w].op # "GrantRolePermission" \/ AfterCheck(rpc[w].op) = "CanGuildPermission"
    BY DEF AfterCheck
  <2> QED BY <1>1, <2>1, ProceedClearsNone DEF Gate, Read, store
<1>2. CASE Hierarchy(w)
  BY <1>2, ProceedClearsNone DEF Hierarchy, Read, store
<1>3. CASE CreateGuild(w)
  BY <1>3, GotoClearsNone, ReturnClearsNone
  DEF CreateGuild, CreateGuildRow, CreateOtherGuild, CreateGuildAddOwner, At, Read, store,
      ButGuilds, ButMembers, authzVars
<1>4. CASE Everyone(w)
  <2>1. CASE EnsureGet(w)
    BY <2>1, GotoClearsNone, KeepRoleClearsNone DEF EnsureGet, Read, store
  <2>2. CASE EnsureCreate(w)
    BY <2>2, KeepRoleClearsNone DEF EnsureCreate, ButRoles
  <2>3. CASE EnsureAssign(w)
    BY <2>3, ReturnClearsNone DEF EnsureAssign, ButRoleMembers
  <2>4. CASE DropGet(w)
    BY <2>4, ReturnClearsNone, KeepRoleClearsNone DEF DropGet, Read, store
  <2> QED BY <1>4, <2>1, <2>2, <2>3, <2>4 DEF Everyone
<1>5. CASE JoinGuild(w)
  <2>1. CASE JoinGetInvite(w) \/ JoinGetBan(w) \/ JoinGetGuildMember(w)
    BY <2>1, ProceedClearsNone
    DEF JoinGetInvite, JoinGetBan, JoinGetGuildMember, At, Read, store
  <2>2. CASE JoinAddGuildMember(w)
    BY <2>2, GotoClearsNone DEF JoinAddGuildMember, At, ButMembers, authzVars
  <2>3. CASE JoinIncrementInviteUses(w) \/ JoinRecordInviteUse(w)
    BY <2>3, GotoClearsNone
    DEF JoinIncrementInviteUses, JoinRecordInviteUse, At, ButInvites, authzVars
  <2>4. CASE JoinAssignEveryone(w)
    BY <2>4, GotoClearsNone, KeepRoleClearsNone DEF JoinAssignEveryone, At, Read, store
  <2> QED BY <1>5, <2>1, <2>2, <2>3, <2>4 DEF JoinGuild
<1>6. CASE Removal(w)
  <2>1. CASE RemovalGetGuild(w) \/ RemovalGetGuildMember(w) \/ UnbanGetBan(w)
    BY <2>1, ProceedClearsNone
    DEF RemovalGetGuild, RemovalGetGuildMember, UnbanGetBan, At, Read, store
  <2>2. CASE RemoveGuildMember(w)
    BY <2>2, GotoClearsNone DEF RemoveGuildMember, ButMembers, authzVars
  <2>3. CASE CreateBan(w)
    BY <2>3, GotoClearsNone DEF CreateBan, At, ButBans, authzVars
  <2>4. CASE DeleteBan(w)
    BY <2>4, ReturnClearsNone DEF DeleteBan, ButBans, authzVars
  <2> QED BY <1>6, <2>1, <2>2, <2>3, <2>4 DEF Removal
<1>7. CASE Invites(w)
  <2>1. CASE InviteGetGuildMember(w)
    BY <2>1, ProceedClearsNone DEF InviteGetGuildMember, At, Read, store
  <2>2. CASE CreateInviteRow(w)
    BY <2>2, ReturnClearsNone DEF CreateInviteRow, ButInvites, authzVars
  <2> QED BY <1>7, <2>1, <2>2 DEF Invites
<1>8. CASE Ownership(w)
  <2>1. CASE OwnerGetGuild(w) \/ TransferGetGuildMember(w)
    BY <2>1, ProceedClearsNone DEF OwnerGetGuild, TransferGetGuildMember, At, Read, store
  <2>2. CASE TransferGuildOwnership(w) \/ DeleteGuild(w)
    BY <2>2, ReturnClearsNone DEF TransferGuildOwnership, DeleteGuild, ButGuilds
  <2> QED BY <1>8, <2>1, <2>2 DEF Ownership
<1>9. CASE NoFreeId(w)
  BY <1>9, ReturnClearsNone DEF NoFreeId, Read, store
<1> QED BY <1>1, <1>2, <1>3, <1>4, <1>5, <1>6, <1>7, <1>8, <1>9

LEMMA RoleSteps ==
  ASSUME TypeInv, EscalationInv, StraysKnown, strayed \subseteq strayed',
         NEW w \in Worker, Roles(w)
  PROVE  EscalationInv'
<1>1. rpc \in [Worker -> Request] /\ RequestOK(rpc[w])
  BY DEF TypeInv, RpcOK
<1>2. CASE CreateRoleCount(w)
  <2>1. NothingCleared
    BY <1>1, <1>2 DEF CreateRoleCount, At, Request, PastCheck, NothingCleared
  <2> QED BY <1>2, <2>1, NoNewGrant DEF CreateRoleCount, Read, store
<1>3. CASE CreateRoleRow(w) \/ UpdateRole(w) \/ DeleteRole(w)
  BY <1>3, ReturnClearsNone, NoNewGrant DEF CreateRoleRow, UpdateRole, DeleteRole, ButRoles
<1>4. CASE UpdateMissingRole(w)
  BY <1>4, ReturnClearsNone, NoNewGrant DEF UpdateMissingRole, Read, store
<1>5. CASE GetRoleByID(w)
  <2>1. NothingCleared
    BY <1>5, ProceedClearsNone DEF GetRoleByID, PastCheck
  <2> QED BY <1>5, <2>1, NoNewGrant DEF GetRoleByID, Read, store
<1>6. CASE AssignGetGuildMember(w)
  BY <1>6, ProceedClearsNone, NoNewGrant DEF AssignGetGuildMember, At, Read, store
<1>7. CASE AssignRole(w) \/ RemoveRole(w)
  BY <1>7, ProceedClearsNone, NoNewGrant DEF AssignRole, RemoveRole, ButRoleMembers
<1>8. CASE CanGuildPermission(w)
  <2>1. UNCHANGED rolePerms /\ ownerGranted \subseteq ownerGranted'
    BY <1>8 DEF CanGuildPermission, store
  <2>2. NoEscalation'
    BY <2>1 DEF EscalationInv, NoEscalation, Sourced
  <2>3. ASSUME NEW v \in Worker, PastCheck(v)'
        PROVE  Sourced(rpc[v].perm)'
    <3>1. CASE PastCheck(v) /\ rpc'[v].perm = rpc[v].perm
      BY <2>1, <3>1 DEF EscalationInv, ClearedGrants, Sourced
    <3>2. CASE ~(PastCheck(v) /\ rpc'[v].perm = rpc[v].perm)
      <4>0. PICK ok \in Answers(w, HoldsGranted(w)) : Proceed(w, ok, "GetRoleByID")
        BY <1>8 DEF CanGuildPermission
      <4>1. v = w /\ ok /\ rpc' = [rpc EXCEPT ![w].pc = "GetRoleByID"]
        BY <1>1, <2>3, <3>2, <4>0 DEF Proceed, Goto, Return, PastCheck, Request, Idle
      <4>2. rpc[w].op = "GrantRolePermission" /\ rpc'[w].perm = rpc[w].perm
        BY <1>1, <2>3, <4>1 DEF PastCheck, Request
      <4>3. rpc[w].caller \in User /\ rpc[w].perm \in Perm
        BY <1>1, <4>2 DEF RequestOK
      <4>4. CASE ~rpc[w].here
        BY <4>1, <4>2, <4>4 DEF StraysKnown, Sourced
      <4>5. CASE rpc[w].here /\ IsOwner(rpc[w].caller)
        BY <1>8, <4>1, <4>2, <4>5 DEF CanGuildPermission, Sourced
      <4>6. CASE rpc[w].here /\ ~IsOwner(rpc[w].caller)
        <5>1. HoldsGranted(w)
          BY <4>0, <4>1, <4>6 DEF Answers
        <5>2. Sourced(rpc[w].perm)
          BY <4>3, <4>6, <5>1, HeldIsSourced DEF HoldsGranted, EscalationInv
        <5> QED BY <2>1, <4>1, <4>2, <5>2 DEF Sourced
      <4> QED BY <4>4, <4>5, <4>6
    <3> QED BY <3>1, <3>2
  <2> QED BY <2>2, <2>3 DEF EscalationInv, ClearedGrants
<1>9. CASE GrantRolePermission(w)
  <2>1. Sourced(rpc[w].perm)
    BY <1>9 DEF GrantRolePermission, At, EscalationInv, ClearedGrants, PastCheck
  <2>2. NoEscalation'
    BY <1>9, <2>1 DEF GrantRolePermission, ButRolePerms, EscalationInv, NoEscalation, Sourced
  <2>3. NothingCleared
    BY <1>9, ReturnClearsNone DEF GrantRolePermission
  <2>4. ClearedGrants'
    BY <1>9, <2>3 DEF GrantRolePermission, ButRolePerms, NothingCleared, EscalationInv,
                      ClearedGrants, Sourced
  <2> QED BY <2>2, <2>4 DEF EscalationInv
<1>10. CASE RevokeRolePermission(w)
  BY <1>10, ReturnClearsNone, NoNewGrant DEF RevokeRolePermission, ButRolePerms
<1> QED BY <1>2, <1>3, <1>4, <1>5, <1>6, <1>7, <1>8, <1>9, <1>10 DEF Roles

LEMMA FaultClearsNone ==
  ASSUME TypeInv, NEW w \in Worker, CallFails(w)
  PROVE  NothingCleared /\ UNCHANGED <<rolePerms, ownerGranted>>
<1>1. AfterError(rpc[w].op, rpc[w].pc) \notin {"GetRoleByID", "GrantRolePermission"}
  BY DEF AfterError
<1> QED BY <1>1, ProceedClearsNone DEF CallFails, store

LEMMA StraysStep == StraysKnown /\ [Next]_vars => StraysKnown' /\ strayed \subseteq strayed'
  BY DEF StraysKnown, Next, Recorded, vars

LEMMA EscalationStep ==
  TypeInv /\ EscalationInv /\ StraysKnown /\ [Next]_vars => EscalationInv'
<1> SUFFICES ASSUME TypeInv, EscalationInv, StraysKnown, [Next]_vars PROVE EscalationInv'
  OBVIOUS
<1>0. strayed \subseteq strayed'
  BY StraysStep
<1>1. CASE UNCHANGED vars
  BY <1>0, <1>1, NoNewGrant DEF vars, store, NothingCleared, PastCheck
<1>2. CASE \E w \in Worker : Roles(w)
  BY <1>0, <1>2, RoleSteps
<1>3. CASE \E w \in Worker :
            \/ Gate(w) \/ Hierarchy(w) \/ CreateGuild(w) \/ Everyone(w) \/ JoinGuild(w)
            \/ Removal(w) \/ Invites(w) \/ Ownership(w) \/ NoFreeId(w)
  BY <1>0, <1>3, OtherSteps, NoNewGrant
<1>4. CASE \E w \in Worker : Call(w)
  BY <1>0, <1>4, CallClearsNone, NoNewGrant DEF Call, Read, store
<1>5. CASE \E w \in Worker : CallFails(w)
  BY <1>0, <1>5, FaultClearsNone, NoNewGrant
<1>6. CASE \E c \in Code : InviteExpires(c)
  BY <1>0, <1>6, NoNewGrant DEF InviteExpires, ButInvites, authzVars, NothingCleared, PastCheck
<1> QED BY <1>1, <1>2, <1>3, <1>4, <1>5, <1>6 DEF Next, Step

\* GrantRolePermission's anti-escalation rule holds for any number of concurrent
\* RPCs, users, roles and permissions, and whichever store calls fail: no role
\* ever carries a permission that does not go back to a grant by an owner, or to a
\* request that named one of the guild's roles under another guild's id.
THEOREM EscalationFree == Spec => []NoEscalation
<1>1. Init => EscalationInv /\ StraysKnown
  BY DEF Init, Idle, EscalationInv, NoEscalation, ClearedGrants, PastCheck, StraysKnown
<1>2. EscalationInv => NoEscalation
  BY DEF EscalationInv
<1> QED BY <1>1, <1>2, TypeInit, TypeStep, EscalationStep, StraysStep, PTL DEF Spec

-----------------------------------------------------------------------------
(* Bans.  A request is Adding once only AddGuildMember is ahead of it, and    *)
(* Banning once it will write the ban.                                        *)

Adding(q) == (q.op = "JoinGuild" /\ q.pc = "GetGuildMember") \/ q.pc = "AddGuildMember"

Banning(q) == q.op = "BanMember" /\ q.pc \in {"RemoveGuildMember", "CreateBan"}

\* A ban needs a guild.  Without this a banned user could still be the one whose
\* CreateGuild is about to make the guild, and would become a member of it.
BanInv == owner = NoUser => bans = {} /\ \A w \in Worker : ~Banning(rpc[w])

StickyStep ==
    \A u \in User : ShutOut(u) => (ShutOut(u)' \/ (u \notin bans)' \/ BanCheckFails(u))

NoNewRisk ==
    \A v \in Worker :
        /\ Adding(rpc'[v]) => Adding(rpc[v]) /\ rpc'[v].target = rpc[v].target
        /\ Banning(rpc'[v]) => Banning(rpc[v])

LEMMA PendingIsAdding ==
  \A u : AddPending(u) <=> \E w \in Worker : rpc[w].target = u /\ Adding(rpc[w])
  BY DEF AddPending, At, Adding

LEMMA PendingIsAddingNext ==
  \A u : AddPending(u)' <=> \E w \in Worker : rpc'[w].target = u /\ Adding(rpc'[w])
  BY DEF AddPending, At, Adding

\* A step that admits nobody, bans nobody and starts no addition.
LEMMA HarmlessStep ==
  ASSUME BanInv, NoNewRisk, UNCHANGED <<owner, bans>>, members' \subseteq members
  PROVE  BanInv' /\ StickyStep
<1>1. BanInv'
  BY DEF BanInv, NoNewRisk
<1>2. StickyStep
  BY PendingIsAdding, PendingIsAddingNext DEF NoNewRisk, StickyStep, ShutOut
<1> QED BY <1>1, <1>2

LEMMA ReturnNoRisk ==
  ASSUME TypeInv, NEW w \in Worker, Return(w)
  PROVE  NoNewRisk
  BY DEF TypeInv, RpcOK, Return, Idle, NoNewRisk, Adding, Banning

LEMMA GotoNoRisk ==
  ASSUME TypeInv, NEW w \in Worker, NEW pc, Goto(w, pc),
         pc \notin {"GetGuildMember", "AddGuildMember", "RemoveGuildMember", "CreateBan"}
            \/ (pc = "GetGuildMember" /\ rpc[w].op # "JoinGuild")
            \/ (pc = "AddGuildMember" /\ Adding(rpc[w]))
            \/ (pc \in {"RemoveGuildMember", "CreateBan"}
                    /\ (rpc[w].op # "BanMember" \/ Banning(rpc[w])))
  PROVE  NoNewRisk
  BY DEF TypeInv, RpcOK, Request, Goto, NoNewRisk, Adding, Banning

LEMMA ProceedNoRisk ==
  ASSUME TypeInv, NEW w \in Worker, NEW pc, NEW ok, Proceed(w, ok, pc),
         pc \notin {"GetGuildMember", "AddGuildMember", "RemoveGuildMember", "CreateBan"}
            \/ (pc = "GetGuildMember" /\ rpc[w].op # "JoinGuild")
            \/ (pc = "AddGuildMember" /\ Adding(rpc[w]))
            \/ (pc \in {"RemoveGuildMember", "CreateBan"}
                    /\ (rpc[w].op # "BanMember" \/ Banning(rpc[w])))
  PROVE  NoNewRisk
  BY GotoNoRisk, ReturnNoRisk DEF Proceed

LEMMA KeepRoleNoRisk ==
  ASSUME TypeInv, NEW w \in Worker, NEW r, NEW pc, KeepRole(w, r, pc),
         pc \notin {"GetGuildMember", "AddGuildMember", "RemoveGuildMember", "CreateBan"}
  PROVE  NoNewRisk
  BY DEF TypeInv, RpcOK, Request, KeepRole, NoNewRisk, Adding, Banning

LEMMA CallNoRisk ==
  ASSUME TypeInv, NEW w \in Worker, Call(w)
  PROVE  NoNewRisk
<1>1. PICK op \in Ops, u \in User : \E q \in Inputs(op, u) : Arrives(w, q)
  BY DEF Call, Arrives
<1>2. PICK asked \in Inputs(op, u) : Arrives(w, asked)
  BY <1>1
<1> DEFINE q == rpc'[w]
<1>3. q.pc = Entry(op) /\ q.op = op /\ rpc' = [rpc EXCEPT ![w] = q]
  BY <1>2, ArrivesAs DEF TypeInv
<1> HIDE DEF q
<1>4. ~Adding(q) /\ ~Banning(q)
  BY <1>3 DEF Entry, Adding, Banning
<1> QED BY <1>3, <1>4 DEF TypeInv, RpcOK, NoNewRisk

LEMMA HarmlessSteps ==
  ASSUME TypeInv, BanInv, NEW w \in Worker,
         \/ Call(w) \/ Gate(w) \/ Hierarchy(w) \/ Everyone(w) \/ Invites(w) \/ Roles(w)
         \/ NoFreeId(w) \/ OwnerGetGuild(w) \/ TransferGetGuildMember(w) \/ DeleteGuild(w)
  PROVE  BanInv' /\ StickyStep
<1> SUFFICES NoNewRisk /\ UNCHANGED <<owner, bans, members>>
  BY HarmlessStep
<1>1. CASE Call(w)
  BY <1>1, CallNoRisk DEF Call, Read, store
<1>2. CASE Gate(w)
  <2>1. \/ AfterCheck(rpc[w].op) \notin
              {"GetGuildMember", "AddGuildMember", "RemoveGuildMember", "CreateBan"}
        \/ AfterCheck(rpc[w].op) = "GetGuildMember" /\ rpc[w].op # "JoinGuild"
    BY DEF AfterCheck
  <2> QED BY <1>2, <2>1, ProceedNoRisk DEF Gate, Read, store
<1>3. CASE Hierarchy(w)
  BY <1>3, ProceedNoRisk DEF Hierarchy, Read, store
<1>4. CASE Everyone(w)
  <2>1. CASE EnsureGet(w)
    BY <2>1, GotoNoRisk, KeepRoleNoRisk DEF EnsureGet, Read, store
  <2>2. CASE EnsureCreate(w)
    BY <2>2, KeepRoleNoRisk DEF EnsureCreate, ButRoles
  <2>3. CASE EnsureAssign(w)
    BY <2>3, ReturnNoRisk DEF EnsureAssign, ButRoleMembers
  <2>4. CASE DropGet(w)
    BY <2>4, ReturnNoRisk, KeepRoleNoRisk DEF DropGet, Read, store
  <2> QED BY <1>4, <2>1, <2>2, <2>3, <2>4 DEF Everyone
<1>5. CASE Invites(w)
  <2>1. CASE InviteGetGuildMember(w)
    BY <2>1, ProceedNoRisk DEF InviteGetGuildMember, Read, store
  <2>2. CASE CreateInviteRow(w)
    BY <2>2, ReturnNoRisk DEF CreateInviteRow, ButInvites, authzVars
  <2> QED BY <1>5, <2>1, <2>2 DEF Invites
<1>6. CASE Roles(w)
  <2>1. CASE CreateRoleCount(w)
    BY <2>1 DEF TypeInv, RpcOK, Request, CreateRoleCount, NoNewRisk, Adding, Banning, Read, store
  <2>2. CASE CreateRoleRow(w) \/ UpdateRole(w) \/ DeleteRole(w)
    BY <2>2, ReturnNoRisk DEF CreateRoleRow, UpdateRole, DeleteRole, ButRoles
  <2>3. CASE UpdateMissingRole(w)
    BY <2>3, ReturnNoRisk DEF UpdateMissingRole, Read, store
  <2>4. CASE GetRoleByID(w)
    <3>1. AfterGetRole(rpc[w].op) \notin
              {"GetGuildMember", "AddGuildMember", "RemoveGuildMember", "CreateBan"}
      BY DEF AfterGetRole
    <3> QED BY <2>4, <3>1, ProceedNoRisk DEF GetRoleByID, Read, store
  <2>5. CASE AssignGetGuildMember(w)
    BY <2>5, ProceedNoRisk DEF AssignGetGuildMember, Read, store
  <2>6. CASE AssignRole(w) \/ RemoveRole(w)
    BY <2>6, ProceedNoRisk DEF AssignRole, RemoveRole, ButRoleMembers
  <2>7. CASE CanGuildPermission(w)
    BY <2>7, ProceedNoRisk DEF CanGuildPermission, store
  <2>8. CASE GrantRolePermission(w) \/ RevokeRolePermission(w)
    BY <2>8, ReturnNoRisk DEF GrantRolePermission, RevokeRolePermission, ButRolePerms
  <2> QED BY <1>6, <2>1, <2>2, <2>3, <2>4, <2>5, <2>6, <2>7, <2>8 DEF Roles
<1>7. CASE NoFreeId(w)
  BY <1>7, ReturnNoRisk DEF NoFreeId, Read, store
<1>8. CASE OwnerGetGuild(w)
  BY <1>8, ProceedNoRisk DEF OwnerGetGuild, Read, store
<1>9. CASE TransferGetGuildMember(w)
  BY <1>9, ProceedNoRisk DEF TransferGetGuildMember, Read, store
<1>10. CASE DeleteGuild(w)
  BY <1>10, ReturnNoRisk DEF DeleteGuild, ButGuilds
<1> QED BY <1>1, <1>2, <1>3, <1>4, <1>5, <1>6, <1>7, <1>8, <1>9, <1>10

\* Transferring the guild, and the three steps of CreateGuild.
LEMMA OwnerSteps ==
  ASSUME TypeInv, BanInv, NEW w \in Worker, CreateGuild(w) \/ TransferGuildOwnership(w)
  PROVE  BanInv' /\ StickyStep
<1>1. rpc \in [Worker -> Request] /\ RequestOK(rpc[w])
  BY DEF TypeInv, RpcOK
<1>2. CASE CreateGuildRow(w)
  <2>1. bans' = {}
    BY <1>2 DEF CreateGuildRow, ButGuilds, BanInv
  <2>2. owner' # NoUser
    BY <1>1, <1>2, NoUserAssumption DEF CreateGuildRow, At, RequestOK
  <2> QED BY <2>1, <2>2 DEF BanInv, StickyStep
<1>3. CASE CreateOtherGuild(w)
  BY <1>3, ReturnNoRisk, HarmlessStep DEF CreateOtherGuild, Read, store
<1>4. CASE CreateGuildAddOwner(w)
  <2>1. rpc[w].target = rpc[w].caller /\ Adding(rpc[w])
    BY <1>1, <1>4 DEF CreateGuildAddOwner, At, RequestOK, Adding
  <2>2. NoNewRisk
    BY <1>4, GotoNoRisk DEF CreateGuildAddOwner
  <2>3. \A u : ShutOut(u) => u \notin members'
    BY <1>4, <2>1, PendingIsAdding DEF CreateGuildAddOwner, ShutOut
  <2>4. UNCHANGED <<owner, bans>>
    BY <1>4 DEF CreateGuildAddOwner, ButMembers, authzVars
  <2>5. StickyStep
    BY <2>2, <2>3, <2>4, PendingIsAdding, PendingIsAddingNext DEF NoNewRisk, StickyStep, ShutOut
  <2>6. BanInv'
    BY <2>2, <2>4 DEF BanInv, NoNewRisk
  <2> QED BY <2>5, <2>6
<1>5. CASE TransferGuildOwnership(w)
  <2>1. owner' # NoUser
    BY <1>1, <1>5, NoUserAssumption DEF TransferGuildOwnership, At, RequestOK, TargetOps
  <2>2. NoNewRisk /\ UNCHANGED <<bans, members>>
    BY <1>5, ReturnNoRisk DEF TransferGuildOwnership, ButGuilds
  <2>3. StickyStep
    BY <2>2, PendingIsAdding, PendingIsAddingNext DEF NoNewRisk, StickyStep, ShutOut
  <2> QED BY <2>1, <2>3 DEF BanInv
<1> QED BY <1>2, <1>3, <1>4, <1>5 DEF CreateGuild

LEMMA JoinSteps ==
  ASSUME TypeInv, BanInv, NEW w \in Worker, JoinGuild(w)
  PROVE  BanInv' /\ StickyStep
<1>1. rpc \in [Worker -> Request]
  BY DEF TypeInv, RpcOK
<1>2. CASE JoinGetInvite(w)
  BY <1>2, ProceedNoRisk, HarmlessStep DEF JoinGetInvite, Read, store
<1>3. CASE JoinGetBan(w)
  <2>1. UNCHANGED <<owner, bans, members>>
    BY <1>3 DEF JoinGetBan, Read, store
  <2>2. ASSUME rpc[w].target \in bans PROVE NoNewRisk
    BY <1>3, <2>2, ReturnNoRisk DEF JoinGetBan, Proceed
  <2>3. CASE rpc[w].target \in bans
    BY <2>1, <2>2, <2>3, HarmlessStep
  <2>4. CASE rpc[w].target \notin bans
    <3>1. rpc' = [rpc EXCEPT ![w].pc = "GetGuildMember"] /\ rpc[w].op = "JoinGuild"
      BY <1>3, <2>4 DEF JoinGetBan, At, Proceed, Goto
    <3>2. \A v \in Worker : Adding(rpc'[v]) =>
                rpc'[v].target \notin bans \/ (Adding(rpc[v]) /\ rpc'[v].target = rpc[v].target)
      BY <1>1, <2>4, <3>1 DEF Request, Adding
    <3>3. \A v \in Worker : Banning(rpc'[v]) => Banning(rpc[v])
      BY <1>1, <3>1 DEF Request, Banning
    <3>4. StickyStep
      BY <2>1, <3>2, PendingIsAdding, PendingIsAddingNext DEF StickyStep, ShutOut
    <3>5. BanInv'
      BY <2>1, <3>3 DEF BanInv
    <3> QED BY <3>4, <3>5
  <2> QED BY <2>3, <2>4
<1>4. CASE JoinGetGuildMember(w)
  BY <1>4, ProceedNoRisk, HarmlessStep DEF JoinGetGuildMember, At, Adding, Read, store
<1>5. CASE JoinAddGuildMember(w)
  <2>1. Adding(rpc[w]) /\ NoNewRisk
    BY <1>5, GotoNoRisk DEF JoinAddGuildMember, At, Adding
  <2>2. \A u : ShutOut(u) => u \notin members'
    BY <1>5, <2>1, PendingIsAdding DEF JoinAddGuildMember, ShutOut
  <2>3. UNCHANGED <<owner, bans>>
    BY <1>5 DEF JoinAddGuildMember, ButMembers, authzVars
  <2>4. StickyStep
    BY <2>1, <2>2, <2>3, PendingIsAdding, PendingIsAddingNext DEF NoNewRisk, StickyStep, ShutOut
  <2>5. BanInv'
    BY <2>1, <2>3 DEF BanInv, NoNewRisk
  <2> QED BY <2>4, <2>5
<1>6. CASE JoinIncrementInviteUses(w) \/ JoinRecordInviteUse(w)
  BY <1>6, GotoNoRisk, HarmlessStep
  DEF JoinIncrementInviteUses, JoinRecordInviteUse, ButInvites, authzVars
<1>7. CASE JoinAssignEveryone(w)
  BY <1>7, GotoNoRisk, KeepRoleNoRisk, HarmlessStep DEF JoinAssignEveryone, Read, store
<1> QED BY <1>2, <1>3, <1>4, <1>5, <1>6, <1>7 DEF JoinGuild

LEMMA RemovalSteps ==
  ASSUME TypeInv, BanInv, NEW w \in Worker, Removal(w)
  PROVE  BanInv' /\ StickyStep
<1>1. rpc \in [Worker -> Request]
  BY DEF TypeInv, RpcOK
<1>2. CASE RemovalGetGuild(w)
  <2>1. UNCHANGED <<owner, bans, members>>
    BY <1>2 DEF RemovalGetGuild, Read, store
  <2>2. CASE owner = NoUser
    <3>1. NoNewRisk
      BY <1>2, <2>2, ReturnNoRisk DEF RemovalGetGuild, Proceed, GuildExists
    <3> QED BY <2>1, <3>1, HarmlessStep
  <2>3. CASE owner # NoUser
    <3>1. \A v \in Worker :
            Adding(rpc'[v]) => Adding(rpc[v]) /\ rpc'[v].target = rpc[v].target
      BY <1>1, <1>2 DEF RemovalGetGuild, Proceed, Goto, Return, Idle, Request, Adding
    <3>2. StickyStep
      BY <2>1, <3>1, PendingIsAdding, PendingIsAddingNext DEF StickyStep, ShutOut
    <3> QED BY <2>1, <2>3, <3>2 DEF BanInv
  <2> QED BY <2>2, <2>3
<1>3. CASE RemovalGetGuildMember(w)
  BY <1>3, ProceedNoRisk, HarmlessStep DEF RemovalGetGuildMember, Read, store
<1>4. CASE RemoveGuildMember(w)
  <2>1. NoNewRisk
    BY <1>4, GotoNoRisk DEF RemoveGuildMember, Banning
  <2> QED BY <1>4, <2>1, HarmlessStep DEF RemoveGuildMember, ButMembers, authzVars
<1>5. CASE CreateBan(w)
  <2>1. owner # NoUser
    BY <1>5 DEF CreateBan, At, Banning, BanInv
  <2>2. NoNewRisk
    BY <1>5, GotoNoRisk DEF CreateBan
  <2>3. UNCHANGED <<owner, members>> /\ bans \subseteq bans'
    BY <1>5 DEF CreateBan, ButBans, authzVars
  <2>4. StickyStep
    BY <2>2, <2>3, PendingIsAdding, PendingIsAddingNext DEF NoNewRisk, StickyStep, ShutOut
  <2> QED BY <2>1, <2>3, <2>4 DEF BanInv
<1>6. CASE UnbanGetBan(w)
  BY <1>6, ProceedNoRisk, HarmlessStep DEF UnbanGetBan, Read, store
<1>7. CASE DeleteBan(w)
  <2>1. NoNewRisk /\ UNCHANGED <<owner, members>> /\ bans' \subseteq bans
    BY <1>7, ReturnNoRisk DEF DeleteBan, ButBans, authzVars
  <2>2. StickyStep
    BY <2>1, PendingIsAdding, PendingIsAddingNext DEF NoNewRisk, StickyStep, ShutOut
  <2> QED BY <2>1, <2>2 DEF BanInv, NoNewRisk
<1> QED BY <1>2, <1>3, <1>4, <1>5, <1>6, <1>7 DEF Removal

\* A failing call bans nobody, and only a failing GetBan starts an addition.
LEMMA FaultStep ==
  ASSUME TypeInv, BanInv, NEW w \in Worker, CallFails(w)
  PROVE  BanInv' /\ StickyStep
<1> DEFINE pc == AfterError(rpc[w].op, rpc[w].pc)
<1>1. Proceed(w, pc # "idle", pc) /\ UNCHANGED <<owner, bans, members>> /\ faults' # faults
  BY DEF CallFails, store, authzVars, TypeInv, StoreOK
<1>2. CASE rpc[w].op = "JoinGuild" /\ rpc[w].pc = "GetBan"
  <2>1. Goto(w, "GetGuildMember")
    BY <1>1, <1>2 DEF Proceed, AfterError
  <2>2. rpc' = [rpc EXCEPT ![w].pc = "GetGuildMember"] /\ DOMAIN rpc = Worker
    BY <2>1 DEF Goto, TypeInv, RpcOK
  <2>3. \A v \in Worker : Banning(rpc'[v]) => Banning(rpc[v])
    BY <2>2 DEF Banning
  <2>4. \A v \in Worker : v # w => rpc'[v] = rpc[v]
    BY <2>2
  <2>5. rpc'[w].target = rpc[w].target
    BY <2>2 DEF TypeInv, RpcOK, Request
  <2>6. BanCheckFails(rpc[w].target)
    BY <1>1, <1>2 DEF BanCheckFails, At
  <2>7. StickyStep
    BY <1>1, <2>4, <2>5, <2>6, PendingIsAdding, PendingIsAddingNext DEF StickyStep, ShutOut
  <2> QED BY <1>1, <2>3, <2>7 DEF BanInv
<1>3. CASE ~(rpc[w].op = "JoinGuild" /\ rpc[w].pc = "GetBan")
  <2>1. pc = "GetGuildMember" => rpc[w].op # "JoinGuild"
    BY <1>3 DEF AfterError
  <2>2. pc = "AddGuildMember" => Adding(rpc[w])
    BY DEF AfterError, Adding
  <2>3. pc # "RemoveGuildMember" /\ (pc = "CreateBan" => Banning(rpc[w]))
    BY DEF AfterError, Banning
  <2>4. NoNewRisk
    BY <1>1, <2>1, <2>2, <2>3, ProceedNoRisk
  <2> QED BY <1>1, <2>4, HarmlessStep
<1> QED BY <1>2, <1>3

LEMMA BanStep ==
  ASSUME TypeInv, BanInv, [Next]_vars
  PROVE  BanInv' /\ StickyStep
<1>1. CASE UNCHANGED vars
  BY <1>1, HarmlessStep DEF vars, store, NoNewRisk
<1>2. CASE \E w \in Worker :
            \/ Call(w) \/ Gate(w) \/ Hierarchy(w) \/ Everyone(w) \/ Invites(w) \/ Roles(w)
            \/ NoFreeId(w)
  BY <1>2, HarmlessSteps
<1>3. CASE \E w \in Worker : CreateGuild(w)
  BY <1>3, OwnerSteps
<1>4. CASE \E w \in Worker : JoinGuild(w)
  BY <1>4, JoinSteps
<1>5. CASE \E w \in Worker : Removal(w)
  BY <1>5, RemovalSteps
<1>6. CASE \E w \in Worker : Ownership(w)
  BY <1>6, HarmlessSteps, OwnerSteps DEF Ownership
<1>7. CASE \E w \in Worker : CallFails(w)
  BY <1>7, FaultStep
<1>8. CASE \E c \in Code : InviteExpires(c)
  BY <1>8, HarmlessStep DEF InviteExpires, ButInvites, authzVars, NoNewRisk
<1> QED BY <1>1, <1>2, <1>3, <1>4, <1>5, <1>6, <1>7, <1>8 DEF Next, Step

\* A banned user who is out of the guild and has no join past the ban check stays
\* out until UnbanMember or until the ban check of a join of theirs fails, for any
\* number of concurrent joins, bans, unbans and ownership transfers and whichever
\* other store calls fail.
THEOREM BanHolds == Spec => BanIsSticky
<1>1. Init => BanInv
  BY DEF Init, Idle, BanInv, Banning
<1>2. TypeInv /\ BanInv /\ [Next]_vars => BanInv'
  BY BanStep
<1>3. TypeInv /\ BanInv /\ [Next]_vars =>
        [\A u \in User :
            ShutOut(u) => (ShutOut(u)' \/ (u \notin bans)' \/ BanCheckFails(u))]_vars
  BY BanStep DEF StickyStep
<1> QED BY <1>1, <1>2, <1>3, TypeInit, TypeStep, PTL DEF Spec, BanIsSticky

-----------------------------------------------------------------------------
(* Invites.  A join past GetInvite holds a claim on the code until it counts  *)
(* itself (or gives up): what bounds max_uses is the number of uses and of    *)
(* claims together, which InviteOvershoot alone does not say.                 *)

ClaimCalls == {"GetBan", "GetGuildMember", "AddGuildMember", "IncrementInviteUses"}

Claims(q, c) == q.op = "JoinGuild" /\ q.code = c /\ q.pc \in ClaimCalls

Claimants(c) == {w \in Worker : Claims(rpc[w], c)}

SeatsInv ==
    \A c \in Code : invites[c].max > 0 =>
        invites[c].uses + Cardinality(Claimants(c)) < invites[c].max + Cardinality(Worker)

NoNewClaim == \A v \in Worker, c \in Code : Claims(rpc'[v], c) => Claims(rpc[v], c)

LEMMA ClaimantsCounted ==
  ASSUME NEW c
  PROVE  /\ IsFiniteSet(Claimants(c))
         /\ Cardinality(Claimants(c)) \in Nat
         /\ Cardinality(Worker) \in Nat
         /\ Cardinality(Claimants(c)) <= Cardinality(Worker)
<1>1. Claimants(c) \subseteq Worker /\ IsFiniteSet(Worker)
  BY GuildConstants DEF Claimants
<1> QED BY <1>1, FS_Subset, FS_CardinalityType

LEMMA ClaimantsCountedNext ==
  ASSUME NEW c
  PROVE  /\ IsFiniteSet(Claimants(c)')
         /\ Cardinality(Claimants(c)') \in Nat
         /\ Cardinality(Claimants(c)') <= Cardinality(Worker)
<1>1. Claimants(c)' \subseteq Worker /\ IsFiniteSet(Worker)
  BY GuildConstants DEF Claimants
<1> QED BY <1>1, FS_Subset, FS_CardinalityType

LEMMA FewerClaimants ==
  ASSUME NoNewClaim, NEW c \in Code
  PROVE  Cardinality(Claimants(c)') <= Cardinality(Claimants(c))
<1>1. Claimants(c)' \subseteq Claimants(c)
  BY DEF NoNewClaim, Claimants
<1> QED BY <1>1, ClaimantsCounted, FS_Subset

\* A step that starts no claim and leaves every counter and limit alone.
LEMMA SeatsKept ==
  ASSUME TypeInv, SeatsInv, NoNewClaim,
         \A c \in Code : invites'[c].max = invites[c].max /\ invites'[c].uses = invites[c].uses
  PROVE  SeatsInv'
<1> SUFFICES ASSUME NEW c \in Code, invites'[c].max > 0
             PROVE  invites'[c].uses + Cardinality(Claimants(c)')
                        < invites'[c].max + Cardinality(Worker)
  BY DEF SeatsInv
<1>1. invites[c].uses \in Nat /\ invites[c].max \in Nat
  BY DEF TypeInv, StoreOK, InviteRow
<1> QED BY <1>1, ClaimantsCounted, ClaimantsCountedNext, FewerClaimants DEF SeatsInv

LEMMA ReturnNoClaim ==
  ASSUME TypeInv, NEW w \in Worker, Return(w)
  PROVE  NoNewClaim
  BY DEF TypeInv, RpcOK, Return, Idle, NoNewClaim, Claims

LEMMA GotoNoClaim ==
  ASSUME TypeInv, NEW w \in Worker, NEW pc, Goto(w, pc),
         rpc[w].op = "JoinGuild" /\ pc \in ClaimCalls => rpc[w].pc \in ClaimCalls
  PROVE  NoNewClaim
  BY DEF TypeInv, RpcOK, Request, Goto, NoNewClaim, Claims

LEMMA ProceedNoClaim ==
  ASSUME TypeInv, NEW w \in Worker, NEW pc, NEW ok, Proceed(w, ok, pc),
         rpc[w].op = "JoinGuild" /\ pc \in ClaimCalls => rpc[w].pc \in ClaimCalls
  PROVE  NoNewClaim
  BY GotoNoClaim, ReturnNoClaim DEF Proceed

LEMMA KeepRoleNoClaim ==
  ASSUME TypeInv, NEW w \in Worker, NEW r, NEW pc, KeepRole(w, r, pc), pc \notin ClaimCalls
  PROVE  NoNewClaim
  BY DEF TypeInv, RpcOK, Request, KeepRole, NoNewClaim, Claims

LEMMA CallNoClaim ==
  ASSUME TypeInv, NEW w \in Worker, Call(w)
  PROVE  NoNewClaim
<1>1. PICK op \in Ops, u \in User : \E q \in Inputs(op, u) : Arrives(w, q)
  BY DEF Call, Arrives
<1>2. PICK asked \in Inputs(op, u) : Arrives(w, asked)
  BY <1>1
<1> DEFINE q == rpc'[w]
<1>3. q.pc = Entry(op) /\ q.op = op /\ rpc' = [rpc EXCEPT ![w] = q]
  BY <1>2, ArrivesAs DEF TypeInv
<1> HIDE DEF q
<1>4. \A c : ~Claims(q, c)
  BY <1>3 DEF Entry, Claims, ClaimCalls
<1> QED BY <1>3, <1>4 DEF TypeInv, RpcOK, NoNewClaim

\* Every step but the three that touch a counter or start a claim.
LEMMA NoClaimSteps ==
  ASSUME TypeInv, NEW w \in Worker,
         \/ Call(w) \/ Gate(w) \/ Hierarchy(w) \/ CreateGuild(w) \/ Everyone(w)
         \/ Removal(w) \/ Roles(w) \/ Ownership(w) \/ CallFails(w) \/ NoFreeId(w)
         \/ JoinGetBan(w) \/ JoinGetGuildMember(w) \/ JoinAddGuildMember(w)
         \/ JoinRecordInviteUse(w) \/ JoinAssignEveryone(w) \/ InviteGetGuildMember(w)
  PROVE  NoNewClaim /\ UNCHANGED invites
<1>1. CASE Call(w)
  BY <1>1, CallNoClaim DEF Call, Read, store
<1>2. CASE Gate(w)
  <2>1. rpc[w].op = "JoinGuild" => AfterCheck(rpc[w].op) = "GetRoleByID"
    BY DEF AfterCheck
  <2> QED BY <1>2, <2>1, ProceedNoClaim DEF Gate, Read, store, ClaimCalls
<1>3. CASE Hierarchy(w)
  BY <1>3, ProceedNoClaim DEF Hierarchy, Read, store, ClaimCalls
<1>4. CASE CreateGuild(w)
  <2>1. CASE CreateGuildRow(w)
    BY <2>1, GotoNoClaim DEF CreateGuildRow, At, ButGuilds
  <2>2. CASE CreateOtherGuild(w)
    BY <2>2, ReturnNoClaim DEF CreateOtherGuild, Read, store
  <2>3. CASE CreateGuildAddOwner(w)
    BY <2>3, GotoNoClaim DEF CreateGuildAddOwner, At, ButMembers
  <2> QED BY <1>4, <2>1, <2>2, <2>3 DEF CreateGuild
<1>5. CASE Everyone(w)
  <2>1. CASE EnsureGet(w)
    BY <2>1, GotoNoClaim, KeepRoleNoClaim DEF EnsureGet, Read, store, ClaimCalls
  <2>2. CASE EnsureCreate(w)
    BY <2>2, KeepRoleNoClaim DEF EnsureCreate, ButRoles, ClaimCalls
  <2>3. CASE EnsureAssign(w)
    BY <2>3, ReturnNoClaim DEF EnsureAssign, ButRoleMembers
  <2>4. CASE DropGet(w)
    BY <2>4, ReturnNoClaim, KeepRoleNoClaim DEF DropGet, Read, store, ClaimCalls
  <2> QED BY <1>5, <2>1, <2>2, <2>3, <2>4 DEF Everyone
<1>6. CASE Removal(w)
  <2>1. CASE RemovalGetGuild(w)
    BY <2>1, ProceedNoClaim DEF RemovalGetGuild, Read, store
  <2>2. CASE RemovalGetGuildMember(w)
    BY <2>2, ProceedNoClaim DEF RemovalGetGuildMember, Read, store
  <2>3. CASE RemoveGuildMember(w)
    BY <2>3, GotoNoClaim DEF RemoveGuildMember, ButMembers, ClaimCalls
  <2>4. CASE CreateBan(w)
    BY <2>4, GotoNoClaim DEF CreateBan, At, ButBans
  <2>5. CASE UnbanGetBan(w)
    BY <2>5, ProceedNoClaim DEF UnbanGetBan, At, Read, store
  <2>6. CASE DeleteBan(w)
    BY <2>6, ReturnNoClaim DEF DeleteBan, ButBans
  <2> QED BY <1>6, <2>1, <2>2, <2>3, <2>4, <2>5, <2>6 DEF Removal
<1>7. CASE Roles(w)
  <2>1. CASE CreateRoleCount(w)
    BY <2>1 DEF TypeInv, RpcOK, Request, CreateRoleCount, At, NoNewClaim, Claims, Read, store
  <2>2. CASE CreateRoleRow(w) \/ UpdateRole(w) \/ DeleteRole(w)
    BY <2>2, ReturnNoClaim DEF CreateRoleRow, UpdateRole, DeleteRole, ButRoles
  <2>3. CASE UpdateMissingRole(w)
    BY <2>3, ReturnNoClaim DEF UpdateMissingRole, Read, store
  <2>4. CASE GetRoleByID(w)
    <3>1. AfterGetRole(rpc[w].op) \notin ClaimCalls
      BY DEF AfterGetRole, ClaimCalls
    <3> QED BY <2>4, <3>1, ProceedNoClaim DEF GetRoleByID, Read, store
  <2>5. CASE AssignGetGuildMember(w)
    BY <2>5, ProceedNoClaim DEF AssignGetGuildMember, At, Read, store
  <2>6. CASE AssignRole(w) \/ RemoveRole(w)
    BY <2>6, ProceedNoClaim DEF AssignRole, RemoveRole, ButRoleMembers, ClaimCalls
  <2>7. CASE CanGuildPermission(w)
    BY <2>7, ProceedNoClaim DEF CanGuildPermission, store, ClaimCalls
  <2>8. CASE GrantRolePermission(w) \/ RevokeRolePermission(w)
    BY <2>8, ReturnNoClaim DEF GrantRolePermission, RevokeRolePermission, ButRolePerms
  <2> QED BY <1>7, <2>1, <2>2, <2>3, <2>4, <2>5, <2>6, <2>7, <2>8 DEF Roles
<1>8. CASE Ownership(w)
  <2>1. CASE OwnerGetGuild(w)
    BY <2>1, ProceedNoClaim DEF OwnerGetGuild, Read, store
  <2>2. CASE TransferGetGuildMember(w)
    BY <2>2, ProceedNoClaim DEF TransferGetGuildMember, At, Read, store
  <2>3. CASE TransferGuildOwnership(w) \/ DeleteGuild(w)
    BY <2>3, ReturnNoClaim DEF TransferGuildOwnership, DeleteGuild, ButGuilds
  <2> QED BY <1>8, <2>1, <2>2, <2>3 DEF Ownership
<1>9. CASE CallFails(w)
  <2> DEFINE pc == AfterError(rpc[w].op, rpc[w].pc)
  <2>1. Proceed(w, pc # "idle", pc) /\ UNCHANGED invites
    BY <1>9 DEF CallFails, store
  <2>2. pc \in ClaimCalls => rpc[w].pc \in ClaimCalls
    BY DEF AfterError, ClaimCalls
  <2> QED BY <2>1, <2>2, ProceedNoClaim
<1>10. CASE NoFreeId(w)
  BY <1>10, ReturnNoClaim DEF NoFreeId, Read, store
<1>11. CASE JoinGetBan(w) \/ JoinGetGuildMember(w)
  BY <1>11, ProceedNoClaim DEF JoinGetBan, JoinGetGuildMember, At, Read, store, ClaimCalls
<1>12. CASE JoinAddGuildMember(w)
  BY <1>12, GotoNoClaim DEF JoinAddGuildMember, At, ButMembers, ClaimCalls
<1>13. CASE JoinRecordInviteUse(w)
  BY <1>13, GotoNoClaim DEF JoinRecordInviteUse, ButInvites, ClaimCalls
<1>14. CASE JoinAssignEveryone(w)
  BY <1>14, GotoNoClaim, KeepRoleNoClaim DEF JoinAssignEveryone, Read, store, ClaimCalls
<1>15. CASE InviteGetGuildMember(w)
  BY <1>15, ProceedNoClaim DEF InviteGetGuildMember, Read, store, ClaimCalls
<1> QED BY <1>1, <1>2, <1>3, <1>4, <1>5, <1>6, <1>7, <1>8, <1>9, <1>10, <1>11, <1>12,
           <1>13, <1>14, <1>15

\* The check of max_uses: a claim starts only while a use is left.
LEMMA JoinGetInviteSeats ==
  ASSUME TypeInv, SeatsInv, NEW w \in Worker, JoinGetInvite(w)
  PROVE  SeatsInv'
<1>1. UNCHANGED invites
  BY DEF JoinGetInvite, Read, store
<1>2. CASE ~InviteUsable(invites[rpc[w].code])
  <2>1. NoNewClaim
    BY <1>2, ReturnNoClaim DEF JoinGetInvite, Proceed
  <2> QED BY <1>1, <2>1, SeatsKept
<1>3. CASE InviteUsable(invites[rpc[w].code])
  <2>1. rpc' = [rpc EXCEPT ![w].pc = "GetBan"]
    BY <1>3 DEF JoinGetInvite, Proceed, Goto
  <2> SUFFICES ASSUME NEW c \in Code, invites[c].max > 0
               PROVE  invites[c].uses + Cardinality(Claimants(c)')
                          < invites[c].max + Cardinality(Worker)
    BY <1>1 DEF SeatsInv
  <2>2. invites[c].uses \in Nat /\ invites[c].max \in Nat
    BY DEF TypeInv, StoreOK, InviteRow
  <2>3. CASE c = rpc[w].code
    <3>1. invites[c].uses < invites[c].max
      BY <1>3, <2>3 DEF InviteUsable
    <3>2. /\ Cardinality(Claimants(c)') \in Nat /\ Cardinality(Worker) \in Nat
          /\ Cardinality(Claimants(c)') <= Cardinality(Worker)
      BY ClaimantsCounted, ClaimantsCountedNext
    <3> QED BY <2>2, <3>1, <3>2
  <2>4. CASE c # rpc[w].code
    <3>1. Claimants(c)' \subseteq Claimants(c)
      BY <2>1, <2>4 DEF Claimants, Claims, TypeInv, RpcOK, Request
    <3>2. Cardinality(Claimants(c)') <= Cardinality(Claimants(c))
      BY <3>1, ClaimantsCounted, FS_Subset
    <3> QED BY <2>2, <3>2, ClaimantsCounted, ClaimantsCountedNext DEF SeatsInv
  <2> QED BY <2>3, <2>4
<1> QED BY <1>2, <1>3

\* The join that counts itself gives up its claim in the same step.
LEMMA IncrementSeats ==
  ASSUME TypeInv, SeatsInv, NEW w \in Worker, JoinIncrementInviteUses(w)
  PROVE  SeatsInv'
<1>1. /\ rpc \in [Worker -> Request] /\ rpc[w].code \in Code
      /\ invites \in [Code -> InviteRow]
  BY DEF TypeInv, RpcOK, RequestOK, StoreOK, JoinIncrementInviteUses, At
<1>2. rpc' = [rpc EXCEPT ![w].pc = "RecordInviteUse"]
  BY DEF JoinIncrementInviteUses, Goto
<1>3. invites' = [invites EXCEPT ![rpc[w].code].uses = @ + 1]
  BY DEF JoinIncrementInviteUses
<1>4. NoNewClaim
  BY GotoNoClaim DEF JoinIncrementInviteUses, ClaimCalls
<1> SUFFICES ASSUME NEW c \in Code, invites'[c].max > 0
             PROVE  invites'[c].uses + Cardinality(Claimants(c)')
                        < invites'[c].max + Cardinality(Worker)
  BY DEF SeatsInv
<1>5. invites[c].uses \in Nat /\ invites[c].max \in Nat /\ invites'[c].max = invites[c].max
  BY <1>1, <1>3 DEF InviteRow
<1>6. CASE c = rpc[w].code
  <2>1. invites'[c].uses = invites[c].uses + 1
    BY <1>1, <1>3, <1>6 DEF InviteRow
  <2>2. w \in Claimants(c)
    BY <1>6 DEF JoinIncrementInviteUses, At, Claimants, Claims, ClaimCalls
  <2>3. Claimants(c)' \subseteq Claimants(c) \ {w}
    BY <1>1, <1>2, <1>4 DEF NoNewClaim, Claimants, Claims, ClaimCalls, Request
  <2>4. /\ IsFiniteSet(Claimants(c) \ {w})
        /\ Cardinality(Claimants(c) \ {w}) = Cardinality(Claimants(c)) - 1
    BY <2>2, ClaimantsCounted, FS_RemoveElement
  <2>5. Cardinality(Claimants(c)') <= Cardinality(Claimants(c)) - 1
    BY <2>3, <2>4, FS_Subset
  <2> QED BY <1>5, <2>1, <2>5, ClaimantsCounted, ClaimantsCountedNext DEF SeatsInv
<1>7. CASE c # rpc[w].code
  <2>1. invites'[c].uses = invites[c].uses
    BY <1>1, <1>3, <1>7
  <2> QED BY <1>4, <1>5, <2>1, FewerClaimants, ClaimantsCounted, ClaimantsCountedNext
          DEF SeatsInv
<1> QED BY <1>6, <1>7

\* A new row starts at zero uses; there are at most as many claims as workers.
LEMMA CreateInviteSeats ==
  ASSUME TypeInv, SeatsInv, NEW w \in Worker, CreateInviteRow(w)
  PROVE  SeatsInv'
<1>1. invites \in [Code -> InviteRow]
  BY DEF TypeInv, StoreOK
<1>2. PICK d \in Code, m \in MaxUsesChoices :
        invites' = [invites EXCEPT ![d] = [state |-> "live", max |-> m, uses |-> 0]]
  BY DEF CreateInviteRow
<1>3. NoNewClaim
  BY ReturnNoClaim DEF CreateInviteRow
<1> SUFFICES ASSUME NEW c \in Code, invites'[c].max > 0
             PROVE  invites'[c].uses + Cardinality(Claimants(c)')
                        < invites'[c].max + Cardinality(Worker)
  BY DEF SeatsInv
<1>4. CASE c = d
  <2>1. invites'[c].max = m /\ m \in Nat /\ invites'[c].uses = 0
    BY <1>1, <1>2, <1>4, GuildConstants
  <2> QED BY <2>1, ClaimantsCounted, ClaimantsCountedNext
<1>5. CASE c # d
  <2>1. invites'[c] = invites[c] /\ invites[c].uses \in Nat /\ invites[c].max \in Nat
    BY <1>1, <1>2, <1>5 DEF InviteRow
  <2> QED BY <1>3, <2>1, FewerClaimants, ClaimantsCounted, ClaimantsCountedNext DEF SeatsInv
<1> QED BY <1>4, <1>5

LEMMA SeatsStep ==
  ASSUME TypeInv, SeatsInv, [Next]_vars
  PROVE  SeatsInv'
<1>1. CASE UNCHANGED vars
  BY <1>1 DEF vars, store, SeatsInv, Claimants
<1>2. CASE \E w \in Worker :
            \/ Call(w) \/ Gate(w) \/ Hierarchy(w) \/ CreateGuild(w) \/ Everyone(w)
            \/ Removal(w) \/ Roles(w) \/ Ownership(w) \/ CallFails(w) \/ NoFreeId(w)
  BY <1>2, NoClaimSteps, SeatsKept
<1>3. CASE \E w \in Worker : JoinGuild(w)
  BY <1>3, NoClaimSteps, SeatsKept, JoinGetInviteSeats, IncrementSeats DEF JoinGuild
<1>4. CASE \E w \in Worker : Invites(w)
  BY <1>4, NoClaimSteps, SeatsKept, CreateInviteSeats DEF Invites
<1>5. CASE \E c \in Code : InviteExpires(c)
  <2>1. NoNewClaim
    BY <1>5 DEF InviteExpires, NoNewClaim
  <2>2. \A c \in Code : invites'[c].max = invites[c].max /\ invites'[c].uses = invites[c].uses
    BY <1>5 DEF InviteExpires, TypeInv, StoreOK, InviteRow
  <2> QED BY <2>1, <2>2, SeatsKept
<1> QED BY <1>1, <1>2, <1>3, <1>4, <1>5 DEF Next, Step

\* An invite's max_uses is overshot by less than the number of joins that run at
\* the same moment, for any number of codes, limits, workers and failing calls.
THEOREM OvershootIsBounded == Spec => []InviteOvershoot
<1>1. Init => SeatsInv
  <2> SUFFICES ASSUME Init PROVE \A c \in Code : invites[c].max = 0
    BY DEF SeatsInv
  <2> QED BY DEF Init
<1>2. TypeInv /\ SeatsInv => InviteOvershoot
  <2> SUFFICES ASSUME TypeInv, SeatsInv, NEW c \in Code, invites[c].max > 0
               PROVE  invites[c].uses < invites[c].max + Cardinality(Worker)
    BY DEF InviteOvershoot
  <2>1. invites[c].uses \in Nat /\ invites[c].max \in Nat
    BY DEF TypeInv, StoreOK, InviteRow
  <2> QED BY <2>1, ClaimantsCounted DEF SeatsInv
<1> QED BY <1>1, <1>2, SeatsStep, TypeInit, TypeStep, PTL DEF Spec

-----------------------------------------------------------------------------
(* RPCs one at a time.  OwnerStaysMember needs what the removal and the       *)
(* transfer in flight have already checked, which stays true only because     *)
(* nothing else runs.                                                         *)

SerialInv == serial => OneAtATime

RemovalCalls(q) ==
    \/ q.op \in {"LeaveGuild", "KickMember"} /\ q.pc = "GetGuildMember"
    \/ q.pc = "RemoveGuildMember"

Handover(q) == q.op = "TransferOwnership" /\ q.pc = "TransferGuildOwnership"

OwnerSafe(q) == (RemovalCalls(q) => q.target # owner) /\ (Handover(q) => q.target \in members)

OwnerInv == serial => \A w \in Worker : OwnerSafe(rpc[w])

LEMMA SerialStep == SerialInv /\ [Next]_vars => SerialInv'
<1> SUFFICES ASSUME SerialInv, [Next]_vars PROVE SerialInv'
  OBVIOUS
<1>1. CASE UNCHANGED vars
  BY <1>1 DEF vars, SerialInv, OneAtATime, Running
<1>2. CASE Next
  BY <1>2 DEF Next, Recorded, SerialInv
<1> QED BY <1>1, <1>2

LEMMA SerialInit == Init => SerialInv
  BY DEF Init, Idle, SerialInv, OneAtATime, Running

LEMMA OnlyTheActor ==
  ASSUME TypeInv, NEW w \in Worker, Step(w), NEW v \in Worker, v # w
  PROVE  rpc'[v] = rpc[v]
<1> USE DEF TypeInv, RpcOK, Goto, Return, Proceed, KeepRole
<1>1. CASE Call(w) \/ Gate(w) \/ Hierarchy(w) \/ CallFails(w) \/ NoFreeId(w)
  BY <1>1 DEF Call, Gate, Hierarchy, CallFails, NoFreeId
<1>2. CASE CreateGuild(w) \/ Everyone(w)
  BY <1>2 DEF CreateGuild, CreateGuildRow, CreateOtherGuild, CreateGuildAddOwner,
              Everyone, EnsureGet, EnsureCreate, EnsureAssign, DropGet
<1>3. CASE JoinGuild(w) \/ Invites(w)
  BY <1>3 DEF JoinGuild, JoinGetInvite, JoinGetBan, JoinGetGuildMember, JoinAddGuildMember,
              JoinIncrementInviteUses, JoinRecordInviteUse, JoinAssignEveryone,
              Invites, InviteGetGuildMember, CreateInviteRow
<1>4. CASE Removal(w) \/ Ownership(w)
  BY <1>4 DEF Removal, RemovalGetGuild, RemovalGetGuildMember, RemoveGuildMember, CreateBan,
              UnbanGetBan, DeleteBan, Ownership, OwnerGetGuild, TransferGetGuildMember,
              TransferGuildOwnership, DeleteGuild
<1>5. CASE Roles(w)
  BY <1>5 DEF Roles, CreateRoleCount, CreateRoleRow, UpdateRole, UpdateMissingRole,
              GetRoleByID, DeleteRole, AssignGetGuildMember, AssignRole, RemoveRole,
              CanGuildPermission, GrantRolePermission, RevokeRolePermission
<1> QED BY <1>1, <1>2, <1>3, <1>4, <1>5 DEF Step

LEMMA ActorRuns ==
  ASSUME NEW w \in Worker, Step(w), ~Call(w)
  PROVE  rpc[w].pc # "idle"
<1>1. CASE Gate(w) \/ Hierarchy(w) \/ CallFails(w) \/ NoFreeId(w)
  BY <1>1 DEF Gate, Hierarchy, CallFails, NoFreeId
<1>2. CASE CreateGuild(w) \/ Everyone(w)
  BY <1>2 DEF At, CreateGuild, CreateGuildRow, CreateOtherGuild, CreateGuildAddOwner,
              Everyone, EnsureGet, EnsureCreate, EnsureAssign, DropGet
<1>3. CASE JoinGuild(w) \/ Invites(w)
  BY <1>3 DEF At, JoinGuild, JoinGetInvite, JoinGetBan, JoinGetGuildMember,
              JoinAddGuildMember, JoinIncrementInviteUses, JoinRecordInviteUse,
              JoinAssignEveryone, Invites, InviteGetGuildMember, CreateInviteRow
<1>4. CASE Removal(w) \/ Ownership(w)
  BY <1>4 DEF At, Removal, RemovalGetGuild, RemovalGetGuildMember, RemoveGuildMember,
              CreateBan, UnbanGetBan, DeleteBan, Ownership, OwnerGetGuild,
              TransferGetGuildMember, TransferGuildOwnership, DeleteGuild
<1>5. CASE Roles(w)
  BY <1>5 DEF At, Roles, CreateRoleCount, CreateRoleRow, UpdateRole, UpdateMissingRole,
              GetRoleByID, DeleteRole, AssignGetGuildMember, AssignRole, RemoveRole,
              CanGuildPermission, GrantRolePermission, RevokeRolePermission
<1> QED BY <1>1, <1>2, <1>3, <1>4, <1>5 DEF Step

\* The request a Call brings.
LEMMA CallBrings ==
  ASSUME TypeInv, NEW w \in Worker, Call(w)
  PROVE  \E op \in GuildOps : rpc'[w].op = op /\ rpc'[w].pc = Entry(op)
<1>1. PICK op \in Ops, u \in User : \E q \in Inputs(op, u) : Arrives(w, q)
  BY DEF Call, Arrives
<1>2. PICK asked \in Inputs(op, u) : Arrives(w, asked)
  BY <1>1
<1> DEFINE q == rpc'[w]
<1>3. q.pc = Entry(op) /\ q.op = op /\ rpc' = [rpc EXCEPT ![w] = q]
  BY <1>2, ArrivesAs DEF TypeInv
<1> HIDE DEF q
<1>4. rpc'[w] = q /\ op \in GuildOps
  BY GuildConstants DEF q
<1> QED BY <1>3, <1>4

\* In a serial behaviour the worker that takes a step is the only one that runs.
LEMMA Alone ==
  ASSUME TypeInv, OneAtATime, OneAtATime', NEW w \in Worker, Step(w)
  PROVE  /\ \A v \in Worker : v # w => rpc[v].pc = "idle" /\ rpc'[v].pc = "idle"
         /\ ~CallFails(w)
<1>1. ~CallFails(w)
  BY DEF CallFails, OneAtATime, TypeInv, StoreOK
<1>2. ASSUME NEW v \in Worker, v # w PROVE rpc[v].pc = "idle" /\ rpc'[v].pc = "idle"
  <2>1. rpc'[v] = rpc[v]
    BY <1>2, OnlyTheActor
  <2>2. CASE Call(w)
    <3>1. rpc'[w].pc # "idle"
      BY <2>2, CallBrings DEF Entry
    <3> QED BY <1>2, <2>1, <3>1 DEF OneAtATime, Running
  <2>3. CASE ~Call(w)
    BY <1>2, <2>1, <2>3, ActorRuns DEF OneAtATime, Running
  <2> QED BY <2>2, <2>3
<1> QED BY <1>1, <1>2

Harmless(q) == ~RemovalCalls(q) /\ ~Handover(q)

OwnerStep(w) ==
    OwnerSafe(rpc[w])' /\ (owner \in members => owner' \in members')

\* A step that neither goes to a removal or a transfer nor takes anybody out.
LEMMA OwnerKept ==
  ASSUME NEW w \in Worker, Harmless(rpc'[w]), owner' = owner, members \subseteq members'
  PROVE  OwnerStep(w)
  BY DEF Harmless, OwnerStep, OwnerSafe

LEMMA ReturnHarmless ==
  ASSUME TypeInv, NEW w \in Worker, Return(w)
  PROVE  Harmless(rpc'[w])
  BY DEF TypeInv, RpcOK, Return, Idle, Harmless, RemovalCalls, Handover

LEMMA GotoHarmless ==
  ASSUME TypeInv, NEW w \in Worker, NEW pc, Goto(w, pc),
         pc \notin {"RemoveGuildMember", "TransferGuildOwnership"},
         pc = "GetGuildMember" => rpc[w].op \notin {"LeaveGuild", "KickMember"}
  PROVE  Harmless(rpc'[w])
  BY DEF TypeInv, RpcOK, Request, Goto, Harmless, RemovalCalls, Handover

LEMMA ProceedHarmless ==
  ASSUME TypeInv, NEW w \in Worker, NEW pc, NEW ok, Proceed(w, ok, pc),
         pc \notin {"RemoveGuildMember", "TransferGuildOwnership"},
         pc = "GetGuildMember" => rpc[w].op \notin {"LeaveGuild", "KickMember"}
  PROVE  Harmless(rpc'[w])
  BY GotoHarmless, ReturnHarmless DEF Proceed

LEMMA KeepRoleHarmless ==
  ASSUME TypeInv, NEW w \in Worker, NEW r, NEW pc, KeepRole(w, r, pc),
         pc \notin {"RemoveGuildMember", "TransferGuildOwnership", "GetGuildMember"}
  PROVE  Harmless(rpc'[w])
  BY DEF TypeInv, RpcOK, Request, KeepRole, Harmless, RemovalCalls, Handover

\* The steps that touch neither the owner nor a membership.
LEMMA OwnerUntouched ==
  ASSUME TypeInv, NEW w \in Worker,
         \/ Call(w) \/ Gate(w) \/ Hierarchy(w) \/ Everyone(w) \/ Invites(w) \/ Roles(w)
         \/ NoFreeId(w) \/ OwnerGetGuild(w) \/ DeleteGuild(w)
         \/ CreateBan(w) \/ UnbanGetBan(w) \/ DeleteBan(w)
         \/ JoinGetInvite(w) \/ JoinGetBan(w) \/ JoinGetGuildMember(w)
         \/ JoinIncrementInviteUses(w) \/ JoinRecordInviteUse(w) \/ JoinAssignEveryone(w)
         \/ CreateOtherGuild(w)
  PROVE  Harmless(rpc'[w]) /\ UNCHANGED <<owner, members>>
<1>1. CASE Call(w)
  <2>1. Harmless(rpc'[w])
    BY <1>1, CallBrings DEF Entry, Harmless, RemovalCalls, Handover
  <2> QED BY <1>1, <2>1 DEF Call, Read, store
<1>2. CASE Gate(w)
  <2>1. /\ AfterCheck(rpc[w].op) \notin {"RemoveGuildMember", "TransferGuildOwnership"}
        /\ AfterCheck(rpc[w].op) = "GetGuildMember" => rpc[w].op = "AssignRole"
    BY DEF AfterCheck
  <2> QED BY <1>2, <2>1, ProceedHarmless DEF Gate, Read, store
<1>3. CASE Hierarchy(w)
  BY <1>3, ProceedHarmless DEF Hierarchy, Read, store
<1>4. CASE Everyone(w)
  <2>1. CASE EnsureGet(w)
    BY <2>1, GotoHarmless, KeepRoleHarmless DEF EnsureGet, Read, store
  <2>2. CASE EnsureCreate(w)
    BY <2>2, KeepRoleHarmless DEF EnsureCreate, ButRoles
  <2>3. CASE EnsureAssign(w)
    BY <2>3, ReturnHarmless DEF EnsureAssign, ButRoleMembers
  <2>4. CASE DropGet(w)
    BY <2>4, ReturnHarmless, KeepRoleHarmless DEF DropGet, Read, store
  <2> QED BY <1>4, <2>1, <2>2, <2>3, <2>4 DEF Everyone
<1>5. CASE Invites(w)
  <2>1. CASE InviteGetGuildMember(w)
    BY <2>1, ProceedHarmless DEF InviteGetGuildMember, Read, store
  <2>2. CASE CreateInviteRow(w)
    BY <2>2, ReturnHarmless DEF CreateInviteRow, ButInvites, authzVars
  <2> QED BY <1>5, <2>1, <2>2 DEF Invites
<1>6. CASE Roles(w)
  <2>1. CASE CreateRoleCount(w)
    BY <2>1 DEF TypeInv, RpcOK, Request, CreateRoleCount, Harmless, RemovalCalls, Handover,
                Read, store
  <2>2. CASE CreateRoleRow(w) \/ UpdateRole(w) \/ DeleteRole(w)
    BY <2>2, ReturnHarmless DEF CreateRoleRow, UpdateRole, DeleteRole, ButRoles
  <2>3. CASE UpdateMissingRole(w)
    BY <2>3, ReturnHarmless DEF UpdateMissingRole, Read, store
  <2>4. CASE GetRoleByID(w)
    <3>1. AfterGetRole(rpc[w].op) \notin
              {"RemoveGuildMember", "TransferGuildOwnership", "GetGuildMember"}
      BY DEF AfterGetRole
    <3> QED BY <2>4, <3>1, ProceedHarmless DEF GetRoleByID, Read, store
  <2>5. CASE AssignGetGuildMember(w)
    BY <2>5, ProceedHarmless DEF AssignGetGuildMember, Read, store
  <2>6. CASE AssignRole(w) \/ RemoveRole(w)
    BY <2>6, ProceedHarmless DEF AssignRole, RemoveRole, ButRoleMembers
  <2>7. CASE CanGuildPermission(w)
    BY <2>7, ProceedHarmless DEF CanGuildPermission, store
  <2>8. CASE GrantRolePermission(w) \/ RevokeRolePermission(w)
    BY <2>8, ReturnHarmless DEF GrantRolePermission, RevokeRolePermission, ButRolePerms
  <2> QED BY <1>6, <2>1, <2>2, <2>3, <2>4, <2>5, <2>6, <2>7, <2>8 DEF Roles
<1>7. CASE NoFreeId(w)
  BY <1>7, ReturnHarmless DEF NoFreeId, Read, store
<1>8. CASE OwnerGetGuild(w)
  BY <1>8, ProceedHarmless DEF OwnerGetGuild, Read, store
<1>9. CASE DeleteGuild(w)
  BY <1>9, ReturnHarmless DEF DeleteGuild, ButGuilds
<1>10. CASE CreateBan(w)
  BY <1>10, GotoHarmless DEF CreateBan, ButBans, authzVars
<1>11. CASE UnbanGetBan(w) \/ DeleteBan(w)
  BY <1>11, ProceedHarmless, ReturnHarmless
  DEF UnbanGetBan, DeleteBan, Read, store, ButBans, authzVars
<1>12. CASE JoinGetInvite(w) \/ JoinGetBan(w) \/ JoinGetGuildMember(w)
  BY <1>12, ProceedHarmless DEF JoinGetInvite, JoinGetBan, JoinGetGuildMember, At, Read, store
<1>13. CASE JoinIncrementInviteUses(w) \/ JoinRecordInviteUse(w)
  BY <1>13, GotoHarmless DEF JoinIncrementInviteUses, JoinRecordInviteUse, ButInvites, authzVars
<1>14. CASE JoinAssignEveryone(w)
  BY <1>14, GotoHarmless, KeepRoleHarmless DEF JoinAssignEveryone, Read, store
<1>15. CASE CreateOtherGuild(w)
  BY <1>15, ReturnHarmless DEF CreateOtherGuild, Read, store
<1> QED BY <1>1, <1>2, <1>3, <1>4, <1>5, <1>6, <1>7, <1>8, <1>9, <1>10, <1>11, <1>12,
           <1>13, <1>14, <1>15

LEMMA OwnerSafeStep ==
  ASSUME TypeInv, NEW w \in Worker, OwnerSafe(rpc[w]), Step(w), ~CallFails(w)
  PROVE  OwnerStep(w)
<1>1. rpc \in [Worker -> Request] /\ RequestOK(rpc[w])
  BY DEF TypeInv, RpcOK
<1>2. CASE CreateGuildRow(w)
  <2>1. owner \notin members
    BY <1>2, NoUserAssumption DEF CreateGuildRow, TypeInv, StoreOK
  <2>2. Harmless(rpc'[w])
    BY <1>2, GotoHarmless DEF CreateGuildRow
  <2> QED BY <2>1, <2>2 DEF OwnerStep, OwnerSafe, Harmless
<1>3. CASE CreateGuildAddOwner(w) \/ JoinAddGuildMember(w)
  BY <1>3, GotoHarmless, OwnerKept DEF CreateGuildAddOwner, JoinAddGuildMember, ButMembers,
     authzVars
<1>4. CASE RemovalGetGuild(w)
  <2>1. UNCHANGED <<owner, members>>
    BY <1>4 DEF RemovalGetGuild, Read, store
  <2>2. CASE ~(GuildExists /\ owner # rpc[w].target)
    BY <1>4, <2>1, <2>2, ReturnHarmless, OwnerKept DEF RemovalGetGuild, Proceed
  <2>3. CASE GuildExists /\ owner # rpc[w].target
    <3>1. rpc'[w].target # owner /\ ~Handover(rpc'[w])
      BY <1>1, <1>4, <2>3 DEF RemovalGetGuild, Proceed, Goto, Request, Handover
    <3> QED BY <2>1, <3>1 DEF OwnerStep, OwnerSafe
  <2> QED BY <2>2, <2>3
<1>5. CASE RemovalGetGuildMember(w)
  <2>1. UNCHANGED <<owner, members>>
    BY <1>5 DEF RemovalGetGuildMember, Read, store
  <2>2. rpc[w].target # owner
    BY <1>5 DEF RemovalGetGuildMember, OwnerSafe, RemovalCalls
  <2>3. CASE rpc[w].target \notin members
    BY <1>5, <2>1, <2>3, ReturnHarmless, OwnerKept DEF RemovalGetGuildMember, Proceed
  <2>4. CASE rpc[w].target \in members
    <3>1. rpc'[w].target # owner /\ ~Handover(rpc'[w])
      BY <1>1, <1>5, <2>2, <2>4 DEF RemovalGetGuildMember, Proceed, Goto, Request, Handover
    <3> QED BY <2>1, <3>1 DEF OwnerStep, OwnerSafe
  <2> QED BY <2>3, <2>4
<1>6. CASE RemoveGuildMember(w)
  <2>1. rpc[w].target # owner
    BY <1>6 DEF RemoveGuildMember, OwnerSafe, RemovalCalls
  <2>2. Harmless(rpc'[w]) /\ owner' = owner
    BY <1>6, GotoHarmless DEF RemoveGuildMember, ButMembers, authzVars
  <2>3. owner \in members => owner' \in members'
    BY <1>6, <2>1, <2>2 DEF RemoveGuildMember
  <2> QED BY <2>2, <2>3 DEF OwnerStep, OwnerSafe, Harmless
<1>7. CASE TransferGetGuildMember(w)
  <2>1. UNCHANGED <<owner, members>>
    BY <1>7 DEF TransferGetGuildMember, Read, store
  <2>2. CASE rpc[w].target \notin members
    BY <1>7, <2>1, <2>2, ReturnHarmless, OwnerKept DEF TransferGetGuildMember, Proceed
  <2>3. CASE rpc[w].target \in members
    <3>1. rpc'[w].target \in members /\ ~RemovalCalls(rpc'[w])
      BY <1>1, <1>7, <2>3 DEF TransferGetGuildMember, At, Proceed, Goto, Request, RemovalCalls
    <3> QED BY <2>1, <3>1 DEF OwnerStep, OwnerSafe
  <2> QED BY <2>2, <2>3
<1>8. CASE TransferGuildOwnership(w)
  <2>1. rpc[w].target \in members
    BY <1>8 DEF TransferGuildOwnership, At, OwnerSafe, Handover
  <2>2. Harmless(rpc'[w]) /\ members' = members /\ owner' = rpc[w].target
    BY <1>8, ReturnHarmless DEF TransferGuildOwnership, ButGuilds
  <2> QED BY <2>1, <2>2 DEF OwnerStep, OwnerSafe, Harmless
<1> QED BY <1>2, <1>3, <1>4, <1>5, <1>6, <1>7, <1>8, OwnerUntouched, OwnerKept
        DEF Step, CreateGuild, JoinGuild, Removal, Ownership

LEMMA OwnerInvStep ==
  ASSUME TypeInv, SerialInv, OwnerInv, [Next]_vars
  PROVE  OwnerInv' /\ (serial' /\ owner \in members => owner' \in members')
<1>1. CASE UNCHANGED vars
  BY <1>1 DEF vars, store, OwnerInv, OwnerSafe
<1>2. CASE Next /\ ~serial'
  BY <1>2 DEF OwnerInv
<1>3. CASE Next /\ serial'
  <2>1. serial /\ OneAtATime /\ OneAtATime'
    BY <1>3 DEF Next, Recorded, SerialInv
  <2>2. CASE \E c \in Code : InviteExpires(c)
    BY <2>1, <2>2 DEF InviteExpires, ButInvites, authzVars, OwnerInv, OwnerSafe
  <2>3. ASSUME NEW w \in Worker, Step(w)
        PROVE  OwnerInv' /\ (serial' /\ owner \in members => owner' \in members')
    <3>1. OwnerStep(w)
      BY <2>1, <2>3, Alone, OwnerSafeStep DEF OwnerInv
    <3>2. \A v \in Worker : v # w => OwnerSafe(rpc[v])'
      BY <2>1, <2>3, Alone DEF OwnerSafe, RemovalCalls, Handover
    <3> QED BY <3>1, <3>2 DEF OwnerInv, OwnerStep
  <2> QED BY <1>3, <2>2, <2>3 DEF Next
<1> QED BY <1>1, <1>2, <1>3

\* As long as RPCs do not overlap and no call fails, an owner who is a member stays
\* one: LeaveGuild, KickMember and BanMember spare the owner, and TransferOwnership
\* hands the guild to a member only.
THEOREM OwnerIsMember == Spec => OwnerStaysMember
<1>1. Init => OwnerInv
  BY DEF Init, Idle, OwnerInv, OwnerSafe, RemovalCalls, Handover
<1>2. TypeInv /\ SerialInv /\ OwnerInv /\ [Next]_vars => OwnerInv'
  BY OwnerInvStep
<1>3. TypeInv /\ SerialInv /\ OwnerInv /\ [Next]_vars =>
        [serial' /\ owner \in members => owner' \in members']_vars
  BY OwnerInvStep
<1> QED BY <1>1, <1>2, <1>3, TypeInit, TypeStep, SerialInit, SerialStep, PTL
        DEF Spec, OwnerStaysMember

-----------------------------------------------------------------------------
(* @everyone.  Between two RPCs either there is no guild yet (Fresh) or       *)
(* @everyone is the membership (Settled); inside one the two differ by the    *)
(* target of the RPC, until its last store call.                              *)

Unmade == roleMembers = {} /\ \A r \in Role : roles[r].state = "none"

Fresh == members = {} /\ Unmade /\ \A c \in Code : invites[c].state = "none"

Settled(r) == EveryoneRoles = {r} /\ \A u \in User : u \in members <=> <<r, u>> \in roleMembers

Quiet == IF owner = NoUser THEN Fresh ELSE \E r \in Role : Settled(r)

\* The target is a member already and may still lack r.
Joined(r, t) ==
    /\ EveryoneRoles = {r}
    /\ \A u \in User : u \in members <=> (<<r, u>> \in roleMembers \/ u = t)

\* The target is no member any more and may still hold r.
Left(r, t) ==
    /\ EveryoneRoles = {r}
    /\ \A u \in User : u \in members <=> (<<r, u>> \in roleMembers /\ u # t)

Removes == {"LeaveGuild", "KickMember", "BanMember"}

Before(q) ==
    \/ q.pc = "idle"
    \/ q.op = "CreateGuild" /\ q.pc = "CreateGuild"
    \/ q.op = "JoinGuild" /\ q.pc = "GetInvite"
    \/ q.op \in Removes \cup {"TransferOwnership", "DeleteGuild"} /\ q.pc = "GetGuildByID"
    \/ q.op \in {"KickMember", "BanMember"} /\ q.pc \in {"Check", "CanActOn"}
    \/ q.op = "UnbanMember" /\ q.pc \in {"Check", "GetBan", "DeleteBan"}
    \/ q.op = "CreateInvite" /\ q.pc = "GetGuildMember"

Within(q) ==
    \/ q.op = "JoinGuild" /\ q.pc \in {"GetBan", "GetGuildMember", "AddGuildMember"}
    \/ q.op \in {"LeaveGuild", "KickMember"} /\ q.pc = "GetGuildMember"
    \/ q.op \in Removes /\ q.pc = "RemoveGuildMember"
    \/ q.op = "CreateInvite" /\ q.pc \in {"Check", "CreateInvite"}
    \/ q.op = "TransferOwnership" /\ q.pc \in {"GetGuildMember", "TransferGuildOwnership"}
    \/ q.op = "DeleteGuild" /\ q.pc = "DeleteGuild"

Joining(q) ==
    q.op = "JoinGuild" /\ q.pc \in {"IncrementInviteUses", "RecordInviteUse", "AssignEveryone"}

Assigning(q) ==
    \/ q.op = "JoinGuild" /\ q.pc \in {"AssignRole", "AddUserToRole"}
    \/ q.op = "CreateGuild" /\ q.pc = "EnsureAssign"

Leaving(q) ==
    \/ q.op = "BanMember" /\ q.pc = "CreateBan"
    \/ q.op \in Removes /\ q.pc = "DropGet"

Dropping(q) == q.op \in Removes /\ q.pc \in {"RemoveRole", "RemoveUserFromRole"}

Making(q) == q.op = "CreateGuild" /\ q.pc = "AddGuildMember"

Ensuring(q) == q.op = "CreateGuild" /\ q.pc \in {"EnsureGet", "EnsureCreate"}

InGuild(q) ==
    \/ Within(q) /\ Quiet
    \/ Making(q) /\ Fresh
    \/ Ensuring(q) /\ Unmade /\ members = {q.target}
    \/ Joining(q) /\ \E r \in Role : Joined(r, q.target)
    \/ Assigning(q) /\ Joined(q.role, q.target)
    \/ Leaving(q) /\ \E r \in Role : Left(r, q.target)
    \/ Dropping(q) /\ Left(q.role, q.target)

Stage(q) == (Before(q) /\ Quiet) \/ (owner # NoUser /\ InGuild(q))

EveryoneInv ==
    serial /\ ~rolesEdited =>
        \A w \in Worker : (\A v \in Running : v = w) => Stage(rpc[w])

\* What a running request says about the tables.
LEMMA StageSays ==
  ASSUME NEW q, Stage(q)
  PROVE  /\ \/ Before(q) \/ Within(q) \/ Making(q) \/ Ensuring(q) \/ Joining(q)
            \/ Assigning(q) \/ Leaving(q) \/ Dropping(q)
         /\ Before(q) => Quiet
         /\ ~Before(q) => owner # NoUser
         /\ Within(q) => Quiet
         /\ Making(q) => Fresh
         /\ Ensuring(q) => Unmade /\ members = {q.target}
         /\ Joining(q) => \E r \in Role : Joined(r, q.target)
         /\ Assigning(q) => Joined(q.role, q.target)
         /\ Leaving(q) => \E r \in Role : Left(r, q.target)
         /\ Dropping(q) => Left(q.role, q.target)
  BY DEF Stage, InGuild, Before, Within, Making, Ensuring, Joining, Assigning, Leaving,
         Dropping, Removes

Tables == <<owner, members, roles, roleMembers, invites>>

LEMMA TablesKept ==
  ASSUME UNCHANGED Tables
  PROVE  /\ Quiet' <=> Quiet
         /\ owner' = owner
         /\ \A r, t : (Joined(r, t)' <=> Joined(r, t)) /\ (Left(r, t)' <=> Left(r, t))
<1>1. EveryoneRoles' = EveryoneRoles
  BY DEF Tables, EveryoneRoles, LiveRoles
<1> QED BY <1>1 DEF Tables, Quiet, Fresh, Unmade, Settled, Joined, Left

\* The assignment ends a join, the removal a leave; either may be made twice.
LEMMA AssignedSettles ==
  ASSUME NEW r \in Role, NEW t \in User, Joined(r, t), owner # NoUser,
         UNCHANGED <<owner, members, roles>>, roleMembers' = roleMembers \cup {<<r, t>>}
  PROVE  Quiet' /\ Joined(r, t)'
<1>1. EveryoneRoles' = EveryoneRoles
  BY DEF EveryoneRoles, LiveRoles
<1>2. \A u \in User : <<r, u>> \in roleMembers' <=> (<<r, u>> \in roleMembers \/ u = t)
  OBVIOUS
<1>3. Joined(r, t)' /\ Settled(r)'
  BY <1>1, <1>2 DEF Joined, Settled
<1> QED BY <1>3 DEF Quiet

LEMMA DroppedSettles ==
  ASSUME NEW r \in Role, NEW t \in User, Left(r, t), owner # NoUser,
         UNCHANGED <<owner, members, roles>>, roleMembers' = roleMembers \ {<<r, t>>}
  PROVE  Quiet' /\ Left(r, t)'
<1>1. EveryoneRoles' = EveryoneRoles
  BY DEF EveryoneRoles, LiveRoles
<1>2. \A u \in User : <<r, u>> \in roleMembers' <=> (<<r, u>> \in roleMembers /\ u # t)
  OBVIOUS
<1>3. Left(r, t)' /\ Settled(r)'
  BY <1>1, <1>2 DEF Left, Settled
<1> QED BY <1>3 DEF Quiet

LEMMA ReturnStage ==
  ASSUME TypeInv, NEW w \in Worker, Return(w), Quiet'
  PROVE  Stage(rpc[w])'
<1>1. rpc'[w].pc = "idle"
  BY DEF TypeInv, RpcOK, Return, Idle
<1> QED BY <1>1 DEF Stage, Before

\* What moving on keeps of the request.
LEMMA GotoKeeps ==
  ASSUME TypeInv, NEW w \in Worker, NEW pc, Goto(w, pc)
  PROVE  /\ rpc'[w].pc = pc /\ rpc'[w].op = rpc[w].op
         /\ rpc'[w].target = rpc[w].target /\ rpc'[w].role = rpc[w].role
  BY DEF TypeInv, RpcOK, Request, Goto

LEMMA KeepRoleKeeps ==
  ASSUME TypeInv, NEW w \in Worker, NEW r, NEW pc, KeepRole(w, r, pc)
  PROVE  /\ rpc'[w].pc = pc /\ rpc'[w].op = rpc[w].op
         /\ rpc'[w].target = rpc[w].target /\ rpc'[w].role = r
  BY DEF TypeInv, RpcOK, Request, KeepRole

LEMMA CallStage ==
  ASSUME TypeInv, NEW w \in Worker, Stage(rpc[w]), Call(w), rpc'[w].op \notin RoleOps
  PROVE  Stage(rpc[w])'
<1>1. Quiet
  BY StageSays DEF Call, Before
<1>2. UNCHANGED Tables
  BY DEF Call, Read, store, Tables
<1>3. PICK op \in GuildOps : rpc'[w].op = op /\ rpc'[w].pc = Entry(op)
  BY CallBrings
<1>4. Before(rpc'[w])
  BY <1>3 DEF Before, Entry, GuildOps, RoleOps, Removes
<1> QED BY <1>1, <1>2, <1>4, TablesKept DEF Stage

LEMMA GateStage ==
  ASSUME TypeInv, NEW w \in Worker, Stage(rpc[w]), Gate(w) \/ Hierarchy(w)
  PROVE  Stage(rpc[w])'
<1>1. UNCHANGED Tables
  BY DEF Gate, Hierarchy, Read, store, Tables
<1>2. Quiet /\ Quiet'
  <2>1. Before(rpc[w]) \/ Within(rpc[w])
    BY StageSays DEF Gate, Hierarchy, Making, Ensuring, Joining, Assigning, Leaving, Dropping
  <2> QED BY <1>1, <2>1, StageSays, TablesKept
<1>3. CASE Return(w)
  BY <1>2, <1>3, ReturnStage
<1>4. CASE Gate(w) /\ Goto(w, AfterCheck(rpc[w].op))
  <2>1. rpc'[w].pc = AfterCheck(rpc[w].op) /\ rpc'[w].op = rpc[w].op /\ rpc[w].pc = "Check"
    BY <1>4, GotoKeeps DEF Gate
  <2>2. CASE rpc[w].op = "CreateInvite"
    <3>1. owner # NoUser
      BY <2>1, <2>2, StageSays DEF Before, Removes
    <3>2. Within(rpc'[w])
      BY <2>1, <2>2 DEF AfterCheck, Within
    <3> QED BY <1>1, <1>2, <3>1, <3>2, TablesKept DEF Stage, InGuild
  <2>3. CASE rpc[w].op # "CreateInvite"
    <3>1. rpc[w].op \in {"KickMember", "BanMember", "UnbanMember"}
      BY <2>1, <2>3, StageSays DEF Before, Within, Making, Ensuring, Joining, Assigning,
         Leaving, Dropping
    <3>2. Before(rpc'[w])
      BY <2>1, <3>1 DEF AfterCheck, Before
    <3> QED BY <1>2, <3>2 DEF Stage
  <2> QED BY <2>2, <2>3
<1>5. CASE Hierarchy(w) /\ Goto(w, "GetGuildByID")
  <2>1. rpc'[w].pc = "GetGuildByID" /\ rpc'[w].op = rpc[w].op /\ rpc[w].pc = "CanActOn"
    BY <1>5, GotoKeeps DEF Hierarchy
  <2>2. rpc[w].op \in {"KickMember", "BanMember"}
    BY <2>1, StageSays DEF Before, Within, Making, Ensuring, Joining, Assigning,
       Leaving, Dropping
  <2>3. Before(rpc'[w])
    BY <2>1, <2>2 DEF Before, Removes
  <2> QED BY <1>2, <2>3 DEF Stage
<1> QED BY <1>3, <1>4, <1>5 DEF Gate, Hierarchy, Proceed

LEMMA CreateGuildStage ==
  ASSUME TypeInv, NEW w \in Worker, Stage(rpc[w]), CreateGuild(w)
  PROVE  Stage(rpc[w])'
<1>1. CASE CreateGuildRow(w)
  <2>1. Fresh
    BY <1>1, StageSays DEF CreateGuildRow, At, Before, Quiet
  <2>2. Fresh'
    BY <1>1, <2>1 DEF CreateGuildRow, ButGuilds, Fresh, Unmade
  <2>3. owner' # NoUser
    BY <1>1, NoUserAssumption DEF CreateGuildRow, At, TypeInv, RpcOK, RequestOK
  <2>4. Making(rpc'[w])
    BY <1>1, GotoKeeps DEF CreateGuildRow, At, Making
  <2> QED BY <2>2, <2>3, <2>4 DEF Stage, InGuild
<1>2. CASE CreateOtherGuild(w)
  <2>1. UNCHANGED Tables
    BY <1>2 DEF CreateOtherGuild, Read, store, Tables
  <2>2. Quiet'
    BY <1>2, <2>1, StageSays, TablesKept DEF CreateOtherGuild, At, Before
  <2> QED BY <1>2, <2>2, ReturnStage DEF CreateOtherGuild
<1>3. CASE CreateGuildAddOwner(w)
  <2>1. Making(rpc[w])
    BY <1>3 DEF CreateGuildAddOwner, At, Making
  <2>2. Fresh /\ owner # NoUser
    BY <2>1, StageSays DEF Making, Before, Removes
  <2>3. rpc[w].target = rpc[w].caller
    BY <2>1 DEF Making, TypeInv, RpcOK, RequestOK
  <2>4. Ensuring(rpc'[w]) /\ rpc'[w].target = rpc[w].target
    BY <1>3, <2>1, GotoKeeps DEF CreateGuildAddOwner, Making, Ensuring
  <2>5. Unmade' /\ members' = {rpc'[w].target} /\ owner' # NoUser
    BY <1>3, <2>2, <2>3, <2>4 DEF CreateGuildAddOwner, ButMembers, authzVars, Fresh, Unmade
  <2> QED BY <2>4, <2>5 DEF Stage, InGuild
<1> QED BY <1>1, <1>2, <1>3 DEF CreateGuild

LEMMA EveryoneStage ==
  ASSUME TypeInv, NEW w \in Worker, Stage(rpc[w]), Everyone(w)
  PROVE  Stage(rpc[w])'
<1>1. rpc[w] \in Request /\ RequestOK(rpc[w]) /\ roles \in [Role -> RoleRow]
      /\ members \subseteq User
  BY DEF TypeInv, RpcOK, StoreOK, AuthzTypeOK
<1>2. CASE EnsureGet(w)
  <2>1. Ensuring(rpc[w])
    BY <1>2, StageSays DEF EnsureGet, Before, Within, Making, Joining, Assigning, Leaving, Dropping
  <2>2. Unmade /\ members = {rpc[w].target} /\ owner # NoUser
    BY <2>1, StageSays DEF Ensuring, Before, Removes
  <2>3. EveryoneRoles = {}
    BY <2>2 DEF Unmade, EveryoneRoles, LiveRoles
  <2>4. Goto(w, "EnsureCreate") /\ UNCHANGED Tables
    BY <1>2, <2>3 DEF EnsureGet, Read, store, Tables
  <2>5. Ensuring(rpc'[w]) /\ rpc'[w].target = rpc[w].target
    BY <2>1, <2>4, GotoKeeps DEF Ensuring
  <2>6. Unmade' /\ members' = {rpc'[w].target} /\ owner' # NoUser
    BY <2>2, <2>4, <2>5 DEF Unmade, Tables
  <2> QED BY <2>5, <2>6 DEF Stage, InGuild
<1>3. CASE EnsureCreate(w)
  <2>1. Ensuring(rpc[w])
    BY <1>3, StageSays DEF EnsureCreate, Before, Within, Making, Joining, Assigning, Leaving,
       Dropping
  <2>2. Unmade /\ members = {rpc[w].target} /\ owner # NoUser
    BY <2>1, StageSays DEF Ensuring, Before, Removes
  <2>3. PICK r \in Role :
          /\ roles' = [roles EXCEPT ![r] = [state |-> "live", everyone |-> TRUE, position |-> 0]]
          /\ KeepRole(w, r, "EnsureAssign")
    BY <1>3 DEF EnsureCreate
  <2>4. EveryoneRoles' = {r}
    <3>1. \A x \in Role : x # r => roles'[x].state = "none"
      BY <1>1, <2>2, <2>3 DEF Unmade
    <3>2. roles'[r].state = "live" /\ roles'[r].everyone
      BY <1>1, <2>3
    <3> QED BY <3>1, <3>2 DEF EveryoneRoles, LiveRoles
  <2>5. Assigning(rpc'[w]) /\ rpc'[w].role = r /\ rpc'[w].target = rpc[w].target
    BY <2>1, <2>3, KeepRoleKeeps DEF Ensuring, Assigning
  <2>6. UNCHANGED <<owner, members, roleMembers>>
    BY <1>3 DEF EnsureCreate, ButRoles
  <2>7. Joined(rpc[w].role, rpc[w].target)'
    BY <2>2, <2>4, <2>5, <2>6 DEF Joined, Unmade
  <2> QED BY <2>2, <2>5, <2>6, <2>7 DEF Stage, InGuild
<1>4. CASE EnsureAssign(w)
  <2>1. Assigning(rpc[w])
    BY <1>4, StageSays DEF EnsureAssign, Before, Within, Making, Ensuring, Joining, Leaving,
       Dropping
  <2>2. Joined(rpc[w].role, rpc[w].target) /\ owner # NoUser
    BY <1>4, <2>1, StageSays DEF EnsureAssign, Before
  <2>3. PICK r \in Role, t \in User : r = rpc[w].role /\ t = rpc[w].target
    BY <1>1, <1>4 DEF EnsureAssign, RequestOK, AssignCalls, TargetCalls
  <2>4. /\ UNCHANGED <<owner, members, roles>>
        /\ roleMembers' = roleMembers \cup {<<r, t>>}
    BY <1>4, <2>3 DEF EnsureAssign, ButRoleMembers
  <2>5. Quiet'
    BY <2>2, <2>3, <2>4, AssignedSettles
  <2> QED BY <1>4, <2>5, ReturnStage DEF EnsureAssign
<1>5. CASE DropGet(w)
  <2>1. Leaving(rpc[w])
    BY <1>5, StageSays DEF DropGet, Before, Within, Making, Ensuring, Joining, Assigning,
       Dropping
  <2>2. PICK r \in Role : Left(r, rpc[w].target)
    BY <2>1, StageSays
  <2>3. owner # NoUser /\ UNCHANGED Tables
    BY <1>5, <2>1, StageSays DEF DropGet, Before, Read, store, Tables
  <2>4. KeepRole(w, r, "RemoveRole")
    BY <1>5, <2>2 DEF DropGet, Left
  <2>5. Dropping(rpc'[w]) /\ rpc'[w].role = r /\ rpc'[w].target = rpc[w].target
    BY <1>5, <2>1, <2>4, KeepRoleKeeps DEF DropGet, Leaving, Dropping, Removes
  <2>6. PICK t : t = rpc[w].target
    OBVIOUS
  <2>7. Left(rpc[w].role, rpc[w].target)'
    <3>1. Left(r, t)'
      BY <2>2, <2>3, <2>6, TablesKept
    <3> QED BY <2>5, <2>6, <3>1 DEF Left
  <2> QED BY <2>3, <2>5, <2>7 DEF Stage, InGuild, Tables
<1> QED BY <1>2, <1>3, <1>4, <1>5 DEF Everyone

LEMMA JoinStage ==
  ASSUME TypeInv, NEW w \in Worker, Stage(rpc[w]), JoinGuild(w)
  PROVE  Stage(rpc[w])'
<1>1. rpc[w] \in Request /\ RequestOK(rpc[w]) /\ rpc[w].op = "JoinGuild"
  BY DEF TypeInv, RpcOK, JoinGuild, JoinGetInvite, JoinGetBan, JoinGetGuildMember,
         JoinAddGuildMember, JoinIncrementInviteUses, JoinRecordInviteUse,
         JoinAssignEveryone, At
<1>2. PICK t \in User : t = rpc[w].target
  BY <1>1 DEF RequestOK, TargetOps
<1>3. CASE JoinGetInvite(w)
  <2>1. Quiet /\ UNCHANGED Tables
    BY <1>3, StageSays DEF JoinGetInvite, At, Before, Read, store, Tables
  <2>2. CASE Return(w)
    BY <2>1, <2>2, TablesKept, ReturnStage
  <2>3. CASE InviteUsable(invites[rpc[w].code]) /\ Goto(w, "GetBan")
    <3>1. owner # NoUser
      <4>1. invites[rpc[w].code].state = "live" /\ rpc[w].code \in Code
        BY <1>1, <2>3 DEF InviteUsable, RequestOK
      <4> QED BY <2>1, <4>1 DEF Quiet, Fresh
    <3>2. Within(rpc'[w])
      BY <1>1, <2>3, GotoKeeps DEF Within
    <3> QED BY <2>1, <3>1, <3>2, TablesKept DEF Stage, InGuild
  <2> QED BY <1>3, <2>2, <2>3 DEF JoinGetInvite, Proceed
<1>4. CASE JoinGetBan(w) \/ JoinGetGuildMember(w)
  <2>1. Within(rpc[w]) /\ UNCHANGED Tables
    BY <1>4 DEF JoinGetBan, JoinGetGuildMember, At, Within, Read, store, Tables
  <2>2. owner # NoUser /\ Quiet /\ Quiet' /\ owner' = owner
    BY <1>1, <1>4, <2>1, StageSays, TablesKept
    DEF JoinGetBan, JoinGetGuildMember, At, Before, Removes
  <2>3. CASE Return(w)
    BY <2>2, <2>3, ReturnStage
  <2>4. CASE Goto(w, "GetGuildMember") \/ Goto(w, "AddGuildMember")
    <3>1. Within(rpc'[w])
      BY <1>1, <2>4, GotoKeeps DEF Within
    <3> QED BY <2>2, <3>1 DEF Stage, InGuild
  <2> QED BY <1>4, <2>3, <2>4 DEF JoinGetBan, JoinGetGuildMember, Proceed
<1>5. CASE JoinAddGuildMember(w)
  <2>1. Within(rpc[w])
    BY <1>5 DEF JoinAddGuildMember, At, Within
  <2>2. owner # NoUser /\ Quiet
    BY <1>1, <1>5, <2>1, StageSays DEF JoinAddGuildMember, At, Before, Removes
  <2>3. PICK r \in Role : Settled(r)
    BY <2>2 DEF Quiet
  <2>4. /\ UNCHANGED <<owner, roles, roleMembers>>
        /\ members' = members \cup {t}
    BY <1>2, <1>5 DEF JoinAddGuildMember, ButMembers, authzVars
  <2>5. EveryoneRoles' = {r}
    BY <2>3, <2>4 DEF Settled, EveryoneRoles, LiveRoles
  <2>6. Joined(r, t)'
    BY <1>2, <2>3, <2>4, <2>5 DEF Settled, Joined
  <2>7. Joining(rpc'[w]) /\ rpc'[w].target = t
    BY <1>1, <1>2, <1>5, GotoKeeps DEF JoinAddGuildMember, Joining
  <2>8. \E x \in Role : Joined(x, rpc[w].target)'
    BY <2>6, <2>7 DEF Joined
  <2> QED BY <2>2, <2>4, <2>7, <2>8 DEF Stage, InGuild
<1>6. CASE JoinIncrementInviteUses(w) \/ JoinRecordInviteUse(w)
  <2>1. Joining(rpc[w])
    BY <1>6 DEF JoinIncrementInviteUses, JoinRecordInviteUse, At, Joining
  <2>2. PICK r \in Role : Joined(r, t)
    BY <1>2, <2>1, StageSays
  <2>3. owner # NoUser
    BY <2>1, StageSays DEF Joining, Before, Removes
  <2>4. UNCHANGED <<owner, members, roles, roleMembers>>
    BY <1>6 DEF JoinIncrementInviteUses, JoinRecordInviteUse, ButInvites, authzVars
  <2>5. Joining(rpc'[w]) /\ rpc'[w].target = t
    BY <1>1, <1>2, <1>6, GotoKeeps DEF JoinIncrementInviteUses, JoinRecordInviteUse, Joining
  <2>6. EveryoneRoles' = EveryoneRoles
    BY <2>4 DEF EveryoneRoles, LiveRoles
  <2>7. \E x \in Role : Joined(x, rpc[w].target)'
    BY <2>2, <2>4, <2>5, <2>6 DEF Joined
  <2> QED BY <2>3, <2>4, <2>5, <2>7 DEF Stage, InGuild
<1>7. CASE JoinAssignEveryone(w)
  <2>1. Joining(rpc[w])
    BY <1>7 DEF JoinAssignEveryone, At, Joining
  <2>2. PICK r \in Role : Joined(r, t)
    BY <1>2, <2>1, StageSays
  <2>3. owner # NoUser /\ UNCHANGED Tables
    BY <1>7, <2>1, StageSays DEF JoinAssignEveryone, Joining, Before, Removes, Read, store, Tables
  <2>4. KeepRole(w, r, "AssignRole")
    BY <1>7, <2>2 DEF JoinAssignEveryone, Joined
  <2>5. Assigning(rpc'[w]) /\ rpc'[w].role = r /\ rpc'[w].target = t
    BY <1>1, <1>2, <2>4, KeepRoleKeeps DEF Assigning
  <2>6. Joined(rpc[w].role, rpc[w].target)'
    <3>1. Joined(r, t)'
      BY <2>2, <2>3, TablesKept
    <3> QED BY <2>5, <3>1 DEF Joined
  <2> QED BY <2>3, <2>5, <2>6 DEF Stage, InGuild, Tables
<1> QED BY <1>3, <1>4, <1>5, <1>6, <1>7 DEF JoinGuild

LEMMA RemovalStage ==
  ASSUME TypeInv, NEW w \in Worker, Stage(rpc[w]), Removal(w)
  PROVE  Stage(rpc[w])'
<1>1. rpc[w] \in Request /\ RequestOK(rpc[w])
  BY DEF TypeInv, RpcOK
<1>2. CASE RemovalGetGuild(w)
  <2>1. Before(rpc[w]) /\ UNCHANGED Tables
    BY <1>2 DEF RemovalGetGuild, Before, Removes, Read, store, Tables
  <2>2. Quiet'
    BY <2>1, StageSays, TablesKept
  <2>3. CASE Return(w)
    BY <2>2, <2>3, ReturnStage
  <2>4. CASE ~Return(w)
    <3>1. owner # NoUser
      BY <1>2, <2>4 DEF RemovalGetGuild, Proceed, GuildExists
    <3>2. Goto(w, IF rpc[w].op = "BanMember" THEN "RemoveGuildMember" ELSE "GetGuildMember")
      BY <1>2, <2>4 DEF RemovalGetGuild, Proceed
    <3>3. Within(rpc'[w])
      BY <1>2, <3>2, GotoKeeps DEF RemovalGetGuild, Within, Removes
    <3> QED BY <2>1, <2>2, <3>1, <3>3 DEF Stage, InGuild, Tables
  <2> QED BY <2>3, <2>4
<1>3. CASE RemovalGetGuildMember(w)
  <2>1. Within(rpc[w]) /\ UNCHANGED Tables
    BY <1>3 DEF RemovalGetGuildMember, Within, Read, store, Tables
  <2>2. owner # NoUser /\ Quiet' /\ owner' = owner
    BY <1>3, <2>1, StageSays, TablesKept DEF RemovalGetGuildMember, Before, Removes
  <2>3. CASE Return(w)
    BY <2>2, <2>3, ReturnStage
  <2>4. CASE Goto(w, "RemoveGuildMember")
    <3>1. Within(rpc'[w])
      BY <1>3, <2>4, GotoKeeps DEF RemovalGetGuildMember, Within, Removes
    <3> QED BY <2>2, <3>1 DEF Stage, InGuild
  <2> QED BY <1>3, <2>3, <2>4 DEF RemovalGetGuildMember, Proceed
<1>4. CASE RemoveGuildMember(w)
  <2>1. Within(rpc[w]) /\ rpc[w].op \in Removes
    BY <1>4, StageSays DEF RemoveGuildMember, Before, Within, Making, Ensuring, Joining,
       Assigning, Leaving, Dropping
  <2>2. owner # NoUser /\ Quiet
    BY <1>4, <2>1, StageSays DEF RemoveGuildMember, Before
  <2>3. PICK r \in Role : Settled(r)
    BY <2>2 DEF Quiet
  <2>4. PICK t \in User : t = rpc[w].target
    BY <1>1, <2>1 DEF RequestOK, TargetOps, Removes
  <2>5. UNCHANGED <<owner, roles, roleMembers>> /\ members' = members \ {t}
    BY <1>4, <2>4 DEF RemoveGuildMember, ButMembers, authzVars
  <2>6. EveryoneRoles' = {r}
    BY <2>3, <2>5 DEF Settled, EveryoneRoles, LiveRoles
  <2>7. Leaving(rpc'[w]) /\ rpc'[w].target = t
    BY <1>4, <2>1, <2>4, GotoKeeps DEF RemoveGuildMember, Leaving, Removes
  <2>8. \E x \in Role : Left(x, rpc[w].target)'
    BY <2>3, <2>5, <2>6, <2>7 DEF Settled, Left
  <2> QED BY <2>2, <2>5, <2>7, <2>8 DEF Stage, InGuild
<1>5. CASE CreateBan(w)
  <2>1. Leaving(rpc[w])
    BY <1>5 DEF CreateBan, At, Leaving
  <2>2. PICK r \in Role : Left(r, rpc[w].target)
    BY <2>1, StageSays
  <2>3. owner # NoUser /\ UNCHANGED Tables
    BY <1>5, <2>1, StageSays DEF CreateBan, At, Before, ButBans, authzVars, Tables
  <2>4. Leaving(rpc'[w]) /\ rpc'[w].target = rpc[w].target
    BY <1>5, GotoKeeps DEF CreateBan, At, Leaving, Removes
  <2>5. PICK t : t = rpc[w].target
    OBVIOUS
  <2>6. \E x \in Role : Left(x, rpc[w].target)'
    <3>1. Left(r, t)'
      BY <2>2, <2>3, <2>5, TablesKept
    <3> QED BY <2>4, <2>5, <3>1 DEF Left
  <2> QED BY <2>3, <2>4, <2>6 DEF Stage, InGuild, Tables
<1>6. CASE UnbanGetBan(w) \/ DeleteBan(w)
  <2>1. Before(rpc[w]) /\ UNCHANGED Tables
    BY <1>6 DEF UnbanGetBan, DeleteBan, At, Before, Read, store, ButBans, authzVars, Tables
  <2>2. Quiet'
    BY <2>1, StageSays, TablesKept
  <2>3. CASE Return(w)
    BY <2>2, <2>3, ReturnStage
  <2>4. CASE UnbanGetBan(w) /\ Goto(w, "DeleteBan")
    <3>1. Before(rpc'[w])
      BY <2>4, GotoKeeps DEF UnbanGetBan, At, Before
    <3> QED BY <2>2, <3>1 DEF Stage
  <2> QED BY <1>6, <2>3, <2>4 DEF UnbanGetBan, DeleteBan, Proceed
<1> QED BY <1>2, <1>3, <1>4, <1>5, <1>6 DEF Removal

LEMMA InvitesStage ==
  ASSUME TypeInv, NEW w \in Worker, Stage(rpc[w]), Invites(w)
  PROVE  Stage(rpc[w])'
<1>1. CASE InviteGetGuildMember(w)
  <2>1. Quiet /\ UNCHANGED Tables
    BY <1>1, StageSays DEF InviteGetGuildMember, At, Before, Read, store, Tables
  <2>2. CASE Return(w)
    BY <2>1, <2>2, TablesKept, ReturnStage
  <2>3. CASE rpc[w].caller \in members /\ Goto(w, "Check")
    <3>1. owner # NoUser
      BY <2>1, <2>3 DEF Quiet, Fresh
    <3>2. Within(rpc'[w])
      BY <1>1, <2>3, GotoKeeps DEF InviteGetGuildMember, At, Within
    <3> QED BY <2>1, <3>1, <3>2, TablesKept DEF Stage, InGuild
  <2> QED BY <1>1, <2>2, <2>3 DEF InviteGetGuildMember, Proceed
<1>2. CASE CreateInviteRow(w)
  <2>1. owner # NoUser /\ Quiet
    BY <1>2, StageSays DEF CreateInviteRow, At, Before, Within, Removes
  <2>2. UNCHANGED <<owner, members, roles, roleMembers>>
    BY <1>2 DEF CreateInviteRow, ButInvites, authzVars
  <2>3. Quiet'
    BY <2>1, <2>2 DEF Quiet, Settled, EveryoneRoles, LiveRoles
  <2> QED BY <1>2, <2>3, ReturnStage DEF CreateInviteRow
<1> QED BY <1>1, <1>2 DEF Invites

\* Of the role steps only the assignment and the removal belong to other RPCs too.
LEMMA RolesStage ==
  ASSUME TypeInv, NEW w \in Worker, Stage(rpc[w]), Roles(w), rpc[w].op \notin RoleOps
  PROVE  Stage(rpc[w])'
<1>1. AssignRole(w) \/ RemoveRole(w)
  <2>1. rpc[w].pc \notin {"GetRoleByID", "CanGuildPermission"}
    BY StageSays DEF Before, Within, Making, Ensuring, Joining, Assigning, Leaving, Dropping
  <2> QED BY <2>1 DEF Roles, RoleOps, At, CreateRoleCount, CreateRoleRow, UpdateRole,
        UpdateMissingRole, GetRoleByID, DeleteRole, AssignGetGuildMember, CanGuildPermission,
        GrantRolePermission, RevokeRolePermission
<1>2. PICK r \in Role, t \in User : r = rpc[w].role /\ t = rpc[w].target
  BY <1>1 DEF AssignRole, RemoveRole, TypeInv, RpcOK, RequestOK, AssignCalls, TargetCalls
<1>3. owner # NoUser /\ UNCHANGED <<owner, members, roles>>
  BY <1>1, StageSays DEF AssignRole, RemoveRole, ButRoleMembers, Before
<1>4. CASE AssignRole(w)
  <2>1. Assigning(rpc[w]) /\ rpc[w].op = "JoinGuild"
    BY <1>4, StageSays DEF AssignRole, Before, Within, Making, Ensuring, Joining, Assigning,
       Leaving, Dropping
  <2>2. Joined(r, t) /\ roleMembers' = roleMembers \cup {<<r, t>>}
    BY <1>2, <1>4, <2>1, StageSays DEF AssignRole
  <2>3. Quiet' /\ Joined(r, t)'
    BY <1>3, <2>2, AssignedSettles
  <2>4. CASE Return(w)
    BY <2>3, <2>4, ReturnStage
  <2>5. CASE Goto(w, "AddUserToRole")
    <3>1. Assigning(rpc'[w]) /\ rpc'[w].role = r /\ rpc'[w].target = t
      BY <1>2, <2>1, <2>5, GotoKeeps DEF Assigning
    <3>2. Joined(rpc[w].role, rpc[w].target)'
      BY <2>3, <3>1 DEF Joined
    <3> QED BY <1>3, <3>1, <3>2 DEF Stage, InGuild
  <2> QED BY <1>4, <2>4, <2>5 DEF AssignRole, Proceed
<1>5. CASE RemoveRole(w)
  <2>1. Dropping(rpc[w])
    BY <1>5, StageSays DEF RemoveRole, Before, Within, Making, Ensuring, Joining, Assigning,
       Leaving
  <2>2. Left(r, t) /\ roleMembers' = roleMembers \ {<<r, t>>}
    BY <1>2, <1>5, <2>1, StageSays DEF RemoveRole
  <2>3. Quiet' /\ Left(r, t)'
    BY <1>3, <2>2, DroppedSettles
  <2>4. CASE Return(w)
    BY <2>3, <2>4, ReturnStage
  <2>5. CASE Goto(w, "RemoveUserFromRole")
    <3>1. Dropping(rpc'[w]) /\ rpc'[w].role = r /\ rpc'[w].target = t
      BY <1>2, <2>1, <2>5, GotoKeeps DEF Dropping
    <3>2. Left(rpc[w].role, rpc[w].target)'
      BY <2>3, <3>1 DEF Left
    <3> QED BY <1>3, <3>1, <3>2 DEF Stage, InGuild
  <2> QED BY <1>5, <2>4, <2>5 DEF RemoveRole, Proceed
<1> QED BY <1>1, <1>4, <1>5

LEMMA OwnershipStage ==
  ASSUME TypeInv, NEW w \in Worker, Stage(rpc[w]), Ownership(w)
  PROVE  Stage(rpc[w])'
<1>1. CASE OwnerGetGuild(w)
  <2>1. Before(rpc[w]) /\ UNCHANGED Tables
    BY <1>1 DEF OwnerGetGuild, Before, Read, store, Tables
  <2>2. Quiet'
    BY <2>1, StageSays, TablesKept
  <2>3. CASE Return(w)
    BY <2>2, <2>3, ReturnStage
  <2>4. CASE ~Return(w)
    <3>1. owner # NoUser
      BY <1>1, <2>4 DEF OwnerGetGuild, Proceed, GuildExists
    <3>2. Goto(w, IF rpc[w].op = "DeleteGuild" THEN "DeleteGuild" ELSE "GetGuildMember")
      BY <1>1, <2>4 DEF OwnerGetGuild, Proceed
    <3>3. Within(rpc'[w])
      BY <1>1, <3>2, GotoKeeps DEF OwnerGetGuild, Within
    <3> QED BY <2>1, <2>2, <3>1, <3>3 DEF Stage, InGuild, Tables
  <2> QED BY <2>3, <2>4
<1>2. CASE TransferGetGuildMember(w)
  <2>1. Within(rpc[w]) /\ UNCHANGED Tables
    BY <1>2 DEF TransferGetGuildMember, At, Within, Read, store, Tables
  <2>2. owner # NoUser /\ Quiet' /\ owner' = owner
    BY <1>2, <2>1, StageSays, TablesKept DEF TransferGetGuildMember, At, Before
  <2>3. CASE Return(w)
    BY <2>2, <2>3, ReturnStage
  <2>4. CASE Goto(w, "TransferGuildOwnership")
    <3>1. Within(rpc'[w])
      BY <1>2, <2>4, GotoKeeps DEF TransferGetGuildMember, At, Within
    <3> QED BY <2>2, <3>1 DEF Stage, InGuild
  <2> QED BY <1>2, <2>3, <2>4 DEF TransferGetGuildMember, Proceed
<1>3. CASE TransferGuildOwnership(w) \/ DeleteGuild(w)
  <2>1. owner # NoUser /\ Quiet
    BY <1>3, StageSays DEF TransferGuildOwnership, DeleteGuild, At, Before, Within, Removes
  <2>2. owner' # NoUser
    BY <1>3, <2>1, NoUserAssumption
    DEF TransferGuildOwnership, DeleteGuild, At, TypeInv, RpcOK, RequestOK, TargetOps
  <2>3. UNCHANGED <<members, roles, roleMembers>>
    BY <1>3 DEF TransferGuildOwnership, DeleteGuild, ButGuilds
  <2>4. Quiet'
    BY <2>1, <2>2, <2>3 DEF Quiet, Settled, EveryoneRoles, LiveRoles
  <2> QED BY <1>3, <2>4, ReturnStage DEF TransferGuildOwnership, DeleteGuild
<1> QED BY <1>1, <1>2, <1>3 DEF Ownership

\* The first role always finds a free id, so only a further invite runs out of them.
LEMMA NoFreeIdStage ==
  ASSUME TypeInv, NEW w \in Worker, Stage(rpc[w]), NoFreeId(w), rpc[w].op \notin RoleOps
  PROVE  Stage(rpc[w])'
<1>1. rpc[w].pc # "EnsureCreate" \/ ~\A r \in Role : roles[r].state # "none"
  <2>1. rpc[w].pc = "EnsureCreate" => Ensuring(rpc[w])
    BY StageSays DEF Before, Within, Making, Joining, Assigning, Leaving, Dropping
  <2> QED BY <2>1, StageSays, GuildConstants DEF Unmade
<1>2. rpc[w].pc = "CreateInvite"
  BY <1>1, StageSays DEF NoFreeId, Before, Within, Making, Ensuring, Joining, Assigning,
     Leaving, Dropping
<1>3. Quiet /\ UNCHANGED Tables
  BY <1>2, StageSays DEF NoFreeId, Read, store, Tables, Making, Ensuring, Joining, Assigning,
     Leaving, Dropping
<1> QED BY <1>3, TablesKept, ReturnStage DEF NoFreeId

LEMMA StageStep ==
  ASSUME TypeInv, NEW w \in Worker, Stage(rpc[w]), Step(w), ~CallFails(w),
         rpc[w].op \notin RoleOps, rpc'[w].op \notin RoleOps
  PROVE  Stage(rpc[w])'
  BY CallStage, GateStage, CreateGuildStage, EveryoneStage, JoinStage, RemovalStage,
     InvitesStage, RolesStage, OwnershipStage, NoFreeIdStage DEF Step

NoRoleRpc == rolesEdited \/ \A w \in Worker : rpc[w].op \notin RoleOps

LEMMA EveryoneInvStep ==
  ASSUME TypeInv, SerialInv, NoRoleRpc, EveryoneInv, [Next]_vars
  PROVE  EveryoneInv'
<1>1. CASE UNCHANGED vars
  <2>1. UNCHANGED Tables
    BY <1>1 DEF vars, store, Tables
  <2>2. \A w \in Worker : Stage(rpc[w])' <=> Stage(rpc[w])
    BY <1>1, <2>1, TablesKept DEF vars, store, Stage, InGuild, Fresh, Unmade, Tables
  <2> QED BY <1>1, <2>2 DEF vars, EveryoneInv, Running
<1>2. CASE Next /\ ~(serial' /\ ~rolesEdited')
  BY <1>2 DEF EveryoneInv
<1>3. CASE Next /\ serial' /\ ~rolesEdited'
  <2>1. serial /\ OneAtATime /\ OneAtATime' /\ ~rolesEdited
    BY <1>3 DEF Next, Recorded, SerialInv
  <2>2. \A w \in Worker : rpc[w].op \notin RoleOps /\ rpc'[w].op \notin RoleOps
    BY <1>3, <2>1 DEF Next, Recorded, NoRoleRpc
  <2>3. ASSUME NEW c \in Code, InviteExpires(c) PROVE EveryoneInv'
    <3>1. UNCHANGED <<owner, members, roles, roleMembers, rpc>>
      BY <2>3 DEF InviteExpires, ButInvites, authzVars
    <3>2. EveryoneRoles' = EveryoneRoles
      BY <3>1 DEF EveryoneRoles, LiveRoles
    <3>3. Quiet => owner # NoUser
      BY <2>3 DEF InviteExpires, Quiet, Fresh
    <3>4. ASSUME NEW w \in Worker, Stage(rpc[w]) PROVE Stage(rpc[w])'
      <4>1. ~Making(rpc[w])
        BY <2>3, <3>4, StageSays DEF InviteExpires, Fresh
      <4>2. (Quiet => Quiet') /\ (Unmade => Unmade')
        BY <3>1, <3>2, <3>3 DEF Quiet, Settled, Unmade
      <4> QED BY <3>1, <3>2, <3>4, <4>1, <4>2 DEF Stage, InGuild, Joined, Left
    <3> QED BY <2>1, <3>1, <3>4 DEF EveryoneInv, Running
  <2>4. ASSUME NEW w \in Worker, Step(w) PROVE EveryoneInv'
    <3>1. \A v \in Worker : v # w => rpc[v].pc = "idle" /\ rpc'[v].pc = "idle"
      BY <2>1, <2>4, Alone
    <3>2. Stage(rpc[w])
      BY <2>1, <3>1 DEF EveryoneInv, Running
    <3>3. Stage(rpc[w])'
      BY <2>1, <2>2, <2>4, <3>2, Alone, StageStep
    <3>4. ASSUME NEW v \in Worker, v # w, (\A x \in Running : x = v)'
          PROVE  Stage(rpc[v])'
      <4>1. rpc'[w].pc = "idle" /\ rpc'[v].pc = "idle"
        BY <3>1, <3>4 DEF Running
      <4>2. Quiet'
        BY <3>3, <4>1 DEF Stage, InGuild, Within, Making, Ensuring, Joining, Assigning,
           Leaving, Dropping
      <4> QED BY <4>1, <4>2 DEF Stage, Before
    <3> QED BY <3>3, <3>4 DEF EveryoneInv
  <2> QED BY <1>3, <2>3, <2>4 DEF Next
<1> QED BY <1>1, <1>2, <1>3

\* As long as RPCs do not overlap, no call fails and no role RPC is called, exactly
\* the members hold @everyone, through exactly one role row, whatever sequence of
\* joins, leaves, kicks, bans, transfers and invites was served.
THEOREM EveryoneHoldsEveryone == Spec => []EveryoneIsMembership
<1>1. Init => NoRoleRpc /\ EveryoneInv
  BY DEF Init, Idle, NoRoleRpc, RoleOps, EveryoneInv, Stage, Before, Quiet, Fresh, Unmade
<1>2. NoRoleRpc /\ [Next]_vars => NoRoleRpc'
  BY DEF Next, Recorded, vars, NoRoleRpc
<1>3. EveryoneInv => EveryoneIsMembership
  <2> SUFFICES ASSUME EveryoneInv, serial, ~rolesEdited, Running = {}, members # {}
               PROVE  \E r \in Role : Settled(r)
    BY DEF EveryoneIsMembership, Settled
  <2>1. PICK w \in Worker : TRUE
    BY GuildConstants
  <2>2. Stage(rpc[w]) /\ rpc[w].pc = "idle"
    BY DEF EveryoneInv, Running
  <2>3. Quiet
    BY <2>2, StageSays DEF Before
  <2> QED BY <2>3 DEF Quiet, Fresh
<1> QED BY <1>1, <1>2, <1>3, EveryoneInvStep, TypeInit, TypeStep, SerialInit, SerialStep, PTL
        DEF Spec

=============================================================================
