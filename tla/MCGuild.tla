------------------------------ MODULE MCGuild ------------------------------
(***************************************************************************)
(* Guild for TLC.  A behaviour is of one mode, chosen at the start: which   *)
(* RPCs are called and for which permissions, how many overlap, how many    *)
(* store calls fail, how many users are involved at a time, and how many     *)
(* requests about a role come under another guild's id.                      *)
(***************************************************************************)
EXTENDS Guild, TLC

VARIABLE mode

MembershipOps == {"CreateGuild", "CreateInvite", "JoinGuild", "LeaveGuild", "KickMember",
                  "BanMember", "UnbanMember", "TransferOwnership", "DeleteGuild"}

OpenGuild == {"CreateGuild", "CreateInvite", "JoinGuild"}

Mode ==
    {\* Membership, without roles.
     [ops |-> MembershipOps, perms |-> {}, width |-> 1, failing |-> 0, crowd |-> 3, stray |-> 0],
     \* A moderator who was given BAN_MEMBERS.
     [ops |-> OpenGuild \cup {"LeaveGuild", "BanMember", "UnbanMember", "TransferOwnership",
                "CreateRole", "GrantRolePermission", "AssignRole"},
      perms |-> {"BAN_MEMBERS"}, width |-> 1, failing |-> 0, crowd |-> 2, stray |-> 0],
     \* The owner administers roles.
     [ops |-> OpenGuild \cup RoleOps, perms |-> {},
      width |-> 1, failing |-> 0, crowd |-> 2, stray |-> 0],
     \* Bans and joins that overlap.
     [ops |-> OpenGuild \cup {"BanMember", "UnbanMember", "TransferOwnership"}, perms |-> {},
      width |-> 2, failing |-> 0, crowd |-> 2, stray |-> 0],
     \* Bans and joins, one at a time, with a failing call.
     [ops |-> OpenGuild \cup {"BanMember", "UnbanMember"}, perms |-> {},
      width |-> 1, failing |-> 1, crowd |-> 2, stray |-> 0],
     \* Joins that overlap, with a failing call.
     [ops |-> OpenGuild \cup {"LeaveGuild"}, perms |-> {},
      width |-> 2, failing |-> 1, crowd |-> 3, stray |-> 0],
     \* Role RPCs under another guild's id.
     [ops |-> {"CreateGuild", "AssignRole", "RemoveRole", "GrantRolePermission",
                "RevokeRolePermission"},
      perms |-> {"ADMINISTRATOR", "MANAGE_ROLES"},
      width |-> 1, failing |-> 0, crowd |-> 2, stray |-> 3],
     \* Grants, revokes and transfers that overlap.
     [ops |-> OpenGuild \cup {"GrantRolePermission", "RevokeRolePermission",
                "TransferOwnership"},
      perms |-> {"ADMINISTRATOR", "MANAGE_ROLES"},
      width |-> 2, failing |-> 0, crowd |-> 2, stray |-> 0]}

Involved ==
    (members \cup bans \cup {owner} \cup {rm[2] : rm \in roleMembers}
        \cup UNION {{rpc[w].caller, rpc[w].target} : w \in Worker}) \cap User

InMode ==
    /\ faults <= mode.failing
    /\ Cardinality(Running) <= mode.width
    /\ \A w \in Running : /\ rpc[w].op \in mode.ops
                          /\ rpc[w].perm \in mode.perms \cup {NoPerm}
    /\ Cardinality(Involved) <= mode.crowd
    /\ Cardinality(strayed) + Cardinality({w \in Running : ~rpc[w].here}) <= mode.stray

MCInit == Init /\ mode \in Mode

\* A step of an RPC that runs: what Next leaves when no other may start.
Busy == ((\E w \in Running : Step(w)) \/ (\E c \in Code : InviteExpires(c))) /\ Recorded

MCNext ==
    /\ IF Cardinality(Running) < mode.width THEN Next ELSE Busy
    /\ UNCHANGED mode
    /\ InMode'

MCSpec == MCInit /\ [][MCNext]_<<vars, mode>>

Symmetric == Permutations(User) \cup Permutations(Worker) \cup Permutations(Role)
=============================================================================
