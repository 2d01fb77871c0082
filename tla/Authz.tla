------------------------------- MODULE Authz -------------------------------
(***************************************************************************)
(* The Postgres-backed permission layer, internal/shared/authz/client.go,  *)
(* for one guild: the rows it reads and the decisions it derives from      *)
(* them.  Every decision is one SQL statement, so it is one state          *)
(* predicate here; the rows are changed by the actions of the modules that *)
(* extend this one.                                                        *)
(***************************************************************************)
EXTENDS Integers, FiniteSets

CONSTANTS
    User,       \* user ids
    Role,       \* ids for rows of the roles table
    Perm,       \* the permission names roles are granted (strings)
    NoUser      \* the owner of a guild that does not exist yet

ASSUME NoUserAssumption == NoUser \notin User

VARIABLES
    owner,          \* guilds.owner_id, NoUser before the guild row exists
    guildDeleted,   \* guilds.deleted
    roles,          \* the roles table: state, is it named "@everyone", position
    roleMembers,    \* role_members rows with deleted = FALSE
    rolePerms       \* role_permissions rows

authzVars == <<owner, guildDeleted, roles, roleMembers, rolePerms>>

RoleRow == [state : {"none", "live", "deleted"}, everyone : BOOLEAN, position : Nat]

AuthzTypeOK ==
    /\ owner \in User \cup {NoUser}
    /\ guildDeleted \in BOOLEAN
    /\ roles \in [Role -> RoleRow]
    /\ roleMembers \subseteq Role \X User
    /\ rolePerms \subseteq Role \X Perm

-----------------------------------------------------------------------------

LiveRoles == {r \in Role : roles[r].state = "live"}

\* role_members joined with the guild's live roles.  The join reads neither
\* guild_members nor bans.
RolesOf(u) == {r \in LiveRoles : <<r, u>> \in roleMembers}

IsOwner(u) == owner = u /\ ~guildDeleted

HoldsThroughRole(u, p) == \E r \in RolesOf(u) : <<r, p>> \in rolePerms

\* checkSQL: the owner, or a role that carries the permission or ADMINISTRATOR.
Check(u, p) ==
    \/ IsOwner(u)
    \/ HoldsThroughRole(u, p)
    \/ HoldsThroughRole(u, "ADMINISTRATOR")

\* isOwnerOrAdmin: who bypasses every channel override.
OwnerOrAdmin(u) == IsOwner(u) \/ HoldsThroughRole(u, "ADMINISTRATOR")

\* COALESCE(MAX(position), -1) over the user's live roles.
TopPosition(u) ==
    LET ps == {roles[r].position : r \in RolesOf(u)}
    IN  IF ps = {} THEN -1 ELSE CHOOSE m \in ps : \A p \in ps : m >= p

\* CanActOn: nobody acts on the owner; the owner acts on everybody else;
\* anybody else needs a strictly higher top role.
CanActOn(actor, target) ==
    /\ ~IsOwner(target)
    /\ IsOwner(actor) \/ TopPosition(actor) > TopPosition(target)

=============================================================================
