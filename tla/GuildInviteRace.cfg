SPECIFICATION MCSpec
CONSTANTS
    User = {u1, u2, u3}
    Worker = {w1, w2}
    Role = {r1, r2}
    Perm = {"BAN_MEMBERS", "ADMINISTRATOR", "MANAGE_ROLES"}
    Code = {c1}
    Ops <- GuildOps
    MaxUsesChoices = {1}
    Positions = {0}
    UseBound = 2
    MaxFaults = 1
    NoUser = NoUser
    NoRole = NoRole
    NoPerm = NoPerm
    NoCode = NoCode
SYMMETRY Symmetric
INVARIANT InviteMaxUses
