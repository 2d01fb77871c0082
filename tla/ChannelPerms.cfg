SPECIFICATION MCSpec
CONSTANTS
    User = {u1, u2}
    Role = {r1, r2}
    Perm = {"VIEW_CHANNELS", "MANAGE_CHANNELS", "ADMINISTRATOR"}
    NoUser = NoUser
    Channel = {c1, c2, d1}
    DM = {d1}
    Worker = {w1, w2}
    Ops <- ChannelOps
    Asked = "VIEW_CHANNELS"
    CacheMax = 1
    Nobody = Nobody
    MaxChanges = 2
    MaxFaults = 1
SYMMETRY Symmetric
INVARIANTS SteadyReasonDecides AdmittedOnGrounds
