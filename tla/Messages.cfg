SPECIFICATION MCSpec
CONSTANTS
    User = {1, 2}
    Message = {m1, m2}
    Content = {c1, c2}
    Worker = {w1, w2}
    Manager = {1}
    Ops <- MessageOps
    None = None
    MaxFaults = 1
    Channel = {g, d}
    DMs = {d}
    MaxId = 5
    MaxLimit = 2
    DefaultLimit = 1
    Preview = 1
    MaxReadFaults = 1
    Owner = {u1, u2}
    File = {c1, c2}
    Post = {1, 2, 3}
    Server = {w1, w2}
    Nobody = Nobody
    MaxMediaFaults = 1
SYMMETRY Symmetric
INVARIANTS ChildrenAgree ViewAgrees
INVARIANTS BadgeExact PagesLeaveNoGap UnreadExact AttachmentsGrounded ForwardStandsAlone
INVARIANTS LinksResolve
PROPERTIES NoResurrection
