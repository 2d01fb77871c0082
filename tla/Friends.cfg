SPECIFICATION Spec
CONSTANTS
    User = {u1, u2}
    Worker = {w1, w2}
    Channel = {c1, c2}
    Ops <- FriendOps
    NoUser = NoUser
    NoChannel = NoChannel
    MaxFaults = 1
SYMMETRY Symmetric
INVARIANTS ConsentOfBoth OnePerPair
PROPERTIES BlockSticks DMRespectsBlocks
