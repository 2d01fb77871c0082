SPECIFICATION MCSpec
CONSTANTS
    User = {u1, u2}
    Worker = {w1}
    Ops <- VoiceOps
    NoUser = NoUser
    MaxFaults = 1
    Person = {u1, u2, u3}
    Server = {d1, d2}
    Nobody = Nobody
    MaxGroupFaults = 1
INVARIANTS PresentIsListed EndedOnlyWhenEmpty NobodyLeftRinging GroupViewAgrees
PROPERTIES ToggleIsLocal FirstJoinerTimer Converges
