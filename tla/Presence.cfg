SPECIFICATION MCSpec
CONSTANTS
    Session = {s1, s2}
    Worker = {w1}
    Ops <- PresenceOps
    Choice = {"online", "dnd", "away"}
    MaxBusy = 2
    MaxInFlight = 2
    MaxFaults = 1
    MaxCrashes = 1
    Viewer = {v1, v2}
    Room = {r1, r2}
    MaxChanges = 2
    MaxSkips = 1
SYMMETRY Symmetric
INVARIANTS GoneMeansOffline GoneLooksOffline SeenIsLive StreamAgrees
