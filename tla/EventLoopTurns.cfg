\* three objects for two descriptors
SPECIFICATION FairSpec
CONSTANTS
    o1 = o1
    o2 = o2
    o3 = o3
    Null = Null
    Object <- ThreeObjects
    Fd = {3, 4}
    Kind = {"read"}
    Base = 2
    MaxClock = 3
    Delays = {0, 1}
    MaxOps = 2
    Opener = {"timer", "event"}
INVARIANTS TypeOK ListsInv
PROPERTIES EventIsOurs TimersFire
CHECK_DEADLOCK FALSE
