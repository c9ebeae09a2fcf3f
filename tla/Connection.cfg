\* a server's and a client's connection to a peer that reads slowly
SPECIFICATION FairSpec
CONSTANTS
    MaxUnits = 8
    Room = 3
    MaxIn = 2
    Patient = TRUE
INVARIANTS InOrder ConnectionInv
PROPERTY EveryWaitEnds
CHECK_DEADLOCK FALSE
