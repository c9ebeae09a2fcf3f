\* TLS and authentication in lock-step, and pipelining and BDAT
SPECIFICATION FairSpec
CONSTANTS
    To <- OneThreeTwo
    MaxChunks = 3
    Setups <- Both
INVARIANTS TypeOK InStep SessionIsReady DestroyedWasTaken RightRecipients
PROPERTIES EveryMessageEnds
CHECK_DEADLOCK FALSE
