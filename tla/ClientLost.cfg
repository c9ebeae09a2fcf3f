\* the default configuration and a recipient that is refused
SPECIFICATION Spec
CONSTANTS
    To <- TwoTwo
    MaxChunks = 1
    Setups <- Default
INVARIANT NobodyIsLost
CHECK_DEADLOCK FALSE
