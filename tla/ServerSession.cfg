\* a plain and a proxy session with peers that pipeline, and every command in turn
SPECIFICATION FairSpec
CONSTANTS
    Setups <- Sessions
    MaxBatch = 2
    Soft = 2
    Hard = 3
    ErrorLimit = 2
    MaxMsgs = 2
INVARIANTS TypeOK RepliesInOrder ReplyIsTrue SessionInv
PROPERTIES DueIsAnswered
CHECK_DEADLOCK FALSE
