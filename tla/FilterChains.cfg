\* up to three filters of every kind; spamd keeps its connection open
SPECIFICATION FairSpec
CONSTANTS
    Chains <- UpToThree
    MaxLength = 3
    MaxStarts = 3
    Closes = FALSE
    None = None
INVARIANTS TypeOK OnlyOneWorks
PROPERTIES AnswerIsEarned EveryStartEnds
CHECK_DEADLOCK FALSE
