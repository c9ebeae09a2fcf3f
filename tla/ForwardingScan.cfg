SPECIFICATION FairSpec
CONSTANTS
    admin = admin
    hostA = hostA
    wrong = wrong
    account = account
    Unit = Unit
    Default = Default
    None = None
    Message = {1, 2}
    Admin <- Administrators
    Address <- Addresses
    Malformed <- Wrong
    Selector <- Accounts
INVARIANTS TypeOK OwnershipInv
PROPERTIES UnreachableIsSkipped RequestIsServed
CHECK_DEADLOCK FALSE
