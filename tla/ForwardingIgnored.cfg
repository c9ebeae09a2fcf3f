SPECIFICATION Spec
CONSTANTS
    admin = admin
    hostA = hostA
    wrong = wrong
    account = account
    Unit = Unit
    Default = Default
    None = None
    Message = {1, 2}
    Admin <- Administrators
    Address <- Addresses
    Malformed <- Wrong
    Selector <- Accounts
PROPERTIES OwnedWhileFiltering
CHECK_DEADLOCK FALSE
