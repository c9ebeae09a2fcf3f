\* the ways of using the spool, with every login in the strictest of them
SPECIFICATION Spec
CONSTANTS
    alice = alice
    bob = bob
    s1 = s1
    s2 = s2
    m1 = m1
    Main = Main
    Nobody = Nobody
    User <- Users
    Session <- Sessions
    Message <- OneMessage
    Setups <- Everything
INVARIANTS TypeOK LoginIsEarned 
PROPERTIES DeletedWasAsked
CHECK_DEADLOCK FALSE
