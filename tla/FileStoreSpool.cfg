\* a server and a process that forwards share a spool directory, and the server
\* may be killed
SPECIFICATION FairSpec
CONSTANTS
    Id = {m1, m2}
    s1 = s1
    s2 = s2
    f1 = f1
    f2 = f2
    server = server
    client = client
    None = None
    Session <- Sessions
    Proxy = {s2}
    Forwarder <- Forwarders
    Process <- Processes
    Crashable = {server}
    Host <- Hosts
INVARIANTS TypeOK Exclusive EnvelopeInv  SentIsNotRequeued
PROPERTIES ImplementsSpool NothingStaysLocked
CHECK_DEADLOCK FALSE
