SPECIFICATION FairSpec
CONSTANTS
    SendBuffer = 1
    SockBuffer = 1
    MaxSend <- Sends
    Oversize = {1}
    Foreign = {2}
INVARIANTS TypeOK NoHalfDead
PROPERTIES ImplementsChannel ClosesClean PeerNotices
CHECK_DEADLOCK FALSE
