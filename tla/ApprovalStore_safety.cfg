SPECIFICATION FairSpec
CONSTANTS
    pkt = pkt  other = other  blocked = blocked  ghost = ghost
    e1 = e1  c1 = c1  c2 = c2  c3 = c3
    NoPacket = NoPacket  NoEvent = NoEvent  NoCall = NoCall
    Packets <- ThreePackets
    Ghosts <- OneGhost
    Cleared <- TwoPackets
    Events <- OneEvent
    Calls <- ThreeCalls
    MaxRequests = 3
    MaxFaults = 1
INVARIANTS
    DecisionAuditedOnce
    AnswersAreTrue
PROPERTIES
    ImplementsAtomic
    CallsEnd
CHECK_DEADLOCK FALSE
