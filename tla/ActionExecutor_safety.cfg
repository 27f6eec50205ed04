SPECIFICATION Spec
CONSTANTS
    p1 = p1  alert = alert  ticket = ticket  email = email
    i1 = i1  i2 = i2  r1 = r1  r2 = r2  s1 = s1  s2 = s2
    Packets <- OnePacket
    Actions <- AlertAndEmail
    PacketOf <- PacketOfAll
    Derived <- DerivedAlertEmail
    Reversible <- OnlyAlert
    Instances <- TwoInstances
    Requests <- TwoRequests
    Sweepers <- TwoSweepers
    HostOf <- HostsTwo
    AutoFlags <- AutoAny
    Lease = 1
    MaxDelivery = 5
    RestartDelay = 0
    MaxNow = 3
    MaxCrashes = 2
    MaxDbFaults = 1
INVARIANTS
    TypeOK
    OutwardNeverDispatched
    OnlyApprovedExecutes
    CallsSpentClaims
    OneDriverPerClaim
    TrailIsSound
PROPERTIES
    ApprovalForwardOnly
    ImplementsContract
CHECK_DEADLOCK FALSE
