SPECIFICATION FairSpec
CONSTANTS
    p1 = p1  alert = alert  ticket = ticket  email = email
    i1 = i1  i2 = i2  r1 = r1  r2 = r2  s1 = s1  s2 = s2
    Packets <- OnePacket
    Actions <- InternalActions
    PacketOf <- PacketOfAll
    Derived <- DerivedAlertTicket
    Reversible <- InternalActions
    Instances <- OneInstance
    Requests <- TwoRequests
    Sweepers <- OneSweeper
    HostOf <- HostsOne
    AutoFlags <- AutoOn
    Lease = 1
    MaxDelivery = 2
    RestartDelay = 2
    MaxNow = 6
    MaxCrashes = 2
    MaxDbFaults = 0
PROPERTIES
    StrandsRecovered
CHECK_DEADLOCK FALSE
