SPECIFICATION FairSpec
CONSTANTS
    None = None  Blank = Blank  NoCall = NoCall  Inherited = Inherited
    u1 = u1  u2 = u2  u3 = u3  w1 = w1
    NameKey <- KeyOf
    IsoOf <- CodeOf
    LeadOf <- DaysOf
    IdRank <- Rank
    MaxRows = 6
    Uploads <- ThreeUploads
    Resets <- OneReset
    Requests <- SomeRequests
    Sent <- Bodies
    Sole <- NoSole
    MaxFaults = 1
INVARIANTS
    TableIsSerial
    RowsAccounted
PROPERTIES
    UploadsEnd
CHECK_DEADLOCK FALSE
