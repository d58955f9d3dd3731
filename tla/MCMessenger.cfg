CONSTANTS
    a = a
    b = b
    NoMac = NoMac
    Mac <- MCMac
    Slots <- MCMac
    SlotOf <- MCSlotOf
    WindowSize = 2
    MaxMsgId = 2
    FirstId = 0
    RecvPoolSize = 2
    SendPoolSize = 2
    RingSize = 1
    MaxTries = 1
    FragmentSize = 250
    MaxTotal = 2
    MaxSends = 2
    MaxReboots = 0
SYMMETRY MCSymmetry
SPECIFICATION Spec
INVARIANTS
    TypeOK
    OneFramePerId
    AckMeansStored
    IdsNeverOlder
    RingDrained
\* With all its calls made and all its frames received the system is at rest.
CHECK_DEADLOCK FALSE
