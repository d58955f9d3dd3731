CONSTANTS
    a = a
    b = b
    NoMac = NoMac
    Mac <- MCMac
    Slots <- MCMac
    SlotOf <- MCSlotOf
    WindowSize = 2
    MaxMsgId = 2
    FirstId = 0
    RecvPoolSize = 1
    SendPoolSize = 2
    RingSize = 1
    MaxTries = 3
    FragmentSize = 250
    MaxTotal = 1
    MaxSends = 2
    MaxReboots = 1
SPECIFICATION FairSpec
PROPERTIES
    SendsFinish
    ImplementsDelivery
    PoolsAsPromised
\* With all its calls made and all its frames received the system is at rest.
CHECK_DEADLOCK FALSE
