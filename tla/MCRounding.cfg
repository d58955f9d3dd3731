\* Where the challenge meets no secret, the products are 0.
CONSTANTS
    m1 = m1
    m2 = m2
    m3 = m3
    NoMac = NoMac
    None = None
    Mac <- MCMac
    Slots <- MCSlots
    SlotOf <- MCSlotOf
    WindowSize = 3
    MaxMsgId = 4
    p1 = p1
    p2 = p2
    v1 = v1
    v2 = v2
    Blank = Blank
    PoolSize = 3
    Producer <- MCProducer
    Value <- MCValue
    BlockTime = 2
    MaxTime = 12
    Wiped = Wiped
    Payload = {v1}
    Epoch = {1, 2}
    FloodThreshold = 2
    HardLimit = 3
    NonceLimit = 8
    MaskPolys = 4
    Images <- MCImages
    MaxFed = 2
    K = 3
    KeySeeds <- MCKeySeeds
    Coins <- MCCoins
    PeerKeys <- MCPeerKeys
    PeerTexts <- MCPeerTexts
    Arrays <- MCArrays
    Masks <- MCMasks
    Commitments <- MCProducts
    Products = {0}
SPECIFICATION MCSpec
INVARIANT
    LowPartBounded
\* A locked system does nothing any more, and each computation comes to its end.
CHECK_DEADLOCK FALSE
