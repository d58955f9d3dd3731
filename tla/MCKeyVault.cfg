CONSTANTS
    k1 = k1
    v1 = v1
    v2 = v2
    p1 = p1
    s1 = s1
    s2 = s2
    Name <- MCName
    HmacSecret = HmacSecret
    Value <- MCValue
    Peer <- MCPeer
    Salt <- MCSalt
    EFuseSalt = EFuseSalt
    None = None
    Zero = Zero
    FallbackKey = FallbackKey
    FloodThreshold = 2
    HardLimit = 4
    MaxFailed = 4
SYMMETRY Symmetry
SPECIFICATION Spec
INVARIANTS
    TypeOK
    SavedKeysLoad
    SecretSurvives
    WipedSaltsStayDead
    FloodLocks
PROPERTIES
    WipeSecretsFirst
