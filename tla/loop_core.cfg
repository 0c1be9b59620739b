SPECIFICATION FairSpec
CONSTANTS
    MaxAuth = 2
    MaxBreaker = 3
    Budget = 1
    MaxDecrypt = 2
    MaxVerify = 2
    MaxKeepalive = 2
    MaxSettings = 2
    MaxExponent = 1
INVARIANT TypeOK
INVARIANT RebuildIsEarned
PROPERTY LoopGoesOn
