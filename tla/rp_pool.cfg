SPECIFICATION Spec
CONSTANTS
    u1 = u1  u2 = u2  u3 = u3
    NoUID = NoUID
    UIDs = {u1, u2, u3}
    CacheLen = 2
    TTL = 2
    MaxTime = 9
CHECK_DEADLOCK FALSE
SYMMETRY Symm
INVARIANTS TypeOK PoolBounded OrderIsAccessOrder IdleBelowTwoTTLs
PROPERTY SweepLeavesNoneAged
