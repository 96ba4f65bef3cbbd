SPECIFICATION MCSpec
CONSTANTS
    r1 = r1
    r2 = r2
    r3 = r3
    q1 = q1
    Requests <- MCRequests
    Keys <- MCKeys
    KeyOf <- MCKeyOf
    Fingerprints <- MCFingerprints
    FingerprintOf <- MCFingerprintOf
    Bounded <- MCBounded
    Instances <- MCRetries
    TTL = 2
    ProcessingTimeout = 1
    RetryBackoff = 1
    CleanupBatch = 1
    MaxTime = 4
INVARIANT SingleEffectPerTTL
CHECK_DEADLOCK FALSE
