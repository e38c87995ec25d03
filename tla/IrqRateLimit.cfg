\* A rate that does not divide the frequency; after three ticks what was earned
\* and the burst no longer fit the width.
SPECIFICATION BucketSpec
CONSTANTS
    max_tokens = 3
    rate = 2
    max_deferred = 2
    FREQ = 3
    U32 = 5
    MaxTime = 12
    MaxIrqs = 8
INVARIANTS BucketInv RateBound
