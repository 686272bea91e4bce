\* Two statistics of two types, sampled twice, flushed, rolled over once and closed.
CONSTANTS
    s1 = s1  s2 = s2  t1 = t1  t2 = t2  None = None
    Stats <- MCStats
    Types <- MCTypes
    TypeOf <- TwoTypes
    Descs = {1}
    Vals = {0, 1}
    MaxSamples = 2
    MaxRolls = 1
SPECIFICATION Spec
\* The sampler stops at the bound on samples, and after close().
CHECK_DEADLOCK FALSE
INVARIANTS
    LiveIds
    NoDanglingResource
    BytesCounted
PROPERTIES
    ArchiveAppendOnly
    ArchiveLogRefined
