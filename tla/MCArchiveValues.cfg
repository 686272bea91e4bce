\* Two statistics of one type sampled three times, no rollover.
CONSTANTS
    s1 = s1  s2 = s2  t1 = t1  t2 = t2  None = None
    Stats <- MCStats
    Types <- MCTypes
    TypeOf <- OneType
    Descs = {1}
    Vals = {0, 1}
    MaxSamples = 3
    MaxRolls = 0
SPECIFICATION Spec
\* The sampler stops at the bound on samples, and after close().
CHECK_DEADLOCK FALSE
INVARIANTS
    TypeOK
    ReaderMatches
