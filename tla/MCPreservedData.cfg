\* Preserved data and its expiry tasks, under a fair timer thread: two threads, two owners, three
\* setPreserveData calls and three expiry tasks; no schemas or enums.
CONSTANTS
    Threads = {t1, t2}
    Schemas = {}
    Enums = {}
    Objects = {o1, o2}
    s1 = s1
    s2 = s2
    e1 = e1
    e2 = e2
    TypeIdOf <- MCTypeIdOf
    EnumCodeOf <- MCEnumCodeOf
    NoThread = NoThread
    None = None
    MaxSets = 3
    MaxTasks = 3
SPECIFICATION Spec
INVARIANTS TypeOK EntryHasLiveTask
PROPERTIES NoLeak
