CONSTANTS
    Threads = {t1, t2}
    Schemas = {s1}
    Enums = {e1}
    Objects = {}
    s1 = s1
    s2 = s2
    e1 = e1
    e2 = e2
    TypeIdOf <- MCTypeIdOf
    EnumCodeOf <- MCEnumCodeOf
    NoThread = NoThread
    None = None
    MaxSets = 0
    MaxTasks = 0
SPECIFICATION Spec
INVARIANTS RaceFree
