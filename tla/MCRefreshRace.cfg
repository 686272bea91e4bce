CONSTANTS
    Threads = {t1, t2}
    Schemas = {}
    Enums = {}
    Objects = {o1}
    s1 = s1
    s2 = s2
    e1 = e1
    e2 = e2
    TypeIdOf <- MCTypeIdOf
    EnumCodeOf <- MCEnumCodeOf
    NoThread = NoThread
    None = None
    MaxSets = 2
    MaxTasks = 1
SPECIFICATION Spec
PROPERTIES ExpiryRemovesOnlyStale
