\* A connect that fails leaving g_sysProps behind, then a retry that succeeds.
SPECIFICATION Spec
INVARIANTS FreshProperties
CONSTANT MaxOrphans = 2
