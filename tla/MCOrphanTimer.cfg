\* A connect that fails after starting its task manager, then a retry.
SPECIFICATION Spec
INVARIANTS OrphanFree
CONSTANT MaxOrphans = 2
