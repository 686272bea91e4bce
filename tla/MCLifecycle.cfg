\* Every order of connects, disconnects and connect failures; up to two orphaned
\* task managers, so a retry after a retry is explored.
SPECIFICATION Spec
INVARIANTS ConnectedHasResources
CONSTANT MaxOrphans = 2
