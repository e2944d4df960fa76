\* Commits, snapshots and a kill in every phase of the apply loop.
SPECIFICATION Spec
CONSTANT MaxIndex = 4
INVARIANT NeverAhead
PROPERTY WokenApplies
CHECK_DEADLOCK FALSE
