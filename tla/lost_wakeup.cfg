\* A commit between the check and the wait of the apply loop.
SPECIFICATION Spec
CONSTANT MaxIndex = 1
PROPERTY AppliedEventually
CHECK_DEADLOCK FALSE
