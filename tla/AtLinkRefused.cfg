SPECIFICATION Spec
CONSTANT Attempts = 2
CHECK_DEADLOCK FALSE
INVARIANT JoinedIsProof
