SPECIFICATION Spec
INVARIANTS
    TypeOK
    ReleasedOnce
    LoopAsConfigured
CHECK_DEADLOCK FALSE
