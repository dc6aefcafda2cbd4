\* A recording that changes after the upgrade has verified its copy.
SPECIFICATION Spec
CONSTANTS
    a = a
    b = b
    None = None
    Recording = {a, b}
    MaxWrites = 2
    MaxLives = 2
    Faults = {"late"}
INVARIANT NoFootageLost
CHECK_DEADLOCK FALSE
