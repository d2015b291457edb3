\* The split as overview.md writes it.
SPECIFICATION Spec
CONSTANTS
    U64_MAX = 4095
    FeeBpsInputs = {400}
CHECK_DEADLOCK FALSE
INVARIANT SplitAsDocumented
