\* 4095 stands for the largest u64, so that bounty * fee_bps overflows it for
\* most inputs; fees around the default (400) and the cap (500).
SPECIFICATION Spec
CONSTANTS
    U64_MAX = 4095
    FeeBpsInputs = {0, 1, 399, 400, 499, 500}
CHECK_DEADLOCK FALSE
INVARIANT SplitIsExact
