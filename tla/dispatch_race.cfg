SPECIFICATION Spec
INVARIANT PropagatedOnce
CONSTANTS
    Stacks = {s1}
    Readers = {r1, r2}
    NoListener = NoListener
SYMMETRY Symmetry
CHECK_DEADLOCK FALSE
