SPECIFICATION Spec
INVARIANT TypeOK
INVARIANT DeliveredOnce
INVARIANT RemovedNotCalled
INVARIANT OneMissPerRemoval
CONSTANTS
    Stacks = {s1, s2}
    Readers = {r1, r2, r3}
    NoListener = NoListener
SYMMETRY Symmetry
CHECK_DEADLOCK FALSE
