SPECIFICATION Spec
INVARIANT NoAPDULost
CONSTANTS
    s1 = s1
    s2 = s2
    fits = fits
    tooLong = tooLong
    Stacks = {s1, s2}
    APDUs = {fits, tooLong}
    Convertible = {fits}
    MaxReceived = 3
SYMMETRY Symmetry
CHECK_DEADLOCK FALSE
