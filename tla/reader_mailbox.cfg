SPECIFICATION FairSpec
INVARIANT TypeOK
INVARIANT CopiesAccounted
INVARIANT NoLostWakeup
PROPERTY ImplementsMailbox
PROPERTY EveryAPDURead
CONSTANTS
    s1 = s1
    s2 = s2
    fits = fits
    tooLong = tooLong
    Stacks = {s1, s2}
    APDUs = {fits, tooLong}
    Convertible = {fits}
    MaxReceived = 4
