SPECIFICATION FairSpec
INVARIANT TypeOK
INVARIANT PlainFilterAsWritten
INVARIANT SentToRightConnection
INVARIANT LoneSendIntact
INVARIANT ConnectedAPDUSent
INVARIANT BuffersFreed
INVARIANT SentInOrder
INVARIANT NeverOverReported
PROPERTY EverySampleHandled
CONSTANTS
    Decimal <- MCDecimal
    Number <- MCNumber
    HalfShort = 2
    MaxBuffer = 1
    Writers = {w1, w2}
    Conns = {"a", "b"}
    LocalAddr <- MCLocalAddr
    RemoteAddr <- MCRemoteAddr
    Incoming <- MCIncoming
    Filters <- MCFilters
    Null = Null
    MaxAPDUs = 2
CHECK_DEADLOCK FALSE
