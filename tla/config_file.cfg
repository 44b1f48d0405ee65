SPECIFICATION FairSpec
INVARIANT TypeOK
INVARIANT ScansTheFile
INVARIANT PathMatchesStack
INVARIANT ReadsDocuments
INVARIANT ExtractsAsWritten
PROPERTY ReadingEnds
CONSTANTS
    Symbols <- MCSymbols
    Letters <- MCLetters
    Digits <- MCDigits
    HexSymbol <- MCHexSymbol
    NUL = "NUL"
    Files <- AllFiles
    BufferSize = 3
    FirstStack = 2
    FirstValues = 1
    Documents <- MCDocuments
    Written <- MCWritten
    Decimal <- MCDecimal
    Numeric <- MCNumeric
    Spells <- MCSpells
    Spelling <- MCSpelling
    Configs <- MCConfigs
CHECK_DEADLOCK FALSE
