-------------------------- MODULE ConfigFileProofs --------------------------
(***************************************************************************)
(* The safety of reading a configuration file, for any file, any sizes of  *)
(* the buffer and of the parser's memory, and any symbols.                 *)
(***************************************************************************)
EXTENDS ConfigFile, SequenceTheorems, FiniteSetTheorems, TLAPS

-----------------------------------------------------------------------------
(* The inductive invariant.                                                *)

\* The buffer holds the last size symbols read, and the offset is where the scanner
\* is in them.  A read that is short, or a read of nothing, has reached the end.
BufferRight ==
    /\ size <= fd
    /\ \A k \in 1 .. size : buffer[k] = file[fd - size + k]
    /\ ~ eof /\ size # -1 => offset <= size /\ taken = fd - size + offset
    /\ ~ eof /\ size = 0 => fd = 0 /\ state = "start" /\ buffer[1] = NUL
    /\ size > 0 /\ size < BufferSize => fd = Len(file)
    /\ eof => taken = Len(file)

\* After a failed read the scanner is at the end of the buffer, where it reads again,
\* or still at its begin; a stale symbol is looked at only behind the end of the file.
ErrorRight ==
    /\ size = -1 => /\ ~ eof /\ pc \in {"read", "done", "fault"}
                    /\ \/ pc = "done"
                       \/ offset = BufferSize /\ taken = fd
                       \/ offset = 0 /\ taken = 0 /\ state = "start" /\ buffer[1] = NUL /\ lost
    /\ pc = "stale" => eof

\* Identifiers are not empty.
WordsRight ==
    /\ state = "in_identifier" \/ token.type = "identifier" => token.string # << >>
    /\ t.type = "identifier" => t.string # << >>

IInv == TypeOK /\ capacity > 0 /\ BufferRight /\ ErrorRight /\ WordsRight /\ PathMatchesStack

-----------------------------------------------------------------------------
(* Sequences.                                                              *)

LEMMA FrontProperties ==
    ASSUME NEW S, NEW s \in Seq(S), s # << >>
    PROVE  /\ Front(s) \in Seq(S) /\ Len(Front(s)) = Len(s) - 1
           /\ \A k \in 1 .. Len(s) - 1 : Front(s)[k] = s[k]
<1>1. Len(s) \in Nat \ {0}
  BY EmptySeq
<1>2. \A k \in 1 .. Len(s) - 1 : s[k] \in S
  BY <1>1, ElementOfSeq
<1>3. 1 \in Int /\ Len(s) - 1 \in Int
  BY <1>1
<1>. DEFINE n == Len(s) - 1
<1>4. n \in Int /\ \A k \in 1 .. n : s[k] \in S
  BY <1>2, <1>3
<1>5. /\ SubSeq(s, 1, n) \in Seq(S)
      /\ Len(SubSeq(s, 1, n)) = IF 1 <= n THEN n - 1 + 1 ELSE 0
      /\ \A k \in 1 .. n - 1 + 1 : SubSeq(s, 1, n)[k] = s[1 + k - 1]
  <2>. HIDE DEF n
  <2>. QED  BY <1>4, SubSeqProperties
<1>6. n - 1 + 1 = n /\ \A k \in 1 .. n : 1 + k - 1 = k
  BY <1>1
<1>7. Len(SubSeq(s, 1, n)) = n
  BY <1>1, <1>5, <1>6
<1>8. \A k \in 1 .. n : SubSeq(s, 1, n)[k] = s[k]
  <2>. HIDE DEF n
  <2>. QED  BY <1>5, <1>6
<1>. QED  BY <1>5, <1>7, <1>8 DEF Front

LEMMA CStringType ==
    ASSUME NEW s \in Seq(Symbols)
    PROVE  CString(s) \in Seq(Symbols)
<1>. DEFINE N == {n \in DOMAIN s : \A k \in 1 .. n : s[k] # NUL}
<1>0. Len(s) \in Nat /\ DOMAIN s = 1 .. Len(s)
  BY LenProperties
<1>1. IsFiniteSet(1 .. Len(s)) /\ Cardinality(1 .. Len(s)) = Len(s)
  <2>1. 1 \in Int /\ Len(s) \in Int
    BY <1>0
  <2>2. /\ IsFiniteSet(1 .. Len(s))
        /\ Cardinality(1 .. Len(s)) = IF 1 > Len(s) THEN 0 ELSE Len(s) - 1 + 1
    BY ONLY <2>1, FS_Interval
  <2>. QED  BY <1>0, <2>2
<1>2. N \in SUBSET (1 .. Len(s))
  BY <1>0
<1>3. Cardinality(N) \in Nat /\ Cardinality(N) <= Len(s)
  <2>. HIDE DEF N
  <2>. QED  BY <1>1, <1>2, FS_Subset, FS_CardinalityType
<1>4. SubSeq(s, 1, Cardinality(N)) \in Seq(Symbols)
  <2>. HIDE DEF N
  <2>. QED  BY <1>0, <1>3, ElementOfSeq, SubSeqProperties
<1>. QED  BY <1>4 DEF CString

-----------------------------------------------------------------------------
(* The buffer and the scanner.                                             *)

\* The symbol the scanner looks at is the next of the file.
LEMMA NextSymbol ==
    ASSUME IInv, HasSymbol, size # -1
    PROVE  /\ offset < size /\ taken < Len(file)
           /\ Peek = file[taken + 1] /\ Peek \in Symbols
<1>1. /\ offset \in 0 .. BufferSize /\ size \in 0 .. BufferSize /\ fd \in 0 .. Len(file)
      /\ Len(file) \in Nat /\ BufferSize \in Nat \ {0}
  <2>1. /\ offset \in 0 .. BufferSize /\ size \in -1 .. BufferSize /\ fd \in 0 .. Len(file)
        /\ Len(file) \in Nat /\ BufferSize \in Nat \ {0}
    BY ConfigAssumption, LenProperties DEF IInv, TypeOK
  <2>. QED  BY <2>1
<1>2. offset < size /\ size <= fd /\ taken = fd - size + offset
  BY <1>1 DEF IInv, BufferRight, HasSymbol, MustFill, AtEnd
<1>3. taken < Len(file) /\ taken + 1 = fd - size + (offset + 1) /\ offset + 1 \in 1 .. size
  BY <1>1, <1>2
<1>4. Peek = buffer[offset + 1]
  BY DEF HasSymbol, Peek
<1>5. Peek = file[taken + 1]
  BY <1>3, <1>4 DEF IInv, BufferRight
<1>6. offset + 1 \in 1 .. BufferSize
  BY <1>1, <1>3
<1>7. Peek \in Symbols
  BY <1>4, <1>6 DEF IInv, TypeOK
<1>. QED  BY <1>2, <1>3, <1>5, <1>7

\* Unless the first read failed: then the scanner sees the zeros of the buffer.
LEMMA FirstReadFailed ==
    ASSUME IInv, InTurn, size = -1
    PROVE  HasSymbol /\ offset = 0 /\ taken = 0 /\ state = "start" /\ Peek = NUL /\ lost
<1>1. pc # "stale" /\ HasSymbol /\ pc = "read" /\ offset # BufferSize
  BY DEF IInv, ErrorRight, InTurn, HasSymbol, MustFill
<1>2. offset = 0 /\ taken = 0 /\ state = "start" /\ buffer[1] = NUL /\ lost
  BY <1>1 DEF IInv, ErrorRight
<1>. QED  BY <1>1, <1>2 DEF Peek

LEMMA PeekType ==
    ASSUME IInv, InTurn
    PROVE  Peek \in Symbols
<1>1. CASE pc = "stale"
  BY <1>1 DEF Peek, IInv, TypeOK
<1>2. CASE pc # "stale" /\ size # -1
  BY <1>2, NextSymbol DEF InTurn
<1>3. CASE size = -1
  BY <1>3, FirstReadFailed, ConfigAssumption
<1>. QED  BY <1>1, <1>2, <1>3

LEMMA FillBufferStep == IInv /\ FillBuffer => IInv'
<1>. SUFFICES ASSUME IInv, FillBuffer PROVE IInv'
  OBVIOUS
<1>. DEFINE n == IF Len(file) - fd < BufferSize THEN Len(file) - fd ELSE BufferSize
<1>1. /\ fd \in 0 .. Len(file) /\ Len(file) \in Nat /\ BufferSize \in Nat \ {0}
      /\ offset \in 0 .. BufferSize /\ size \in -1 .. BufferSize
  BY ConfigAssumption, LenProperties DEF IInv, TypeOK
<1>2. n \in 0 .. BufferSize /\ fd + n \in 0 .. Len(file)
  BY <1>1
<1>3. /\ size' = n /\ fd' = fd + n /\ eof' = (n = 0)
      /\ buffer' = [k \in DOMAIN buffer |-> IF k <= n THEN file[fd + k] ELSE buffer[k]]
      /\ offset' = IF n = 0 THEN offset ELSE 0
      /\ pc' = (IF n = 0 /\ size = -1 THEN "stale" ELSE "read")
      /\ lost' = (lost \/ (n = 0 /\ size = -1))
      /\ UNCHANGED <<file, state, peeked, hex, token, taken, parsing, status, configMap>>
      /\ ~ eof /\ MustFill /\ pc = "read"
  BY DEF FillBuffer
<1>4. buffer' \in [1 .. BufferSize -> Symbols]
  <2>1. \A k \in 1 .. BufferSize : k <= n => fd + k \in 1 .. Len(file)
    BY <1>1, <1>2
  <2>2. \A k \in 1 .. Len(file) : file[k] \in Symbols
    BY ElementOfSeq DEF IInv, TypeOK
  <2>3. buffer \in [1 .. BufferSize -> Symbols]
    BY DEF IInv, TypeOK
  <2>. HIDE DEF n
  <2>. QED  BY <1>3, <2>1, <2>2, <2>3
<1>5. TypeOK'
  <2>1. /\ fd' \in 0 .. Len(file) /\ size' \in -1 .. BufferSize /\ offset' \in 0 .. BufferSize
        /\ eof' \in BOOLEAN
    <3>. HIDE DEF n
    <3>. QED  BY <1>1, <1>2, <1>3
  <2>2. lost' \in BOOLEAN /\ pc' \in {"read", "stale"}
    <3>. HIDE DEF n
    <3>. QED  BY <1>3 DEF IInv, TypeOK
  <2>. HIDE DEF n
  <2>. QED  BY <1>3, <1>4, <2>1, <2>2 DEF IInv, TypeOK, parsing, Top
<1>6. taken = fd
  <2>1. CASE size = -1
    BY <1>1, <1>3, <2>1 DEF IInv, ErrorRight, MustFill
  <2>2. CASE size # -1
    BY <1>1, <1>3, <2>2 DEF IInv, BufferRight, MustFill
  <2>. QED  BY <2>1, <2>2
<1>7. BufferRight'
  <2>1. size' <= fd'
    BY <1>1, <1>2, <1>3
  <2>2. ASSUME NEW k \in 1 .. size' PROVE buffer'[k] = file'[fd' - size' + k]
    <3>1. k \in 1 .. n /\ k \in 1 .. BufferSize /\ fd + n - n + k = fd + k
      BY <1>1, <1>2, <1>3, <2>2
    <3>2. buffer'[k] = file[fd + k]
      <4>1. DOMAIN buffer = 1 .. BufferSize
        BY DEF IInv, TypeOK
      <4>2. k <= n
        BY <3>1
      <4>. HIDE DEF n
      <4>. QED  BY <1>3, <3>1, <4>1, <4>2
    <3>3. fd' - size' + k = fd + k
      <4>1. n \in Nat /\ fd \in Nat /\ size' = n /\ fd' = fd + n /\ k \in Nat
        BY <1>1, <1>2, <1>3, <3>1
      <4>. HIDE DEF n
      <4>. QED  BY <4>1
    <3>4. file' = file
      BY <1>3
    <3>. QED  BY <3>2, <3>3, <3>4
  <2>3. ~ eof' /\ size' # -1 => offset' <= size' /\ taken' = fd' - size' + offset'
    <3>1. n \in Nat /\ fd \in Nat /\ size' = n /\ fd' = fd + n /\ taken' = fd
      BY <1>1, <1>2, <1>3, <1>6
    <3>. HIDE DEF n
    <3>2. ~ eof' => n # 0 /\ offset' = 0
      BY <1>3
    <3>. QED  BY <3>1, <3>2
  <2>4. ~ (~ eof' /\ size' = 0)
    BY <1>3
  <2>5. size' > 0 /\ size' < BufferSize => fd' = Len(file')
    BY <1>1, <1>3
  <2>6. eof' => taken' = Len(file')
    <3>1. n = 0 => fd = Len(file)
      BY <1>1
    <3>. HIDE DEF n
    <3>. QED  BY <1>3, <1>6, <3>1
  <2>. QED  BY <2>1, <2>2, <2>3, <2>4, <2>5, <2>6 DEF BufferRight
<1>8. ErrorRight'
  <2>. HIDE DEF n
  <2>1. size' # -1
    BY <1>2, <1>3
  <2>2. pc' = "stale" => eof'
    BY <1>3
  <2>. QED  BY <2>1, <2>2 DEF ErrorRight
<1>9. WordsRight' /\ PathMatchesStack' /\ capacity' > 0
  BY <1>3 DEF IInv, WordsRight, PathMatchesStack, Top, parsing
<1>. QED  BY <1>5, <1>7, <1>8, <1>9 DEF IInv

LEMMA ReadErrorStep == IInv /\ ReadError => IInv'
<1>. SUFFICES ASSUME IInv, ReadError PROVE IInv'
  OBVIOUS
<1>1. /\ fd \in 0 .. Len(file) /\ Len(file) \in Nat /\ BufferSize \in Nat \ {0}
      /\ offset \in 0 .. BufferSize /\ size \in -1 .. BufferSize
  BY ConfigAssumption, LenProperties DEF IInv, TypeOK
<1>2. /\ size' = -1 /\ pc' \in {"read", "fault"} /\ lost' = (lost \/ offset # BufferSize)
      /\ UNCHANGED <<file, fd, buffer, eof, scanning, parsing, status, configMap>>
      /\ ~ eof /\ MustFill /\ pc = "read"
  BY DEF ReadError
<1>3. TypeOK'
  <2>1. size' \in -1 .. BufferSize /\ lost' \in BOOLEAN
    BY <1>1, <1>2 DEF IInv, TypeOK
  <2>. QED  BY <1>2, <2>1 DEF IInv, TypeOK, scanning, parsing
<1>4. BufferRight'
  BY <1>1, <1>2 DEF BufferRight
<1>5. \/ offset = BufferSize /\ taken = fd
      \/ offset = 0 /\ taken = 0 /\ state = "start" /\ buffer[1] = NUL /\ offset # BufferSize
  <2>1. CASE size = -1
    BY <1>1, <1>2, <2>1 DEF IInv, ErrorRight, MustFill
  <2>2. CASE size = 0
    BY <1>1, <1>2, <2>2 DEF IInv, BufferRight
  <2>3. CASE size > 0
    BY <1>1, <1>2, <2>3 DEF IInv, BufferRight, MustFill
  <2>. QED  BY <1>1, <2>1, <2>2, <2>3
<1>6. ErrorRight'
  <2>1. UNCHANGED <<fd, buffer, eof, offset, taken, state>>
    BY <1>2 DEF scanning
  <2>2. \/ offset' = BufferSize /\ taken' = fd'
        \/ offset' = 0 /\ taken' = 0 /\ state' = "start" /\ buffer'[1] = NUL /\ lost'
    BY <1>2, <1>5, <2>1
  <2>. QED  BY <1>2, <2>1, <2>2 DEF ErrorRight
<1>7. WordsRight' /\ PathMatchesStack' /\ capacity' > 0
  BY <1>2 DEF IInv, WordsRight, PathMatchesStack, Top, scanning, parsing
<1>. QED  BY <1>3, <1>4, <1>6, <1>7 DEF IInv

LEMMA SeeEndStep == IInv /\ SeeEnd => IInv'
<1>. SUFFICES ASSUME IInv, SeeEnd PROVE IInv'
  OBVIOUS
<1>1. /\ fd \in 0 .. Len(file) /\ Len(file) \in Nat /\ BufferSize \in Nat \ {0}
      /\ offset \in 0 .. BufferSize /\ size \in 0 .. BufferSize
  BY ConfigAssumption, LenProperties DEF IInv, TypeOK, SeeEnd, AtEnd
<1>2. /\ eof' = TRUE /\ pc = "read"
      /\ UNCHANGED <<file, fd, buffer, size, lost, scanning, parsing, pc, status, configMap>>
  BY DEF SeeEnd
<1>3. taken = Len(file)
  BY <1>1 DEF IInv, BufferRight, SeeEnd, MustFill, AtEnd
<1>4. TypeOK'
  BY <1>2 DEF IInv, TypeOK, scanning, parsing
<1>5. BufferRight'
  BY <1>2, <1>3 DEF IInv, BufferRight, scanning
<1>6. ErrorRight'
  BY <1>1, <1>2 DEF ErrorRight
<1>. QED  BY <1>2, <1>4, <1>5, <1>6 DEF IInv, WordsRight, PathMatchesStack, Top, scanning, parsing

\* A turn of the scanner, whatever its state: only the symbol it took is behind it.
LEMMA ScanStep ==
    ASSUME IInv, InTurn, NEW to \in ScannerStates, NEW type \in TokenTypes,
           NEW string \in Seq(Symbols), NEW consumed \in {0, 1},
           Scan(to, type, string, consumed), hex' \in Symbols,
           to = "in_identifier" \/ type = "identifier" => string # << >>,
           size = -1 => to = "invalid"
    PROVE  IInv'
<1>1. /\ state' = to /\ token' = [type |-> type, string |-> string] /\ peeked' = Peek
      /\ offset' = IF pc = "stale" THEN offset ELSE offset + consumed
      /\ taken' = IF pc = "stale" \/ size = -1 THEN taken ELSE taken + consumed
      /\ pc' = IF to = "invalid" THEN "done" ELSE IF type = "null" THEN "read" ELSE Continue
      /\ status' = IF to = "invalid" THEN "error" ELSE status
      /\ UNCHANGED <<buffering, parsing, configMap>>
  BY DEF Scan
<1>2. /\ fd \in 0 .. Len(file) /\ Len(file) \in Nat /\ BufferSize \in Nat \ {0}
      /\ offset \in 0 .. BufferSize /\ size \in -1 .. BufferSize /\ taken \in 0 .. Len(file)
  BY ConfigAssumption, LenProperties DEF IInv, TypeOK
<1>3. pc' \in {"read", "loop", "parse", "done"}
  BY <1>1 DEF Continue
<1>4. offset' \in 0 .. BufferSize /\ taken' \in 0 .. Len(file) /\ BufferRight' /\ ErrorRight'
  <2>1. CASE pc = "stale"
    <3>1. UNCHANGED <<offset, taken, buffering>> /\ eof /\ size # -1
      BY <1>1, <2>1 DEF IInv, ErrorRight
    <3>2. BufferRight'
      BY <3>1 DEF IInv, BufferRight, buffering
    <3>3. ErrorRight'
      BY <3>1 DEF ErrorRight, buffering
    <3>. QED  BY <1>2, <3>1, <3>2, <3>3
  <2>2. CASE pc # "stale" /\ size = -1
    <3>1. offset = 0 /\ taken' = taken /\ offset' = offset + consumed /\ pc' = "done" /\ ~ eof
      BY <1>1, <2>2, FirstReadFailed DEF HasSymbol
    <3>2. offset' \in 0 .. BufferSize /\ taken' \in 0 .. Len(file)
      BY <1>2, <3>1
    <3>3. UNCHANGED <<file, fd, buffer, size, eof>>
      BY <1>1 DEF buffering
    <3>4. BufferRight'
      BY <1>2, <2>2, <3>1, <3>3 DEF BufferRight
    <3>5. ErrorRight'
      BY <2>2, <3>1, <3>3 DEF ErrorRight
    <3>. QED  BY <3>2, <3>4, <3>5
  <2>3. CASE pc # "stale" /\ size # -1
    <3>1. offset < size /\ taken < Len(file) /\ ~ eof /\ size # 0
      BY <1>2, <2>3, NextSymbol DEF InTurn, HasSymbol, MustFill
    <3>2. offset' = offset + consumed /\ taken' = taken + consumed
      BY <1>1, <2>3
    <3>3. offset' \in 0 .. BufferSize /\ taken' \in 0 .. Len(file) /\ offset' <= size
      BY <1>2, <3>1, <3>2
    <3>4. taken' = fd - size + offset'
      BY <1>2, <2>3, <3>1, <3>2 DEF IInv, BufferRight
    <3>5. UNCHANGED <<file, fd, buffer, size, eof>>
      BY <1>1 DEF buffering
    <3>6. BufferRight'
      BY <3>1, <3>3, <3>4, <3>5 DEF IInv, BufferRight
    <3>7. ErrorRight'
      BY <1>3, <2>3, <3>5 DEF ErrorRight
    <3>. QED  BY <3>3, <3>6, <3>7
  <2>. QED  BY <2>1, <2>2, <2>3
<1>5. token' \in Tokens /\ peeked' \in Symbols
  BY <1>1, PeekType DEF Tokens
<1>6. status' \in {"none", "ok", "error"}
  BY <1>1 DEF IInv, TypeOK
<1>7. TypeOK'
  BY <1>1, <1>3, <1>4, <1>5, <1>6 DEF IInv, TypeOK, buffering, parsing
<1>8. WordsRight'
  BY <1>1 DEF IInv, WordsRight, parsing
<1>9. PathMatchesStack' /\ capacity' > 0
  BY <1>1 DEF IInv, PathMatchesStack, Top, parsing
<1>. QED  BY <1>4, <1>7, <1>8, <1>9 DEF IInv

LEMMA ScannerTypes ==
    ASSUME IInv
    PROVE  /\ token.string \in Seq(Symbols) /\ hex \in Symbols
           /\ \A c \in DOMAIN Escapes : Escapes[c] \in Symbols
           /\ \A s \in DOMAIN Punctuation : Punctuation[s] \in TokenTypes \ {"identifier"}
<1>1. token.string \in Seq(Symbols) /\ hex \in Symbols
  BY DEF IInv, TypeOK, Tokens
<1>2. \A c \in DOMAIN Escapes : Escapes[c] \in Symbols
  BY ConfigAssumption DEF Escapes
<1>3. \A s \in DOMAIN Punctuation : Punctuation[s] \in TokenTypes \ {"identifier"}
  BY DEF Punctuation, TokenTypes
<1>. QED  BY <1>1, <1>2, <1>3

LEMMA ScanStartStep == IInv /\ ScanStart => IInv'
<1>. SUFFICES ASSUME IInv, ScanStart PROVE IInv'
  OBVIOUS
<1>1. InTurn /\ hex' = hex /\ state = "start"
  BY DEF ScanStart
<1>2. Peek \in Symbols /\ (size = -1 => Peek = NUL)
  BY <1>1, PeekType, FirstReadFailed
<1>9. size = -1 => Peek \notin Letters \cup Blanks \cup DOMAIN Punctuation \cup {"/", "\""}
  BY <1>2, ConfigAssumption
<1>. USE DEF ScannerStates, TokenTypes
<1>3. CASE Peek \in Blanks /\ Scan("start", "null", token.string, 1)
  BY <1>1, <1>3, <1>9, ScanStep, ScannerTypes
<1>4. CASE Peek \in DOMAIN Punctuation /\ Scan("start", Punctuation[Peek], token.string, 1)
  <2>1. Punctuation[Peek] \in TokenTypes \ {"identifier"}
    BY <1>4, ScannerTypes
  <2>. QED  BY <1>1, <1>4, <2>1, <1>9, ScanStep, ScannerTypes
<1>5. CASE Peek = "/" /\ Scan("comm_start", "null", token.string, 1)
  BY <1>1, <1>5, <1>9, ScanStep, ScannerTypes
<1>6. CASE Peek = "\"" /\ Scan("in_str", "null", << >>, 1)
  <2>1. << >> \in Seq(Symbols)
    OBVIOUS
  <2>. QED  BY <1>1, <1>6, <2>1, <1>9, ScanStep, ScannerTypes
<1>7. CASE Peek \in Letters /\ Scan("in_identifier", "null", <<Peek>>, 1)
  <2>1. <<Peek>> \in Seq(Symbols) /\ <<Peek>> # << >>
    BY <1>2
  <2>. QED  BY <1>1, <1>7, <2>1, <1>9, ScanStep, ScannerTypes
<1>8. CASE Scan("invalid", "null", token.string, 1)
  BY <1>1, <1>8, ScanStep, ScannerTypes
<1>. QED  BY <1>3, <1>4, <1>5, <1>6, <1>7, <1>8 DEF ScanStart

LEMMA ScanCommentStep == IInv /\ ScanComment => IInv'
<1>. SUFFICES ASSUME IInv, ScanComment PROVE IInv'
  OBVIOUS
<1>1. NextComment \in ScannerStates /\ NextComment # "in_identifier" /\ "null" \in TokenTypes
  BY DEF ScanComment, NextComment, ScannerStates, TokenTypes
<1>2. /\ InTurn /\ hex' = hex /\ Scan(NextComment, "null", token.string, 1)
      /\ state # "start"
  BY DEF ScanComment
<1>3. size # -1
  BY <1>2, FirstReadFailed
<1>. QED  BY <1>1, <1>2, <1>3, ScanStep, ScannerTypes

LEMMA ScanIdentifierStep == IInv /\ ScanIdentifier => IInv'
<1>. SUFFICES ASSUME IInv, ScanIdentifier PROVE IInv'
  OBVIOUS
<1>1. InTurn /\ hex' = hex /\ token.string # << >> /\ size # -1
  <2>1. InTurn /\ hex' = hex /\ token.string # << >> /\ state # "start"
    BY DEF ScanIdentifier, IInv, WordsRight
  <2>. QED  BY <2>1, FirstReadFailed
<1>2. Peek \in Symbols
  BY <1>1, PeekType
<1>. USE DEF ScannerStates, TokenTypes
<1>3. CASE Scan("in_identifier", "null", Append(token.string, Peek), 1)
  <2>1. Append(token.string, Peek) \in Seq(Symbols) /\ Append(token.string, Peek) # << >>
    BY <1>2, ScannerTypes, AppendProperties
  <2>. QED  BY <1>1, <1>3, <2>1, ScanStep, ScannerTypes
<1>4. CASE Scan("start", "identifier", token.string, 0)
  BY <1>1, <1>4, ScanStep, ScannerTypes
<1>. QED  BY <1>3, <1>4 DEF ScanIdentifier

LEMMA ScanStringStep == IInv /\ ScanString => IInv'
<1>. SUFFICES ASSUME IInv, ScanString PROVE IInv'
  OBVIOUS
<1>1. InTurn /\ hex' = hex /\ size # -1
  BY FirstReadFailed DEF ScanString
<1>2. Append(token.string, Peek) \in Seq(Symbols)
  BY <1>1, PeekType, ScannerTypes, AppendProperties
<1>. USE DEF ScannerStates, TokenTypes
<1>3. CASE Scan("start", "string", token.string, 1)
  BY <1>1, <1>3, ScanStep, ScannerTypes
<1>4. CASE Scan("in_esc", "null", token.string, 1)
  BY <1>1, <1>4, ScanStep, ScannerTypes
<1>5. CASE Scan("in_str", "null", Append(token.string, Peek), 1)
  BY <1>1, <1>2, <1>5, ScanStep, ScannerTypes
<1>. QED  BY <1>3, <1>4, <1>5 DEF ScanString

LEMMA ScanEscapeStep == IInv /\ ScanEscape => IInv'
<1>. SUFFICES ASSUME IInv, ScanEscape PROVE IInv'
  OBVIOUS
<1>1. InTurn /\ hex' = hex /\ size # -1
  BY FirstReadFailed DEF ScanEscape
<1>. USE DEF ScannerStates, TokenTypes
<1>2. CASE /\ Peek \in DOMAIN Escapes
           /\ Scan("in_str", "null", Append(token.string, Escapes[Peek]), 1)
  <2>1. Append(token.string, Escapes[Peek]) \in Seq(Symbols)
    BY <1>2, ScannerTypes, AppendProperties
  <2>. QED  BY <1>1, <1>2, <2>1, ScanStep, ScannerTypes
<1>3. CASE Scan("esc_hex_exp_first", "null", token.string, 1)
  BY <1>1, <1>3, ScanStep, ScannerTypes
<1>4. CASE Scan("invalid", "null", token.string, 1)
  BY <1>1, <1>4, ScanStep, ScannerTypes
<1>. QED  BY <1>2, <1>3, <1>4 DEF ScanEscape

LEMMA ScanHexStep == IInv /\ ScanHex => IInv'
<1>. SUFFICES ASSUME IInv, ScanHex PROVE IInv'
  OBVIOUS
<1>1. InTurn /\ size # -1
  BY FirstReadFailed DEF ScanHex
<1>2. Peek \in Symbols
  BY <1>1, PeekType
<1>. USE DEF ScannerStates, TokenTypes
<1>3. CASE hex' = Peek /\ Scan("esc_hex_exp_second", "null", token.string, 1)
  BY <1>1, <1>2, <1>3, ScanStep, ScannerTypes
<1>4. CASE /\ Scan("in_str", "null", Append(token.string, HexSymbol[<<hex, Peek>>]), 1)
           /\ hex' = hex
  <2>1. HexSymbol[<<hex, Peek>>] \in Symbols
    BY <1>2, ScannerTypes, ConfigAssumption
  <2>2. Append(token.string, HexSymbol[<<hex, Peek>>]) \in Seq(Symbols)
    BY <2>1, ScannerTypes, AppendProperties
  <2>. QED  BY <1>1, <1>4, <2>2, ScanStep, ScannerTypes
<1>. QED  BY <1>3, <1>4 DEF ScanHex

LEMMA ScanEndStep == IInv /\ ScanEnd => IInv'
<1>. SUFFICES ASSUME IInv, ScanEnd PROVE IInv'
  OBVIOUS
<1>1. /\ pc' \in {"loop", "parse", "done"} /\ status' \in {"none", "ok", "error"}
      /\ eof /\ UNCHANGED <<buffering, scanning, parsing, configMap>>
  BY DEF ScanEnd, Continue, IInv, TypeOK
<1>2. TypeOK'
  BY <1>1 DEF IInv, TypeOK, buffering, scanning, parsing
<1>3. ErrorRight'
  BY <1>1 DEF IInv, ErrorRight, buffering
<1>. QED
  BY <1>1, <1>2, <1>3 DEF IInv, BufferRight, WordsRight, PathMatchesStack, Top, buffering, scanning, parsing

-----------------------------------------------------------------------------
(* The parser.                                                             *)

LEMMA StackFacts ==
    ASSUME IInv
    PROVE  /\ stack \in Seq(StateElements) /\ Len(stack) \in Nat \ {0} /\ stack # << >>
           /\ Top = stack[Len(stack)] /\ Top \in StateElements
           /\ \A k \in 1 .. Len(stack) : stack[k] \in StateElements
           /\ stackSize \in Nat /\ Len(stack) <= stackSize
           /\ path \in Seq(Components) /\ Len(path) \in Nat
           /\ capacity \in Nat \ {0} /\ Len(values) <= capacity /\ Len(values) \in Nat
<1>1. stack \in Seq(StateElements) /\ stack # << >>
  BY DEF IInv, TypeOK
<1>2. Len(stack) \in Nat \ {0}
  BY <1>1, EmptySeq
<1>3. \A k \in 1 .. Len(stack) : stack[k] \in StateElements
  BY <1>1, ElementOfSeq
<1>4. Top = stack[Len(stack)]
  BY DEF Top, Last
<1>5. path \in Seq(Components) /\ values \in Seq([key : Seq(Components), value : Seq(Symbols)])
  BY DEF IInv, TypeOK
<1>. QED  BY <1>1, <1>2, <1>3, <1>4, <1>5, LenProperties DEF IInv, TypeOK

\* A turn of the parser, whatever the token: the rest of the state is as it was.
LEMMA TurnStep ==
    ASSUME IInv, Turn, pc = "parse",
           stack' \in Seq(StateElements), stack' # << >>,
           stackSize' \in Nat, Len(stack') <= stackSize',
           path' \in Seq(Components),
           values' \in Seq([key : Seq(Components), value : Seq(Symbols)]),
           capacity' \in Nat \ {0}, Len(values') <= capacity',
           PathMatchesStack'
    PROVE  IInv'
<1>1. pc' = "loop" /\ UNCHANGED <<t, buffering, scanning, status, configMap>>
  BY DEF Turn
<1>2. TypeOK'
  BY <1>1 DEF IInv, TypeOK, buffering, scanning
<1>3. BufferRight' /\ WordsRight'
  BY <1>1 DEF IInv, BufferRight, WordsRight, buffering, scanning
<1>4. ErrorRight'
  BY <1>1 DEF IInv, ErrorRight, buffering
<1>. QED  BY <1>2, <1>3, <1>4 DEF IInv

LEMMA SameValues ==
    ASSUME IInv, UNCHANGED <<values, capacity>>
    PROVE  /\ values' \in Seq([key : Seq(Components), value : Seq(Symbols)])
           /\ capacity' \in Nat \ {0} /\ Len(values') <= capacity'
BY StackFacts DEF IInv, TypeOK

LEMMA AddValueStep ==
    ASSUME IInv, NEW key \in Seq(Components), NEW value \in Seq(Symbols), AddValue(key, value)
    PROVE  /\ values' \in Seq([key : Seq(Components), value : Seq(Symbols)])
           /\ capacity' \in Nat \ {0} /\ Len(values') <= capacity'
<1>. DEFINE pair == [key |-> key, value |-> value]
            Pairs == [key : Seq(Components), value : Seq(Symbols)]
<1>1. pair \in Pairs /\ values \in Seq(Pairs)
  BY DEF IInv, TypeOK
<1>2. values' = Append(values, pair) /\ capacity' = IF Len(values) = capacity THEN 2 * capacity ELSE capacity
  BY DEF AddValue
<1>3. values' \in Seq(Pairs) /\ Len(values') = Len(values) + 1
  <2>. HIDE DEF pair, Pairs
  <2>. QED  BY <1>1, <1>2, AppendProperties
<1>. HIDE DEF Pairs
<1>4. capacity' \in Nat \ {0} /\ Len(values') <= capacity'
  BY <1>2, <1>3, StackFacts
<1>. QED  BY <1>3, <1>4 DEF Pairs

LEMMA PushStep ==
    ASSUME IInv, NEW st \in Seq(StateElements), Len(st) = Len(stack),
           NEW s \in ParserStates, Push(st, s)
    PROVE  /\ stack' \in Seq(StateElements) /\ stack' # << >>
           /\ stackSize' \in Nat /\ Len(stack') <= stackSize'
           /\ Len(stack') = Len(stack) + 1
           /\ \A k \in 1 .. Len(stack) : stack'[k] = st[k]
           /\ stack'[Len(stack) + 1] = [s |-> s, list_counter |-> 0]
<1>. DEFINE new == [s |-> s, list_counter |-> 0]
<1>1. new \in StateElements
  BY DEF StateElements
<1>2. /\ stack' = Append(st, new)
      /\ stackSize' = IF Len(stack) = stackSize THEN 2 * stackSize ELSE stackSize
  BY DEF Push
<1>3. /\ stack' \in Seq(StateElements) /\ stack' # << >> /\ Len(stack') = Len(stack) + 1
      /\ \A k \in 1 .. Len(stack) : stack'[k] = st[k]
      /\ stack'[Len(stack) + 1] = new
  <2>. HIDE DEF new
  <2>. QED  BY <1>1, <1>2, AppendProperties
<1>4. stackSize' \in Nat /\ Len(stack') <= stackSize'
  BY <1>2, <1>3, StackFacts
<1>. QED  BY <1>3, <1>4

\* The end of a value, a list or a map: the state and its component go together.
LEMMA PopStep ==
    ASSUME IInv, Top.s \notin {"top_level", "invalid"},
           stack' = Front(stack), path' = Front(path), stackSize' = stackSize
    PROVE  /\ stack' \in Seq(StateElements) /\ stack' # << >>
           /\ stackSize' \in Nat /\ Len(stack') <= stackSize'
           /\ path' \in Seq(Components) /\ PathMatchesStack'
<1>1. /\ Len(path) = Len(stack) - 1 /\ stack[1].s = "top_level"
      /\ \A k \in 2 .. Len(stack) : stack[k].s \notin {"top_level", "invalid"}
      /\ \A k \in 1 .. Len(path) :
            /\ stack[k].s \notin {"exp_equals", "exp_value"}
            /\ stack[k].s = "in_list" =>
                  path[k] = Index(stack[k].list_counter - 1) /\ stack[k].list_counter > 0
            /\ stack[k].s # "in_list" => path[k].word # << >>
  BY StackFacts DEF IInv, PathMatchesStack
<1>2. Len(stack) # 1
  BY <1>1, StackFacts
<1>3. /\ stack' \in Seq(StateElements) /\ Len(stack') = Len(stack) - 1
      /\ \A k \in 1 .. Len(stack) - 1 : stack'[k] = stack[k]
  BY StackFacts, FrontProperties
<1>4. Len(path) >= 1 /\ path # << >>
  BY <1>1, <1>2, StackFacts, EmptySeq
<1>5. /\ path' \in Seq(Components) /\ Len(path') = Len(path) - 1
      /\ \A k \in 1 .. Len(path) - 1 : path'[k] = path[k]
  BY <1>4, StackFacts, FrontProperties
<1>6. Len(stack') >= 1 /\ stack' # << >>
  BY <1>2, <1>3, StackFacts, EmptySeq
<1>7. /\ Len(path') = Len(stack') - 1 /\ stack'[1].s = "top_level"
      /\ \A k \in 2 .. Len(stack') : stack'[k].s \notin {"top_level", "invalid"}
  <2>1. Len(path') = Len(stack') - 1
    BY <1>1, <1>3, <1>5, StackFacts
  <2>2. stack'[1] = stack[1]
    BY <1>2, <1>3, StackFacts
  <2>3. \A k \in 2 .. Len(stack') : k \in 2 .. Len(stack) /\ stack'[k] = stack[k]
    BY <1>3, StackFacts
  <2>. QED  BY <1>1, <2>1, <2>2, <2>3
<1>8. ASSUME NEW k \in 1 .. Len(path')
      PROVE  /\ stack'[k].s \notin {"exp_equals", "exp_value"}
             /\ stack'[k].s = "in_list" =>
                   path'[k] = Index(stack'[k].list_counter - 1) /\ stack'[k].list_counter > 0
             /\ stack'[k].s # "in_list" => path'[k].word # << >>
  <2>1. stack'[k] = stack[k] /\ path'[k] = path[k] /\ k \in 1 .. Len(path)
    BY <1>1, <1>3, <1>5, <1>8, StackFacts
  <2>. QED  BY <1>1, <2>1
<1>9. PathMatchesStack'
  BY <1>7, <1>8 DEF PathMatchesStack
<1>. QED  BY <1>3, <1>5, <1>6, <1>9, StackFacts

\* A change of the state on the top.
LEMMA SetTopStep ==
    ASSUME IInv, NEW s \in ParserStates, stack' = SetTop(s), stackSize' = stackSize, path' = path,
           s # "invalid" => s # "top_level" /\ Top.s \notin {"top_level", "invalid"}
    PROVE  /\ stack' \in Seq(StateElements) /\ stack' # << >>
           /\ stackSize' \in Nat /\ Len(stack') <= stackSize'
           /\ path' \in Seq(Components) /\ PathMatchesStack'
<1>. DEFINE new == [Top EXCEPT !.s = s]
<1>1. new \in StateElements /\ new.s = s /\ Len(stack) \in 1 .. Len(stack)
  BY StackFacts DEF StateElements
<1>2. stack' = [stack EXCEPT ![Len(stack)] = new]
  BY StackFacts DEF SetTop
<1>3. /\ stack' \in Seq(StateElements) /\ Len(stack') = Len(stack)
      /\ \A j \in 1 .. Len(stack) : stack'[j] = IF j = Len(stack) THEN new ELSE stack[j]
  <2>. HIDE DEF new
  <2>. QED  BY <1>1, <1>2, StackFacts, ExceptSeq
<1>. HIDE DEF new
<1>4. stack' # << >>
  BY <1>3, StackFacts, EmptySeq
<1>5. Top'.s = s
  BY <1>1, <1>3 DEF Top, Last
<1>6. PathMatchesStack'
  <2>1. CASE s = "invalid"
    BY <1>5, <2>1 DEF PathMatchesStack
  <2>2. CASE s # "invalid"
    <3>1. /\ Len(path) = Len(stack) - 1 /\ stack[1].s = "top_level"
          /\ \A k \in 2 .. Len(stack) : stack[k].s \notin {"top_level", "invalid"}
          /\ \A k \in 1 .. Len(path) :
                /\ stack[k].s \notin {"exp_equals", "exp_value"}
                /\ stack[k].s = "in_list" =>
                      path[k] = Index(stack[k].list_counter - 1) /\ stack[k].list_counter > 0
                /\ stack[k].s # "in_list" => path[k].word # << >>
      BY <2>2, StackFacts DEF IInv, PathMatchesStack
    <3>2. Len(stack) # 1
      BY <2>2, <3>1, StackFacts
    <3>3. stack'[1].s = "top_level" /\ \A k \in 2 .. Len(stack') : stack'[k].s \notin {"top_level", "invalid"}
      BY <1>1, <1>3, <2>2, <3>1, <3>2, StackFacts
    <3>4. \A k \in 1 .. Len(path) : stack'[k] = stack[k]
      BY <1>3, <3>1, StackFacts
    <3>. QED  BY <1>3, <3>1, <3>3, <3>4 DEF PathMatchesStack
  <2>. QED  BY <2>1, <2>2
<1>. QED  BY <1>3, <1>4, <1>6, StackFacts

LEMMA CountedFacts ==
    ASSUME IInv, Top.s = "in_list"
    PROVE  /\ Counted \in Seq(StateElements) /\ Len(Counted) = Len(stack)
           /\ \A k \in 1 .. Len(stack) - 1 : Counted[k] = stack[k]
           /\ Counted[Len(stack)] = [s |-> "in_list", list_counter |-> Top.list_counter + 1]
<1>. DEFINE new == [s |-> "in_list", list_counter |-> Top.list_counter + 1]
<1>1. /\ new \in StateElements /\ Len(stack) \in 1 .. Len(stack)
      /\ new = [Top EXCEPT !.list_counter = @ + 1]
  <2>1. Top \in StateElements /\ Len(stack) \in Nat /\ Len(stack) > 0
    BY StackFacts
  <2>2. new \in StateElements
    BY <2>1 DEF StateElements, ParserStates
  <2>3. new = [Top EXCEPT !.list_counter = @ + 1]
    BY <2>1 DEF StateElements
  <2>. QED  BY <2>1, <2>2, <2>3
<1>2. Counted = [stack EXCEPT ![Len(stack)] = new]
  <2>1. Counted = [stack EXCEPT ![Len(stack)] = [Top EXCEPT !.list_counter = @ + 1]]
    BY StackFacts DEF Counted
  <2>. HIDE DEF new
  <2>. QED  BY <1>1, <2>1
<1>3. /\ Counted \in Seq(StateElements) /\ Len(Counted) = Len(stack)
      /\ \A j \in 1 .. Len(stack) : Counted[j] = IF j = Len(stack) THEN new ELSE stack[j]
  <2>. HIDE DEF new
  <2>. QED  BY <1>1, <1>2, StackFacts, ExceptSeq
<1>4. \A k \in 1 .. Len(stack) - 1 : k \in 1 .. Len(stack) /\ k # Len(stack)
  BY StackFacts
<1>. QED  BY <1>1, <1>3, <1>4

\* A new state, and a component that belongs to the state below it.
LEMMA PushedStack ==
    ASSUME IInv, Top.s \in {"top_level", "in_map", "in_list"},
           Len(stack') = Len(stack) + 1,
           \A k \in 1 .. Len(stack) - 1 : stack'[k] = stack[k],
           stack'[Len(stack)].s = Top.s,
           stack'[Len(stack) + 1].s \notin {"top_level", "invalid"},
           Len(path') = Len(path) + 1,
           \A k \in 1 .. Len(path) : path'[k] = path[k],
           Top.s = "in_list" =>
              /\ path'[Len(path) + 1] = Index(stack'[Len(stack)].list_counter - 1)
              /\ stack'[Len(stack)].list_counter > 0,
           Top.s # "in_list" => path'[Len(path) + 1].word # << >>
    PROVE  PathMatchesStack'
<1>1. /\ Len(path) = Len(stack) - 1 /\ stack[1].s = "top_level"
      /\ \A k \in 2 .. Len(stack) : stack[k].s \notin {"top_level", "invalid"}
      /\ \A k \in 1 .. Len(path) :
            /\ stack[k].s \notin {"exp_equals", "exp_value"}
            /\ stack[k].s = "in_list" =>
                  path[k] = Index(stack[k].list_counter - 1) /\ stack[k].list_counter > 0
            /\ stack[k].s # "in_list" => path[k].word # << >>
  BY StackFacts DEF IInv, PathMatchesStack
<1>2. Len(path') = Len(stack') - 1 /\ Len(path) + 1 = Len(stack)
  BY <1>1, StackFacts
<1>3. \A k \in 1 .. Len(stack) : stack'[k].s = stack[k].s
  <2>1. \A k \in 1 .. Len(stack) : k = Len(stack) \/ k \in 1 .. Len(stack) - 1
    BY StackFacts
  <2>2. stack'[Len(stack)].s = stack[Len(stack)].s
    BY StackFacts
  <2>. QED  BY <2>1, <2>2
<1>4. stack'[1].s = "top_level"
  BY <1>1, <1>3, StackFacts
<1>5. \A k \in 2 .. Len(stack') : stack'[k].s \notin {"top_level", "invalid"}
  <2>1. \A k \in 2 .. Len(stack') :
          \/ k = Len(stack) + 1
          \/ k \in 2 .. Len(stack) /\ k \in 1 .. Len(stack)
    BY StackFacts
  <2>. QED  BY <1>1, <1>3, <2>1
<1>6. ASSUME NEW k \in 1 .. Len(path')
      PROVE  /\ stack'[k].s \notin {"exp_equals", "exp_value"}
             /\ stack'[k].s = "in_list" =>
                   path'[k] = Index(stack'[k].list_counter - 1) /\ stack'[k].list_counter > 0
             /\ stack'[k].s # "in_list" => path'[k].word # << >>
  <2>1. CASE k = Len(stack)
    BY <1>2, <2>1
  <2>2. CASE k # Len(stack)
    <3>1. k \in 1 .. Len(path) /\ k \in 1 .. Len(stack) - 1
      BY <1>1, <1>6, <2>2, StackFacts
    <3>. QED  BY <1>1, <3>1
  <2>. QED  BY <2>1, <2>2
<1>. QED  BY <1>2, <1>4, <1>5, <1>6 DEF PathMatchesStack

LEMMA ParseKeyStep == IInv /\ ParseKey => IInv'
<1>. SUFFICES ASSUME IInv, ParseKey PROVE IInv'
  OBVIOUS
<1>1. /\ Top.s \in {"top_level", "in_map"} /\ t.type = "identifier"
      /\ path' = Append(path, Word(t.string)) /\ Push(stack, "exp_equals")
      /\ UNCHANGED <<values, capacity>> /\ Turn /\ pc = "parse"
  BY DEF ParseKey
<1>2. "exp_equals" \in ParserStates
  BY DEF ParserStates
<1>3. /\ stack' \in Seq(StateElements) /\ stack' # << >>
      /\ stackSize' \in Nat /\ Len(stack') <= stackSize' /\ Len(stack') = Len(stack) + 1
      /\ \A k \in 1 .. Len(stack) : stack'[k] = stack[k]
      /\ stack'[Len(stack) + 1] = [s |-> "exp_equals", list_counter |-> 0]
  BY <1>1, <1>2, StackFacts, PushStep
<1>4. Word(t.string) \in Components /\ Word(t.string).word # << >>
  BY <1>1 DEF IInv, TypeOK, WordsRight, Tokens, Word, Components
<1>5. /\ path' \in Seq(Components) /\ Len(path') = Len(path) + 1
      /\ \A k \in 1 .. Len(path) : path'[k] = path[k]
      /\ path'[Len(path) + 1] = Word(t.string)
  BY <1>1, <1>4, StackFacts, AppendProperties
<1>6. PathMatchesStack'
  <2>1. stack'[Len(stack)].s = Top.s /\ \A k \in 1 .. Len(stack) - 1 : stack'[k] = stack[k]
    BY <1>3, StackFacts
  <2>2. stack'[Len(stack) + 1].s = "exp_equals"
    BY <1>3
  <2>3. Top.s # "in_list" /\ path'[Len(path) + 1].word # << >>
    BY <1>1, <1>4, <1>5
  <2>. QED  BY <1>1, <1>3, <1>5, <2>1, <2>2, <2>3, PushedStack
<1>. QED  BY <1>1, <1>3, <1>5, <1>6, SameValues, TurnStep

LEMMA ListOpenStep == IInv /\ ListOpen => IInv'
<1>. SUFFICES ASSUME IInv, ListOpen PROVE IInv'
  OBVIOUS
<1>. DEFINE s == IF t.type = "sbracket_open" THEN "in_list" ELSE "in_map"
<1>1. /\ Top.s = "in_list" /\ path' = Append(path, Index(Top.list_counter)) /\ Push(Counted, s)
      /\ UNCHANGED <<values, capacity>> /\ Turn /\ pc = "parse"
  BY DEF ListOpen
<1>2. s \in ParserStates /\ s \in {"in_list", "in_map"}
  BY DEF ParserStates
<1>. HIDE DEF s
<1>3. /\ Counted \in Seq(StateElements) /\ Len(Counted) = Len(stack)
      /\ \A k \in 1 .. Len(stack) - 1 : Counted[k] = stack[k]
      /\ Counted[Len(stack)] = [s |-> "in_list", list_counter |-> Top.list_counter + 1]
  BY <1>1, CountedFacts
<1>4. /\ stack' \in Seq(StateElements) /\ stack' # << >>
      /\ stackSize' \in Nat /\ Len(stack') <= stackSize' /\ Len(stack') = Len(stack) + 1
      /\ \A k \in 1 .. Len(stack) : stack'[k] = Counted[k]
      /\ stack'[Len(stack) + 1] = [s |-> s, list_counter |-> 0]
  BY <1>1, <1>2, <1>3, PushStep
<1>5. Top.list_counter \in Nat /\ Index(Top.list_counter) \in Components
  BY StackFacts DEF StateElements, Index, Components
<1>6. /\ path' \in Seq(Components) /\ Len(path') = Len(path) + 1
      /\ \A k \in 1 .. Len(path) : path'[k] = path[k]
      /\ path'[Len(path) + 1] = Index(Top.list_counter)
  BY <1>1, <1>5, StackFacts, AppendProperties
<1>7. PathMatchesStack'
  <2>1. \A k \in 1 .. Len(stack) - 1 : stack'[k] = stack[k]
    BY <1>3, <1>4, StackFacts
  <2>2. stack'[Len(stack)] = [s |-> "in_list", list_counter |-> Top.list_counter + 1]
    BY <1>3, <1>4, StackFacts
  <2>3. stack'[Len(stack) + 1].s \in {"in_list", "in_map"}
    BY <1>2, <1>4
  <2>4. /\ path'[Len(path) + 1] = Index(stack'[Len(stack)].list_counter - 1)
        /\ stack'[Len(stack)].list_counter > 0
    BY <1>5, <1>6, <2>2
  <2>. QED  BY <1>1, <1>4, <1>6, <2>1, <2>2, <2>3, <2>4, PushedStack
<1>. QED  BY <1>1, <1>4, <1>6, <1>7, SameValues, TurnStep

LEMMA ListStringStep == IInv /\ ListString => IInv'
<1>. SUFFICES ASSUME IInv, ListString PROVE IInv'
  OBVIOUS
<1>1. /\ Top.s = "in_list" /\ AddValue(Append(path, Index(Top.list_counter)), t.string)
      /\ stack' = Counted /\ path' = path /\ stackSize' = stackSize /\ Turn /\ pc = "parse"
  BY DEF ListString
<1>2. Top.list_counter \in Nat /\ Index(Top.list_counter) \in Components
  BY StackFacts DEF StateElements, Index, Components
<1>3. Append(path, Index(Top.list_counter)) \in Seq(Components) /\ t.string \in Seq(Symbols)
  BY <1>2, StackFacts, AppendProperties DEF IInv, TypeOK, Tokens
<1>4. /\ values' \in Seq([key : Seq(Components), value : Seq(Symbols)])
      /\ capacity' \in Nat \ {0} /\ Len(values') <= capacity'
  BY <1>1, <1>3, AddValueStep
<1>5. /\ stack' \in Seq(StateElements) /\ Len(stack') = Len(stack)
      /\ \A k \in 1 .. Len(stack) - 1 : stack'[k] = stack[k]
      /\ stack'[Len(stack)].s = "in_list"
  BY <1>1, CountedFacts
<1>6. stack' # << >>
  BY <1>5, StackFacts, EmptySeq
<1>7. /\ Len(path) = Len(stack) - 1 /\ stack[1].s = "top_level"
      /\ \A k \in 2 .. Len(stack) : stack[k].s \notin {"top_level", "invalid"}
      /\ \A k \in 1 .. Len(path) :
            /\ stack[k].s \notin {"exp_equals", "exp_value"}
            /\ stack[k].s = "in_list" =>
                  path[k] = Index(stack[k].list_counter - 1) /\ stack[k].list_counter > 0
            /\ stack[k].s # "in_list" => path[k].word # << >>
  BY <1>1, StackFacts DEF IInv, PathMatchesStack
<1>8. Len(stack) # 1
  BY <1>1, <1>7, StackFacts
<1>9. \A k \in 1 .. Len(path) : stack'[k] = stack[k]
  BY <1>5, <1>7, StackFacts
<1>10. stack'[1].s = "top_level" /\ \A k \in 2 .. Len(stack') : stack'[k].s \notin {"top_level", "invalid"}
  <2>. DEFINE n == Len(stack)
  <2>0. n \in Nat /\ n # 0 /\ n # 1 /\ Len(stack') = n
    BY <1>5, <1>8, StackFacts
  <2>1. \A k \in 2 .. n : \/ k = n
                          \/ k \in 1 .. n - 1 /\ k \in 2 .. n
    <3>. HIDE DEF n
    <3>. QED  BY <2>0
  <2>2. 1 \in 1 .. n - 1
    <3>. HIDE DEF n
    <3>. QED  BY <2>0
  <2>. QED  BY <1>5, <1>7, <2>0, <2>1, <2>2
<1>11. PathMatchesStack'
  BY <1>1, <1>5, <1>7, <1>9, <1>10 DEF PathMatchesStack
<1>. QED  BY <1>1, <1>4, <1>5, <1>6, <1>11, StackFacts, TurnStep

LEMMA ClosingStep ==
    ASSUME IInv, CloseMap \/ CloseList
    PROVE  IInv'
<1>1. /\ Top.s \in {"in_map", "in_list"} /\ stack' = Front(stack) /\ path' = Front(path)
      /\ stackSize' = stackSize /\ UNCHANGED <<values, capacity>> /\ Turn /\ pc = "parse"
  BY DEF CloseMap, CloseList
<1>. QED  BY <1>1, PopStep, SameValues, TurnStep

LEMMA ParseStringStep == IInv /\ ParseString => IInv'
<1>. SUFFICES ASSUME IInv, ParseString PROVE IInv'
  OBVIOUS
<1>1. /\ Top.s = "exp_value" /\ stack' = Front(stack) /\ path' = Front(path)
      /\ stackSize' = stackSize /\ AddValue(path, t.string) /\ Turn /\ pc = "parse"
  BY DEF ParseString
<1>2. t.string \in Seq(Symbols)
  BY DEF IInv, TypeOK, Tokens
<1>3. /\ values' \in Seq([key : Seq(Components), value : Seq(Symbols)])
      /\ capacity' \in Nat \ {0} /\ Len(values') <= capacity'
  BY <1>1, <1>2, StackFacts, AddValueStep
<1>. QED  BY <1>1, <1>3, PopStep, TurnStep

LEMMA TopChangeStep ==
    ASSUME IInv, ParseEquals \/ OpenListOrMap \/ RejectToken
    PROVE  IInv'
<1>1. \E s \in ParserStates :
        /\ stack' = SetTop(s) /\ stackSize' = stackSize /\ path' = path
        /\ s # "invalid" => s # "top_level" /\ Top.s \notin {"top_level", "invalid"}
        /\ UNCHANGED <<values, capacity>> /\ Turn /\ pc = "parse"
  BY DEF ParseEquals, OpenListOrMap, RejectToken, ParserStates
<1>. QED  BY <1>1, SetTopStep, SameValues, TurnStep

LEMMA SkipCommaStep == IInv /\ SkipComma => IInv'
<1>. SUFFICES ASSUME IInv, SkipComma PROVE IInv'
  OBVIOUS
<1>1. UNCHANGED <<stack, stackSize, path, values, capacity>> /\ Turn /\ pc = "parse"
  BY DEF SkipComma
<1>2. PathMatchesStack'
  BY <1>1 DEF IInv, PathMatchesStack, Top
<1>. QED  BY <1>1, <1>2, StackFacts, SameValues, TurnStep

LEMMA NextTokenStep == IInv /\ NextToken => IInv'
<1>. SUFFICES ASSUME IInv, NextToken PROVE IInv'
  OBVIOUS
<1>1. /\ t' = token /\ token' = [token EXCEPT !.type = "null"] /\ state' = "start" /\ pc' = "read"
      /\ peeked' = NUL /\ pc = "loop"
      /\ UNCHANGED <<buffering, offset, hex, taken, stack, stackSize, path, values, capacity,
                     status, configMap>>
  BY DEF NextToken
<1>2. t' \in Tokens /\ token' \in Tokens /\ token'.type = "null" /\ state' \in ScannerStates
  BY <1>1 DEF IInv, TypeOK, Tokens, TokenTypes, ScannerStates
<1>3. TypeOK'
  BY <1>1, <1>2, ConfigAssumption DEF IInv, TypeOK, buffering
<1>4. WordsRight'
  BY <1>1, <1>2 DEF IInv, WordsRight
<1>5. ErrorRight'
  BY <1>1 DEF IInv, ErrorRight, buffering
<1>. QED  BY <1>1, <1>3, <1>4, <1>5 DEF IInv, BufferRight, PathMatchesStack, Top, buffering

LEMMA ParseEndStep == IInv /\ ParseEnd => IInv'
<1>. SUFFICES ASSUME IInv, ParseEnd PROVE IInv'
  OBVIOUS
<1>1. /\ status' \in {"none", "ok", "error"} /\ pc' \in {"visit", "done"} /\ pc = "loop"
      /\ UNCHANGED <<buffering, scanning, parsing, configMap>>
  BY DEF ParseEnd
<1>2. TypeOK'
  BY <1>1 DEF IInv, TypeOK, buffering, scanning, parsing
<1>3. ErrorRight'
  BY <1>1 DEF IInv, ErrorRight, buffering
<1>. QED
  BY <1>1, <1>2, <1>3 DEF IInv, BufferRight, WordsRight, PathMatchesStack, Top, buffering, scanning, parsing

LEMMA VisitStep == IInv /\ Visit => IInv'
<1>. SUFFICES ASSUME IInv, Visit PROVE IInv'
  OBVIOUS
<1>. DEFINE Pairs == [key : Seq(Components), value : Seq(Symbols)]
<1>1. /\ configMap' = [k \in DOMAIN values |->
                          [key |-> values[k].key, value |-> CString(values[k].value)]]
      /\ pc' = "done" /\ pc = "visit" /\ UNCHANGED <<buffering, scanning, parsing, status>>
  BY DEF Visit
<1>2. values \in Seq(Pairs) /\ Len(values) \in Nat /\ DOMAIN values = 1 .. Len(values)
  BY LenProperties DEF IInv, TypeOK
<1>3. \A k \in 1 .. Len(values) : values[k] \in Pairs
  <2>. HIDE DEF Pairs
  <2>. QED  BY <1>2, ElementOfSeq
<1>4. \A k \in 1 .. Len(values) :
        [key |-> values[k].key, value |-> CString(values[k].value)] \in Pairs
  BY <1>3, CStringType
<1>5. configMap' \in Seq(Pairs)
  <2>. HIDE DEF Pairs
  <2>. QED  BY <1>1, <1>2, <1>4
<1>6. TypeOK'
  BY <1>1, <1>5 DEF IInv, TypeOK, buffering, scanning, parsing
<1>7. ErrorRight'
  BY <1>1 DEF IInv, ErrorRight, buffering
<1>. QED
  BY <1>1, <1>6, <1>7 DEF IInv, BufferRight, WordsRight, PathMatchesStack, Top, buffering, scanning, parsing

-----------------------------------------------------------------------------
(* The theorems.                                                           *)

LEMMA Initially == Init => IInv
<1>. SUFFICES ASSUME Init PROVE IInv
  OBVIOUS
<1>1. file \in Seq(Symbols) /\ Len(file) \in Nat /\ NUL \in Symbols
  BY ConfigAssumption, LenProperties DEF Init
<1>2. NoToken \in Tokens /\ NoToken.type = "null"
  BY DEF NoToken, Tokens, TokenTypes
<1>3. /\ stack \in Seq(StateElements) /\ stack # << >> /\ Len(stack) = 1
      /\ stack[1].s = "top_level"
  BY DEF Init, StateElements, ParserStates
<1>4. TypeOK
  <2>1. /\ path = << >> /\ values = << >> /\ configMap = << >> /\ Len(values) = 0
        /\ BufferSize \in Nat \ {0} /\ FirstStack \in Nat \ {0} /\ FirstValues \in Nat \ {0}
    BY ConfigAssumption DEF Init
  <2>2. /\ path \in Seq(Components) /\ configMap \in Seq([key : Seq(Components), value : Seq(Symbols)])
        /\ values \in Seq([key : Seq(Components), value : Seq(Symbols)])
    BY <2>1
  <2>3. buffer \in [1 .. BufferSize -> Symbols]
    BY <1>1 DEF Init
  <2>4. /\ 0 \in 0 .. Len(file) /\ 0 \in 0 .. BufferSize /\ 0 \in -1 .. BufferSize
        /\ Len(stack) <= FirstStack /\ Len(values) <= FirstValues
    BY <1>1, <1>3, <2>1
  <2>. QED  BY <1>1, <1>2, <1>3, <2>1, <2>2, <2>3, <2>4 DEF Init, TypeOK, ScannerStates
<1>5. BufferRight /\ ErrorRight /\ WordsRight
  <2>1. 1 \in 1 .. BufferSize
    <3>1. BufferSize \in Nat \ {0}
      BY ConfigAssumption
    <3>. QED  BY <3>1
  <2>2. BufferRight
    <3>1. /\ size = 0 /\ fd = 0 /\ offset = 0 /\ taken = 0 /\ ~ eof /\ state = "start"
          /\ buffer[1] = NUL
      BY <2>1 DEF Init
    <3>2. \A k \in 1 .. size : FALSE
      BY <3>1
    <3>. QED  BY <3>1, <3>2 DEF BufferRight
  <2>3. ErrorRight
    BY DEF Init, ErrorRight
  <2>. QED  BY <1>2, <2>2, <2>3 DEF Init, WordsRight
<1>6. PathMatchesStack
  BY <1>3 DEF Init, PathMatchesStack
<1>7. capacity > 0
  <2>1. FirstValues \in Nat \ {0}
    BY ConfigAssumption
  <2>2. capacity = FirstValues
    BY DEF Init
  <2>. QED  BY <2>1, <2>2
<1>. QED  BY <1>4, <1>5, <1>6, <1>7 DEF IInv

LEMMA Inductive == IInv /\ [Next]_vars => IInv'
<1>. SUFFICES ASSUME IInv, [Next]_vars PROVE IInv'
  OBVIOUS
<1>1. CASE ReadToken
  BY <1>1, FillBufferStep, ReadErrorStep, SeeEndStep, ScanStartStep, ScanCommentStep, ScanIdentifierStep,
     ScanStringStep, ScanEscapeStep, ScanHexStep, ScanEndStep DEF ReadToken
<1>2. CASE ParseToken
  BY <1>2, ParseKeyStep, ClosingStep, ParseStringStep, TopChangeStep, SkipCommaStep,
     ListStringStep, ListOpenStep DEF ParseToken
<1>3. CASE NextToken \/ ParseEnd \/ Visit
  BY <1>3, NextTokenStep, ParseEndStep, VisitStep
<1>4. CASE UNCHANGED vars
  BY <1>4 DEF vars, buffering, scanning, parsing, IInv, TypeOK, BufferRight, ErrorRight, WordsRight,
     PathMatchesStack, Top
<1>. QED  BY <1>1, <1>2, <1>3, <1>4 DEF Next

LEMMA Invariance == Spec => []IInv
BY Initially, Inductive, PTL DEF Spec

\* The types, of a reader of any file: and the stack of states and the pairs never
\* outgrow the memory that STATE_STACK_PUSH and lcfg_parser_add_value double.
THEOREM ConfigTypeCorrect == Spec => []TypeOK
<1>1. IInv => TypeOK
  BY DEF IInv
<1>. QED  BY <1>1, Invariance, PTL

\* For every size of the buffer, every file and every read that fails,
\* lcfg_scanner_char_peek gives the symbols of the file, each once and in order, and the
\* end behind the last; or, when the first read failed, a symbol that begins no token.
THEOREM EverySymbolScanned == Spec => []ScansTheFile
<1>1. ASSUME IInv PROVE ScansTheFile
  <2>1. CASE HasSymbol /\ size # -1
    BY <1>1, <2>1, NextSymbol DEF ScansTheFile, HasSymbol
  <2>2. CASE HasSymbol /\ size = -1
    BY <1>1, <2>2, FirstReadFailed DEF ScansTheFile, HasSymbol, InTurn
  <2>3. CASE ~ HasSymbol
    BY <1>1, <2>3 DEF ScansTheFile, IInv, BufferRight
  <2>. QED  BY <2>1, <2>2, <2>3
<1>. QED  BY <1>1, Invariance, PTL

\* In every nesting of lists and maps, of any depth, the path of keys belongs to the
\* stack of states of lcfg_parser_parse.
THEOREM PathFollowsStack == Spec => []PathMatchesStack
<1>1. IInv => PathMatchesStack
  BY DEF IInv
<1>. QED  BY <1>1, Invariance, PTL

-----------------------------------------------------------------------------
(* Reading goes on.  That it ends is a matter of fairness, and of TLC; that *)
(* no path through the three machines goes round in a circle is not.       *)

\* What the parts of the state may still cost: a token a turn of the parser, an
\* identifier its token, the end of the buffer two reads of the file and a stale turn.
TokenCost == IF token.type = "null" THEN 0 ELSE 3
WordCost == IF state = "in_identifier" THEN 3 ELSE 0
BufferCost == IF eof THEN 0 ELSE IF ~ MustFill THEN 1 ELSE IF size = -1 THEN 8 ELSE 9
PhaseCost == CASE pc = "stale" -> 19 [] pc = "read" -> 12 [] pc = "parse" -> 11
               [] pc = "loop" -> 10 [] pc = "visit" -> 9 [] OTHER -> 0

\* A bound on the steps that are left.  A symbol may begin an identifier or give a
\* token, and may be the last of the buffer.
StepsLeft == 16 * (Len(file) - taken) + TokenCost + WordCost + BufferCost + PhaseCost

LEMMA CostsAreInt ==
    /\ TokenCost \in Int /\ TokenCost' \in Int /\ WordCost \in Int /\ WordCost' \in Int
    /\ BufferCost \in Int /\ BufferCost' \in Int /\ PhaseCost \in Int /\ PhaseCost' \in Int
BY DEF TokenCost, WordCost, BufferCost, PhaseCost

LEMMA CostBounds ==
    /\ 0 <= TokenCost /\ TokenCost <= 3 /\ 0 <= TokenCost' /\ TokenCost' <= 3
    /\ 0 <= WordCost /\ WordCost <= 3 /\ 0 <= WordCost' /\ WordCost' <= 3
    /\ 0 <= BufferCost /\ BufferCost <= 9 /\ 0 <= BufferCost' /\ BufferCost' <= 9
    /\ 0 <= PhaseCost /\ 0 <= PhaseCost'
BY DEF TokenCost, WordCost, BufferCost, PhaseCost

LEMMA StepsLeftFacts ==
    ASSUME IInv
    PROVE  StepsLeft \in Nat /\ taken \in Nat /\ Len(file) \in Nat
<1>1. taken \in 0 .. Len(file) /\ Len(file) \in Nat
  BY ConfigAssumption, LenProperties DEF IInv, TypeOK
<1>2. Len(file) - taken \in Nat
  BY <1>1
<1>3. StepsLeft \in Nat
  BY <1>2, CostsAreInt, CostBounds DEF StepsLeft
<1>. QED  BY <1>1, <1>3

\* A step pays: for symbols it takes, and out of what the parts may cost.
LEMMA StepPays ==
    ASSUME IInv, file' = file, NEW k \in Int, taken' = taken + k,
           TokenCost' + WordCost' + BufferCost' + PhaseCost'
               < TokenCost + WordCost + BufferCost + PhaseCost + 16 * k
    PROVE  StepsLeft' < StepsLeft
<1>. DEFINE a == TokenCost
            b == WordCost
            c == BufferCost
            d == PhaseCost
            n == Len(file) - taken
            A == TokenCost'
            B == WordCost'
            C == BufferCost'
            D == PhaseCost'
<1>1. a \in Int /\ b \in Int /\ c \in Int /\ d \in Int /\ n \in Int
  BY StepsLeftFacts, CostsAreInt
<1>2. A \in Int /\ B \in Int /\ C \in Int /\ D \in Int
  BY CostsAreInt
<1>3. A + B + C + D < a + b + c + d + 16 * k
  OBVIOUS
<1>4. Len(file') - taken' = n - k
  BY StepsLeftFacts
<1>5. StepsLeft = 16 * n + a + b + c + d
  BY DEF StepsLeft
<1>6. StepsLeft' = 16 * (n - k) + A + B + C + D
  BY <1>4 DEF StepsLeft
<1>. HIDE DEF a, b, c, d, n, A, B, C, D
<1>. QED  BY <1>1, <1>2, <1>3, <1>5, <1>6

LEMMA SumFalls ==
    ASSUME NEW a \in Int, NEW b \in Int, NEW c \in Int, NEW d \in Int,
           NEW A \in Int, NEW B \in Int, NEW C \in Int, NEW D \in Int,
           A + B <= a + b, C + D < c + d
    PROVE  A + B + C + D < a + b + c + d
OBVIOUS

LEMMA PartPays ==
    ASSUME IInv, file' = file, taken' = taken,
           TokenCost' + WordCost' + BufferCost' + PhaseCost'
               < TokenCost + WordCost + BufferCost + PhaseCost
    PROVE  StepsLeft' < StepsLeft
<1>. DEFINE cost == TokenCost + WordCost + BufferCost + PhaseCost
<1>1. taken' = taken + 0 /\ cost \in Int
  BY StepsLeftFacts, CostsAreInt
<1>. HIDE DEF cost
<1>2. cost = cost + 16 * 0
  BY <1>1
<1>3. TokenCost' + WordCost' + BufferCost' + PhaseCost' < cost
  BY DEF cost
<1>4. TokenCost' + WordCost' + BufferCost' + PhaseCost' < cost + 16 * 0
  BY <1>2, <1>3, Zenon
<1>. QED  BY <1>1, <1>4, StepPays DEF cost

\* The arithmetic of the steps, with the costs before in small letters.
LEMMA PairFalls ==
    ASSUME NEW c \in Int, NEW d \in Int, NEW C \in Int, NEW D \in Int,
           \/ C < c /\ D <= d
           \/ C <= c /\ D < d
    PROVE  C + D < c + d
OBVIOUS

LEMMA SymbolPays ==
    ASSUME NEW a \in Int, NEW b \in Int, NEW c \in Int, NEW d \in Int,
           NEW A \in Int, NEW B \in Int, NEW C \in Int, NEW D \in Int,
           A <= 3, B <= 3, C <= 9, D <= 12, 0 <= a, 0 <= b, c = 1, d = 12
    PROVE  A + B + C + D < a + b + c + d + 16 * 1
OBVIOUS

LEMMA WordPays ==
    ASSUME NEW a \in Int, NEW b \in Int, NEW A \in Int, NEW B \in Int,
           A <= 3, B = 0, 0 <= a, b = 3
    PROVE  A + B <= a + b
OBVIOUS

LEMMA StalePays ==
    ASSUME NEW a \in Int, NEW b \in Int, NEW c \in Int, NEW d \in Int,
           NEW A \in Int, NEW B \in Int, NEW C \in Int, NEW D \in Int,
           A <= 3, B <= 3, C = 0, D <= 12, 0 <= a, 0 <= b, c = 0, d = 19
    PROVE  A + B + C + D < a + b + c + d
OBVIOUS

LEMMA InvalidPays ==
    ASSUME NEW a \in Int, NEW b \in Int, NEW c \in Int, NEW d \in Int,
           NEW A \in Int, NEW B \in Int, NEW C \in Int, NEW D \in Int,
           A = 0, B = 0, C <= 9, D = 0, 0 <= a, 0 <= b, 0 <= c, d = 12
    PROVE  A + B + C + D < a + b + c + d
OBVIOUS

LEMMA FillLeft ==
    ASSUME IInv, FillBuffer \/ SeeEnd \/ ReadError
    PROVE  StepsLeft' < StepsLeft
<1>1. UNCHANGED <<file, taken, token, state>> /\ ~ eof /\ pc = "read"
  BY DEF FillBuffer, SeeEnd, ReadError, scanning
<1>2. TokenCost' = TokenCost /\ WordCost' = WordCost
  BY <1>1 DEF TokenCost, WordCost
<1>3. BufferCost' + PhaseCost' < BufferCost + PhaseCost
  <2>1. CASE SeeEnd
    <3>1. eof' /\ pc' = "read" /\ ~ MustFill
      BY <1>1, <2>1 DEF SeeEnd
    <3>. QED  BY <1>1, <3>1 DEF BufferCost, PhaseCost
  <2>2. CASE FillBuffer
    <3>. DEFINE n == IF Len(file) - fd < BufferSize THEN Len(file) - fd ELSE BufferSize
    <3>1. /\ size' = n /\ eof' = (n = 0) /\ offset' = IF n = 0 THEN offset ELSE 0
          /\ pc' = IF n = 0 /\ size = -1 THEN "stale" ELSE "read"
      BY <2>2 DEF FillBuffer
    <3>2. MustFill /\ BufferSize \in Nat \ {0}
      BY <2>2, ConfigAssumption DEF FillBuffer
    <3>. HIDE DEF n
    <3>3. eof' \/ ~ MustFill'
      BY <3>1, <3>2 DEF MustFill
    <3>4. BufferCost' \in {0, 1} /\ BufferCost \in {8, 9} /\ PhaseCost = 12
      BY <1>1, <3>2, <3>3 DEF BufferCost, PhaseCost
    <3>5. CASE n = 0 /\ size = -1
      <4>1. BufferCost' = 0 /\ PhaseCost' = 19 /\ BufferCost = 8
        BY <1>1, <3>1, <3>2, <3>5 DEF BufferCost, PhaseCost
      <4>. QED  BY <3>4, <4>1
    <3>6. CASE ~ (n = 0 /\ size = -1)
      <4>1. PhaseCost' = 12
        BY <3>1, <3>6 DEF PhaseCost
      <4>2. BufferCost' < BufferCost /\ PhaseCost' <= PhaseCost
        BY <3>4, <4>1
      <4>. QED  BY <4>2, CostsAreInt, PairFalls
    <3>. QED  BY <3>5, <3>6
  <2>3. CASE ReadError
    <3>1. /\ size' = -1 /\ eof' = eof /\ MustFill
          /\ pc' = IF size = -1 THEN "fault" ELSE "read"
      BY <2>3 DEF ReadError
    <3>2. BufferCost' \in {1, 8}
      BY <1>1, <3>1 DEF BufferCost
    <3>3. CASE size = -1
      <4>1. BufferCost = 8 /\ PhaseCost = 12 /\ PhaseCost' = 0
        BY <1>1, <3>1, <3>3 DEF BufferCost, PhaseCost
      <4>2. BufferCost' <= BufferCost /\ PhaseCost' < PhaseCost
        BY <3>2, <4>1
      <4>. QED  BY <4>2, CostsAreInt, PairFalls
    <3>4. CASE size # -1
      <4>1. BufferCost = 9 /\ PhaseCost = 12 /\ PhaseCost' = 12
        BY <1>1, <3>1, <3>4 DEF BufferCost, PhaseCost
      <4>2. BufferCost' < BufferCost /\ PhaseCost' <= PhaseCost
        BY <3>2, <4>1
      <4>. QED  BY <4>2, CostsAreInt, PairFalls
    <3>. QED  BY <3>3, <3>4
  <2>. QED  BY <2>1, <2>2, <2>3
<1>4. TokenCost' + WordCost' <= TokenCost + WordCost
  BY <1>2, CostsAreInt, CostBounds
<1>5. TokenCost' + WordCost' + BufferCost' + PhaseCost'
          < TokenCost + WordCost + BufferCost + PhaseCost
  BY <1>3, <1>4, CostsAreInt, SumFalls
<1>. QED  BY <1>1, <1>5, PartPays

LEMMA SymbolLeft ==
    ASSUME IInv, HasSymbol, size # -1, NEW to, NEW type, NEW string, Scan(to, type, string, 1)
    PROVE  StepsLeft' < StepsLeft
<1>1. /\ taken' = taken + 1 /\ UNCHANGED <<file, eof>> /\ pc = "read"
      /\ pc' \in {"read", "loop", "parse", "done"}
  BY DEF Scan, HasSymbol, buffering, Continue
<1>2. PhaseCost = 12 /\ PhaseCost' <= 12
  BY <1>1 DEF PhaseCost
<1>3. BufferCost = 1
  BY DEF HasSymbol, BufferCost
<1>4. TokenCost' + WordCost' + BufferCost' + PhaseCost'
          < TokenCost + WordCost + BufferCost + PhaseCost + 16 * 1
  BY <1>2, <1>3, CostsAreInt, CostBounds, SymbolPays
<1>. QED  BY <1>1, <1>4, StepPays

\* Behind an identifier the scanner consumes nothing: it has left in_identifier.
LEMMA IdentifierLeft ==
    ASSUME IInv, HasSymbol, state = "in_identifier", Scan("start", "identifier", token.string, 0)
    PROVE  StepsLeft' < StepsLeft
<1>1. /\ taken' = taken /\ offset' = offset /\ UNCHANGED buffering /\ pc = "read"
      /\ state' = "start" /\ pc' \in {"loop", "parse"}
  <2>1. taken \in Int /\ offset \in Int
    BY DEF IInv, TypeOK
  <2>. QED  BY <2>1 DEF Scan, HasSymbol, Continue
<1>2. UNCHANGED <<file, eof, size>> /\ MustFill' = MustFill
  BY <1>1 DEF buffering, MustFill
<1>3. BufferCost' = BufferCost
  BY <1>2 DEF BufferCost
<1>4. WordCost = 3 /\ WordCost' = 0
  BY <1>1 DEF WordCost
<1>5. PhaseCost = 12 /\ PhaseCost' \in {10, 11}
  BY <1>1 DEF PhaseCost
<1>6. TokenCost' + WordCost' <= TokenCost + WordCost
  BY <1>4, CostsAreInt, CostBounds, WordPays
<1>7. BufferCost' + PhaseCost' < BufferCost + PhaseCost
  <2>1. BufferCost' <= BufferCost /\ PhaseCost' < PhaseCost
    BY <1>3, <1>5, CostsAreInt
  <2>. QED  BY <2>1, CostsAreInt, PairFalls
<1>8. TokenCost' + WordCost' + BufferCost' + PhaseCost'
          < TokenCost + WordCost + BufferCost + PhaseCost
  BY <1>6, <1>7, CostsAreInt, SumFalls
<1>. QED  BY <1>1, <1>2, <1>8, PartPays

\* A turn on a stale symbol is the last of its token.
LEMMA StaleLeft ==
    ASSUME IInv, pc = "stale", NEW to, NEW type, NEW string, NEW consumed,
           Scan(to, type, string, consumed)
    PROVE  StepsLeft' < StepsLeft
<1>1. /\ taken' = taken /\ UNCHANGED <<file, eof>> /\ eof
      /\ pc' \in {"read", "loop", "parse", "done"}
  BY DEF Scan, buffering, Continue, IInv, ErrorRight
<1>2. PhaseCost = 19 /\ PhaseCost' <= 12 /\ BufferCost = 0 /\ BufferCost' = 0
  BY <1>1 DEF PhaseCost, BufferCost
<1>3. TokenCost' + WordCost' + BufferCost' + PhaseCost'
          < TokenCost + WordCost + BufferCost + PhaseCost
  BY <1>2, CostsAreInt, CostBounds, StalePays
<1>. QED  BY <1>1, <1>3, PartPays

\* After a first read that failed the one turn ends the reading.
LEMMA InvalidLeft ==
    ASSUME IInv, pc = "read", size = -1, HasSymbol, NEW string, Scan("invalid", "null", string, 1)
    PROVE  StepsLeft' < StepsLeft
<1>1. taken' = taken /\ UNCHANGED <<file, eof>> /\ pc' = "done" /\ ~ eof
      /\ token'.type = "null" /\ state' = "invalid"
  BY DEF Scan, buffering, HasSymbol
<1>2. PhaseCost = 12 /\ PhaseCost' = 0 /\ TokenCost' = 0 /\ WordCost' = 0
  BY <1>1 DEF PhaseCost, TokenCost, WordCost
<1>4. TokenCost' + WordCost' + BufferCost' + PhaseCost'
          < TokenCost + WordCost + BufferCost + PhaseCost
  BY <1>2, CostsAreInt, CostBounds, InvalidPays
<1>. QED  BY <1>1, <1>4, PartPays

LEMMA PhaseLeft ==
    ASSUME IInv, UNCHANGED <<file, taken, token, state, eof, offset, size>>,
           \/ pc = "read" /\ pc' \in {"loop", "parse", "done"}
           \/ pc = "parse" /\ pc' = "loop"
           \/ pc = "loop" /\ pc' \in {"visit", "done"}
           \/ pc = "visit" /\ pc' = "done"
    PROVE  StepsLeft' < StepsLeft
<1>1. MustFill' = MustFill
  BY DEF MustFill
<1>2. BufferCost' = BufferCost /\ TokenCost' = TokenCost /\ WordCost' = WordCost
  BY <1>1 DEF BufferCost, TokenCost, WordCost
<1>3. PhaseCost' < PhaseCost
  BY DEF PhaseCost
<1>4. BufferCost' + PhaseCost' < BufferCost + PhaseCost
  <2>1. BufferCost' <= BufferCost
    BY <1>2, CostsAreInt
  <2>. QED  BY <1>3, <2>1, CostsAreInt, PairFalls
<1>5. TokenCost' + WordCost' <= TokenCost + WordCost
  BY <1>2, CostsAreInt, CostBounds
<1>6. TokenCost' + WordCost' + BufferCost' + PhaseCost'
          < TokenCost + WordCost + BufferCost + PhaseCost
  BY <1>4, <1>5, CostsAreInt, SumFalls
<1>. QED  BY <1>6, PartPays

LEMMA ReadTokenLeft ==
    ASSUME IInv, ReadToken
    PROVE  StepsLeft' < StepsLeft
<1>1. CASE FillBuffer \/ SeeEnd \/ ReadError
  BY <1>1, FillLeft
<1>2. CASE ScanEnd
  <2>1. /\ pc = "read" /\ pc' \in {"loop", "parse", "done"}
        /\ UNCHANGED <<file, taken, token, state, eof, offset, size>>
    BY <1>2 DEF ScanEnd, Continue, scanning, buffering
  <2>. QED  BY <2>1, PhaseLeft
<1>. DEFINE Turns == ScanStart \/ ScanComment \/ ScanIdentifier \/ ScanString \/ ScanEscape \/ ScanHex
<1>3. ASSUME Turns, pc = "stale" PROVE StepsLeft' < StepsLeft
  BY <1>3, StaleLeft DEF ScanStart, ScanComment, ScanIdentifier, ScanString, ScanEscape, ScanHex
<1>4. ASSUME Turns, pc # "stale", size = -1 PROVE StepsLeft' < StepsLeft
  <2>1. InTurn
    BY <1>4 DEF ScanStart, ScanComment, ScanIdentifier, ScanString, ScanEscape, ScanHex
  <2>2. HasSymbol /\ state = "start" /\ Peek = NUL /\ pc = "read"
    BY <1>4, <2>1, FirstReadFailed DEF HasSymbol
  <2>3. Scan("invalid", "null", token.string, 1)
    BY <1>4, <2>2, ConfigAssumption
       DEF ScanStart, ScanComment, ScanIdentifier, ScanString, ScanEscape, ScanHex
  <2>. QED  BY <1>4, <2>2, <2>3, InvalidLeft
<1>5. ASSUME Turns, pc # "stale", size # -1 PROVE StepsLeft' < StepsLeft
  <2>1. HasSymbol
    BY <1>5 DEF ScanStart, ScanComment, ScanIdentifier, ScanString, ScanEscape, ScanHex, InTurn
  <2>2. CASE ScanIdentifier
    BY <1>5, <2>1, <2>2, SymbolLeft, IdentifierLeft DEF ScanIdentifier
  <2>3. CASE ScanStart
    BY <1>5, <2>1, <2>3, SymbolLeft DEF ScanStart
  <2>4. CASE ScanComment \/ ScanString
    BY <1>5, <2>1, <2>4, SymbolLeft DEF ScanComment, ScanString
  <2>5. CASE ScanEscape \/ ScanHex
    BY <1>5, <2>1, <2>5, SymbolLeft DEF ScanEscape, ScanHex
  <2>. QED  BY <1>5, <2>2, <2>3, <2>4, <2>5
<1>. QED  BY <1>1, <1>2, <1>3, <1>4, <1>5 DEF ReadToken

LEMMA NextTokenLeft ==
    ASSUME IInv, NextToken
    PROVE  StepsLeft' < StepsLeft
<1>1. /\ pc = "loop" /\ pc' = "read" /\ token.type # "null" /\ state' = "start"
      /\ UNCHANGED <<file, taken, eof, offset, size>>
  BY DEF NextToken, buffering
<1>2. token'.type = "null"
  BY DEF NextToken, NoToken
<1>3. MustFill' = MustFill
  BY <1>1 DEF MustFill
<1>4. TokenCost = 3 /\ TokenCost' = 0
  BY <1>1, <1>2 DEF TokenCost
<1>5. WordCost' = 0 /\ PhaseCost = 10 /\ PhaseCost' = 12
  BY <1>1 DEF WordCost, PhaseCost
<1>6. BufferCost' = BufferCost
  BY <1>1, <1>3 DEF BufferCost
<1>7. TokenCost' + WordCost' + BufferCost' + PhaseCost'
          < TokenCost + WordCost + BufferCost + PhaseCost
  BY <1>4, <1>5, <1>6, CostsAreInt, CostBounds
<1>. QED  BY <1>1, <1>7, PartPays

\* Every step of reading brings its end nearer: no file, closed or not, with errors
\* or without, and whichever of its reads fail, keeps lcfg_scanner_token_read or
\* lcfg_parser_parse in a circle, and a file is read in a number of steps that is
\* linear in its length.
THEOREM ReadingNeverCircles == Spec => [](StepsLeft \in Nat) /\ [][StepsLeft' < StepsLeft]_vars
<1>1. ASSUME IInv, Next PROVE StepsLeft' < StepsLeft
  <2>1. CASE ReadToken
    BY <1>1, <2>1, ReadTokenLeft
  <2>2. CASE ParseToken
    <3>1. pc = "parse" /\ Turn
      BY <2>2 DEF ParseToken, ParseKey, CloseMap, ParseEquals, ParseString, OpenListOrMap,
                  SkipComma, ListString, ListOpen, CloseList, RejectToken
    <3>2. pc' = "loop" /\ UNCHANGED <<file, taken, token, state, eof, offset, size>>
      BY <3>1 DEF Turn, buffering, scanning
    <3>. QED  BY <1>1, <3>1, <3>2, PhaseLeft
  <2>3. CASE NextToken
    BY <1>1, <2>3, NextTokenLeft
  <2>4. CASE ParseEnd \/ Visit
    <3>1. /\ \/ pc = "loop" /\ pc' \in {"visit", "done"}
             \/ pc = "visit" /\ pc' = "done"
          /\ UNCHANGED <<file, taken, token, state, eof, offset, size>>
      BY <2>4 DEF ParseEnd, Visit, buffering, scanning
    <3>. QED  BY <1>1, <3>1, PhaseLeft
  <2>. QED  BY <1>1, <2>1, <2>2, <2>3, <2>4 DEF Next
<1>2. IInv /\ [Next]_vars => [StepsLeft' < StepsLeft]_vars
  BY <1>1
<1>3. IInv => StepsLeft \in Nat
  BY StepsLeftFacts
<1>. QED  BY <1>2, <1>3, Invariance, PTL DEF Spec
=============================================================================
