------------------------- MODULE StreamReaderProofs -------------------------
(***************************************************************************)
(* Proofs about StreamReader, for any stacks, APDUs and number received.   *)
(* The invariant says where every copy is: the reads so far freed the      *)
(* first taken copies, the array holds the others in order, and a read in  *)
(* its second loop has cut the copies taken + i + 1 .. taken + samplesSize *)
(* out of it.                                                              *)
(***************************************************************************)
EXTENDS StreamReader, SequenceTheorems, TLAPS

-----------------------------------------------------------------------------
(* What the array macros return and preserve, for arrays of any length.    *)

\* Adding an element: the array grows by it, keeps its type, and stores no
\* pointer twice when the element is new (RTIDNP3_ARRAY_ADD_ELEMENT_EXPAND).
LEMMA AppendArray ==
    ASSUME NEW S, NEW arr \in Seq(S), NEW e \in S
    PROVE  /\ Append(arr, e) \in Seq(S)
           /\ ToSet(Append(arr, e)) = ToSet(arr) \cup {e}
           /\ IsInjective(arr) /\ e \notin ToSet(arr) => IsInjective(Append(arr, e))
<1>1. /\ Append(arr, e) \in Seq(S)
      /\ DOMAIN Append(arr, e) = DOMAIN arr \cup {Len(arr) + 1}
      /\ \A k \in DOMAIN arr : Append(arr, e)[k] = arr[k]
      /\ Append(arr, e)[Len(arr) + 1] = e
  OBVIOUS
<1>2. ToSet(Append(arr, e)) = ToSet(arr) \cup {e}
  BY <1>1, Zenon DEF ToSet
<1>3. ASSUME IsInjective(arr), e \notin ToSet(arr)
      PROVE  IsInjective(Append(arr, e))
  BY <1>1, <1>3, Zenon DEF IsInjective, ToSet
<1>. QED  BY <1>1, <1>2, <1>3

\* RemoveByIndex slot by slot.
LEMMA RemoveByIndexSlots ==
    ASSUME NEW S, NEW arr \in Seq(S), NEW x \in Indices(arr)
    PROVE  /\ RemoveByIndex(arr, x) \in Seq(S)
           /\ Len(RemoveByIndex(arr, x)) = Len(arr) - 1
           /\ DOMAIN RemoveByIndex(arr, x) = 1 .. Len(arr) - 1
           /\ \A k \in 1 .. Len(arr) - 1 :
                 RemoveByIndex(arr, x)[k] = IF k <= x THEN arr[k] ELSE arr[k + 1]
<1>1. /\ x \in Nat /\ x + 1 \in 1 .. Len(arr) /\ Len(arr) - 1 \in Nat
      /\ \A k \in 1 .. Len(arr) - 1 : k \in 1 .. Len(arr) /\ k + 1 \in 1 .. Len(arr)
  BY DEF Indices
<1>. QED  BY <1>1 DEF RemoveByIndex

-----------------------------------------------------------------------------
(* The inductive invariant.                                                *)

Gap == IF pc = "remove" THEN samplesSize - i ELSE 0

Queue ==
    /\ Len(apdus) = Len(received) - taken - Gap
    /\ \A k \in DOMAIN apdus :
          apdus[k] = IF pc = "remove" /\ k > i THEN taken + Gap + k ELSE taken + k
    /\ pc = "convert" => samplesSize <= Len(apdus)
    /\ pc = "remove" => i <= Len(apdus)
    /\ pc = "loan" => i = 0
    /\ freed = {k \in Copies : k <= taken
                               \/ (pc = "remove" /\ k > taken + i /\ k <= taken + samplesSize)}
    /\ ~ doubleFree

\* The copies the running read has looked at, of those the array held.
Looked == IF pc = "convert" THEN i ELSE IF pc = "remove" THEN samplesSize ELSE 0

Samples ==
    /\ pc \in {"convert", "remove"} =>
          /\ Mbox!Increasing(output)
          /\ ToSet(output) =
                {k \in taken + 1 .. taken + Looked : received[k] \in Convertible}
    /\ Mbox!Increasing(delivered)
    /\ ToSet(delivered) = Mbox!ConvertibleUpTo(taken)

Inv == TypeOK /\ Queue /\ Samples

-----------------------------------------------------------------------------
(* Increasing sequences.                                                   *)

\* A sequence over a set is one over any larger set.
LEMMA SeqMono ==
    ASSUME NEW S, NEW T, S \subseteq T, NEW s \in Seq(S)
    PROVE  s \in Seq(T)
<1>1. Len(s) \in Nat /\ s \in [1 .. Len(s) -> T]
  OBVIOUS
<1>. QED  BY <1>1

\* A larger element at the end keeps a sequence increasing.
LEMMA AppendIncreasing ==
    ASSUME NEW s \in Seq(Nat), NEW e \in Nat, Mbox!Increasing(s),
           \A x \in ToSet(s) : x < e
    PROVE  Mbox!Increasing(Append(s, e))
<1>1. \A k \in DOMAIN s : s[k] < e
  BY DEF ToSet
<1>2. /\ DOMAIN Append(s, e) = DOMAIN s \cup {Len(s) + 1}
      /\ \A k \in DOMAIN s : Append(s, e)[k] = s[k]
      /\ Append(s, e)[Len(s) + 1] = e
      /\ DOMAIN s = 1 .. Len(s)
  OBVIOUS
<1>. QED  BY <1>1, <1>2 DEF Mbox!Increasing

\* Concatenation: its elements, and when it is increasing.
LEMMA ConcatIncreasing ==
    ASSUME NEW s \in Seq(Nat), NEW t \in Seq(Nat)
    PROVE  /\ s \o t \in Seq(Nat)
           /\ ToSet(s \o t) = ToSet(s) \cup ToSet(t)
           /\ IsPrefix(s, s \o t)
           /\ Mbox!Increasing(s) /\ Mbox!Increasing(t)
              /\ (\A x \in ToSet(s), y \in ToSet(t) : x < y)
              => Mbox!Increasing(s \o t)
<1>. DEFINE r == s \o t
<1>1. /\ r \in Seq(Nat) /\ Len(r) = Len(s) + Len(t)
      /\ \A k \in 1 .. Len(s) : r[k] = s[k]
      /\ \A k \in 1 .. Len(t) : r[Len(s) + k] = t[k]
      /\ DOMAIN r = 1 .. Len(r) /\ DOMAIN s = 1 .. Len(s) /\ DOMAIN t = 1 .. Len(t)
      /\ Len(s) \in Nat /\ Len(t) \in Nat
  OBVIOUS
<1>2. \A k \in DOMAIN r : \/ k \in DOMAIN s /\ r[k] = s[k]
                          \/ k > Len(s) /\ k - Len(s) \in DOMAIN t /\ r[k] = t[k - Len(s)]
  <2>. SUFFICES ASSUME NEW k \in 1 .. Len(s) + Len(t), k > Len(s)
                PROVE  k - Len(s) \in 1 .. Len(t) /\ r[k] = t[k - Len(s)]
    BY <1>1
  <2>1. k - Len(s) \in 1 .. Len(t) /\ Len(s) + (k - Len(s)) = k
    BY <1>1
  <2>. QED  BY <1>1, <2>1, Zenon
<1>. HIDE DEF r
<1>3. ToSet(r) = ToSet(s) \cup ToSet(t)
  <2>1. ToSet(r) \subseteq ToSet(s) \cup ToSet(t)
    BY <1>2, Zenon DEF ToSet
  <2>2. ToSet(s) \subseteq ToSet(r)
    BY <1>1 DEF ToSet
  <2>3. \A k \in DOMAIN t : Len(s) + k \in DOMAIN r
    BY <1>1
  <2>4. ToSet(t) \subseteq ToSet(r)
    BY <1>1, <2>3, Zenon DEF ToSet
  <2>. QED  BY <2>1, <2>2, <2>4
<1>4. IsPrefix(s, r)
  BY <1>1 DEF IsPrefix
<1>5. ASSUME Mbox!Increasing(s), Mbox!Increasing(t),
             \A x \in ToSet(s), y \in ToSet(t) : x < y
      PROVE  Mbox!Increasing(r)
  <2>. SUFFICES ASSUME NEW j \in DOMAIN r, NEW k \in DOMAIN r, j < k
                PROVE  r[j] < r[k]
    BY DEF Mbox!Increasing
  <2>1. \A x \in DOMAIN s, y \in DOMAIN t : s[x] < t[y]
    BY <1>5 DEF ToSet
  <2>2. CASE j \in DOMAIN s /\ k \in DOMAIN s
    BY <1>1, <1>5, <2>2 DEF Mbox!Increasing
  <2>3. CASE j \in DOMAIN s /\ k \notin DOMAIN s
    BY <1>1, <1>2, <2>1, <2>3
  <2>4. CASE j \notin DOMAIN s
    <3>1. k \notin DOMAIN s
      BY <1>1, <2>4
    <3>2. j - Len(s) \in DOMAIN t /\ k - Len(s) \in DOMAIN t /\ j - Len(s) < k - Len(s)
      BY <1>1, <1>2, <2>4, <3>1
    <3>. QED  BY <1>2, <1>5, <2>4, <3>1, <3>2, Zenon DEF Mbox!Increasing
  <2>. QED  BY <2>2, <2>3, <2>4
<1>. QED  BY <1>1, <1>3, <1>4, <1>5 DEF r

-----------------------------------------------------------------------------
(* The invariant.                                                          *)

LEMMA InitInv == Init => Inv
<1>. SUFFICES ASSUME Init PROVE Inv
  OBVIOUS
<1>. USE DEF Init
<1>1. Len(received) = 0 /\ << >> \in Seq(Copies) /\ << >> \in Seq(APDUs)
  OBVIOUS
<1>2. TypeOK
  <2>1. /\ received \in Seq(APDUs) /\ apdus \in Seq(Copies)
        /\ output \in Seq(Copies) /\ delivered \in Seq(Copies)
    BY <1>1, Zenon
  <2>2. taken \in 0 .. Len(received) /\ samplesSize \in Nat /\ i \in 0 .. samplesSize
    BY <1>1
  <2>3. freed \subseteq Copies /\ notifying \subseteq Stacks
    OBVIOUS
  <2>4. notified \in BOOLEAN /\ doubleFree \in BOOLEAN
    BY Zenon
  <2>5. pc \in {"idle", "convert", "remove", "loan"}
    OBVIOUS
  <2>. QED  BY <2>1, <2>2, <2>3, <2>4, <2>5, Zenon DEF TypeOK
<1>4. Queue
  BY <1>1 DEF Queue, Gap, Copies
<1>3. Samples
  BY DEF Samples, ToSet, Mbox!Increasing, Mbox!ConvertibleUpTo
<1>. QED  BY <1>2, <1>3, <1>4 DEF Inv

LEMMA OnAPDUAppendInv ==
    ASSUME Inv, NEW s \in Stacks, NEW a \in APDUs, OnAPDUAppend(s, a)
    PROVE  Inv'
<1>. DEFINE n == Len(received)
<1>. USE DEF OnAPDUAppend, locals
<1>1. /\ received \in Seq(APDUs) /\ n \in Nat /\ apdus \in Seq(1 .. n)
      /\ received' \in Seq(APDUs) /\ Len(received') = n + 1
      /\ \A k \in 1 .. n : received'[k] = received[k]
  BY DEF Inv, TypeOK, Copies
<1>2. apdus \in Seq(1 .. n + 1) /\ n + 1 \in 1 .. n + 1
  <2>1. 1 .. n \subseteq 1 .. n + 1 /\ n + 1 \in 1 .. n + 1
    BY <1>1
  <2>. QED  BY <1>1, <2>1
<1>3. TypeOK'
  <2>1. apdus' \in Seq(1 .. n + 1)
    BY <1>2
  <2>2. output \in Seq(1 .. n + 1) /\ delivered \in Seq(1 .. n + 1) /\ freed \subseteq 1 .. n + 1
    BY <1>1 DEF Inv, TypeOK, Copies
  <2>. QED  BY <1>1, <2>1, <2>2 DEF Inv, TypeOK, Copies
<1>4. Queue'
  <2>1. /\ Len(apdus') = Len(apdus) + 1
        /\ \A k \in 1 .. Len(apdus) : apdus'[k] = apdus[k]
        /\ apdus'[Len(apdus) + 1] = n + 1
        /\ DOMAIN apdus = 1 .. Len(apdus) /\ DOMAIN apdus' = 1 .. Len(apdus) + 1
        /\ Len(apdus) \in Nat
    BY <1>1
  <2>2. Gap' = Gap /\ Gap \in Nat /\ Len(apdus) = n - taken - Gap /\ taken \in Nat
    BY DEF Inv, Queue, Gap, TypeOK, Copies
  <2>3. \A k \in DOMAIN apdus' :
           apdus'[k] = IF pc = "remove" /\ k > i THEN taken + Gap + k ELSE taken + k
    <3>1. pc = "remove" => i \in Nat /\ i <= Len(apdus)
      BY DEF Inv, Queue, TypeOK
    <3>2. pc # "remove" => Gap = 0
      BY DEF Gap
    <3>3. n + 1 = IF pc = "remove" /\ Len(apdus) + 1 > i
                  THEN taken + Gap + (Len(apdus) + 1) ELSE taken + (Len(apdus) + 1)
      <4>1. PICK len \in Nat : len = Len(apdus)
        BY <2>1
      <4>2. CASE pc = "remove"
        <5>1. len + 1 > i /\ taken + Gap + (len + 1) = n + 1
          BY <1>1, <2>2, <3>1, <4>1, <4>2
        <5>. QED  BY <4>1, <4>2, <5>1
      <4>3. CASE pc # "remove"
        BY <1>1, <2>2, <3>2, <4>1, <4>3
      <4>. QED  BY <4>2, <4>3
    <3>4. \A k \in DOMAIN apdus :
             apdus[k] = IF pc = "remove" /\ k > i THEN taken + Gap + k ELSE taken + k
      BY DEF Inv, Queue
    <3>. QED  BY <2>1, <3>3, <3>4
  <2>4. freed' = {k \in Copies' : k <= taken
                     \/ (pc = "remove" /\ k > taken + i /\ k <= taken + samplesSize)}
    <3>1. taken <= n /\ (pc = "remove" => taken + samplesSize <= n)
      BY <1>1, <2>1, <2>2 DEF Inv, Queue, Gap, TypeOK
    <3>2. i \in Nat /\ samplesSize \in Nat
      BY DEF Inv, TypeOK
    <3>. QED  BY <1>1, <2>2, <3>1, <3>2 DEF Inv, Queue, Copies
  <2>5. Len(apdus') = Len(received') - taken - Gap'
    BY <1>1, <2>1, <2>2
  <2>6. /\ pc = "convert" => samplesSize <= Len(apdus')
        /\ pc = "remove" => i <= Len(apdus')
        /\ pc = "loan" => i = 0
        /\ ~ doubleFree
    BY <2>1 DEF Inv, Queue, TypeOK
  <2>. QED  BY <2>2, <2>3, <2>4, <2>5, <2>6 DEF Queue
<1>5. Samples'
  <2>1. Looked' = Looked /\ Looked \in Nat /\ taken \in Nat /\ taken <= n
    BY DEF Inv, TypeOK, Looked, Copies
  <2>2. pc \in {"convert", "remove"} => taken + Looked <= n
    BY <1>1, <2>1 DEF Inv, Queue, Gap, TypeOK, Looked
  <2>3. Mbox!ConvertibleUpTo(taken)' = Mbox!ConvertibleUpTo(taken)
    BY <1>1, <2>1 DEF Mbox!ConvertibleUpTo
  <2>4. pc \in {"convert", "remove"} =>
           {k \in taken + 1 .. taken + Looked : received'[k] \in Convertible}
             = {k \in taken + 1 .. taken + Looked : received[k] \in Convertible}
    BY <1>1, <2>1, <2>2
  <2>. QED  BY <2>1, <2>3, <2>4 DEF Inv, Samples
<1>. QED  BY <1>3, <1>4, <1>5 DEF Inv

LEMMA OnAPDUNotifyInv ==
    ASSUME Inv, NEW s \in Stacks, OnAPDUNotify(s)
    PROVE  Inv'
<1>. USE DEF OnAPDUNotify, locals
<1>1. TypeOK' /\ Queue'
  BY DEF Inv, TypeOK, Copies, Queue, Gap
<1>2. Samples'
  BY DEF Inv, Samples, Looked, Mbox!ConvertibleUpTo
<1>. QED  BY <1>1, <1>2 DEF Inv

LEMMA ReadStartInv ==
    ASSUME Inv, ReadStart
    PROVE  Inv'
<1>. USE DEF ReadStart
<1>1. << >> \in Seq(Copies) /\ ToSet(<< >>) = {} /\ Mbox!Increasing(<< >>)
  BY DEF ToSet, Mbox!Increasing
<1>2. Len(apdus) \in Nat
  BY DEF Inv, TypeOK
<1>3. TypeOK'
  <2>1. samplesSize' \in Nat /\ i' \in 0 .. samplesSize' /\ output' \in Seq(Copies')
    BY <1>1, <1>2 DEF Copies
  <2>2. notified' \in BOOLEAN
    BY Zenon
  <2>. QED  BY <2>1, <2>2 DEF Inv, TypeOK, Copies
<1>4. Queue'
  BY <1>2 DEF Inv, TypeOK, Copies, Queue, Gap
<1>5. Samples'
  <2>1. {k \in taken + 1 .. taken + 0 : received[k] \in Convertible} = {}
    BY DEF Inv, TypeOK
  <2>2. Looked' = 0
    BY DEF Looked
  <2>. QED  BY <1>1, <2>1, <2>2 DEF Inv, Samples, Mbox!ConvertibleUpTo
<1>. QED  BY <1>3, <1>4, <1>5 DEF Inv

LEMMA ReadConvertInv ==
    ASSUME Inv, ReadConvert
    PROVE  Inv'
<1>. DEFINE copy == apdus[i + 1]
<1>. USE DEF ReadConvert
<1>1. /\ copy = taken + i + 1 /\ copy \in Copies
      /\ i \in Nat /\ samplesSize \in Nat /\ taken \in Nat /\ i + 1 <= samplesSize
  <2>1. /\ i \in Nat /\ samplesSize \in Nat /\ taken \in Nat /\ i + 1 <= samplesSize
        /\ apdus \in Seq(Copies) /\ samplesSize <= Len(apdus)
    BY DEF Inv, TypeOK, Queue
  <2>2. i + 1 \in DOMAIN apdus
    BY <2>1
  <2>3. copy = taken + (i + 1)
    BY <2>2, Zenon DEF Inv, Queue
  <2>. QED  BY <2>1, <2>2, <2>3
<1>. HIDE DEF copy
<1>2. output' = IF received[copy] \in Convertible THEN Append(output, copy) ELSE output
  BY DEF copy
<1>3. TypeOK'
  <2>1. output' \in Seq(Copies)
    BY <1>1, <1>2 DEF Inv, TypeOK
  <2>. QED  BY <1>1, <2>1 DEF Inv, TypeOK, Copies
<1>4. Queue'
  BY DEF Inv, Queue, Gap, Copies
<1>5. Samples'
  <2>. DEFINE C(n) == {k \in taken + 1 .. taken + n : received[k] \in Convertible}
  <2>1. Mbox!Increasing(output) /\ ToSet(output) = C(i)
    BY DEF Inv, Samples, Looked
  <2>2. output \in Seq(Nat) /\ output \in Seq(Copies) /\ copy \in Nat
    <3>1. Copies \subseteq Nat
      BY DEF Inv, TypeOK, Copies
    <3>2. output \in Seq(Copies)
      BY DEF Inv, TypeOK
    <3>. QED  BY <1>1, <3>1, <3>2, SeqMono
  <2>3. C(i + 1) = IF received[copy] \in Convertible THEN C(i) \cup {copy} ELSE C(i)
    <3>1. taken + 1 .. taken + (i + 1) = (taken + 1 .. taken + i) \cup {copy}
      BY <1>1
    <3>. QED  BY <3>1
  <2>4. \A x \in ToSet(output) : x < copy
    BY <1>1, <2>1
  <2>5. Mbox!Increasing(output') /\ ToSet(output') = C(i + 1)
    <3>1. CASE received[copy] \in Convertible
      BY <1>2, <2>1, <2>2, <2>3, <2>4, <3>1, AppendIncreasing, AppendArray
    <3>2. CASE received[copy] \notin Convertible
      BY <1>2, <2>1, <2>3, <3>2
    <3>. QED  BY <3>1, <3>2
  <2>6. Looked' = i + 1
    BY DEF Looked
  <2>. QED  BY <2>5, <2>6 DEF Inv, Samples, Mbox!ConvertibleUpTo
<1>. QED  BY <1>3, <1>4, <1>5 DEF Inv

LEMMA ReadConvertedInv ==
    ASSUME Inv, ReadConverted
    PROVE  Inv'
<1>. USE DEF ReadConverted
<1>1. i = samplesSize /\ samplesSize \in Nat /\ taken \in Nat
  BY DEF Inv, TypeOK
<1>2. TypeOK'
  BY DEF Inv, TypeOK, Copies
<1>3. Queue'
  <2>1. Gap' = 0 /\ Gap = 0
    BY <1>1 DEF Gap
  <2>2. \A k \in DOMAIN apdus : k \in Nat /\ apdus[k] = taken + k
    BY DEF Inv, TypeOK, Queue
  <2>3. \A k \in DOMAIN apdus : apdus[k] = IF k > i THEN taken + 0 + k ELSE taken + k
    BY <1>1, <2>2
  <2>4. \A k \in Copies : ~ (k > taken + i /\ k <= taken + samplesSize)
    BY <1>1 DEF Copies
  <2>. QED  BY <1>1, <2>1, <2>3, <2>4 DEF Inv, Queue, Copies
<1>4. Samples'
  BY <1>1 DEF Inv, Samples, Looked, Mbox!ConvertibleUpTo
<1>. QED  BY <1>2, <1>3, <1>4 DEF Inv

LEMMA ReadRemoveInv ==
    ASSUME Inv, ReadRemove
    PROVE  Inv'
<1>. USE DEF ReadRemove
<1>. DEFINE L == Len(apdus)
<1>1. /\ i \in Nat /\ i > 0 /\ samplesSize \in Nat /\ i <= samplesSize /\ taken \in Nat
      /\ L \in Nat /\ i <= L /\ i \in DOMAIN apdus /\ DOMAIN apdus = 1 .. L
      /\ Len(received) \in Nat /\ L = Len(received) - taken - (samplesSize - i)
      /\ apdus \in Seq(Copies)
  BY DEF Inv, TypeOK, Queue, Gap
<1>2. apdus[i] = taken + i
  <2>1. ~ (i > i)
    BY <1>1
  <2>. QED  BY <1>1, <2>1, Zenon DEF Inv, Queue
<1>3. apdus[i] \in Copies /\ apdus[i] \notin freed
  BY <1>1, <1>2 DEF Inv, Queue
<1>4. PICK j \in Nat : j = i - 1
  BY <1>1
<1>5. j \in Indices(apdus)
  BY <1>1, <1>4 DEF Indices
<1>6. /\ apdus' \in Seq(Copies)
      /\ DOMAIN apdus' = 1 .. L - 1 /\ Len(apdus') = L - 1
      /\ \A k \in 1 .. L - 1 : apdus'[k] = IF k <= j THEN apdus[k] ELSE apdus[k + 1]
  <2>1. apdus' = RemoveByIndex(apdus, j)
    BY <1>4
  <2>. DEFINE rest == RemoveByIndex(apdus, j)
  <2>2. apdus \in Seq(Copies)
    BY <1>1
  <2>3. /\ rest \in Seq(Copies) /\ Len(rest) = Len(apdus) - 1
        /\ DOMAIN rest = 1 .. Len(apdus) - 1
        /\ \A k \in 1 .. Len(apdus) - 1 : rest[k] = IF k <= j THEN apdus[k] ELSE apdus[k + 1]
    BY ONLY <1>5, <2>2, RemoveByIndexSlots
  <2>. HIDE DEF rest
  <2>4. apdus' = rest
    BY <2>1 DEF rest
  <2>. QED  BY <2>3, <2>4, Zenon
<1>7. TypeOK'
  <2>1. freed' \subseteq Copies /\ j \in 0 .. samplesSize /\ i' = j /\ apdus' \in Seq(Copies)
    BY <1>1, <1>3, <1>4, <1>6 DEF Inv, TypeOK
  <2>2. doubleFree' \in BOOLEAN
    BY <1>3 DEF Inv, TypeOK
  <2>. QED  BY <2>1, <2>2 DEF Inv, TypeOK, Copies
<1>8. Queue'
  <2>1. Gap' = samplesSize - j /\ Gap = samplesSize - i /\ pc = "remove" /\ pc' = "remove"
    BY <1>4 DEF Gap
  <2>2. \A k \in 1 .. L - 1 :
           apdus'[k] = IF k > j THEN taken + (samplesSize - j) + k ELSE taken + k
    <3>. TAKE k \in 1 .. L - 1
    <3>1. \A m \in 1 .. L :
             apdus[m] = IF m > i THEN taken + (samplesSize - i) + m ELSE taken + m
      BY <1>1, <2>1 DEF Inv, Queue
    <3>2. CASE k <= j
      <4>1. k \in 1 .. L /\ ~ (k > i) /\ ~ (k > j)
        BY <1>1, <1>4, <3>2
      <4>2. apdus'[k] = apdus[k] /\ apdus[k] = taken + k
        BY <1>6, <3>1, <3>2, <4>1, Zenon
      <4>. QED  BY <4>1, <4>2, Zenon
    <3>3. CASE k > j
      <4>1. PICK m \in 1 .. L : m = k + 1
        BY <1>1
      <4>2. apdus'[k] = apdus[m] /\ m > i
        <5>1. m > i /\ ~ (k <= j)
          BY <1>1, <1>4, <3>3, <4>1
        <5>2. apdus'[k] = apdus[k + 1]
          BY <1>6, <5>1, Zenon
        <5>. QED  BY <4>1, <5>1, <5>2, Zenon
      <4>3. apdus[m] = taken + (samplesSize - i) + m
        BY <3>1, <4>2
      <4>4. taken + (samplesSize - i) + m = taken + (samplesSize - j) + k
        BY <1>1, <1>4, <4>1
      <4>5. apdus'[k] = taken + (samplesSize - j) + k
        BY <4>2, <4>3, <4>4, Zenon
      <4>. QED  BY <3>3, <4>5, Zenon
    <3>4. k <= j \/ k > j
      BY <1>1, <1>4
    <3>. QED  BY <3>2, <3>3, <3>4, Zenon
  <2>3. freed' = {k \in Copies : k <= taken
                     \/ (k > taken + j /\ k <= taken + samplesSize)}
    <3>1. freed = {k \in Copies : k <= taken
                     \/ (k > taken + i /\ k <= taken + samplesSize)}
      BY <2>1 DEF Inv, Queue
    <3>2. \A k \in Copies : k \in Nat /\ (k > taken + j <=> k > taken + i \/ k = taken + i)
      BY <1>1, <1>4 DEF Copies
    <3>3. \A k \in Copies : k = taken + i => k <= taken + samplesSize
      BY <1>1
    <3>. QED  BY <1>2, <1>3, <3>1, <3>2, <3>3
  <2>4. ~ doubleFree'
    BY <1>3 DEF Inv, Queue
  <2>5. Len(apdus') = Len(received) - taken - (samplesSize - j) /\ j <= Len(apdus')
    BY <1>1, <1>4, <1>6
  <2>. QED  BY <1>4, <1>6, <2>1, <2>2, <2>3, <2>4, <2>5 DEF Queue, Copies
<1>9. Samples'
  BY DEF Inv, Samples, Looked, Mbox!ConvertibleUpTo
<1>. QED  BY <1>7, <1>8, <1>9 DEF Inv

LEMMA ReadReturnInv ==
    ASSUME Inv, ReadReturn
    PROVE  Inv' /\ Mbox!Take
<1>. USE DEF ReadReturn
<1>. DEFINE t == taken + samplesSize
            C == {k \in taken + 1 .. taken + samplesSize : received[k] \in Convertible}
<1>1. /\ samplesSize \in Nat /\ taken \in Nat /\ Len(received) \in Nat
      /\ Len(apdus) \in Nat /\ DOMAIN apdus = 1 .. Len(apdus)
      /\ Len(apdus) = Len(received) - taken - samplesSize /\ i = 0
  BY DEF Inv, TypeOK, Queue, Gap
<1>2. t \in taken .. Len(received) /\ t \in 0 .. Len(received)
  BY <1>1
<1>3. output \in Seq(Nat) /\ delivered \in Seq(Nat)
  <2>1. Copies \subseteq Nat /\ output \in Seq(Copies) /\ delivered \in Seq(Copies)
    BY DEF Inv, TypeOK, Copies
  <2>. QED  BY <2>1, SeqMono
<1>4. /\ Mbox!Increasing(output) /\ ToSet(output) = C
      /\ Mbox!Increasing(delivered) /\ ToSet(delivered) = Mbox!ConvertibleUpTo(taken)
  BY DEF Inv, Samples, Looked
<1>5. Mbox!ConvertibleUpTo(t) = Mbox!ConvertibleUpTo(taken) \cup C
  <2>1. 1 .. t = (1 .. taken) \cup (taken + 1 .. taken + samplesSize)
    BY <1>1
  <2>. QED  BY <2>1 DEF Mbox!ConvertibleUpTo
<1>6. \A x \in ToSet(delivered), y \in ToSet(output) : x < y
  BY <1>1, <1>4 DEF Mbox!ConvertibleUpTo
<1>7. /\ Mbox!Increasing(delivered') /\ IsPrefix(delivered, delivered')
      /\ ToSet(delivered') = Mbox!ConvertibleUpTo(t)
  <2>1. delivered' = delivered \o output
    OBVIOUS
  <2>. QED  BY <1>3, <1>4, <1>5, <1>6, <2>1, ConcatIncreasing
<1>8. Mbox!Take
  <2>1. taken' = t /\ received' = received
    OBVIOUS
  <2>2. /\ Mbox!ToSet(delivered') = ToSet(delivered')
        /\ Mbox!IsPrefix(delivered, delivered') = IsPrefix(delivered, delivered')
    BY Zenon DEF Mbox!ToSet, ToSet, Mbox!IsPrefix, IsPrefix
  <2>. QED  BY <1>2, <1>7, <2>1, <2>2, Zenon DEF Mbox!Take
<1>9. TypeOK'
  <2>1. delivered' \in Seq(Copies)
    BY DEF Inv, TypeOK
  <2>. QED  BY <1>2, <2>1 DEF Inv, TypeOK, Copies
<1>10. Queue'
  <2>1. \A k \in DOMAIN apdus : apdus[k] = t + k
    <3>1. \A k \in DOMAIN apdus : k \in Nat /\ k > 0 /\ apdus[k] = taken + samplesSize + k
      BY <1>1 DEF Inv, Queue, Gap
    <3>. QED  BY <1>1, <3>1
  <2>2. freed = {k \in Copies : k <= t}
    BY <1>1 DEF Inv, Queue, Copies
  <2>. QED  BY <1>1, <2>1, <2>2 DEF Inv, Queue, Gap, Copies
<1>11. Samples'
  <2>1. Mbox!ConvertibleUpTo(taken)' = Mbox!ConvertibleUpTo(t)
    BY DEF Mbox!ConvertibleUpTo
  <2>. QED  BY <1>7, <2>1 DEF Samples
<1>. QED  BY <1>8, <1>9, <1>10, <1>11 DEF Inv

LEMMA ReturnLoanInv ==
    ASSUME Inv, ReturnLoan
    PROVE  Inv'
<1>. USE DEF ReturnLoan
<1>1. << >> \in Seq(Copies)
  OBVIOUS
<1>2. TypeOK'
  <2>1. i = 0 /\ i \in 0 .. 0
    BY DEF Inv, Queue
  <2>. QED  BY <1>1, <2>1 DEF Inv, TypeOK, Copies
<1>3. Queue' /\ Samples'
  BY DEF Inv, TypeOK, Queue, Gap, Copies, Samples, Looked, Mbox!ConvertibleUpTo
<1>. QED  BY <1>2, <1>3 DEF Inv

-----------------------------------------------------------------------------
(* Every step, and the theorems.                                           *)

\* A step keeps the invariant, and is a step of the mailbox.
LEMMA NextInv ==
    ASSUME Inv, [Next]_vars
    PROVE  Inv' /\ [Mbox!MailboxNext]_(Mbox!mailbox)
<1>. USE DEF Mbox!mailbox
<1>1. CASE UNCHANGED vars
  <2>1. Inv'
    BY <1>1 DEF vars, Inv, TypeOK, Copies, Queue, Gap, Samples, Looked,
                Mbox!ConvertibleUpTo
  <2>. QED  BY <1>1, <2>1 DEF vars
<1>2. ASSUME NEW s \in Stacks, NEW a \in APDUs, OnAPDUAppend(s, a)
      PROVE  Inv' /\ Mbox!MailboxNext
  <2>1. Mbox!Accept(a)
    BY <1>2 DEF OnAPDUAppend, Mbox!Accept
  <2>. QED  BY <1>2, <2>1, OnAPDUAppendInv DEF Mbox!MailboxNext
<1>3. ASSUME NEW s \in Stacks, OnAPDUNotify(s)
      PROVE  Inv' /\ UNCHANGED Mbox!mailbox
  BY <1>3, OnAPDUNotifyInv DEF OnAPDUNotify
<1>4. CASE ReadStart
  BY <1>4, ReadStartInv DEF ReadStart
<1>5. CASE ReadConvert
  BY <1>5, ReadConvertInv DEF ReadConvert
<1>6. CASE ReadConverted
  BY <1>6, ReadConvertedInv DEF ReadConverted
<1>7. CASE ReadRemove
  BY <1>7, ReadRemoveInv DEF ReadRemove
<1>8. CASE ReadReturn
  BY <1>8, ReadReturnInv DEF Mbox!MailboxNext
<1>9. CASE ReturnLoan
  BY <1>9, ReturnLoanInv DEF ReturnLoan
<1>. QED
  BY <1>1, <1>2, <1>3, <1>4, <1>5, <1>6, <1>7, <1>8, <1>9 DEF Next, ReadStep

LEMMA InvHolds == Spec => []Inv
<1>1. Inv /\ [Next]_vars => Inv'
  BY NextInv
<1>. QED  BY InitInv, <1>1, PTL DEF Spec

\* The state of the reader keeps its type.
THEOREM ReaderTypeCorrect == Spec => []TypeOK
<1>1. Inv => TypeOK
  BY DEF Inv
<1>. QED  BY InvHolds, <1>1, PTL

\* However many APDUs arrive while a read runs, each copy waits in the array once or
\* was freed once (the two loops of DNP3StreamReader_read over one snapshot of the
\* size).
THEOREM NothingLostOrFreedTwice == Spec => []CopiesAccounted
<1>1. ASSUME Inv PROVE CopiesAccounted
  <2>1. /\ DOMAIN apdus = 1 .. Len(apdus) /\ Len(apdus) \in Nat /\ taken \in Nat
        /\ Len(received) \in Nat /\ samplesSize \in Nat /\ i \in Nat /\ i <= samplesSize
    BY <1>1 DEF Inv, TypeOK
  <2>2. CASE pc = "remove"
    <3>1. /\ \A k \in 1 .. Len(apdus) :
               apdus[k] = IF k > i THEN taken + (samplesSize - i) + k ELSE taken + k
          /\ Len(apdus) = Len(received) - taken - (samplesSize - i) /\ i <= Len(apdus)
      BY <1>1, <2>1, <2>2 DEF Inv, Queue, Gap
    <3>2. IsInjective(apdus)
      BY <2>1, <3>1 DEF IsInjective
    <3>3. ToSet(apdus) \subseteq Copies \ freed
      <4>1. freed = {c \in Copies : c <= taken \/ (c > taken + i /\ c <= taken + samplesSize)}
        BY <1>1, <2>2 DEF Inv, Queue
      <4>2. ASSUME NEW k \in 1 .. Len(apdus) PROVE apdus[k] \in Copies \ freed
        <5>1. CASE k > i
          <6>1. apdus[k] = taken + (samplesSize - i) + k
            BY <3>1, <5>1
          <6>. QED  BY <2>1, <3>1, <4>1, <5>1, <6>1 DEF Copies
        <5>2. CASE ~ (k > i)
          <6>1. apdus[k] = taken + k
            BY <3>1, <5>2
          <6>. QED  BY <2>1, <3>1, <4>1, <5>2, <6>1 DEF Copies
        <5>. QED  BY <5>1, <5>2
      <4>. QED  BY <2>1, <4>2 DEF ToSet
    <3>4. ASSUME NEW c \in Copies \ freed PROVE c \in ToSet(apdus)
      <4>1. c \in Nat /\ c > taken /\ (c <= taken + i \/ c > taken + samplesSize)
            /\ c <= Len(received)
        BY <1>1, <2>1, <2>2 DEF Copies, Inv, Queue
      <4>2. PICK k \in 1 .. Len(apdus) :
               c = IF k > i THEN taken + (samplesSize - i) + k ELSE taken + k
        <5>1. CASE c <= taken + i
          <6>1. PICK k \in 1 .. Len(apdus) : k = c - taken
            BY <2>1, <3>1, <4>1, <5>1
          <6>2. k <= i /\ c = taken + k
            BY <2>1, <4>1, <5>1, <6>1
          <6>. QED  BY <2>1, <6>2
        <5>2. CASE c > taken + samplesSize
          <6>1. PICK k \in 1 .. Len(apdus) : k = c - taken - (samplesSize - i)
            BY <2>1, <3>1, <4>1, <5>2
          <6>2. k > i /\ c = taken + (samplesSize - i) + k
            BY <2>1, <4>1, <5>2, <6>1
          <6>. QED  BY <2>1, <6>2
        <5>. QED  BY <4>1, <5>1, <5>2
      <4>. QED  BY <2>1, <3>1, <4>2, Zenon DEF ToSet
    <3>. QED  BY <1>1, <3>2, <3>3, <3>4 DEF CopiesAccounted, Inv, Queue
  <2>3. CASE pc # "remove"
    <3>1. /\ \A k \in 1 .. Len(apdus) : apdus[k] = taken + k
          /\ Len(apdus) = Len(received) - taken
          /\ freed = {k \in Copies : k <= taken}
      BY <1>1, <2>1, <2>3 DEF Inv, Queue, Gap
    <3>2. IsInjective(apdus)
      BY <2>1, <3>1 DEF IsInjective
    <3>3. ToSet(apdus) \subseteq Copies \ freed
      BY <2>1, <3>1 DEF ToSet, Copies
    <3>4. ASSUME NEW c \in Copies \ freed PROVE c \in ToSet(apdus)
      <4>1. c - taken \in 1 .. Len(apdus) /\ taken + (c - taken) = c
        BY <2>1, <3>1 DEF Copies
      <4>. QED  BY <2>1, <3>1, <4>1, Zenon DEF ToSet
    <3>. QED  BY <1>1, <3>2, <3>3, <3>4 DEF CopiesAccounted, Inv, Queue
  <2>. QED  BY <2>2, <2>3
<1>. QED  BY InvHolds, <1>1, PTL

\* No step loses a wake-up: the append precedes on_data_available, and read clears
\* the notification when it takes the size of the array.
THEOREM WakeupsKept == Spec => []NoLostWakeup
<1>1. Init => NoLostWakeup
  BY DEF Init, NoLostWakeup
<1>2. ASSUME Inv, NoLostWakeup, [Next]_vars PROVE NoLostWakeup'
  <2>1. /\ Len(apdus) \in Nat /\ i \in Nat /\ samplesSize \in Nat /\ i <= samplesSize
        /\ pc = "remove" => i <= Len(apdus)
    BY <1>2 DEF Inv, TypeOK, Queue
  <2>. USE <1>2, <2>1 DEF NoLostWakeup
  <2>2. CASE UNCHANGED vars
    BY <2>2 DEF vars
  <2>3. ASSUME NEW s \in Stacks, NEW a \in APDUs, OnAPDUAppend(s, a)
        PROVE  NoLostWakeup'
    BY <2>3 DEF OnAPDUAppend, locals
  <2>4. ASSUME NEW s \in Stacks, OnAPDUNotify(s)
        PROVE  NoLostWakeup'
    BY <2>4 DEF OnAPDUNotify, locals
  <2>5. CASE ReadStart
    BY <2>5 DEF ReadStart
  <2>6. CASE ReadConvert
    BY <2>6 DEF ReadConvert
  <2>7. CASE ReadConverted
    BY <2>7 DEF ReadConverted
  <2>8. CASE ReadRemove
    <3>1. i - 1 \in Indices(apdus) /\ apdus \in Seq(Copies)
      BY <2>8 DEF ReadRemove, Indices, Inv, TypeOK
    <3>2. Len(apdus') = Len(apdus) - 1
      BY <2>8, <3>1, RemoveByIndexSlots DEF ReadRemove
    <3>. QED  BY <2>8, <3>2 DEF ReadRemove
  <2>9. CASE ReadReturn
    BY <2>9 DEF ReadReturn
  <2>10. CASE ReturnLoan
    BY <2>10 DEF ReturnLoan
  <2>. QED
    BY <2>2, <2>3, <2>4, <2>5, <2>6, <2>7, <2>8, <2>9, <2>10 DEF Next, ReadStep
<1>. QED  BY InvHolds, <1>1, <1>2, PTL DEF Spec

\* The reader implements the mailbox: every APDU received is handed out once, in
\* order, unless it does not convert.
THEOREM ReaderIsMailbox == Spec => ImplementsMailbox
<1>1. Init => Mbox!MailboxInit
  BY DEF Init, Mbox!MailboxInit
<1>2. Inv /\ [Next]_vars => [Mbox!MailboxNext]_(Mbox!mailbox)
  BY NextInv
<1>. QED  BY InvHolds, <1>1, <1>2, PTL DEF Spec, ImplementsMailbox, Mbox!MailboxSpec

-----------------------------------------------------------------------------
(* A read comes to an end.  That its thread runs is a matter of fairness,  *)
(* and of TLC; that APDUs do not keep it running is not.                   *)

\* The steps that the read now running still has before it.
ToDo == CASE pc = "idle"    -> 0
          [] pc = "loan"    -> 1
          [] pc = "remove"  -> i + 2
          [] pc = "convert" -> (samplesSize - i) + samplesSize + 3

LEMMA ToDoIsNat == TypeOK => ToDo \in Nat
  BY DEF TypeOK, ToDo

\* Each step of a read has an exact place in its count.
LEMMA ReadStepCounts ==
    ASSUME Inv, ReadStep
    PROVE  ToDo' = ToDo - 1
<1>1. samplesSize \in Nat /\ i \in Nat /\ i <= samplesSize
  BY DEF Inv, TypeOK
<1>2. CASE ReadConvert
  BY <1>1, <1>2 DEF ReadConvert, ToDo
<1>3. CASE ReadConverted
  BY <1>1, <1>3 DEF ReadConverted, ToDo
<1>4. CASE ReadRemove
  BY <1>1, <1>4 DEF ReadRemove, ToDo
<1>5. CASE ReadReturn
  BY <1>1, <1>5 DEF ReadReturn, ToDo
<1>6. CASE ReturnLoan
  BY <1>1, <1>6 DEF ReturnLoan, ToDo
<1>. QED  BY <1>2, <1>3, <1>4, <1>5, <1>6 DEF ReadStep

\* A read that begins has two steps for each APDU then in the array and three more,
\* and each of its steps leaves one less: DNP3StreamReader_read and its return of
\* the loan run as long as the array was when the read took its size, however many
\* APDUs the threads of the stacks append while its two loops run.
THEOREM ArrivalsDoNotProlongReads ==
    Spec => /\ [](ToDo \in Nat)
            /\ [][\/ pc = "idle" /\ ToDo' = 2 * Len(apdus) + 3
                  \/ pc # "idle" /\ ToDo' = ToDo - 1
                  \/ UNCHANGED locals /\ ToDo' = ToDo]_vars
<1>1. Inv => ToDo \in Nat
  BY ToDoIsNat DEF Inv
<1>2. ASSUME Inv, Next
      PROVE  \/ pc = "idle" /\ ToDo' = 2 * Len(apdus) + 3
             \/ pc # "idle" /\ ToDo' = ToDo - 1
             \/ UNCHANGED locals /\ ToDo' = ToDo
  <2>1. CASE \E s \in Stacks : OnAPDUNotify(s) \/ \E a \in APDUs : OnAPDUAppend(s, a)
    <3>1. UNCHANGED locals
      BY <2>1 DEF OnAPDUNotify, OnAPDUAppend
    <3>. QED  BY <3>1 DEF locals, ToDo
  <2>2. CASE ReadStart
    <3>1. Len(apdus) \in Nat
      BY <1>2 DEF Inv, TypeOK
    <3>2. pc = "idle" /\ ToDo' = (Len(apdus) - 0) + Len(apdus) + 3
      BY <2>2 DEF ReadStart, ToDo
    <3>. QED  BY <3>1, <3>2
  <2>3. CASE ReadStep
    <3>1. pc # "idle"
      BY <2>3 DEF ReadStep, ReadConvert, ReadConverted, ReadRemove, ReadReturn, ReturnLoan
    <3>. QED  BY <1>2, <2>3, <3>1, ReadStepCounts
  <2>. QED  BY <1>2, <2>1, <2>2, <2>3 DEF Next
<1>3. Inv /\ [Next]_vars => [\/ pc = "idle" /\ ToDo' = 2 * Len(apdus) + 3
                             \/ pc # "idle" /\ ToDo' = ToDo - 1
                             \/ UNCHANGED locals /\ ToDo' = ToDo]_vars
  BY <1>2
<1>. QED  BY InvHolds, <1>1, <1>3, PTL DEF Spec
=============================================================================
