--------------------------- MODULE DispatchProofs ---------------------------
(***************************************************************************)
(* The safety of Dispatch, for any stacks and readers, as Dispatch has     *)
(* them: each use of an array macro is one step (see RacingDispatch).      *)
(*                                                                         *)
(* A callback splits the readers that were there when it began into those  *)
(* it called, those ahead of its index, and those that passed: the         *)
(* readers a removal moved below the index before they were called.  The   *)
(* argument is that a called reader is never ahead, and that the readers   *)
(* that passed are no more than the removals.                              *)
(***************************************************************************)
EXTENDS Dispatch, FiniteSetTheorems, TLAPS

-----------------------------------------------------------------------------
(* What the array macros return and preserve, for arrays of any length.    *)

\* Adding an element: the array grows by it, keeps its type, and stores no
\* pointer twice when the element is new (RTIDNP3_ARRAY_ADD_ELEMENT_EXPAND).
LEMMA AppendArray ==
    ASSUME NEW S, NEW arr \in Seq(S), NEW e \in S
    PROVE  /\ Append(arr, e) \in Seq(S)
           /\ ToSet(Append(arr, e)) = ToSet(arr) \cup {e}
           /\ IsInjective(arr) /\ e \notin ToSet(arr) => IsInjective(Append(arr, e))
<1>1. /\ Append(arr, e) \in Seq(S)
      /\ DOMAIN Append(arr, e) = DOMAIN arr \cup {Len(arr) + 1}
      /\ \A k \in DOMAIN arr : Append(arr, e)[k] = arr[k]
      /\ Append(arr, e)[Len(arr) + 1] = e
  OBVIOUS
<1>2. ToSet(Append(arr, e)) = ToSet(arr) \cup {e}
  BY <1>1, Zenon DEF ToSet
<1>3. ASSUME IsInjective(arr), e \notin ToSet(arr)
      PROVE  IsInjective(Append(arr, e))
  BY <1>1, <1>3, Zenon DEF IsInjective, ToSet
<1>. QED  BY <1>1, <1>2, <1>3

\* RemoveByIndex slot by slot.
LEMMA RemoveByIndexSlots ==
    ASSUME NEW S, NEW arr \in Seq(S), NEW x \in Indices(arr)
    PROVE  /\ RemoveByIndex(arr, x) \in Seq(S)
           /\ Len(RemoveByIndex(arr, x)) = Len(arr) - 1
           /\ DOMAIN RemoveByIndex(arr, x) = 1 .. Len(arr) - 1
           /\ \A k \in 1 .. Len(arr) - 1 :
                 RemoveByIndex(arr, x)[k] = IF k <= x THEN arr[k] ELSE arr[k + 1]
<1>1. /\ x \in Nat /\ x + 1 \in 1 .. Len(arr) /\ Len(arr) - 1 \in Nat
      /\ \A k \in 1 .. Len(arr) - 1 : k \in 1 .. Len(arr) /\ k + 1 \in 1 .. Len(arr)
  BY DEF Indices
<1>. QED  BY <1>1 DEF RemoveByIndex

\* Removing a slot of an array without repetitions removes exactly the element
\* stored there, and leaves an array without repetitions.
LEMMA RemoveByIndexElements ==
    ASSUME NEW S, NEW arr \in Seq(S), NEW x \in Indices(arr), IsInjective(arr)
    PROVE  /\ ToSet(RemoveByIndex(arr, x)) = ToSet(arr) \ {arr[x + 1]}
           /\ IsInjective(RemoveByIndex(arr, x))
<1>. DEFINE rem == RemoveByIndex(arr, x)
            at(k) == IF k <= x THEN k ELSE k + 1
<1>1. /\ x \in Int /\ x + 1 \in 1 .. Len(arr) /\ Len(arr) \in Nat
      /\ DOMAIN arr = 1 .. Len(arr)
  BY DEF Indices
<1>2. DOMAIN rem = 1 .. Len(arr) - 1
  BY RemoveByIndexSlots
<1>3. \A k \in DOMAIN rem : rem[k] = arr[at(k)]
  BY <1>2, RemoveByIndexSlots
<1>. HIDE DEF rem
<1>4. \A k \in DOMAIN rem : at(k) \in DOMAIN arr /\ at(k) # x + 1
  BY <1>1, <1>2
<1>5. \A j \in DOMAIN arr : j # x + 1 => \E k \in DOMAIN rem : at(k) = j
  <2>. SUFFICES ASSUME NEW j \in DOMAIN arr, j # x + 1
                PROVE  \E k \in DOMAIN rem : at(k) = j
    OBVIOUS
  <2>1. CASE j <= x
    <3>1. j \in DOMAIN rem /\ at(j) = j
      BY <2>1, <1>1, <1>2
    <3>. QED  BY <3>1
  <2>2. CASE j > x + 1
    <3>1. j - 1 \in DOMAIN rem /\ at(j - 1) = j
      BY <2>2, <1>1, <1>2
    <3>. QED  BY <3>1
  <2>. QED  BY <2>1, <2>2, <1>1
<1>6. \A j, k \in DOMAIN rem : at(j) = at(k) => j = k
  BY <1>1, <1>2
<1>. HIDE DEF at
<1>7. IsInjective(rem)
  BY <1>3, <1>4, <1>6 DEF IsInjective
<1>8. ToSet(rem) = ToSet(arr) \ {arr[x + 1]}
  BY <1>1, <1>3, <1>4, <1>5 DEF ToSet, IsInjective
<1>. QED  BY <1>7, <1>8 DEF rem

-----------------------------------------------------------------------------
(* The inductive invariant.                                                *)

NextIndex(s) == IF pc[s] = "loop" THEN i[s] ELSE i[s] + 1

\* The listeners that the loop of s has yet to fetch.
Ahead(s) == {listeners[k] : k \in {j \in DOMAIN listeners : j > NextIndex(s)}}

\* The readers that the callback of s gave its APDU to, or is about to.
Called(s) == ToSet(delivered[s]) \cup (IF InHand(s) THEN {listener[s]} ELSE {})

Passed(s) == (wanted[s] \cap began[s].listeners) \ (removed \cup Called(s) \cup Ahead(s))

Idle(s) == pc[s] = "idle" => i[s] = 0 /\ delivered[s] = << >>

\* What a callback remembers is of the past.
Since(s) == pc[s] # "idle" =>
    /\ began[s].removed \subseteq removed
    /\ began[s].listeners \subseteq Known /\ IsFiniteSet(began[s].listeners)
    /\ Called(s) \subseteq Known \ began[s].removed

Once(s) == pc[s] # "idle" =>
    /\ IsInjective(delivered[s])
    /\ InHand(s) => listener[s] \notin ToSet(delivered[s])
    /\ Called(s) \cap Ahead(s) = {}

Bounded(s) == pc[s] # "idle" => Cardinality(Passed(s)) <= Cardinality(Removals(s))

Local(s) == Idle(s) /\ Since(s) /\ Once(s) /\ Bounded(s)

IInv == TypeOK /\ \A s \in Stacks : Local(s)

-----------------------------------------------------------------------------
(* The types.                                                              *)

LEMMA IndexOfListener ==
    ASSUME TypeOK, NEW r \in ToSet(listeners)
    PROVE  IndexOf(r) \in Indices(listeners) /\ listeners[IndexOf(r) + 1] = r
<1>1. PICK k \in DOMAIN listeners : listeners[k] = r
  BY DEF ToSet
<1>2. DOMAIN listeners = 1 .. Len(listeners) /\ Len(listeners) \in Nat
  BY DEF TypeOK
<1>3. k - 1 \in Indices(listeners) /\ (k - 1) + 1 = k
  BY <1>2 DEF Indices
<1>4. \E j \in Indices(listeners) : listeners[j + 1] = r
  BY <1>1, <1>3
<1>. QED  BY <1>4, Zenon DEF IndexOf

\* Removing a listener removes it from the array, and nothing else.
LEMMA RemovedListener ==
    ASSUME TypeOK, NEW r, RemoveListener(r)
    PROVE  /\ r \in ToSet(listeners) /\ r \in Readers /\ r \notin removed
           /\ listeners' \in Seq(Readers) /\ IsInjective(listeners')
           /\ ToSet(listeners') = ToSet(listeners) \ {r}
<1>1. r \in ToSet(listeners) /\ listeners' = RemoveByIndex(listeners, IndexOf(r))
  BY DEF RemoveListener
<1>2. IndexOf(r) \in Indices(listeners) /\ listeners[IndexOf(r) + 1] = r
  BY <1>1, IndexOfListener
<1>3. listeners \in Seq(Readers) /\ IsInjective(listeners)
  BY DEF TypeOK
<1>4. ToSet(listeners) \subseteq Readers
  BY <1>3 DEF ToSet
<1>5. listeners' \in Seq(Readers)
  BY <1>1, <1>2, <1>3, RemoveByIndexSlots
<1>6. ToSet(listeners') = ToSet(listeners) \ {r} /\ IsInjective(listeners')
  BY <1>1, <1>2, <1>3, RemoveByIndexElements
<1>. QED  BY <1>1, <1>4, <1>5, <1>6 DEF TypeOK

LEMMA CreatedListener ==
    ASSUME TypeOK, NEW r, CreateStreamReader(r)
    PROVE  /\ r \in Readers \ Known
           /\ listeners' \in Seq(Readers) /\ IsInjective(listeners')
           /\ ToSet(listeners') = ToSet(listeners) \cup {r}
<1>1. /\ r \in Readers \ Known /\ listeners' = Append(listeners, r)
      /\ listeners \in Seq(Readers) /\ IsInjective(listeners)
  BY DEF CreateStreamReader, TypeOK
<1>. QED  BY <1>1, AppendArray DEF Known

LEMMA TypeStep ==
    ASSUME IInv, [Next]_vars
    PROVE  TypeOK'
<1>. TypeOK
  BY DEF IInv
<1>1. CASE UNCHANGED vars
  BY <1>1 DEF TypeOK, vars, readers, stack
<1>2. ASSUME NEW r \in Readers, CreateStreamReader(r)  PROVE TypeOK'
  <2>1. removed \subseteq Readers \ ToSet(listeners')
    BY <1>2, CreatedListener DEF TypeOK, Known
  <2>. QED  BY <1>2, <2>1, CreatedListener DEF TypeOK, CreateStreamReader, stack
<1>3. ASSUME NEW r \in Readers, RemoveListener(r)  PROVE TypeOK'
  <2>1. removed' = removed \cup {r}
    BY <1>3 DEF RemoveListener
  <2>2. removed' \subseteq Readers \ ToSet(listeners')
    BY <1>3, <2>1, RemovedListener DEF TypeOK
  <2>3. IsFiniteSet(removed')
    BY <2>1, FS_AddElement DEF TypeOK
  <2>4. deleted' \subseteq removed'
    BY <1>3, <2>1 DEF RemoveListener, TypeOK
  <2>. QED  BY <1>3, <2>2, <2>3, <2>4, RemovedListener DEF TypeOK, RemoveListener, stack
<1>4. ASSUME NEW r \in Readers, DeleteReader(r)  PROVE TypeOK'
  BY <1>4 DEF TypeOK, DeleteReader, stack
<1>5. ASSUME NEW s \in Stacks, NEW w \in SUBSET Readers, NewAPDU(s, w)  PROVE TypeOK'
  <2>1. ToSet(listeners) \subseteq Readers
    BY DEF TypeOK, ToSet
  <2>. QED  BY <1>5, <2>1 DEF TypeOK, NewAPDU, readers
<1>6. ASSUME NEW s \in Stacks, Fetch(s)  PROVE TypeOK'
  <2>1. listeners[i[s] + 1] \in Readers
    BY <1>6 DEF TypeOK, Fetch
  <2>. QED  BY <1>6, <2>1 DEF TypeOK, Fetch, readers
<1>7. ASSUME NEW s \in Stacks, FilterPass(s)  PROVE TypeOK'
  BY <1>7 DEF TypeOK, FilterPass, readers
<1>8. ASSUME NEW s \in Stacks, FilterExclude(s)  PROVE TypeOK'
  BY <1>8 DEF TypeOK, FilterExclude, readers
<1>9. ASSUME NEW s \in Stacks, OnAPDU(s)  PROVE TypeOK'
  <2>1. listener[s] \in Called(s) /\ Called(s) \subseteq Known
    BY <1>9 DEF IInv, Local, Since, Called, InHand, OnAPDU
  <2>2. listener[s] \in Readers
    BY <2>1 DEF TypeOK, Known, ToSet
  <2>. QED  BY <1>9, <2>2 DEF TypeOK, OnAPDU, readers
<1>10. ASSUME NEW s \in Stacks, OnAPDUDeleted(s)  PROVE TypeOK'
  BY <1>10 DEF TypeOK, OnAPDUDeleted, readers, stack
<1>11. ASSUME NEW s \in Stacks, Finish(s)  PROVE TypeOK'
  BY <1>11 DEF TypeOK, Finish, readers
<1>. QED  BY <1>1, <1>2, <1>3, <1>4, <1>5, <1>6, <1>7, <1>8, <1>9, <1>10, <1>11
          DEF Next, RoutingService, Callback

-----------------------------------------------------------------------------
(* What the steps do to the readers ahead of a callback.                   *)

\* A new listener is after the others.
LEMMA AheadCreate ==
    ASSUME TypeOK, NEW r, CreateStreamReader(r), NEW s \in Stacks
    PROVE  Ahead(s) \subseteq Ahead(s)' /\ Ahead(s)' \subseteq Ahead(s) \cup {r}
<1>1. listeners' = Append(listeners, r) /\ listeners \in Seq(Readers) /\ r \in Readers
  BY DEF CreateStreamReader, TypeOK
<1>2. /\ DOMAIN listeners' = DOMAIN listeners \cup {Len(listeners) + 1}
      /\ \A k \in DOMAIN listeners : listeners'[k] = listeners[k]
      /\ listeners'[Len(listeners) + 1] = r
  BY <1>1
<1>3. NextIndex(s)' = NextIndex(s)
  BY DEF CreateStreamReader, NextIndex, stack
<1>. QED  BY <1>2, <1>3, Zenon DEF Ahead

\* A removal moves at most one listener from ahead of the index to before it.
LEMMA AheadRemove ==
    ASSUME TypeOK, NEW r, RemoveListener(r), NEW s \in Stacks
    PROVE  Ahead(s)' \subseteq Ahead(s) /\ \E m : Ahead(s) \subseteq Ahead(s)' \cup {r, m}
<1>. DEFINE j == IndexOf(r)
            n == NextIndex(s)
<1>1. /\ j \in Indices(listeners) /\ listeners[j + 1] = r /\ listeners' = RemoveByIndex(listeners, j)
      /\ listeners \in Seq(Readers)
  BY IndexOfListener DEF RemoveListener, TypeOK
<1>2. /\ DOMAIN listeners' = 1 .. Len(listeners) - 1
      /\ \A k \in 1 .. Len(listeners) - 1 :
            listeners'[k] = IF k <= j THEN listeners[k] ELSE listeners[k + 1]
  BY <1>1, RemoveByIndexSlots
<1>3. NextIndex(s)' = n /\ n \in Nat
  BY DEF RemoveListener, NextIndex, stack, TypeOK
<1>4. DOMAIN listeners = 1 .. Len(listeners) /\ Len(listeners) \in Nat /\ j \in Nat
  BY <1>1 DEF Indices
<1>. HIDE DEF j, n
<1>5. ASSUME NEW x \in Ahead(s)'  PROVE x \in Ahead(s)
  <2>1. PICK k \in 1 .. Len(listeners) - 1 : k > n /\ listeners'[k] = x
    BY <1>2, <1>3, <1>5 DEF Ahead
  <2>2. PICK l \in 1 .. Len(listeners) : l > n /\ listeners[l] = x
    <3>1. CASE k <= j
      BY <1>2, <1>4, <2>1, <3>1
    <3>2. CASE ~ (k <= j)
      <4>1. k + 1 \in 1 .. Len(listeners) /\ k + 1 > n /\ listeners[k + 1] = x
        BY <1>2, <1>3, <1>4, <2>1, <3>2
      <4>. QED  BY <4>1
    <3>. QED  BY <3>1, <3>2
  <2>. QED  BY <1>4, <2>2 DEF Ahead, n
<1>6. ASSUME NEW x \in Ahead(s)  PROVE x \in Ahead(s)' \cup {r, listeners[n + 1]}
  <2>1. PICK k \in 1 .. Len(listeners) : k > n /\ listeners[k] = x
    BY <1>4, <1>6 DEF Ahead, n
  <2>2. CASE k = n + 1 \/ k = j + 1
    BY <1>1, <2>1, <2>2
  <2>3. CASE k # n + 1 /\ k # j + 1
    <3>1. PICK l \in 1 .. Len(listeners) - 1 : l > n /\ listeners'[l] = x
      <4>1. CASE k <= j
        <5>1. k \in 1 .. Len(listeners) - 1
          BY <1>1, <1>4, <2>1, <4>1 DEF Indices
        <5>. QED  BY <1>2, <2>1, <4>1, <5>1
      <4>2. CASE ~ (k <= j)
        <5>1. PICK l \in Int : l + 1 = k
          BY <2>1
        <5>2. l \in 1 .. Len(listeners) - 1 /\ l > n /\ ~ (l <= j)
          BY <1>3, <1>4, <2>1, <2>3, <4>2, <5>1
        <5>. QED  BY <1>2, <2>1, <5>1, <5>2
      <4>. QED  BY <4>1, <4>2
    <3>. QED  BY <1>2, <1>3, <3>1 DEF Ahead
  <2>. QED  BY <2>2, <2>3
<1>7. Ahead(s) \subseteq Ahead(s)' \cup {r, listeners[n + 1]}
  BY <1>6
<1>. QED  BY <1>5, <1>7

\* A fetch takes the first listener from those ahead.
LEMMA AheadFetch ==
    ASSUME TypeOK, NEW s \in Stacks, Fetch(s)
    PROVE  Ahead(s)' = Ahead(s) \ {listener'[s]} /\ listener'[s] \in Ahead(s)
<1>1. /\ listeners' = listeners /\ i' = i /\ i[s] \in Nat /\ i[s] < Len(listeners)
      /\ pc[s] = "loop" /\ pc'[s] = "filter" /\ listener'[s] = listeners[i[s] + 1]
  BY DEF Fetch, TypeOK, readers
<1>2. DOMAIN listeners = 1 .. Len(listeners) /\ Len(listeners) \in Nat
  BY DEF TypeOK
<1>3. NextIndex(s) = i[s] /\ NextIndex(s)' = i[s] + 1
  BY <1>1 DEF NextIndex
<1>4. i[s] + 1 \in DOMAIN listeners /\ i[s] + 1 > i[s] /\ ~ (i[s] + 1 > i[s] + 1)
  BY <1>1, <1>2
<1>5. \A k \in DOMAIN listeners : k > i[s] <=> k > i[s] + 1 \/ k = i[s] + 1
  BY <1>1, <1>2
<1>6. \A k \in DOMAIN listeners : listeners[k] = listeners[i[s] + 1] => k = i[s] + 1
  BY <1>4, Zenon DEF TypeOK, IsInjective
<1>. HIDE DEF IsInjective
<1>7. listener'[s] \in Ahead(s)
  BY <1>1, <1>3, <1>4, Zenon DEF Ahead
<1>8. Ahead(s)' = {listeners[k] : k \in {l \in DOMAIN listeners : l > i[s] + 1}}
  BY <1>1, <1>3 DEF Ahead
<1>9. Ahead(s) = {listeners[k] : k \in {l \in DOMAIN listeners : l > i[s]}}
  BY <1>3 DEF Ahead
<1>. QED  BY <1>1, <1>4, <1>5, <1>6, <1>7, <1>8, <1>9

-----------------------------------------------------------------------------
(* A callback is undisturbed by the others, and little by the Routing Service. *)

LEMMA PassedFinite ==
    ASSUME NEW s \in Stacks, Since(s), pc[s] # "idle"
    PROVE  IsFiniteSet(Passed(s))
<1>1. IsFiniteSet(began[s].listeners) /\ Passed(s) \subseteq began[s].listeners
  BY DEF Since, Passed
<1>. QED  BY <1>1, FS_Subset

LEMMA RemovalsFinite ==
    ASSUME TypeOK, NEW s \in Stacks
    PROVE  IsFiniteSet(Removals(s)) /\ Cardinality(Removals(s)) \in Nat
<1>1. IsFiniteSet(removed) /\ Removals(s) \subseteq removed
  BY DEF TypeOK, Removals
<1>. QED  BY <1>1, FS_Subset, FS_CardinalityType

\* A step that leaves the variables of a callback, the listeners and what was
\* removed alone leaves its part of the invariant alone.
LEMMA LocalUntouched ==
    ASSUME NEW s \in Stacks, Local(s), listeners' = listeners, removed' = removed,
           pc'[s] = pc[s], i'[s] = i[s], listener'[s] = listener[s],
           wanted'[s] = wanted[s], delivered'[s] = delivered[s], began'[s] = began[s]
    PROVE  Local(s)'
<1>1. InHand(s)' = InHand(s) /\ NextIndex(s)' = NextIndex(s)
  BY DEF InHand, NextIndex
<1>2. Called(s)' = Called(s) /\ Ahead(s)' = Ahead(s)
  BY <1>1 DEF Called, Ahead
<1>3. Passed(s)' = Passed(s) /\ Removals(s)' = Removals(s) /\ Known' = Known
  BY <1>2 DEF Passed, Removals, Known
<1>. QED  BY <1>1, <1>2, <1>3 DEF Local, Idle, Since, Once, Bounded

LEMMA LocalCreate ==
    ASSUME TypeOK, NEW s \in Stacks, Local(s), NEW r, CreateStreamReader(r)
    PROVE  Local(s)'
<1>1. /\ removed' = removed /\ pc' = pc /\ i' = i /\ listener' = listener
      /\ wanted' = wanted /\ delivered' = delivered /\ began' = began
  BY DEF CreateStreamReader, stack
<1>2. InHand(s)' = InHand(s) /\ Called(s)' = Called(s) /\ Removals(s)' = Removals(s)
  BY <1>1 DEF InHand, Called, Removals
<1>3. r \notin Known /\ Known' = Known \cup {r}
  BY <1>1, CreatedListener DEF Known
<1>4. Ahead(s) \subseteq Ahead(s)' /\ Ahead(s)' \subseteq Ahead(s) \cup {r}
  BY AheadCreate
<1>5. Idle(s)' /\ Since(s)' /\ Once(s)'
  BY <1>1, <1>2, <1>3, <1>4 DEF Local, Idle, Since, Once
<1>6. ASSUME pc[s] # "idle"  PROVE Cardinality(Passed(s)') <= Cardinality(Removals(s))
  <2>1. Passed(s)' \subseteq Passed(s)
    BY <1>1, <1>2, <1>4 DEF Passed
  <2>2. IsFiniteSet(Passed(s))
    BY <1>6, PassedFinite DEF Local
  <2>3. Cardinality(Passed(s)') <= Cardinality(Passed(s))
    BY <2>1, <2>2, FS_Subset
  <2>4. IsFiniteSet(Passed(s)')
    BY <2>1, <2>2, FS_Subset
  <2>. QED
    BY <1>6, <2>2, <2>3, <2>4, RemovalsFinite, FS_CardinalityType DEF Local, Bounded
<1>. QED  BY <1>1, <1>2, <1>5, <1>6 DEF Local, Bounded

\* The one listener that moves past the index is paid for by the removal.
LEMMA LocalRemove ==
    ASSUME TypeOK, NEW s \in Stacks, Local(s), NEW r, RemoveListener(r)
    PROVE  Local(s)'
<1>1. /\ removed' = removed \cup {r} /\ pc' = pc /\ i' = i /\ listener' = listener
      /\ wanted' = wanted /\ delivered' = delivered /\ began' = began
  BY DEF RemoveListener, stack
<1>2. InHand(s)' = InHand(s) /\ Called(s)' = Called(s)
  BY <1>1 DEF InHand, Called
<1>3. r \notin removed /\ Known' = Known
  BY <1>1, RemovedListener DEF Known
<1>4. PICK m : Ahead(s)' \subseteq Ahead(s) /\ Ahead(s) \subseteq Ahead(s)' \cup {r, m}
  BY AheadRemove
<1>5. Idle(s)' /\ Since(s)' /\ Once(s)'
  BY <1>1, <1>2, <1>3, <1>4 DEF Local, Idle, Since, Once
<1>6. ASSUME pc[s] # "idle"  PROVE Cardinality(Passed(s)') <= Cardinality(Removals(s)')
  <2>1. Passed(s)' \subseteq Passed(s) \cup {m}
    BY <1>1, <1>2, <1>4 DEF Passed
  <2>2. IsFiniteSet(Passed(s))
    BY <1>6, PassedFinite DEF Local
  <2>3. /\ IsFiniteSet(Passed(s) \cup {m})
        /\ Cardinality(Passed(s) \cup {m}) <= Cardinality(Passed(s)) + 1
    <3>1. Cardinality(Passed(s)) \in Nat
      BY <2>2, FS_CardinalityType
    <3>2. /\ IsFiniteSet(Passed(s) \cup {m})
          /\ \/ Cardinality(Passed(s) \cup {m}) = Cardinality(Passed(s))
             \/ Cardinality(Passed(s) \cup {m}) = Cardinality(Passed(s)) + 1
      BY <2>2, FS_AddElement, Zenon
    <3>. QED  BY <3>1, <3>2
  <2>4. /\ IsFiniteSet(Passed(s)')
        /\ Cardinality(Passed(s)') <= Cardinality(Passed(s) \cup {m})
    BY <2>1, <2>3, FS_Subset
  <2>5. Removals(s)' = Removals(s) \cup {r} /\ r \notin Removals(s)
    BY <1>1, <1>3, <1>6 DEF Removals, Local, Since
  <2>6. Cardinality(Removals(s)') = Cardinality(Removals(s)) + 1
    BY <2>5, RemovalsFinite, FS_AddElement
  <2>7. Cardinality(Passed(s)) <= Cardinality(Removals(s))
    BY <1>6 DEF Local, Bounded
  <2>. QED
    BY <2>2, <2>3, <2>4, <2>6, <2>7, RemovalsFinite, FS_CardinalityType
<1>. QED  BY <1>1, <1>2, <1>5, <1>6 DEF Local, Bounded

-----------------------------------------------------------------------------
(* The steps of the callback itself.                                       *)

LEMMA LocalNewAPDU ==
    ASSUME TypeOK, NEW s \in Stacks, Local(s), NEW w \in SUBSET Readers, NewAPDU(s, w)
    PROVE  Local(s)'
<1>1. /\ listeners' = listeners /\ removed' = removed /\ pc'[s] = "loop"
      /\ i'[s] = 0 /\ delivered'[s] = << >> /\ wanted'[s] = w
      /\ began'[s] = [listeners |-> ToSet(listeners), removed |-> removed]
  BY DEF NewAPDU, readers, TypeOK, Local, Idle
<1>2. DOMAIN listeners = 1 .. Len(listeners) /\ Len(listeners) \in Nat
  BY DEF TypeOK
<1>3. Called(s)' = {} /\ ~ InHand(s)'
  BY <1>1 DEF Called, InHand, ToSet
<1>4. NextIndex(s)' = 0
  BY <1>1 DEF NextIndex
<1>5. \A k \in DOMAIN listeners : k > 0
  BY <1>2
<1>6. ToSet(listeners) \subseteq Ahead(s)'
  BY <1>1, <1>4, <1>5 DEF Ahead, ToSet
<1>7. Passed(s)' = {} /\ Removals(s)' = {}
  BY <1>1, <1>6 DEF Passed, Removals
<1>8. IsFiniteSet(ToSet(listeners))
  <2>1. listeners \in Surjection(1 .. Len(listeners), ToSet(listeners))
    BY <1>2 DEF Surjection, ToSet, TypeOK
  <2>2. IsFiniteSet(1 .. Len(listeners))
    BY <1>2, FS_Interval
  <2>. QED  BY <2>1, <2>2, FS_Surjection
<1>9. IsInjective(delivered'[s])
  BY <1>1 DEF IsInjective
<1>. QED  BY <1>1, <1>3, <1>7, <1>8, <1>9, FS_EmptySet
          DEF Local, Idle, Since, Once, Bounded, Known

LEMMA LocalFetch ==
    ASSUME TypeOK, NEW s \in Stacks, Local(s), Fetch(s)
    PROVE  Local(s)'
<1>1. /\ listeners' = listeners /\ removed' = removed /\ wanted' = wanted
      /\ delivered' = delivered /\ began' = began
      /\ pc[s] = "loop" /\ pc'[s] = "filter"
  BY DEF Fetch, readers, TypeOK
<1>2. Ahead(s)' = Ahead(s) \ {listener'[s]} /\ listener'[s] \in Ahead(s)
  BY AheadFetch
<1>3. Called(s)' = Called(s) \cup {listener'[s]} /\ InHand(s)' /\ Called(s) = ToSet(delivered[s])
  BY <1>1 DEF Called, InHand
<1>4. Passed(s)' = Passed(s) /\ Removals(s)' = Removals(s) /\ Known' = Known
  BY <1>1, <1>2, <1>3 DEF Passed, Removals, Known
<1>5. listener'[s] \in ToSet(listeners)
  BY <1>2 DEF Ahead, ToSet
<1>6. listener'[s] \in Known \ removed
  BY <1>5 DEF TypeOK, Known
<1>7. Since(s)'
  BY <1>1, <1>3, <1>4, <1>6 DEF Local, Since
<1>. QED  BY <1>1, <1>2, <1>3, <1>4, <1>7 DEF Local, Idle, Once, Bounded

LEMMA LocalFilterPass ==
    ASSUME TypeOK, NEW s \in Stacks, Local(s), FilterPass(s)
    PROVE  Local(s)'
<1>1. /\ listeners' = listeners /\ removed' = removed /\ wanted' = wanted /\ i' = i
      /\ delivered' = delivered /\ began' = began /\ listener' = listener
      /\ pc[s] = "filter" /\ pc'[s] = "onAPDU"
  BY DEF FilterPass, readers, TypeOK
<1>2. Called(s)' = Called(s) /\ Ahead(s)' = Ahead(s) /\ InHand(s)' /\ InHand(s)
  BY <1>1 DEF Called, Ahead, InHand, NextIndex
<1>3. Passed(s)' = Passed(s) /\ Removals(s)' = Removals(s) /\ Known' = Known
  BY <1>1, <1>2 DEF Passed, Removals, Known
<1>. QED  BY <1>1, <1>2, <1>3 DEF Local, Idle, Since, Once, Bounded

\* The reader whose filter excludes the APDU does not want it.
LEMMA LocalFilterExclude ==
    ASSUME TypeOK, NEW s \in Stacks, Local(s), FilterExclude(s)
    PROVE  Local(s)'
<1>1. /\ listeners' = listeners /\ removed' = removed /\ wanted' = wanted
      /\ delivered' = delivered /\ began' = began /\ listener[s] \notin wanted[s]
      /\ pc[s] = "filter" /\ pc'[s] = "loop" /\ i'[s] = i[s] + 1
  BY DEF FilterExclude, readers, TypeOK
<1>2. /\ Called(s)' \subseteq Called(s) /\ Called(s) \subseteq Called(s)' \cup {listener[s]}
      /\ Ahead(s)' = Ahead(s) /\ ~ InHand(s)'
  BY <1>1 DEF Called, Ahead, InHand, NextIndex
<1>3. Passed(s)' = Passed(s) /\ Removals(s)' = Removals(s) /\ Known' = Known
  BY <1>1, <1>2 DEF Passed, Removals, Known
<1>. QED  BY <1>1, <1>2, <1>3 DEF Local, Idle, Since, Once, Bounded

LEMMA LocalOnAPDU ==
    ASSUME TypeOK, NEW s \in Stacks, Local(s), OnAPDU(s)
    PROVE  Local(s)'
<1>1. /\ listeners' = listeners /\ removed' = removed /\ wanted' = wanted
      /\ delivered'[s] = Append(delivered[s], listener[s]) /\ began' = began
      /\ pc[s] = "onAPDU" /\ pc'[s] = "loop" /\ i'[s] = i[s] + 1
  BY DEF OnAPDU, readers, TypeOK
<1>2. InHand(s) /\ ~ InHand(s)' /\ listener[s] \notin ToSet(delivered[s])
  BY <1>1 DEF InHand, Local, Once
<1>3. delivered[s] \in Seq(Readers) /\ IsInjective(delivered[s])
  BY <1>1 DEF TypeOK, Local, Once
<1>4. listener[s] \in Readers
  BY <1>1, <1>2 DEF Local, Since, Called, Known, TypeOK, ToSet
<1>5. /\ ToSet(delivered'[s]) = ToSet(delivered[s]) \cup {listener[s]}
      /\ IsInjective(delivered'[s])
  BY <1>1, <1>2, <1>3, <1>4, AppendArray
<1>6. Called(s)' = Called(s) /\ Ahead(s)' = Ahead(s)
  BY <1>1, <1>2, <1>5 DEF Called, Ahead, NextIndex
<1>7. Passed(s)' = Passed(s) /\ Removals(s)' = Removals(s) /\ Known' = Known
  BY <1>1, <1>6 DEF Passed, Removals, Known
<1>. QED  BY <1>1, <1>2, <1>5, <1>6, <1>7 DEF Local, Idle, Since, Once, Bounded

LEMMA LocalFinish ==
    ASSUME TypeOK, NEW s \in Stacks, Finish(s)
    PROVE  Local(s)'
<1>1. pc'[s] = "idle" /\ i'[s] = 0 /\ delivered'[s] = << >>
  BY DEF Finish, TypeOK
<1>. QED  BY <1>1 DEF Local, Idle, Since, Once, Bounded

-----------------------------------------------------------------------------
(* The theorems.                                                           *)

LEMMA IInvInit ==
    ASSUME Init
    PROVE  IInv
<1>1. TypeOK
  BY FS_EmptySet DEF Init, TypeOK, ToSet, IsInjective
<1>2. ASSUME NEW s \in Stacks  PROVE Local(s)
  BY DEF Init, Local, Idle, Since, Once, Bounded
<1>. QED  BY <1>1, <1>2 DEF IInv

LEMMA IInvStep ==
    ASSUME IInv, [Next]_vars
    PROVE  IInv'
<1>1. TypeOK /\ TypeOK' /\ \A s \in Stacks : Local(s)
  BY TypeStep DEF IInv
<1>. SUFFICES ASSUME NEW t \in Stacks  PROVE Local(t)'
  BY <1>1 DEF IInv
<1>2. CASE UNCHANGED vars
  BY <1>1, <1>2, LocalUntouched DEF vars, readers, stack
<1>3. ASSUME NEW r \in Readers, CreateStreamReader(r)  PROVE Local(t)'
  BY <1>1, <1>3, LocalCreate
<1>4. ASSUME NEW r \in Readers, RemoveListener(r)  PROVE Local(t)'
  BY <1>1, <1>4, LocalRemove
<1>5. ASSUME NEW r \in Readers, DeleteReader(r)  PROVE Local(t)'
  BY <1>1, <1>5, LocalUntouched DEF DeleteReader, stack
<1>6. ASSUME NEW s \in Stacks, NEW w \in SUBSET Readers, NewAPDU(s, w)  PROVE Local(t)'
  <2>1. CASE t = s
    BY <1>1, <1>6, <2>1, LocalNewAPDU
  <2>2. CASE t # s
    BY <1>1, <1>6, <2>2, LocalUntouched DEF NewAPDU, readers, TypeOK
  <2>. QED  BY <2>1, <2>2
<1>7. ASSUME NEW s \in Stacks, Fetch(s)  PROVE Local(t)'
  <2>1. CASE t = s
    BY <1>1, <1>7, <2>1, LocalFetch
  <2>2. CASE t # s
    BY <1>1, <1>7, <2>2, LocalUntouched DEF Fetch, readers, TypeOK
  <2>. QED  BY <2>1, <2>2
<1>8. ASSUME NEW s \in Stacks, FilterPass(s)  PROVE Local(t)'
  <2>1. CASE t = s
    BY <1>1, <1>8, <2>1, LocalFilterPass
  <2>2. CASE t # s
    BY <1>1, <1>8, <2>2, LocalUntouched DEF FilterPass, readers, TypeOK
  <2>. QED  BY <2>1, <2>2
<1>9. ASSUME NEW s \in Stacks, FilterExclude(s)  PROVE Local(t)'
  <2>1. CASE t = s
    BY <1>1, <1>9, <2>1, LocalFilterExclude
  <2>2. CASE t # s
    BY <1>1, <1>9, <2>2, LocalUntouched DEF FilterExclude, readers, TypeOK
  <2>. QED  BY <2>1, <2>2
<1>10. ASSUME NEW s \in Stacks, OnAPDU(s)  PROVE Local(t)'
  <2>1. CASE t = s
    BY <1>1, <1>10, <2>1, LocalOnAPDU
  <2>2. CASE t # s
    BY <1>1, <1>10, <2>2, LocalUntouched DEF OnAPDU, readers, TypeOK
  <2>. QED  BY <2>1, <2>2
<1>11. ASSUME NEW s \in Stacks, OnAPDUDeleted(s)  PROVE Local(t)'
  BY <1>1, <1>11, LocalUntouched DEF OnAPDUDeleted, readers, stack
<1>12. ASSUME NEW s \in Stacks, Finish(s)  PROVE Local(t)'
  <2>1. CASE t = s
    BY <1>1, <1>12, <2>1, LocalFinish
  <2>2. CASE t # s
    BY <1>1, <1>12, <2>2, LocalUntouched DEF Finish, readers, TypeOK
  <2>. QED  BY <2>1, <2>2
<1>. QED  BY <1>2, <1>3, <1>4, <1>5, <1>6, <1>7, <1>8, <1>9, <1>10, <1>11, <1>12
          DEF Next, RoutingService, Callback

LEMMA IInvAlways == Spec => []IInv
<1>1. Init => IInv
  BY IInvInit
<1>2. IInv /\ [Next]_vars => IInv'
  BY IInvStep
<1>. QED  BY <1>1, <1>2, PTL DEF Spec

\* The state of the callbacks and of the array of listeners has its type.
THEOREM DispatchTypeCorrect == Spec => []TypeOK
<1>1. IInv => TypeOK
  BY DEF IInv
<1>. QED  BY <1>1, IInvAlways, PTL

\* No reader is given an APDU twice, however the listeners move under the loops of
\* the callbacks (MessageBus.cpp:340).
THEOREM NoReaderCalledTwice == Spec => []DeliveredOnce
<1>1. IInv => DeliveredOnce
  BY DEF IInv, Local, Once, DeliveredOnce
<1>. QED  BY <1>1, IInvAlways, PTL

\* A reader removed before an APDU arrived is not called for it.
THEOREM RemovedReadersSilent == Spec => []RemovedNotCalled
<1>1. IInv => RemovedNotCalled
  BY DEF IInv, Local, Since, Called, RemovedNotCalled
<1>. QED  BY <1>1, IInvAlways, PTL

\* A callback misses no more of the readers it should call than were removed while
\* it ran: at the end of the loop none is ahead, so those missed are those that passed.
THEOREM RemovalsCostOneMiss == Spec => []OneMissPerRemoval
<1>1. ASSUME IInv, NEW s \in Stacks, pc[s] = "loop", i[s] >= Len(listeners)
      PROVE  Cardinality((wanted[s] \cap began[s].listeners)
                            \ (removed \cup ToSet(delivered[s])))
                <= Cardinality(Removals(s))
  <2>1. DOMAIN listeners = 1 .. Len(listeners) /\ Len(listeners) \in Nat /\ i[s] \in Nat
    BY <1>1 DEF IInv, TypeOK
  <2>2. \A k \in DOMAIN listeners : ~ (k > i[s])
    BY <1>1, <2>1
  <2>3. Ahead(s) = {} /\ Called(s) = ToSet(delivered[s])
    BY <1>1, <2>2 DEF Ahead, NextIndex, Called, InHand
  <2>4. Passed(s) = (wanted[s] \cap began[s].listeners) \ (removed \cup ToSet(delivered[s]))
    BY <2>3 DEF Passed
  <2>. QED  BY <1>1, <2>4 DEF IInv, Local, Bounded
<1>2. IInv => OneMissPerRemoval
  BY <1>1 DEF OneMissPerRemoval
<1>. QED  BY <1>2, IInvAlways, PTL

-----------------------------------------------------------------------------
(* The loop of a callback comes to an end unless readers keep joining: the *)
(* array it runs over may change at each of its turns.                     *)

\* The listeners that the loop of s has yet to fetch, as the array is now.
ToFetch(s) == IF NextIndex(s) < Len(listeners) THEN Len(listeners) - NextIndex(s) ELSE 0

Stage(s) == CASE pc[s] = "filter" -> 3 [] pc[s] = "onAPDU" -> 2 [] pc[s] = "loop" -> 1
              [] pc[s] = "idle" -> 0

\* The most steps the callback of s still has to take.
CallLeft(s) == IF pc[s] = "idle" \/ fault # "none" THEN 0 ELSE 3 * ToFetch(s) + Stage(s)

LEMMA CallFacts ==
    ASSUME TypeOK, NEW s \in Stacks
    PROVE  /\ pc[s] \in {"idle", "loop", "filter", "onAPDU"}
           /\ i[s] \in Nat /\ Len(listeners) \in Nat
           /\ ToFetch(s) \in Nat /\ Stage(s) \in Nat /\ CallLeft(s) \in Nat
<1>1. pc[s] \in {"idle", "loop", "filter", "onAPDU"} /\ i[s] \in Nat /\ Len(listeners) \in Nat
  BY DEF TypeOK
<1>2. ToFetch(s) \in Nat
  BY <1>1 DEF ToFetch, NextIndex
<1>3. Stage(s) \in Nat
  BY <1>1 DEF Stage
<1>. QED  BY <1>1, <1>2, <1>3 DEF CallLeft

LEMMA LaterCallFacts ==
    ASSUME TypeOK', NEW s \in Stacks
    PROVE  CallLeft(s)' \in Nat
<1>1. pc'[s] \in {"idle", "loop", "filter", "onAPDU"} /\ i'[s] \in Nat /\ Len(listeners') \in Nat
  BY DEF TypeOK
<1>2. ToFetch(s)' \in Nat
  BY <1>1 DEF ToFetch, NextIndex
<1>3. Stage(s)' \in Nat
  BY <1>1 DEF Stage
<1>. QED  BY <1>2, <1>3 DEF CallLeft

\* A step of the callback: it fetches the next listener, or goes on with the one it
\* has, whatever place the removals have moved that one to.
LEMMA CallbackNearer ==
    ASSUME TypeOK, TypeOK', fault = "none", NEW s \in Stacks, Callback(s)
    PROVE  CallLeft(s)' < CallLeft(s)
<1>1. /\ pc[s] \in {"idle", "loop", "filter", "onAPDU"} /\ DOMAIN pc = Stacks
      /\ i[s] \in Nat /\ DOMAIN i = Stacks /\ Len(listeners) \in Nat
      /\ ToFetch(s) \in Nat
  BY CallFacts DEF TypeOK
<1>2. CASE Fetch(s)
  <2>1. /\ pc[s] = "loop" /\ pc'[s] = "filter" /\ i'[s] = i[s] /\ fault' = fault
        /\ i[s] < Len(listeners) /\ listeners' = listeners
    BY <1>1, <1>2 DEF Fetch, readers
  <2>2. ToFetch(s) = Len(listeners) - i[s]
    BY <2>1 DEF ToFetch, NextIndex
  <2>3. ToFetch(s)' = IF i[s] + 1 < Len(listeners) THEN Len(listeners) - (i[s] + 1) ELSE 0
    BY <2>1 DEF ToFetch, NextIndex
  <2>4. ToFetch(s)' = ToFetch(s) - 1
    BY <1>1, <2>1, <2>2, <2>3
  <2>5. CallLeft(s) = 3 * ToFetch(s) + 1 /\ CallLeft(s)' = 3 * ToFetch(s)' + 3
    BY <2>1 DEF CallLeft, Stage
  <2>. QED  BY <1>1, <2>4, <2>5
<1>3. CASE FilterPass(s)
  <2>1. /\ pc[s] = "filter" /\ pc'[s] = "onAPDU" /\ i'[s] = i[s] /\ fault' = fault
        /\ listeners' = listeners
    BY <1>1, <1>3 DEF FilterPass, readers
  <2>2. ToFetch(s)' = ToFetch(s)
    BY <2>1 DEF ToFetch, NextIndex
  <2>3. CallLeft(s) = 3 * ToFetch(s) + 3 /\ CallLeft(s)' = 3 * ToFetch(s)' + 2
    BY <2>1 DEF CallLeft, Stage
  <2>. QED  BY <1>1, <2>2, <2>3
<1>4. CASE FilterExclude(s) \/ OnAPDU(s)
  <2>1. /\ pc[s] \in {"filter", "onAPDU"} /\ pc'[s] = "loop" /\ i'[s] = i[s] + 1
        /\ fault' = fault /\ listeners' = listeners
    BY <1>1, <1>4 DEF FilterExclude, OnAPDU, readers
  <2>2. ToFetch(s)' = ToFetch(s)
    BY <2>1 DEF ToFetch, NextIndex
  <2>3. CallLeft(s) \in {3 * ToFetch(s) + 3, 3 * ToFetch(s) + 2}
    BY <2>1 DEF CallLeft, Stage
  <2>4. CallLeft(s)' = 3 * ToFetch(s)' + 1
    BY <2>1 DEF CallLeft, Stage
  <2>. QED  BY <1>1, <2>2, <2>3, <2>4
<1>5. CASE OnAPDUDeleted(s)
  <2>1. pc[s] = "onAPDU" /\ fault' # "none"
    BY <1>5 DEF OnAPDUDeleted
  <2>2. CallLeft(s) = 3 * ToFetch(s) + 2 /\ CallLeft(s)' = 0
    BY <2>1 DEF CallLeft, Stage
  <2>. QED  BY <1>1, <2>2
<1>6. CASE Finish(s)
  <2>1. pc[s] = "loop" /\ pc'[s] = "idle"
    BY <1>1, <1>6 DEF Finish
  <2>2. CallLeft(s) = 3 * ToFetch(s) + 1 /\ CallLeft(s)' = 0
    BY <2>1 DEF CallLeft, Stage
  <2>. QED  BY <1>1, <2>2
<1>. QED  BY <1>2, <1>3, <1>4, <1>5, <1>6 DEF Callback

\* The array alone changes: it got shorter, or longer by one.
LEMMA ArrayMoves ==
    ASSUME TypeOK, TypeOK', NEW s \in Stacks, UNCHANGED <<pc[s], i[s], fault>>,
           NEW n \in {0, 1}, Len(listeners') <= Len(listeners) + n
    PROVE  CallLeft(s)' <= CallLeft(s) + 3 * n
<1>1. /\ i[s] \in Nat /\ Len(listeners) \in Nat /\ Len(listeners') \in Nat
      /\ ToFetch(s) \in Nat /\ Stage(s) \in Nat
  BY CallFacts DEF TypeOK
<1>2. NextIndex(s)' = NextIndex(s) /\ Stage(s)' = Stage(s) /\ NextIndex(s) \in Nat
  BY <1>1 DEF NextIndex, Stage
<1>3. ToFetch(s)' \in Nat /\ ToFetch(s)' <= ToFetch(s) + n
  BY <1>1, <1>2 DEF ToFetch
<1>4. CASE pc[s] = "idle" \/ fault # "none"
  BY <1>4 DEF CallLeft
<1>5. CASE ~ (pc[s] = "idle" \/ fault # "none")
  <2>1. CallLeft(s) = 3 * ToFetch(s) + Stage(s) /\ CallLeft(s)' = 3 * ToFetch(s)' + Stage(s)'
    BY <1>5 DEF CallLeft
  <2>. QED  BY <1>1, <1>2, <1>3, <2>1
<1>. QED  BY <1>4, <1>5

\* What the others do to a callback: another stack nothing, a removal no harm, and a
\* new reader three steps more.
LEMMA OthersAndCalls ==
    ASSUME TypeOK, TypeOK', Next, NEW s \in Stacks, pc[s] # "idle"
    PROVE  /\ CallLeft(s)' <= CallLeft(s) + 3
           /\ (~ \E r \in Readers : CreateStreamReader(r)) => CallLeft(s)' <= CallLeft(s)
<1>1. fault = "none" /\ CallLeft(s) \in Nat /\ Len(listeners) \in Nat
  BY CallFacts DEF Next
<1>2. CASE Callback(s)
  <2>1. CallLeft(s)' < CallLeft(s)
    BY <1>1, <1>2, CallbackNearer
  <2>2. CallLeft(s)' \in Nat
    BY LaterCallFacts
  <2>. QED  BY <1>1, <2>1, <2>2
<1>3. ASSUME NEW r \in Readers, CreateStreamReader(r)
      PROVE  CallLeft(s)' <= CallLeft(s) + 3
  <2>1. /\ listeners \in Seq(Readers) /\ listeners' = Append(listeners, r)
        /\ UNCHANGED <<pc[s], i[s], fault>>
    BY <1>3 DEF CreateStreamReader, stack, TypeOK
  <2>2. Len(listeners') <= Len(listeners) + 1
    BY <1>1, <2>1
  <2>. QED  BY <2>1, <2>2, ArrayMoves
<1>4. ASSUME UNCHANGED <<pc[s], i[s], fault>>, Len(listeners') <= Len(listeners)
      PROVE  /\ CallLeft(s)' <= CallLeft(s) + 3 /\ CallLeft(s)' <= CallLeft(s)
  <2>1. CallLeft(s)' <= CallLeft(s) + 3 * 0
    BY <1>1, <1>4, ArrayMoves
  <2>2. CallLeft(s)' \in Nat
    BY LaterCallFacts
  <2>. QED  BY <1>1, <2>1, <2>2
<1>5. ASSUME NEW r \in Readers, RemoveListener(r)
      PROVE  UNCHANGED <<pc[s], i[s], fault>> /\ Len(listeners') <= Len(listeners)
  <2>1. listeners \in Seq(Readers) /\ IndexOf(r) \in Indices(listeners)
    BY <1>5, IndexOfListener DEF RemoveListener, TypeOK
  <2>2. Len(listeners') = Len(listeners) - 1
    BY <1>5, <2>1, RemoveByIndexSlots DEF RemoveListener
  <2>. QED  BY <1>1, <1>5, <2>2 DEF RemoveListener, stack
<1>6. ASSUME NEW r \in Readers, DeleteReader(r)
      PROVE  UNCHANGED <<pc[s], i[s], fault>> /\ Len(listeners') <= Len(listeners)
  BY <1>1, <1>6 DEF DeleteReader, stack
<1>7. ASSUME NEW t \in Stacks, NEW w \in SUBSET Readers, NewAPDU(t, w)
      PROVE  UNCHANGED <<pc[s], i[s], fault>> /\ Len(listeners') <= Len(listeners)
  <2>1. t # s
    BY <1>7 DEF NewAPDU
  <2>. QED  BY <1>1, <1>7, <2>1 DEF NewAPDU, readers, TypeOK
<1>8. ASSUME NEW t \in Stacks, t # s, Callback(t), ~ OnAPDUDeleted(t)
      PROVE  UNCHANGED <<pc[s], i[s], fault>> /\ Len(listeners') <= Len(listeners)
  BY <1>1, <1>8 DEF Callback, Fetch, FilterPass, FilterExclude, OnAPDU, Finish, readers, TypeOK
<1>9. ASSUME NEW t \in Stacks, OnAPDUDeleted(t)
      PROVE  CallLeft(s)' <= CallLeft(s) + 3 /\ CallLeft(s)' <= CallLeft(s)
  <2>1. fault' # "none"
    BY <1>9 DEF OnAPDUDeleted
  <2>2. CallLeft(s)' = 0
    BY <2>1 DEF CallLeft
  <2>. QED  BY <1>1, <2>2
<1>. QED  BY <1>2, <1>3, <1>4, <1>5, <1>6, <1>7, <1>8, <1>9 DEF Next, RoutingService

\* Each step of a callback leaves less to do, and nothing the other threads do adds
\* to it but a reader that joins, which adds three steps at most: as long as
\* DNP3Connection_createStreamReader adds no listener, the loop of the bus over its
\* listeners ends, whatever is removed from under it.
THEOREM CallbacksNeverCircle ==
    Spec => /\ [](\A s \in Stacks : CallLeft(s) \in Nat)
            /\ [][\A s \in Stacks :
                     /\ Callback(s) => CallLeft(s)' < CallLeft(s)
                     /\ pc[s] # "idle" =>
                          /\ CallLeft(s)' <= CallLeft(s) + 3
                          /\ (~ \E r \in Readers : CreateStreamReader(r))
                                => CallLeft(s)' <= CallLeft(s)]_vars
<1>1. IInv => \A s \in Stacks : CallLeft(s) \in Nat
  BY CallFacts DEF IInv
<1>2. ASSUME IInv, IInv', Next, NEW s \in Stacks
      PROVE  /\ Callback(s) => CallLeft(s)' < CallLeft(s)
             /\ pc[s] # "idle" =>
                  /\ CallLeft(s)' <= CallLeft(s) + 3
                  /\ (~ \E r \in Readers : CreateStreamReader(r))
                        => CallLeft(s)' <= CallLeft(s)
  <2>1. TypeOK /\ TypeOK' /\ fault = "none"
    BY <1>2 DEF IInv, Next
  <2>. QED  BY <1>2, <2>1, CallbackNearer, OthersAndCalls
<1>3. IInv /\ IInv' /\ [Next]_vars =>
          [\A s \in Stacks :
              /\ Callback(s) => CallLeft(s)' < CallLeft(s)
              /\ pc[s] # "idle" =>
                   /\ CallLeft(s)' <= CallLeft(s) + 3
                   /\ (~ \E r \in Readers : CreateStreamReader(r))
                         => CallLeft(s)' <= CallLeft(s)]_vars
  BY <1>2
<1>. QED  BY <1>1, <1>3, IInvAlways, PTL DEF Spec
=============================================================================
