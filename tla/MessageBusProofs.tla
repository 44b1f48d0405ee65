-------------------------- MODULE MessageBusProofs --------------------------
(***************************************************************************)
(* What holds of the registry of the message bus for every number of       *)
(* proxies, connections, names, addresses and ports, whatever ids clients  *)
(* pass and in the middle of every destructor.                             *)
(***************************************************************************)
EXTENDS MessageBus, SequenceTheorems, WellFoundedInduction, TLAPS

-----------------------------------------------------------------------------
(* What the array macros return and preserve, for arrays of any length,   *)
(* and the existence of the first and the last index a search stops at.   *)

\* A search that has a match has a first one.
LEMMA MinExists ==
    ASSUME NEW S \in SUBSET Nat, S # {}
    PROVE  Min(S) \in S /\ \A j \in S : Min(S) <= j
<1>1. PICK i \in S : \A j \in S : ~ (<<j, i>> \in OpToRel(<, Nat))
  BY WFMin, NatLessThanWellFounded
<1>2. \A j \in S : ~ (j < i)
  BY <1>1 DEF OpToRel
<1>3. \A j \in S : i <= j
  BY <1>2
<1>. QED  BY <1>3, Zenon DEF Min

\* A search over finitely many indices that has a match has a last one.
LEMMA MaxExists ==
    ASSUME NEW n \in Nat, NEW S \in SUBSET (0 .. n - 1), S # {}
    PROVE  Max(S) \in S /\ \A j \in S : Max(S) >= j
<1>. DEFINE T == {n - i : i \in S}
<1>1. \A i \in S : i \in Int /\ n - i \in Nat
  OBVIOUS
<1>2. T \in SUBSET Nat /\ T # {}
  BY <1>1, Zenon
<1>3. PICK i \in S : Min(T) = n - i
  BY <1>2, MinExists, Zenon
<1>4. \A j \in S : n - i <= n - j
  BY <1>2, <1>3, MinExists
<1>5. \A j \in S : i >= j
  BY <1>1, <1>4
<1>. QED  BY <1>5, Zenon DEF Max

\* Adding an element: the array grows by it, keeps its type, and stores no
\* pointer twice when the element is new (RTIDNP3_ARRAY_ADD_ELEMENT_EXPAND).
LEMMA AppendArray ==
    ASSUME NEW S, NEW arr \in Seq(S), NEW e \in S
    PROVE  /\ Append(arr, e) \in Seq(S)
           /\ ToSet(Append(arr, e)) = ToSet(arr) \cup {e}
           /\ IsInjective(arr) /\ e \notin ToSet(arr) => IsInjective(Append(arr, e))
<1>1. /\ Append(arr, e) \in Seq(S)
      /\ DOMAIN Append(arr, e) = DOMAIN arr \cup {Len(arr) + 1}
      /\ \A k \in DOMAIN arr : Append(arr, e)[k] = arr[k]
      /\ Append(arr, e)[Len(arr) + 1] = e
  OBVIOUS
<1>2. ToSet(Append(arr, e)) = ToSet(arr) \cup {e}
  BY <1>1, Zenon DEF ToSet
<1>3. ASSUME IsInjective(arr), e \notin ToSet(arr)
      PROVE  IsInjective(Append(arr, e))
  BY <1>1, <1>3, Zenon DEF IsInjective, ToSet
<1>. QED  BY <1>1, <1>2, <1>3

\* RemoveByIndex slot by slot.
LEMMA RemoveByIndexSlots ==
    ASSUME NEW S, NEW arr \in Seq(S), NEW x \in Indices(arr)
    PROVE  /\ RemoveByIndex(arr, x) \in Seq(S)
           /\ Len(RemoveByIndex(arr, x)) = Len(arr) - 1
           /\ DOMAIN RemoveByIndex(arr, x) = 1 .. Len(arr) - 1
           /\ \A k \in 1 .. Len(arr) - 1 :
                 RemoveByIndex(arr, x)[k] = IF k <= x THEN arr[k] ELSE arr[k + 1]
<1>1. /\ x \in Nat /\ x + 1 \in 1 .. Len(arr) /\ Len(arr) - 1 \in Nat
      /\ \A k \in 1 .. Len(arr) - 1 : k \in 1 .. Len(arr) /\ k + 1 \in 1 .. Len(arr)
  BY DEF Indices
<1>. QED  BY <1>1 DEF RemoveByIndex

\* Removing by index keeps the type of the array, whatever the index
\* (RTIDNP3_ARRAY_REMOVE_ELEMENT_BY_INDEX).
LEMMA RemoveByIndexType ==
    ASSUME NEW S, NEW arr \in Seq(S), NEW x
    PROVE  RemoveByIndex(arr, x) \in Seq(S)
<1>1. CASE x \in Indices(arr)
  BY <1>1, RemoveByIndexSlots
<1>2. CASE x \notin Indices(arr)
  BY <1>2 DEF RemoveByIndex
<1>. QED  BY <1>1, <1>2

\* Removing a slot of an array without repetitions removes exactly the element
\* stored there, and leaves an array without repetitions.
LEMMA RemoveByIndexElements ==
    ASSUME NEW S, NEW arr \in Seq(S), NEW x \in Indices(arr), IsInjective(arr)
    PROVE  /\ ToSet(RemoveByIndex(arr, x)) = ToSet(arr) \ {arr[x + 1]}
           /\ IsInjective(RemoveByIndex(arr, x))
<1>. DEFINE rem == RemoveByIndex(arr, x)
            at(k) == IF k <= x THEN k ELSE k + 1
<1>1. /\ x \in Int /\ x + 1 \in 1 .. Len(arr) /\ Len(arr) \in Nat
      /\ DOMAIN arr = 1 .. Len(arr)
  BY DEF Indices
<1>2. DOMAIN rem = 1 .. Len(arr) - 1
  BY RemoveByIndexSlots
<1>3. \A k \in DOMAIN rem : rem[k] = arr[at(k)]
  BY <1>2, RemoveByIndexSlots
<1>. HIDE DEF rem
<1>4. \A k \in DOMAIN rem : at(k) \in DOMAIN arr /\ at(k) # x + 1
  BY <1>1, <1>2
<1>5. \A j \in DOMAIN arr : j # x + 1 => \E k \in DOMAIN rem : at(k) = j
  <2>. SUFFICES ASSUME NEW j \in DOMAIN arr, j # x + 1
                PROVE  \E k \in DOMAIN rem : at(k) = j
    OBVIOUS
  <2>1. CASE j <= x
    <3>1. j \in DOMAIN rem /\ at(j) = j
      BY <2>1, <1>1, <1>2
    <3>. QED  BY <3>1
  <2>2. CASE j > x + 1
    <3>1. j - 1 \in DOMAIN rem /\ at(j - 1) = j
      BY <2>2, <1>1, <1>2
    <3>. QED  BY <3>1
  <2>. QED  BY <2>1, <2>2, <1>1
<1>6. \A j, k \in DOMAIN rem : at(j) = at(k) => j = k
  BY <1>1, <1>2
<1>. HIDE DEF at
<1>7. IsInjective(rem)
  BY <1>3, <1>4, <1>6 DEF IsInjective
<1>8. ToSet(rem) = ToSet(arr) \ {arr[x + 1]}
  BY <1>1, <1>3, <1>4, <1>5 DEF ToSet, IsInjective
<1>. QED  BY <1>7, <1>8 DEF rem

-----------------------------------------------------------------------------
(* The inductive invariant.                                                *)

\* The destructor that runs is the one of a proxy the bus forgot already.
DyingForgotten == dying # Null => dying \in live /\ dying \notin ToSet(proxies)

\* No destructor runs in the middle of a call, whose connection keeps its stack.
CallOK == call # NoCall => /\ call.conn \in stacks
                           /\ busState = "up" /\ dying = Null

\* The inductive invariant of the registry.
Inv == TypeOK /\ RegistryLive /\ StacksOwned /\ DyingForgotten /\ CallOK

\* Entering an object in the heap keeps its type.
LEMMA ExtendType ==
    ASSUME NEW S, NEW f, f \in [DOMAIN f -> S], NEW o, NEW rec \in S
    PROVE  Extend(f, o, rec) \in [DOMAIN f \cup {o} -> S]
BY DEF Extend

\* A creation or a deletion in progress is a call.
LEMMA OpIsCall == call.op = "new" \/ call.op = "delete" => call # NoCall
BY DEF NoCall

LEMMA NullFresh == Null \notin ProxyObjs /\ Null \notin ConnObjs
BY NullAssumption

\* The arrays of the state, as the array lemmas take them.
LEMMA ArrayTypes ==
    ASSUME TypeOK
    PROVE  /\ proxies \in Seq(ProxyObjs) /\ connections \in Seq(ConnObjs)
           /\ ToSet(proxies) \subseteq DOMAIN proxy
           /\ ToSet(connections) \subseteq DOMAIN conn
           /\ \A i \in Indices(proxies) : ProxyAt(i) \in ToSet(proxies)
           /\ \A i \in Indices(connections) : ConnectionAt(i) \in ToSet(connections)
           /\ \A p \in DOMAIN proxy : /\ p \in ProxyObjs
                                      /\ proxy[p].connections \in Seq(ConnObjs)
                                      /\ proxy[p].id \in Nat
           /\ \A c \in DOMAIN conn : /\ c \in ConnObjs
                                     /\ conn[c].id \in Nat
                                     /\ conn[c].proxy \in ProxyObjs
<1>. USE DEF TypeOK
<1>1. proxies \in Seq(DOMAIN proxy) /\ connections \in Seq(DOMAIN conn)
  OBVIOUS
<1>2. proxies \in Seq(ProxyObjs) /\ connections \in Seq(ConnObjs)
  BY <1>1
<1>3. ToSet(proxies) \subseteq DOMAIN proxy
      /\ ToSet(connections) \subseteq DOMAIN conn
  BY <1>1 DEF ToSet
<1>4. \A i \in Indices(proxies) : ProxyAt(i) \in ToSet(proxies)
  BY <1>1 DEF ToSet, Indices, ProxyAt
<1>5. \A i \in Indices(connections) : ConnectionAt(i) \in ToSet(connections)
  BY <1>1 DEF ToSet, Indices, ConnectionAt
<1>6. \A p \in DOMAIN proxy : /\ p \in ProxyObjs
                              /\ proxy[p].connections \in Seq(ConnObjs)
                              /\ proxy[p].id \in Nat
  BY DEF ProxyRec
<1>7. \A c \in DOMAIN conn : /\ c \in ConnObjs
                             /\ conn[c].id \in Nat
                             /\ conn[c].proxy \in ProxyObjs
  BY DEF ConnRec
<1>. QED  BY <1>2, <1>3, <1>4, <1>5, <1>6, <1>7

-----------------------------------------------------------------------------
(* The effects of the operations.                                          *)

\* What deleting the connections gone of proxy p does to the registry.
Gone(p, gone) ==
    /\ live' = live \ gone
    /\ stacks' = stacks \ gone
    /\ listening' = listening \ gone
    /\ proxy' \in [DOMAIN proxy -> ProxyRec]
    /\ \A q \in DOMAIN proxy : q # p => proxy'[q] = proxy[q]
    /\ IsInjective(proxy'[p].connections)
    /\ ToSet(proxy'[p].connections) = Own(p) \ gone

\* Proxy::DeleteConnection on a live proxy deletes at most one connection, one
\* that the proxy owned, and changes the array of that proxy only.
LEMMA ProxyDeleteConnectionEffect ==
    ASSUME TypeOK, RegistryLive, NEW p \in LiveProxies, NEW id,
           ProxyDeleteConnection(p, id)
    PROVE  \E gone \in SUBSET Own(p) : Gone(p, gone)
<1>1. p \in DOMAIN proxy /\ proxy[p] \in ProxyRec
      /\ proxy[p].connections \in Seq(ConnObjs) /\ IsInjective(proxy[p].connections)
  BY DEF LiveProxies, TypeOK, RegistryLive, ProxyRec
<1>2. CASE OwnWithId(p, id) = {}
  <2>1. live' = live /\ stacks' = stacks /\ listening' = listening /\ proxy' = proxy
    BY <1>2 DEF ProxyDeleteConnection
  <2>2. proxy \in [DOMAIN proxy -> ProxyRec]
    BY DEF TypeOK
  <2>3. {} \in SUBSET Own(p)
    OBVIOUS
  <2>. QED  BY <2>1, <2>2, <2>3, <1>1, Zenon DEF Own, Gone
<1>3. CASE OwnWithId(p, id) # {}
  <2>. DEFINE own == proxy[p].connections
              i == Min(OwnWithId(p, id))
              c == own[i + 1]
  <2>1. OwnWithId(p, id) \in SUBSET Nat /\ OwnWithId(p, id) \subseteq Indices(own)
    BY <1>1 DEF OwnWithId, Indices
  <2>2. i \in Indices(own)
    BY <1>3, <2>1, MinExists
  <2>3. /\ proxy' = [proxy EXCEPT ![p].connections = RemoveByIndex(@, i)]
        /\ live' = live \ {c} /\ stacks' = stacks \ {c}
        /\ listening' = listening \ {c}
    BY <1>3, Zenon DEF ProxyDeleteConnection
  <2>. HIDE DEF i
  <2>4. /\ RemoveByIndex(own, i) \in Seq(ConnObjs)
        /\ ToSet(RemoveByIndex(own, i)) = Own(p) \ {c}
        /\ IsInjective(RemoveByIndex(own, i))
    BY <1>1, <2>2, RemoveByIndexType, RemoveByIndexElements DEF Own
  <2>5. {c} \in SUBSET Own(p)
    BY <1>1, <2>2 DEF Own, ToSet, Indices
  <2>6. /\ proxy' \in [DOMAIN proxy -> ProxyRec]
        /\ \A q \in DOMAIN proxy : q # p => proxy'[q] = proxy[q]
        /\ proxy'[p].connections = RemoveByIndex(own, i)
    BY <1>1, <2>3, <2>4 DEF ProxyRec, TypeOK
  <2>. QED  BY <2>3, <2>4, <2>5, <2>6, Zenon DEF Gone
<1>. QED  BY <1>2, <1>3

\* Deleting a connection of a live proxy keeps the invariant, at the end of a
\* deletion and in the loop of ~Proxy.
LEMMA ProxyDeleteConnectionKeepsInv ==
    ASSUME Inv, NEW p \in LiveProxies, NEW id, ProxyDeleteConnection(p, id),
           call' = NoCall, dyingIndex' \in Nat,
           UNCHANGED <<proxies, connections, conn, busState, busIndex, dying, fault>>
    PROVE  Inv'
<1>. PICK gone \in SUBSET Own(p) : Gone(p, gone)
  BY ProxyDeleteConnectionEffect DEF Inv
<1>1. /\ live' = live \ gone
      /\ stacks' = stacks \ gone
      /\ listening' = listening \ gone
      /\ proxy' \in [DOMAIN proxy -> ProxyRec]
      /\ \A q \in DOMAIN proxy : q # p => proxy'[q] = proxy[q]
      /\ IsInjective(proxy'[p].connections)
      /\ ToSet(proxy'[p].connections) = Own(p) \ gone
  BY DEF Gone
<1>2. DOMAIN proxy' = DOMAIN proxy /\ p \in DOMAIN proxy /\ p \in live
  BY <1>1 DEF LiveProxies
<1>3. \A c \in gone : c \in ConnObjs /\ conn[c].proxy = p
  <2>1. proxy[p].connections \in Seq(ConnObjs)
    BY <1>2, ArrayTypes DEF Inv
  <2>2. Own(p) \subseteq ConnObjs
    BY <2>1 DEF Own, ToSet
  <2>. QED  BY <1>1, <2>2 DEF Inv, RegistryLive
<1>4. gone \cap ProxyObjs = {} /\ gone \cap DOMAIN proxy = {}
  BY <1>3, HeapAssumption DEF Inv, TypeOK
<1>5. TypeOK'
  BY <1>1, <1>2 DEF Inv, TypeOK
<1>10. CallOK'
  BY DEF CallOK
<1>6. /\ LiveProxies' = LiveProxies
      /\ Own(p)' = Own(p) \ gone
      /\ \A q \in LiveProxies : q # p => Own(q)' = Own(q)
  BY <1>1, <1>2, <1>4 DEF LiveProxies, Own
<1>7. RegistryLive'
  <2>1. IsInjective(proxies)' /\ (ToSet(proxies) \subseteq LiveProxies)'
    BY <1>6 DEF Inv, RegistryLive
  <2>2. ASSUME NEW q \in LiveProxies
        PROVE  /\ IsInjective(proxy'[q].connections)
               /\ Own(q)' \subseteq live' \cap stacks'
               /\ \A c \in Own(q)' : conn'[c].proxy = q
    <3>1. CASE q = p
      BY <3>1, <1>1, <1>6 DEF Inv, RegistryLive
    <3>2. CASE q # p
      BY <3>2, <1>1, <1>3, <1>6 DEF Inv, RegistryLive, LiveProxies
    <3>. QED  BY <3>1, <3>2
  <2>. QED  BY <2>1, <2>2, <1>6 DEF RegistryLive
<1>8. StacksOwned'
  <2>1. \A c \in stacks' : conn'[c].proxy \in live'
    BY <1>1, <1>4, <1>5 DEF Inv, StacksOwned, TypeOK, ConnRec
  <2>2. ASSUME NEW c \in stacks' PROVE (c \in Own(conn[c].proxy))'
    <3>1. conn[c].proxy \in LiveProxies
      <4>1. conn[c].proxy \in ProxyObjs /\ conn[c].proxy \in live
        BY <1>1, ArrayTypes DEF Inv, StacksOwned, TypeOK
      <4>. QED  BY <4>1, HeapAssumption DEF Inv, TypeOK, LiveProxies
    <3>2. PICK q \in LiveProxies : q = conn[c].proxy /\ conn' = conn
      BY <3>1
    <3>3. c \in Own(q) /\ c \notin gone
      BY <3>2, <1>1 DEF Inv, StacksOwned
    <3>4. c \in Own(q)'
      BY <3>2, <3>3, <1>6
    <3>. QED  BY <3>2, <3>4 DEF Own
  <2>3. /\ \A c, d \in stacks' : conn'[c].proxy = conn'[d].proxy
                                 /\ conn'[c].id = conn'[d].id => c = d
        /\ listening' \subseteq stacks'
    BY <1>1 DEF Inv, StacksOwned
  <2>. QED  BY <2>1, <2>2, <2>3 DEF StacksOwned
<1>9. DyingForgotten'
  <2>1. dying # Null => dying \in DOMAIN proxy
    BY DEF Inv, TypeOK
  <2>. QED  BY <2>1, <1>1, <1>4 DEF Inv, DyingForgotten
<1>. QED  BY <1>5, <1>7, <1>8, <1>9, <1>10 DEF Inv

\* A new proxy owns no connection and is known to the bus.
LEMMA NewProxyKeepsInv ==
    ASSUME Inv, dying = Null, NEW p, NEW name \in Names, NEW addr \in Addrs,
           NEW ports \in SUBSET Ports, NewProxy(p, name, addr, ports),
           UNCHANGED destruction
    PROVE  Inv'
<1>. DEFINE rec == [id |-> Len(proxies), name |-> name, localAddr |-> addr,
                    ports |-> ports, connections |-> << >>]
<1>1. /\ p \in ProxyObjs /\ p \notin DOMAIN proxy
      /\ proxy' = Extend(proxy, p, rec)
      /\ proxies' = Append(proxies, p)
      /\ live' = live \cup {p}
      /\ UNCHANGED <<connections, conn, stacks, listening, call, fault>>
  BY Zenon DEF NewProxy
<1>2. rec \in ProxyRec
  BY ArrayTypes DEF ProxyRec, Inv
<1>. HIDE DEF rec
<1>3. /\ DOMAIN proxy' = DOMAIN proxy \cup {p}
      /\ proxy'[p] = rec
      /\ \A q \in DOMAIN proxy : q # p => proxy'[q] = proxy[q]
      /\ proxy' \in [DOMAIN proxy \cup {p} -> ProxyRec]
  <2>1. proxy \in [DOMAIN proxy -> ProxyRec]
    BY DEF Inv, TypeOK
  <2>2. Extend(proxy, p, rec) \in [DOMAIN proxy \cup {p} -> ProxyRec]
    BY <1>2, <2>1, ExtendType, Zenon
  <2>3. /\ DOMAIN Extend(proxy, p, rec) = DOMAIN proxy \cup {p}
        /\ Extend(proxy, p, rec)[p] = rec
        /\ \A q \in DOMAIN proxy : q # p => Extend(proxy, p, rec)[q] = proxy[q]
    BY DEF Extend
  <2>. QED  BY <1>1, <2>2, <2>3
<1>4. /\ proxies \in Seq(DOMAIN proxy') /\ p \in DOMAIN proxy'
      /\ IsInjective(proxies) /\ p \notin ToSet(proxies)
  BY <1>1, <1>3, ArrayTypes DEF Inv, TypeOK, RegistryLive
<1>5. /\ proxies' \in Seq(DOMAIN proxy')
      /\ ToSet(proxies') = ToSet(proxies) \cup {p}
      /\ IsInjective(proxies')
  BY <1>1, <1>4, AppendArray
<1>6. TypeOK'
  BY <1>1, <1>3, <1>5 DEF Inv, TypeOK, destruction
<1>7. /\ LiveProxies' = LiveProxies \cup {p}
      /\ \A q \in LiveProxies : proxy'[q] = proxy[q] /\ Own(q)' = Own(q)
  BY <1>1, <1>3 DEF Inv, TypeOK, LiveProxies, Own
<1>8. IsInjective(proxy'[p].connections) /\ Own(p)' = {}
  BY <1>3 DEF rec, Own, ToSet, IsInjective
<1>9. RegistryLive'
  <2>1. IsInjective(proxies)' /\ (ToSet(proxies) \subseteq LiveProxies)'
    BY <1>5, <1>7 DEF Inv, RegistryLive
  <2>2. ASSUME NEW q \in LiveProxies
        PROVE  /\ IsInjective(proxy'[q].connections)
               /\ Own(q)' \subseteq live' \cap stacks'
               /\ \A c \in Own(q)' : conn'[c].proxy = q
    BY <1>1, <1>7 DEF Inv, RegistryLive
  <2>. QED  BY <2>1, <2>2, <1>7, <1>8 DEF RegistryLive
<1>10. StacksOwned'
  <2>1. ASSUME NEW c \in stacks
        PROVE  conn'[c].proxy \in live' /\ (c \in Own(conn[c].proxy))'
    <3>1. conn[c].proxy \in LiveProxies
      <4>1. conn[c].proxy \in ProxyObjs /\ conn[c].proxy \in live
        BY ArrayTypes DEF Inv, StacksOwned, TypeOK
      <4>. QED  BY <4>1, HeapAssumption DEF Inv, TypeOK, LiveProxies
    <3>2. PICK q \in LiveProxies : q = conn[c].proxy /\ conn' = conn
      BY <1>1, <3>1
    <3>3. c \in Own(q)'
      BY <3>2, <1>7 DEF Inv, StacksOwned
    <3>. QED  BY <3>2, <3>3, <1>1 DEF Own, LiveProxies
  <2>. QED  BY <2>1, <1>1 DEF Inv, StacksOwned
<1>11. DyingForgotten' /\ CallOK'
  BY <1>1 DEF DyingForgotten, Inv, CallOK, destruction
<1>. QED  BY <1>6, <1>9, <1>10, <1>11 DEF Inv

\* A new connection is owned by the proxy it points to, and its stack has a name
\* that no stack of this proxy has (the guard OpenDNP3 gives AddProxyStack).
LEMMA OpenConnectionKeepsInv ==
    ASSUME Inv, Idle, NEW c, NEW p \in LiveProxies, NEW connId \in Nat,
           NEW remote \in Addrs, ~ NameInUse(p, connId),
           OpenConnection(c, p, connId, remote), UNCHANGED destruction
    PROVE  Inv'
<1>. DEFINE rec == [id |-> connId, proxy |-> p, remoteAddr |-> remote]
<1>1. /\ c \in ConnObjs /\ c \notin DOMAIN conn
      /\ conn' = Extend(conn, c, rec)
      /\ proxy' = [proxy EXCEPT ![p].connections = Append(@, c)]
      /\ live' = live \cup {c} /\ stacks' = stacks \cup {c}
      /\ call' = [op |-> "new", conn |-> c, id |-> connId]
      /\ UNCHANGED <<proxies, connections, listening, fault>>
  BY Zenon DEF OpenConnection
<1>2. p \in DOMAIN proxy /\ p \in live /\ p \in ProxyObjs
  BY DEF LiveProxies, Inv, TypeOK
<1>3. rec \in ConnRec
  BY <1>2 DEF ConnRec
<1>. HIDE DEF rec
<1>4. /\ DOMAIN conn' = DOMAIN conn \cup {c}
      /\ conn'[c] = rec
      /\ \A d \in DOMAIN conn : d # c => conn'[d] = conn[d]
      /\ conn' \in [DOMAIN conn \cup {c} -> ConnRec]
  <2>1. conn \in [DOMAIN conn -> ConnRec]
    BY DEF Inv, TypeOK
  <2>2. Extend(conn, c, rec) \in [DOMAIN conn \cup {c} -> ConnRec]
    BY <1>3, <2>1, ExtendType, Zenon
  <2>3. /\ DOMAIN Extend(conn, c, rec) = DOMAIN conn \cup {c}
        /\ Extend(conn, c, rec)[c] = rec
        /\ \A d \in DOMAIN conn : d # c => Extend(conn, c, rec)[d] = conn[d]
    BY DEF Extend
  <2>. QED  BY <1>1, <2>2, <2>3
<1>5. /\ connections' \in Seq(DOMAIN conn')
      /\ call' \in Calls /\ call'.conn \in DOMAIN conn' /\ call'.conn \in stacks'
  BY <1>1, <1>4 DEF Inv, TypeOK, Calls
<1>6. Own(p) \subseteq DOMAIN conn /\ proxy[p].connections \in Seq(ConnObjs)
      /\ IsInjective(proxy[p].connections) /\ c \notin Own(p)
  <2>1. proxy[p].connections \in Seq(ConnObjs)
    BY <1>2, ArrayTypes DEF Inv
  <2>2. Own(p) \subseteq ConnObjs
    BY <2>1 DEF Own, ToSet
  <2>3. Own(p) \subseteq live /\ IsInjective(proxy[p].connections)
    BY DEF Inv, RegistryLive
  <2>4. Own(p) \subseteq DOMAIN conn
    BY <2>2, <2>3, HeapAssumption DEF Inv, TypeOK
  <2>. QED  BY <2>1, <2>3, <2>4, <1>1
<1>7. /\ Append(proxy[p].connections, c) \in Seq(ConnObjs)
      /\ ToSet(Append(proxy[p].connections, c)) = Own(p) \cup {c}
      /\ IsInjective(Append(proxy[p].connections, c))
  BY <1>1, <1>6, AppendArray DEF Own
<1>8. /\ proxy' \in [DOMAIN proxy -> ProxyRec]
      /\ \A q \in DOMAIN proxy : q # p => proxy'[q] = proxy[q]
      /\ proxy'[p].connections = Append(proxy[p].connections, c)
  BY <1>1, <1>2, <1>7 DEF ProxyRec, Inv, TypeOK
<1>9. TypeOK'
  BY <1>1, <1>4, <1>5, <1>8 DEF Inv, TypeOK, destruction
<1>10. /\ LiveProxies' = LiveProxies
       /\ Own(p)' = Own(p) \cup {c}
       /\ \A q \in LiveProxies : q # p => Own(q)' = Own(q)
  <2>1. c \notin DOMAIN proxy /\ DOMAIN proxy' = DOMAIN proxy
    BY <1>1, <1>8, HeapAssumption DEF Inv, TypeOK
  <2>2. LiveProxies' = LiveProxies
    BY <1>1, <2>1 DEF LiveProxies
  <2>3. Own(p)' = Own(p) \cup {c}
    BY <1>7, <1>8 DEF Own
  <2>4. \A q \in LiveProxies : q # p => Own(q)' = Own(q)
    BY <1>8 DEF LiveProxies, Own
  <2>. QED  BY <2>2, <2>3, <2>4
<1>11. \A q \in LiveProxies : Own(q) \subseteq DOMAIN conn
  <2>. SUFFICES ASSUME NEW q \in LiveProxies PROVE Own(q) \subseteq DOMAIN conn
    OBVIOUS
  <2>1. proxy[q].connections \in Seq(ConnObjs)
    BY ArrayTypes DEF Inv, LiveProxies
  <2>2. Own(q) \subseteq ConnObjs
    BY <2>1 DEF Own, ToSet
  <2>. QED  BY <2>2, HeapAssumption DEF Inv, TypeOK, RegistryLive
<1>12. RegistryLive'
  <2>1. IsInjective(proxies)' /\ (ToSet(proxies) \subseteq LiveProxies)'
    BY <1>1, <1>10 DEF Inv, RegistryLive
  <2>2. ASSUME NEW q \in LiveProxies
        PROVE  /\ IsInjective(proxy'[q].connections)
               /\ Own(q)' \subseteq live' \cap stacks'
               /\ \A d \in Own(q)' : conn'[d].proxy = q
    <3>1. CASE q = p
      <4>1. conn'[c].proxy = p /\ \A d \in Own(p) : conn'[d] = conn[d]
        BY <1>1, <1>4, <1>11 DEF rec
      <4>2. \A d \in Own(p) : conn[d].proxy = p /\ d \in live \cap stacks
        BY DEF Inv, RegistryLive
      <4>3. \A d \in Own(p) \cup {c} : conn'[d].proxy = p /\ d \in live' \cap stacks'
        BY <4>1, <4>2, <1>1
      <4>. QED  BY <3>1, <4>3, <1>7, <1>8, <1>10
    <3>2. CASE q # p
      BY <3>2, <1>1, <1>4, <1>8, <1>10, <1>11 DEF Inv, RegistryLive, LiveProxies
    <3>. QED  BY <3>1, <3>2
  <2>. QED  BY <2>1, <2>2, <1>10 DEF RegistryLive
<1>13. StacksOwned'
  <2>1. conn'[c].proxy = p /\ conn'[c].id = connId /\ c \notin stacks
    BY <1>1, <1>4 DEF rec, Inv, TypeOK
  <2>2. \A d \in stacks : conn'[d] = conn[d]
    BY <2>1, <1>4 DEF Inv, TypeOK
  <2>3. ASSUME NEW d \in stacks
        PROVE  conn'[d].proxy \in live' /\ (d \in Own(conn[d].proxy))'
    <3>1. conn[d].proxy \in LiveProxies
      <4>1. conn[d].proxy \in ProxyObjs /\ conn[d].proxy \in live
        BY ArrayTypes DEF Inv, StacksOwned, TypeOK
      <4>. QED  BY <4>1, HeapAssumption DEF Inv, TypeOK, LiveProxies
    <3>2. PICK q \in LiveProxies : q = conn[d].proxy /\ q = conn'[d].proxy
      BY <2>2, <3>1
    <3>3. d \in Own(q)'
      BY <3>2, <1>10 DEF Inv, StacksOwned
    <3>. QED  BY <3>2, <3>3, <1>1 DEF Own, LiveProxies
  <2>4. (c \in Own(conn[c].proxy))' /\ conn'[c].proxy \in live'
    BY <2>1, <1>1, <1>2, <1>10 DEF Own
  <2>5. \A d, e \in stacks' : conn'[d].proxy = conn'[e].proxy
                              /\ conn'[d].id = conn'[e].id => d = e
    BY <2>1, <2>2, <1>1 DEF Inv, StacksOwned, NameInUse
  <2>6. listening' \subseteq stacks'
    BY <1>1 DEF Inv, StacksOwned
  <2>. QED  BY <2>3, <2>4, <2>5, <2>6, <1>1 DEF StacksOwned
<1>14. DyingForgotten' /\ CallOK'
  BY <1>1, <1>5 DEF Inv, DyingForgotten, CallOK, Idle, destruction
<1>. QED  BY <1>9, <1>12, <1>13, <1>14 DEF Inv

\* Subscribing to the stack of the new connection keeps the invariant.
LEMMA SubscribeKeepsInv ==
    ASSUME Inv, Subscribe
    PROVE  Inv'
<1>1. /\ connections' = Append(connections, call.conn)
      /\ listening' = listening \cup {call.conn} /\ call' = NoCall
      /\ UNCHANGED <<proxies, proxy, conn, live, stacks, destruction, fault>>
  BY DEF Subscribe
<1>2. call.conn \in stacks /\ call.conn \in DOMAIN conn
  BY OpIsCall DEF Subscribe, Inv, CallOK, TypeOK
<1>3. connections \in Seq(DOMAIN conn)
  BY DEF Inv, TypeOK
<1>4. connections' \in Seq(DOMAIN conn)
  BY <1>1, <1>2, <1>3, AppendArray
<1>5. TypeOK'
  BY <1>1, <1>2, <1>4 DEF Inv, TypeOK, destruction
<1>6. RegistryLive'
  BY <1>1 DEF Inv, RegistryLive, LiveProxies, Own
<1>7. StacksOwned'
  BY <1>1, <1>2 DEF Inv, StacksOwned, Own
<1>8. DyingForgotten' /\ CallOK'
  BY <1>1 DEF Inv, DyingForgotten, CallOK, destruction
<1>. QED  BY <1>5, <1>6, <1>7, <1>8 DEF Inv

\* A step that leaves the registry alone keeps the invariant, if the destructor
\* it is in keeps its place.
LEMMA FrameKeepsInv ==
    ASSUME Inv, UNCHANGED registry, UNCHANGED dying, dyingIndex' \in Nat,
           busState' \in {"up", "closing", "deleted"}, busIndex' \in Nat,
           fault' \in Faults, call # NoCall => UNCHANGED busState
    PROVE  Inv'
<1>. USE DEF registry
<1>1. TypeOK'
  BY DEF Inv, TypeOK
<1>2. RegistryLive'
  BY DEF Inv, RegistryLive, LiveProxies, Own
<1>3. StacksOwned'
  BY DEF Inv, StacksOwned, Own
<1>4. DyingForgotten' /\ CallOK'
  BY DEF Inv, DyingForgotten, CallOK
<1>. QED  BY <1>1, <1>2, <1>3, <1>4 DEF Inv

LEMMA NewConnectionKeepsInv ==
    ASSUME Inv, Idle, NEW c, NEW id \in Nat, NEW remote \in Addrs, NEW port,
           NewConnection(c, id, remote, port), UNCHANGED destruction
    PROVE  Inv'
<1>1. CASE UNCHANGED registry /\ fault' \in Faults
  BY <1>1, FrameKeepsInv DEF Inv, TypeOK, destruction
<1>2. CASE /\ id \in Indices(proxies)
           /\ ~ NameInUse(ProxyAt(id), Len(connections))
           /\ OpenConnection(c, ProxyAt(id), Len(connections), remote)
  <2>1. ProxyAt(id) \in LiveProxies /\ Len(connections) \in Nat
    BY <1>2, ArrayTypes DEF Inv, RegistryLive
  <2>. QED  BY <1>2, <2>1, OpenConnectionKeepsInv
<1>3. UNCHANGED fault => fault' \in Faults
  BY DEF Inv, TypeOK
<1>. QED  BY <1>1, <1>2, <1>3, Zenon DEF NewConnection, Fail, Faults

\* Until the bus has unsubscribed, a deletion touches its array and itself only.
LEMMA DeleteConnectionKeepsInv ==
    ASSUME Inv, Idle, NEW id \in Nat, DeleteConnection(id), UNCHANGED destruction
    PROVE  Inv'
<1>. DEFINE c == ConnectionAt(id)
<1>1. CASE UNCHANGED registry /\ fault' \in Faults
  BY <1>1, FrameKeepsInv DEF Inv, TypeOK, destruction
<1>2. CASE /\ id \in Indices(connections) /\ c \in stacks
           /\ connections' = RemoveByIndex(connections, id)
           /\ listening' = listening \ {c}
           /\ call' = [op |-> "delete", conn |-> c, id |-> id]
           /\ UNCHANGED <<proxies, proxy, conn, live, stacks, fault>>
  <2>1. connections' \in Seq(DOMAIN conn)
    BY <1>2, RemoveByIndexType DEF Inv, TypeOK
  <2>2. c \in DOMAIN conn /\ c \in ConnObjs
    BY <1>2, ArrayTypes DEF Inv
  <2>. HIDE DEF c
  <2>3. call' \in Calls /\ call'.conn = c
    BY <1>2, <2>2 DEF Calls
  <2>4. TypeOK'
    BY <1>2, <2>1, <2>2, <2>3 DEF Inv, TypeOK, destruction
  <2>5. RegistryLive'
    BY <1>2 DEF Inv, RegistryLive, LiveProxies, Own
  <2>6. StacksOwned'
    BY <1>2 DEF Inv, StacksOwned, Own
  <2>7. DyingForgotten' /\ CallOK'
    BY <1>2, <2>3 DEF Inv, DyingForgotten, CallOK, Idle, destruction
  <2>. QED  BY <2>4, <2>5, <2>6, <2>7 DEF Inv
<1>3. UNCHANGED fault => fault' \in Faults
  BY DEF Inv, TypeOK
<1>. QED  BY <1>1, <1>2, <1>3, Zenon DEF DeleteConnection, Fail, Faults

\* The rest of a deletion works on the proxy of the connection, which is live.
LEMMA CloseStackKeepsInv ==
    ASSUME Inv, CloseStack
    PROVE  Inv'
<1>1. /\ ProxyDeleteConnection(conn[call.conn].proxy, call.id) /\ call' = NoCall
      /\ UNCHANGED <<proxies, connections, conn, destruction, fault>>
  BY DEF CloseStack
<1>2. call.conn \in stacks
  BY OpIsCall DEF CloseStack, Inv, CallOK
<1>3. conn[call.conn].proxy \in ProxyObjs /\ conn[call.conn].proxy \in live
  BY <1>2, ArrayTypes DEF Inv, TypeOK, StacksOwned
<1>4. conn[call.conn].proxy \in LiveProxies
  BY <1>3, HeapAssumption DEF Inv, TypeOK, LiveProxies
<1>5. dyingIndex' \in Nat /\ UNCHANGED <<busState, busIndex, dying>>
  BY <1>1 DEF Inv, TypeOK, destruction
<1>. QED  BY <1>1, <1>4, <1>5, ProxyDeleteConnectionKeepsInv

\* DeleteProxy takes the proxy out of the array before the destructor runs.
LEMMA DeleteProxyKeepsInv ==
    ASSUME Inv, dying = Null, call = NoCall, NEW id \in Nat, DeleteProxy(id),
           UNCHANGED busState, busIndex' \in Nat
    PROVE  Inv'
<1>1. CASE id \notin Indices(proxies)
  <2>1. UNCHANGED <<registry, dying, dyingIndex, fault>>
    BY <1>1 DEF DeleteProxy
  <2>. QED  BY <2>1, FrameKeepsInv DEF Inv, TypeOK
<1>2. CASE id \in Indices(proxies)
  <2>1. /\ proxies' = RemoveByIndex(proxies, id)
        /\ dying' = ProxyAt(id) /\ dyingIndex' = 0
        /\ UNCHANGED <<connections, proxy, conn, live, stacks, listening, call,
                       fault>>
    BY <1>2 DEF DeleteProxy
  <2>2. /\ proxies \in Seq(ProxyObjs) /\ IsInjective(proxies)
        /\ ProxyAt(id) \in ToSet(proxies) /\ ToSet(proxies) \subseteq LiveProxies
    BY <1>2, ArrayTypes DEF Inv, RegistryLive
  <2>3. /\ ToSet(proxies') = ToSet(proxies) \ {dying'}
        /\ IsInjective(proxies')
    BY <1>2, <2>1, <2>2, RemoveByIndexElements DEF ProxyAt
  <2>4. proxies' \in Seq(DOMAIN proxy)
    BY <2>1, RemoveByIndexType DEF Inv, TypeOK
  <2>5. TypeOK'
    BY <2>1, <2>2, <2>4 DEF Inv, TypeOK, LiveProxies
  <2>6. RegistryLive'
    BY <2>1, <2>2, <2>3 DEF Inv, RegistryLive, LiveProxies, Own
  <2>7. StacksOwned'
    BY <2>1 DEF Inv, StacksOwned, Own
  <2>8. DyingForgotten' /\ CallOK'
    BY <2>1, <2>2, <2>3 DEF DyingForgotten, CallOK, LiveProxies
  <2>. QED  BY <2>5, <2>6, <2>7, <2>8 DEF Inv
<1>. QED  BY <1>1, <1>2

\* The end of ~Proxy frees the proxy with every stack it still has open.
LEMMA DisposeProxyKeepsInv ==
    ASSUME Inv, DisposeProxy
    PROVE  Inv'
<1>. DEFINE left == {c \in stacks : conn[c].proxy = dying}
<1>1. /\ dying # Null
      /\ stacks' = stacks \ left /\ listening' = listening \ left
      /\ live' = live \ {dying} /\ dying' = Null /\ dyingIndex' = 0
      /\ UNCHANGED <<proxies, connections, proxy, conn, call, busState, busIndex,
                     fault>>
  BY Zenon DEF DisposeProxy
<1>2. dying \in DOMAIN proxy /\ dying \in ProxyObjs /\ dying \notin ToSet(proxies)
  BY <1>1 DEF Inv, TypeOK, DyingForgotten
<1>3. TypeOK'
  BY <1>1 DEF Inv, TypeOK
<1>4. LiveProxies' = LiveProxies \ {dying}
  BY <1>1 DEF LiveProxies
<1>5. \A p \in LiveProxies : dying \notin Own(p)
  <2>. SUFFICES ASSUME NEW p \in LiveProxies PROVE dying \notin Own(p)
    OBVIOUS
  <2>1. proxy[p].connections \in Seq(ConnObjs)
    BY ArrayTypes DEF Inv, LiveProxies
  <2>2. Own(p) \subseteq ConnObjs
    BY <2>1 DEF Own, ToSet
  <2>. QED  BY <2>2, <1>2, HeapAssumption
<1>6. RegistryLive'
  BY <1>1, <1>2, <1>4, <1>5 DEF Inv, RegistryLive, Own
<1>7. StacksOwned'
  <2>1. \A c \in stacks' : c \in stacks /\ conn[c].proxy # dying
    BY <1>1
  <2>2. \A c \in stacks' : conn'[c].proxy \in live' /\ c \in Own(conn[c].proxy)
    BY <2>1, <1>1 DEF Inv, StacksOwned
  <2>3. \A c \in stacks' : (c \in Own(conn[c].proxy))'
    BY <2>2, <1>1 DEF Own
  <2>4. listening' \subseteq stacks'
    BY <1>1 DEF Inv, StacksOwned
  <2>. QED  BY <2>1, <2>2, <2>3, <2>4, <1>1 DEF Inv, StacksOwned
<1>8. DyingForgotten' /\ CallOK'
  BY <1>1 DEF DyingForgotten, Inv, CallOK
<1>. QED  BY <1>3, <1>6, <1>7, <1>8 DEF Inv

-----------------------------------------------------------------------------
(* The steps.                                                              *)

LEMMA InitInv == Init => Inv
<1>. SUFFICES ASSUME Init PROVE Inv
  OBVIOUS
<1>. USE DEF Init
<1>1. TypeOK
  BY DEF TypeOK, Faults
<1>2. LiveProxies = {}
  BY DEF LiveProxies
<1>3. RegistryLive
  BY <1>2 DEF RegistryLive, IsInjective, ToSet
<1>4. StacksOwned
  BY DEF StacksOwned
<1>5. DyingForgotten /\ CallOK
  BY DEF DyingForgotten, CallOK
<1>. QED  BY <1>1, <1>3, <1>4, <1>5 DEF Inv

\* Every operation that creates something.
LEMMA CreationKeepsInv ==
    ASSUME Inv, CreateProxy \/ \E ps \in SUBSET DOMAIN proxy : CreateConnection(ps)
    PROVE  Inv'
<1>1. CASE CreateProxy
  <2>1. PICK p \in ProxyObjs, name \in Names, addr \in Addrs, ports \in SUBSET Ports :
            NewProxy(p, name, addr, ports)
    BY <1>1 DEF CreateProxy
  <2>2. dying = Null /\ UNCHANGED destruction
    BY <1>1 DEF CreateProxy, Idle
  <2>. QED  BY <2>1, <2>2, NewProxyKeepsInv
<1>2. ASSUME NEW ps \in SUBSET DOMAIN proxy, CreateConnection(ps)
      PROVE  Inv'
  <2>1. PICK c \in ConnObjs, p \in ps, remote \in Addrs, port \in Ports :
            NewConnection(c, proxy[p].id, remote, port)
    BY <1>2 DEF CreateConnection
  <2>2. proxy[p].id \in Nat /\ Idle /\ UNCHANGED destruction
    BY <1>2, ArrayTypes DEF CreateConnection, Inv
  <2>. QED  BY <2>1, <2>2, NewConnectionKeepsInv
<1>. QED  BY <1>1, <1>2

\* The rest of a creation or a deletion.
LEMMA CallStepKeepsInv ==
    ASSUME Inv, CallStep
    PROVE  Inv'
BY SubscribeKeepsInv, CloseStackKeepsInv DEF CallStep

\* Every step of a destructor, and the callback after it.
LEMMA DestructionKeepsInv ==
    ASSUME Inv, BusDelete \/ Destructors
    PROVE  Inv'
<1>1. CASE BusDelete
  BY <1>1, FrameKeepsInv DEF BusDelete, Idle, Inv, TypeOK
<1>2. CASE DisposeConnection
  <2>1. /\ dying # Null /\ dyingIndex' = dyingIndex + 1
        /\ ProxyDeleteConnection(dying, dyingIndex)
        /\ UNCHANGED <<proxies, connections, conn, call, busState, busIndex, dying,
                       fault>>
    BY <1>2 DEF DisposeConnection
  <2>2. dying \in LiveProxies /\ dyingIndex' \in Nat /\ call' = NoCall
    BY <2>1 DEF Inv, TypeOK, DyingForgotten, CallOK, LiveProxies
  <2>. QED  BY <2>1, <2>2, ProxyDeleteConnectionKeepsInv
<1>3. CASE DisposeProxy
  BY <1>3, DisposeProxyKeepsInv
<1>4. CASE DisposeBusProxy
  <2>1. /\ busState = "closing" /\ dying = Null /\ DeleteProxy(busIndex)
        /\ busIndex' = busIndex + 1 /\ UNCHANGED busState
    BY <1>4 DEF DisposeBusProxy
  <2>2. busIndex \in Nat /\ busIndex' \in Nat /\ call = NoCall
    BY <2>1 DEF Inv, TypeOK, CallOK
  <2>. QED  BY <2>1, <2>2, DeleteProxyKeepsInv
<1>5. CASE DisposeBus
  BY <1>5, FrameKeepsInv DEF DisposeBus, Inv, TypeOK, CallOK
<1>6. CASE LateAPDU
  BY <1>6, FrameKeepsInv DEF LateAPDU, Inv, TypeOK, destruction, Faults
<1>. QED  BY <1>1, <1>2, <1>3, <1>4, <1>5, <1>6 DEF Destructors

\* Every deletion a client asks for, with any id.
LEMMA DeletionKeepsInv ==
    ASSUME Inv, CloseConnection \/ RemoveProxy
    PROVE  Inv'
<1>1. CASE CloseConnection
  <2>1. PICK c \in DOMAIN conn : DeleteConnection(conn[c].id)
    BY <1>1 DEF CloseConnection
  <2>2. conn[c].id \in Nat /\ Idle /\ UNCHANGED destruction
    BY <1>1, ArrayTypes DEF CloseConnection, Inv
  <2>. QED  BY <2>1, <2>2, DeleteConnectionKeepsInv
<1>2. CASE RemoveProxy
  <2>1. PICK p \in DOMAIN proxy : DeleteProxy(proxy[p].id)
    BY <1>2 DEF RemoveProxy
  <2>2. proxy[p].id \in Nat
    BY ArrayTypes DEF Inv
  <2>3. dying = Null /\ call = NoCall /\ UNCHANGED busState /\ busIndex' \in Nat
    BY <1>2 DEF RemoveProxy, Idle, Inv, TypeOK
  <2>. QED  BY <2>1, <2>2, <2>3, DeleteProxyKeepsInv
<1>. QED  BY <1>1, <1>2

LEMMA NextKeepsInv == Inv /\ [Next]_vars => Inv'
<1>. SUFFICES ASSUME Inv, [Next]_vars PROVE Inv'
  OBVIOUS
<1>1. CASE CreateProxy \/ CreateConnection(DOMAIN proxy)
  BY <1>1, CreationKeepsInv
<1>2. CASE BusDelete \/ Destructors
  BY <1>2, DestructionKeepsInv
<1>3. CASE CloseConnection \/ RemoveProxy
  BY <1>3, DeletionKeepsInv
<1>4. CASE CallStep
  BY <1>4, CallStepKeepsInv
<1>5. CASE UNCHANGED vars
  BY <1>5, FrameKeepsInv DEF vars, registry, destruction, Inv, TypeOK
<1>. QED  BY <1>1, <1>2, <1>3, <1>4, <1>5 DEF Next

\* What GetConnection returns is in the array of a proxy in the array of the bus.
LEMMA GetConnectionFinds ==
    ASSUME Inv, NEW src, NEW dest, GetConnection(src, dest) # Null
    PROVE  \E p \in ToSet(proxies) :
              /\ proxy[p].localAddr = src
              /\ GetConnection(src, dest) \in Own(p)
              /\ conn[GetConnection(src, dest)].remoteAddr = dest
<1>. DEFINE hits == {i \in Indices(proxies) : /\ proxy[ProxyAt(i)].localAddr = src
                                              /\ OwnTo(ProxyAt(i), dest) # {}}
            p == ProxyAt(Min(hits))
            k == Max(OwnTo(p, dest))
            own == proxy[p].connections
<1>1. hits # {} /\ GetConnection(src, dest) = own[k + 1]
  BY Zenon DEF GetConnection
<1>2. Min(hits) \in hits
  <2>1. hits \in SUBSET Nat
    BY DEF Indices
  <2>. QED  BY <1>1, <2>1, MinExists
<1>3. /\ proxy[p].localAddr = src /\ OwnTo(p, dest) # {}
      /\ p \in ToSet(proxies) /\ own \in Seq(ConnObjs)
  BY <1>2, ArrayTypes DEF Inv
<1>. HIDE DEF p
<1>4. k \in OwnTo(p, dest)
  <2>1. OwnTo(p, dest) \in SUBSET (0 .. Len(own) - 1) /\ Len(own) \in Nat
    BY <1>3 DEF OwnTo, Indices
  <2>. QED  BY <1>3, <2>1, MaxExists
<1>5. own[k + 1] \in Own(p) /\ conn[own[k + 1]].remoteAddr = dest
  <2>1. k \in Indices(own) /\ conn[own[k + 1]].remoteAddr = dest
    BY <1>4, Zenon DEF OwnTo
  <2>. HIDE DEF k
  <2>2. k + 1 \in DOMAIN own
    BY <2>1, <1>3 DEF Indices
  <2>. QED  BY <2>1, <2>2, Zenon DEF Own, ToSet
<1>. QED  BY <1>1, <1>3, <1>5

-----------------------------------------------------------------------------
(* The theorems.                                                           *)

\* The state of the registry keeps its type, whatever ids the clients pass.
THEOREM TypeCorrect == Spec => []TypeOK
<1>1. Inv => TypeOK
  BY DEF Inv
<1>. QED  BY <1>1, InitInv, NextKeepsInv, PTL DEF Spec

\* No array ever holds a freed object: neither DeleteProxy with a stale id, nor
\* DeleteConnection of the wrong connection, nor a destructor halfway through its
\* loop leaves a pointer to a freed proxy in the bus or a pointer to a freed or
\* foreign connection in a live proxy.
THEOREM ArraysHoldLiveObjects == Spec => []RegistryLive
<1>1. Inv => RegistryLive
  BY DEF Inv
<1>. QED  BY <1>1, InitInv, NextKeepsInv, PTL DEF Spec

\* An open stack is always within reach of a live proxy that can close it.
THEOREM StacksNeverOrphaned == Spec => []StacksOwned
<1>1. Inv => StacksOwned
  BY DEF Inv
<1>. QED  BY <1>1, InitInv, NextKeepsInv, PTL DEF Spec

\* Send never reaches a freed object: for every address pair, what GetConnection
\* returns is a live connection with an open stack, owned by a proxy of the bus.
THEOREM SendIsSafe == Spec => []SendTargetsUsable
<1>1. ASSUME Inv PROVE SendTargetsUsable
  <2>. SUFFICES ASSUME NEW src \in Addrs, NEW dest \in Addrs,
                       GetConnection(src, dest) # Null
                PROVE  /\ GetConnection(src, dest) \in live
                       /\ GetConnection(src, dest) \in stacks
                       /\ conn[GetConnection(src, dest)].proxy \in ToSet(proxies)
                       /\ Carries(GetConnection(src, dest), src, dest)
    BY Zenon DEF SendTargetsUsable
  <2>. DEFINE c == GetConnection(src, dest)
  <2>1. PICK p \in ToSet(proxies) : /\ proxy[p].localAddr = src
                                    /\ c \in Own(p)
                                    /\ conn[c].remoteAddr = dest
    BY <1>1, GetConnectionFinds
  <2>. HIDE DEF c
  <2>2. p \in LiveProxies
    BY <1>1, <2>1 DEF Inv, RegistryLive
  <2>3. c \in live /\ c \in stacks /\ conn[c].proxy = p
    BY <1>1, <2>1, <2>2 DEF Inv, RegistryLive
  <2>. QED  BY <2>1, <2>3 DEF c, Carries
<1>. QED  BY <1>1, InitInv, NextKeepsInv, PTL DEF Spec

-----------------------------------------------------------------------------
(* The end of the bus: its destructor and those of the proxies run down    *)
(* arrays that shrink under their loops.                                   *)

\* The arithmetic of ~MessageBus, whose index counts up while the array shrinks: it
\* never gets beyond the end by more than the last deletion takes.
IndexMeetsEnd ==
    /\ busState = "closing" => busIndex <= Len(proxies) + 1
    /\ busState = "deleted" => /\ dying = Null
                               /\ Len(proxies) <= busIndex /\ busIndex <= Len(proxies) + 1

LEMMA DestructorsMeetEnd ==
    ASSUME Inv, IndexMeetsEnd, Destructors
    PROVE  IndexMeetsEnd'
<1>1. proxies \in Seq(ProxyObjs) /\ Len(proxies) \in Nat /\ busIndex \in Nat
  BY ArrayTypes DEF Inv, TypeOK
<1>2. CASE DisposeConnection
  BY <1>2 DEF DisposeConnection, IndexMeetsEnd
<1>3. CASE DisposeProxy
  BY <1>3 DEF DisposeProxy, IndexMeetsEnd
<1>4. CASE DisposeBusProxy
  <2>1. /\ busState' = "closing" /\ busIndex < Len(proxies) /\ busIndex' = busIndex + 1
        /\ DeleteProxy(busIndex)
    BY <1>4 DEF DisposeBusProxy
  <2>2. busIndex \in Indices(proxies)
    BY <1>1, <2>1 DEF Indices
  <2>3. Len(proxies') = Len(proxies) - 1
    BY <1>1, <2>1, <2>2, RemoveByIndexSlots DEF DeleteProxy
  <2>. QED  BY <1>1, <2>1, <2>3 DEF IndexMeetsEnd
<1>5. CASE DisposeBus
  BY <1>5 DEF DisposeBus, registry, IndexMeetsEnd
<1>6. CASE LateAPDU
  BY <1>6 DEF LateAPDU, registry, destruction, IndexMeetsEnd
<1>. QED  BY <1>2, <1>3, <1>4, <1>5, <1>6 DEF Destructors

LEMMA NextMeetsEnd == Inv /\ IndexMeetsEnd /\ [Next]_vars => IndexMeetsEnd'
<1>. SUFFICES ASSUME Inv, IndexMeetsEnd, [Next]_vars PROVE IndexMeetsEnd'
  OBVIOUS
<1>1. CASE CreateProxy \/ CreateConnection(DOMAIN proxy) \/ CloseConnection \/ RemoveProxy
  <2>1. busState' = "up"
    BY <1>1 DEF CreateProxy, CreateConnection, CloseConnection, RemoveProxy, Idle, destruction
  <2>. QED  BY <2>1 DEF IndexMeetsEnd
<1>2. CASE BusDelete
  <2>1. Len(proxies) \in Nat /\ busState' = "closing" /\ busIndex' = 0 /\ proxies' = proxies
    BY <1>2, ArrayTypes DEF BusDelete, registry, Inv
  <2>. QED  BY <2>1 DEF IndexMeetsEnd
<1>3. CASE Destructors
  BY <1>3, DestructorsMeetEnd
<1>4. CASE CallStep
  <2>1. busState' = "up"
    BY <1>4, OpIsCall DEF CallStep, Subscribe, CloseStack, Inv, CallOK, destruction
  <2>. QED  BY <2>1 DEF IndexMeetsEnd
<1>5. CASE UNCHANGED vars
  BY <1>5 DEF vars, registry, destruction, IndexMeetsEnd
<1>. QED  BY <1>1, <1>2, <1>3, <1>4, <1>5 DEF Next

\* ~MessageBus deletes every other proxy: however many there are, the deleted bus
\* leaves as many proxies in its array as the loop deleted, or one fewer, and with
\* them their open stacks.
THEOREM HalfTheProxiesStay ==
    Spec => [](busState = "deleted" =>
                   Len(proxies) = busIndex \/ Len(proxies) = busIndex - 1)
<1>1. Init => IndexMeetsEnd
  BY DEF Init, IndexMeetsEnd
<1>2. Inv /\ IndexMeetsEnd => (busState = "deleted" =>
                                   Len(proxies) = busIndex \/ Len(proxies) = busIndex - 1)
  <2>1. Inv => Len(proxies) \in Nat /\ busIndex \in Nat
    BY ArrayTypes DEF Inv, TypeOK
  <2>. QED  BY <2>1 DEF IndexMeetsEnd
<1>. QED  BY <1>1, <1>2, InitInv, NextKeepsInv, NextMeetsEnd, PTL DEF Spec

\* A destructor is running.
Deleting == fault = "none" /\ (dying # Null \/ busState = "closing")

\* What the loop of ~MessageBus has to do, with the proxy in work, and what the loop
\* of ~Proxy has.
ProxiesToGo ==
    CASE busState = "closing" /\ dying = Null  -> 2 * Len(proxies) + 1
      [] busState = "closing" /\ dying # Null  -> 2 * Len(proxies) + 2
      [] busState # "closing" /\ dying # Null  -> 1
      [] busState # "closing" /\ dying = Null  -> 0
ConnectionsToGo ==
    IF dying # Null /\ dyingIndex < Len(proxy[dying].connections)
    THEN Len(proxy[dying].connections) - dyingIndex ELSE 0

LessToGo ==
    \/ ProxiesToGo' < ProxiesToGo
    \/ ProxiesToGo' = ProxiesToGo /\ ConnectionsToGo' < ConnectionsToGo

LEMMA ToGoIsNat ==
    Inv => /\ ProxiesToGo \in Nat /\ ConnectionsToGo \in Nat
           /\ Len(proxies) \in Nat /\ dyingIndex \in Nat
           /\ dying # Null => /\ dying \in DOMAIN proxy
                              /\ proxy[dying].connections \in Seq(ConnObjs)
                              /\ Len(proxy[dying].connections) \in Nat
<1>. SUFFICES ASSUME Inv
              PROVE  /\ ProxiesToGo \in Nat /\ ConnectionsToGo \in Nat
                     /\ Len(proxies) \in Nat /\ dyingIndex \in Nat
                     /\ dying # Null => /\ dying \in DOMAIN proxy
                                        /\ proxy[dying].connections \in Seq(ConnObjs)
                                        /\ Len(proxy[dying].connections) \in Nat
  OBVIOUS
<1>1. Len(proxies) \in Nat /\ dyingIndex \in Nat
  BY ArrayTypes DEF Inv, TypeOK
<1>2. dying # Null => /\ dying \in DOMAIN proxy
                      /\ proxy[dying].connections \in Seq(ConnObjs)
                      /\ Len(proxy[dying].connections) \in Nat
  BY ArrayTypes DEF Inv, TypeOK
<1>3. ProxiesToGo \in Nat
  BY <1>1 DEF ProxiesToGo
<1>4. ConnectionsToGo \in Nat
  BY <1>1, <1>2 DEF ConnectionsToGo
<1>. QED  BY <1>1, <1>2, <1>3, <1>4

\* Proxy::DeleteConnection does not lengthen the array of its proxy.
LEMMA OwnShrinks ==
    ASSUME Inv, NEW p \in DOMAIN proxy, NEW id, ProxyDeleteConnection(p, id)
    PROVE  /\ Len(proxy'[p].connections) \in Nat
           /\ Len(proxy'[p].connections) <= Len(proxy[p].connections)
<1>. DEFINE own == proxy[p].connections
            i == Min(OwnWithId(p, id))
<1>1. own \in Seq(ConnObjs) /\ Len(own) \in Nat
  BY ArrayTypes DEF Inv
<1>2. CASE OwnWithId(p, id) = {}
  BY <1>1, <1>2 DEF ProxyDeleteConnection
<1>3. CASE OwnWithId(p, id) # {}
  <2>1. OwnWithId(p, id) \in SUBSET Nat /\ OwnWithId(p, id) \subseteq Indices(own)
    BY <1>1 DEF OwnWithId, Indices
  <2>2. i \in Indices(own)
    BY <1>3, <2>1, MinExists
  <2>3. proxy' = [proxy EXCEPT ![p].connections = RemoveByIndex(@, i)]
    BY <1>3, Zenon DEF ProxyDeleteConnection
  <2>. HIDE DEF i
  <2>4. proxy \in [DOMAIN proxy -> ProxyRec] /\ proxy[p] \in ProxyRec
    BY DEF Inv, TypeOK
  <2>5. proxy'[p].connections = RemoveByIndex(own, i)
    BY <2>3, <2>4 DEF ProxyRec
  <2>6. Len(RemoveByIndex(own, i)) = Len(own) - 1 /\ Len(own) # 0
    BY <1>1, <2>2, RemoveByIndexSlots DEF Indices
  <2>. QED  BY <1>1, <2>5, <2>6
<1>. QED  BY <1>2, <1>3

LEMMA DestructorsLessToGo ==
    ASSUME Inv, IndexMeetsEnd, Destructors, Deleting
    PROVE  LessToGo
<1>1. Len(proxies) \in Nat /\ dyingIndex \in Nat
  BY ToGoIsNat
<1>2. CASE DisposeConnection
  <2>1. /\ dying # Null /\ dyingIndex < Len(proxy[dying].connections)
        /\ ProxyDeleteConnection(dying, dyingIndex)
        /\ dyingIndex' = dyingIndex + 1
        /\ UNCHANGED <<proxies, busState, dying>>
    BY <1>2 DEF DisposeConnection
  <2>2. PICK n \in Nat : n = Len(proxy[dying].connections)
    BY <2>1, ToGoIsNat
  <2>3. PICK m \in Nat : m = Len(proxy'[dying].connections) /\ m <= n
    BY <2>1, <2>2, ToGoIsNat, OwnShrinks
  <2>4. ProxiesToGo' = ProxiesToGo
    BY <2>1 DEF ProxiesToGo
  <2>5. ConnectionsToGo = n - dyingIndex
    BY <2>1, <2>2 DEF ConnectionsToGo
  <2>6. ConnectionsToGo' = IF dyingIndex + 1 < m THEN m - (dyingIndex + 1) ELSE 0
    BY <2>1, <2>3 DEF ConnectionsToGo
  <2>7. dyingIndex < n
    BY <2>1, <2>2
  <2>8. ConnectionsToGo' < ConnectionsToGo
    BY ONLY <1>1, <2>3, <2>5, <2>6, <2>7, n \in Nat, m \in Nat
  <2>. QED  BY <2>4, <2>8 DEF LessToGo
<1>3. CASE DisposeProxy
  <2>1. dying # Null /\ dying' = Null /\ UNCHANGED <<proxies, busState>>
    BY <1>3 DEF DisposeProxy
  <2>2. ProxiesToGo' < ProxiesToGo
    BY <1>1, <2>1 DEF ProxiesToGo
  <2>. QED  BY <2>2 DEF LessToGo
<1>4. CASE DisposeBusProxy
  <2>1. /\ busState = "closing" /\ busState' = "closing" /\ dying = Null
        /\ busIndex < Len(proxies) /\ DeleteProxy(busIndex)
    BY <1>4 DEF DisposeBusProxy
  <2>2. proxies \in Seq(ProxyObjs) /\ busIndex \in Indices(proxies)
    BY <1>1, <2>1, ArrayTypes DEF Indices, Inv, TypeOK
  <2>3. Len(proxies') = Len(proxies) - 1
    BY <2>1, <2>2, RemoveByIndexSlots DEF DeleteProxy
  <2>4. dying' # Null
    <3>1. dying' = ProxyAt(busIndex) /\ ProxyAt(busIndex) \in ProxyObjs
      BY <2>1, <2>2, ArrayTypes DEF DeleteProxy, Inv
    <3>. QED  BY <3>1, NullFresh
  <2>5. /\ ProxiesToGo = 2 * Len(proxies) + 1
        /\ ProxiesToGo' = 2 * (Len(proxies) - 1) + 2
    BY <2>1, <2>3, <2>4 DEF ProxiesToGo
  <2>. QED  BY <1>1, <2>5 DEF LessToGo
<1>5. CASE DisposeBus
  <2>1. /\ busState = "closing" /\ busState' = "deleted" /\ dying = Null /\ dying' = Null
    BY <1>5 DEF DisposeBus
  <2>2. ProxiesToGo = 2 * Len(proxies) + 1 /\ ProxiesToGo' = 0
    BY <2>1 DEF ProxiesToGo
  <2>. QED  BY <1>1, <2>2 DEF LessToGo
<1>6. ~ LateAPDU
  BY DEF LateAPDU, Deleting, IndexMeetsEnd
<1>. QED  BY <1>2, <1>3, <1>4, <1>5, <1>6 DEF Destructors

\* While a destructor runs no client gets in between, and each of its steps leaves
\* fewer proxies to delete, or as many and fewer connections: the loops of
\* ~MessageBus and ~Proxy end, though DeleteProxy and DeleteConnection move the
\* elements of the arrays they run over.
THEOREM DeletionNeverCircles ==
    Spec => /\ [](ProxiesToGo \in Nat /\ ConnectionsToGo \in Nat)
            /\ [][Deleting => LessToGo]_vars
<1>1. Init => IndexMeetsEnd
  BY DEF Init, IndexMeetsEnd
<1>2. ASSUME Inv, IndexMeetsEnd, Next, Deleting PROVE LessToGo
  <2>1. ~ Idle
    BY <1>2 DEF Idle, Deleting
  <2>3. ~ CallStep
    BY <1>2, OpIsCall DEF Deleting, Inv, CallOK, CallStep, Subscribe, CloseStack
  <2>2. Destructors
    BY <1>2, <2>1, <2>3 DEF Next, CreateProxy, CreateConnection, BusDelete, CloseConnection,
                      RemoveProxy
  <2>. QED  BY <1>2, <2>2, DestructorsLessToGo
<1>3. Inv /\ IndexMeetsEnd /\ [Next]_vars => [Deleting => LessToGo]_vars
  BY <1>2
<1>4. Inv => ProxiesToGo \in Nat /\ ConnectionsToGo \in Nat
  BY ToGoIsNat
<1>. QED  BY <1>1, <1>3, <1>4, InitInv, NextKeepsInv, NextMeetsEnd, PTL DEF Spec

-----------------------------------------------------------------------------
(***************************************************************************)
(* What holds of the registry when it is used the way this repository uses *)
(* it: the adapter only creates, the tester closes last what it created    *)
(* last.  Under that discipline the compaction of the arrays never         *)
(* renumbers anything, so that an id stays an index, and on that rest the  *)
(* agreement of the two records of the connections and the absence of      *)
(* every other undefined behaviour.                                        *)
(***************************************************************************)

\* The objects of the two arrays know their places.
IdsAreIndices ==
    /\ \A i \in Indices(proxies) : proxy[ProxyAt(i)].id = i
    /\ \A i \in Indices(connections) : conn[ConnectionAt(i)].id = i

\* The connection whose creation or deletion is half done, if there is one.
InHand == IF call = NoCall THEN {} ELSE {call.conn}

\* The open stacks are those of the connections the bus knows and the one in hand,
\* and their proxies are proxies the bus knows.
StacksKnown ==
    /\ ToSet(connections) = stacks \ InHand
    /\ \A c \in stacks : conn[c].proxy \in ToSet(proxies)

\* The connection in hand has the id that comes after those the bus knows: that of
\* the slot it will have, or had.
HandIsNext ==
    call # NoCall => /\ call.id = Len(connections)
                     /\ conn[call.conn].id = Len(connections)

\* What the discipline of the clients adds to Inv: the first two parts hold until
\* the end, the last three until the bus is deleted.
Disciplined ==
    /\ listening = stacks \ InHand
    /\ fault \in {"none", "unknownPort", "freedBus"}
    /\ busState = "up" => IdsAreIndices /\ StacksKnown /\ HandIsNext

RInv == Inv /\ Disciplined

-----------------------------------------------------------------------------
(* Consequences of the invariant.                                          *)

\* Ids that are indices tell the slots of the array apart.
LEMMA ConnectionsInjective ==
    ASSUME TypeOK, IdsAreIndices
    PROVE  IsInjective(connections)
<1>1. connections \in Seq(ConnObjs)
  BY ArrayTypes
<1>2. \A k \in DOMAIN connections : conn[connections[k]].id = k - 1
  <2>. SUFFICES ASSUME NEW k \in DOMAIN connections
                PROVE  conn[connections[k]].id = k - 1
    OBVIOUS
  <2>1. k - 1 \in Indices(connections) /\ (k - 1) + 1 = k
    BY <1>1 DEF Indices
  <2>2. conn[ConnectionAt(k - 1)].id = k - 1
    BY <2>1 DEF IdsAreIndices
  <2>. QED  BY <2>1, <2>2 DEF ConnectionAt
<1>3. \A j, k \in DOMAIN connections : j - 1 = k - 1 => j = k
  BY <1>1
<1>. QED  BY <1>2, <1>3 DEF IsInjective

\* A connection in the array of a live proxy is allocated, live and open.
LEMMA OwnConnections ==
    ASSUME Inv, NEW p \in LiveProxies, NEW c \in Own(p)
    PROVE  /\ c \in DOMAIN conn /\ c \in ConnObjs /\ c \in live /\ c \in stacks
           /\ conn[c].proxy = p
<1>1. c \in live /\ c \in stacks /\ conn[c].proxy = p
  BY DEF Inv, RegistryLive
<1>2. c \in DOMAIN conn /\ c \in ConnObjs
  BY <1>1 DEF Inv, TypeOK
<1>. QED  BY <1>1, <1>2

\* The connection of an open stack is live, and so is its proxy, which owns it.
LEMMA StackOwner ==
    ASSUME Inv, NEW c \in stacks
    PROVE  /\ c \in DOMAIN conn /\ c \in live
           /\ conn[c].proxy \in LiveProxies /\ c \in Own(conn[c].proxy)
<1>1. c \in DOMAIN conn /\ conn[c].proxy \in ProxyObjs
  BY ArrayTypes DEF Inv, TypeOK
<1>2. conn[c].proxy \in live /\ c \in Own(conn[c].proxy)
  BY DEF Inv, StacksOwned
<1>3. conn[c].proxy \in LiveProxies
  BY <1>1, <1>2, HeapAssumption DEF Inv, TypeOK, LiveProxies
<1>. QED  BY <1>1, <1>2, <1>3, OwnConnections

\* A proxy the bus forgot owns nothing while the bus is up: its destructor has
\* nothing to close.
LEMMA DyingOwnsNothing ==
    ASSUME RInv, busState = "up", dying # Null
    PROVE  /\ proxy[dying].connections = << >>
           /\ \A c \in stacks : conn[c].proxy # dying
<1>1. dying \in LiveProxies /\ dying \notin ToSet(proxies)
  BY DEF RInv, Inv, TypeOK, DyingForgotten, LiveProxies
<1>2. \A c \in stacks : conn[c].proxy # dying
  BY <1>1 DEF RInv, Disciplined, StacksKnown
<1>3. Own(dying) = {}
  BY <1>1, <1>2, OwnConnections DEF RInv
<1>4. proxy[dying].connections \in Seq(ConnObjs)
  BY <1>1, ArrayTypes DEF RInv, Inv, LiveProxies
<1>5. DOMAIN proxy[dying].connections = {}
  BY <1>3 DEF Own, ToSet
<1>. QED  BY <1>2, <1>4, <1>5

-----------------------------------------------------------------------------
(* Steps after which the bus is not up, or that change nothing it records. *)

LEMMA RInitInv == Init => RInv
<1>. SUFFICES ASSUME Init PROVE RInv
  OBVIOUS
<1>. USE DEF Init
<1>1. IdsAreIndices
  BY DEF IdsAreIndices, Indices
<1>2. StacksKnown /\ HandIsNext
  BY DEF StacksKnown, HandIsNext, ToSet
<1>3. Disciplined
  BY <1>1, <1>2 DEF Disciplined, InHand
<1>. QED  BY <1>3, InitInv DEF RInv

\* While no call is in progress no connection is in hand.
LEMMA NoneInHand == call = NoCall => InHand = {} /\ HandIsNext
BY DEF InHand, HandIsNext

\* A step that leaves the registry alone and does not bring the bus back.
LEMMA FrameKeepsDiscipline ==
    ASSUME Disciplined, UNCHANGED registry, busState' = "up" => busState = "up",
           fault' \in {"none", "unknownPort", "freedBus"}
    PROVE  Disciplined'
<1>. USE DEF registry, InHand
<1>1. IdsAreIndices => IdsAreIndices'
  BY DEF IdsAreIndices, ProxyAt, ConnectionAt
<1>2. StacksKnown => StacksKnown'
  BY DEF StacksKnown
<1>3. HandIsNext => HandIsNext'
  BY DEF HandIsNext
<1>. QED  BY <1>1, <1>2, <1>3 DEF Disciplined

-----------------------------------------------------------------------------
(* Creation.                                                               *)

\* Adding an element keeps every slot, and stores it in a slot of its own.
LEMMA AppendSlots ==
    ASSUME NEW S, NEW arr \in Seq(S), NEW e
    PROVE  /\ Len(arr) \in Nat
           /\ Indices(Append(arr, e)) = Indices(arr) \cup {Len(arr)}
           /\ \A i \in Indices(arr) : Append(arr, e)[i + 1] = arr[i + 1]
           /\ Append(arr, e)[Len(arr) + 1] = e
<1>1. Len(arr) \in Nat /\ Len(Append(arr, e)) = Len(arr) + 1
  OBVIOUS
<1>2. Indices(Append(arr, e)) = Indices(arr) \cup {Len(arr)}
  BY <1>1 DEF Indices
<1>3. Append(arr, e)[Len(arr) + 1] = e
  OBVIOUS
<1>4. \A k \in 1 .. Len(arr) : Append(arr, e)[k] = arr[k]
  OBVIOUS
<1>5. \A i \in Indices(arr) : i + 1 \in 1 .. Len(arr)
  BY <1>1 DEF Indices
<1>. QED  BY <1>1, <1>2, <1>3, <1>4, <1>5, Zenon

\* The new proxy is entered in the heap and in the array of the bus.
LEMMA NewProxyEffect ==
    ASSUME TypeOK, NEW p, NEW name, NEW addr, NEW ports, NewProxy(p, name, addr, ports)
    PROVE  /\ p \in ProxyObjs \ DOMAIN proxy
           /\ DOMAIN proxy' = DOMAIN proxy \cup {p}
           /\ proxy'[p].id = Len(proxies) /\ proxy'[p].name = name
           /\ proxy'[p].localAddr = addr /\ proxy'[p].ports = ports
           /\ \A q \in DOMAIN proxy : proxy'[q] = proxy[q]
           /\ proxies' = Append(proxies, p)
           /\ ToSet(proxies') = ToSet(proxies) \cup {p}
           /\ UNCHANGED <<connections, conn, stacks, listening, call, fault>>
<1>. DEFINE rec == [id |-> Len(proxies), name |-> name, localAddr |-> addr,
                    ports |-> ports, connections |-> << >>]
<1>1. /\ p \in ProxyObjs \ DOMAIN proxy
      /\ proxy' = Extend(proxy, p, rec)
      /\ proxies' = Append(proxies, p)
      /\ UNCHANGED <<connections, conn, stacks, listening, call, fault>>
  BY Zenon DEF NewProxy
<1>2. /\ rec.id = Len(proxies) /\ rec.name = name
      /\ rec.localAddr = addr /\ rec.ports = ports
  OBVIOUS
<1>. HIDE DEF rec
<1>3. /\ DOMAIN proxy' = DOMAIN proxy \cup {p} /\ proxy'[p] = rec
      /\ \A q \in DOMAIN proxy : proxy'[q] = proxy[q]
  BY <1>1 DEF Extend
<1>4. ToSet(proxies') = ToSet(proxies) \cup {p}
  BY <1>1, ArrayTypes, AppendArray
<1>. QED  BY <1>1, <1>2, <1>3, <1>4

\* The new proxy gets the index it is stored at as its id.
LEMMA NewProxyKeepsIds ==
    ASSUME TypeOK, IdsAreIndices, StacksKnown,
           NEW p, NEW name, NEW addr, NEW ports, NewProxy(p, name, addr, ports)
    PROVE  IdsAreIndices' /\ StacksKnown'
<1>1. /\ proxies' = Append(proxies, p) /\ proxy'[p].id = Len(proxies)
      /\ \A q \in DOMAIN proxy : proxy'[q] = proxy[q]
      /\ ToSet(proxies') = ToSet(proxies) \cup {p}
      /\ UNCHANGED <<connections, conn, stacks, call>>
  BY NewProxyEffect
<1>2. /\ proxies \in Seq(ProxyObjs)
      /\ \A i \in Indices(proxies) : ProxyAt(i) \in DOMAIN proxy
  BY ArrayTypes
<1>3. /\ Indices(proxies') = Indices(proxies) \cup {Len(proxies)}
      /\ \A i \in Indices(proxies) : proxies'[i + 1] = ProxyAt(i)
      /\ proxies'[Len(proxies) + 1] = p
  <2>1. /\ Indices(Append(proxies, p)) = Indices(proxies) \cup {Len(proxies)}
        /\ \A i \in Indices(proxies) : Append(proxies, p)[i + 1] = proxies[i + 1]
        /\ Append(proxies, p)[Len(proxies) + 1] = p
    <3>1. proxies \in Seq(ProxyObjs)
      BY <1>2
    <3>. QED  BY ONLY <3>1, AppendSlots DEF Indices
  <2>. QED  BY <2>1, <1>1 DEF ProxyAt
<1>4. IdsAreIndices'
  <2>1. ASSUME NEW i \in Indices(proxies')
        PROVE  proxy'[proxies'[i + 1]].id = i
    <3>1. CASE i \in Indices(proxies)
      BY <3>1, <1>1, <1>2, <1>3, Zenon DEF IdsAreIndices
    <3>2. CASE i = Len(proxies)
      BY <3>2, <1>1, <1>3, Zenon
    <3>. QED  BY <3>1, <3>2, <1>3, Zenon
  <2>. QED  BY <2>1, <1>1 DEF IdsAreIndices, ProxyAt, ConnectionAt
<1>5. StacksKnown'
  BY <1>1 DEF StacksKnown, InHand
<1>. QED  BY <1>4, <1>5

LEMMA NewProxyKeepsDiscipline ==
    ASSUME RInv, NEW p, NEW name, NEW addr, NEW ports, NewProxy(p, name, addr, ports),
           UNCHANGED destruction
    PROVE  Disciplined'
<1>1. IdsAreIndices /\ StacksKnown => IdsAreIndices' /\ StacksKnown'
  BY NewProxyKeepsIds DEF RInv, Inv
<1>2. UNCHANGED <<connections, conn, stacks, listening, call, fault>>
  BY NewProxyEffect DEF RInv, Inv
<1>3. InHand' = InHand /\ (HandIsNext => HandIsNext')
  BY <1>2 DEF InHand, HandIsNext
<1>. QED  BY <1>1, <1>2, <1>3 DEF RInv, Disciplined, destruction

\* The stack of a connection of a proxy of the bus is opened, or its port is not a
\* port of the proxy: the proxy is where its id says, and no connection has the id
\* of the new one, which is its index.
LEMMA NewConnectionOpens ==
    ASSUME RInv, Idle, NEW p \in ToSet(proxies), NEW c, NEW remote, NEW port,
           NewConnection(c, proxy[p].id, remote, port)
    PROVE  \/ OpenConnection(c, p, Len(connections), remote)
           \/ Fail("unknownPort")
<1>1. /\ proxies \in Seq(ProxyObjs) /\ connections \in Seq(ConnObjs)
      /\ ToSet(proxies) \subseteq DOMAIN proxy
  BY ArrayTypes DEF RInv, Inv
<1>2. IdsAreIndices /\ StacksKnown /\ InHand = {}
  BY NoneInHand DEF RInv, Disciplined, Idle
<1>3. proxy[p].id \in Indices(proxies) /\ ProxyAt(proxy[p].id) = p
  <2>1. PICK k \in DOMAIN proxies : proxies[k] = p
    BY DEF ToSet
  <2>2. k - 1 \in Indices(proxies) /\ (k - 1) + 1 = k
    BY <1>1, <2>1 DEF Indices
  <2>3. ProxyAt(k - 1) = p
    BY <2>1, <2>2 DEF ProxyAt
  <2>. QED  BY <1>2, <2>2, <2>3 DEF IdsAreIndices
<1>4. proxy[p].id # NONE
  BY <1>1, <1>3 DEF Indices, NONE
<1>5. ~ NameInUse(p, Len(connections))
  <2>1. ASSUME NEW d \in stacks PROVE conn[d].id # Len(connections)
    <3>1. PICK k \in DOMAIN connections : connections[k] = d
      BY <1>2 DEF StacksKnown, ToSet
    <3>2. k - 1 \in Indices(connections) /\ (k - 1) + 1 = k /\ k - 1 # Len(connections)
      BY <1>1, <3>1 DEF Indices
    <3>3. conn[ConnectionAt(k - 1)].id = k - 1
      BY <1>2, <3>2 DEF IdsAreIndices
    <3>. QED  BY <3>1, <3>2, <3>3 DEF ConnectionAt
  <2>. QED  BY <2>1 DEF NameInUse
<1>. QED  BY <1>3, <1>4, <1>5, Zenon DEF NewConnection

\* The new connection is entered in the heap, in the array of its proxy and in the
\* open stacks, and is in hand; of the proxies, only its own changes.
LEMMA OpenConnectionEffect ==
    ASSUME TypeOK, NEW p \in ToSet(proxies), NEW c, NEW connId, NEW remote,
           OpenConnection(c, p, connId, remote)
    PROVE  /\ c \in ConnObjs \ DOMAIN conn
           /\ conn'[c].id = connId /\ conn'[c].proxy = p
           /\ conn'[c].remoteAddr = remote
           /\ \A d \in DOMAIN conn : conn'[d] = conn[d]
           /\ DOMAIN proxy' = DOMAIN proxy
           /\ \A q \in DOMAIN proxy :
                 /\ q # p => proxy'[q] = proxy[q]
                 /\ proxy'[q].id = proxy[q].id /\ proxy'[q].name = proxy[q].name
                 /\ proxy'[q].localAddr = proxy[q].localAddr
           /\ Own(p)' = Own(p) \cup {c}
           /\ stacks' = stacks \cup {c}
           /\ call' = [op |-> "new", conn |-> c, id |-> connId]
           /\ UNCHANGED <<proxies, connections, listening, fault>>
<1>. DEFINE rec == [id |-> connId, proxy |-> p, remoteAddr |-> remote]
<1>1. /\ c \in ConnObjs \ DOMAIN conn
      /\ conn' = Extend(conn, c, rec)
      /\ proxy' = [proxy EXCEPT ![p].connections = Append(@, c)]
      /\ stacks' = stacks \cup {c}
      /\ call' = [op |-> "new", conn |-> c, id |-> connId]
      /\ UNCHANGED <<proxies, connections, listening, fault>>
  BY Zenon DEF OpenConnection
<1>2. rec.id = connId /\ rec.proxy = p /\ rec.remoteAddr = remote
  OBVIOUS
<1>. HIDE DEF rec
<1>3. conn'[c] = rec /\ \A d \in DOMAIN conn : conn'[d] = conn[d]
  BY <1>1 DEF Extend
<1>4. p \in DOMAIN proxy /\ proxy[p] \in ProxyRec
  BY ArrayTypes DEF TypeOK
<1>5. /\ DOMAIN proxy' = DOMAIN proxy
      /\ \A q \in DOMAIN proxy :
            /\ q # p => proxy'[q] = proxy[q]
            /\ proxy'[q].id = proxy[q].id /\ proxy'[q].name = proxy[q].name
            /\ proxy'[q].localAddr = proxy[q].localAddr
  BY <1>1, <1>4 DEF ProxyRec
<1>6. Own(p)' = Own(p) \cup {c}
  <2>1. proxy[p].connections \in Seq(ConnObjs)
    BY <1>4 DEF ProxyRec
  <2>2. proxy'[p].connections = Append(proxy[p].connections, c)
    BY <1>1, <1>4 DEF ProxyRec
  <2>. QED  BY <2>1, <2>2, <1>1, AppendArray DEF Own
<1>. QED  BY <1>1, <1>2, <1>3, <1>5, <1>6

\* The new connection gets as its id the index it will be stored at.
LEMMA OpenConnectionKeepsDiscipline ==
    ASSUME RInv, Idle, NEW p \in ToSet(proxies), NEW c, NEW remote,
           OpenConnection(c, p, Len(connections), remote), UNCHANGED destruction
    PROVE  Disciplined'
<1>1. /\ c \in ConnObjs \ DOMAIN conn
      /\ conn'[c].id = Len(connections) /\ conn'[c].proxy = p
      /\ \A d \in DOMAIN conn : conn'[d] = conn[d]
      /\ \A q \in DOMAIN proxy : proxy'[q].id = proxy[q].id
      /\ stacks' = stacks \cup {c}
      /\ call' = [op |-> "new", conn |-> c, id |-> Len(connections)]
      /\ UNCHANGED <<proxies, connections, listening, fault>>
  BY OpenConnectionEffect DEF RInv, Inv
<1>2. /\ connections \in Seq(ConnObjs) /\ ToSet(connections) \subseteq DOMAIN conn
      /\ \A i \in Indices(connections) : ConnectionAt(i) \in DOMAIN conn
      /\ \A i \in Indices(proxies) : ProxyAt(i) \in DOMAIN proxy
      /\ stacks \subseteq DOMAIN conn
  BY ArrayTypes DEF RInv, Inv, TypeOK
<1>3. IdsAreIndices /\ StacksKnown /\ InHand = {} /\ listening = stacks
  BY NoneInHand DEF RInv, Disciplined, Idle
<1>4. InHand' = {c}
  BY <1>1 DEF InHand, NoCall
<1>5. IdsAreIndices'
  <2>1. ASSUME NEW i \in Indices(proxies) PROVE proxy'[ProxyAt(i)].id = i
    BY <1>1, <1>2, <1>3 DEF IdsAreIndices
  <2>2. ASSUME NEW i \in Indices(connections) PROVE conn'[ConnectionAt(i)].id = i
    BY <1>1, <1>2, <1>3 DEF IdsAreIndices
  <2>. QED  BY <2>1, <2>2, <1>1 DEF IdsAreIndices, ProxyAt, ConnectionAt
<1>6. StacksKnown'
  <2>1. stacks' \ {c} = stacks
    BY <1>1, <1>2
  <2>2. \A d \in stacks' : conn'[d].proxy \in ToSet(proxies)
    BY <1>1, <1>2, <1>3 DEF StacksKnown
  <2>. QED  BY <1>1, <1>3, <1>4, <2>1, <2>2 DEF StacksKnown
<1>7. HandIsNext' /\ listening' = stacks' \ InHand'
  BY <1>1, <1>2, <1>3, <1>4 DEF HandIsNext
<1>. QED  BY <1>1, <1>5, <1>6, <1>7 DEF RInv, Disciplined

\* Subscribing stores the new connection at its index, and nothing is in hand.
LEMMA SubscribeKeepsDiscipline ==
    ASSUME RInv, Subscribe
    PROVE  Disciplined'
<1>. DEFINE c == call.conn
<1>1. /\ connections' = Append(connections, c)
      /\ listening' = listening \cup {c} /\ call' = NoCall
      /\ UNCHANGED <<proxies, proxy, conn, stacks, destruction, fault>>
      /\ call # NoCall
  BY OpIsCall DEF Subscribe
<1>2. /\ busState = "up" /\ busState' = "up" /\ c \in stacks
      /\ InHand = {c} /\ InHand' = {}
  BY <1>1 DEF RInv, Inv, CallOK, InHand, destruction
<1>3. IdsAreIndices /\ StacksKnown /\ conn[c].id = Len(connections)
      /\ listening = stacks \ {c}
  BY <1>1, <1>2 DEF RInv, Disciplined, HandIsNext
<1>4. connections \in Seq(ConnObjs) /\ c \in ConnObjs
  BY <1>1, ArrayTypes DEF RInv, Inv, TypeOK
<1>. HIDE DEF c
<1>5. /\ Indices(connections') = Indices(connections) \cup {Len(connections)}
      /\ \A i \in Indices(connections) : connections'[i + 1] = ConnectionAt(i)
      /\ connections'[Len(connections) + 1] = c
  <2>1. /\ Indices(Append(connections, c)) = Indices(connections) \cup {Len(connections)}
        /\ \A i \in Indices(connections) :
              Append(connections, c)[i + 1] = connections[i + 1]
        /\ Append(connections, c)[Len(connections) + 1] = c
    BY ONLY <1>4, AppendSlots DEF Indices
  <2>. QED  BY <2>1, <1>1 DEF ConnectionAt
<1>6. IdsAreIndices'
  <2>1. ASSUME NEW i \in Indices(connections') PROVE conn[connections'[i + 1]].id = i
    <3>1. CASE i \in Indices(connections)
      BY <3>1, <1>3, <1>5, Zenon DEF IdsAreIndices
    <3>2. CASE i = Len(connections)
      BY <3>2, <1>3, <1>5, Zenon
    <3>. QED  BY <3>1, <3>2, <1>5, Zenon
  <2>. QED  BY <2>1, <1>1, <1>3 DEF IdsAreIndices, ProxyAt, ConnectionAt
<1>7. ToSet(connections') = ToSet(connections) \cup {c}
  BY <1>1, <1>4, AppendArray
<1>8. StacksKnown' /\ listening' = stacks' \ InHand'
  BY <1>1, <1>2, <1>3, <1>7 DEF StacksKnown
<1>9. HandIsNext'
  BY <1>1, NoneInHand DEF HandIsNext
<1>. QED  BY <1>1, <1>6, <1>8, <1>9 DEF RInv, Disciplined

-----------------------------------------------------------------------------
(* Deletion.                                                               *)

\* Asked for the id of a connection that it owns, a proxy deletes that one: no
\* other open stack of this proxy has the id.
LEMMA ProxyDeletesTheOne ==
    ASSUME Inv, NEW p \in LiveProxies, NEW c \in Own(p),
           ProxyDeleteConnection(p, conn[c].id)
    PROVE  /\ stacks' = stacks \ {c} /\ listening' = listening \ {c}
           /\ \A q \in DOMAIN proxy :
                 /\ proxy'[q].id = proxy[q].id /\ proxy'[q].name = proxy[q].name
                 /\ proxy'[q].localAddr = proxy[q].localAddr
<1>. DEFINE own == proxy[p].connections
            hits == OwnWithId(p, conn[c].id)
            i == Min(hits)
            d == own[i + 1]
<1>1. p \in DOMAIN proxy /\ proxy[p] \in ProxyRec /\ own \in Seq(ConnObjs)
  BY DEF LiveProxies, Inv, TypeOK, ProxyRec
<1>2. hits \in SUBSET Nat /\ hits # {}
  <2>1. PICK k \in DOMAIN own : own[k] = c
    BY DEF Own, ToSet
  <2>2. k - 1 \in Indices(own) /\ (k - 1) + 1 = k
    BY <1>1, <2>1 DEF Indices
  <2>3. k - 1 \in hits
    BY <2>1, <2>2 DEF OwnWithId
  <2>. QED  BY <2>3, <1>1 DEF OwnWithId, Indices
<1>3. i \in hits
  BY <1>2, MinExists
<1>4. i + 1 \in DOMAIN own /\ conn[d].id = conn[c].id
  <2>1. i \in Indices(own) /\ conn[own[i + 1]].id = conn[c].id
    BY <1>3, Zenon DEF OwnWithId
  <2>. HIDE DEF i
  <2>2. i + 1 \in DOMAIN own
    BY <1>1, <2>1 DEF Indices
  <2>. QED  BY <2>1, <2>2
<1>5. d \in Own(p)
  BY <1>4 DEF Own, ToSet
<1>6. d = c
  BY <1>4, <1>5, OwnConnections DEF Inv, StacksOwned
<1>7. /\ proxy' = [proxy EXCEPT ![p].connections = RemoveByIndex(@, i)]
      /\ stacks' = stacks \ {d} /\ listening' = listening \ {d}
  BY <1>2, Zenon DEF ProxyDeleteConnection
<1>. HIDE DEF i, d
<1>8. \A q \in DOMAIN proxy :
         /\ proxy'[q].id = proxy[q].id /\ proxy'[q].name = proxy[q].name
         /\ proxy'[q].localAddr = proxy[q].localAddr
  BY <1>1, <1>7 DEF ProxyRec
<1>. QED  BY <1>6, <1>7, <1>8

\* The last slot of an array that is not empty.
LEMMA LastSlot ==
    ASSUME NEW S, NEW arr \in Seq(S), arr # << >>
    PROVE  /\ Len(arr) - 1 \in Indices(arr) /\ (Len(arr) - 1) + 1 = Len(arr)
           /\ Last(arr) = arr[Len(arr)] /\ Last(arr) \in ToSet(arr)
<1>1. Len(arr) \in Nat /\ Len(arr) # 0 /\ DOMAIN arr = 1 .. Len(arr)
  OBVIOUS
<1>2. Last(arr) = arr[Len(arr)]
  BY DEF Last
<1>3. Len(arr) \in DOMAIN arr
  BY <1>1
<1>. QED  BY <1>1, <1>2, <1>3 DEF Indices, ToSet

\* Removing the last slot leaves the slots before it where they were.
LEMMA RemoveLastSlot ==
    ASSUME NEW S, NEW arr \in Seq(S), arr # << >>
    PROVE  \A i \in Indices(RemoveByIndex(arr, Len(arr) - 1)) :
              /\ i \in Indices(arr)
              /\ RemoveByIndex(arr, Len(arr) - 1)[i + 1] = arr[i + 1]
<1>1. Len(arr) \in Nat /\ Len(arr) - 1 \in Indices(arr)
  BY LastSlot
<1>. DEFINE rem == RemoveByIndex(arr, Len(arr) - 1)
<1>2. /\ Len(rem) = Len(arr) - 1
      /\ \A k \in 1 .. Len(arr) - 1 :
            rem[k] = IF k <= Len(arr) - 1 THEN arr[k] ELSE arr[k + 1]
  BY <1>1, RemoveByIndexSlots
<1>. HIDE DEF rem
<1>3. \A k \in 1 .. Len(arr) - 1 : rem[k] = arr[k]
  BY <1>1, <1>2
<1>4. \A i \in Indices(rem) : i \in Indices(arr) /\ i + 1 \in 1 .. Len(arr) - 1
  BY <1>1, <1>2 DEF Indices
<1>5. \A i \in Indices(rem) : i \in Indices(arr) /\ rem[i + 1] = arr[i + 1]
  BY <1>3, <1>4
<1>. QED  BY <1>5 DEF rem

\* Closing the connection created last takes it by its id, the last index, and the
\* bus forgets it (the error paths of the tester).
LEMMA CloseLastEffect ==
    ASSUME RInv, CloseLastConnection
    PROVE  /\ busState = "up" /\ connections # << >> /\ call = NoCall
           /\ Last(connections) \in stacks /\ Last(connections) \in ConnObjs
           /\ conn[Last(connections)].id = Len(connections) - 1
           /\ connections' = RemoveByIndex(connections, Len(connections) - 1)
           /\ ToSet(connections') = ToSet(connections) \ {Last(connections)}
           /\ listening' = listening \ {Last(connections)}
           /\ call' = [op |-> "delete", conn |-> Last(connections),
                       id |-> Len(connections) - 1]
           /\ UNCHANGED <<proxies, proxy, conn, stacks, fault, destruction>>
<1>. DEFINE c == Last(connections)
            p == conn[c].proxy
            id == conn[c].id
<1>1. /\ busState = "up" /\ connections # << >> /\ call = NoCall
      /\ DeleteConnection(id) /\ UNCHANGED destruction
  BY DEF CloseLastConnection, Idle
<1>2. connections \in Seq(ConnObjs)
  BY ArrayTypes DEF RInv, Inv
<1>3. IdsAreIndices /\ StacksKnown /\ InHand = {}
  BY <1>1, NoneInHand DEF RInv, Disciplined
<1>4. /\ Len(connections) - 1 \in Indices(connections)
      /\ ConnectionAt(Len(connections) - 1) = c /\ c \in ToSet(connections)
  BY <1>1, <1>2, LastSlot DEF ConnectionAt
<1>5. id = Len(connections) - 1
  BY <1>3, <1>4 DEF IdsAreIndices
<1>6. c \in stacks
  BY <1>3, <1>4 DEF StacksKnown
<1>7. c \in live /\ p \in LiveProxies /\ c \in ConnObjs
  BY <1>6, StackOwner, ArrayTypes DEF RInv, Inv
<1>8. /\ connections' = RemoveByIndex(connections, id)
      /\ listening' = listening \ {c}
      /\ call' = [op |-> "delete", conn |-> c, id |-> id]
      /\ UNCHANGED <<proxies, proxy, conn, stacks, fault>>
  <2>1. id \in Indices(connections) /\ ConnectionAt(id) = c
    BY <1>4, <1>5
  <2>2. c \in live /\ c \in stacks /\ p \in live
    BY <1>6, <1>7 DEF LiveProxies
  <2>. HIDE DEF c
  <2>. QED  BY <1>1, <2>1, <2>2, Zenon DEF DeleteConnection
<1>9. ToSet(connections') = ToSet(connections) \ {c}
  <2>1. IsInjective(connections)
    BY <1>3, ConnectionsInjective DEF RInv, Inv
  <2>2. ConnectionAt(id) = c /\ id \in Indices(connections)
    BY <1>4, <1>5
  <2>. HIDE DEF c, id
  <2>. QED  BY <2>1, <2>2, <1>2, <1>8, RemoveByIndexElements DEF ConnectionAt
<1>10. /\ connections' = RemoveByIndex(connections, Len(connections) - 1)
       /\ call' = [op |-> "delete", conn |-> c, id |-> Len(connections) - 1]
  BY <1>5, <1>8
<1>. HIDE DEF p
<1>. QED  BY <1>1, <1>5, <1>6, <1>7, <1>8, <1>9, <1>10

\* It leaves the ids of the other connections what they were.
LEMMA CloseLastKeepsDiscipline ==
    ASSUME RInv, CloseLastConnection
    PROVE  Disciplined'
<1>. DEFINE c == Last(connections)
<1>1. /\ busState = "up" /\ connections # << >> /\ call = NoCall
      /\ c \in stacks /\ c \in ConnObjs /\ conn[c].id = Len(connections) - 1
      /\ connections' = RemoveByIndex(connections, Len(connections) - 1)
      /\ ToSet(connections') = ToSet(connections) \ {c}
      /\ listening' = listening \ {c}
      /\ call' = [op |-> "delete", conn |-> c, id |-> Len(connections) - 1]
      /\ UNCHANGED <<proxies, proxy, conn, stacks, fault>>
  BY CloseLastEffect
<1>2. connections \in Seq(ConnObjs)
  BY ArrayTypes DEF RInv, Inv
<1>3. IdsAreIndices /\ StacksKnown /\ InHand = {} /\ listening = stacks
  BY <1>1, NoneInHand DEF RInv, Disciplined
<1>4. \A i \in Indices(connections') :
         i \in Indices(connections) /\ connections'[i + 1] = ConnectionAt(i)
  BY <1>1, <1>2, RemoveLastSlot DEF ConnectionAt
<1>8. Len(connections') = Len(connections) - 1
  BY <1>1, <1>2, LastSlot, RemoveByIndexSlots
<1>. HIDE DEF c
<1>5. IdsAreIndices'
  <2>2. ASSUME NEW i \in Indices(connections') PROVE conn[connections'[i + 1]].id = i
    BY <1>3, <1>4 DEF IdsAreIndices
  <2>. QED  BY <2>2, <1>1, <1>3 DEF IdsAreIndices, ProxyAt, ConnectionAt
<1>9. InHand' = {c}
  BY <1>1 DEF InHand, NoCall
<1>6. StacksKnown' /\ listening' = stacks' \ InHand'
  BY <1>1, <1>3, <1>9 DEF StacksKnown
<1>7. HandIsNext'
  BY <1>1, <1>8 DEF HandIsNext
<1>. QED  BY <1>1, <1>5, <1>6, <1>7 DEF RInv, Disciplined

\* The rest of the deletion finds the connection in hand by its id in the array of
\* its proxy, and closes the stack of that one.
LEMMA CloseStackEffect ==
    ASSUME RInv, CloseStack
    PROVE  /\ busState = "up" /\ call # NoCall /\ call' = NoCall
           /\ call.conn \in stacks /\ stacks' = stacks \ {call.conn}
           /\ listening = stacks \ {call.conn} /\ listening' = listening
           /\ \A q \in DOMAIN proxy :
                 /\ proxy'[q].id = proxy[q].id /\ proxy'[q].name = proxy[q].name
                 /\ proxy'[q].localAddr = proxy[q].localAddr
           /\ UNCHANGED <<proxies, connections, conn, fault, destruction>>
<1>. DEFINE c == call.conn
<1>1. /\ ProxyDeleteConnection(conn[c].proxy, call.id) /\ call' = NoCall
      /\ call # NoCall
      /\ UNCHANGED <<proxies, connections, conn, destruction, fault>>
  BY OpIsCall DEF CloseStack
<1>2. busState = "up" /\ c \in stacks /\ InHand = {c}
  BY <1>1 DEF RInv, Inv, CallOK, InHand
<1>3. call.id = conn[c].id /\ listening = stacks \ {c}
  BY <1>1, <1>2 DEF RInv, Disciplined, HandIsNext
<1>4. Inv /\ conn[c].proxy \in LiveProxies /\ c \in Own(conn[c].proxy)
  BY <1>2, StackOwner DEF RInv
<1>. HIDE DEF c
<1>5. /\ stacks' = stacks \ {c} /\ listening' = listening \ {c}
      /\ \A q \in DOMAIN proxy :
            /\ proxy'[q].id = proxy[q].id /\ proxy'[q].name = proxy[q].name
            /\ proxy'[q].localAddr = proxy[q].localAddr
  BY <1>1, <1>3, <1>4, ProxyDeletesTheOne
<1>. QED  BY <1>1, <1>2, <1>3, <1>5 DEF c

LEMMA CloseStackKeepsDiscipline ==
    ASSUME RInv, CloseStack
    PROVE  Disciplined'
<1>1. /\ busState = "up" /\ call # NoCall /\ call' = NoCall
      /\ call.conn \in stacks /\ stacks' = stacks \ {call.conn}
      /\ listening = stacks \ {call.conn} /\ listening' = listening
      /\ \A q \in DOMAIN proxy : proxy'[q].id = proxy[q].id
      /\ UNCHANGED <<proxies, connections, conn, fault, destruction>>
  BY CloseStackEffect
<1>2. \A i \in Indices(proxies) : ProxyAt(i) \in DOMAIN proxy
  BY ArrayTypes DEF RInv, Inv
<1>3. IdsAreIndices /\ StacksKnown /\ InHand = {call.conn} /\ InHand' = {}
  BY <1>1 DEF RInv, Disciplined, InHand
<1>4. IdsAreIndices'
  BY <1>1, <1>2, <1>3 DEF IdsAreIndices, ProxyAt, ConnectionAt
<1>5. StacksKnown' /\ listening' = stacks' \ InHand'
  BY <1>1, <1>3 DEF StacksKnown
<1>6. HandIsNext'
  BY <1>1 DEF HandIsNext
<1>. QED  BY <1>1, <1>4, <1>5, <1>6 DEF RInv, Disciplined

\* Deleting the proxy created last, once its connections are closed, takes it out
\* of the array of the bus; the destructor does the rest.
LEMMA RemoveLastEffect ==
    ASSUME RInv, RemoveLastProxy
    PROVE  /\ busState = "up" /\ busState' = "up" /\ proxies # << >>
           /\ proxies' = RemoveByIndex(proxies, Len(proxies) - 1)
           /\ ToSet(proxies') = ToSet(proxies) \ {Last(proxies)}
           /\ \A c \in stacks : conn[c].proxy # Last(proxies)
           /\ call = NoCall
           /\ UNCHANGED <<connections, proxy, conn, live, stacks, listening, call,
                          fault>>
<1>. DEFINE p == Last(proxies)
            id == proxy[p].id
<1>1. /\ busState = "up" /\ UNCHANGED busState /\ proxies # << >> /\ call = NoCall
      /\ \A k \in 1 .. Len(connections) : conn[connections[k]].proxy # p
      /\ DeleteProxy(id)
  BY DEF RemoveLastProxy, Idle
<1>2. /\ proxies \in Seq(ProxyObjs) /\ connections \in Seq(ConnObjs)
      /\ IsInjective(proxies)
  BY ArrayTypes DEF RInv, Inv, RegistryLive
<1>3. IdsAreIndices /\ StacksKnown /\ InHand = {}
  BY <1>1, NoneInHand DEF RInv, Disciplined
<1>4. /\ Len(proxies) - 1 \in Indices(proxies)
      /\ ProxyAt(Len(proxies) - 1) = p
  BY <1>1, <1>2, LastSlot DEF ProxyAt
<1>5. id = Len(proxies) - 1
  BY <1>3, <1>4 DEF IdsAreIndices
<1>6. /\ proxies' = RemoveByIndex(proxies, id)
      /\ UNCHANGED <<connections, proxy, conn, live, stacks, listening, call, fault>>
  BY <1>1, <1>4, <1>5 DEF DeleteProxy
<1>7. ToSet(proxies') = ToSet(proxies) \ {p}
  <2>1. ProxyAt(id) = p /\ id \in Indices(proxies)
    BY <1>4, <1>5
  <2>. HIDE DEF p, id
  <2>. QED  BY <2>1, <1>2, <1>6, RemoveByIndexElements DEF ProxyAt
<1>8. \A c \in stacks : conn[c].proxy # p
  BY <1>1, <1>2, <1>3 DEF StacksKnown, ToSet
<1>9. proxies' = RemoveByIndex(proxies, Len(proxies) - 1)
  BY <1>5, <1>6
<1>. HIDE DEF id
<1>. QED  BY <1>1, <1>6, <1>7, <1>8, <1>9

\* It leaves the ids of the other proxies what they were and orphans no stack.
LEMMA RemoveLastKeepsDiscipline ==
    ASSUME RInv, RemoveLastProxy
    PROVE  Disciplined'
<1>1. /\ busState = "up" /\ busState' = "up" /\ proxies # << >>
      /\ proxies' = RemoveByIndex(proxies, Len(proxies) - 1)
      /\ ToSet(proxies') = ToSet(proxies) \ {Last(proxies)}
      /\ \A c \in stacks : conn[c].proxy # Last(proxies)
      /\ UNCHANGED <<connections, proxy, conn, live, stacks, listening, call, fault>>
  BY RemoveLastEffect
<1>2. proxies \in Seq(ProxyObjs)
  BY ArrayTypes DEF RInv, Inv
<1>3. IdsAreIndices /\ StacksKnown
  BY <1>1 DEF RInv, Disciplined
<1>4. \A i \in Indices(proxies') :
         i \in Indices(proxies) /\ proxies'[i + 1] = ProxyAt(i)
  BY <1>1, <1>2, RemoveLastSlot DEF ProxyAt
<1>5. IdsAreIndices'
  <2>1. ASSUME NEW i \in Indices(proxies') PROVE proxy[proxies'[i + 1]].id = i
    BY <1>3, <1>4 DEF IdsAreIndices
  <2>. QED  BY <2>1, <1>1, <1>3 DEF IdsAreIndices, ProxyAt, ConnectionAt
<1>6. StacksKnown'
  BY <1>1, <1>3 DEF StacksKnown, InHand
<1>7. InHand' = InHand /\ (HandIsNext => HandIsNext')
  BY <1>1 DEF InHand, HandIsNext
<1>. QED  BY <1>1, <1>5, <1>6, <1>7 DEF RInv, Disciplined

-----------------------------------------------------------------------------
(* Destruction.                                                            *)

\* The loop of ~Proxy has something to close only when the bus is being deleted:
\* a proxy deleted while the bus is up has no connection left.
LEMMA DisposeConnectionKeepsDiscipline ==
    ASSUME RInv, DisposeConnection
    PROVE  Disciplined'
<1>1. /\ dying # Null /\ dyingIndex < Len(proxy[dying].connections)
      /\ ProxyDeleteConnection(dying, dyingIndex)
      /\ UNCHANGED <<proxies, connections, conn, call, busState, busIndex, dying, fault>>
  BY DEF DisposeConnection
<1>2. dying \in LiveProxies /\ dyingIndex \in Nat /\ call = NoCall
  BY <1>1 DEF RInv, Inv, TypeOK, DyingForgotten, CallOK, LiveProxies
<1>3. busState # "up"
  <2>1. ASSUME busState = "up" PROVE FALSE
    <3>1. proxy[dying].connections = << >>
      BY <1>1, <2>1, DyingOwnsNothing
    <3>. QED  BY <3>1, <1>1, <1>2
  <2>. QED  BY <2>1
<1>4. PICK gone \in SUBSET Own(dying) : Gone(dying, gone)
  BY <1>1, <1>2, ProxyDeleteConnectionEffect DEF RInv, Inv
<1>5. stacks' = stacks \ gone /\ listening' = listening \ gone
  BY <1>4 DEF Gone
<1>6. InHand = {} /\ InHand' = {}
  BY <1>1, <1>2 DEF InHand
<1>. QED  BY <1>1, <1>3, <1>5, <1>6 DEF RInv, Disciplined

\* The end of ~Proxy closes no stack while the bus is up.
LEMMA DisposeProxyKeepsDiscipline ==
    ASSUME RInv, DisposeProxy
    PROVE  Disciplined'
<1>. DEFINE left == {c \in stacks : conn[c].proxy = dying}
<1>1. /\ dying # Null
      /\ stacks' = stacks \ left /\ listening' = listening \ left
      /\ UNCHANGED <<proxies, connections, proxy, conn, call, busState, fault>>
  BY Zenon DEF DisposeProxy
<1>2. busState = "up" => left = {}
  BY <1>1, DyingOwnsNothing
<1>3. IdsAreIndices => IdsAreIndices'
  BY <1>1 DEF IdsAreIndices, ProxyAt, ConnectionAt
<1>4. left = {} /\ StacksKnown => StacksKnown'
  BY <1>1 DEF StacksKnown, InHand
<1>5. InHand' = InHand /\ (HandIsNext => HandIsNext')
  BY <1>1 DEF InHand, HandIsNext
<1>. HIDE DEF left
<1>. QED  BY <1>1, <1>2, <1>3, <1>4, <1>5 DEF RInv, Disciplined

\* ~MessageBus takes the proxies out of its array; nothing is promised of the
\* two records from there on.
LEMMA DisposeBusProxyKeepsDiscipline ==
    ASSUME Disciplined, DisposeBusProxy
    PROVE  Disciplined'
<1>1. busState = "closing" /\ DeleteProxy(busIndex) /\ UNCHANGED busState
  BY DEF DisposeBusProxy
<1>2. UNCHANGED <<stacks, listening, call, fault>>
  BY <1>1 DEF DeleteProxy, registry
<1>. QED  BY <1>1, <1>2 DEF Disciplined, InHand

-----------------------------------------------------------------------------
(* The steps.                                                              *)

LEMMA RepositoryNextKeepsInv == RInv /\ [RepositoryNext]_vars => RInv'
<1>. SUFFICES ASSUME RInv, [RepositoryNext]_vars PROVE RInv'
  OBVIOUS
<1>1. CASE CreateProxy
  <2>1. PICK p \in ProxyObjs, name \in Names, addr \in Addrs, ports \in SUBSET Ports :
            NewProxy(p, name, addr, ports)
    BY <1>1 DEF CreateProxy
  <2>2. Disciplined'
    BY <1>1, <2>1, NewProxyKeepsDiscipline DEF CreateProxy
  <2>. QED  BY <1>1, <2>2, CreationKeepsInv DEF RInv
<1>2. CASE CreateConnection(ToSet(proxies))
  <2>1. PICK c \in ConnObjs, p \in ToSet(proxies), remote \in Addrs, port \in Ports :
            NewConnection(c, proxy[p].id, remote, port)
    BY <1>2 DEF CreateConnection
  <2>2. Idle /\ UNCHANGED destruction
    BY <1>2 DEF CreateConnection
  <2>3. OpenConnection(c, p, Len(connections), remote) \/ Fail("unknownPort")
    BY <2>1, <2>2, NewConnectionOpens
  <2>6. ASSUME Fail("unknownPort") PROVE Disciplined'
    BY <2>2, <2>6, FrameKeepsDiscipline DEF Fail, RInv, destruction
  <2>4. Disciplined'
    BY <2>2, <2>3, <2>6, OpenConnectionKeepsDiscipline
  <2>5. ToSet(proxies) \in SUBSET DOMAIN proxy
    BY ArrayTypes DEF RInv, Inv
  <2>. QED  BY <1>2, <2>4, <2>5, CreationKeepsInv DEF RInv
<1>3. CASE BusDelete
  <2>1. Disciplined'
    BY <1>3, FrameKeepsDiscipline DEF BusDelete, RInv, Disciplined
  <2>. QED  BY <1>3, <2>1, DestructionKeepsInv DEF RInv
<1>4. CASE Destructors
  <2>1. DisposeConnection => Disciplined'
    BY DisposeConnectionKeepsDiscipline
  <2>2. DisposeProxy => Disciplined'
    BY DisposeProxyKeepsDiscipline
  <2>3. DisposeBusProxy => Disciplined'
    BY DisposeBusProxyKeepsDiscipline DEF RInv
  <2>4. DisposeBus => Disciplined'
    BY FrameKeepsDiscipline DEF DisposeBus, RInv, Disciplined
  <2>5. LateAPDU => Disciplined'
    BY FrameKeepsDiscipline DEF LateAPDU, destruction, RInv, Disciplined
  <2>6. Disciplined'
    BY <1>4, <2>1, <2>2, <2>3, <2>4, <2>5 DEF Destructors
  <2>. QED  BY <1>4, <2>6, DestructionKeepsInv DEF RInv
<1>5. CASE CloseLastConnection
  <2>1. conn[Last(connections)].id \in Nat
    <3>1. connections \in Seq(ConnObjs) /\ connections # << >>
      BY <1>5, ArrayTypes DEF CloseLastConnection, RInv, Inv
    <3>2. Last(connections) \in ToSet(connections)
      BY <3>1, LastSlot
    <3>. QED  BY <3>2, ArrayTypes DEF RInv, Inv
  <2>2. Idle /\ DeleteConnection(conn[Last(connections)].id) /\ UNCHANGED destruction
    BY <1>5 DEF CloseLastConnection
  <2>3. Inv'
    BY <2>1, <2>2, DeleteConnectionKeepsInv DEF RInv
  <2>. QED  BY <1>5, <2>3, CloseLastKeepsDiscipline DEF RInv
<1>6. CASE RemoveLastProxy
  <2>1. proxy[Last(proxies)].id \in Nat
    <3>1. proxies \in Seq(ProxyObjs) /\ proxies # << >>
      BY <1>6, ArrayTypes DEF RemoveLastProxy, RInv, Inv
    <3>2. Last(proxies) \in ToSet(proxies)
      BY <3>1, LastSlot
    <3>. QED  BY <3>2, ArrayTypes DEF RInv, Inv
  <2>2. /\ dying = Null /\ call = NoCall /\ DeleteProxy(proxy[Last(proxies)].id)
        /\ UNCHANGED <<busState, busIndex>>
    BY <1>6 DEF RemoveLastProxy, Idle
  <2>3. Inv'
    BY <2>1, <2>2, DeleteProxyKeepsInv DEF RInv, Inv, TypeOK
  <2>. QED  BY <1>6, <2>3, RemoveLastKeepsDiscipline DEF RInv
<1>7. CASE UNCHANGED vars
  <2>1. Inv'
    BY <1>7, FrameKeepsInv DEF vars, registry, destruction, RInv, Inv, TypeOK
  <2>2. Disciplined'
    BY <1>7, FrameKeepsDiscipline DEF vars, registry, destruction, RInv, Disciplined
  <2>. QED  BY <2>1, <2>2 DEF RInv
<1>8. CASE CallStep
  <2>1. Disciplined'
    BY <1>8, SubscribeKeepsDiscipline, CloseStackKeepsDiscipline DEF CallStep
  <2>. QED  BY <1>8, <2>1, CallStepKeepsInv DEF RInv
<1>. QED  BY <1>1, <1>2, <1>3, <1>4, <1>5, <1>6, <1>7, <1>8 DEF RepositoryNext

-----------------------------------------------------------------------------
(* The two lookups.                                                        *)

\* The loader finds a connection exactly when one in the array of the bus
\* carries the address pair.
LEMMA LoaderFinds ==
    ASSUME TypeOK, NEW src, NEW dest
    PROVE  getConnectionId(src, dest) # NONE
              <=> \E c \in ToSet(connections) : Carries(c, src, dest)
<1>. DEFINE hits == {i \in Indices(connections) : Carries(ConnectionAt(i), src, dest)}
<1>1. /\ connections \in Seq(ConnObjs) /\ ToSet(connections) \subseteq DOMAIN conn
      /\ \A i \in Indices(connections) : ConnectionAt(i) \in ToSet(connections)
      /\ \A c \in DOMAIN conn : conn[c].id \in Nat
  BY ArrayTypes
<1>2. hits \in SUBSET (0 .. Len(connections) - 1) /\ Len(connections) \in Nat
  BY <1>1 DEF Indices
<1>3. CASE hits = {}
  <2>1. getConnectionId(src, dest) = NONE
    BY <1>3, Zenon DEF getConnectionId
  <2>2. ASSUME NEW c \in ToSet(connections) PROVE ~ Carries(c, src, dest)
    <3>1. PICK k \in DOMAIN connections : connections[k] = c
      BY DEF ToSet
    <3>2. k - 1 \in Indices(connections) /\ (k - 1) + 1 = k
      BY <1>1, <3>1 DEF Indices
    <3>3. ConnectionAt(k - 1) = c
      BY <3>1, <3>2 DEF ConnectionAt
    <3>. QED  BY <1>3, <3>2, <3>3, Zenon
  <2>. QED  BY <2>1, <2>2, Zenon
<1>4. CASE hits # {}
  <2>. DEFINE i == Max(hits)
  <2>1. i \in hits
    BY <1>2, <1>4, MaxExists, Zenon
  <2>2. getConnectionId(src, dest) = conn[ConnectionAt(i)].id
    BY <1>4, Zenon DEF getConnectionId
  <2>. HIDE DEF i
  <2>3. ConnectionAt(i) \in ToSet(connections) /\ Carries(ConnectionAt(i), src, dest)
    BY <2>1, <1>1, Zenon
  <2>4. conn[ConnectionAt(i)].id \in Nat
    BY <2>3, <1>1
  <2>5. getConnectionId(src, dest) # NONE
    BY <2>2, <2>4 DEF NONE
  <2>. QED  BY <2>3, <2>5, Zenon
<1>. QED  BY <1>3, <1>4

\* Send finds a connection whenever a proxy in the array of the bus owns one that
\* carries the address pair.
LEMMA SenderFinds ==
    ASSUME Inv, NEW src, NEW dest, NEW p \in ToSet(proxies), NEW c \in Own(p),
           proxy[p].localAddr = src, conn[c].remoteAddr = dest
    PROVE  GetConnection(src, dest) # Null
<1>. DEFINE hits == {i \in Indices(proxies) : /\ proxy[ProxyAt(i)].localAddr = src
                                              /\ OwnTo(ProxyAt(i), dest) # {}}
            q == ProxyAt(Min(hits))
            own == proxy[q].connections
            k == Max(OwnTo(q, dest))
<1>1. /\ proxies \in Seq(ProxyObjs) /\ ToSet(proxies) \subseteq DOMAIN proxy
      /\ \A i \in Indices(proxies) : ProxyAt(i) \in ToSet(proxies)
      /\ \A r \in DOMAIN proxy : proxy[r].connections \in Seq(ConnObjs)
  BY ArrayTypes DEF Inv
<1>2. hits # {}
  <2>1. PICK j \in DOMAIN proxies : proxies[j] = p
    BY DEF ToSet
  <2>2. j - 1 \in Indices(proxies) /\ (j - 1) + 1 = j
    BY <1>1, <2>1 DEF Indices
  <2>3. ProxyAt(j - 1) = p
    BY <2>1, <2>2 DEF ProxyAt
  <2>4. PICK m \in DOMAIN proxy[p].connections : proxy[p].connections[m] = c
    BY DEF Own, ToSet
  <2>5. m - 1 \in Indices(proxy[p].connections) /\ (m - 1) + 1 = m
    BY <1>1, <2>4 DEF Indices
  <2>6. m - 1 \in OwnTo(p, dest)
    BY <2>4, <2>5 DEF OwnTo
  <2>7. j - 1 \in hits
    BY <2>2, <2>3, <2>6
  <2>. QED  BY <2>7
<1>3. Min(hits) \in hits
  <2>1. hits \in SUBSET Nat
    BY DEF Indices
  <2>. HIDE DEF hits
  <2>. QED  BY <1>2, <2>1, MinExists
<1>4. OwnTo(q, dest) # {} /\ q \in ToSet(proxies) /\ own \in Seq(ConnObjs)
  BY <1>3, <1>1
<1>5. GetConnection(src, dest) = own[k + 1]
  BY <1>2, Zenon DEF GetConnection
<1>. HIDE DEF hits, q
<1>6. k \in OwnTo(q, dest)
  <2>1. OwnTo(q, dest) \in SUBSET (0 .. Len(own) - 1) /\ Len(own) \in Nat
    BY <1>4 DEF OwnTo, Indices
  <2>. QED  BY <1>4, <2>1, MaxExists
<1>7. k \in Indices(own)
  BY <1>6, Zenon DEF OwnTo
<1>. HIDE DEF k
<1>8. own[k + 1] \in ConnObjs
  BY <1>4, <1>7 DEF Indices
<1>. QED  BY <1>5, <1>8, NullFresh

-----------------------------------------------------------------------------
(* The theorems.                                                           *)

\* The clients of this repository are clients of the API, so that all that is proved
\* of Spec holds for them: MessageBusTester closes with ids it was given, and passes
\* the ids of proxies the bus knows.
THEOREM RepositoryIsAClient == RepositorySpec => Spec
<1>1. RInv /\ [RepositoryNext]_vars => [Next]_vars
  <2>. SUFFICES ASSUME RInv, RepositoryNext PROVE Next
    OBVIOUS
  <2>1. CASE CreateConnection(ToSet(proxies))
    <3>1. ToSet(proxies) \subseteq DOMAIN proxy
      BY ArrayTypes DEF RInv, Inv
    <3>2. CreateConnection(DOMAIN proxy)
      BY <2>1, <3>1 DEF CreateConnection
    <3>. QED  BY <3>2 DEF Next
  <2>2. CASE CloseLastConnection
    <3>1. Last(connections) \in DOMAIN conn
      <4>1. connections \in Seq(ConnObjs) /\ connections # << >>
        BY <2>2, ArrayTypes DEF CloseLastConnection, RInv, Inv
      <4>2. Last(connections) \in ToSet(connections)
        BY <4>1, LastSlot
      <4>. QED  BY <4>2, ArrayTypes DEF RInv, Inv
    <3>2. CloseConnection
      BY <2>2, <3>1 DEF CloseLastConnection, CloseConnection
    <3>. QED  BY <3>2 DEF Next
  <2>3. CASE RemoveLastProxy
    <3>1. Last(proxies) \in DOMAIN proxy
      <4>1. proxies \in Seq(ProxyObjs) /\ proxies # << >>
        BY <2>3, ArrayTypes DEF RemoveLastProxy, RInv, Inv
      <4>2. Last(proxies) \in ToSet(proxies)
        BY <4>1, LastSlot
      <4>. QED  BY <4>2, ArrayTypes DEF RInv, Inv
    <3>2. RemoveProxy
      BY <2>3, <3>1 DEF RemoveLastProxy, RemoveProxy
    <3>. QED  BY <3>2 DEF Next
  <2>. QED  BY <2>1, <2>2, <2>3 DEF RepositoryNext, Next
<1>. QED  BY <1>1, RInitInv, RepositoryNextKeepsInv, PTL DEF RepositorySpec, Spec

\* An id handed out by createProxy or createConnection names its object for as
\* long as the object exists, although ids are indices of arrays that shrink.
THEOREM HandlesAlwaysResolve == RepositorySpec => []HandlesResolve
<1>1. RInv => HandlesResolve
  BY DEF RInv, Disciplined, IdsAreIndices, HandlesResolve, Idle
<1>. QED  BY <1>1, RInitInv, RepositoryNextKeepsInv, PTL DEF RepositorySpec

\* The array of the bus holds exactly the connections in the arrays of its
\* proxies, each once, whenever no call is in progress.
THEOREM RecordsAgree == RepositorySpec => []RegistriesAgree
<1>1. ASSUME RInv PROVE RegistriesAgree
  <2>. SUFFICES ASSUME Idle
                PROVE  /\ IsInjective(connections)
                       /\ ToSet(connections) = UNION {Own(p) : p \in ToSet(proxies)}
    BY DEF RegistriesAgree
  <2>1. IdsAreIndices /\ StacksKnown /\ InHand = {}
    BY <1>1, NoneInHand DEF RInv, Disciplined, Idle
  <2>2. IsInjective(connections)
    BY <1>1, <2>1, ConnectionsInjective DEF RInv, Inv
  <2>3. \A p \in ToSet(proxies) : Own(p) \subseteq stacks
    BY <1>1 DEF RInv, Inv, RegistryLive
  <2>4. \A c \in stacks : \E p \in ToSet(proxies) : c \in Own(p)
    BY <1>1, <2>1, StackOwner DEF RInv, StacksKnown
  <2>5. ToSet(connections) = UNION {Own(p) : p \in ToSet(proxies)}
    BY <2>1, <2>3, <2>4, Zenon DEF StacksKnown
  <2>. QED  BY <2>2, <2>5
<1>. QED  BY <1>1, RInitInv, RepositoryNextKeepsInv, PTL DEF RepositorySpec

\* The bus hears every open stack but the one of the connection that is being
\* created or deleted, in the middle of every destructor too, and between calls the
\* open stacks are those of the connections it knows.
THEOREM NoStackIsDeaf == RepositorySpec => []EveryStackHeard
<1>1. ASSUME RInv PROVE EveryStackHeard
  <2>1. InHand \subseteq {call.conn} /\ (Idle => InHand = {})
    BY NoneInHand DEF InHand, Idle
  <2>2. listening = stacks \ InHand /\ (Idle => ToSet(connections) = stacks \ InHand)
    BY <1>1 DEF RInv, Disciplined, StacksKnown, Idle
  <2>. QED  BY <2>1, <2>2 DEF EveryStackHeard
<1>. QED  BY <1>1, RInitInv, RepositoryNextKeepsInv, PTL DEF RepositorySpec

\* No client of this repository makes the registry touch a freed object or a slot
\* past the end of an array, and the only null stack it meets is the one of a
\* connection on a port that its proxy does not have, which nothing excludes.
THEOREM NoUndefinedBehaviour == RepositorySpec => []NoFaultWhileUp
<1>1. RInv => NoFaultWhileUp
  BY DEF RInv, Disciplined, NoFaultWhileUp
<1>. QED  BY <1>1, RInitInv, RepositoryNextKeepsInv, PTL DEF RepositorySpec

\* Send finds a connection exactly when one with an open stack carries the address
\* pair, although it searches the arrays of the proxies.
LEMMA SendFinds ==
    ASSUME Inv, StacksKnown, NEW src, NEW dest
    PROVE  GetConnection(src, dest) # Null <=> \E c \in stacks : Carries(c, src, dest)
<1>1. StacksKnown /\ Inv
  OBVIOUS
<1>2. ASSUME NEW c \in stacks, Carries(c, src, dest)
      PROVE  GetConnection(src, dest) # Null
  <2>1. conn[c].proxy \in ToSet(proxies)
    BY <1>1 DEF StacksKnown
  <2>2. c \in Own(conn[c].proxy)
    BY <1>1, StackOwner
  <2>3. proxy[conn[c].proxy].localAddr = src /\ conn[c].remoteAddr = dest
    BY <1>2 DEF Carries
  <2>. QED  BY <1>1, <2>1, <2>2, <2>3, SenderFinds
<1>3. ASSUME GetConnection(src, dest) # Null
      PROVE  \E c \in stacks : Carries(c, src, dest)
  <2>1. PICK p \in ToSet(proxies) :
            /\ proxy[p].localAddr = src
            /\ GetConnection(src, dest) \in Own(p)
            /\ conn[GetConnection(src, dest)].remoteAddr = dest
    BY <1>1, <1>3, GetConnectionFinds
  <2>2. PICK c \in Own(p) : conn[c].remoteAddr = dest
    BY <2>1
  <2>3. p \in LiveProxies
    BY <1>1 DEF Inv, RegistryLive
  <2>4. c \in stacks /\ conn[c].proxy = p
    BY <1>1, <2>3, OwnConnections
  <2>. QED  BY <2>1, <2>2, <2>4 DEF Carries
<1>. QED  BY <1>2, <1>3

\* The loader and Send agree on which address pairs have a connection, although
\* they search different arrays in different orders: a route the loader skips as
\* already there can always send.
THEOREM BothLookupsAgree == RepositorySpec => []LookupsAgree
<1>1. ASSUME RInv PROVE LookupsAgree
  <2>. SUFFICES ASSUME Idle, NEW src \in Addrs, NEW dest \in Addrs
                PROVE  (getConnectionId(src, dest) = NONE)
                          <=> (GetConnection(src, dest) = Null)
    BY Zenon DEF LookupsAgree
  <2>3. StacksKnown /\ ToSet(connections) = stacks
    BY <1>1, NoneInHand DEF RInv, Disciplined, StacksKnown, Idle
  <2>1. GetConnection(src, dest) # Null
           <=> \E c \in ToSet(connections) : Carries(c, src, dest)
    BY <1>1, <2>3, SendFinds DEF RInv
  <2>2. getConnectionId(src, dest) # NONE
           <=> \E c \in ToSet(connections) : Carries(c, src, dest)
    BY <1>1, LoaderFinds DEF RInv, Inv
  <2>. QED  BY <2>1, <2>2, Zenon
<1>. QED  BY <1>1, RInitInv, RepositoryNextKeepsInv, PTL DEF RepositorySpec

-----------------------------------------------------------------------------
(***************************************************************************)
(* The bus as this repository uses it implements the directory.  While it  *)
(* is up, the ids that the objects store are the positions of the table,   *)
(* the connection in hand is the route in hand, and the two lookups and    *)
(* the subscriptions answer from both; a step of a destructor, everything  *)
(* after the bus is deleted and a stack that is refused are stutters.      *)
(***************************************************************************)

\* All that the directory rests on: a bus whose ids are the indices of its arrays,
\* which hold the connections of the open stacks but the one in hand, and all of
\* these are heard.
InOrder == Inv /\ IdsAreIndices /\ StacksKnown /\ listening = stacks \ InHand

NodeRec == [id : Nat, addr : Addrs]
RouteRec == [id : Nat, node : Nat, dest : Addrs]

\* A function on 1 .. n is a sequence of length n.
LEMMA IsSequence ==
    ASSUME NEW n \in Nat, NEW S, NEW f, f \in [1 .. n -> S]
    PROVE  f \in Seq(S) /\ Len(f) = n
OBVIOUS

\* One element more: the same slots, and a last one.
LEMMA Grown ==
    ASSUME NEW S, NEW s \in Seq(S), NEW t \in Seq(S), NEW e \in S,
           Len(t) = Len(s) + 1, \A k \in 1 .. Len(s) : t[k] = s[k], t[Len(s) + 1] = e
    PROVE  t = Append(s, e)
<1>1. /\ Append(s, e) \in Seq(S) /\ Len(Append(s, e)) = Len(s) + 1
      /\ \A k \in 1 .. Len(s) : Append(s, e)[k] = s[k]
      /\ Append(s, e)[Len(s) + 1] = e
  OBVIOUS
<1>2. \A k \in 1 .. Len(s) + 1 : k \in 1 .. Len(s) \/ k = Len(s) + 1
  OBVIOUS
<1>3. \A k \in 1 .. Len(t) : t[k] = Append(s, e)[k]
  BY <1>1, <1>2
<1>. QED  BY <1>1, <1>3

\* One element less: the same slots but the last.
LEMMA Shrunk ==
    ASSUME NEW S, NEW s \in Seq(S), NEW t \in Seq(S), s # << >>,
           Len(t) = Len(s) - 1, \A k \in 1 .. Len(t) : t[k] = s[k]
    PROVE  t = Front(s)
<1>1. Len(s) - 1 \in Nat
  OBVIOUS
<1>2. /\ Front(s) \in Seq(S) /\ Len(Front(s)) = Len(s) - 1
      /\ \A k \in 1 .. Len(s) - 1 : Front(s)[k] = s[k]
  BY <1>1 DEF Front
<1>. QED  BY <1>2

\* The nodes of the directory are the proxies of the bus, slot by slot.
LEMMA NodesSlots ==
    TypeOK => (Up => /\ Nodes \in Seq(NodeRec) /\ Len(Nodes) = Len(proxies)
                     /\ \A k \in 1 .. Len(proxies) :
                           /\ Nodes[k].id = proxy[proxies[k]].id
                           /\ Nodes[k].addr = proxy[proxies[k]].localAddr)
<1>. SUFFICES ASSUME TypeOK, Up
              PROVE  /\ Nodes \in Seq(NodeRec) /\ Len(Nodes) = Len(proxies)
                     /\ \A k \in 1 .. Len(proxies) :
                           /\ Nodes[k].id = proxy[proxies[k]].id
                           /\ Nodes[k].addr = proxy[proxies[k]].localAddr
  OBVIOUS
<1>1. proxies \in Seq(DOMAIN proxy) /\ proxy \in [DOMAIN proxy -> ProxyRec]
  BY DEF TypeOK
<1>2. Len(proxies) \in Nat /\ \A k \in 1 .. Len(proxies) : proxies[k] \in DOMAIN proxy
  BY <1>1
<1>3. \A k \in 1 .. Len(proxies) : [id |-> proxy[proxies[k]].id,
                                    addr |-> proxy[proxies[k]].localAddr] \in NodeRec
  BY <1>1, <1>2 DEF ProxyRec, NodeRec
<1>4. Nodes = [k \in 1 .. Len(proxies) |-> [id |-> proxy[proxies[k]].id,
                                            addr |-> proxy[proxies[k]].localAddr]]
  BY Zenon DEF Nodes
<1>5. Nodes \in [1 .. Len(proxies) -> NodeRec]
  BY <1>3, <1>4
<1>6. Nodes \in Seq(NodeRec) /\ Len(Nodes) = Len(proxies)
  BY <1>2, <1>5, IsSequence
<1>7. ASSUME NEW k \in 1 .. Len(proxies)
      PROVE  /\ Nodes[k].id = proxy[proxies[k]].id
             /\ Nodes[k].addr = proxy[proxies[k]].localAddr
  <2>1. Nodes[k] = [id |-> proxy[proxies[k]].id, addr |-> proxy[proxies[k]].localAddr]
    BY <1>4
  <2>. QED  BY ONLY <2>1
<1>. QED  BY <1>6, <1>7

\* The routes of the directory are the connections of the bus, slot by slot.
LEMMA RoutesSlots ==
    TypeOK => (Up /\ StacksKnown =>
                     /\ Routes \in Seq(RouteRec) /\ Len(Routes) = Len(connections)
                     /\ \A k \in 1 .. Len(connections) :
                           /\ Routes[k].id = conn[connections[k]].id
                           /\ Routes[k].node = proxy[conn[connections[k]].proxy].id
                           /\ Routes[k].dest = conn[connections[k]].remoteAddr)
<1>. DEFINE route(k) == [id |-> conn[connections[k]].id,
                         node |-> proxy[conn[connections[k]].proxy].id,
                         dest |-> conn[connections[k]].remoteAddr]
<1>. SUFFICES ASSUME TypeOK, Up, StacksKnown
              PROVE  /\ Routes \in Seq(RouteRec) /\ Len(Routes) = Len(connections)
                     /\ \A k \in 1 .. Len(connections) :
                           /\ Routes[k].id = conn[connections[k]].id
                           /\ Routes[k].node = proxy[conn[connections[k]].proxy].id
                           /\ Routes[k].dest = conn[connections[k]].remoteAddr
  OBVIOUS
<1>1. /\ connections \in Seq(DOMAIN conn) /\ conn \in [DOMAIN conn -> ConnRec]
      /\ proxy \in [DOMAIN proxy -> ProxyRec]
  BY DEF TypeOK
<1>2. /\ Len(connections) \in Nat
      /\ \A k \in 1 .. Len(connections) : /\ connections[k] \in DOMAIN conn
                                          /\ connections[k] \in ToSet(connections)
  BY <1>1 DEF ToSet
<1>3. \A c \in ToSet(connections) : conn[c].proxy \in DOMAIN proxy
  BY ArrayTypes DEF StacksKnown
<1>4. \A k \in 1 .. Len(connections) : route(k) \in RouteRec
  BY <1>1, <1>2, <1>3 DEF ConnRec, ProxyRec, RouteRec
<1>5. Routes = [k \in 1 .. Len(connections) |-> route(k)]
  BY Zenon DEF Routes, RouteOf
<1>. HIDE DEF route
<1>6. Routes \in [1 .. Len(connections) -> RouteRec]
  BY <1>4, <1>5
<1>7. Routes \in Seq(RouteRec) /\ Len(Routes) = Len(connections)
  BY <1>2, <1>6, IsSequence
<1>8. ASSUME NEW k \in 1 .. Len(connections)
      PROVE  /\ Routes[k].id = conn[connections[k]].id
             /\ Routes[k].node = proxy[conn[connections[k]].proxy].id
             /\ Routes[k].dest = conn[connections[k]].remoteAddr
  <2>1. Routes[k] = route(k)
    BY <1>5
  <2>. QED  BY ONLY <2>1 DEF route
<1>. QED  BY <1>7, <1>8

\* A proxy of the bus is where its id says.
LEMMA ProxyAtItsId ==
    ASSUME TypeOK, IdsAreIndices, NEW p \in ToSet(proxies)
    PROVE  /\ proxy[p].id \in Indices(proxies) /\ proxy[p].id + 1 \in 1 .. Len(proxies)
           /\ proxies[proxy[p].id + 1] = p
<1>1. proxies \in Seq(ProxyObjs)
  BY ArrayTypes
<1>2. PICK k \in 1 .. Len(proxies) : proxies[k] = p
  BY <1>1 DEF ToSet
<1>3. k - 1 \in Indices(proxies) /\ (k - 1) + 1 = k
  BY <1>1, <1>2 DEF Indices
<1>4. proxy[p].id = k - 1
  BY <1>2, <1>3 DEF IdsAreIndices, ProxyAt
<1>. QED  BY <1>2, <1>3, <1>4

\* The table holds the address pairs that the connections of the bus carry.
LEMMA TableCarried ==
    InOrder => (Up => \A pair \in Addrs \X Addrs :
                pair \in Dir!Table
                   <=> \E c \in ToSet(connections) : Carries(c, pair[1], pair[2]))
<1>. SUFFICES ASSUME InOrder, Up, NEW pair \in Addrs \X Addrs
              PROVE  pair \in Dir!Table
                        <=> \E c \in ToSet(connections) : Carries(c, pair[1], pair[2])
  OBVIOUS
<1>1. TypeOK /\ IdsAreIndices /\ StacksKnown
  BY DEF InOrder, Inv
<1>2. /\ connections \in Seq(ConnObjs) /\ DOMAIN connections = 1 .. Len(connections)
  BY <1>1, ArrayTypes
<1>3. /\ Routes \in Seq(RouteRec) /\ Len(Routes) = Len(connections)
      /\ \A k \in 1 .. Len(connections) :
            /\ Routes[k].node = proxy[conn[connections[k]].proxy].id
            /\ Routes[k].dest = conn[connections[k]].remoteAddr
  BY <1>1, RoutesSlots
<1>4. DOMAIN Routes = 1 .. Len(connections)
  BY <1>3
<1>5. ASSUME NEW k \in 1 .. Len(connections)
      PROVE  Dir!Pair(Routes[k]) = pair <=> Carries(connections[k], pair[1], pair[2])
  <2>. DEFINE c == connections[k]
              p == conn[c].proxy
  <2>1. c \in ToSet(connections)
    BY <1>2 DEF ToSet
  <2>2. p \in ToSet(proxies)
    BY <1>1, <2>1 DEF StacksKnown
  <2>3. proxy[p].id + 1 \in 1 .. Len(proxies) /\ proxies[proxy[p].id + 1] = p
    BY <1>1, <2>2, ProxyAtItsId
  <2>4. Nodes[proxy[p].id + 1].addr = proxy[p].localAddr
    BY <1>1, <2>3, NodesSlots
  <2>5. Routes[k].node = proxy[p].id /\ Routes[k].dest = conn[c].remoteAddr
    BY <1>3
  <2>6. Dir!Pair(Routes[k]) = <<proxy[p].localAddr, conn[c].remoteAddr>>
    BY <2>4, <2>5 DEF Dir!Pair
  <2>7. pair = <<pair[1], pair[2]>>
    OBVIOUS
  <2>. QED  BY <2>6, <2>7 DEF Carries
<1>6. pair \in Dir!Table <=> \E k \in 1 .. Len(connections) : Dir!Pair(Routes[k]) = pair
  BY <1>4 DEF Dir!Table
<1>7. ToSet(connections) = {connections[k] : k \in 1 .. Len(connections)}
  BY <1>2 DEF ToSet
<1>. QED  BY <1>5, <1>6, <1>7

\* While the bus is up, the loader's lookup and the subscriptions answer from the
\* table, and Send's lookup from the open stacks, so from the table between calls.
LEMMA AnsweredFromTable ==
    InOrder => (Up => /\ Found = Dir!Table /\ Heard = Dir!Table
                      /\ call = NoCall => Sendable = Dir!Table
                      /\ \A pair \in Addrs \X Addrs :
                            pair \in Sendable
                               <=> \E c \in stacks : Carries(c, pair[1], pair[2])
                      /\ Dir!Table \subseteq Addrs \X Addrs)
<1>. SUFFICES ASSUME InOrder, Up
              PROVE  /\ Found = Dir!Table /\ Heard = Dir!Table
                     /\ call = NoCall => Sendable = Dir!Table
                     /\ \A pair \in Addrs \X Addrs :
                           pair \in Sendable
                              <=> \E c \in stacks : Carries(c, pair[1], pair[2])
                     /\ Dir!Table \subseteq Addrs \X Addrs
  OBVIOUS
<1>1. /\ TypeOK /\ StacksKnown /\ listening = ToSet(connections)
      /\ call = NoCall => ToSet(connections) = stacks
      /\ ToSet(connections) \subseteq stacks
  BY NoneInHand DEF InOrder, Inv, StacksKnown
<1>2. Dir!Table \subseteq Addrs \X Addrs
  <2>1. /\ Routes \in Seq(RouteRec) /\ Len(Routes) = Len(connections)
        /\ \A k \in 1 .. Len(connections) :
              Routes[k].node = proxy[conn[connections[k]].proxy].id
    BY <1>1, RoutesSlots
  <2>2. Nodes \in Seq(NodeRec) /\ Len(Nodes) = Len(proxies)
    BY <1>1, NodesSlots
  <2>3. ASSUME NEW k \in DOMAIN Routes PROVE Dir!Pair(Routes[k]) \in Addrs \X Addrs
    <3>. DEFINE p == conn[connections[k]].proxy
    <3>1. k \in 1 .. Len(connections) /\ Routes[k] \in RouteRec
      BY <2>1
    <3>2. connections \in Seq(ConnObjs)
      BY <1>1, ArrayTypes
    <3>3. p \in ToSet(proxies)
      BY <1>1, <3>1, <3>2 DEF StacksKnown, ToSet
    <3>4. Routes[k].node = proxy[p].id
      BY <2>1, <3>1
    <3>5. proxy[p].id + 1 \in 1 .. Len(proxies)
      BY <1>1, <3>3, ProxyAtItsId DEF InOrder
    <3>6. Nodes[Routes[k].node + 1] \in NodeRec
      BY <2>2, <3>4, <3>5
    <3>. QED  BY <3>1, <3>6 DEF Dir!Pair, NodeRec, RouteRec
  <2>. QED  BY <2>3 DEF Dir!Table
<1>3. ASSUME NEW pair \in Addrs \X Addrs
      PROVE  /\ pair \in Found <=> pair \in Dir!Table
             /\ pair \in Sendable
                   <=> \E c \in stacks : Carries(c, pair[1], pair[2])
             /\ call = NoCall => (pair \in Sendable <=> pair \in Dir!Table)
             /\ pair \in Heard <=> pair \in Dir!Table
  <2>1. pair \in Dir!Table
           <=> \E c \in ToSet(connections) : Carries(c, pair[1], pair[2])
    BY TableCarried
  <2>2. getConnectionId(pair[1], pair[2]) # NONE
           <=> \E c \in ToSet(connections) : Carries(c, pair[1], pair[2])
    BY <1>1, LoaderFinds
  <2>3. GetConnection(pair[1], pair[2]) # Null
           <=> \E c \in stacks : Carries(c, pair[1], pair[2])
    BY SendFinds DEF InOrder
  <2>4. pair \in Found <=> pair \in Dir!Table
    BY <2>1, <2>2, Zenon DEF Found
  <2>5. pair \in Sendable <=> \E c \in stacks : Carries(c, pair[1], pair[2])
    BY <2>3, Zenon DEF Sendable
  <2>6. pair \in Heard <=> pair \in Dir!Table
    BY <2>1, <1>1, Zenon DEF Heard
  <2>7. call = NoCall => (pair \in Sendable <=> pair \in Dir!Table)
    BY <2>1, <2>5, <1>1, Zenon
  <2>. QED  BY <2>4, <2>5, <2>6, <2>7
<1>4. /\ Found \subseteq Addrs \X Addrs /\ Sendable \subseteq Addrs \X Addrs
      /\ Heard \subseteq Addrs \X Addrs
  BY DEF Found, Sendable, Heard
<1>5. call = NoCall => Sendable = Dir!Table
  BY <1>2, <1>3, <1>4, Zenon
<1>6. Found = Dir!Table /\ Heard = Dir!Table
  BY <1>2, <1>3, <1>4, Zenon
<1>. QED  BY <1>2, <1>3, <1>5, <1>6, Zenon

\* The lookup of a name leads to the first proxy with that name.
FirstNamed(n) ==
    /\ Named[n] \in Indices(proxies) \cup {NONE}
    /\ Named[n] # NONE => proxy[ProxyAt(Named[n])].name = n
    /\ \A i \in Indices(proxies) :
          proxy[ProxyAt(i)].name = n => Named[n] # NONE /\ Named[n] <= i

LEMMA NameLookup ==
    InOrder => (Up => Named \in [Names -> Int] /\ \A n \in Names : FirstNamed(n))
<1>. SUFFICES ASSUME InOrder, Up
              PROVE  Named \in [Names -> Int] /\ \A n \in Names : FirstNamed(n)
  OBVIOUS
<1>1. TypeOK /\ IdsAreIndices
  BY DEF InOrder, Inv
<1>2. ASSUME NEW n \in Names PROVE FirstNamed(n) /\ Named[n] \in Int
  <2>. DEFINE hits == {i \in Indices(proxies) : proxy[ProxyAt(i)].name = n}
  <2>1. hits \in SUBSET Nat /\ hits \in SUBSET Int
    BY DEF Indices
  <2>2. Named[n] = getProxyId(n)
    BY DEF Named
  <2>3. CASE hits = {}
    <3>1. Named[n] = NONE
      BY <2>2, <2>3, Zenon DEF getProxyId
    <3>. QED  BY <3>1, <2>3 DEF FirstNamed, NONE
  <2>4. CASE hits # {}
    <3>1. Min(hits) \in hits /\ \A i \in hits : Min(hits) <= i
      <4>. HIDE DEF hits
      <4>. QED  BY <2>1, <2>4, MinExists
    <3>2. getProxyId(n) = proxy[ProxyAt(Min(hits))].id
      BY <2>4, Zenon DEF getProxyId
    <3>3. proxy[ProxyAt(Min(hits))].id = Min(hits)
      BY <1>1, <3>1 DEF IdsAreIndices
    <3>4. Named[n] = Min(hits)
      BY <2>2, <3>2, <3>3
    <3>5. Named[n] \in hits /\ \A i \in hits : Named[n] <= i
      BY <3>1, <3>4
    <3>6. Named[n] # NONE /\ Named[n] \in Int
      BY <2>1, <3>5 DEF NONE
    <3>. HIDE DEF NONE
    <3>. QED  BY <3>5, <3>6 DEF FirstNamed
  <2>. QED  BY <2>3, <2>4
<1>3. Named = [n \in Names |-> Named[n]]
  BY DEF Named
<1>. QED  BY <1>2, <1>3

\* What the lemmas above say of the directory and the bus, in one state.
Mirrored ==
    /\ Nodes \in Seq(NodeRec) /\ Len(Nodes) = Len(proxies)
    /\ \A k \in 1 .. Len(proxies) : /\ Nodes[k].id = proxy[proxies[k]].id
                                    /\ Nodes[k].addr = proxy[proxies[k]].localAddr
    /\ Routes \in Seq(RouteRec) /\ Len(Routes) = Len(connections)
    /\ \A k \in 1 .. Len(connections) :
          /\ Routes[k].id = conn[connections[k]].id
          /\ Routes[k].node = proxy[conn[connections[k]].proxy].id
          /\ Routes[k].dest = conn[connections[k]].remoteAddr
    /\ \A pair \in Addrs \X Addrs :
          pair \in Dir!Table <=> \E c \in ToSet(connections) : Carries(c, pair[1], pair[2])
    /\ \A pair \in Addrs \X Addrs :
          pair \in Sendable <=> \E c \in stacks : Carries(c, pair[1], pair[2])
    /\ Found = Dir!Table /\ Heard = Dir!Table
    /\ call = NoCall => Sendable = Dir!Table
    /\ Dir!Table \subseteq Addrs \X Addrs
    /\ Named \in [Names -> Int] /\ \A n \in Names : FirstNamed(n)

LEMMA UpMirrored == InOrder => (Up => Mirrored)
<1>. SUFFICES ASSUME InOrder, Up PROVE Mirrored
  OBVIOUS
<1>1. TypeOK /\ StacksKnown
  BY DEF InOrder, Inv
<1>. QED  BY <1>1, NodesSlots, RoutesSlots, TableCarried, AnsweredFromTable, NameLookup
          DEF Mirrored

\* So it is before and after a step.
LEMMA StillMirrored ==
    ASSUME InOrder, InOrder', Up, Up'
    PROVE  Mirrored /\ Mirrored'
<1>1. (InOrder => (Up => Mirrored))'
  BY UpMirrored, PTL
<1>. QED  BY <1>1, UpMirrored

\* An operation that leaves the connections alone, and the addresses they carry,
\* changes no answer about a pair, if no connection is in hand.
LEMMA SameAnswers ==
    ASSUME InOrder, InOrder', Up, Up', ToSet(connections') = ToSet(connections),
           UNCHANGED <<conn, call>>, call = NoCall,
           \A c \in ToSet(connections) :
              proxy'[conn[c].proxy].localAddr = proxy[conn[c].proxy].localAddr
    PROVE  UNCHANGED <<Found, Sendable, Heard>>
<1>1. Mirrored /\ Mirrored'
  BY StillMirrored
<1>2. \A c \in ToSet(connections), src, dest \in Addrs :
         Carries(c, src, dest)' <=> Carries(c, src, dest)
  BY DEF Carries
<1>3. Dir!Table \subseteq Addrs \X Addrs /\ Dir!Table' \subseteq Addrs \X Addrs
  BY <1>1, Zenon DEF Mirrored
<1>4. ASSUME NEW pair \in Addrs \X Addrs
      PROVE  pair \in Dir!Table' <=> pair \in Dir!Table
  <2>1. pair \in Dir!Table <=> \E c \in ToSet(connections) : Carries(c, pair[1], pair[2])
    BY <1>1 DEF Mirrored
  <2>2. pair \in Dir!Table'
           <=> \E c \in ToSet(connections') : Carries(c, pair[1], pair[2])'
    BY <1>1 DEF Mirrored
  <2>3. pair[1] \in Addrs /\ pair[2] \in Addrs
    OBVIOUS
  <2>. QED  BY <1>2, <2>1, <2>2, <2>3, Zenon
<1>5. Dir!Table' = Dir!Table
  BY <1>3, <1>4, Zenon
<1>6. Found = Dir!Table /\ Sendable = Dir!Table /\ Heard = Dir!Table
  BY <1>1 DEF Mirrored
<1>7. Found' = Dir!Table' /\ Sendable' = Dir!Table' /\ Heard' = Dir!Table'
  <2>1. call' = NoCall
    OBVIOUS
  <2>. QED  BY <1>1, <2>1 DEF Mirrored
<1>. QED  BY <1>5, <1>6, <1>7

\* An operation that leaves the proxies of the bus and their ids alone changes
\* no node, and no name leads elsewhere.
LEMMA SameNodes ==
    ASSUME InOrder, InOrder', Up, Up', UNCHANGED proxies,
           \A q \in DOMAIN proxy :
              /\ proxy'[q].id = proxy[q].id /\ proxy'[q].name = proxy[q].name
              /\ proxy'[q].localAddr = proxy[q].localAddr
    PROVE  UNCHANGED <<Nodes, Named>>
<1>1. Up' = Up
  BY DEF Up
<1>2. /\ proxies \in Seq(ProxyObjs) /\ ToSet(proxies) \subseteq DOMAIN proxy
      /\ \A i \in Indices(proxies) : ProxyAt(i) \in ToSet(proxies)
      /\ \A k \in 1 .. Len(proxies) : proxies[k] \in DOMAIN proxy
  BY ArrayTypes DEF InOrder, Inv, ToSet
<1>3. Nodes' = Nodes
  <2>1. \A k \in 1 .. Len(proxies) :
           [id |-> proxy'[proxies[k]].id, addr |-> proxy'[proxies[k]].localAddr]
              = [id |-> proxy[proxies[k]].id, addr |-> proxy[proxies[k]].localAddr]
    BY <1>2
  <2>2. [k \in 1 .. Len(proxies) |->
            [id |-> proxy'[proxies[k]].id, addr |-> proxy'[proxies[k]].localAddr]]
           = [k \in 1 .. Len(proxies) |->
                 [id |-> proxy[proxies[k]].id, addr |-> proxy[proxies[k]].localAddr]]
    BY <2>1
  <2>. QED  BY <2>2, <1>1 DEF Nodes
<1>4. ASSUME NEW n \in Names PROVE getProxyId(n)' = getProxyId(n)
  <2>. DEFINE hits == {j \in Indices(proxies) : proxy[ProxyAt(j)].name = n}
  <2>1. \A j \in Indices(proxies) :
           /\ ProxyAt(j)' = ProxyAt(j)
           /\ proxy'[ProxyAt(j)].name = proxy[ProxyAt(j)].name
           /\ proxy'[ProxyAt(j)].id = proxy[ProxyAt(j)].id
    BY <1>2 DEF ProxyAt
  <2>2. hits' = hits
    BY <2>1
  <2>3. hits # {} => Min(hits) \in Indices(proxies)
    <3>1. hits \in SUBSET Nat
      BY DEF Indices
    <3>2. hits \subseteq Indices(proxies)
      OBVIOUS
    <3>. HIDE DEF hits
    <3>. QED  BY <3>1, <3>2, MinExists
  <2>4. getProxyId(n) = IF hits = {} THEN NONE ELSE proxy[ProxyAt(Min(hits))].id
    BY Zenon DEF getProxyId
  <2>5. getProxyId(n)' = (IF hits = {} THEN NONE ELSE proxy[ProxyAt(Min(hits))].id)'
    BY Zenon DEF getProxyId
  <2>. HIDE DEF hits
  <2>. QED  BY <2>1, <2>2, <2>3, <2>4, <2>5
<1>5. Named' = Named
  BY <1>1, <1>4 DEF Named
<1>. QED  BY <1>3, <1>5

\* An operation that leaves the connections alone, and the ids of their proxies,
\* changes no route.
LEMMA SameRoutes ==
    ASSUME UNCHANGED <<connections, conn, busState>>,
           \A k \in 1 .. Len(connections) :
              proxy'[conn[connections[k]].proxy].id = proxy[conn[connections[k]].proxy].id
    PROVE  UNCHANGED Routes
<1>. DEFINE route(k) == [id |-> conn[connections[k]].id,
                         node |-> proxy[conn[connections[k]].proxy].id,
                         dest |-> conn[connections[k]].remoteAddr]
<1>1. \A k \in 1 .. Len(connections) : route(k)' = route(k)
  OBVIOUS
<1>2. Routes = IF Up THEN [k \in 1 .. Len(connections) |-> route(k)] ELSE << >>
  BY Zenon DEF Routes, RouteOf
<1>3. Routes' = IF Up' THEN [k \in 1 .. Len(connections) |-> route(k)'] ELSE << >>
  BY Zenon DEF Routes, RouteOf
<1>. HIDE DEF route
<1>. QED  BY <1>1, <1>2, <1>3 DEF Up

\* While no connection is in hand, no route is.
LEMMA NothingInHand == /\ call = NoCall => Hand = Dir!Nothing
                       /\ call' = NoCall => Hand' = Dir!Nothing
BY DEF Hand, Dir!Nothing

\* createProxy adds a node: its handle is its position, and a name that led
\* nowhere leads to it.
LEMMA NewProxyAddsNode ==
    ASSUME InOrder, InOrder', Up, UNCHANGED busState, call = NoCall,
           NEW p, NEW name \in Names, NEW addr \in Addrs, NEW ports,
           NewProxy(p, name, addr, ports)
    PROVE  Dir!AddNode(name, addr)
<1>2. Up /\ Up' /\ UNCHANGED busState
  BY DEF Up
<1>3. Mirrored /\ Mirrored' /\ TypeOK /\ IdsAreIndices
  BY <1>2, StillMirrored DEF InOrder, Inv
<1>4. /\ p \in ProxyObjs \ DOMAIN proxy
      /\ proxy'[p].id = Len(proxies) /\ proxy'[p].name = name
      /\ proxy'[p].localAddr = addr
      /\ \A q \in DOMAIN proxy : proxy'[q] = proxy[q]
      /\ proxies' = Append(proxies, p)
      /\ UNCHANGED <<connections, conn, call>>
  BY <1>3, NewProxyEffect
<1>5. /\ proxies \in Seq(ProxyObjs) /\ connections \in Seq(ConnObjs)
      /\ \A k \in 1 .. Len(proxies) : proxies[k] \in DOMAIN proxy
      /\ \A j \in Indices(proxies) : ProxyAt(j) \in DOMAIN proxy
  BY <1>3, ArrayTypes DEF ToSet
<1>6. \A c \in ToSet(connections) : conn[c].proxy \in DOMAIN proxy
  <2>1. /\ ToSet(connections) \subseteq stacks
        /\ \A c \in stacks : conn[c].proxy \in ToSet(proxies)
    BY DEF InOrder, StacksKnown
  <2>. QED  BY <2>1, <1>3, ArrayTypes
<1>7. Nodes' = Append(Nodes, [id |-> Len(Nodes), addr |-> addr])
  <2>1. /\ Nodes \in Seq(NodeRec) /\ Len(Nodes) = Len(proxies)
        /\ \A k \in 1 .. Len(proxies) : /\ Nodes[k].id = proxy[proxies[k]].id
                                        /\ Nodes[k].addr = proxy[proxies[k]].localAddr
    BY <1>3 DEF Mirrored
  <2>2. /\ Nodes' \in Seq(NodeRec) /\ Len(Nodes') = Len(proxies')
        /\ \A k \in 1 .. Len(proxies') :
              /\ Nodes'[k].id = proxy'[proxies'[k]].id
              /\ Nodes'[k].addr = proxy'[proxies'[k]].localAddr
    BY <1>3 DEF Mirrored
  <2>3. /\ Len(proxies) \in Nat /\ Len(proxies') = Len(proxies) + 1
        /\ \A k \in 1 .. Len(proxies) : k \in 1 .. Len(proxies') /\ proxies'[k] = proxies[k]
        /\ Len(proxies) + 1 \in 1 .. Len(proxies') /\ proxies'[Len(proxies) + 1] = p
    BY <1>4, <1>5
  <2>4. ASSUME NEW k \in 1 .. Len(proxies) PROVE Nodes'[k] = Nodes[k]
    <3>1. Nodes[k] \in NodeRec /\ Nodes'[k] \in NodeRec
      BY <2>1, <2>2, <2>3
    <3>2. Nodes'[k].id = Nodes[k].id /\ Nodes'[k].addr = Nodes[k].addr
      BY <1>4, <1>5, <2>1, <2>2, <2>3
    <3>. QED  BY ONLY <3>1, <3>2 DEF NodeRec
  <2>5. [id |-> Len(Nodes), addr |-> addr] \in NodeRec
    BY <2>1, <2>3 DEF NodeRec
  <2>6. Nodes'[Len(Nodes) + 1] = [id |-> Len(Nodes), addr |-> addr]
    <3>1. Nodes'[Len(Nodes) + 1] \in NodeRec
      BY <2>1, <2>2, <2>3
    <3>2. /\ Nodes'[Len(Nodes) + 1].id = Len(Nodes)
          /\ Nodes'[Len(Nodes) + 1].addr = addr
      BY <1>4, <2>1, <2>2, <2>3
    <3>. QED  BY ONLY <3>1, <3>2 DEF NodeRec
  <2>7. Len(Nodes') = Len(Nodes) + 1 /\ \A k \in 1 .. Len(Nodes) : Nodes'[k] = Nodes[k]
    BY <2>1, <2>2, <2>3, <2>4
  <2>. QED  BY <2>1, <2>2, <2>5, <2>6, <2>7, Grown
<1>8. Named' = [Named EXCEPT ![name] = IF @ = Dir!Nowhere THEN Len(Nodes) ELSE @]
  <2>1. /\ Named \in [Names -> Int] /\ Named' \in [Names -> Int]
        /\ Len(Nodes) = Len(proxies) /\ Len(proxies) \in Nat
    BY <1>3, <1>5 DEF Mirrored
  <2>2. /\ Indices(proxies') = Indices(proxies) \cup {Len(proxies)}
        /\ \A j \in Indices(proxies) : proxies'[j + 1] = ProxyAt(j)
        /\ proxies'[Len(proxies) + 1] = p
    <3>1. /\ Indices(Append(proxies, p)) = Indices(proxies) \cup {Len(proxies)}
          /\ \A j \in Indices(proxies) : Append(proxies, p)[j + 1] = proxies[j + 1]
          /\ Append(proxies, p)[Len(proxies) + 1] = p
      <4>1. proxies \in Seq(ProxyObjs)
        BY <1>5
      <4>. QED  BY ONLY <4>1, AppendSlots DEF Indices
    <3>. QED  BY <3>1, <1>4 DEF ProxyAt
  <2>3. ASSUME NEW n \in Names
        PROVE  Named'[n] = IF n = name /\ Named[n] = NONE THEN Len(proxies) ELSE Named[n]
    <3>1. FirstNamed(n) /\ FirstNamed(n)'
      BY <1>3 DEF Mirrored
    <3>2. /\ Named[n] \in Indices(proxies) \cup {NONE}
          /\ Named[n] # NONE => proxy[ProxyAt(Named[n])].name = n
          /\ \A j \in Indices(proxies) :
                proxy[ProxyAt(j)].name = n => Named[n] # NONE /\ Named[n] <= j
      BY <3>1 DEF FirstNamed
    <3>3. /\ Named'[n] \in Indices(proxies) \cup {Len(proxies), NONE}
          /\ Named'[n] # NONE => proxy'[proxies'[Named'[n] + 1]].name = n
          /\ \A j \in Indices(proxies) \cup {Len(proxies)} :
                proxy'[proxies'[j + 1]].name = n => Named'[n] # NONE /\ Named'[n] <= j
      BY <3>1, <2>2 DEF FirstNamed, ProxyAt
    <3>4. \A j \in Indices(proxies) :
             proxy'[proxies'[j + 1]].name = proxy[ProxyAt(j)].name
      BY <1>4, <1>5, <2>2
    <3>5. proxy'[proxies'[Len(proxies) + 1]].name = name
      BY <1>4, <2>2
    <3>6. \A j \in Indices(proxies) : j \in Int /\ 0 <= j /\ j < Len(proxies)
      BY <2>1 DEF Indices
    <3>7. CASE Named[n] = NONE
      <4>1. Named'[n] \notin Indices(proxies)
        BY <3>2, <3>3, <3>4, <3>6, <3>7 DEF NONE
      <4>. QED  BY <3>3, <3>5, <3>7, <4>1
    <3>8. CASE Named[n] # NONE
      <4>1. Named[n] \in Indices(proxies) /\ Named'[n] # NONE /\ Named'[n] <= Named[n]
        BY <3>2, <3>3, <3>4, <3>8
      <4>2. Named'[n] \in Indices(proxies)
        BY <2>1, <3>3, <3>6, <4>1
      <4>3. Named[n] <= Named'[n]
        BY <3>2, <3>3, <3>4, <4>1, <4>2
      <4>. QED  BY <2>1, <3>8, <4>1, <4>3
    <3>. QED  BY <3>7, <3>8
  <2>. QED  BY <2>1, <2>3 DEF Dir!Nowhere, NONE
<1>9. UNCHANGED Routes
  <2>1. \A k \in 1 .. Len(connections) : connections[k] \in ToSet(connections)
    BY <1>5 DEF ToSet
  <2>. QED  BY <1>2, <1>4, <1>6, <2>1, SameRoutes
<1>10. UNCHANGED <<Found, Sendable, Heard>>
  BY <1>2, <1>4, <1>6, SameAnswers
<1>11. UNCHANGED Up
  BY <1>2
<1>12. Dir!Still /\ UNCHANGED Hand
  BY <1>2, <1>4, NothingInHand DEF Dir!Still
<1>. QED  BY <1>2, <1>7, <1>8, <1>9, <1>10, <1>11, <1>12 DEF Dir!AddNode

\* The first half of createConnection opens a route from the node that its handle
\* names: it can be sent to, and nothing else shows yet.
LEMMA OpenConnectionOpensRoute ==
    ASSUME InOrder, InOrder', Up, UNCHANGED busState, call = NoCall,
           NEW c, NEW p \in ToSet(proxies), NEW remote \in Addrs,
           OpenConnection(c, p, Len(connections), remote)
    PROVE  \E node \in 0 .. Len(Nodes) - 1, dest \in Addrs : Dir!OpenRoute(node, dest)
<1>2. Up /\ Up' /\ UNCHANGED busState /\ UNCHANGED Up
  BY DEF Up
<1>3. Mirrored /\ Mirrored' /\ TypeOK /\ IdsAreIndices
  BY <1>2, StillMirrored DEF InOrder, Inv
<1>4. /\ conn'[c].id = Len(connections) /\ conn'[c].proxy = p
      /\ conn'[c].remoteAddr = remote
      /\ \A d \in DOMAIN conn : conn'[d] = conn[d]
      /\ \A q \in DOMAIN proxy :
            /\ proxy'[q].id = proxy[q].id /\ proxy'[q].name = proxy[q].name
            /\ proxy'[q].localAddr = proxy[q].localAddr
      /\ stacks' = stacks \cup {c}
      /\ call' = [op |-> "new", conn |-> c, id |-> Len(connections)]
      /\ UNCHANGED <<proxies, connections>>
  BY <1>3, OpenConnectionEffect
<1>5. UNCHANGED <<Nodes, Named>>
  BY <1>2, <1>4, SameNodes
<1>6. /\ connections \in Seq(ConnObjs) /\ p \in DOMAIN proxy
      /\ ToSet(connections) = stacks
      /\ \A d \in stacks : d \in DOMAIN conn /\ conn[d].proxy \in DOMAIN proxy
  <2>1. /\ ToSet(connections) = stacks
        /\ \A d \in stacks : conn[d].proxy \in ToSet(proxies)
    BY NoneInHand DEF InOrder, StacksKnown
  <2>. QED  BY <2>1, <1>3, ArrayTypes
<1>7. UNCHANGED Routes
  <2>. DEFINE route(k) == [id |-> conn[connections[k]].id,
                           node |-> proxy[conn[connections[k]].proxy].id,
                           dest |-> conn[connections[k]].remoteAddr]
  <2>1. ASSUME NEW k \in 1 .. Len(connections) PROVE route(k)' = route(k)
    <3>1. connections[k] \in stacks /\ connections' = connections
      BY <1>4, <1>6 DEF ToSet
    <3>2. /\ conn'[connections[k]] = conn[connections[k]]
          /\ conn[connections[k]].proxy \in DOMAIN proxy
      BY <3>1, <1>4, <1>6
    <3>3. proxy'[conn[connections[k]].proxy].id = proxy[conn[connections[k]].proxy].id
      BY <3>2, <1>4
    <3>. QED  BY <3>1, <3>2, <3>3
  <2>2. Routes = [k \in 1 .. Len(connections) |-> route(k)]
    BY <1>2, Zenon DEF Routes, RouteOf
  <2>3. Routes' = [k \in 1 .. Len(connections) |-> route(k)']
    BY <1>2, <1>4, Zenon DEF Routes, RouteOf
  <2>. HIDE DEF route
  <2>. QED  BY <2>1, <2>2, <2>3
<1>8. Dir!Table' = Dir!Table
  BY <1>5, <1>7 DEF Dir!Table, Dir!Pair
<1>9. UNCHANGED <<Found, Heard>>
  BY <1>3, <1>8 DEF Mirrored
<1>. DEFINE r == [id |-> Len(Routes), node |-> proxy[p].id, dest |-> remote]
<1>10. Len(Routes) = Len(connections)
  BY <1>3 DEF Mirrored
<1>11. Hand' = [op |-> "new", route |-> r]
  <2>1. call' # NoCall /\ call'.op = "new" /\ call'.conn = c
    BY <1>4 DEF NoCall
  <2>2. RouteOf(c)' = r
    BY <1>4, <1>6, <1>10 DEF RouteOf
  <2>3. RouteOf(call.conn)' = RouteOf(c)'
    BY <2>1 DEF RouteOf
  <2>. HIDE DEF r
  <2>. QED  BY <2>1, <2>2, <2>3 DEF Hand
<1>12. proxy[p].id \in 0 .. Len(Nodes) - 1 /\ Dir!Pair(r) = <<proxy[p].localAddr, remote>>
  <2>1. /\ proxy[p].id \in Indices(proxies) /\ proxy[p].id + 1 \in 1 .. Len(proxies)
        /\ proxies[proxy[p].id + 1] = p
    BY <1>3, ProxyAtItsId
  <2>2. Len(Nodes) = Len(proxies) /\ Nodes[proxy[p].id + 1].addr = proxy[p].localAddr
    BY <1>3, <2>1 DEF Mirrored
  <2>. QED  BY <2>1, <2>2 DEF Dir!Pair, Indices
<1>13. proxy[p].localAddr \in Addrs
  BY <1>3, <1>6 DEF TypeOK, ProxyRec
<1>14. Sendable' = Dir!Table \cup {Dir!Pair(r)}
  <2>. HIDE DEF r
  <2>1. ASSUME NEW pair \in Addrs \X Addrs
        PROVE  pair \in Sendable' <=> pair \in Dir!Table \cup {Dir!Pair(r)}
    <3>1. pair = <<pair[1], pair[2]>> /\ pair[1] \in Addrs /\ pair[2] \in Addrs
      OBVIOUS
    <3>2. pair \in Sendable' <=> \E d \in stacks \cup {c} : Carries(d, pair[1], pair[2])'
      BY <1>3, <1>4 DEF Mirrored
    <3>3. pair \in Dir!Table <=> \E d \in stacks : Carries(d, pair[1], pair[2])
      BY <1>3, <1>6 DEF Mirrored
    <3>4. \A d \in stacks : Carries(d, pair[1], pair[2])' <=> Carries(d, pair[1], pair[2])
      BY <1>4, <1>6 DEF Carries
    <3>5. Carries(c, pair[1], pair[2])' <=> pair = Dir!Pair(r)
      BY <3>1, <1>4, <1>6, <1>12 DEF Carries
    <3>. QED  BY <3>2, <3>3, <3>4, <3>5, Zenon
  <2>2. Sendable' \subseteq Addrs \X Addrs
    BY DEF Sendable
  <2>3. Dir!Table \cup {Dir!Pair(r)} \subseteq Addrs \X Addrs
    BY <1>3, <1>12, <1>13 DEF Mirrored
  <2>. QED  BY <2>1, <2>2, <2>3, Zenon
<1>15. Dir!Still
  BY <1>2, NothingInHand DEF Dir!Still
<1>16. Dir!OpenRoute(proxy[p].id, remote)
  BY <1>2, <1>5, <1>7, <1>9, <1>11, <1>14, <1>15, Zenon DEF Dir!OpenRoute
<1>. QED  BY <1>12, <1>16

\* The second half stores the route in hand at the end of the table, and all the
\* answers come from it again.
LEMMA SubscribeAddsRoute ==
    ASSUME InOrder, InOrder', Up, Subscribe
    PROVE  Dir!AddRoute
<1>. DEFINE c == call.conn
<1>1. /\ connections' = Append(connections, c) /\ call' = NoCall
      /\ call # NoCall /\ call.op = "new"
      /\ UNCHANGED <<proxies, proxy, conn, busState>>
  BY OpIsCall DEF Subscribe, destruction
<1>2. Up /\ Up' /\ UNCHANGED busState /\ UNCHANGED Up
  BY <1>1 DEF Up
<1>3. Mirrored /\ Mirrored' /\ TypeOK
  BY <1>2, StillMirrored DEF InOrder, Inv
<1>4. c \in stacks /\ c \in DOMAIN conn /\ conn[c].proxy \in DOMAIN proxy
  <2>1. c \in stacks /\ conn[c].proxy \in ToSet(proxies)
    BY <1>1 DEF InOrder, Inv, CallOK, StacksKnown
  <2>. QED  BY <2>1, <1>3, ArrayTypes DEF TypeOK
<1>5. UNCHANGED <<Nodes, Named>>
  BY <1>1, <1>2, SameNodes
<1>6. connections \in Seq(ConnObjs)
  BY <1>3, ArrayTypes
<1>7. Hand = [op |-> "new", route |-> RouteOf(c)]
  BY <1>1 DEF Hand
<1>. HIDE DEF c
<1>8. Routes' = Append(Routes, RouteOf(c))
  <2>1. /\ Routes \in Seq(RouteRec) /\ Len(Routes) = Len(connections)
        /\ Routes' \in Seq(RouteRec) /\ Len(Routes') = Len(connections')
    BY <1>3 DEF Mirrored
  <2>2. /\ Len(connections) \in Nat /\ Len(connections') = Len(connections) + 1
        /\ \A k \in 1 .. Len(connections) : connections'[k] = connections[k]
        /\ connections'[Len(connections) + 1] = c
    BY <1>1, <1>6
  <2>3. Routes = [k \in 1 .. Len(connections) |-> RouteOf(connections[k])]
    BY <1>2, Zenon DEF Routes
  <2>4. Routes' = [k \in 1 .. Len(connections') |-> RouteOf(connections'[k])]
    <3>1. Routes' = [k \in 1 .. Len(connections') |-> RouteOf(connections[k])']
      BY <1>2, Zenon DEF Routes
    <3>2. \A k : RouteOf(connections[k])' = RouteOf(connections'[k])
      BY <1>1 DEF RouteOf
    <3>. QED  BY <3>1, <3>2
  <2>5. \A k \in 1 .. Len(Routes) : Routes'[k] = Routes[k]
    BY ONLY <2>1, <2>2, <2>3, <2>4
  <2>6. Routes'[Len(Routes) + 1] = RouteOf(c)
    BY ONLY <2>1, <2>2, <2>4
  <2>7. RouteOf(c) \in RouteRec
    BY <1>3, <1>4 DEF RouteOf, RouteRec, TypeOK, ConnRec, ProxyRec
  <2>8. Len(Routes') = Len(Routes) + 1
    BY <2>1, <2>2
  <2>. QED  BY <2>1, <2>5, <2>6, <2>7, <2>8, Grown
<1>9. Found' = Dir!Table' /\ Sendable' = Dir!Table' /\ Heard' = Dir!Table'
  <2>1. call' = NoCall
    BY <1>1
  <2>. QED  BY <1>3, <2>1 DEF Mirrored
<1>10. Hand' = Dir!Nothing
  BY <1>1, NothingInHand
<1>. QED  BY <1>2, <1>5, <1>7, <1>8, <1>9, <1>10 DEF Dir!AddRoute

\* The first half of closing the connection created last takes the last route out of
\* the table; it can still be sent to.
LEMMA CloseLastDropsRoute ==
    ASSUME RInv, InOrder, InOrder', CloseLastConnection
    PROVE  Dir!DropLastRoute
<1>. DEFINE c == Last(connections)
<1>1. /\ busState = "up" /\ connections # << >> /\ call = NoCall
      /\ connections' = RemoveByIndex(connections, Len(connections) - 1)
      /\ call' = [op |-> "delete", conn |-> c, id |-> Len(connections) - 1]
      /\ UNCHANGED <<proxies, proxy, conn, destruction>>
  BY CloseLastEffect
<1>2. Up /\ Up' /\ UNCHANGED busState /\ UNCHANGED Up
  BY <1>1 DEF destruction, Up
<1>3. Mirrored /\ Mirrored' /\ TypeOK
  BY <1>2, StillMirrored DEF RInv, Inv
<1>4. UNCHANGED <<Nodes, Named>>
  BY <1>1, <1>2, SameNodes
<1>5. connections \in Seq(ConnObjs) /\ c = connections[Len(connections)]
  BY <1>1, <1>3, ArrayTypes, LastSlot
<1>6. /\ Routes \in Seq(RouteRec) /\ Len(Routes) = Len(connections)
      /\ Routes' \in Seq(RouteRec) /\ Len(Routes') = Len(connections')
  BY <1>3 DEF Mirrored
<1>7. Routes = [k \in 1 .. Len(connections) |-> RouteOf(connections[k])]
  BY <1>2, Zenon DEF Routes
<1>8. Routes' = [k \in 1 .. Len(connections') |-> RouteOf(connections'[k])]
  <2>1. Routes' = [k \in 1 .. Len(connections') |-> RouteOf(connections[k])']
    BY <1>2, Zenon DEF Routes
  <2>2. \A k : RouteOf(connections[k])' = RouteOf(connections'[k])
    BY <1>1 DEF RouteOf
  <2>. QED  BY <2>1, <2>2
<1>9. /\ Len(connections) \in Nat /\ Len(connections) # 0
      /\ Len(connections') = Len(connections) - 1
  BY <1>1, <1>5, LastSlot, RemoveByIndexSlots
<1>10. Routes' = Front(Routes) /\ Routes # << >>
  <2>1. \A k \in 1 .. Len(connections') : /\ k \in 1 .. Len(connections)
                                          /\ connections'[k] = connections[k]
    <3>1. \A j \in Indices(connections') : connections'[j + 1] = connections[j + 1]
      BY <1>1, <1>5, RemoveLastSlot
    <3>2. ASSUME NEW k \in 1 .. Len(connections')
          PROVE  k - 1 \in Indices(connections') /\ (k - 1) + 1 = k
                 /\ k \in 1 .. Len(connections)
      BY <1>9 DEF Indices
    <3>. QED  BY <3>1, <3>2
  <2>2. \A k \in 1 .. Len(Routes') : Routes'[k] = Routes[k]
    BY ONLY <2>1, <1>6, <1>7, <1>8
  <2>3. Routes # << >> /\ Len(Routes') = Len(Routes) - 1
    BY <1>6, <1>9
  <2>. QED  BY <2>2, <2>3, <1>6, Shrunk
<1>11. Last(Routes) = RouteOf(c)
  <2>1. Last(Routes) = Routes[Len(Routes)]
    BY DEF Last
  <2>2. Len(Routes) \in 1 .. Len(connections)
    BY <1>6, <1>9
  <2>. HIDE DEF c
  <2>. QED  BY ONLY <2>1, <2>2, <1>5, <1>6, <1>7
<1>. HIDE DEF c
<1>12. Hand' = [op |-> "delete", route |-> Last(Routes)]
  <2>1. call' # NoCall /\ call'.op = "delete" /\ call'.conn = c
    BY <1>1 DEF NoCall
  <2>2. RouteOf(call.conn)' = RouteOf(c)
    BY <2>1, <1>1 DEF RouteOf
  <2>. QED  BY <2>1, <2>2, <1>11 DEF Hand
<1>13. Found' = Dir!Table' /\ Heard' = Dir!Table'
  BY <1>3 DEF Mirrored
<1>14. UNCHANGED Sendable
  BY <1>1, <1>2 DEF Sendable, GetConnection, OwnTo, ProxyAt
<1>15. Dir!Still
  BY <1>1, <1>2, NothingInHand DEF Dir!Still
<1>16. Routes' = Dir!Front(Routes) /\ Dir!Last(Routes) = Last(Routes)
  BY <1>10 DEF Front, Dir!Front, Last, Dir!Last
<1>. QED  BY <1>2, <1>4, <1>10, <1>12, <1>13, <1>14, <1>15, <1>16, Zenon
          DEF Dir!DropLastRoute

\* The second half closes the route in hand: it can no longer be sent to.
LEMMA CloseStackClosesRoute ==
    ASSUME RInv, InOrder, InOrder', CloseStack
    PROVE  Dir!CloseRoute
<1>1. /\ busState = "up" /\ call # NoCall /\ call' = NoCall /\ call.op = "delete"
      /\ \A q \in DOMAIN proxy :
            /\ proxy'[q].id = proxy[q].id /\ proxy'[q].name = proxy[q].name
            /\ proxy'[q].localAddr = proxy[q].localAddr
      /\ UNCHANGED <<proxies, connections, conn, destruction>>
  BY CloseStackEffect DEF CloseStack
<1>2. Up /\ Up' /\ UNCHANGED busState /\ UNCHANGED Up
  BY <1>1 DEF destruction, Up
<1>3. Mirrored /\ Mirrored' /\ TypeOK
  BY <1>2, StillMirrored DEF RInv, Inv
<1>4. UNCHANGED <<Nodes, Named>>
  BY <1>1, <1>2, SameNodes
<1>5. \A k \in 1 .. Len(connections) : conn[connections[k]].proxy \in DOMAIN proxy
  <2>1. /\ ToSet(connections) \subseteq stacks
        /\ \A d \in stacks : conn[d].proxy \in ToSet(proxies)
    BY DEF InOrder, StacksKnown
  <2>2. connections \in Seq(ConnObjs) /\ ToSet(proxies) \subseteq DOMAIN proxy
    BY <1>3, ArrayTypes
  <2>. QED  BY <2>1, <2>2 DEF ToSet
<1>6. UNCHANGED Routes
  BY <1>1, <1>2, <1>5, SameRoutes
<1>7. Dir!Table' = Dir!Table
  BY <1>4, <1>6 DEF Dir!Table, Dir!Pair
<1>8. UNCHANGED <<Found, Heard>>
  BY <1>3, <1>7 DEF Mirrored
<1>9. Sendable' = Dir!Table
  <2>1. call' = NoCall
    BY <1>1
  <2>. QED  BY <2>1, <1>3, <1>7 DEF Mirrored
<1>10. Hand' = Dir!Nothing /\ Hand.op = "delete"
  BY <1>1, NothingInHand DEF Hand
<1>. QED  BY <1>2, <1>4, <1>6, <1>8, <1>9, <1>10 DEF Dir!CloseRoute

\* Deleting the proxy created last drops the last node, which has no route, and
\* only a name that led to it leads nowhere from then on.
LEMMA RemoveLastDropsNode ==
    ASSUME RInv, InOrder, InOrder', RemoveLastProxy
    PROVE  Dir!DropLastNode
<1>1. /\ busState = "up" /\ busState' = "up" /\ proxies # << >>
      /\ proxies' = RemoveByIndex(proxies, Len(proxies) - 1)
      /\ \A c \in stacks : conn[c].proxy # Last(proxies)
      /\ UNCHANGED <<connections, proxy, conn, call>> /\ call = NoCall
  BY RemoveLastEffect
<1>2. Up /\ Up' /\ UNCHANGED busState /\ UNCHANGED Up
  BY <1>1 DEF Up
<1>3. /\ Mirrored /\ Mirrored' /\ TypeOK /\ IdsAreIndices
      /\ ToSet(connections) \subseteq stacks
      /\ \A c \in stacks : conn[c].proxy \in ToSet(proxies)
  BY <1>1, <1>2, StillMirrored DEF RInv, Inv, Disciplined, StacksKnown
<1>4. /\ proxies \in Seq(ProxyObjs) /\ connections \in Seq(ConnObjs)
      /\ \A k \in 1 .. Len(connections) : connections[k] \in ToSet(connections)
  BY <1>3, ArrayTypes DEF ToSet
<1>5. /\ Len(proxies) \in Nat /\ Len(proxies) # 0 /\ Len(proxies') = Len(proxies) - 1
      /\ Last(proxies) = proxies[Len(proxies)]
  BY <1>1, <1>4, LastSlot, RemoveByIndexSlots
<1>6. \A j \in Indices(proxies') :
         j \in Indices(proxies) /\ proxies'[j + 1] = proxies[j + 1]
  BY <1>1, <1>4, RemoveLastSlot
<1>7. Nodes' = Front(Nodes) /\ Nodes # << >> /\ Len(Nodes) = Len(proxies)
  <2>1. /\ Nodes \in Seq(NodeRec) /\ Len(Nodes) = Len(proxies)
        /\ \A k \in 1 .. Len(proxies) : /\ Nodes[k].id = proxy[proxies[k]].id
                                        /\ Nodes[k].addr = proxy[proxies[k]].localAddr
    BY <1>3 DEF Mirrored
  <2>2. /\ Nodes' \in Seq(NodeRec) /\ Len(Nodes') = Len(proxies')
        /\ \A k \in 1 .. Len(proxies') :
              /\ Nodes'[k].id = proxy'[proxies'[k]].id
              /\ Nodes'[k].addr = proxy'[proxies'[k]].localAddr
    BY <1>3 DEF Mirrored
  <2>3. ASSUME NEW k \in 1 .. Len(proxies')
        PROVE  /\ k - 1 \in Indices(proxies') /\ (k - 1) + 1 = k
               /\ k \in 1 .. Len(proxies)
    BY <1>5 DEF Indices
  <2>4. ASSUME NEW k \in 1 .. Len(proxies') PROVE Nodes'[k] = Nodes[k]
    <3>1. Nodes[k] \in NodeRec /\ Nodes'[k] \in NodeRec
      BY <2>1, <2>2, <2>3
    <3>2. proxies'[k] = proxies[k]
      BY <1>6, <2>3
    <3>3. Nodes'[k].id = proxy'[proxies'[k]].id /\ Nodes'[k].addr = proxy'[proxies'[k]].localAddr
      BY ONLY <2>2, k \in 1 .. Len(proxies')
    <3>4. Nodes[k].id = proxy[proxies[k]].id /\ Nodes[k].addr = proxy[proxies[k]].localAddr
      BY ONLY <2>1, <2>3, k \in 1 .. Len(proxies')
    <3>5. proxy' = proxy
      BY <1>1
    <3>6. Nodes'[k].id = Nodes[k].id /\ Nodes'[k].addr = Nodes[k].addr
      BY ONLY <3>2, <3>3, <3>4, <3>5
    <3>. QED  BY ONLY <3>1, <3>6 DEF NodeRec
  <2>5. /\ Nodes # << >> /\ Len(Nodes') = Len(Nodes) - 1
        /\ \A k \in 1 .. Len(Nodes') : Nodes'[k] = Nodes[k]
    BY <1>5, <2>1, <2>2, <2>4
  <2>. QED  BY <2>1, <2>2, <2>5, Shrunk
<1>8. ASSUME NEW k \in DOMAIN Routes PROVE Routes[k].node # Len(Nodes) - 1
  <2>. DEFINE p == conn[connections[k]].proxy
  <2>1. k \in 1 .. Len(connections) /\ Routes[k].node = proxy[p].id
    BY <1>3 DEF Mirrored
  <2>2. p \in ToSet(proxies) /\ p # Last(proxies)
    BY <1>1, <1>3, <1>4, <2>1
  <2>3. proxies[proxy[p].id + 1] = p /\ proxy[p].id \in Nat
    BY <1>3, <2>2, ProxyAtItsId DEF Indices
  <2>4. proxy[p].id + 1 # Len(proxies)
    BY <1>5, <2>2, <2>3
  <2>. QED  BY <1>5, <1>7, <2>1, <2>3, <2>4
<1>9. Named' = [n \in Names |-> IF Named[n] = Len(Nodes) - 1 THEN NONE ELSE Named[n]]
  <2>1. /\ Named \in [Names -> Int] /\ Named' \in [Names -> Int]
        /\ Len(Nodes) = Len(proxies) /\ Len(proxies) \in Nat
    BY <1>3, <1>5 DEF Mirrored
  <2>2. \A j \in Int : j \in Indices(proxies) <=> 0 <= j /\ j < Len(proxies)
    BY <1>5 DEF Indices
  <2>3. \A j \in Int : j \in Indices(proxies') <=> 0 <= j /\ j < Len(proxies) - 1
    BY <1>5 DEF Indices
  <2>4. ASSUME NEW n \in Names
        PROVE  Named'[n] = IF Named[n] = Len(proxies) - 1 THEN NONE ELSE Named[n]
    <3>1. FirstNamed(n) /\ FirstNamed(n)'
      BY <1>3 DEF Mirrored
    <3>2. /\ Named[n] \in Indices(proxies) \cup {NONE}
          /\ Named[n] # NONE => proxy[proxies[Named[n] + 1]].name = n
          /\ \A j \in Indices(proxies) :
                proxy[proxies[j + 1]].name = n => Named[n] # NONE /\ Named[n] <= j
      BY <3>1 DEF FirstNamed, ProxyAt
    <3>3. /\ Named'[n] \in Indices(proxies') \cup {NONE}
          /\ Named'[n] # NONE => proxy[proxies'[Named'[n] + 1]].name = n
          /\ \A j \in Indices(proxies') :
                proxy[proxies'[j + 1]].name = n => Named'[n] # NONE /\ Named'[n] <= j
      BY <3>1, <1>1 DEF FirstNamed, ProxyAt
    <3>4. Named'[n] # NONE => /\ Named'[n] \in Indices(proxies')
                              /\ Named'[n] \in Indices(proxies)
                              /\ Named[n] # NONE /\ Named[n] <= Named'[n]
      BY <1>6, <3>2, <3>3
    <3>5. CASE Named[n] = NONE
      BY <3>4, <3>5, <2>1 DEF NONE
    <3>6. CASE Named[n] # NONE /\ Named[n] = Len(proxies) - 1
      BY <3>4, <3>6, <2>1, <2>3
    <3>7. CASE Named[n] # NONE /\ Named[n] # Len(proxies) - 1
      <4>1. Named[n] \in Indices(proxies')
        BY <3>2, <3>7, <2>1, <2>2, <2>3
      <4>2. Named'[n] # NONE /\ Named'[n] <= Named[n]
        BY <1>6, <3>2, <3>3, <3>7, <4>1
      <4>. QED  BY <3>4, <3>7, <4>2, <2>1
    <3>. QED  BY <3>5, <3>6, <3>7
  <2>. QED  BY <2>1, <2>4
<1>10. UNCHANGED Routes
  BY <1>1, <1>2, SameRoutes
<1>11. UNCHANGED <<Found, Sendable, Heard>>
  BY <1>1, <1>2, SameAnswers
<1>12. Nodes' = Dir!Front(Nodes)
  BY <1>7 DEF Front, Dir!Front
<1>13. NONE = Dir!Nowhere
  BY DEF NONE, Dir!Nowhere
<1>14. Dir!Still /\ UNCHANGED Hand
  BY <1>1, <1>2, NothingInHand DEF Dir!Still
<1>. QED  BY <1>2, <1>7, <1>8, <1>9, <1>10, <1>11, <1>12, <1>13, <1>14, Zenon
          DEF Dir!DropLastNode

-----------------------------------------------------------------------------
(* The steps that a client does not see.                                   *)

\* Deleting the bus closes the directory, whatever its destructor still has to do.
LEMMA BusDeleteCloses ==
    ASSUME BusDelete
    PROVE  Dir!Close
<1>1. Up /\ ~ Up'
  BY DEF BusDelete, Idle, Up
<1>2. /\ Nodes' = << >> /\ Routes' = << >> /\ Named' = [n \in Names |-> NONE]
      /\ Found' = {} /\ Sendable' = {} /\ Heard' = {}
  BY <1>1 DEF Nodes, Routes, Named, Found, Sendable, Heard
<1>3. Hand = Dir!Nothing /\ Hand' = Dir!Nothing
  BY NothingInHand DEF BusDelete, Idle, registry
<1>. QED  BY <1>1, <1>2, <1>3 DEF Dir!Close, Dir!Still, Dir!Empty, Dir!Nowhere, NONE

\* Once it is closed, nothing shows.
LEMMA ClosedStaysClosed ==
    ASSUME ~ Up, ~ Up', Inv, Inv'
    PROVE  UNCHANGED Dir!directory
<1>1. /\ Nodes = << >> /\ Routes = << >> /\ Named = [n \in Names |-> NONE]
      /\ Found = {} /\ Sendable = {} /\ Heard = {}
  BY DEF Nodes, Routes, Named, Found, Sendable, Heard
<1>2. /\ Nodes' = << >> /\ Routes' = << >> /\ Named' = [n \in Names |-> NONE]
      /\ Found' = {} /\ Sendable' = {} /\ Heard' = {}
  BY DEF Nodes, Routes, Named, Found, Sendable, Heard
<1>3. UNCHANGED Up
  BY Zenon DEF Up
<1>4. Hand = Dir!Nothing /\ Hand' = Dir!Nothing
  BY NothingInHand DEF Inv, CallOK, Up
<1>. QED  BY <1>1, <1>2, <1>3, <1>4 DEF Dir!directory

\* What the directory shows depends on these variables only.
LEMMA SameDirectory ==
    ASSUME UNCHANGED <<proxies, connections, proxy, conn, listening, call, busState>>
    PROVE  UNCHANGED Dir!directory
<1>1. UNCHANGED Up
  BY DEF Up
<1>2. UNCHANGED <<Nodes, Routes>>
  BY <1>1 DEF Nodes, Routes, RouteOf
<1>3. UNCHANGED Named
  BY <1>1 DEF Named, getProxyId, ProxyAt
<1>4. UNCHANGED Found
  BY <1>1 DEF Found, getConnectionId, ConnectionAt, Carries
<1>5. UNCHANGED Sendable
  BY <1>1 DEF Sendable, GetConnection, OwnTo, ProxyAt
<1>6. UNCHANGED Heard
  BY <1>1 DEF Heard, Carries
<1>7. UNCHANGED Hand
  BY DEF Hand, RouteOf
<1>. QED  BY <1>1, <1>2, <1>3, <1>4, <1>5, <1>6, <1>7 DEF Dir!directory

\* No step of a destructor shows: while the bus is up, only the destructor of a
\* proxy without connections runs.
LEMMA DestructorsHidden ==
    ASSUME RInv, RInv', Destructors
    PROVE  UNCHANGED Dir!directory
<1>1. CASE DisposeConnection
  <2>1. /\ dying # Null /\ dyingIndex < Len(proxy[dying].connections)
        /\ UNCHANGED busState
    BY <1>1 DEF DisposeConnection
  <2>2. dyingIndex \in Nat
    BY DEF RInv, Inv, TypeOK
  <2>3. ~ Up
    <3>1. ASSUME Up PROVE FALSE
      <4>1. proxy[dying].connections = << >>
        BY <2>1, <3>1, DyingOwnsNothing DEF Up
      <4>. QED  BY <2>1, <2>2, <4>1
    <3>. QED  BY <3>1
  <2>4. ~ Up'
    BY <2>1, <2>3 DEF Up
  <2>. QED  BY <2>3, <2>4, ClosedStaysClosed DEF RInv
<1>2. CASE DisposeProxy
  <2>. DEFINE left == {c \in stacks : conn[c].proxy = dying}
  <2>1. /\ dying # Null /\ listening' = listening \ left
        /\ UNCHANGED <<proxies, connections, proxy, conn, call, busState>>
    BY <1>2, Zenon DEF DisposeProxy
  <2>2. CASE Up
    <3>1. left = {}
      BY <2>1, <2>2, DyingOwnsNothing DEF Up
    <3>. HIDE DEF left
    <3>2. UNCHANGED <<proxies, connections, proxy, conn, listening, call, busState>>
      BY <2>1, <3>1
    <3>. QED  BY <3>2, SameDirectory
  <2>3. CASE ~ Up
    <3>1. ~ Up'
      BY <2>1, <2>3 DEF Up
    <3>. QED  BY <2>3, <3>1, ClosedStaysClosed DEF RInv
  <2>. QED  BY <2>2, <2>3
<1>3. CASE DisposeBusProxy
  <2>1. ~ Up /\ ~ Up'
    BY <1>3 DEF DisposeBusProxy, Up
  <2>. QED  BY <2>1, ClosedStaysClosed DEF RInv
<1>4. CASE DisposeBus
  <2>1. ~ Up /\ ~ Up'
    BY <1>4 DEF DisposeBus, Up
  <2>. QED  BY <2>1, ClosedStaysClosed DEF RInv
<1>5. CASE LateAPDU
  <2>1. ~ Up /\ ~ Up'
    BY <1>5 DEF LateAPDU, destruction, Up
  <2>. QED  BY <2>1, ClosedStaysClosed DEF RInv
<1>. QED  BY <1>1, <1>2, <1>3, <1>4, <1>5 DEF Destructors

\* A new bus is an empty directory.
LEMMA InitIsEmpty == Init => Dir!DirectoryInit
<1>. SUFFICES ASSUME Init PROVE Dir!DirectoryInit
  OBVIOUS
<1>1. InOrder /\ Up
  BY RInitInv DEF Init, InOrder, RInv, Disciplined, Up
<1>2. Mirrored
  BY <1>1, UpMirrored
<1>3. proxies = << >> /\ connections = << >>
  BY DEF Init
<1>4. Nodes = << >> /\ Routes = << >>
  BY <1>2, <1>3 DEF Mirrored
<1>5. Named = [n \in Names |-> NONE]
  BY <1>1, <1>3 DEF Named, getProxyId, Indices
<1>6. Dir!Table = {}
  BY <1>4 DEF Dir!Table
<1>7. Found = {} /\ Sendable = {} /\ Heard = {}
  <2>1. call = NoCall
    BY DEF Init
  <2>. QED  BY <1>2, <1>6, <2>1 DEF Mirrored
<1>8. Hand = Dir!Nothing
  BY NothingInHand DEF Init
<1>. QED  BY <1>1, <1>4, <1>5, <1>7, <1>8 DEF Dir!DirectoryInit, Dir!Empty, Dir!Nowhere, NONE

\* Every step of the bus, as this repository uses it, is a step of the directory, or
\* none that shows.
LEMMA RepositoryNextShows ==
    RInv /\ RInv' /\ [RepositoryNext]_vars => [Dir!DirectoryNext]_(Dir!directory)
<1>. SUFFICES ASSUME RInv, RInv', [RepositoryNext]_vars
              PROVE  Dir!DirectoryNext \/ UNCHANGED Dir!directory
  OBVIOUS
<1>0. (Up => InOrder) /\ (Up' => InOrder')
  BY DEF InOrder, RInv, Disciplined, Up
<1>1. CASE CreateProxy
  <2>1. PICK p \in ProxyObjs, name \in Names, addr \in Addrs, ports \in SUBSET Ports :
            NewProxy(p, name, addr, ports)
    BY <1>1 DEF CreateProxy
  <2>2. Up /\ Up' /\ UNCHANGED busState /\ call = NoCall
    BY <1>1 DEF CreateProxy, Idle, destruction, Up
  <2>3. Dir!AddNode(name, addr)
    BY <1>0, <2>1, <2>2, NewProxyAddsNode
  <2>. QED  BY <2>3 DEF Dir!DirectoryNext
<1>2. CASE CreateConnection(ToSet(proxies))
  <2>1. PICK c \in ConnObjs, p \in ToSet(proxies), remote \in Addrs, port \in Ports :
            NewConnection(c, proxy[p].id, remote, port)
    BY <1>2 DEF CreateConnection
  <2>2. Up /\ Up' /\ Idle /\ call = NoCall /\ UNCHANGED busState
    BY <1>2 DEF CreateConnection, Idle, destruction, Up
  <2>3. CASE OpenConnection(c, p, Len(connections), remote)
    <3>1. \E node \in 0 .. Len(Nodes) - 1, dest \in Addrs : Dir!OpenRoute(node, dest)
      BY <1>0, <2>2, <2>3, OpenConnectionOpensRoute
    <3>. QED  BY <3>1 DEF Dir!DirectoryNext
  <2>4. CASE Fail("unknownPort")
    <3>1. UNCHANGED <<proxies, connections, proxy, conn, listening, call, busState>>
      BY <2>2, <2>4 DEF Fail, registry
    <3>. QED  BY <3>1, SameDirectory
  <2>. QED  BY <2>1, <2>2, <2>3, <2>4, NewConnectionOpens
<1>3. CASE BusDelete
  BY <1>3, BusDeleteCloses DEF Dir!DirectoryNext
<1>4. CASE Destructors
  BY <1>4, DestructorsHidden
<1>5. CASE CloseLastConnection
  <2>1. Up /\ Up'
    BY <1>5 DEF CloseLastConnection, Idle, destruction, Up
  <2>. QED  BY <1>0, <1>5, <2>1, CloseLastDropsRoute DEF Dir!DirectoryNext
<1>6. CASE RemoveLastProxy
  <2>1. Up /\ Up'
    BY <1>6 DEF RemoveLastProxy, Idle, Up
  <2>. QED  BY <1>0, <1>6, <2>1, RemoveLastDropsNode DEF Dir!DirectoryNext
<1>7. CASE UNCHANGED vars
  BY <1>7, SameDirectory DEF vars, registry, destruction
<1>8. CASE CallStep
  <2>1. Up /\ Up'
    BY <1>8, OpIsCall DEF CallStep, Subscribe, CloseStack, RInv, Inv, CallOK, Up,
                          destruction
  <2>2. CASE Subscribe
    BY <1>0, <2>1, <2>2, SubscribeAddsRoute DEF Dir!DirectoryNext
  <2>3. CASE CloseStack
    BY <1>0, <2>1, <2>3, CloseStackClosesRoute DEF Dir!DirectoryNext
  <2>. QED  BY <1>8, <2>2, <2>3 DEF CallStep
<1>. QED  BY <1>1, <1>2, <1>3, <1>4, <1>5, <1>6, <1>7, <1>8 DEF RepositoryNext

\* Used as this repository uses it, the bus is the directory: its two records of
\* the connections, ids that are indices of arrays that shrink, two lookups that
\* search in different orders and destructors of many steps show as one table.
THEOREM BusIsADirectory == RepositorySpec => ImplementsDirectory
<1>1. Init => Dir!DirectoryInit
  BY InitIsEmpty
<1>. QED  BY <1>1, RepositoryNextShows, RInitInv, RepositoryNextKeepsInv, PTL
          DEF RepositorySpec, ImplementsDirectory, Dir!DirectorySpec
=============================================================================
