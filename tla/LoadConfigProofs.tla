-------------------------- MODULE LoadConfigProofs --------------------------
(***************************************************************************)
(* What holds of loading, for any files, any number of loads and any heap: *)
(* what a load may change, what it reports, and what it leaves in place.   *)
(*                                                                         *)
(* The array of the bus only grows while files are loaded, so that what a  *)
(* load created is what lies beyond the lengths the arrays had before it.  *)
(***************************************************************************)
EXTENDS LoadConfig, MessageBusProofs

\* An array that kept its first slots.
Grows(old, arr) ==
    /\ Len(old) <= Len(arr)
    /\ \A k \in 1 .. Len(old) : arr[k] = old[k]

\* A list of ids that names the slots added to the array, each once.
Listed(ids, old, arr) ==
    /\ ToSet(ids) = Len(old) .. Len(arr) - 1
    /\ IsInjective(ids)

\* The registry, as long as nothing went wrong: that of a client that deletes last
\* what it created last, for a load deletes nothing.
SoundRegistry ==
    fault = "none" => RInv /\ (busState = "up" => dying = Null)

\* The only call that is ever half done creates a connection of a proxy of this load.
Opening == call # NoCall => pc = "connections" /\ call.op = "new" /\ proxyId # NONE

\* Where a load can be.
Position ==
    /\ Readable(file)
    /\ pc # "idle" => busState = "up"
    /\ pc = "connections" => proxyNum # 0
    /\ pc = "idle" => proxyNum = Len(file)

\* What the load did to the two arrays, and what it remembers of it.
Growth ==
    busState = "up" =>
        /\ proxies \in Seq(ProxyObjs) /\ IsInjective(proxies)
        /\ connections \in Seq(ConnObjs) /\ IsInjective(connections)
        /\ before.proxies \in Seq(ProxyObjs) /\ before.connections \in Seq(ConnObjs)
        /\ ToSet(before.proxies) \subseteq DOMAIN before.proxy
        /\ DOMAIN before.proxy \subseteq DOMAIN proxy
        /\ before.proxy \in [DOMAIN before.proxy -> ProxyRec]
        /\ Grows(before.proxies, proxies) /\ Grows(before.connections, connections)
        /\ Listed(lProxies, before.proxies, proxies)
        /\ Listed(lConnections, before.connections, connections)
        /\ proxyId # NONE => /\ proxyId \in Indices(proxies)
                             /\ ProxyAt(proxyId) \notin DOMAIN before.proxy

\* As proxyId is never the id of a proxy of an earlier load, such a proxy does not
\* change at all.
OldProxiesKept ==
    busState = "up" => \A p \in DOMAIN before.proxy : proxy[p] = before.proxy[p]

\* Nothing is created from a file whose proxies all existed by name.
NothingIfNamed ==
    (busState = "up" /\ \A e \in ToSet(file) :
        \E p \in ToSet(before.proxies) : before.proxy[p].name = e.name)
    => proxies = before.proxies /\ connections = before.connections

\* The entries the outer loop has passed name proxies of the bus.
EntriesNamed ==
    \A i \in 1 .. proxyNum : \E p \in ToSet(proxies) : proxy[p].name = file[i].name

\* A new proxy comes from an entry: an earlier one, or the current one, and then
\* proxyId is its id.
NewProxiesFromEntries ==
    \A p \in NewProxies : \E i \in 1 .. proxyNum :
        /\ file[i].name = proxy[p].name
        /\ i = proxyNum => proxyId # NONE /\ ProxyAt(proxyId) = p

\* No other proxy of the bus has the address.
Sole(p, addr) == \A q \in ToSet(proxies) : proxy[q].localAddr = addr => q = p

\* The connection entries the inner loop has passed.
Passed(i, k) == i < proxyNum \/ pc # "connections" \/ k <= connNum

\* A new proxy with an address of its own is connected as its entries say, as far
\* as the loops have come.
PassedConnected ==
    \A i \in 1 .. proxyNum, p \in NewProxies :
        proxy[p].name = file[i].name /\ Sole(p, file[i].addr) =>
            \A k \in DOMAIN file[i].connections :
                Passed(i, k) => \E c \in Own(p) :
                                    conn[c].remoteAddr = file[i].connections[k].remote

Progress ==
    fault = "none" /\ busState = "up" =>
        EntriesNamed /\ NewProxiesFromEntries /\ PassedConnected

\* A load that has read nothing yet.
JustBegun ==
    /\ SoundRegistry /\ fault = "none" /\ busState = "up"
    /\ proxyNum = 0 /\ proxyId = NONE /\ lProxies = << >> /\ lConnections = << >>
    /\ before = [proxy |-> proxy, proxies |-> proxies, connections |-> connections]

\* The inductive invariant of loading; its parts on old proxies and on named entries say
\* more than the properties they are for, which hold of a loader that the manual
\* describes too.
LInv == /\ LoadTypeOK /\ SoundRegistry /\ Position /\ Opening
        /\ Growth /\ OldProxiesKept /\ NothingIfNamed /\ Progress

-----------------------------------------------------------------------------
(* Arrays that grow.                                                       *)

LEMMA GrowsItself ==
    ASSUME NEW S, NEW arr \in Seq(S)
    PROVE  Grows(arr, arr) /\ Listed(<< >>, arr, arr)
<1>1. Len(arr) \in Nat /\ Len(arr) .. Len(arr) - 1 = {}
  OBVIOUS
<1>2. ToSet(<< >>) = {} /\ IsInjective(<< >>)
  BY DEF ToSet, IsInjective
<1>3. Listed(<< >>, arr, arr)
  BY <1>1, <1>2, Zenon DEF Listed
<1>4. Grows(arr, arr)
  BY <1>1 DEF Grows
<1>. QED  BY <1>3, <1>4

\* Adding an element and its index to the list keeps both.
LEMMA AppendGrows ==
    ASSUME NEW S, NEW T, NEW old \in Seq(S), NEW arr \in Seq(T), NEW e \in T,
           NEW ids \in Seq(Nat), Grows(old, arr), Listed(ids, old, arr)
    PROVE  /\ Grows(old, Append(arr, e))
           /\ Listed(Append(ids, Len(arr)), old, Append(arr, e))
           /\ Append(ids, Len(arr)) \in Seq(Nat)
           /\ Append(arr, e) # arr
<1>1. /\ Len(old) \in Nat /\ Len(arr) \in Nat /\ Len(old) <= Len(arr)
      /\ Len(Append(arr, e)) = Len(arr) + 1
      /\ \A k \in 1 .. Len(arr) : Append(arr, e)[k] = arr[k]
  BY DEF Grows
<1>2. Grows(old, Append(arr, e))
  BY <1>1 DEF Grows
<1>3. /\ ToSet(Append(ids, Len(arr))) = ToSet(ids) \cup {Len(arr)}
      /\ Len(arr) \notin ToSet(ids) => IsInjective(Append(ids, Len(arr)))
      /\ Append(ids, Len(arr)) \in Seq(Nat)
  <2>1. PICK n \in Nat : n = Len(arr)
    BY <1>1
  <2>2. /\ Append(ids, n) \in Seq(Nat)
        /\ ToSet(Append(ids, n)) = ToSet(ids) \cup {n}
        /\ IsInjective(ids) /\ n \notin ToSet(ids) => IsInjective(Append(ids, n))
    BY AppendArray
  <2>3. IsInjective(ids)
    BY DEF Listed
  <2>. QED  BY <2>1, <2>2, <2>3
<1>4. ToSet(ids) = Len(old) .. Len(arr) - 1
  BY DEF Listed
<1>5. /\ Len(arr) \notin Len(old) .. Len(arr) - 1
      /\ (Len(old) .. Len(arr) - 1) \cup {Len(arr)} = Len(old) .. (Len(arr) + 1) - 1
  BY <1>1
<1>6. Listed(Append(ids, Len(arr)), old, Append(arr, e))
  BY <1>1, <1>3, <1>4, <1>5 DEF Listed
<1>. QED  BY <1>1, <1>2, <1>3, <1>6

\* The listed ids lead to the elements added.
LEMMA ListedResolve ==
    ASSUME NEW S, NEW T, NEW old \in Seq(S), NEW arr \in Seq(T), NEW ids,
           Grows(old, arr), Listed(ids, old, arr), IsInjective(arr)
    PROVE  {arr[id + 1] : id \in ToSet(ids)} = ToSet(arr) \ ToSet(old)
<1>1. /\ Len(old) \in Nat /\ Len(arr) \in Nat /\ Len(old) <= Len(arr)
      /\ DOMAIN old = 1 .. Len(old) /\ DOMAIN arr = 1 .. Len(arr)
      /\ \A k \in 1 .. Len(old) : arr[k] = old[k]
      /\ ToSet(ids) = Len(old) .. Len(arr) - 1
  BY DEF Grows, Listed
<1>2. ASSUME NEW id \in ToSet(ids)
      PROVE  arr[id + 1] \in ToSet(arr) \ ToSet(old)
  <2>1. id + 1 \in DOMAIN arr /\ \A k \in DOMAIN old : k \in DOMAIN arr /\ k # id + 1
    BY <1>1
  <2>. QED  BY <2>1, <1>1 DEF ToSet, IsInjective
<1>3. ASSUME NEW x \in ToSet(arr) \ ToSet(old)
      PROVE  \E id \in ToSet(ids) : x = arr[id + 1]
  <2>1. PICK k \in DOMAIN arr : arr[k] = x
    BY DEF ToSet
  <2>2. k \notin DOMAIN old
    BY <2>1, <1>1 DEF ToSet
  <2>3. k - 1 \in ToSet(ids) /\ (k - 1) + 1 = k
    BY <2>2, <1>1
  <2>. QED  BY <2>1, <2>3
<1>. QED  BY <1>2, <1>3

\* The elements an array grew by are not among those it had.
LEMMA GrownSlots ==
    ASSUME NEW S, NEW T, NEW old \in Seq(S), NEW arr \in Seq(T), Grows(old, arr)
    PROVE  ToSet(old) \subseteq ToSet(arr)
<1>1. \A k \in DOMAIN old : k \in DOMAIN arr /\ arr[k] = old[k]
  BY DEF Grows
<1>. QED  BY <1>1 DEF ToSet

\* The loader finds a proxy by its name exactly when the bus has one.
LEMMA NameFinds ==
    ASSUME TypeOK, NEW name
    PROVE  getProxyId(name) # NONE <=> \E p \in ToSet(proxies) : proxy[p].name = name
<1>. DEFINE hits == {i \in Indices(proxies) : proxy[ProxyAt(i)].name = name}
<1>1. /\ proxies \in Seq(ProxyObjs) /\ ToSet(proxies) \subseteq DOMAIN proxy
      /\ \A i \in Indices(proxies) : ProxyAt(i) \in ToSet(proxies)
      /\ \A p \in DOMAIN proxy : proxy[p].id \in Nat
  BY ArrayTypes
<1>2. hits \in SUBSET Nat
  BY DEF Indices
<1>3. CASE hits = {}
  <2>1. getProxyId(name) = NONE
    BY <1>3, Zenon DEF getProxyId
  <2>2. ASSUME NEW p \in ToSet(proxies) PROVE proxy[p].name # name
    <3>1. PICK k \in DOMAIN proxies : proxies[k] = p
      BY DEF ToSet
    <3>2. k - 1 \in Indices(proxies) /\ (k - 1) + 1 = k
      BY <1>1, <3>1 DEF Indices
    <3>3. ProxyAt(k - 1) = p
      BY <3>1, <3>2 DEF ProxyAt
    <3>. QED  BY <1>3, <3>2, <3>3, Zenon
  <2>. QED  BY <2>1, <2>2, Zenon
<1>4. CASE hits # {}
  <2>. DEFINE i == Min(hits)
  <2>1. i \in hits
    BY <1>2, <1>4, MinExists, Zenon
  <2>2. getProxyId(name) = proxy[ProxyAt(i)].id
    BY <1>4, Zenon DEF getProxyId
  <2>. HIDE DEF i
  <2>3. ProxyAt(i) \in ToSet(proxies) /\ proxy[ProxyAt(i)].name = name
    BY <2>1, <1>1, Zenon
  <2>4. proxy[ProxyAt(i)].id \in Nat
    BY <2>3, <1>1
  <2>5. getProxyId(name) # NONE
    BY <2>2, <2>4 DEF NONE
  <2>. QED  BY <2>3, <2>5, Zenon
<1>. QED  BY <1>3, <1>4

\* The fields of an entry of the file.
LEMMA EntryTypes ==
    ASSUME LoadTypeOK, NEW i \in DOMAIN file
    PROVE  /\ file[i].name \in Names /\ file[i].addr \in Addrs
           /\ file[i].ports \in SUBSET Ports
           /\ file[i].connections \in Seq(ConnEntry)
           /\ \A k \in DOMAIN file[i].connections :
                 /\ file[i].connections[k].remote \in Addrs
                 /\ file[i].connections[k].port \in Ports
<1>1. file[i] \in ProxyEntry
  <2>1. file \in Seq(ProxyEntry)
    BY DEF LoadTypeOK
  <2>. QED  BY <2>1
<1>2. /\ file[i].name \in Names /\ file[i].addr \in Addrs
      /\ file[i].ports \in SUBSET Ports /\ file[i].connections \in Seq(ConnEntry)
  BY <1>1 DEF ProxyEntry
<1>3. ASSUME NEW k \in DOMAIN file[i].connections
      PROVE  /\ file[i].connections[k].remote \in Addrs
             /\ file[i].connections[k].port \in Ports
  <2>1. file[i].connections[k] \in ConnEntry
    BY <1>2
  <2>. QED  BY <2>1 DEF ConnEntry
<1>. QED  BY <1>2, <1>3

-----------------------------------------------------------------------------
(* A load that has done nothing.                                           *)

\* What the invariant says of the arrays while the bus is up.
LEMMA UpArrays ==
    ASSUME Inv, IdsAreIndices
    PROVE  /\ proxies \in Seq(ProxyObjs) /\ IsInjective(proxies)
           /\ connections \in Seq(ConnObjs) /\ IsInjective(connections)
           /\ ToSet(proxies) \subseteq DOMAIN proxy
<1>1. /\ proxies \in Seq(ProxyObjs) /\ connections \in Seq(ConnObjs)
      /\ ToSet(proxies) \subseteq DOMAIN proxy
  BY ArrayTypes DEF Inv
<1>2. IsInjective(proxies)
  BY DEF Inv, RegistryLive
<1>3. IsInjective(connections)
  BY ConnectionsInjective DEF Inv
<1>. QED  BY <1>1, <1>2, <1>3

\* When a load begins nothing was created, and no entry was read.
LEMMA FreshLoad ==
    JustBegun => Growth /\ OldProxiesKept /\ NothingIfNamed /\ Progress
<1>. SUFFICES ASSUME JustBegun
              PROVE  Growth /\ OldProxiesKept /\ NothingIfNamed /\ Progress
  OBVIOUS
<1>. USE DEF JustBegun
<1>1. /\ proxies \in Seq(ProxyObjs) /\ IsInjective(proxies)
      /\ connections \in Seq(ConnObjs) /\ IsInjective(connections)
      /\ ToSet(proxies) \subseteq DOMAIN proxy
  BY UpArrays DEF SoundRegistry, RInv, Disciplined
<1>2. /\ before.proxy = proxy /\ before.proxies = proxies
      /\ before.connections = connections
  OBVIOUS
<1>3. Growth
  <2>1. /\ Grows(proxies, proxies) /\ Listed(<< >>, proxies, proxies)
        /\ Grows(connections, connections) /\ Listed(<< >>, connections, connections)
    BY <1>1, GrowsItself
  <2>2. ~ (proxyId # NONE)
    OBVIOUS
  <2>3. before.proxy \in [DOMAIN before.proxy -> ProxyRec]
    BY <1>2 DEF SoundRegistry, RInv, Inv, TypeOK
  <2>. QED  BY <1>1, <1>2, <2>1, <2>2, <2>3, Zenon DEF Growth
<1>4. OldProxiesKept /\ NothingIfNamed
  BY <1>2, Zenon DEF OldProxiesKept, NothingIfNamed
<1>5. Progress
  <2>1. NewProxies = {} /\ 1 .. proxyNum = {}
    BY <1>2 DEF NewProxies
  <2>. QED  BY <2>1 DEF Progress, EntriesNamed, NewProxiesFromEntries, PassedConnected
<1>. QED  BY <1>3, <1>4, <1>5

LEMMA LoadInitInv == LoadInit => LInv
<1>. SUFFICES ASSUME LoadInit PROVE LInv
  OBVIOUS
<1>1. Init /\ pc = "idle" /\ file = << >> /\ proxyNum = 0 /\ connNum = 0
      /\ proxyId = NONE /\ lProxies = << >> /\ lConnections = << >>
      /\ before = [proxy |-> proxy, proxies |-> proxies, connections |-> connections]
  BY DEF LoadInit
<1>2. fault = "none" /\ busState = "up" /\ dying = Null
  BY <1>1 DEF Init
<1>3. LoadTypeOK
  <2>1. /\ file \in Seq(ProxyEntry) /\ proxyNum \in 0 .. Len(file) /\ connNum \in Nat
        /\ << >> \in Seq(Nat)
    BY <1>1
  <2>. QED  BY <1>1, <1>2, <2>1, Zenon DEF LoadTypeOK, Faults
<1>4. SoundRegistry
  BY <1>1, <1>2, RInitInv DEF SoundRegistry
<1>5. Position /\ Opening
  BY <1>1 DEF Position, Readable, Opening, Init
<1>. QED  BY <1>1, <1>2, <1>3, <1>4, <1>5, FreshLoad DEF LInv, JustBegun

-----------------------------------------------------------------------------
(* The steps of the loader on the bus.                                     *)

\* The loader in its loops calls the API as any client does.
LEMMA LoopsCallIdle ==
    ASSUME LInv, fault = "none", pc # "idle"
    PROVE  /\ RInv /\ TypeOK /\ IdsAreIndices /\ StacksKnown /\ Growth
           /\ busState = "up" /\ dying = Null
           /\ call = NoCall => Idle
<1>1. busState = "up"
  BY DEF LInv, Position
<1>. QED  BY <1>1 DEF LInv, SoundRegistry, RInv, Inv, Disciplined, Growth, Idle

\* What the entries the loops are at look like.
LEMMA ConnectionEntry ==
    ASSUME LInv, pc = "connections", connNum < Len(file[proxyNum].connections)
    PROVE  /\ proxyNum \in DOMAIN file /\ connNum \in Nat
           /\ connNum + 1 \in DOMAIN file[proxyNum].connections
           /\ file[proxyNum].connections[connNum + 1].remote \in Addrs
           /\ file[proxyNum].connections[connNum + 1].port \in Ports
<1>. DEFINE e == file[proxyNum]
<1>1. proxyNum \in DOMAIN file /\ connNum \in Nat
  BY DEF LInv, LoadTypeOK, Position
<1>2. /\ e.connections \in Seq(ConnEntry)
      /\ \A i \in DOMAIN e.connections :
            e.connections[i].remote \in Addrs /\ e.connections[i].port \in Ports
  BY <1>1, EntryTypes DEF LInv
<1>. HIDE DEF e
<1>3. connNum + 1 \in DOMAIN e.connections
  <2>1. connNum < Len(e.connections)
    BY DEF e
  <2>. QED  BY <2>1, <1>1, <1>2
<1>4. e.connections[connNum + 1].remote \in Addrs /\ e.connections[connNum + 1].port \in Ports
  BY <1>2, <1>3
<1>. QED  BY <1>1, <1>3, <1>4 DEF e

\* What an iteration of the inner loop does to the bus: nothing, because the
\* connection exists or there is no proxy to create it on, or the first half of its
\* creation on the proxy this load created last.
LEMMA LoadConnectionEffect ==
    ASSUME LInv, LoadConnection,
           NEW e, e = file[proxyNum], NEW k, k = e.connections[connNum + 1]
    PROVE  /\ Idle /\ RInv /\ pc = "connections" /\ connNum' = connNum + 1
           /\ connNum < Len(e.connections)
           /\ UNCHANGED destruction
           /\ UNCHANGED <<pc, file, proxyNum, proxyId, lProxies, lConnections, before>>
           /\ \/ /\ UNCHANGED <<registry, fault>>
                 /\ getConnectionId(e.addr, k.remote) # NONE \/ proxyId = NONE
              \/ UNCHANGED registry /\ fault' = "unknownPort"
              \/ \E c \in ConnObjs :
                    /\ proxyId \in Indices(proxies) /\ ProxyAt(proxyId) \in ToSet(proxies)
                    /\ OpenConnection(c, ProxyAt(proxyId), Len(connections), k.remote)
                    /\ NewConnection(c, proxy[ProxyAt(proxyId)].id, k.remote, k.port)
<1>. DEFINE c == Unused(ConnObjs, conn)
            p == ProxyAt(proxyId)
<1>1. /\ fault = "none" /\ call = NoCall /\ pc = "connections"
      /\ connNum < Len(e.connections) /\ connNum' = connNum + 1
      /\ UNCHANGED <<destruction, pc, file, proxyNum, proxyId, lProxies, lConnections,
                     before>>
      /\ IF getConnectionId(e.addr, k.remote) # NONE THEN UNCHANGED <<registry, fault>>
         ELSE NewConnection(c, proxyId, k.remote, k.port)
  BY Zenon DEF LoadConnection
<1>. HIDE DEF c
<1>2. Idle /\ RInv /\ TypeOK /\ IdsAreIndices /\ Growth /\ busState = "up"
  BY <1>1, LoopsCallIdle
<1>3. CASE getConnectionId(e.addr, k.remote) # NONE
  BY <1>1, <1>2, <1>3
<1>4. CASE getConnectionId(e.addr, k.remote) = NONE /\ proxyId = NONE
  <2>1. UNCHANGED <<registry, fault>>
    BY <1>1, <1>4, Zenon DEF NewConnection
  <2>. QED  BY <1>1, <1>2, <1>4, <2>1
<1>5. CASE getConnectionId(e.addr, k.remote) = NONE /\ proxyId # NONE
  <2>1. proxyId \in Indices(proxies) /\ p \in ToSet(proxies) /\ proxy[p].id = proxyId
    <3>1. proxyId \in Indices(proxies)
      BY <1>2, <1>5 DEF Growth
    <3>. QED  BY <3>1, <1>2, ArrayTypes DEF IdsAreIndices
  <2>2. NewConnection(c, proxy[p].id, k.remote, k.port)
    BY <1>1, <1>5, <2>1
  <2>. HIDE DEF p
  <2>3. OpenConnection(c, p, Len(connections), k.remote) \/ Fail("unknownPort")
    BY <1>2, <2>1, <2>2, NewConnectionOpens
  <2>4. CASE Fail("unknownPort")
    BY <1>1, <1>2, <2>4 DEF Fail
  <2>5. CASE OpenConnection(c, p, Len(connections), k.remote)
    <3>1. c \in ConnObjs
      BY <2>5 DEF OpenConnection
    <3>. QED  BY <1>1, <1>2, <2>1, <2>2, <2>5, <3>1 DEF p
  <2>. QED  BY <2>3, <2>4, <2>5
<1>. QED  BY <1>3, <1>4, <1>5

\* A load, as the bus sees it, is a client that deletes last what it created last: a
\* step that goes wrong leaves the bus as it was.
LEMMA LoadNextOnBus ==
    ASSUME LInv, [LoadNext]_loadVars
    PROVE  \/ [RepositoryNext]_vars
           \/ fault' # "none" /\ UNCHANGED <<registry, busState>>
<1>1. CASE UNCHANGED loadVars \/ LoadStart \/ LoadParseError \/ LoadNextProxy \/ LoadEnd
  <2>1. UNCHANGED vars
    BY <1>1 DEF loadVars, LoadStart, LoadParseError, LoadNextProxy, LoadEnd
  <2>. QED  BY <2>1
<1>2. CASE DeletePlugin \/ (Destructors /\ UNCHANGED load)
  BY <1>2 DEF DeletePlugin, RepositoryNext
<1>3. CASE LoadSubscribe
  BY <1>3 DEF LoadSubscribe, CallStep, RepositoryNext
<1>4. CASE LoadIncomplete
  <2>1. fault' # "none" /\ UNCHANGED <<registry, busState>>
    BY <1>4 DEF LoadIncomplete, destruction
  <2>. QED  BY <2>1
<1>5. CASE LoadProxy
  <2>. DEFINE e == file[proxyNum + 1]
              p == Unused(ProxyObjs, proxy)
  <2>1. /\ fault = "none" /\ pc = "proxies" /\ proxyNum < Len(file)
        /\ UNCHANGED destruction
        /\ UNCHANGED <<registry, fault>> \/ NewProxy(p, e.name, e.addr, e.ports)
    BY <1>5, Zenon DEF LoadProxy
  <2>2. Idle
    BY <2>1, LoopsCallIdle DEF LInv, Opening
  <2>3. e.name \in Names /\ e.addr \in Addrs /\ e.ports \in SUBSET Ports
    <3>1. proxyNum + 1 \in DOMAIN file
      BY <2>1 DEF LInv, LoadTypeOK
    <3>. QED  BY <3>1, EntryTypes DEF LInv
  <2>. HIDE DEF e, p
  <2>4. CASE UNCHANGED <<registry, fault>>
    BY <2>1, <2>4 DEF vars
  <2>5. CASE NewProxy(p, e.name, e.addr, e.ports)
    <3>1. p \in ProxyObjs
      BY <2>5 DEF NewProxy
    <3>2. CreateProxy
      BY <2>1, <2>2, <2>3, <2>5, <3>1 DEF CreateProxy
    <3>. QED  BY <3>2 DEF RepositoryNext
  <2>. QED  BY <2>1, <2>4, <2>5
<1>6. CASE LoadConnection
  <2>1. PICK e : e = file[proxyNum]
    OBVIOUS
  <2>2. PICK k : k = e.connections[connNum + 1]
    OBVIOUS
  <2>3. k.remote \in Addrs /\ k.port \in Ports
    BY <1>6, <2>1, <2>2, LoadConnectionEffect, ConnectionEntry
  <2>4. CASE UNCHANGED <<registry, fault>>
    <3>1. UNCHANGED destruction
      BY <1>6, <2>1, <2>2, LoadConnectionEffect
    <3>. QED  BY <3>1, <2>4 DEF vars
  <2>5. CASE UNCHANGED registry /\ fault' = "unknownPort"
    <3>1. UNCHANGED busState
      BY <1>6, <2>1, <2>2, LoadConnectionEffect DEF destruction
    <3>. QED  BY <3>1, <2>5
  <2>6. CASE \E c \in ConnObjs :
                /\ proxyId \in Indices(proxies) /\ ProxyAt(proxyId) \in ToSet(proxies)
                /\ OpenConnection(c, ProxyAt(proxyId), Len(connections), k.remote)
                /\ NewConnection(c, proxy[ProxyAt(proxyId)].id, k.remote, k.port)
    <3>1. Idle /\ UNCHANGED destruction
      BY <1>6, <2>1, <2>2, LoadConnectionEffect
    <3>2. CreateConnection(ToSet(proxies))
      BY <2>3, <2>6, <3>1 DEF CreateConnection
    <3>. QED  BY <3>2 DEF RepositoryNext
  <2>. QED  BY <1>6, <2>1, <2>2, <2>4, <2>5, <2>6, LoadConnectionEffect
<1>. QED  BY <1>1, <1>2, <1>3, <1>4, <1>5, <1>6 DEF LoadNext, LoadStep

\* A destructor runs only once the plugin goes, and nothing brings the bus back.
LEMMA LoadNextDestructs ==
    ASSUME LInv, [LoadNext]_loadVars
    PROVE  busState' = "up" => busState = "up" /\ UNCHANGED dying
<1>1. CASE LoadProxy \/ LoadIncomplete \/ LoadConnection \/ LoadSubscribe
  BY <1>1 DEF LoadProxy, LoadIncomplete, LoadConnection, LoadSubscribe, Subscribe,
              destruction
<1>2. CASE UNCHANGED loadVars \/ LoadStart \/ LoadParseError \/ LoadNextProxy \/ LoadEnd
  BY <1>2 DEF loadVars, LoadStart, LoadParseError, LoadNextProxy, LoadEnd, vars, destruction
<1>3. CASE DeletePlugin
  BY <1>3 DEF DeletePlugin, BusDelete
<1>4. CASE Destructors
  <2>1. busState = "up" => dying = Null
    BY <1>4 DEF LInv, SoundRegistry, Destructors, DisposeConnection, DisposeProxy,
                DisposeBusProxy, DisposeBus, LateAPDU
  <2>. QED  BY <2>1, <1>4 DEF Destructors, DisposeConnection, DisposeProxy,
                 DisposeBusProxy, DisposeBus, LateAPDU, destruction
<1>. QED  BY <1>1, <1>2, <1>3, <1>4 DEF LoadNext, LoadStep

\* The registry stays that of such a client.
LEMMA LoadNextKeepsSound ==
    ASSUME LInv, [LoadNext]_loadVars
    PROVE  SoundRegistry'
<1>. SUFFICES ASSUME fault' = "none" PROVE RInv' /\ (busState' = "up" => dying' = Null)
  BY DEF SoundRegistry
<1>1. fault = "none"
  BY DEF LoadNext, LoadStep, LoadStart, LoadParseError, LoadProxy, LoadIncomplete,
         LoadConnection, LoadSubscribe, Subscribe, LoadNextProxy, LoadEnd, DeletePlugin,
         BusDelete, Idle, Destructors, DisposeConnection, DisposeProxy, DisposeBusProxy,
         DisposeBus, LateAPDU, loadVars, vars
<1>2. RInv /\ (busState = "up" => dying = Null)
  BY <1>1 DEF LInv, SoundRegistry
<1>3. RInv'
  BY <1>2, LoadNextOnBus, RepositoryNextKeepsInv
<1>. QED  BY <1>2, <1>3, LoadNextDestructs

-----------------------------------------------------------------------------
(* The beginning of a load.                                                *)

LEMMA BeginKeepsInv ==
    ASSUME LInv, SoundRegistry', LoadStart \/ LoadParseError
    PROVE  LInv'
<1>1. /\ Idle /\ proxyNum' = 0 /\ connNum' = 0 /\ proxyId' = NONE
      /\ lProxies' = << >> /\ lConnections' = << >>
      /\ before' = [proxy |-> proxy, proxies |-> proxies, connections |-> connections]
      /\ UNCHANGED vars
  BY DEF LoadStart, LoadParseError
<1>2. /\ fault = "none" /\ busState = "up"
      /\ UNCHANGED <<fault, busState, proxy, proxies, connections, call>>
  BY <1>1 DEF Idle, vars, registry, destruction
<1>3. Opening'
  BY <1>1, <1>2 DEF Idle, Opening
<1>4. file' \in Seq(ProxyEntry) /\ Readable(file')
  <2>1. CASE LoadStart
    BY <2>1, FilesAssumption DEF LoadStart
  <2>2. CASE LoadParseError
    <3>1. file' = << >> /\ << >> \in Seq(ProxyEntry) /\ DOMAIN << >> = {}
      BY <2>2 DEF LoadParseError
    <3>. QED  BY <3>1 DEF Readable
  <2>. QED  BY <2>1, <2>2
<1>5. \/ pc' = "proxies"
      \/ pc' = "idle" /\ file' = << >>
  BY DEF LoadStart, LoadParseError
<1>6. Position'
  <2>1. Len(<< >>) = 0
    OBVIOUS
  <2>2. Readable(file)'
    BY <1>4 DEF Readable
  <2>. QED  BY <2>1, <2>2, <1>1, <1>2, <1>5 DEF Position
<1>7. LoadTypeOK'
  <2>1. 0 \in 0 .. Len(file') /\ 0 \in Nat /\ << >> \in Seq(Nat)
    BY <1>4
  <2>. QED  BY <2>1, <1>1, <1>2, <1>4, <1>5 DEF LInv, LoadTypeOK
<1>8. (Growth /\ OldProxiesKept /\ NothingIfNamed /\ Progress)'
  <2>1. before' = [proxy |-> proxy', proxies |-> proxies', connections |-> connections']
    BY <1>1, <1>2
  <2>2. JustBegun'
    BY <2>1, <1>1, <1>2, Zenon DEF JustBegun
  <2>3. JustBegun' => (Growth /\ OldProxiesKept /\ NothingIfNamed /\ Progress)'
    BY FreshLoad, PTL
  <2>. QED  BY <2>2, <2>3, Zenon
<1>. QED  BY <1>3, <1>6, <1>7, <1>8 DEF LInv

-----------------------------------------------------------------------------
(* Steps that create nothing.                                              *)

\* A step that leaves the registry and the lists alone keeps what the load did.
LEMMA FrameKeepsGrowth ==
    ASSUME Growth, OldProxiesKept, NothingIfNamed, UNCHANGED registry,
           UNCHANGED <<file, proxyId, lProxies, lConnections, before>>,
           busState' = "up" => busState = "up"
    PROVE  (Growth /\ OldProxiesKept /\ NothingIfNamed)'
<1>. USE DEF registry
<1>1. Growth'
  BY DEF Growth, Indices, ProxyAt
<1>2. OldProxiesKept'
  BY DEF OldProxiesKept
<1>3. NothingIfNamed'
  BY DEF NothingIfNamed
<1>. QED  BY <1>1, <1>2, <1>3

\* The loops move on when nothing is left to do in them.
LEMMA LoopEndKeepsInv ==
    ASSUME LInv, SoundRegistry', LoadNextProxy \/ LoadEnd
    PROVE  LInv'
<1>1. /\ fault = "none" /\ UNCHANGED vars
      /\ UNCHANGED <<file, proxyNum, connNum, proxyId, lProxies, lConnections, before>>
      /\ pc' \in {"idle", "proxies"} /\ pc # "idle"
      /\ pc' = "idle" => pc = "proxies" /\ proxyNum >= Len(file)
      /\ pc = "connections" => connNum >= Len(file[proxyNum].connections)
  BY DEF LoadNextProxy, LoadEnd
<1>2. Opening'
  BY DEF LInv, Opening, LoadNextProxy, LoadEnd, vars, registry
<1>3. LoadTypeOK'
  BY <1>1 DEF LInv, LoadTypeOK, vars, registry, destruction
<1>4. Position'
  <2>1. proxyNum >= Len(file) => proxyNum = Len(file)
    BY DEF LInv, LoadTypeOK
  <2>2. Readable(file)'
    BY <1>1 DEF LInv, Position, Readable
  <2>. QED  BY <2>1, <2>2, <1>1 DEF LInv, Position, vars, destruction
<1>5. (Growth /\ OldProxiesKept /\ NothingIfNamed)'
  BY <1>1, FrameKeepsGrowth DEF LInv, vars, registry, destruction
<1>6. Progress'
  <2>. SUFFICES ASSUME busState = "up" PROVE Progress'
    BY <1>1 DEF Progress, vars, destruction
  <2>1. EntriesNamed /\ NewProxiesFromEntries /\ PassedConnected
    BY <1>1 DEF LInv, Progress
  <2>2. EntriesNamed' /\ NewProxiesFromEntries'
    BY <2>1, <1>1 DEF EntriesNamed, NewProxiesFromEntries, NewProxies, ProxyAt, vars,
                      registry
  <2>3. ASSUME NEW i \in 1 .. proxyNum, NEW k \in DOMAIN file[i].connections
        PROVE  Passed(i, k)
    <3>1. CASE i < proxyNum \/ pc # "connections"
      BY <3>1 DEF Passed
    <3>2. CASE ~ (i < proxyNum \/ pc # "connections")
      <4>1. file \in Seq(ProxyEntry) /\ proxyNum \in 0 .. Len(file) /\ connNum \in Nat
        BY DEF LInv, LoadTypeOK
      <4>2. i = proxyNum /\ i \in DOMAIN file /\ pc = "connections"
        BY <3>2, <4>1
      <4>3. file[i].connections \in Seq(ConnEntry)
        BY <4>2, EntryTypes DEF LInv
      <4>4. k \in Nat /\ k <= Len(file[i].connections)
        BY <4>3
      <4>5. connNum >= Len(file[i].connections)
        BY <4>2, <1>1
      <4>6. k <= connNum
        BY <4>1, <4>3, <4>4, <4>5
      <4>. QED  BY <4>6 DEF Passed
    <3>. QED  BY <3>1, <3>2
  <2>4. PassedConnected'
    <3>. SUFFICES ASSUME NEW i \in 1 .. proxyNum, NEW p \in NewProxies,
                         proxy[p].name = file[i].name, Sole(p, file[i].addr),
                         NEW k \in DOMAIN file[i].connections
                  PROVE  \E c \in Own(p) :
                             conn[c].remoteAddr = file[i].connections[k].remote
      BY <1>1 DEF PassedConnected, NewProxies, Sole, Own, vars, registry
    <3>. QED  BY <2>1, <2>3 DEF PassedConnected
  <2>. QED  BY <2>2, <2>4 DEF Progress
<1>. QED  BY <1>2, <1>3, <1>4, <1>5, <1>6 DEF LInv

\* A missing key stops the load before the entry has created anything.
LEMMA IncompleteKeepsInv ==
    ASSUME LInv, LoadIncomplete
    PROVE  LInv'
<1>1. /\ fault = "none" /\ fault' = "missingKey"
      /\ UNCHANGED registry /\ UNCHANGED destruction /\ UNCHANGED load
  BY DEF LoadIncomplete
<1>2. LoadTypeOK'
  BY <1>1 DEF LInv, LoadTypeOK, load
<1>3. SoundRegistry' /\ Progress'
  BY <1>1 DEF SoundRegistry, Progress
<1>4. Position' /\ Opening'
  BY <1>1 DEF LInv, Position, Opening, Readable, load, destruction, registry
<1>5. (Growth /\ OldProxiesKept /\ NothingIfNamed)'
  BY <1>1, FrameKeepsGrowth DEF LInv, load, destruction
<1>. QED  BY <1>2, <1>3, <1>4, <1>5 DEF LInv

\* Nothing is promised of the loads of a bus that is being deleted.
LEMMA DeletedKeepsInv ==
    ASSUME LInv, SoundRegistry', busState' # "up", UNCHANGED <<load, call>>, pc = "idle",
           fault' \in Faults
    PROVE  LInv'
<1>1. LoadTypeOK'
  BY DEF LInv, LoadTypeOK, load
<1>2. Position' /\ Opening'
  BY DEF LInv, Position, Opening, Readable, load
<1>3. (Growth /\ OldProxiesKept /\ NothingIfNamed /\ Progress)'
  BY DEF Growth, OldProxiesKept, NothingIfNamed, Progress
<1>. QED  BY <1>1, <1>2, <1>3 DEF LInv

LEMMA DestructionKeepsLoaded ==
    ASSUME LInv, SoundRegistry', DeletePlugin \/ (Destructors /\ UNCHANGED load)
    PROVE  LInv'
<1>1. fault = "none" /\ UNCHANGED <<load, call>> /\ (BusDelete \/ Destructors)
  BY DEF DeletePlugin, BusDelete, Idle, Destructors, DisposeConnection, DisposeProxy,
         DisposeBusProxy, DeleteProxy, DisposeBus, LateAPDU, registry
<1>2. fault' \in Faults
  <2>1. Inv'
    BY <1>1, DestructionKeepsInv DEF LInv, SoundRegistry, RInv
  <2>. QED  BY <2>1 DEF Inv, TypeOK
<1>3. busState' # "up"
  <2>1. CASE DeletePlugin
    BY <2>1 DEF DeletePlugin, BusDelete
  <2>2. CASE Destructors
    BY <2>2, <1>1 DEF LInv, SoundRegistry, Destructors, DisposeConnection, DisposeProxy,
                      DisposeBusProxy, DisposeBus, LateAPDU, destruction
  <2>. QED  BY <2>1, <2>2
<1>4. pc = "idle"
  <2>1. CASE DeletePlugin
    BY <2>1 DEF DeletePlugin
  <2>2. CASE Destructors
    <3>1. busState # "up"
      BY <2>2, <1>1 DEF LInv, SoundRegistry, Destructors, DisposeConnection, DisposeProxy,
                        DisposeBusProxy, DisposeBus, LateAPDU
    <3>. QED  BY <3>1 DEF LInv, Position
  <2>. QED  BY <2>1, <2>2
<1>. QED  BY <1>1, <1>2, <1>3, <1>4, DeletedKeepsInv

-----------------------------------------------------------------------------
(* The outer loop.                                                         *)

\* Passing an entry of the outer loop: either a proxy of the bus has its name, or
\* the proxy that is created gets it (made is what was created).
LEMMA EntryKeepsProgress ==
    ASSUME LInv, fault = "none", busState = "up", pc = "proxies",
           NEW made,
           ToSet(proxies') = ToSet(proxies) \cup made, made \cap DOMAIN proxy = {},
           \A q \in DOMAIN proxy : proxy'[q] = proxy[q],
           \A p \in made : /\ proxy'[p].name = file[proxyNum + 1].name
                           /\ proxyId' # NONE /\ proxies'[proxyId' + 1] = p,
           \E p \in ToSet(proxies') : proxy'[p].name = file[proxyNum + 1].name,
           made # {} => \A p \in ToSet(proxies) :
                            proxy[p].name # file[proxyNum + 1].name,
           proxyNum < Len(file), proxyNum' = proxyNum + 1, connNum' = 0,
           pc' = "connections",
           UNCHANGED <<file, before, conn>>
    PROVE  Progress'
<1>1. /\ EntriesNamed /\ NewProxiesFromEntries /\ PassedConnected
      /\ ToSet(proxies) \subseteq DOMAIN proxy
      /\ ToSet(before.proxies) \subseteq DOMAIN proxy
  BY ArrayTypes DEF LInv, Progress, SoundRegistry, RInv, Inv, Growth
<1>2. /\ proxyNum \in Nat
      /\ 1 .. proxyNum' = (1 .. proxyNum) \cup {proxyNum + 1}
      /\ \A i \in 1 .. proxyNum : i < proxyNum' /\ i # proxyNum'
  <2>1. proxyNum \in Nat
    BY DEF LInv, LoadTypeOK
  <2>. QED  BY <2>1
<1>3. NewProxies' = NewProxies \cup made
  BY <1>1 DEF NewProxies
<1>4. \A q \in ToSet(proxies) : q \in ToSet(proxies') /\ proxy'[q] = proxy[q]
  BY <1>1
<1>5. EntriesNamed'
  <2>1. ASSUME NEW i \in 1 .. proxyNum
        PROVE  \E q \in ToSet(proxies') : proxy'[q].name = file[i].name
    <3>1. PICK q \in ToSet(proxies) : proxy[q].name = file[i].name
      BY <1>1 DEF EntriesNamed
    <3>. QED  BY <3>1, <1>4
  <2>. QED  BY <2>1, <1>2 DEF EntriesNamed
<1>6. NewProxiesFromEntries'
  <2>1. ASSUME NEW p \in NewProxies
        PROVE  \E i \in 1 .. proxyNum : file[i].name = proxy'[p].name
    <3>1. proxy'[p] = proxy[p]
      BY <1>4 DEF NewProxies
    <3>. QED  BY <3>1, <1>1 DEF NewProxiesFromEntries
  <2>2. ASSUME NEW p \in made
        PROVE  /\ file[proxyNum + 1].name = proxy'[p].name
               /\ proxyId' # NONE /\ proxies'[proxyId' + 1] = p
    OBVIOUS
  <2>3. ASSUME NEW p \in NewProxies'
        PROVE  \E i \in 1 .. proxyNum' :
                  /\ file[i].name = proxy'[p].name
                  /\ i = proxyNum' => proxyId' # NONE /\ proxies'[proxyId' + 1] = p
    <3>1. CASE p \in NewProxies
      <4>1. PICK i \in 1 .. proxyNum : file[i].name = proxy'[p].name
        BY <3>1, <2>1
      <4>2. i \in 1 .. proxyNum' /\ i # proxyNum'
        BY <1>2
      <4>. QED  BY <4>1, <4>2
    <3>2. CASE p \in made
      <4>1. proxyNum + 1 \in 1 .. proxyNum'
        BY <1>2
      <4>. QED  BY <3>2, <4>1, <2>2
    <3>. QED  BY <3>1, <3>2, <1>3
  <2>. QED  BY <2>3 DEF NewProxiesFromEntries, ProxyAt
<1>7. PassedConnected'
  <2>. SUFFICES ASSUME NEW i \in 1 .. proxyNum', NEW p \in NewProxies',
                       proxy'[p].name = file[i].name, Sole(p, file[i].addr)',
                       NEW k \in DOMAIN file[i].connections, Passed(i, k)'
                PROVE  \E c \in Own(p)' :
                           conn[c].remoteAddr = file[i].connections[k].remote
    BY DEF PassedConnected
  <2>1. i # proxyNum + 1
    <3>1. ASSUME i = proxyNum + 1 PROVE FALSE
      <4>1. file \in Seq(ProxyEntry)
        BY DEF LInv, LoadTypeOK
      <4>2. i \in DOMAIN file
        BY <3>1, <4>1, <1>2
      <4>3. file[i].connections \in Seq(ConnEntry)
        BY <4>2, EntryTypes DEF LInv
      <4>4. k > 0
        BY <4>3
      <4>5. ~ (i < proxyNum')
        BY <3>1, <1>2
      <4>6. k <= 0
        BY <4>5 DEF Passed
      <4>. QED  BY <4>3, <4>4, <4>6
    <3>. QED  BY <3>1
  <2>2. i \in 1 .. proxyNum
    BY <2>1, <1>2
  <2>3. p \in NewProxies
    <3>1. CASE p \in made
      <4>1. made # {} /\ \A q \in ToSet(proxies) : proxy[q].name # file[i].name
        BY <3>1
      <4>2. \E q \in ToSet(proxies) : proxy[q].name = file[i].name
        BY <2>2, <1>1 DEF EntriesNamed
      <4>. QED  BY <4>1, <4>2
    <3>. QED  BY <3>1, <1>3
  <2>4. p \in ToSet(proxies) /\ proxy'[p] = proxy[p]
    BY <2>3, <1>4 DEF NewProxies
  <2>5. Sole(p, file[i].addr)
    BY <1>4 DEF Sole
  <2>6. Passed(i, k)
    BY DEF Passed
  <2>7. \E c \in Own(p) : conn[c].remoteAddr = file[i].connections[k].remote
    BY <2>2, <2>3, <2>4, <2>5, <2>6, <1>1 DEF PassedConnected
  <2>. QED  BY <2>4, <2>7 DEF Own
<1>. QED  BY <1>5, <1>6, <1>7 DEF Progress

LEMMA LoadProxyKeepsInv ==
    ASSUME LInv, SoundRegistry', LoadProxy
    PROVE  LInv'
<1>. DEFINE e == file[proxyNum + 1]
            p == Unused(ProxyObjs, proxy)
<1>1. /\ fault = "none" /\ pc = "proxies" /\ proxyNum < Len(file)
      /\ pc' = "connections" /\ connNum' = 0 /\ proxyNum' = proxyNum + 1
      /\ UNCHANGED <<destruction, file, lConnections, before>>
      /\ IF getProxyId(e.name) = NONE
         THEN /\ NewProxy(p, e.name, e.addr, e.ports)
              /\ proxyId' = Len(proxies)
              /\ lProxies' = Append(lProxies, Len(proxies))
         ELSE UNCHANGED <<registry, fault, proxyId, lProxies>>
  BY Zenon DEF LoadProxy
<1>2. busState = "up" /\ TypeOK /\ UNCHANGED busState
  BY <1>1, LoopsCallIdle DEF destruction
<1>3. /\ proxyNum \in Nat /\ proxyNum' \in 0 .. Len(file) /\ proxyNum' # 0
      /\ proxyNum + 1 \in DOMAIN file
  BY <1>1 DEF LInv, LoadTypeOK
<1>4. /\ e.name \in Names /\ e.addr \in Addrs /\ e.ports \in SUBSET Ports
  BY <1>3, EntryTypes DEF LInv
<1>. HIDE DEF e, p
<1>5. Position' /\ Opening'
  <2>1. Readable(file)'
    BY <1>1 DEF LInv, Position, Readable
  <2>2. call' = NoCall
    <3>1. call = NoCall
      BY <1>1 DEF LInv, Opening
    <3>. QED  BY <3>1, <1>1 DEF NewProxy, registry
  <2>. QED  BY <2>1, <2>2, <1>1, <1>2, <1>3 DEF Position, Opening
<1>6. CASE getProxyId(e.name) # NONE
  <2>1. UNCHANGED <<registry, fault, proxyId, lProxies>>
    BY <1>1, <1>6
  <2>3. LoadTypeOK'
    BY <2>1, <1>1, <1>3 DEF LInv, LoadTypeOK
  <2>4. (Growth /\ OldProxiesKept /\ NothingIfNamed)'
    BY <2>1, <1>1, <1>2, FrameKeepsGrowth DEF LInv
  <2>5. Progress'
    <3>1. \E q \in ToSet(proxies') : proxy'[q].name = e.name
      BY <1>2, <1>6, <2>1, NameFinds DEF registry
    <3>2. PICK made : made = {}
      OBVIOUS
    <3>3. /\ ToSet(proxies') = ToSet(proxies) \cup made /\ made \cap DOMAIN proxy = {}
          /\ \A q \in DOMAIN proxy : proxy'[q] = proxy[q]
          /\ \A q \in made : /\ proxy'[q].name = e.name
                             /\ proxyId' # NONE /\ proxies'[proxyId' + 1] = q
          /\ made # {} => \A q \in ToSet(proxies) : proxy[q].name # e.name
          /\ UNCHANGED conn
      BY <3>2, <2>1 DEF registry
    <3>. QED  BY <3>1, <3>3, <1>1, <1>2, EntryKeepsProgress DEF e
  <2>. QED  BY <2>3, <2>4, <2>5, <1>5 DEF LInv
<1>7. CASE getProxyId(e.name) = NONE
  <2>1. /\ NewProxy(p, e.name, e.addr, e.ports)
        /\ proxyId' = Len(proxies)
        /\ lProxies' = Append(lProxies, Len(proxies))
    BY <1>1, <1>7
  <2>2. /\ p \in ProxyObjs \ DOMAIN proxy
        /\ DOMAIN proxy' = DOMAIN proxy \cup {p}
        /\ proxy'[p].name = e.name
        /\ \A q \in DOMAIN proxy : proxy'[q] = proxy[q]
        /\ proxies' = Append(proxies, p)
        /\ ToSet(proxies') = ToSet(proxies) \cup {p}
        /\ UNCHANGED <<connections, conn, fault>>
    BY <2>1, <1>2, NewProxyEffect
  <2>5. \A q \in ToSet(proxies) : proxy[q].name # e.name
    BY <1>2, <1>7, NameFinds
  <2>6. Growth /\ lProxies \in Seq(Nat) /\ proxies \in Seq(ProxyObjs)
    BY <1>2, ArrayTypes DEF LInv, LoadTypeOK
  <2>7. /\ Grows(before.proxies, proxies') /\ Listed(lProxies', before.proxies, proxies')
        /\ lProxies' \in Seq(Nat)
    BY <2>1, <2>2, <2>6, <1>2, AppendGrows DEF Growth
  <2>8. /\ Len(proxies) \in Nat /\ Len(proxies) \in Indices(proxies')
        /\ proxies'[Len(proxies) + 1] = p
    BY <2>2, <2>6, AppendSlots
  <2>9. LoadTypeOK'
    <3>1. proxyId' \in Nat
      BY <2>1, <2>8
    <3>. QED  BY <3>1, <2>2, <2>7, <1>1, <1>3 DEF LInv, LoadTypeOK
  <2>10. p \notin DOMAIN before.proxy /\ DOMAIN before.proxy \subseteq DOMAIN proxy
    BY <2>2, <2>6, <1>2 DEF Growth
  <2>11. Growth'
    <3>1. /\ proxies' \in Seq(ProxyObjs) /\ IsInjective(proxies')
          /\ connections' \in Seq(ConnObjs) /\ IsInjective(connections')
      <4>1. /\ proxies \in Seq(ProxyObjs) /\ IsInjective(proxies) /\ p \notin ToSet(proxies)
        BY <2>2, <2>6, <1>2, ArrayTypes DEF Growth
      <4>. QED  BY <4>1, <2>2, <2>6, <1>2, AppendArray DEF Growth
    <3>2. proxyId' \in Indices(proxies') /\ proxies'[proxyId' + 1] \notin DOMAIN before.proxy
      BY <2>1, <2>8, <2>10
    <3>. QED  BY <3>1, <3>2, <2>2, <2>6, <2>7, <2>10, <1>1, <1>2 DEF Growth, ProxyAt
  <2>12. OldProxiesKept'
    BY <2>2, <2>10, <1>1, <1>2 DEF LInv, OldProxiesKept
  <2>13. NothingIfNamed'
    <3>1. \A q \in ToSet(before.proxies) : before.proxy[q].name # e.name
      <4>1. /\ ToSet(before.proxies) \subseteq DOMAIN before.proxy
            /\ ToSet(before.proxies) \subseteq ToSet(proxies)
        BY <2>6, <1>2, GrownSlots DEF Growth
      <4>2. \A q \in DOMAIN before.proxy : proxy[q] = before.proxy[q]
        BY <1>2 DEF LInv, OldProxiesKept
      <4>. QED  BY <4>1, <4>2, <2>5
    <3>2. e \in ToSet(file)
      BY <1>3 DEF e, ToSet
    <3>. QED  BY <3>1, <3>2, <1>1 DEF NothingIfNamed
  <2>14. Progress'
    <3>1. PICK made : made = {p}
      OBVIOUS
    <3>2. proxyId' # NONE /\ proxies'[proxyId' + 1] = p
      BY <2>1, <2>8 DEF NONE
    <3>3. /\ ToSet(proxies') = ToSet(proxies) \cup made /\ made \cap DOMAIN proxy = {}
          /\ \A q \in DOMAIN proxy : proxy'[q] = proxy[q]
          /\ \A q \in made : /\ proxy'[q].name = e.name
                             /\ proxyId' # NONE /\ proxies'[proxyId' + 1] = q
          /\ \E q \in ToSet(proxies') : proxy'[q].name = e.name
          /\ made # {} => \A q \in ToSet(proxies) : proxy[q].name # e.name
          /\ UNCHANGED conn
      BY <3>1, <3>2, <2>2, <2>5
    <3>. QED  BY <3>3, <1>1, <1>2, EntryKeepsProgress DEF e
  <2>. QED  BY <2>9, <2>11, <2>12, <2>13, <2>14, <1>5 DEF LInv
<1>. QED  BY <1>6, <1>7

-----------------------------------------------------------------------------
(* The inner loop.                                                         *)

\* A new proxy that proxyId is not the id of comes from an earlier entry with the
\* same content, and that one has been passed.
LEMMA ElderConnected ==
    ASSUME LInv, fault = "none", busState = "up", pc = "connections",
           NEW p \in NewProxies, proxy[p].name = file[proxyNum].name,
           Sole(p, file[proxyNum].addr), ~ (proxyId # NONE /\ ProxyAt(proxyId) = p),
           NEW k \in DOMAIN file[proxyNum].connections
    PROVE  \E c \in Own(p) : conn[c].remoteAddr = file[proxyNum].connections[k].remote
<1>1. NewProxiesFromEntries /\ PassedConnected
  BY DEF LInv, Progress
<1>2. PICK i \in 1 .. proxyNum : file[i].name = proxy[p].name /\ i # proxyNum
  BY <1>1 DEF NewProxiesFromEntries
<1>3. proxyNum \in 1 .. Len(file) /\ i \in 1 .. Len(file) /\ i < proxyNum
      /\ DOMAIN file = 1 .. Len(file)
  BY <1>2 DEF LInv, LoadTypeOK, Position
<1>4. file[i] = file[proxyNum]
  BY <1>2, <1>3 DEF LInv, Position, Readable
<1>5. Passed(i, k)
  BY <1>3 DEF Passed
<1>6. /\ proxy[p].name = file[i].name /\ Sole(p, file[i].addr)
      /\ k \in DOMAIN file[i].connections
  BY <1>4
<1>7. \E c \in Own(p) : conn[c].remoteAddr = file[i].connections[k].remote
  BY <1>1, <1>2, <1>5, <1>6 DEF PassedConnected
<1>. QED  BY <1>4, <1>7

\* Passing an entry of the inner loop, when the new proxy it is for has it.
LEMMA ConnectionKeepsProgress ==
    ASSUME LInv, fault = "none", busState = "up", pc = "connections",
           \A q \in DOMAIN proxy : /\ proxy'[q].name = proxy[q].name
                                   /\ proxy'[q].localAddr = proxy[q].localAddr
                                   /\ Own(q) \subseteq Own(q)',
           \A c \in DOMAIN conn : conn'[c] = conn[c],
           \A p \in NewProxies :
               proxy[p].name = file[proxyNum].name /\ Sole(p, file[proxyNum].addr) =>
                   \E c \in Own(p)' : conn'[c].remoteAddr
                                        = file[proxyNum].connections[connNum + 1].remote,
           connNum' = connNum + 1,
           UNCHANGED <<proxies, pc, file, proxyNum, proxyId, before>>
    PROVE  Progress'
<1>1. /\ EntriesNamed /\ NewProxiesFromEntries /\ PassedConnected /\ Inv
      /\ ToSet(proxies) \subseteq DOMAIN proxy /\ ToSet(proxies) \subseteq LiveProxies
      /\ proxyNum \in Nat /\ connNum \in Nat
  BY ArrayTypes DEF LInv, Progress, SoundRegistry, RInv, Inv, RegistryLive, LoadTypeOK
<1>2. NewProxies' = NewProxies /\ NewProxies \subseteq ToSet(proxies)
  BY DEF NewProxies
<1>3. EntriesNamed'
  BY <1>1 DEF EntriesNamed
<1>4. NewProxiesFromEntries'
  <2>. SUFFICES ASSUME NEW p \in NewProxies
                PROVE  \E i \in 1 .. proxyNum :
                          /\ file[i].name = proxy'[p].name
                          /\ i = proxyNum => proxyId # NONE /\ ProxyAt(proxyId) = p
    BY <1>2 DEF NewProxiesFromEntries, ProxyAt
  <2>1. proxy'[p].name = proxy[p].name
    BY <1>1, <1>2
  <2>. QED  BY <2>1, <1>1 DEF NewProxiesFromEntries
<1>5. PassedConnected'
  <2>. SUFFICES ASSUME NEW i \in 1 .. proxyNum, NEW p \in NewProxies,
                       proxy'[p].name = file[i].name, Sole(p, file[i].addr)',
                       NEW k \in DOMAIN file[i].connections, Passed(i, k)'
                PROVE  \E c \in Own(p)' :
                           conn'[c].remoteAddr = file[i].connections[k].remote
    BY <1>2 DEF PassedConnected
  <2>1. p \in ToSet(proxies) /\ p \in DOMAIN proxy /\ p \in LiveProxies
    BY <1>1, <1>2
  <2>2. proxy[p].name = file[i].name /\ Sole(p, file[i].addr)
    BY <2>1, <1>1 DEF Sole
  <2>3. CASE Passed(i, k)
    <3>1. PICK c \in Own(p) : conn[c].remoteAddr = file[i].connections[k].remote
      BY <2>2, <2>3, <1>1 DEF PassedConnected
    <3>2. c \in DOMAIN conn
      BY <2>1, <1>1, OwnConnections
    <3>. QED  BY <3>1, <3>2, <2>1
  <2>4. CASE ~ Passed(i, k)
    <3>1. k \in Nat
      <4>1. file \in Seq(ProxyEntry) /\ proxyNum \in 0 .. Len(file)
        BY DEF LInv, LoadTypeOK
      <4>2. i \in DOMAIN file
        BY <4>1
      <4>3. file[i].connections \in Seq(ConnEntry)
        BY <4>2, EntryTypes DEF LInv
      <4>. QED  BY <4>3
    <3>2. i = proxyNum /\ k = connNum + 1
      BY <3>1, <2>4, <1>1 DEF Passed
    <3>. QED  BY <3>2, <2>2
  <2>. QED  BY <2>3, <2>4
<1>. QED  BY <1>3, <1>4, <1>5 DEF Progress

\* The connection the loader finds for the addresses of an entry is one of the
\* proxy that alone has the local address.
LEMMA FoundConnection ==
    ASSUME Inv, StacksKnown, NEW p, NEW addr, NEW remote, Sole(p, addr),
           getConnectionId(addr, remote) # NONE
    PROVE  \E c \in Own(p) : conn[c].remoteAddr = remote
<1>1. PICK c \in ToSet(connections) : Carries(c, addr, remote)
  BY LoaderFinds DEF Inv
<1>2. c \in stacks /\ conn[c].proxy \in ToSet(proxies)
  BY DEF StacksKnown
<1>3. conn[c].proxy = p
  BY <1>1, <1>2 DEF Sole, Carries
<1>4. c \in Own(conn[c].proxy)
  BY <1>2, StackOwner
<1>. QED  BY <1>1, <1>3, <1>4 DEF Carries

\* The inner loop found or made nothing, or met a stack that was refused: only the
\* counter moves.
LEMMA NoConnectionKeepsInv ==
    ASSUME LInv, SoundRegistry', fault = "none", pc = "connections",
           connNum' = connNum + 1, UNCHANGED registry, UNCHANGED destruction,
           UNCHANGED <<pc, file, proxyNum, proxyId, lProxies, lConnections, before>>,
           \/ fault' = "unknownPort"
           \/ /\ fault' = "none"
              /\ \A p \in NewProxies :
                    proxy[p].name = file[proxyNum].name
                    /\ Sole(p, file[proxyNum].addr) =>
                        \E c \in Own(p) : conn[c].remoteAddr
                                          = file[proxyNum].connections[connNum + 1].remote
    PROVE  LInv'
<1>1. busState = "up" /\ UNCHANGED busState
  BY DEF LInv, Position, destruction
<1>2. LoadTypeOK'
  BY DEF LInv, LoadTypeOK, Faults
<1>3. Position' /\ Opening'
  <2>1. Readable(file)'
    BY DEF LInv, Position, Readable
  <2>. QED  BY <2>1, <1>1 DEF LInv, Position, Opening, registry
<1>4. (Growth /\ OldProxiesKept /\ NothingIfNamed)'
  BY <1>1, FrameKeepsGrowth DEF LInv
<1>5. Progress'
  <2>1. CASE fault' = "unknownPort"
    BY <2>1 DEF Progress
  <2>2. CASE fault' # "unknownPort"
    <3>1. \A q \in DOMAIN proxy : Own(q)' = Own(q)
      BY DEF Own, registry
    <3>2. NewProxies \subseteq DOMAIN proxy
      BY ArrayTypes DEF LInv, SoundRegistry, RInv, Inv, NewProxies
    <3>. QED  BY <2>2, <3>1, <3>2, <1>1, ConnectionKeepsProgress DEF registry
  <2>. QED  BY <2>1, <2>2
<1>. QED  BY <1>2, <1>3, <1>4, <1>5 DEF LInv

\* The first half of the creation of a connection, on the proxy this load created
\* last: the proxy has it at once.
LEMMA OpeningKeepsLoaded ==
    ASSUME LInv, SoundRegistry', fault = "none", pc = "connections",
           connNum' = connNum + 1,
           connNum < Len(file[proxyNum].connections),
           proxyId \in Indices(proxies), NEW p, p = ProxyAt(proxyId), NEW c,
           OpenConnection(c, p, Len(connections),
                          file[proxyNum].connections[connNum + 1].remote),
           UNCHANGED destruction,
           UNCHANGED <<pc, file, proxyNum, proxyId, lProxies, lConnections, before>>
    PROVE  LInv'
<1>. DEFINE remote == file[proxyNum].connections[connNum + 1].remote
<1>1. /\ busState = "up" /\ Inv /\ TypeOK /\ Growth /\ UNCHANGED busState
      /\ connNum \in Nat
  BY LoopsCallIdle DEF RInv, Inv, destruction, LInv, LoadTypeOK
<1>2. /\ p \in ToSet(proxies) /\ p \in LiveProxies
      /\ ToSet(proxies) \subseteq DOMAIN proxy /\ p \in DOMAIN proxy
  BY <1>1, ArrayTypes DEF Inv, RegistryLive
<1>3. proxyId # NONE /\ p \notin DOMAIN before.proxy
  BY <1>1 DEF Growth, Indices, NONE
<1>4. OpenConnection(c, p, Len(connections), remote)
  OBVIOUS
<1>. HIDE DEF remote
<1>5. /\ c \in ConnObjs /\ c \notin DOMAIN conn
      /\ conn'[c].remoteAddr = remote
      /\ \A d \in DOMAIN conn : conn'[d] = conn[d]
      /\ DOMAIN proxy' = DOMAIN proxy
      /\ \A q \in DOMAIN proxy :
            /\ q # p => proxy'[q] = proxy[q]
            /\ proxy'[q].name = proxy[q].name
            /\ proxy'[q].localAddr = proxy[q].localAddr
      /\ Own(p)' = Own(p) \cup {c}
      /\ call' = [op |-> "new", conn |-> c, id |-> Len(connections)]
      /\ UNCHANGED <<proxies, connections, fault>>
  BY <1>1, <1>2, <1>4, OpenConnectionEffect
<1>6. Position' /\ Opening'
  <2>1. Readable(file)'
    BY DEF LInv, Position, Readable
  <2>. QED  BY <2>1, <1>1, <1>3, <1>5 DEF LInv, Position, Opening
<1>7. LoadTypeOK'
  BY <1>1, <1>5 DEF LInv, LoadTypeOK
<1>8. Growth'
  BY <1>1, <1>5 DEF Growth, ProxyAt, Indices
<1>9. OldProxiesKept'
  BY <1>1, <1>3, <1>5 DEF LInv, OldProxiesKept, Growth
<1>10. NothingIfNamed'
  BY <1>1, <1>5 DEF LInv, NothingIfNamed
<1>11. Progress'
  <2>1. ASSUME NEW q \in DOMAIN proxy PROVE Own(q) \subseteq Own(q)'
    <3>1. CASE q = p
      BY <3>1, <1>5
    <3>2. CASE q # p
      BY <3>2, <1>5 DEF Own
    <3>. QED  BY <3>1, <3>2
  <2>2. ASSUME NEW q \in NewProxies, proxy[q].name = file[proxyNum].name,
               Sole(q, file[proxyNum].addr)
        PROVE  \E d \in Own(q)' : conn'[d].remoteAddr = remote
    <3>1. CASE q = p
      BY <3>1, <1>5
    <3>2. CASE q # p
      <4>1. connNum + 1 \in DOMAIN file[proxyNum].connections
        BY ConnectionEntry
      <4>2. PICK d \in Own(q) : conn[d].remoteAddr = remote
        BY <2>2, <3>2, <4>1, <1>1, ElderConnected DEF remote
      <4>3. q \in DOMAIN proxy /\ q \in LiveProxies
        BY <1>1, <1>2 DEF NewProxies, Inv, RegistryLive
      <4>4. d \in DOMAIN conn
        BY <4>3, <1>1, OwnConnections
      <4>. QED  BY <4>2, <4>3, <4>4, <2>1, <1>5
    <3>. QED  BY <3>1, <3>2
  <2>. QED  BY <2>1, <2>2, <1>1, <1>5, ConnectionKeepsProgress DEF remote
<1>. QED  BY <1>6, <1>7, <1>8, <1>9, <1>10, <1>11 DEF LInv

LEMMA LoadConnectionKeepsInv ==
    ASSUME LInv, SoundRegistry', LoadConnection
    PROVE  LInv'
<1>1. PICK e : e = file[proxyNum]
  OBVIOUS
<1>2. PICK k : k = e.connections[connNum + 1]
  OBVIOUS
<1>3. /\ Idle /\ RInv /\ fault = "none" /\ busState = "up" /\ pc = "connections"
      /\ connNum' = connNum + 1 /\ connNum < Len(e.connections)
      /\ UNCHANGED destruction
      /\ UNCHANGED <<pc, file, proxyNum, proxyId, lProxies, lConnections, before>>
  BY <1>1, <1>2, LoadConnectionEffect DEF Idle
<1>4. CASE /\ UNCHANGED <<registry, fault>>
           /\ getConnectionId(e.addr, k.remote) # NONE \/ proxyId = NONE
  <2>1. ASSUME NEW q \in NewProxies, proxy[q].name = e.name, Sole(q, e.addr)
        PROVE  \E d \in Own(q) : conn[d].remoteAddr = k.remote
    <3>1. CASE getConnectionId(e.addr, k.remote) # NONE
      BY <1>3, <2>1, <3>1, FoundConnection DEF RInv, Disciplined
    <3>2. CASE proxyId = NONE
      <4>1. connNum + 1 \in DOMAIN file[proxyNum].connections
        BY <1>1, <1>3, ConnectionEntry
      <4>. QED  BY <1>1, <1>2, <1>3, <2>1, <3>2, <4>1, ElderConnected
    <3>. QED  BY <1>4, <3>1, <3>2
  <2>2. UNCHANGED registry /\ fault' = "none"
    BY <1>3, <1>4
  <2>. QED  BY <1>1, <1>2, <1>3, <2>1, <2>2, NoConnectionKeepsInv
<1>5. CASE UNCHANGED registry /\ fault' = "unknownPort"
  BY <1>3, <1>5, NoConnectionKeepsInv
<1>6. ASSUME NEW c \in ConnObjs, proxyId \in Indices(proxies),
             OpenConnection(c, ProxyAt(proxyId), Len(connections), k.remote)
      PROVE  LInv'
  BY <1>1, <1>2, <1>3, <1>6, OpeningKeepsLoaded
<1>. QED  BY <1>1, <1>2, <1>4, <1>5, <1>6, LoadConnectionEffect

\* The second half: the array of the bus, and the list the load returns, grow by the
\* connection in hand, whose id is the index of its slot.
LEMMA LoadSubscribeKeepsInv ==
    ASSUME LInv, SoundRegistry', LoadSubscribe
    PROVE  LInv'
<1>1. /\ fault = "none" /\ pc = "connections" /\ call # NoCall
      /\ connections' = Append(connections, call.conn)
      /\ call' = NoCall
      /\ lConnections' = Append(lConnections, call.id)
      /\ UNCHANGED <<proxies, proxy, conn, destruction, fault>>
      /\ UNCHANGED <<pc, file, proxyNum, connNum, proxyId, lProxies, before>>
  BY OpIsCall DEF LoadSubscribe, Subscribe
<1>2. /\ RInv /\ TypeOK /\ StacksKnown /\ HandIsNext /\ Growth /\ busState = "up"
      /\ UNCHANGED busState
  BY <1>1, LoopsCallIdle DEF RInv, Disciplined, destruction
<1>3. PICK c \in ConnObjs : c = call.conn /\ c \notin ToSet(connections)
  <2>1. call.conn \in ConnObjs
    BY <1>1, <1>2 DEF TypeOK
  <2>2. call.conn \notin ToSet(connections)
    BY <1>1, <1>2 DEF StacksKnown, InHand
  <2>. QED  BY <2>1, <2>2
<1>4. /\ connections \in Seq(ConnObjs) /\ lConnections \in Seq(Nat)
      /\ call.id = Len(connections)
  BY <1>1, <1>2 DEF Growth, LInv, LoadTypeOK, HandIsNext
<1>5. /\ Grows(before.connections, connections')
      /\ Listed(lConnections', before.connections, connections')
      /\ lConnections' \in Seq(Nat)
  BY <1>1, <1>2, <1>3, <1>4, AppendGrows DEF Growth
<1>6. Position' /\ Opening'
  <2>1. Readable(file)'
    BY <1>1 DEF LInv, Position, Readable
  <2>. QED  BY <2>1, <1>1, <1>2 DEF LInv, Position, Opening
<1>7. LoadTypeOK'
  BY <1>1, <1>5 DEF LInv, LoadTypeOK
<1>8. Growth'
  <2>1. connections' \in Seq(ConnObjs) /\ IsInjective(connections')
    BY <1>1, <1>2, <1>3, <1>4, AppendArray DEF Growth
  <2>. QED  BY <2>1, <1>1, <1>2, <1>5 DEF Growth, ProxyAt, Indices
<1>9. OldProxiesKept'
  BY <1>1, <1>2 DEF LInv, OldProxiesKept
<1>10. NothingIfNamed'
  <2>1. proxies # before.proxies
    <3>1. proxyId \in Indices(proxies) /\ ProxyAt(proxyId) \notin DOMAIN before.proxy
      BY <1>1, <1>2 DEF LInv, Opening, Growth
    <3>2. ProxyAt(proxyId) \in ToSet(proxies)
      BY <3>1, <1>2, ArrayTypes
    <3>. QED  BY <3>1, <3>2, <1>2 DEF Growth
  <2>2. ~ \A e \in ToSet(file) : \E q \in ToSet(before.proxies) :
              before.proxy[q].name = e.name
    BY <2>1, <1>2 DEF LInv, NothingIfNamed
  <2>. QED  BY <2>2, <1>1 DEF NothingIfNamed
<1>11. Progress'
  BY <1>1, <1>2 DEF LInv, Progress, EntriesNamed, NewProxiesFromEntries, PassedConnected,
                    NewProxies, Sole, Passed, Own, ProxyAt
<1>. QED  BY <1>6, <1>7, <1>8, <1>9, <1>10, <1>11 DEF LInv

-----------------------------------------------------------------------------
LEMMA LoadNextKeepsInv == LInv /\ [LoadNext]_loadVars => LInv'
<1>. SUFFICES ASSUME LInv, [LoadNext]_loadVars PROVE LInv'
  OBVIOUS
<1>0. SoundRegistry'
  BY LoadNextKeepsSound
<1>1. CASE LoadStart \/ LoadParseError
  BY <1>0, <1>1, BeginKeepsInv
<1>2. CASE LoadProxy
  BY <1>0, <1>2, LoadProxyKeepsInv
<1>3. CASE LoadIncomplete
  BY <1>3, IncompleteKeepsInv
<1>4. CASE LoadConnection
  BY <1>0, <1>4, LoadConnectionKeepsInv
<1>5. CASE LoadSubscribe
  BY <1>0, <1>5, LoadSubscribeKeepsInv
<1>6. CASE LoadNextProxy \/ LoadEnd
  BY <1>0, <1>6, LoopEndKeepsInv
<1>7. CASE DeletePlugin \/ (Destructors /\ UNCHANGED load)
  BY <1>0, <1>7, DestructionKeepsLoaded
<1>8. CASE UNCHANGED loadVars
  <2>1. UNCHANGED vars /\ UNCHANGED load
    BY <1>8 DEF loadVars
  <2>2. UNCHANGED registry /\ UNCHANGED <<fault, busState, dying>>
    BY <2>1 DEF vars, destruction
  <2>3. LoadTypeOK' /\ Position' /\ Opening'
    BY <2>1, <2>2 DEF LInv, LoadTypeOK, Position, Opening, Readable, load, registry
  <2>4. (Growth /\ OldProxiesKept /\ NothingIfNamed)'
    BY <2>1, <2>2, FrameKeepsGrowth DEF LInv, load
  <2>5. Progress'
    BY <2>1, <2>2 DEF LInv, Progress, EntriesNamed, NewProxiesFromEntries,
                      PassedConnected, NewProxies, Sole, Passed, Own, ProxyAt,
                      load, registry
  <2>. QED  BY <2>3, <2>4, <2>5, <1>0 DEF LInv
<1>. QED  BY <1>1, <1>2, <1>3, <1>4, <1>5, <1>6, <1>7, <1>8 DEF LoadNext, LoadStep

-----------------------------------------------------------------------------
(* The theorems.                                                           *)

\* The state of a load keeps its type: its counters stay within the file, and the
\* lists it returns hold ids.
THEOREM LoaderTypeCorrect == LoadSpec => []LoadTypeOK
<1>1. LInv => LoadTypeOK
  BY DEF LInv
<1>. QED  BY <1>1, LoadInitInv, LoadNextKeepsInv, PTL DEF LoadSpec

\* However many files are loaded, and whatever names and addresses they share, what
\* an entry says never ends up on a proxy of another name: a proxy that existed
\* keeps all it had, in order, and one without an entry does not change.
THEOREM OldProxiesStay == LoadSpec => []OldProxiesOnlyGrow
<1>1. ASSUME LInv PROVE OldProxiesOnlyGrow
  <2>. SUFFICES ASSUME busState = "up", NEW p \in DOMAIN before.proxy,
                       NEW old, old = before.proxy[p]
                PROVE  /\ proxy[p].localAddr = old.localAddr
                       /\ old.ports \subseteq proxy[p].ports
                       /\ IsPrefix(old.connections, proxy[p].connections)
                       /\ old.name \notin {e.name : e \in ToSet(file)} => proxy[p] = old
    BY DEF OldProxiesOnlyGrow
  <2>1. proxy[p] = old
    BY <1>1 DEF LInv, OldProxiesKept
  <2>2. old \in ProxyRec
    BY <1>1 DEF LInv, Growth
  <2>3. Len(old.connections) \in Nat
    BY <2>2 DEF ProxyRec
  <2>4. IsPrefix(old.connections, old.connections)
    BY <2>3 DEF IsPrefix
  <2>. QED  BY <2>1, <2>4
<1>. QED  BY <1>1, LoadInitInv, LoadNextKeepsInv, PTL DEF LoadSpec

\* Loading a file whose proxies exist, with all the connections it gives them,
\* creates nothing, at any point of the load.
THEOREM ReloadCreatesNothing == LoadSpec => []ReloadIsNoop
<1>1. LInv => ReloadIsNoop
  BY DEF LInv, NothingIfNamed, ReloadIsNoop, Known
<1>. QED  BY <1>1, LoadInitInv, LoadNextKeepsInv, PTL DEF LoadSpec

\* The two lists a load returns name exactly what it created, each once, in the
\* middle of the load and after a fault too.
THEOREM ListsNameWhatWasMade == LoadSpec => []LoadedIdsResolve
<1>1. ASSUME LInv PROVE LoadedIdsResolve
  <2>. SUFFICES ASSUME busState = "up"
                PROVE  /\ {ProxyAt(id) : id \in ToSet(lProxies)} = NewProxies
                       /\ {ConnectionAt(id) : id \in ToSet(lConnections)} = NewConnections
                       /\ IsInjective(lProxies) /\ IsInjective(lConnections)
    BY DEF LoadedIdsResolve
  <2>1. Growth
    BY <1>1 DEF LInv
  <2>2. {proxies[id + 1] : id \in ToSet(lProxies)}
            = ToSet(proxies) \ ToSet(before.proxies)
    BY <2>1, ListedResolve DEF Growth
  <2>3. {connections[id + 1] : id \in ToSet(lConnections)}
            = ToSet(connections) \ ToSet(before.connections)
    BY <2>1, ListedResolve DEF Growth
  <2>4. IsInjective(lProxies) /\ IsInjective(lConnections)
    BY <2>1 DEF Growth, Listed
  <2>. QED  BY <2>2, <2>3, <2>4 DEF ProxyAt, ConnectionAt, NewProxies, NewConnections
<1>. QED  BY <1>1, LoadInitInv, LoadNextKeepsInv, PTL DEF LoadSpec

\* Once a file is loaded every entry names a proxy of the bus, and every proxy the
\* load created with an address of its own is connected as its entries say: the
\* only connections a load can miss are those of proxies that existed or share
\* their address.
THEOREM FreshProxiesServed == LoadSpec => []FreshProxiesConnected
<1>1. ASSUME LInv PROVE FreshProxiesConnected
  <2>. SUFFICES ASSUME Loaded, NEW i \in DOMAIN file
                PROVE  /\ getProxyId(file[i].name) # NONE
                       /\ \A p \in NewProxies :
                             proxy[p].name = file[i].name /\ Sole(p, file[i].addr) =>
                                 \A k \in ToSet(file[i].connections) :
                                     \E c \in Own(p) : conn[c].remoteAddr = k.remote
    BY DEF FreshProxiesConnected, Sole
  <2>1. /\ EntriesNamed /\ PassedConnected /\ TypeOK /\ pc = "idle"
    BY <1>1 DEF LInv, Progress, SoundRegistry, RInv, Inv, Loaded
  <2>2. i \in 1 .. proxyNum
    <3>1. file \in Seq(ProxyEntry) /\ proxyNum = Len(file)
      BY <1>1, <2>1 DEF LInv, LoadTypeOK, Position
    <3>. QED  BY <3>1
  <2>3. getProxyId(file[i].name) # NONE
    BY <2>1, <2>2, NameFinds DEF EntriesNamed
  <2>4. ASSUME NEW p \in NewProxies, proxy[p].name = file[i].name,
               Sole(p, file[i].addr), NEW k \in ToSet(file[i].connections)
        PROVE  \E c \in Own(p) : conn[c].remoteAddr = k.remote
    <3>1. PICK m \in DOMAIN file[i].connections : file[i].connections[m] = k
      BY DEF ToSet
    <3>2. Passed(i, m)
      BY <2>1 DEF Passed
    <3>. QED  BY <2>1, <2>2, <2>4, <3>1, <3>2 DEF PassedConnected
  <2>. QED  BY <2>3, <2>4
<1>. QED  BY <1>1, LoadInitInv, LoadNextKeepsInv, PTL DEF LoadSpec

-----------------------------------------------------------------------------
(* The loops come to an end.  That they run is a matter of fairness, and of *)
(* TLC; that none of their turns leaves as much to do as before is not.    *)

\* What the outer loop has to do, and what the inner loop has: two steps a connection.
EntriesLeft ==
    IF pc = "idle" \/ fault # "none" THEN 0
    ELSE 2 * (Len(file) - proxyNum) + (IF pc = "proxies" THEN 1 ELSE 2)
ConnectionsLeft ==
    (IF pc = "connections" /\ connNum < Len(file[proxyNum].connections)
     THEN 2 * (Len(file[proxyNum].connections) - connNum) ELSE 0)
    + (IF call = NoCall THEN 0 ELSE 1)

Nearer ==
    \/ EntriesLeft' < EntriesLeft
    \/ EntriesLeft' = EntriesLeft /\ ConnectionsLeft' < ConnectionsLeft

LEMMA LeftIsNat ==
    ASSUME LInv
    PROVE  /\ EntriesLeft \in Nat /\ ConnectionsLeft \in Nat
           /\ Len(file) \in Nat /\ proxyNum \in Nat /\ connNum \in Nat
           /\ pc = "connections" => Len(file[proxyNum].connections) \in Nat
<1>1. /\ Len(file) \in Nat /\ proxyNum \in 0 .. Len(file) /\ connNum \in Nat
      /\ pc \in {"idle", "proxies", "connections"}
  BY DEF LInv, LoadTypeOK
<1>2. ASSUME pc = "connections" PROVE Len(file[proxyNum].connections) \in Nat
  <2>1. proxyNum \in DOMAIN file
    BY <1>1, <1>2 DEF LInv, LoadTypeOK, Position
  <2>. QED  BY <2>1, EntryTypes DEF LInv
<1>3. EntriesLeft \in Nat
  BY <1>1 DEF EntriesLeft
<1>4. ConnectionsLeft \in Nat
  <2>1. PICK h \in 0 .. 1 : h = IF call = NoCall THEN 0 ELSE 1
    OBVIOUS
  <2>2. CASE pc = "connections" /\ connNum < Len(file[proxyNum].connections)
    <3>1. PICK n \in Nat : n = Len(file[proxyNum].connections)
      BY <1>2, <2>2
    <3>2. PICK m \in Nat : m = connNum
      BY <1>1
    <3>3. ConnectionsLeft = 2 * (n - m) + h /\ m < n
      BY <2>1, <2>2, <3>1, <3>2, Zenon DEF ConnectionsLeft
    <3>4. 2 * (n - m) + h \in Nat
      BY ONLY n \in Nat, m \in Nat, <3>3, <2>1, h \in 0 .. 1
    <3>. QED  BY <3>3, <3>4
  <2>3. CASE ~ (pc = "connections" /\ connNum < Len(file[proxyNum].connections))
    <3>1. ConnectionsLeft = 0 + h
      BY <2>1, <2>3, Zenon DEF ConnectionsLeft
    <3>. QED  BY <2>1, <3>1
  <2>. QED  BY <2>2, <2>3
<1>. QED  BY <1>1, <1>2, <1>3, <1>4

LEMMA FaultEnds ==
    ASSUME pc # "idle", fault = "none", fault' # "none", LInv
    PROVE  Nearer
<1>1. EntriesLeft' = 0
  BY DEF EntriesLeft
<1>2. EntriesLeft > 0
  <2>1. Len(file) \in Nat /\ proxyNum \in 0 .. Len(file)
    BY DEF LInv, LoadTypeOK
  <2>. QED  BY <2>1 DEF EntriesLeft
<1>. QED  BY <1>1, <1>2, LeftIsNat DEF Nearer

LEMMA OuterLoopNearer ==
    ASSUME LInv, LoadProxy \/ LoadNextProxy \/ LoadEnd, fault' = "none"
    PROVE  Nearer
<1>1. /\ fault = "none" /\ file' = file
      /\ Len(file) \in Nat /\ proxyNum \in 0 .. Len(file)
  BY DEF LoadProxy, LoadNextProxy, LoadEnd, LInv, LoadTypeOK
<1>2. CASE LoadProxy
  <2>1. pc = "proxies" /\ pc' = "connections" /\ proxyNum' = proxyNum + 1
    BY <1>2 DEF LoadProxy
  <2>2. /\ EntriesLeft = 2 * (Len(file) - proxyNum) + 1
        /\ EntriesLeft' = 2 * (Len(file) - (proxyNum + 1)) + 2
    BY <1>1, <2>1 DEF EntriesLeft
  <2>. QED  BY <1>1, <2>2 DEF Nearer
<1>3. CASE LoadNextProxy
  <2>1. pc = "connections" /\ pc' = "proxies" /\ proxyNum' = proxyNum
    BY <1>3 DEF LoadNextProxy
  <2>2. /\ EntriesLeft = 2 * (Len(file) - proxyNum) + 2
        /\ EntriesLeft' = 2 * (Len(file) - proxyNum) + 1
    BY <1>1, <2>1 DEF EntriesLeft
  <2>. QED  BY <1>1, <2>2 DEF Nearer
<1>4. CASE LoadEnd
  <2>1. pc = "proxies" /\ pc' = "idle"
    BY <1>4 DEF LoadEnd
  <2>2. EntriesLeft = 2 * (Len(file) - proxyNum) + 1 /\ EntriesLeft' = 0
    BY <1>1, <2>1 DEF EntriesLeft
  <2>. QED  BY <1>1, <2>2 DEF Nearer
<1>. QED  BY <1>2, <1>3, <1>4

LEMMA InnerLoopNearer ==
    ASSUME LInv, LoadConnection \/ LoadSubscribe, fault' = "none"
    PROVE  Nearer
<1>. DEFINE n == Len(file[proxyNum].connections)
<1>1. /\ fault = "none" /\ pc = "connections" /\ UNCHANGED <<pc, file, proxyNum>>
  BY DEF LoadConnection, LoadSubscribe, Subscribe
<1>2. EntriesLeft' = EntriesLeft
  BY <1>1 DEF EntriesLeft
<1>3. /\ n \in Nat /\ connNum \in Nat
      /\ ConnectionsLeft = (IF connNum < n THEN 2 * (n - connNum) ELSE 0)
                           + (IF call = NoCall THEN 0 ELSE 1)
      /\ ConnectionsLeft' = (IF connNum' < n THEN 2 * (n - connNum') ELSE 0)
                            + (IF call' = NoCall THEN 0 ELSE 1)
  BY <1>1, LeftIsNat DEF ConnectionsLeft
<1>4. CASE LoadConnection
  <2>1. connNum < n /\ connNum' = connNum + 1 /\ call = NoCall
    BY <1>4 DEF LoadConnection
  <2>. HIDE DEF n
  <2>. QED  BY <1>2, <1>3, <2>1 DEF Nearer
<1>5. CASE LoadSubscribe
  <2>1. connNum' = connNum /\ call # NoCall /\ call' = NoCall
    BY <1>5, OpIsCall DEF LoadSubscribe, Subscribe
  <2>. HIDE DEF n
  <2>. QED  BY <1>2, <1>3, <2>1 DEF Nearer
<1>. QED  BY <1>4, <1>5

\* While a load is in its loops, and nothing went wrong, every step the bus takes is
\* one of the loops and leaves less to do, of the outer loop or else of the inner
\* one: RTIDNP3_MessageBus_loadConfig circles on no file, with entries that are
\* skipped, refused or created.
THEOREM LoadNeverCircles ==
    LoadSpec => /\ [](EntriesLeft \in Nat /\ ConnectionsLeft \in Nat)
                /\ [][pc # "idle" /\ fault = "none" => Nearer]_loadVars
<1>1. ASSUME LInv, LoadNext, pc # "idle", fault = "none" PROVE Nearer
  <2>1. ~ (LoadStart \/ LoadParseError \/ DeletePlugin)
    BY <1>1 DEF LoadStart, LoadParseError, DeletePlugin
  <2>2. ~ Destructors
    <3>1. busState = "up" /\ dying = Null
      BY <1>1, LoopsCallIdle
    <3>. QED  BY <3>1 DEF Destructors, DisposeConnection, DisposeProxy, DisposeBusProxy,
                          DisposeBus, LateAPDU
  <2>3. LoadStep
    BY <1>1, <2>1, <2>2 DEF LoadNext
  <2>4. CASE LoadIncomplete
    <3>1. fault' # "none"
      BY <2>4 DEF LoadIncomplete
    <3>. QED  BY <1>1, <3>1, FaultEnds
  <2>5. CASE fault' # "none"
    BY <1>1, <2>5, FaultEnds
  <2>6. CASE fault' = "none" /\ (LoadProxy \/ LoadNextProxy \/ LoadEnd)
    BY <1>1, <2>6, OuterLoopNearer
  <2>7. CASE fault' = "none" /\ (LoadConnection \/ LoadSubscribe)
    BY <1>1, <2>7, InnerLoopNearer
  <2>. QED  BY <2>3, <2>4, <2>5, <2>6, <2>7 DEF LoadStep
<1>2. LInv /\ [LoadNext]_loadVars => [pc # "idle" /\ fault = "none" => Nearer]_loadVars
  BY <1>1
<1>3. LInv => EntriesLeft \in Nat /\ ConnectionsLeft \in Nat
  BY LeftIsNat
<1>. QED  BY <1>2, <1>3, LoadInitInv, LoadNextKeepsInv, PTL DEF LoadSpec

-----------------------------------------------------------------------------
(* Loading, seen from outside: the directory gains nodes and routes, until *)
(* the plugin closes it.                                                   *)

\* Loading files adds nodes and routes to the directory one at a time, and nothing
\* else: whatever a file says, and wherever a load fails, a client sees no node or
\* route change or go until DNP3Adapter_delete closes the bus with the plugin.
THEOREM LoadsFillTheDirectory == LoadSpec => ImplementsDirectory
<1>1. LoadInit => Dir!DirectoryInit
  BY InitIsEmpty DEF LoadInit
<1>2. LInv /\ [LoadNext]_loadVars => [Dir!DirectoryNext]_(Dir!directory)
  <2>. SUFFICES ASSUME LInv, [LoadNext]_loadVars
                PROVE  [Dir!DirectoryNext]_(Dir!directory)
    OBVIOUS
  <2>1. CASE UNCHANGED <<registry, busState>>
    BY <2>1, SameDirectory DEF registry
  <2>2. CASE [RepositoryNext]_vars /\ ~ UNCHANGED <<registry, busState>>
    <3>1. fault = "none"
      BY <2>2 DEF LoadNext, LoadStep, LoadStart, LoadParseError, LoadProxy, LoadIncomplete,
           LoadConnection, LoadSubscribe, Subscribe, LoadNextProxy, LoadEnd, DeletePlugin,
           BusDelete, Idle, Destructors, DisposeConnection, DisposeProxy, DisposeBusProxy,
           DisposeBus, LateAPDU, loadVars, vars, destruction
    <3>2. RInv
      BY <3>1 DEF LInv, SoundRegistry
    <3>. QED  BY <2>2, <3>2, RepositoryNextKeepsInv, RepositoryNextShows
  <2>. QED  BY <2>1, <2>2, LoadNextOnBus
<1>. QED  BY <1>1, <1>2, LoadInitInv, LoadNextKeepsInv, PTL
          DEF LoadSpec, ImplementsDirectory, Dir!DirectorySpec
=============================================================================
