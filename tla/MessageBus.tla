----------------------------- MODULE MessageBus -----------------------------
(***************************************************************************)
(* The registry of the DNP3 message bus: which Proxy and Connection        *)
(* objects exist, which arrays point to them, and what each operation of   *)
(* the C API (MessageBusC.cpp over MessageBus.cpp, Proxy.cpp and           *)
(* Connection.cpp) does to both.                                           *)
(*                                                                         *)
(* Two facts of the code make the registry delicate.  An id is the length  *)
(* of the array when the object was created and is never renumbered, while *)
(* every removal compacts the array; and the bus and each proxy keep an    *)
(* array of the same connections, changed by different operations.         *)
(*                                                                         *)
(* The operations run one at a time.  A proxy is created in one step; a    *)
(* connection is created and deleted in two, for its stack is open in      *)
(* OpenDNP3 before the bus subscribes to it, and still open after the bus  *)
(* has unsubscribed.  The destructors, whose loops remove from the array   *)
(* they walk, are one step per iteration.  Using a freed object, a slot    *)
(* past the end of an array or a null stack is undefined behaviour: it     *)
(* sets fault, and nothing happens after it.                               *)
(***************************************************************************)
EXTENDS Arrays

CONSTANTS
    ProxyObjs,   \* Proxy objects the heap can hand out, each once
    ConnObjs,    \* Connection objects the heap can hand out, each once
    Names,       \* proxy names
    Addrs,       \* DNP3 addresses (local and remote)
    Ports,       \* names of physical ports
    Null         \* the null pointer

ASSUME NullAssumption == Null \notin ProxyObjs \cup ConnObjs
ASSUME HeapAssumption == ProxyObjs \cap ConnObjs = {}

VARIABLES
    proxies,      \* MessageBus::proxies, the array of Proxy*
    connections,  \* MessageBus::connections, the array of Connection*
    proxy,        \* the Proxy objects allocated so far, with their fields
    conn,         \* the Connection objects allocated so far
    live,         \* the objects not deleted yet
    stacks,       \* connections whose APDU proxy stack is open in OpenDNP3
    listening,    \* connections whose APDU proxy calls back into the bus
    call,         \* the creation or deletion of a connection that is half done
    busState,     \* "up", "closing" in ~MessageBus, then "deleted"
    busIndex,     \* _el_i of the loop in ~MessageBus
    dying,        \* the Proxy whose destructor runs, or Null
    dyingIndex,   \* _el_i of the loop in ~Proxy
    fault         \* the undefined behaviour met, or "none"

registry == <<proxies, connections, proxy, conn, live, stacks, listening, call>>
destruction == <<busState, busIndex, dying, dyingIndex>>
vars == <<registry, destruction, fault>>

NONE == -1       \* RTIDNP3_PROXY_ID_NONE and RTIDNP3_CONNECTION_ID_NONE

ProxyRec == [id : Nat, name : Names, localAddr : Addrs, ports : SUBSET Ports,
             connections : Seq(ConnObjs)]
ConnRec == [id : Nat, proxy : ProxyObjs, remoteAddr : Addrs]
Calls == [op : {"new", "delete"}, conn : ConnObjs, id : Nat]
NoCall == [op |-> "none", conn |-> Null, id |-> 0]
Faults == {"none", "badProxyId", "unknownPort", "nameInUse", "freedConnection",
           "freedProxy", "noStack", "freedBus"}

Extend(f, o, rec) ==
    [x \in DOMAIN f \cup {o} |-> IF x = o THEN rec ELSE f[x]]

-----------------------------------------------------------------------------
(* Lookups.                                                                *)

ProxyAt(id) == proxies[id + 1]
ConnectionAt(id) == connections[id + 1]

getProxyId(name) ==
    LET hits == {i \in Indices(proxies) : proxy[ProxyAt(i)].name = name}
    IN  IF hits = {} THEN NONE
        ELSE proxy[ProxyAt(Min(hits))].id

\* Whether a connection carries src -> dest: its proxy's address and its own.
Carries(c, src, dest) ==
    /\ proxy[conn[c].proxy].localAddr = src
    /\ conn[c].remoteAddr = dest

\* The lookup of the configuration loader: the bus array, last match.
getConnectionId(src, dest) ==
    LET hits == {i \in Indices(connections) : Carries(ConnectionAt(i), src, dest)}
    IN  IF hits = {} THEN NONE
        ELSE conn[ConnectionAt(Max(hits))].id

\* Positions in the array of a proxy of the connections to a remote address.
OwnTo(p, dest) ==
    {k \in Indices(proxy[p].connections) :
        conn[proxy[p].connections[k + 1]].remoteAddr = dest}

\* Mutant of GetConnection: only the first proxy with the address is searched.
FirstProxyGetConnection(src, dest) ==
    LET hits == {i \in Indices(proxies) : proxy[ProxyAt(i)].localAddr = src}
        p == ProxyAt(Min(hits))
    IN  IF hits = {} THEN Null
        ELSE IF OwnTo(p, dest) = {} THEN Null
        ELSE proxy[p].connections[Max(OwnTo(p, dest)) + 1]

\* The lookup of Send: the first proxy with the address that has a match, and
\* the last match in that proxy's own array.
GetConnection(src, dest) ==
    LET hits == {i \in Indices(proxies) : /\ proxy[ProxyAt(i)].localAddr = src
                                          /\ OwnTo(ProxyAt(i), dest) # {}}
        p == ProxyAt(Min(hits))
    IN  IF hits = {} THEN Null
        ELSE proxy[p].connections[Max(OwnTo(p, dest)) + 1]

-----------------------------------------------------------------------------
(* Creation.                                                               *)

\* Mutant of NewProxy: the id is the size of the array after the insertion.
LateIdNewProxy(p, name, addr, ports) ==
    /\ p \in ProxyObjs \ DOMAIN proxy
    /\ proxy' = Extend(proxy, p, [id |-> Len(proxies) + 1, name |-> name,
                                  localAddr |-> addr, ports |-> ports,
                                  connections |-> << >>])
    /\ proxies' = Append(proxies, p)
    /\ live' = live \cup {p}
    /\ UNCHANGED <<connections, conn, stacks, listening, call, fault>>

NewProxy(p, name, addr, ports) ==
    /\ p \in ProxyObjs \ DOMAIN proxy
    /\ proxy' = Extend(proxy, p, [id |-> Len(proxies), name |-> name,
                                  localAddr |-> addr, ports |-> ports,
                                  connections |-> << >>])
    /\ proxies' = Append(proxies, p)
    /\ live' = live \cup {p}
    /\ UNCHANGED <<connections, conn, stacks, listening, call, fault>>

\* OpenDNP3 opens a stack under a name that the proxy's stack manager does not use
\* yet; the name is made from the connection's id.
NameInUse(p, id) == \E c \in stacks : conn[c].proxy = p /\ conn[c].id = id

Fail(kind) == fault' = kind /\ UNCHANGED registry

\* Mutant of OpenConnection: the id counts the connections of the proxy, not of the
\* bus.
OwnIdOpenConnection(c, p, connId, remote) ==
    /\ c \in ConnObjs \ DOMAIN conn
    /\ conn' = Extend(conn, c, [id |-> Len(proxy[p].connections), proxy |-> p,
                                remoteAddr |-> remote])
    /\ proxy' = [proxy EXCEPT ![p].connections = Append(@, c)]
    /\ live' = live \cup {c}
    /\ stacks' = stacks \cup {c}
    /\ call' = [op |-> "new", conn |-> c, id |-> connId]
    /\ UNCHANGED <<proxies, connections, listening, fault>>

\* Proxy::NewConnection: the object opens its stack, under the id it is given, and
\* its proxy adds it to its own array.
OpenConnection(c, p, connId, remote) ==
    /\ c \in ConnObjs \ DOMAIN conn
    /\ conn' = Extend(conn, c, [id |-> connId, proxy |-> p, remoteAddr |-> remote])
    /\ proxy' = [proxy EXCEPT ![p].connections = Append(@, c)]
    /\ live' = live \cup {c}
    /\ stacks' = stacks \cup {c}
    /\ call' = [op |-> "new", conn |-> c, id |-> connId]
    /\ UNCHANGED <<proxies, connections, listening, fault>>

\* MessageBus::NewConnection.  NONE makes no connection; any other id is used as an
\* index, unchecked.  A stack that is refused, because its port is none of the
\* proxy's or its name is in use, is a null pointer, to which the bus subscribes.
NewConnection(c, id, remote, port) ==
    LET p == ProxyAt(id)
        connId == Len(connections)
    IN  IF id = NONE THEN UNCHANGED <<registry, fault>>
        ELSE IF id \notin Indices(proxies) THEN Fail("badProxyId")
        ELSE IF port \notin proxy[p].ports THEN Fail("unknownPort")
        ELSE IF NameInUse(p, connId) THEN Fail("nameInUse")
        ELSE OpenConnection(c, p, connId, remote)

\* Mutant of Subscribe: the bus does not subscribe to the new APDU proxy.
DeafSubscribe ==
    /\ fault = "none" /\ call.op = "new"
    /\ connections' = Append(connections, call.conn)
    /\ call' = NoCall
    /\ UNCHANGED <<proxies, proxy, conn, live, stacks, listening, destruction, fault>>

\* The rest of MessageBus::NewConnection.
Subscribe ==
    /\ fault = "none" /\ call.op = "new"
    /\ connections' = Append(connections, call.conn)
    /\ listening' = listening \cup {call.conn}
    /\ call' = NoCall
    /\ UNCHANGED <<proxies, proxy, conn, live, stacks, destruction, fault>>

-----------------------------------------------------------------------------
(* Deletion.                                                               *)

\* Positions in p's own array of the connections with an id.
OwnWithId(p, id) ==
    {i \in Indices(proxy[p].connections) :
        conn[proxy[p].connections[i + 1]].id = id}

\* Mutant of ProxyDeleteConnection: the array keeps the deleted connection.
KeepProxyDeleteConnection(p, id) ==
    LET gone == IF OwnWithId(p, id) = {} THEN {}
                ELSE {proxy[p].connections[Min(OwnWithId(p, id)) + 1]}
    IN  /\ live' = live \ gone
        /\ stacks' = stacks \ gone
        /\ listening' = listening \ gone
        /\ UNCHANGED proxy

\* Proxy::DeleteConnection: the first connection of p with this id, if any, is
\* removed and deleted, and its stack closed, which then calls nobody.
ProxyDeleteConnection(p, id) ==
    IF OwnWithId(p, id) = {}
    THEN UNCHANGED <<proxy, live, stacks, listening>>
    ELSE LET i == Min(OwnWithId(p, id))
             c == proxy[p].connections[i + 1]
         IN  /\ proxy' = [proxy EXCEPT ![p].connections = RemoveByIndex(@, i)]
             /\ live' = live \ {c}
             /\ stacks' = stacks \ {c}
             /\ listening' = listening \ {c}

\* Mutant of DeleteConnection: the array of the bus keeps the connection.
KeepDeleteConnection(id) ==
    LET c == ConnectionAt(id)
    IN  IF id \notin Indices(connections) THEN UNCHANGED <<registry, fault>>
        ELSE IF c \notin live THEN Fail("freedConnection")
        ELSE /\ listening' = listening \ {c}
             /\ call' = [op |-> "delete", conn |-> c, id |-> id]
             /\ UNCHANGED <<proxies, connections, proxy, conn, live, stacks, fault>>

\* MessageBus::DeleteConnection, until the bus has unsubscribed: the id is an index
\* into the array of the bus.
DeleteConnection(id) ==
    LET c == ConnectionAt(id)
    IN  IF id \notin Indices(connections) THEN UNCHANGED <<registry, fault>>
        ELSE IF c \notin live THEN Fail("freedConnection")
        ELSE IF c \notin stacks THEN Fail("noStack")
        ELSE IF conn[c].proxy \notin live THEN Fail("freedProxy")
        ELSE /\ connections' = RemoveByIndex(connections, id)
             /\ listening' = listening \ {c}
             /\ call' = [op |-> "delete", conn |-> c, id |-> id]
             /\ UNCHANGED <<proxies, proxy, conn, live, stacks, fault>>

\* The rest of it: the same id is looked for in the array of the proxy, and what
\* has it is deleted, which closes its stack.
CloseStack ==
    /\ fault = "none" /\ call.op = "delete"
    /\ ProxyDeleteConnection(conn[call.conn].proxy, call.id)
    /\ call' = NoCall
    /\ UNCHANGED <<proxies, connections, conn, destruction, fault>>

\* Mutant of DeleteProxy: the array of the bus keeps the deleted proxy.
KeepDeleteProxy(id) ==
    IF id \notin Indices(proxies)
    THEN UNCHANGED <<registry, dying, dyingIndex, fault>>
    ELSE /\ dying' = ProxyAt(id)
         /\ dyingIndex' = 0
         /\ UNCHANGED <<registry, fault>>

\* MessageBus::DeleteProxy up to the destructor, which runs in the steps below.
DeleteProxy(id) ==
    IF id \notin Indices(proxies)
    THEN UNCHANGED <<registry, dying, dyingIndex, fault>>
    ELSE /\ proxies' = RemoveByIndex(proxies, id)
         /\ dying' = ProxyAt(id)
         /\ dyingIndex' = 0
         /\ UNCHANGED <<connections, proxy, conn, live, stacks, listening, call,
                        fault>>

\* One iteration of the loop of ~Proxy: it passes the index as a connection id.
DisposeConnection ==
    /\ fault = "none"
    /\ dying # Null
    /\ dyingIndex < Len(proxy[dying].connections)
    /\ ProxyDeleteConnection(dying, dyingIndex)
    /\ dyingIndex' = dyingIndex + 1
    /\ UNCHANGED <<proxies, connections, conn, call, busState, busIndex, dying, fault>>

\* Mutant of DisposeProxy: the ports are not removed.
OpenDisposeProxy ==
    /\ fault = "none"
    /\ dying # Null
    /\ dyingIndex >= Len(proxy[dying].connections)
    /\ live' = live \ {dying}
    /\ dying' = Null
    /\ dyingIndex' = 0
    /\ UNCHANGED <<proxies, connections, proxy, conn, stacks, listening, call,
                   busState, busIndex, fault>>

\* The end of ~Proxy: the ports are removed, which closes the stacks left, and
\* the stack manager and the proxy are freed.
DisposeProxy ==
    /\ fault = "none"
    /\ dying # Null
    /\ dyingIndex >= Len(proxy[dying].connections)
    /\ LET left == {c \in stacks : conn[c].proxy = dying}
       IN  /\ stacks' = stacks \ left
           /\ listening' = listening \ left
    /\ live' = live \ {dying}
    /\ dying' = Null
    /\ dyingIndex' = 0
    /\ UNCHANGED <<proxies, connections, proxy, conn, call, busState, busIndex, fault>>

\* Mutant of DisposeBusProxy: the index goes the wrong way.
DownDisposeBusProxy ==
    /\ fault = "none"
    /\ busState = "closing"
    /\ dying = Null
    /\ busIndex < Len(proxies)
    /\ DeleteProxy(busIndex)
    /\ busIndex' = busIndex - 1
    /\ UNCHANGED busState

\* One iteration of the loop of ~MessageBus, and its end.
DisposeBusProxy ==
    /\ fault = "none"
    /\ busState = "closing"
    /\ dying = Null
    /\ busIndex < Len(proxies)
    /\ DeleteProxy(busIndex)
    /\ busIndex' = busIndex + 1
    /\ UNCHANGED busState

DisposeBus ==
    /\ fault = "none"
    /\ busState = "closing"
    /\ dying = Null
    /\ busIndex >= Len(proxies)
    /\ busState' = "deleted"
    /\ UNCHANGED <<registry, busIndex, dying, dyingIndex, fault>>

\* An APDU proxy that is still subscribed calls a bus that was freed.
LateAPDU ==
    /\ fault = "none"
    /\ busState = "deleted"
    /\ listening # {}
    /\ fault' = "freedBus"
    /\ UNCHANGED <<registry, destruction>>

-----------------------------------------------------------------------------
(* Clients.                                                                *)

\* A client calls the API when no call is in progress.
Idle == fault = "none" /\ busState = "up" /\ dying = Null /\ call = NoCall

CreateProxy ==
    /\ Idle
    /\ \E p \in ProxyObjs, name \in Names, addr \in Addrs, ports \in SUBSET Ports :
          NewProxy(p, name, addr, ports)
    /\ UNCHANGED destruction

\* The proxy is named by the id that createProxy returned for one of ps; its ports
\* need not have the one of the connection.
CreateConnection(ps) ==
    /\ Idle
    /\ \E c \in ConnObjs, p \in ps, remote \in Addrs, port \in Ports :
          NewConnection(c, proxy[p].id, remote, port)
    /\ UNCHANGED destruction

BusDelete ==
    /\ Idle
    /\ busState' = "closing"
    /\ busIndex' = 0
    /\ UNCHANGED <<registry, dying, dyingIndex, fault>>

\* Any client of the C API: every id it was ever given, in any order.
CloseConnection ==
    /\ Idle
    /\ \E c \in DOMAIN conn : DeleteConnection(conn[c].id)
    /\ UNCHANGED destruction

RemoveProxy ==
    /\ Idle
    /\ \E p \in DOMAIN proxy : DeleteProxy(proxy[p].id)
    /\ UNCHANGED <<busState, busIndex>>

\* The clients of this repository: the adapter only creates, and the error
\* paths of MessageBusTester close the connection, then delete the proxy, that
\* were created last.
CloseLastConnection ==
    /\ Idle
    /\ connections # << >>
    /\ DeleteConnection(conn[Last(connections)].id)
    /\ UNCHANGED destruction

RemoveLastProxy ==
    /\ Idle
    /\ proxies # << >>
    /\ LET p == Last(proxies)
       IN  /\ \A k \in 1 .. Len(connections) : conn[connections[k]].proxy # p
           /\ DeleteProxy(proxy[p].id)
    /\ UNCHANGED <<busState, busIndex>>

-----------------------------------------------------------------------------
Init ==
    /\ proxies = << >> /\ connections = << >>
    /\ proxy = [p \in {} |-> Null] /\ conn = [c \in {} |-> Null]
    /\ live = {} /\ stacks = {} /\ listening = {} /\ call = NoCall
    /\ busState = "up" /\ busIndex = 0
    /\ dying = Null /\ dyingIndex = 0
    /\ fault = "none"

Destructors ==
    DisposeConnection \/ DisposeProxy \/ DisposeBusProxy \/ DisposeBus \/ LateAPDU

CallStep == Subscribe \/ CloseStack

Next == CreateProxy \/ CreateConnection(DOMAIN proxy) \/ BusDelete \/ CallStep
        \/ Destructors \/ CloseConnection \/ RemoveProxy

RepositoryNext == CreateProxy \/ CreateConnection(ToSet(proxies)) \/ BusDelete
                  \/ CallStep \/ Destructors \/ CloseLastConnection \/ RemoveLastProxy

Spec == Init /\ [][Next]_vars
RepositorySpec == Init /\ [][RepositoryNext]_vars

-----------------------------------------------------------------------------
(* Properties.                                                             *)

\* The type of the state: arrays hold allocated objects, objects hold fields of
\* their type, and nothing that was never allocated is live.
TypeOK ==
    /\ DOMAIN proxy \subseteq ProxyObjs /\ proxy \in [DOMAIN proxy -> ProxyRec]
    /\ DOMAIN conn \subseteq ConnObjs /\ conn \in [DOMAIN conn -> ConnRec]
    /\ proxies \in Seq(DOMAIN proxy) /\ connections \in Seq(DOMAIN conn)
    /\ live \subseteq DOMAIN proxy \cup DOMAIN conn
    /\ stacks \subseteq DOMAIN conn /\ listening \subseteq DOMAIN conn
    /\ call \in Calls \cup {NoCall}
    /\ call # NoCall => call.conn \in DOMAIN conn
    /\ busState \in {"up", "closing", "deleted"} /\ busIndex \in Nat
    /\ dying \in DOMAIN proxy \cup {Null} /\ dyingIndex \in Nat
    /\ fault \in Faults

LiveProxies == live \cap DOMAIN proxy
Own(p) == ToSet(proxy[p].connections)

\* Whatever ids a client passes, and in the middle of every destructor, the bus
\* array points to live proxies, each once, and the array of a live proxy points
\* to live connections with an open stack, each once, that point back to it
\* (DeleteProxy and Proxy::DeleteConnection remove a pointer before they delete).
RegistryLive ==
    /\ IsInjective(proxies)
    /\ ToSet(proxies) \subseteq LiveProxies
    /\ \A p \in LiveProxies :
          /\ IsInjective(proxy[p].connections)
          /\ Own(p) \subseteq live \cap stacks
          /\ \A c \in Own(p) : conn[c].proxy = p

\* An open stack is the stack of a connection some live proxy still has in its
\* array, so that deleting the proxy can close it, and that proxy uses its name
\* for no other open stack; only open stacks call back into the bus.
StacksOwned ==
    /\ \A c \in stacks : conn[c].proxy \in live /\ c \in Own(conn[c].proxy)
    /\ \A c, d \in stacks : conn[c].proxy = conn[d].proxy /\ conn[c].id = conn[d].id
                              => c = d
    /\ listening \subseteq stacks

\* Send never picks a freed object: what GetConnection finds for an address pair
\* is a live connection with an open stack, of a proxy of the bus, for that pair.
SendTargetsUsable ==
    \A src, dest \in Addrs :
        LET c == GetConnection(src, dest)
        IN  c # Null => /\ c \in live /\ c \in stacks
                        /\ conn[c].proxy \in ToSet(proxies)
                        /\ Carries(c, src, dest)

\* An id returned by createProxy or createConnection still names its object when
\* the client passes it back: MessageBus uses it as an index into its arrays.
HandlesResolve ==
    Idle => /\ \A i \in Indices(proxies) : proxy[ProxyAt(i)].id = i
            /\ \A i \in Indices(connections) : conn[ConnectionAt(i)].id = i

\* The two records of the connections agree: while the bus is up, its array holds
\* exactly the connections in the arrays of its proxies, each once.
RegistriesAgree ==
    Idle => /\ IsInjective(connections)
            /\ ToSet(connections) = UNION {Own(p) : p \in ToSet(proxies)}

\* A stack is open and does not call back into the bus only during the call that
\* creates or deletes its connection; between calls the bus hears every open stack,
\* and these are the stacks of the connections it knows.
EveryStackHeard ==
    /\ listening \subseteq stacks /\ stacks \ listening \subseteq {call.conn}
    /\ Idle => stacks = ToSet(connections)

\* The lookup of the loader (does this connection exist?) and the lookup of Send
\* (which connection carries this APDU?) agree on which address pairs exist.
LookupsAgree ==
    Idle => \A src, dest \in Addrs :
                (getConnectionId(src, dest) = NONE) = (GetConnection(src, dest) = Null)

\* No operation of a client that closes last what it created last touches a freed
\* object or a slot past the end of an array; the only null stack it meets is that
\* of a connection on a port its proxy does not have.
NoFaultWhileUp == fault \in {"none", "unknownPort", "freedBus"}

\* Once the bus is deleted no APDU proxy calls back into it.
NoLateCallback == fault # "freedBus"
-----------------------------------------------------------------------------
(* The directory the clients of the bus see, until it is deleted.          *)

Up == busState = "up"
Nodes == IF Up THEN [k \in 1 .. Len(proxies) |->
                        [id |-> proxy[proxies[k]].id,
                         addr |-> proxy[proxies[k]].localAddr]]
               ELSE << >>
RouteOf(c) == [id |-> conn[c].id, node |-> proxy[conn[c].proxy].id,
               dest |-> conn[c].remoteAddr]
Routes == IF Up THEN [k \in 1 .. Len(connections) |-> RouteOf(connections[k])]
                ELSE << >>
Named == [n \in Names |-> IF Up THEN getProxyId(n) ELSE NONE]
Found == {pair \in Addrs \X Addrs : Up /\ getConnectionId(pair[1], pair[2]) # NONE}
Sendable == {pair \in Addrs \X Addrs : Up /\ GetConnection(pair[1], pair[2]) # Null}
Heard == {pair \in Addrs \X Addrs : Up /\ \E c \in listening : Carries(c, pair[1], pair[2])}
Hand == IF call = NoCall THEN [op |-> "none"]
        ELSE [op |-> call.op, route |-> RouteOf(call.conn)]

Dir == INSTANCE Directory WITH open <- Up, nodes <- Nodes, routes <- Routes,
                               named <- Named, found <- Found,
                               sendable <- Sendable, heard <- Heard, hand <- Hand

\* Used as this repository uses it, the bus is the directory of Directory.tla:
\* whatever its arrays, their ids, their lookups and the subscriptions of the bus
\* do in an operation, and in every step of a destructor, no client can tell it
\* from one table of routes.
ImplementsDirectory == Dir!DirectorySpec
=============================================================================
