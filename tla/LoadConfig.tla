----------------------------- MODULE LoadConfig -----------------------------
(***************************************************************************)
(* Loading configuration files into the one message bus of the adapter     *)
(* (RTIDNP3_MessageBus_loadConfig, once per Routing Service connection     *)
(* that DNP3Adapter_createConnection opens).  A file is the sequence of    *)
(* its proxy entries, as the RTIDNP3_ExtConfig_extract functions number    *)
(* them; an iteration of either loop of loadConfig is a step, or two when  *)
(* it creates a connection, as in MessageBus.                              *)
(*                                                                         *)
(* The adapter never deletes a proxy or a connection: it loads files, and  *)
(* deletes the bus with the plugin.                                        *)
(***************************************************************************)
EXTENDS MessageBus

CONSTANT Files   \* the configuration files that can be loaded

\* A connection entry, and a proxy entry with its connections in order; an entry
\* is complete when no key that the loader converts is missing.
ConnEntry == [remote : Addrs, port : Ports, complete : BOOLEAN]
ProxyEntry == [name : Names, addr : Addrs, ports : SUBSET Ports,
               connections : Seq(ConnEntry), complete : BOOLEAN]

\* The keys of a proxy are made from its name, and those of a connection from the
\* name and the remote address: entries that share them have the same content.
Readable(f) ==
    \A i, j \in DOMAIN f :
        /\ f[i].name = f[j].name => f[i] = f[j]
        /\ \A k, m \in DOMAIN f[i].connections :
              f[i].connections[k].remote = f[i].connections[m].remote
              => f[i].connections[k] = f[i].connections[m]

ASSUME FilesAssumption == \A f \in Files : f \in Seq(ProxyEntry) /\ Readable(f)

VARIABLES
    pc,             \* "idle", or the loop of loadConfig that is running
    file,           \* the file loaded now, or last
    proxyNum,       \* the entry to extract next
    connNum,        \* the connection of the current entry to extract next
    proxyId,        \* the local proxyId, of the last proxy this load created
    lProxies,       \* *loadedProxies, the ids of the proxies created
    lConnections,   \* *loadedConnections
    before          \* the registry when the load began (history variable)

load == <<pc, file, proxyNum, connNum, proxyId, lProxies, lConnections, before>>
loadVars == <<vars, load>>

\* The heap hands out an object that was never used.
Unused(objs, f) == CHOOSE o \in objs \ DOMAIN f : TRUE

\* The bound of the heap: a file is loaded only if every proxy and every
\* connection it could create can be allocated.
HeapSuffices(f) ==
    /\ Len(f) <= Cardinality(ProxyObjs \ DOMAIN proxy)
    /\ SumFunction([i \in DOMAIN f |-> Len(f[i].connections)])
           <= Cardinality(ConnObjs \ DOMAIN conn)

-----------------------------------------------------------------------------
LoadStart ==
    /\ Idle /\ pc = "idle"
    /\ \E f \in Files : HeapSuffices(f) /\ file' = f
    /\ pc' = "proxies"
    /\ proxyNum' = 0 /\ connNum' = 0
    /\ proxyId' = NONE
    /\ lProxies' = << >> /\ lConnections' = << >>
    /\ before' = [proxy |-> proxy, proxies |-> proxies, connections |-> connections]
    /\ UNCHANGED vars

\* A file the parser rejects: the load ends with the lists empty, and reports
\* success to the adapter like any other.
LoadParseError ==
    /\ Idle /\ pc = "idle"
    /\ file' = << >>
    /\ proxyNum' = 0 /\ connNum' = 0
    /\ proxyId' = NONE
    /\ lProxies' = << >> /\ lConnections' = << >>
    /\ before' = [proxy |-> proxy, proxies |-> proxies, connections |-> connections]
    /\ UNCHANGED <<vars, pc>>

\* Mutant of LoadProxy: the id of a proxy that exists is remembered as 0.
ZeroLoadProxy ==
    LET e == file[proxyNum + 1]
    IN  /\ fault = "none" /\ pc = "proxies" /\ proxyNum < Len(file) /\ e.complete
        /\ IF getProxyId(e.name) = NONE
           THEN /\ NewProxy(Unused(ProxyObjs, proxy), e.name, e.addr, e.ports)
                /\ lProxies' = Append(lProxies, Len(proxies))
           ELSE UNCHANGED <<registry, fault, lProxies>>
        /\ proxyId' = IF getProxyId(e.name) = NONE THEN Len(proxies) ELSE 0
        /\ pc' = "connections" /\ connNum' = 0
        /\ proxyNum' = proxyNum + 1
        /\ UNCHANGED <<destruction, file, lConnections, before>>

\* Mutant of LoadProxy: the id of a proxy that exists is reported as loaded.
ReportLoadProxy ==
    LET e == file[proxyNum + 1]
    IN  /\ fault = "none" /\ pc = "proxies" /\ proxyNum < Len(file) /\ e.complete
        /\ IF getProxyId(e.name) = NONE
           THEN /\ NewProxy(Unused(ProxyObjs, proxy), e.name, e.addr, e.ports)
                /\ proxyId' = Len(proxies)
                /\ lProxies' = Append(lProxies, Len(proxies))
           ELSE /\ lProxies' = Append(lProxies, getProxyId(e.name))
                /\ UNCHANGED <<registry, fault, proxyId>>
        /\ pc' = "connections" /\ connNum' = 0
        /\ proxyNum' = proxyNum + 1
        /\ UNCHANGED <<destruction, file, lConnections, before>>

\* Mutant of LoadProxy: a proxy is created whether or not the bus has its name.
AlwaysLoadProxy ==
    LET e == file[proxyNum + 1]
    IN  /\ fault = "none" /\ pc = "proxies" /\ proxyNum < Len(file) /\ e.complete
        /\ NewProxy(Unused(ProxyObjs, proxy), e.name, e.addr, e.ports)
        /\ proxyId' = Len(proxies)
        /\ lProxies' = Append(lProxies, Len(proxies))
        /\ pc' = "connections" /\ connNum' = 0
        /\ proxyNum' = proxyNum + 1
        /\ UNCHANGED <<destruction, file, lConnections, before>>

\* The outer loop: the next proxy entry is created unless a proxy of the bus has
\* its name.  proxyId is assigned on creation only.
LoadProxy ==
    LET e == file[proxyNum + 1]
    IN  /\ fault = "none" /\ pc = "proxies" /\ proxyNum < Len(file) /\ e.complete
        /\ IF getProxyId(e.name) = NONE
           THEN /\ NewProxy(Unused(ProxyObjs, proxy), e.name, e.addr, e.ports)
                /\ proxyId' = Len(proxies)
                /\ lProxies' = Append(lProxies, Len(proxies))
           ELSE UNCHANGED <<registry, fault, proxyId, lProxies>>
        /\ pc' = "connections" /\ connNum' = 0
        /\ proxyNum' = proxyNum + 1
        /\ UNCHANGED <<destruction, file, lConnections, before>>

\* A key that the file does not have is converted all the same: strtol of a null
\* pointer, before the proxy or the connection of the entry is created.
LoadIncomplete ==
    /\ fault = "none" /\ call = NoCall
    /\ \/ /\ pc = "proxies" /\ proxyNum < Len(file)
          /\ ~ file[proxyNum + 1].complete
       \/ /\ pc = "connections" /\ connNum < Len(file[proxyNum].connections)
          /\ ~ file[proxyNum].connections[connNum + 1].complete
    /\ fault' = "missingKey"
    /\ UNCHANGED <<registry, destruction, load>>

\* Mutants of LoadConnection: a skipped connection does not advance the counter;
\* the pair is looked up the wrong way round; a connection that was not created is
\* reported.
StuckLoadConnection ==
    LET e == file[proxyNum]
        k == e.connections[connNum + 1]
        id == getConnectionId(e.addr, k.remote)
    IN  /\ fault = "none" /\ call = NoCall
        /\ pc = "connections" /\ connNum < Len(e.connections) /\ k.complete
        /\ connNum' = IF id = NONE THEN connNum + 1 ELSE connNum
        /\ IF id # NONE THEN UNCHANGED <<registry, fault>>
           ELSE NewConnection(Unused(ConnObjs, conn), proxyId, k.remote, k.port)
        /\ UNCHANGED <<destruction, pc, file, proxyNum, proxyId, lProxies, lConnections,
                       before>>

SwappedLoadConnection ==
    LET e == file[proxyNum]
        k == e.connections[connNum + 1]
    IN  /\ fault = "none" /\ call = NoCall
        /\ pc = "connections" /\ connNum < Len(e.connections) /\ k.complete
        /\ connNum' = connNum + 1
        /\ IF getConnectionId(k.remote, e.addr) # NONE THEN UNCHANGED <<registry, fault>>
           ELSE NewConnection(Unused(ConnObjs, conn), proxyId, k.remote, k.port)
        /\ UNCHANGED <<destruction, pc, file, proxyNum, proxyId, lProxies, lConnections,
                       before>>

NoneLoadConnection ==
    LET e == file[proxyNum]
        k == e.connections[connNum + 1]
    IN  /\ fault = "none" /\ call = NoCall
        /\ pc = "connections" /\ connNum < Len(e.connections) /\ k.complete
        /\ connNum' = connNum + 1
        /\ IF getConnectionId(e.addr, k.remote) # NONE THEN UNCHANGED <<registry, fault>>
           ELSE NewConnection(Unused(ConnObjs, conn), proxyId, k.remote, k.port)
        /\ lConnections' = IF call' = NoCall THEN Append(lConnections, NONE)
                           ELSE lConnections
        /\ UNCHANGED <<destruction, pc, file, proxyNum, proxyId, lProxies, before>>

\* The inner loop: the next connection of the entry is created, on the proxy
\* with proxyId, unless the bus has a connection for its pair of addresses.
LoadConnection ==
    LET e == file[proxyNum]
        k == e.connections[connNum + 1]
    IN  /\ fault = "none" /\ call = NoCall
        /\ pc = "connections" /\ connNum < Len(e.connections) /\ k.complete
        /\ connNum' = connNum + 1
        /\ IF getConnectionId(e.addr, k.remote) # NONE THEN UNCHANGED <<registry, fault>>
           ELSE NewConnection(Unused(ConnObjs, conn), proxyId, k.remote, k.port)
        /\ UNCHANGED <<destruction, pc, file, proxyNum, proxyId, lProxies, lConnections,
                       before>>

\* createConnection returns the id of the connection it has made.
LoadSubscribe ==
    /\ pc = "connections"
    /\ Subscribe
    /\ lConnections' = Append(lConnections, call.id)
    /\ UNCHANGED <<pc, file, proxyNum, connNum, proxyId, lProxies, before>>

\* No connection of this entry is left; no entry is left.
LoadNextProxy ==
    /\ fault = "none" /\ call = NoCall /\ pc = "connections"
    /\ connNum >= Len(file[proxyNum].connections)
    /\ pc' = "proxies"
    /\ UNCHANGED <<vars, file, proxyNum, connNum, proxyId, lProxies, lConnections, before>>

LoadEnd ==
    /\ fault = "none" /\ pc = "proxies" /\ proxyNum >= Len(file)
    /\ pc' = "idle"
    /\ UNCHANGED <<vars, file, proxyNum, connNum, proxyId, lProxies, lConnections, before>>

\* The plugin is deleted, with the bus.
DeletePlugin == pc = "idle" /\ BusDelete /\ UNCHANGED load

LoadInit ==
    /\ Init
    /\ pc = "idle" /\ file = << >> /\ proxyNum = 0 /\ connNum = 0 /\ proxyId = NONE
    /\ lProxies = << >> /\ lConnections = << >>
    /\ before = [proxy |-> proxy, proxies |-> proxies, connections |-> connections]

LoadStep == LoadProxy \/ LoadIncomplete \/ LoadConnection \/ LoadSubscribe
            \/ LoadNextProxy \/ LoadEnd

LoadNext == LoadStart \/ LoadParseError \/ LoadStep \/ DeletePlugin
            \/ (Destructors /\ UNCHANGED load)

LoadSpec == LoadInit /\ [][LoadNext]_loadVars
FairLoadSpec == LoadSpec /\ WF_loadVars(LoadStep)

-----------------------------------------------------------------------------
(* Properties.                                                             *)

\* The type of a load: its position in the file, the lists it returns, the value
\* of its local proxyId.
LoadTypeOK ==
    /\ pc \in {"idle", "proxies", "connections"}
    /\ file \in Seq(ProxyEntry)
    /\ proxyNum \in 0 .. Len(file) /\ connNum \in Nat
    /\ proxyId \in Nat \cup {NONE}
    /\ lProxies \in Seq(Nat) /\ lConnections \in Seq(Nat)
    /\ fault \in Faults \cup {"missingKey"}

\* What the load created, until the bus is deleted.
NewProxies == ToSet(proxies) \ ToSet(before.proxies)
NewConnections == ToSet(connections) \ ToSet(before.connections)

\* A proxy that existed when the load began keeps its address, its ports and its
\* connections, in their order, and gains ports or connections only if the file has
\* an entry for it: what is meant for another proxy never ends up on it, though the
\* loader addresses proxies by their place in an array.
OldProxiesOnlyGrow ==
    busState = "up" =>
        \A p \in DOMAIN before.proxy :
            LET old == before.proxy[p]
            IN  /\ proxy[p].localAddr = old.localAddr
                /\ old.ports \subseteq proxy[p].ports
                /\ IsPrefix(old.connections, proxy[p].connections)
                /\ old.name \notin {e.name : e \in ToSet(file)} => proxy[p] = old

\* The lists to give to the adapter name exactly what the load created: following
\* the ids into the arrays of the bus leads to those proxies and connections.
LoadedIdsResolve ==
    busState = "up" =>
        /\ {ProxyAt(id) : id \in ToSet(lProxies)} = NewProxies
        /\ {ConnectionAt(id) : id \in ToSet(lConnections)} = NewConnections
        /\ IsInjective(lProxies) /\ IsInjective(lConnections)

\* A load has finished, if none of its keys was missing.
Loaded == pc = "idle" /\ busState = "up" /\ fault = "none"

\* Once loaded, every entry names a proxy of the bus, and a proxy the load created,
\* with an address no other proxy has, owns a connection to each remote address of
\* its entry.
FreshProxiesConnected ==
    Loaded => \A i \in DOMAIN file :
        /\ getProxyId(file[i].name) # NONE
        /\ \A p \in NewProxies :
              /\ proxy[p].name = file[i].name
              /\ \A q \in ToSet(proxies) : proxy[q].localAddr = file[i].addr => q = p
              => \A k \in ToSet(file[i].connections) :
                    \E c \in Own(p) : conn[c].remoteAddr = k.remote

\* The bus had the proxy of an entry, with all the connections of the entry.
Known(e) ==
    \E p \in ToSet(before.proxies) :
        /\ before.proxy[p].name = e.name
        /\ \A k \in ToSet(e.connections) :
              \E c \in ToSet(before.proxy[p].connections) : conn[c].remoteAddr = k.remote

\* Loading a file whose proxies and connections all exist, as a second load of the
\* same file, creates nothing: "the bus will ignore and skip configurations for
\* existing proxies or connections" (USERS_MANUAL.md:283-284).
ReloadIsNoop ==
    (busState = "up" /\ \A e \in ToSet(file) : Known(e))
    => proxies = before.proxies /\ connections = before.connections

\* Every load ends, or meets an undefined behaviour.
LoadTerminates == pc # "idle" ~> pc = "idle" \/ fault # "none"

\* Once loaded, the bus has every connection of the file, on the proxy the file
\* names: "connections are identified by the name of the proxy and the numeric
\* address of the remote DNP3 entity" (USERS_MANUAL.md:269-270), and a file "may
\* specify additional [...] connections for an existing proxy" (:371-373).
EveryConnectionLoaded ==
    Loaded => \A e \in ToSet(file) : \A k \in ToSet(e.connections) :
        \E c \in ToSet(connections) : /\ proxy[conn[c].proxy].name = e.name
                                      /\ conn[c].remoteAddr = k.remote
=============================================================================
