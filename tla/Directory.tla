----------------------------- MODULE Directory -----------------------------
(***************************************************************************)
(* What the message bus promises its clients: a directory of nodes (the    *)
(* proxies) and of routes (the connections), each known by its position.   *)
(* Every question is answered from that one table: a name leads to the     *)
(* first node created with it, and an address pair is found by the loader, *)
(* can be sent to and is listened to exactly when some route carries it,   *)
(* except that the route in hand, which is being added or dropped, can be  *)
(* sent to already, or still.  Nothing here tells how many arrays there    *)
(* are or how they are searched.                                           *)
(***************************************************************************)
EXTENDS Integers, SequencesExt

CONSTANTS Names, Addrs

VARIABLES
    open,        \* the directory answers
    nodes,       \* the nodes, each with its handle and its address
    routes,      \* the routes, each with its handle, its node and where it leads
    named,       \* the node each name leads to
    found,       \* the address pairs the loader takes as existing
    sendable,    \* the address pairs an APDU can be sent for
    heard,       \* the address pairs whose APDUs come in
    hand         \* the route in hand, and whether it comes or goes

directory == <<open, nodes, routes, named, found, sendable, heard, hand>>

Nowhere == -1
Nothing == [op |-> "none"]
Pair(r) == <<nodes[r.node + 1].addr, r.dest>>
Table == {Pair(routes[k]) : k \in DOMAIN routes}

\* Whether nothing is in hand: then what is asked is answered, and done, in full.
Still == open /\ hand = Nothing

Empty == /\ nodes = << >> /\ routes = << >> /\ named = [n \in Names |-> Nowhere]
         /\ found = {} /\ sendable = {} /\ heard = {} /\ hand = Nothing

DirectoryInit == open = TRUE /\ Empty

AddNode(name, addr) ==
    /\ Still
    /\ nodes' = Append(nodes, [id |-> Len(nodes), addr |-> addr])
    /\ named' = [named EXCEPT ![name] = IF @ = Nowhere THEN Len(nodes) ELSE @]
    /\ UNCHANGED <<open, routes, found, sendable, heard, hand>>

OpenRoute(node, dest) ==
    LET r == [id |-> Len(routes), node |-> node, dest |-> dest]
    IN  /\ Still
        /\ hand' = [op |-> "new", route |-> r]
        /\ sendable' = Table \cup {Pair(r)}
        /\ UNCHANGED <<open, nodes, routes, named, found, heard>>

AddRoute ==
    /\ hand.op = "new"
    /\ routes' = Append(routes, hand.route)
    /\ found' = Table' /\ sendable' = Table' /\ heard' = Table'
    /\ hand' = Nothing
    /\ UNCHANGED <<open, nodes, named>>

DropLastRoute ==
    /\ Still
    /\ routes # << >>
    /\ hand' = [op |-> "delete", route |-> Last(routes)]
    /\ routes' = Front(routes)
    /\ found' = Table' /\ heard' = Table'
    /\ UNCHANGED <<open, nodes, named, sendable>>

CloseRoute ==
    /\ hand.op = "delete"
    /\ sendable' = Table
    /\ hand' = Nothing
    /\ UNCHANGED <<open, nodes, routes, named, found, heard>>

\* Only a node without routes goes, and only the name that led to it is lost.
DropLastNode ==
    /\ Still
    /\ nodes # << >>
    /\ \A k \in DOMAIN routes : routes[k].node # Len(nodes) - 1
    /\ nodes' = Front(nodes)
    /\ named' = [n \in Names |-> IF named[n] = Len(nodes) - 1 THEN Nowhere ELSE named[n]]
    /\ UNCHANGED <<open, routes, found, sendable, heard, hand>>

Close == Still /\ open' = FALSE /\ Empty'

DirectoryNext ==
    \/ \E name \in Names, addr \in Addrs : AddNode(name, addr)
    \/ \E node \in 0 .. Len(nodes) - 1, dest \in Addrs : OpenRoute(node, dest)
    \/ AddRoute
    \/ DropLastRoute
    \/ CloseRoute
    \/ DropLastNode
    \/ Close

DirectorySpec == DirectoryInit /\ [][DirectoryNext]_directory
=============================================================================
