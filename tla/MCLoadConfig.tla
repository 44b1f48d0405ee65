---------------------------- MODULE MCLoadConfig ----------------------------
(* Instances of LoadConfig for TLC: every file of at most two entries, taken *)
(* from entries that agree with each other, extend each other or clash.      *)
EXTENDS LoadConfig

CONSTANTS n1, n2, a1, a2, a3, t1, t2

Entry(name, addr, ports, conns) ==
    [name |-> name, addr |-> addr, ports |-> ports, connections |-> conns,
     complete |-> TRUE]
To(remote, port) == [remote |-> remote, port |-> port, complete |-> TRUE]

Master == Entry(n1, a1, {t1}, <<To(a2, t1)>>)
Slave == Entry(n2, a2, {t2}, <<To(a1, t2)>>)

\* An additional port and connection for the master; a slave with the address of
\* the master; a slave with a connection on a port of the master.
Additional == Entry(n1, a1, {t1, t2}, <<To(a2, t1), To(a3, t2)>>)
SameAddress == Entry(n2, a1, {t2}, <<To(a2, t2), To(a3, t2)>>)
WrongPort == Entry(n2, a2, {t2}, <<To(a3, t1)>>)

\* A master, and a connection of a slave, with a missing key.
NoAddress == [Master EXCEPT !.complete = FALSE]
NoTimeout == [Slave EXCEPT !.connections[1].complete = FALSE]

Entries == {Master, Slave, Additional, SameAddress, WrongPort, NoAddress, NoTimeout}
MCFiles == {f \in BoundedSeq(Entries, 2) : Readable(f)}
=============================================================================
