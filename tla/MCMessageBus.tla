---------------------------- MODULE MCMessageBus ----------------------------
(* Instances of MessageBus for TLC: the objects are model values, and no     *)
(* definition tells one object, name, address or port from another.          *)
EXTENDS MessageBus, TLC

Symmetry == Permutations(ProxyObjs) \cup Permutations(ConnObjs)
            \cup Permutations(Addrs) \cup Permutations(Names)
=============================================================================
