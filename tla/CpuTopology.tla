---------------------------- MODULE CpuTopology ----------------------------
(* CPU topologies: what the inspection reports of a machine are turned into *)
(* (services/introspection.py), and the ids of the CPUs that kubelet is     *)
(* told to reserve (services/cpu_topology.py).                              *)
EXTENDS Integers

Topology == [sockets : Nat, cores : Nat, threads : Nat]

(* status.hardware of a BareMetalHost has the number of logical CPUs only:  *)
(* one socket with two threads per core is assumed.                         *)
ParsedTopology(count) == [sockets |-> 1, cores |-> count \div 2, threads |-> 2]

(* The inventory of Ironic's agent may know the sockets (0: it does not).    *)
(* A missing or zero field falls back to what the other source gave, field  *)
(* by field; two threads per core in every case.                            *)
EnrichedTopology(base, count, socketCount) ==
    LET sockets == IF socketCount # 0 THEN socketCount ELSE base.sockets
        perSocket == count \div (sockets * base.threads)
    IN  [sockets |-> sockets,
         cores   |-> IF perSocket # 0 THEN perSocket ELSE base.cores,
         threads |-> base.threads]

(* The reports there may be of one machine: either source may lack the count *)
(* (0), the inventory the sockets as well. "mixed": the inventory knows the  *)
(* sockets but no whole core of each, so its sockets stand beside the cores  *)
(* that the other source counted for a single socket.                        *)
Reports(count, sockets) ==
    { [topology |-> ParsedTopology(n), mixed |-> FALSE] : n \in {0, count} } \cup
    { [topology |-> EnrichedTopology(ParsedTopology(n), m, k), mixed |-> k > 1 /\ m < 2 * k] :
         n, m \in {0, count}, k \in {0, sockets} }

LogicalCpus(t) == t.sockets * t.cores * t.threads

\* Mutant: siblings follow at the distance of one socket.
CpuIdAdjacent(t, s, i, k) == (s * t.cores + i) + t.cores * k

(* Sockets are laid out one after the other; the siblings of a core follow  *)
(* at a distance of all physical cores.                                     *)
CpuId(t, s, i, k) == (s * t.cores + i) + t.sockets * t.cores * k

ReservedCpus(t, perSocket) ==
    { CpuId(t, s, i, k) : s \in 0 .. t.sockets - 1,
                          i \in 0 .. perSocket - 1,
                          k \in 0 .. t.threads - 1 }

(* ValueError: more cores are to be reserved than a socket has.             *)
Reservable(t, perSocket) == perSocket <= t.cores

ReservedCount(t, perSocket) == t.sockets * perSocket * t.threads
IsolatedCount(t, perSocket) == LogicalCpus(t) - ReservedCount(t, perSocket)

=============================================================================
