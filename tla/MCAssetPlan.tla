---------------------------- MODULE MCAssetPlan ----------------------------
(* Instances of AssetPlan: a two-socket server with hyperthreading and seven *)
(* NICs, and a machine with a single CPU.                                    *)
EXTENDS AssetPlan, TLC

CONSTANTS a1, a2, p1, p2

TwoServers == a1 :> [count |-> 8, sockets |-> 2, nics |-> 7]
              @@ a2 :> [count |-> 1, sockets |-> 1, nics |-> 0]

Symmetry == Permutations({p1, p2})

SomeTopologies == {[sockets |-> 1, cores |-> 2, threads |-> 1]}
SomeRoles == {<<"sriov", "unassigned">>}
SomeOverrides == {2 :> "data"}

=============================================================================
