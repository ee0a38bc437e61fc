---------------------------- MODULE MCProvisioning ----------------------------
(***************************************************************************)
(* Finite instances of Provisioning for TLC.  Every identifier set is a    *)
(* symmetry set except Clusters, whose members differ in NameOf and in     *)
(* Metal3Clusters.                                                         *)
(***************************************************************************)
EXTENDS Provisioning, TLC

\* Every cluster has a name of its own ...
OwnName == [c \in Clusters |-> c]

\* ... or all clusters are created under the same name, one after the other.
SameName == [c \in Clusters |-> CHOOSE other \in Clusters : TRUE]

Symmetry == Permutations(Assets) \cup Permutations(Handlers) \cup
            Permutations(Deployments) \cup Permutations(Workers)
=============================================================================
