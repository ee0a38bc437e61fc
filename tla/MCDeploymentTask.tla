--------------------------- MODULE MCDeploymentTask ---------------------------
(***************************************************************************)
(* Finite instances of DeploymentTask for TLC.  Hosts and addons are model *)
(* values; no symmetry, since the run checks liveness.                     *)
(***************************************************************************)
EXTENDS DeploymentTask
=============================================================================
