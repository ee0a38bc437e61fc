---- MODULE MCWorkloads ----
(* A finite instance of Workloads. No request is about two names, so one      *)
(* name shows everything.                                                   *)
EXTENDS Workloads

CONSTANTS w1
OneName == {w1}
====
