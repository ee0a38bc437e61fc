---------------------------- MODULE MCAddonStore ----------------------------
(***************************************************************************)
(* Finite instances of AddonStore for TLC.                                 *)
(***************************************************************************)
EXTENDS AddonStore
=============================================================================
