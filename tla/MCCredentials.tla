---- MODULE MCCredentials ----
(* A finite instance of Credentials: a key and its rotation.                *)
EXTENDS Credentials, TLC

CONSTANTS k1, k2

Rotation == << <<k1>>, <<k2, k1>>, <<k2>> >>
Symmetry == Permutations(Hosts) \cup Permutations(Handlers)
====
