--------------------------- MODULE AssetOwnership ---------------------------
(***************************************************************************)
(* What the inventory promises about its servers: each is unknown, free,   *)
(* or held by exactly one pool of one cluster; only a free server can be   *)
(* picked or removed, and a server becomes free again only by being given  *)
(* back by the cluster that holds it.                                      *)
(***************************************************************************)
CONSTANTS Assets, Clusters, Pools, None

VARIABLE holder

Unknown == [state |-> "unknown", cluster |-> None, pool |-> None]
Free    == [state |-> "free", cluster |-> None, pool |-> None]
Held(c, p) == [state |-> "held", cluster |-> c, pool |-> p]

Init == holder = [a \in Assets |-> Unknown]

Register(a) == holder[a] = Unknown /\ holder' = [holder EXCEPT ![a] = Free]

Forget(a) == holder[a] = Free /\ holder' = [holder EXCEPT ![a] = Unknown]

\* All of the picked servers are free, and all of them are taken at once.
Take(picked, c, p) ==
    /\ \A a \in picked : holder[a] = Free
    /\ holder' = [a \in Assets |-> IF a \in picked THEN Held(c, p) ELSE holder[a]]

\* A cluster gives back one server, or all it has when it is deleted.
GiveBack(a) ==
    /\ holder[a].state = "held"
    /\ holder' = [holder EXCEPT ![a] = Free]

GiveBackAll(c) ==
    holder' = [a \in Assets |-> IF holder[a].cluster = c THEN Free ELSE holder[a]]

Next ==
    \/ \E a \in Assets : Register(a) \/ Forget(a) \/ GiveBack(a)
    \/ \E picked \in SUBSET Assets, c \in Clusters, p \in Pools : Take(picked, c, p)
    \/ \E c \in Clusters : GiveBackAll(c)

Spec == Init /\ [][Next]_holder
=============================================================================
