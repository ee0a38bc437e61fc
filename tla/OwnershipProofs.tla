--------------------------- MODULE OwnershipProofs ---------------------------
(***************************************************************************)
(* With requests one at a time, asset rows and assignment rows agree, and  *)
(* the inventory implements AssetOwnership.                                *)
(***************************************************************************)
EXTENDS ProvisioningProofs

\* One request at a time, no asset named twice in one, and nobody overwrites a
\* status by PATCH or sync-from-ironic.
Calm ==
    /\ \A g, h \in Handlers : g = h
    /\ MaxRepeat = 1
    /\ Operations \cap {"patch", "sync"} = {}

-----------------------------------------------------------------------------
(* What a request that runs alone knows of the rows it read *)

Writing == {"assign", "unassign", "remove", "delete_assets"}

\* What is cached is what is stored, and only rows the request is about are.
Fresh(s) ==
    /\ \A a \in Assets : s.cache[a] # Unread => s.cache[a] = asset[a] /\ HasRow(asset[a])
    /\ s.at = "assign" => \A a \in Assets : s.cache[a] # Unread =>
          a \in Picked(s) /\ asset[a].status \in {"available", "discovered"}
    /\ s.at \in {"unassign", "delete_assets"} =>
          \A a \in Assets : s.cache[a] # Unread => a \in Linked(s)

Knows(s) ==
    /\ s.at # "patch"
    /\ s.at \in Writing => Fresh(s)
    /\ s.at \in {"delete_deployments", "delete_links"} => \A a \in Assets : s.cache[a] = Unread
    /\ s.at \in {"delete_deployments", "delete_links", "delete_assets"} => s.cluster \in Clusters
    /\ s.at = "unassign" => \E x \in assignments : s.links = {x}
    /\ s.at = "remove" =>
          \E a \in Assets : s.cache[a] # Unread /\ \A b \in Assets \ {a} : s.cache[b] = Unread
    /\ s.at = "delete_assets" => s.links = AssignmentsOf(s.cluster)

RowsMinted == \A a \in Assets : HasRow(asset[a]) => a \in minted

CalmInv ==
    /\ TypeOK
    /\ RowAgreesWithAssignments
    /\ RowsMinted
    /\ \A h \in Handlers : Knows(session[h])

-----------------------------------------------------------------------------
(* What a request that commits does to the two tables *)

Registered(a) ==
    /\ ~HasRow(asset[a])
    /\ asset' = [asset EXCEPT ![a] = [Absent EXCEPT !.status = "discovered"]]
    /\ UNCHANGED assignments

Taken(picked, c, p) ==
    /\ \A a \in picked : asset[a].status \in {"available", "discovered"}
    /\ asset' = [a \in Assets |-> IF a \in picked
                                  THEN [status |-> "reserved", cluster |-> c, pool |-> p]
                                  ELSE asset[a]]
    /\ \E new \in [picked -> Assignment] :
          /\ \A a \in picked : new[a].asset = a /\ new[a].cluster = c /\ new[a].pool = p
          /\ assignments' = assignments \cup {new[a] : a \in picked}

GivenBack(x) ==
    /\ asset' = [asset EXCEPT ![x.asset] = Free]
    /\ assignments' = assignments \ {x}

Forgotten(a) ==
    /\ HasRow(asset[a]) /\ OnAsset(a) = {}
    /\ asset' = [asset EXCEPT ![a] = Absent]
    /\ UNCHANGED assignments

GivenBackAll(c) ==
    /\ asset' = [a \in Assets |-> IF \E x \in OnAsset(a) : x.cluster = c THEN Free ELSE asset[a]]
    /\ assignments' = assignments \ AssignmentsOf(c)

Effect ==
    \/ UNCHANGED <<asset, assignments>>
    \/ \E a \in Assets : Registered(a) \/ Forgotten(a)
    \/ \E picked \in SUBSET Assets, c \in Clusters, p \in Pools : Taken(picked, c, p)
    \/ \E x \in assignments : GivenBack(x)
    \/ \E c \in Clusters : GivenBackAll(c)

-----------------------------------------------------------------------------
\* A row that was read and not changed since is written as the flush says.
LEMMA FlushFresh ==
    ASSUME asset \in [Assets -> AssetRow], NEW s \in Session, NEW new \in AssetRow, Fresh(s)
    PROVE  /\ Flush(s, new) = [a \in Assets |-> IF a \in Loaded(s) THEN new ELSE asset[a]]
           /\ ~Stale(s, new)
           /\ Loaded(s) = {a \in Assets : s.cache[a] # Unread}
<1>1. Loaded(s) = {a \in Assets : s.cache[a] # Unread}
    BY DEF Loaded, Fresh, HasRow, Unread, AssetStatus
<1>2. ASSUME NEW a \in Loaded(s) PROVE Merge(s.cache[a], new, asset[a]) = new
    <2>1. a \in Assets /\ s.cache[a] = asset[a] /\ asset[a] \in AssetRow
        BY <1>1 DEF Fresh
    <2> QED BY <2>1 DEF Merge, AssetRow
<1>3. ~Stale(s, new)
    BY <1>1 DEF Stale, Fresh
<1> QED BY <1>1, <1>2, <1>3 DEF Flush

LEMMA CacheSet ==
    ASSUME NEW s \in Session, NEW a \in Assets, NEW row \in AssetRow
    PROVE  LET t == [s EXCEPT !.cache[a] = row]
           IN  /\ t.at = s.at /\ t.cluster = s.cluster /\ t.picks = s.picks /\ t.links = s.links
               /\ t.cache = [s.cache EXCEPT ![a] = row]
BY DEF Session

\* An asset with assignments is reserved, so that its row exists.
LEMMA AssignedHasRow ==
    ASSUME RowAgreesWithAssignments, InventoryTypeOK, NEW x \in assignments
    PROVE  /\ x.asset \in Assets /\ x.cluster \in Clusters /\ x.pool \in Pools
           /\ OnAsset(x.asset) = {x}
           /\ HasRow(asset[x.asset]) /\ asset[x.asset].status = "reserved"
           /\ asset[x.asset].cluster = x.cluster /\ asset[x.asset].pool = x.pool
<1>1. x.asset \in Assets /\ x.cluster \in Clusters /\ x.pool \in Pools
    BY DEF InventoryTypeOK, Assignment
<1>2. x \in OnAsset(x.asset)
    BY DEF OnAsset
<1>3. asset[x.asset].status = "reserved"
    BY <1>1, <1>2 DEF RowAgreesWithAssignments
<1>4. PICK y \in OnAsset(x.asset) : /\ OnAsset(x.asset) = {y}
                                    /\ asset[x.asset].cluster = y.cluster
                                    /\ asset[x.asset].pool = y.pool
    BY <1>1, <1>3 DEF RowAgreesWithAssignments
<1>5. y = x
    BY <1>2, <1>4
<1> QED BY <1>1, <1>3, <1>4, <1>5 DEF HasRow, AssetStatus

-----------------------------------------------------------------------------
(* The rows agree after each effect *)

LEMMA EffectAgrees ==
    ASSUME RowAgreesWithAssignments, InventoryTypeOK, Effect
    PROVE  RowAgreesWithAssignments'
<1> DEFINE Agrees(a) ==
              IF asset[a].status = "reserved"
              THEN \E x \in OnAsset(a) : /\ OnAsset(a) = {x}
                                         /\ asset[a].cluster = x.cluster
                                         /\ asset[a].pool = x.pool
              ELSE OnAsset(a) = {} /\ asset[a].cluster = None /\ asset[a].pool = None
<1>1. \A a \in Assets : Agrees(a)
    BY DEF RowAgreesWithAssignments
<1>2. ASSUME NEW a \in Assets, asset'[a] = asset[a], OnAsset(a)' = OnAsset(a) PROVE Agrees(a)'
    BY <1>1, <1>2
<1>3. ASSUME NEW a \in Assets, asset'[a].status # "reserved", asset'[a].cluster = None,
             asset'[a].pool = None, OnAsset(a)' = {}
      PROVE  Agrees(a)'
    BY <1>3
<1>4. SUFFICES ASSUME NEW a \in Assets PROVE Agrees(a)'
    BY DEF RowAgreesWithAssignments
<1>5. CASE UNCHANGED <<asset, assignments>>
    BY <1>2, <1>5 DEF OnAsset
<1>6. ASSUME NEW b \in Assets, Registered(b) PROVE Agrees(a)'
    <2>1. OnAsset(a)' = OnAsset(a)
        BY <1>6 DEF Registered, OnAsset
    <2>2. CASE a = b
        <3>1. asset[b].status # "reserved"
            BY <1>6 DEF Registered, HasRow, AssetStatus
        <3>2. OnAsset(a) = {}
            BY <1>1, <2>2, <3>1
        <3>3. asset'[a] = [status |-> "discovered", cluster |-> None, pool |-> None]
            BY <1>6, <2>2 DEF Registered, Absent, InventoryTypeOK
        <3> QED BY <1>3, <2>1, <3>2, <3>3
    <2>3. CASE a # b
        BY <1>2, <1>6, <2>1, <2>3 DEF Registered, InventoryTypeOK
    <2> QED BY <2>2, <2>3
<1>7. ASSUME NEW b \in Assets, Forgotten(b) PROVE Agrees(a)'
    <2>1. OnAsset(a)' = OnAsset(a)
        BY <1>7 DEF Forgotten, OnAsset
    <2>2. CASE a = b
        <3>1. asset'[a] = Absent
            BY <1>7, <2>2 DEF Forgotten, InventoryTypeOK
        <3> QED BY <1>3, <1>7, <2>1, <2>2, <3>1 DEF Absent, Forgotten
    <2>3. CASE a # b
        BY <1>2, <1>7, <2>1, <2>3 DEF Forgotten, InventoryTypeOK
    <2> QED BY <2>2, <2>3
<1>8. ASSUME NEW picked \in SUBSET Assets, NEW c \in Clusters, NEW p \in Pools, Taken(picked, c, p)
      PROVE  Agrees(a)'
    <2>1. PICK new \in [picked -> Assignment] :
              /\ \A b \in picked : new[b].asset = b /\ new[b].cluster = c /\ new[b].pool = p
              /\ assignments' = assignments \cup {new[b] : b \in picked}
        BY <1>8 DEF Taken
    <2>2. CASE a \in picked
        <3>1. asset'[a] = [status |-> "reserved", cluster |-> c, pool |-> p]
            BY <1>8, <2>2 DEF Taken
        <3>2. OnAsset(a) = {}
            BY <1>1, <1>8, <2>2 DEF Taken
        <3>3. OnAsset(a)' = {new[a]}
            BY <2>1, <2>2, <3>2 DEF OnAsset
        <3> QED BY <2>1, <2>2, <3>1, <3>3
    <2>3. CASE a \notin picked
        <3>1. asset'[a] = asset[a]
            BY <1>8, <2>3 DEF Taken
        <3>2. OnAsset(a)' = OnAsset(a)
            BY <2>1, <2>3 DEF OnAsset
        <3> QED BY <1>2, <3>1, <3>2
    <2> QED BY <2>2, <2>3
<1>9. ASSUME NEW x \in assignments, GivenBack(x) PROVE Agrees(a)'
    <2>1. x.asset \in Assets /\ OnAsset(x.asset) = {x}
        BY AssignedHasRow
    <2>2. CASE a = x.asset
        <3>1. asset'[a] = Free /\ OnAsset(a)' = {}
            BY <1>9, <2>1, <2>2 DEF GivenBack, OnAsset, InventoryTypeOK
        <3> QED BY <1>3, <3>1 DEF Free
    <2>3. CASE a # x.asset
        BY <1>2, <1>9, <2>3 DEF GivenBack, OnAsset, InventoryTypeOK
    <2> QED BY <2>2, <2>3
<1>10. ASSUME NEW c \in Clusters, GivenBackAll(c) PROVE Agrees(a)'
    <2>1. CASE \E x \in OnAsset(a) : x.cluster = c
        <3>1. PICK x \in OnAsset(a) : x.cluster = c
            BY <2>1
        <3>2. x \in assignments /\ x.asset = a /\ OnAsset(a) = {x}
            BY <3>1, AssignedHasRow DEF OnAsset
        <3>3. OnAsset(a)' = {}
            BY <1>10, <3>1, <3>2 DEF GivenBackAll, OnAsset, AssignmentsOf
        <3>4. asset'[a] = Free
            BY <1>10, <2>1 DEF GivenBackAll
        <3> QED BY <1>3, <3>3, <3>4 DEF Free
    <2>2. CASE ~ \E x \in OnAsset(a) : x.cluster = c
        <3>1. OnAsset(a)' = OnAsset(a)
            BY <1>10, <2>2 DEF GivenBackAll, OnAsset, AssignmentsOf
        <3>2. asset'[a] = asset[a]
            BY <1>10, <2>2 DEF GivenBackAll
        <3> QED BY <1>2, <3>1, <3>2
    <2> QED BY <2>1, <2>2
<1> QED BY <1>5, <1>6, <1>7, <1>8, <1>9, <1>10 DEF Effect

\* A row comes from nothing only by a registration.
LEMMA EffectRows ==
    ASSUME RowAgreesWithAssignments, InventoryTypeOK, Effect, NEW a \in Assets, HasRow(asset'[a])
    PROVE  HasRow(asset[a]) \/ Registered(a)
<1>1. ASSUME NEW b \in Assets, Registered(b) PROVE HasRow(asset[a]) \/ Registered(a)
    BY <1>1 DEF Registered, InventoryTypeOK
<1>2. ASSUME NEW b \in Assets, Forgotten(b) PROVE HasRow(asset[a])
    BY <1>2 DEF Forgotten, InventoryTypeOK
<1>3. ASSUME NEW picked \in SUBSET Assets, NEW c \in Clusters, NEW p \in Pools, Taken(picked, c, p)
      PROVE  HasRow(asset[a])
    BY <1>3 DEF Taken, HasRow, AssetStatus
<1>4. ASSUME NEW x \in assignments, GivenBack(x) PROVE HasRow(asset[a])
    BY <1>4, AssignedHasRow DEF GivenBack, InventoryTypeOK
<1>5. ASSUME NEW c \in Clusters, GivenBackAll(c) PROVE HasRow(asset[a])
    BY <1>5, AssignedHasRow DEF GivenBackAll, OnAsset
<1> QED BY <1>1, <1>2, <1>3, <1>4, <1>5 DEF Effect

-----------------------------------------------------------------------------
(* Steps by what they touch *)

LEMMA OthersOnly ==
    ASSUME CalmInv, TypeOK', UNCHANGED <<asset, assignments, session>>, minted \subseteq minted'
    PROVE  CalmInv'
<1>1. RowAgreesWithAssignments' /\ RowsMinted'
    BY DEF CalmInv, RowAgreesWithAssignments, OnAsset, RowsMinted, HasRow
<1>2. \A h \in Handlers : Knows(session[h])'
    BY DEF CalmInv, Knows, Fresh, HasRow, AssignmentsOf, Picked, Linked
<1> QED BY <1>1, <1>2 DEF CalmInv

LEMMA RequestMoves ==
    ASSUME Calm, CalmInv, TypeOK', NEW h \in Handlers, NEW s, Knows(s), Set(h, s),
           UNCHANGED <<asset, assignments>>, minted \subseteq minted'
    PROVE  CalmInv' /\ Effect
<1>1. RowAgreesWithAssignments' /\ RowsMinted'
    BY DEF CalmInv, RowAgreesWithAssignments, OnAsset, RowsMinted, HasRow
<1>2. session'[h] = s
    BY DEF CalmInv, TypeOK, InventoryTypeOK, Set
<1>3. Knows(session[h])'
    BY <1>2 DEF Knows, Fresh, HasRow, AssignmentsOf, Picked, Linked
<1> QED BY <1>1, <1>3 DEF CalmInv, Calm, Effect

LEMMA IdleKnows == Knows(Idle)
BY DEF Idle, Knows, Writing

LEMMA RequestCommits ==
    ASSUME Calm, CalmInv, TypeOK', NEW h \in Handlers, Set(h, Idle), UNCHANGED minted, Effect,
           \A a \in Assets : ~Registered(a)
    PROVE  CalmInv'
<1>1. RowAgreesWithAssignments'
    BY EffectAgrees DEF CalmInv, TypeOK
<1>2. RowsMinted'
    BY EffectRows DEF CalmInv, TypeOK, RowsMinted
<1>3. session'[h] = Idle
    BY DEF CalmInv, TypeOK, InventoryTypeOK, Set
<1>4. Knows(session[h])'
    BY <1>3 DEF Knows, Idle, Writing
<1> QED BY <1>1, <1>2, <1>4 DEF CalmInv, Calm

LEMMA Refused ==
    ASSUME Calm, CalmInv, TypeOK', NEW h \in Handlers, Refuse(h)
    PROVE  CalmInv' /\ Effect
BY RequestMoves, IdleKnows DEF Refuse, Rows

-----------------------------------------------------------------------------
(* The commits *)

LEMMA AssignEffect ==
    ASSUME Calm, CalmInv, NEW h \in Handlers, AssignCommit(h), ~Refuse(h)
    PROVE  Effect /\ Set(h, Idle) /\ UNCHANGED minted /\ \A a \in Assets : ~Registered(a)
<1> DEFINE s == session[h]
           new == [a \in Picked(s) |-> [batch |-> batch + 1, copy |-> 1, asset |-> a,
                                        cluster |-> s.cluster, pool |-> s.pool]]
<1>1. /\ s \in Session /\ s.at = "assign" /\ s.pool \in Pools /\ Fresh(s)
      /\ s.cluster \in clusters /\ s.cluster \in Clusters
      /\ asset \in [Assets -> AssetRow] /\ batch \in Nat
    BY DEF CalmInv, TypeOK, InventoryTypeOK, Filled, AssignCommit, Knows, Writing
<1>2. Reserved(s) \in AssetRow
    BY <1>1 DEF Reserved, AssetRow, AssetStatus
<1>3. Loaded(s) = Picked(s)
    BY <1>1, <1>2, FlushFresh DEF Fresh, AssignCommit, Unfetched, Picked
<1>4. asset' = [a \in Assets |-> IF a \in Picked(s) THEN Reserved(s) ELSE asset[a]]
    BY <1>1, <1>2, <1>3, FlushFresh DEF AssignCommit
<1>5. \A a \in Picked(s) : asset[a].status \in {"available", "discovered"}
    BY <1>1, <1>3 DEF Fresh, Loaded, HasRow, Unread, AssetStatus
<1>6. NewAssignments(s) = {new[a] : a \in Picked(s)}
    <2>1. \A a \in Assets : s.picks[a] \in 0..1
        BY <1>1 DEF Session, Calm
    <2>2. ASSUME NEW a \in Picked(s) PROVE new[a] \in NewAssignments(s)
        BY <1>1, <2>1, <2>2 DEF Picked, NewAssignments, Calm
    <2>3. ASSUME NEW x \in NewAssignments(s) PROVE x.asset \in Picked(s) /\ x = new[x.asset]
        <3>1. /\ x \in [batch: {batch + 1}, copy: 1..1, asset: Assets,
                        cluster: {s.cluster}, pool: {s.pool}]
              /\ x.copy <= s.picks[x.asset]
            BY <2>3 DEF NewAssignments, Calm
        <3>2. x.copy = 1 /\ x.asset \in Assets /\ x.asset \in Picked(s)
            BY <2>1, <3>1 DEF Picked
        <3> QED BY <3>1, <3>2
    <2> QED BY <2>2, <2>3
<1>7. new \in [Picked(s) -> Assignment]
    BY <1>1 DEF Picked, Assignment, Calm
<1>8. assignments' = assignments \cup {new[a] : a \in Picked(s)}
    BY <1>6 DEF AssignCommit
<1>9. \A a \in Picked(s) : new[a].asset = a /\ new[a].cluster = s.cluster /\ new[a].pool = s.pool
    OBVIOUS
<1> HIDE DEF new
<1>10. Taken(Picked(s), s.cluster, s.pool)
    BY <1>4, <1>5, <1>7, <1>8, <1>9 DEF Taken, Reserved
<1>11. Picked(s) \subseteq Assets
    BY DEF Picked
<1>12. ASSUME NEW a \in Assets PROVE ~Registered(a)
    <2>1. asset'[a].status = "reserved" \/ asset'[a] = asset[a]
        BY <1>4 DEF Reserved
    <2>2. ASSUME Registered(a) PROVE asset'[a].status = "discovered" /\ asset[a].status # "discovered"
        BY <1>1, <2>2 DEF Registered, Absent, HasRow, AssetStatus
    <2> QED BY <2>1, <2>2
<1> QED BY <1>1, <1>10, <1>11, <1>12 DEF Effect, AssignCommit

\* Neither unassign nor a deletion makes a row.
LEMMA FreedOnly ==
    ASSUME InventoryTypeOK, NEW a \in Assets, asset'[a] \in {Free, Absent, asset[a]}
    PROVE  ~Registered(a)
<1> SUFFICES ASSUME Registered(a) PROVE FALSE
    OBVIOUS
<1>1. asset'[a].status = "discovered" /\ asset[a].status # "discovered"
    BY DEF Registered, Absent, HasRow, AssetStatus, InventoryTypeOK
<1> QED BY <1>1 DEF Free, Absent

LEMMA UnassignEffect ==
    ASSUME Calm, CalmInv, NEW h \in Handlers, UnassignCommit(h), ~Refuse(h)
    PROVE  Effect /\ Set(h, Idle) /\ UNCHANGED minted /\ \A a \in Assets : ~Registered(a)
<1> DEFINE s == session[h]
<1>1. s \in Session /\ s.at = "unassign" /\ Fresh(s) /\ asset \in [Assets -> AssetRow]
    BY DEF CalmInv, TypeOK, InventoryTypeOK, UnassignCommit, Knows, Writing
<1>2. PICK x \in assignments : s.links = {x}
    BY <1>1 DEF CalmInv, Knows
<1>3. x.asset \in Assets
    BY AssignedHasRow DEF CalmInv, TypeOK
<1>4. Loaded(s) = {x.asset}
    BY <1>1, <1>2, <1>3, FlushFresh, Records DEF Fresh, UnassignCommit, Unfetched, Linked
<1>5. asset' = [a \in Assets |-> IF a \in {x.asset} THEN Free ELSE asset[a]]
    BY <1>1, <1>4, FlushFresh, Records DEF UnassignCommit
<1>6. asset' = [asset EXCEPT ![x.asset] = Free]
    BY <1>1, <1>5
<1>7. assignments' = assignments \ {x}
    BY <1>2 DEF UnassignCommit
<1>8. Effect
    BY <1>6, <1>7 DEF Effect, GivenBack
<1>9. \A a \in Assets : ~Registered(a)
    BY <1>5, FreedOnly DEF CalmInv, TypeOK
<1> QED BY <1>8, <1>9 DEF UnassignCommit

LEMMA RemoveEffect ==
    ASSUME Calm, CalmInv, NEW h \in Handlers, RemoveCommit(h), ~Refuse(h)
    PROVE  Effect /\ Set(h, Idle) /\ UNCHANGED minted /\ \A a \in Assets : ~Registered(a)
<1> DEFINE s == session[h]
<1>1. s \in Session /\ s.at = "remove" /\ Fresh(s) /\ asset \in [Assets -> AssetRow]
    BY DEF CalmInv, TypeOK, InventoryTypeOK, RemoveCommit, Knows, Writing
<1>2. PICK a \in Assets : s.cache[a] # Unread /\ \A b \in Assets \ {a} : s.cache[b] = Unread
    BY <1>1 DEF CalmInv, Knows
<1>3. Loaded(s) = {a}
    BY <1>1, <1>2, FlushFresh, Records
<1>4. \A x \in assignments : x.asset # a
    BY <1>3 DEF RemoveCommit
<1>5. asset' = [b \in Assets |-> IF b \in {a} THEN Absent ELSE asset[b]]
    BY <1>3, <1>4 DEF RemoveCommit
<1>6. asset' = [asset EXCEPT ![a] = Absent]
    BY <1>1, <1>5
<1>7. OnAsset(a) = {} /\ HasRow(asset[a])
    BY <1>1, <1>2, <1>4 DEF OnAsset, Fresh
<1>8. UNCHANGED assignments
    BY DEF RemoveCommit
<1>9. Effect
    BY <1>2, <1>6, <1>7, <1>8 DEF Effect, Forgotten
<1>10. \A b \in Assets : ~Registered(b)
    BY <1>5, FreedOnly DEF CalmInv, TypeOK
<1> QED BY <1>9, <1>10 DEF RemoveCommit

LEMMA DeleteEffect ==
    ASSUME Calm, CalmInv, NEW h \in Handlers, DeleteCommit(h), ~Refuse(h)
    PROVE  Effect /\ Set(h, Idle) /\ UNCHANGED minted /\ \A a \in Assets : ~Registered(a)
<1> DEFINE s == session[h]
           c == s.cluster
<1>1. /\ s \in Session /\ s.at = "delete_assets" /\ Fresh(s) /\ asset \in [Assets -> AssetRow]
      /\ c \in Clusters /\ c # None /\ s.links = AssignmentsOf(c)
    BY InventoryConstants DEF CalmInv, TypeOK, InventoryTypeOK, DeleteCommit, Knows, Writing
<1>2. \A a \in Assets : (a \in Linked(s)) <=> \E x \in OnAsset(a) : x.cluster = c
    BY <1>1 DEF Linked, AssignmentsOf, OnAsset
<1>3. Loaded(s) = Linked(s)
    <2>1. Linked(s) \subseteq Assets
        BY <1>1, AssignedHasRow DEF Linked, AssignmentsOf, CalmInv, TypeOK
    <2>2. Loaded(s) = {a \in Assets : s.cache[a] # Unread}
        BY <1>1, FlushFresh, Records
    <2>3. Unfetched(s, Linked(s)) = {}
        BY DEF DeleteCommit
    <2> QED BY <1>1, <2>1, <2>2, <2>3 DEF Unfetched, Fresh
<1>4. Flush(s, Free) = [a \in Assets |-> IF a \in Linked(s) THEN Free ELSE asset[a]]
    BY <1>1, <1>3, FlushFresh, Records
<1>5. ASSUME NEW a \in Assets PROVE Flush(s, Free)[a].cluster # c
    <2>1. CASE a \in Linked(s)
        BY <1>1, <1>4, <2>1 DEF Free
    <2>2. CASE a \notin Linked(s)
        <3>1. asset[a].cluster = c => \E x \in OnAsset(a) : x.cluster = c
            BY <1>1 DEF CalmInv, RowAgreesWithAssignments
        <3> QED BY <1>2, <1>4, <2>2, <3>1
    <2> QED BY <2>1, <2>2
<1>6. Unlink(Flush(s, Free), c) = Flush(s, Free)
    BY <1>4, <1>5 DEF Unlink
<1>7. asset' = [a \in Assets |-> IF a \in Linked(s) THEN Free ELSE asset[a]]
    BY <1>4, <1>6 DEF DeleteCommit
<1>8. assignments' = assignments \ AssignmentsOf(c)
    BY <1>1 DEF DeleteCommit
<1>9. GivenBackAll(c)
    BY <1>2, <1>7, <1>8 DEF GivenBackAll
<1>10. \A a \in Assets : ~Registered(a)
    BY <1>7, FreedOnly DEF CalmInv, TypeOK
<1> QED BY <1>1, <1>9, <1>10 DEF DeleteCommit, Effect

-----------------------------------------------------------------------------
(* The other steps of a request *)

LEMMA BeginKnows ==
    ASSUME Calm, CalmInv, TypeOK', NEW h \in Handlers, Begin(h)
    PROVE  CalmInv' /\ Effect
<1>1. SUFFICES ASSUME TRUE PROVE UNCHANGED Rows /\ \E s : Set(h, s) /\ Knows(s)
    BY RequestMoves DEF Rows
<1>2. UNCHANGED Rows
    BY DEF Begin, AssignBegin, UnassignBegin, PatchBegin, SyncBegin, RemoveBegin, DeleteBegin, StartBegin
<1>3. ASSUME NEW c \in Clusters, NEW p \in Pools, NEW picks \in Requests, AssignBegin(h, c, p, picks)
      PROVE  \E s : Set(h, s) /\ Knows(s)
    <2> DEFINE s == [Idle EXCEPT !.at = "assign", !.cluster = c, !.pool = p, !.picks = picks]
    <2>1. Knows(s)
        BY DEF Knows, Fresh, Idle, Writing
    <2> QED BY <1>3, <2>1 DEF AssignBegin
<1>4. ASSUME NEW x \in assignments, UnassignBegin(h, x) PROVE \E s : Set(h, s) /\ Knows(s)
    <2> DEFINE s == [Idle EXCEPT !.at = "unassign", !.links = {x}]
    <2>1. Knows(s)
        BY DEF Knows, Fresh, Idle, Writing
    <2> QED BY <1>4, <2>1 DEF UnassignBegin
<1>5. ASSUME NEW a \in Assets, RemoveBegin(h, a) PROVE \E s : Set(h, s) /\ Knows(s)
    <2> DEFINE s == [Idle EXCEPT !.at = "remove", !.cache[a] = asset[a]]
    <2>1. HasRow(asset[a]) /\ asset[a] # Unread
        BY <1>5 DEF RemoveBegin, HasRow, AssetStatus, Unread
    <2>2. s.at = "remove" /\ s.cache = [Idle.cache EXCEPT ![a] = asset[a]]
        BY DEF Idle
    <2>3. \A b \in Assets : s.cache[b] = IF b = a THEN asset[a] ELSE Unread
        BY <2>2 DEF Idle
    <2>4. Knows(s)
        BY <2>1, <2>2, <2>3 DEF Knows, Fresh, Writing
    <2> QED BY <1>5, <2>4 DEF RemoveBegin
<1>6. ASSUME NEW c \in Clusters, DeleteBegin(h, c) PROVE \E s : Set(h, s) /\ Knows(s)
    <2> DEFINE s == [Idle EXCEPT !.at = "delete_deployments", !.cluster = c]
    <2>1. Knows(s)
        BY DEF Knows, Fresh, Idle, Writing
    <2> QED BY <1>6, <2>1 DEF DeleteBegin
<1>7. ASSUME NEW c \in Clusters, StartBegin(h, c) PROVE \E s : Set(h, s) /\ Knows(s)
    <2> DEFINE s == [Idle EXCEPT !.at = IF c \in Metal3Clusters THEN "start_links" ELSE "start_assets",
                                 !.cluster = c]
    <2>1. Knows(s)
        BY DEF Knows, Idle, Writing
    <2> QED BY <1>7, <2>1 DEF StartBegin
<1>8. /\ ~ \E a \in Assets, st \in AssetStatus, p \in Pools \cup {None} : PatchBegin(h, a, st, p)
      /\ ~ \E a \in Assets : SyncBegin(h, a)
    BY DEF PatchBegin, SyncBegin, Calm
<1> QED BY <1>2, <1>3, <1>4, <1>5, <1>6, <1>7, <1>8 DEF Begin

LEMMA ResumeKnows ==
    ASSUME Calm, CalmInv, TypeOK', NEW h \in Handlers, Resume(h)
    PROVE  CalmInv' /\ Effect
<1> DEFINE s == session[h]
<1>0. /\ s \in Session /\ Knows(s) /\ Filled(s)
      /\ asset \in [Assets -> AssetRow] /\ InventoryTypeOK /\ RowAgreesWithAssignments
    BY DEF CalmInv, TypeOK, InventoryTypeOK
<1>1. ASSUME Refuse(h) PROVE CalmInv' /\ Effect
    BY <1>1, Refused
<1>2. ASSUME NEW a \in Assets, AssignRead(h, a), ~Refuse(h) PROVE CalmInv' /\ Effect
    <2> DEFINE t == [s EXCEPT !.cache[a] = asset[a]]
    <2>1. /\ s.at = "assign" /\ a \in Picked(s) /\ asset[a].status \in {"available", "discovered"}
          /\ Set(h, t) /\ UNCHANGED Rows
        BY <1>2 DEF AssignRead, Unfetched
    <2>2. /\ t.at = s.at /\ t.cluster = s.cluster /\ t.picks = s.picks /\ t.links = s.links
          /\ t.cache = [s.cache EXCEPT ![a] = asset[a]]
        BY <1>0, CacheSet
    <2>3. \A b \in Assets : t.cache[b] = IF b = a THEN asset[a] ELSE s.cache[b]
        BY <1>0, <2>2 DEF Session
    <2>4. Fresh(t)
        BY <1>0, <2>1, <2>2, <2>3 DEF Knows, Fresh, Writing, Picked, HasRow, AssetStatus
    <2>5. Knows(t)
        BY <2>1, <2>2, <2>4 DEF Knows, Writing
    <2> QED BY <2>1, <2>5, RequestMoves DEF Rows
<1>3. ASSUME NEW a \in Assets, ReadLinkedAsset(h, a) PROVE CalmInv' /\ Effect
    <2> DEFINE t == [s EXCEPT !.cache[a] = asset[a]]
    <2>1. /\ s.at \in {"unassign", "delete_assets", "start_assets"} /\ a \in Linked(s)
          /\ Set(h, t) /\ UNCHANGED Rows
        BY <1>3 DEF ReadLinkedAsset, Unfetched
    <2>2. /\ t.at = s.at /\ t.cluster = s.cluster /\ t.picks = s.picks /\ t.links = s.links
          /\ t.cache = [s.cache EXCEPT ![a] = asset[a]]
        BY <1>0, CacheSet
    <2>3. \A b \in Assets : t.cache[b] = IF b = a THEN asset[a] ELSE s.cache[b]
        BY <1>0, <2>2 DEF Session
    <2>4. CASE s.at = "start_assets"
        <3>1. Knows(t)
            BY <2>2, <2>4 DEF Knows, Writing
        <3> QED BY <2>1, <3>1, RequestMoves DEF Rows
    <2>5. CASE s.at \in {"unassign", "delete_assets"}
        <3>1. s.links \subseteq assignments
            BY <1>0, <2>5 DEF Knows, AssignmentsOf
        <3>2. HasRow(asset[a])
            BY <1>0, <2>1, <3>1, AssignedHasRow DEF Linked
        <3>3. Fresh(t)
            BY <1>0, <2>1, <2>2, <2>3, <2>5, <3>2 DEF Knows, Fresh, Writing, Linked
        <3>4. Knows(t)
            BY <1>0, <2>2, <2>5, <3>3 DEF Knows, Writing
        <3> QED BY <2>1, <3>4, RequestMoves DEF Rows
    <2> QED BY <2>1, <2>4, <2>5
<1>4. ASSUME AssignCommit(h), ~Refuse(h) PROVE CalmInv' /\ Effect
    BY <1>4, AssignEffect, RequestCommits
<1>5. ASSUME UnassignCommit(h), ~Refuse(h) PROVE CalmInv' /\ Effect
    BY <1>5, UnassignEffect, RequestCommits
<1>6. ASSUME PatchCommit(h) PROVE CalmInv' /\ Effect
    BY <1>0, <1>6 DEF PatchCommit, Knows
<1>7. ASSUME RemoveCommit(h), ~Refuse(h) PROVE CalmInv' /\ Effect
    BY <1>7, RemoveEffect, RequestCommits
<1>8. ASSUME DeleteReadDeployments(h), ~Refuse(h) PROVE CalmInv' /\ Effect
    <2> DEFINE t == [s EXCEPT !.at = "delete_links", !.seen = DeploymentsOf(s.cluster)]
    <2>1. s.at = "delete_deployments" /\ Set(h, t) /\ UNCHANGED Rows
        BY <1>8 DEF DeleteReadDeployments
    <2>2. t.at = "delete_links" /\ t.cluster = s.cluster /\ t.cache = s.cache
        BY <1>0 DEF Session
    <2>3. Knows(t)
        BY <1>0, <2>1, <2>2 DEF Knows, Writing
    <2> QED BY <2>1, <2>3, RequestMoves DEF Rows
<1>9. ASSUME DeleteReadLinks(h) PROVE CalmInv' /\ Effect
    <2> DEFINE t == [s EXCEPT !.at = "delete_assets", !.links = AssignmentsOf(s.cluster)]
    <2>1. s.at = "delete_links" /\ Set(h, t) /\ UNCHANGED Rows
        BY <1>9 DEF DeleteReadLinks
    <2>2. /\ t.at = "delete_assets" /\ t.cluster = s.cluster /\ t.cache = s.cache
          /\ t.links = AssignmentsOf(t.cluster)
        BY <1>0 DEF Session
    <2>3. Knows(t)
        BY <1>0, <2>1, <2>2 DEF Knows, Fresh, Writing
    <2> QED BY <2>1, <2>3, RequestMoves DEF Rows
<1>10. ASSUME DeleteCommit(h), ~Refuse(h) PROVE CalmInv' /\ Effect
    BY <1>10, DeleteEffect, RequestCommits
<1>11. ASSUME StartReadLinks(h), ~Refuse(h) PROVE CalmInv' /\ Effect
    <2> DEFINE t == [s EXCEPT !.at = "start_assets", !.links = AssignmentsOf(s.cluster)]
    <2>1. Set(h, t) /\ UNCHANGED Rows /\ t.at = "start_assets"
        BY <1>0, <1>11 DEF StartReadLinks, Session
    <2>2. Knows(t)
        BY <2>1 DEF Knows, Writing
    <2> QED BY <2>1, <2>2, RequestMoves DEF Rows
<1>12. ASSUME StartReject(h) PROVE CalmInv' /\ Effect
    BY <1>1, <1>12 DEF StartReject
<1>13. ASSUME StartEnqueue(h) PROVE CalmInv' /\ Effect
    <2> DEFINE t == [s EXCEPT !.at = "start_save"]
    <2>1. Set(h, t) /\ UNCHANGED <<asset, assignments, minted>> /\ t.at = "start_save"
        BY <1>0, <1>13 DEF StartEnqueue, Session
    <2>2. Knows(t)
        BY <2>1 DEF Knows, Writing
    <2> QED BY <2>1, <2>2, RequestMoves
<1>14. ASSUME StartSave(h) PROVE CalmInv' /\ Effect
    BY <1>14, IdleKnows, RequestMoves DEF StartSave
<1>15. ASSUME NEW d \in Deployments, StartCommit(h, d), ~Refuse(h) PROVE CalmInv' /\ Effect
    <2> DEFINE t == [s EXCEPT !.at = "start_enqueue", !.dep = d]
    <2>1. /\ Set(h, t) /\ UNCHANGED <<asset, assignments>> /\ minted \subseteq minted'
          /\ t.at = "start_enqueue"
        BY <1>0, <1>15 DEF StartCommit, Session
    <2>2. Knows(t)
        BY <2>1 DEF Knows, Writing
    <2> QED BY <2>1, <2>2, RequestMoves
<1> QED BY <1>1, <1>2, <1>3, <1>4, <1>5, <1>6, <1>7, <1>8, <1>9, <1>10, <1>11, <1>12, <1>13,
           <1>14, <1>15 DEF Resume

LEMMA RegisterKnows ==
    ASSUME Calm, CalmInv, TypeOK', NEW a \in Assets, CreateAsset(a)
    PROVE  CalmInv' /\ Effect
<1>1. /\ InventoryTypeOK /\ RowAgreesWithAssignments /\ asset \in [Assets -> AssetRow]
      /\ UNCHANGED session /\ minted' = minted \cup {a} /\ UNCHANGED assignments
    BY DEF CalmInv, TypeOK, InventoryTypeOK, CreateAsset
<1>2. ~HasRow(asset[a])
    BY DEF CalmInv, RowsMinted, CreateAsset
<1>3. Registered(a)
    BY <1>1, <1>2 DEF Registered, CreateAsset
<1>4. Effect
    BY <1>3 DEF Effect
<1>5. RowAgreesWithAssignments'
    BY <1>1, <1>4, EffectAgrees
<1>6. \A b \in Assets : b # a => asset'[b] = asset[b]
    BY <1>1, <1>3 DEF Registered
<1>7. RowsMinted'
    BY <1>1, <1>6 DEF CalmInv, RowsMinted, HasRow
<1>8. ASSUME NEW h \in Handlers PROVE Knows(session[h])'
    <2>1. Knows(session[h])
        BY DEF CalmInv
    <2>2. Fresh(session[h]) => Fresh(session[h])'
        BY <1>1, <1>2, <1>6 DEF Fresh, HasRow, Picked, Linked
    <2> QED BY <1>1, <2>1, <2>2 DEF Knows, AssignmentsOf
<1> QED BY <1>4, <1>5, <1>7, <1>8 DEF CalmInv

-----------------------------------------------------------------------------
LEMMA CalmInit == Init => CalmInv
<1> SUFFICES ASSUME Init PROVE CalmInv
    OBVIOUS
<1>1. RowAgreesWithAssignments /\ RowsMinted
    BY DEF Init, InventoryInit, RowAgreesWithAssignments, RowsMinted, OnAsset, Absent, HasRow, AssetStatus
<1>2. \A h \in Handlers : Knows(session[h])
    BY IdleKnows DEF Init, InventoryInit
<1> QED BY <1>1, <1>2, TypeInit DEF CalmInv

LEMMA CalmStep ==
    ASSUME Calm, CalmInv, [Next]_vars
    PROVE  CalmInv' /\ Effect
<1>0. TypeOK'
    BY TypeStep DEF CalmInv
<1>1. ASSUME UNCHANGED <<asset, assignments, session, minted>> PROVE CalmInv' /\ Effect
    BY <1>0, <1>1, OthersOnly DEF Effect
<1>2. CASE ApiStep
    <2>1. ASSUME NEW c \in Clusters, CreateCluster(c) PROVE CalmInv' /\ Effect
        BY <1>0, <2>1, OthersOnly DEF CreateCluster, Effect
    <2>2. ASSUME NEW a \in Assets, CreateAsset(a) PROVE CalmInv' /\ Effect
        BY <1>0, <2>2, RegisterKnows
    <2>3. ASSUME NEW h \in Handlers, Begin(h) PROVE CalmInv' /\ Effect
        BY <1>0, <2>3, BeginKnows
    <2>4. ASSUME NEW h \in Handlers, Resume(h) PROVE CalmInv' /\ Effect
        BY <1>0, <2>4, ResumeKnows
    <2>5. ASSUME NEW h \in Handlers, Abort(h) PROVE CalmInv' /\ Effect
        BY <1>0, <2>5, Refused DEF Abort
    <2> QED BY <1>2, <2>1, <2>2, <2>3, <2>4, <2>5 DEF ApiStep, InventoryNext
<1>3. ASSUME NEW w \in Workers, WorkerStep(w) \/ TaskLost(w) PROVE CalmInv' /\ Effect
    BY <1>1, <1>3 DEF WorkerStep, TaskTake, TaskPhase, TaskFail, TaskLost, inventoryVars
<1>4. ASSUME NEW d \in Deployments, Redeliver(d) PROVE CalmInv' /\ Effect
    BY <1>1, <1>4 DEF Redeliver
<1>5. CASE UNCHANGED vars
    BY <1>1, <1>5 DEF vars, inventoryVars
<1> QED BY <1>2, <1>3, <1>4, <1>5 DEF Next

LEMMA CalmInvariant == ASSUME Calm PROVE Spec => []CalmInv
<1>1. CalmInv /\ [Next]_vars => CalmInv'
    BY CalmStep
<1> QED BY <1>1, CalmInit, PTL DEF Spec

\* Asset rows and assignment rows say the same, however many assigns,
\* unassigns, removals, deletions and deployments follow one another and
\* wherever they abort (api/planner.py:32-125, api/clusters.py:78-133,
\* api/hardware_assets.py:99-104), when requests do not overlap.
THEOREM RowsAgree ==
    ASSUME Calm
    PROVE  Spec => []RowAgreesWithAssignments
<1>1. CalmInv => RowAgreesWithAssignments
    BY DEF CalmInv
<1> QED BY <1>1, CalmInvariant, PTL

-----------------------------------------------------------------------------
(* The inventory implements AssetOwnership *)

\* Under RowAgreesWithAssignments the row alone says who holds the asset.
View(row) ==
    IF ~HasRow(row) THEN Ownership!Unknown
    ELSE IF row.status = "reserved" THEN Ownership!Held(row.cluster, row.pool)
    ELSE Ownership!Free

LEMMA HolderView ==
    CalmInv => [a \in Assets |-> Holder(a)] = [a \in Assets |-> View(asset[a])]
<1> SUFFICES ASSUME CalmInv, NEW a \in Assets PROVE Holder(a) = View(asset[a])
    OBVIOUS
<1>1. CASE asset[a].status = "reserved"
    <2>1. PICK x \in OnAsset(a) : /\ OnAsset(a) = {x}
                                  /\ asset[a].cluster = x.cluster /\ asset[a].pool = x.pool
        BY <1>1 DEF CalmInv, RowAgreesWithAssignments
    <2>2. HasRow(asset[a])
        BY <1>1 DEF HasRow, AssetStatus
    <2> QED BY <1>1, <2>1, <2>2 DEF Holder, View, Ownership!Held
<1>2. CASE asset[a].status # "reserved"
    <2>1. OnAsset(a) = {}
        BY <1>2 DEF CalmInv, RowAgreesWithAssignments
    <2> QED BY <1>2, <2>1 DEF Holder, View, Ownership!Free, Ownership!Unknown
<1> QED BY <1>1, <1>2

\* Every effect is a step of AssetOwnership, or none.
LEMMA EffectRefines ==
    ASSUME CalmInv, CalmInv', Effect
    PROVE  [Ownership!Next]_([a \in Assets |-> Holder(a)])
<1> DEFINE held == [a \in Assets |-> Holder(a)]
           V(a) == View(asset[a])
<1>1. held = [a \in Assets |-> V(a)] /\ held' = [a \in Assets |-> V(a)']
    <2>1. (CalmInv => [a \in Assets |-> Holder(a)] = [a \in Assets |-> View(asset[a])])'
        BY HolderView, PTL
    <2> QED BY <2>1, HolderView
<1>2. /\ asset \in [Assets -> AssetRow] /\ InventoryTypeOK /\ RowAgreesWithAssignments
      /\ None \notin Clusters
    BY InventoryConstants DEF CalmInv, TypeOK, InventoryTypeOK
<1> HIDE DEF held
<1>3. ASSUME NEW a \in Assets, Registered(a) PROVE Ownership!Next
    <2>1. V(a) = Ownership!Unknown /\ V(a)' = Ownership!Free
        BY <1>2, <1>3 DEF Registered, View, Absent, HasRow, AssetStatus
    <2>2. \A b \in Assets : b # a => V(b)' = V(b)
        BY <1>2, <1>3 DEF Registered, View
    <2>3. held[a] = Ownership!Unknown /\ held' = [held EXCEPT ![a] = Ownership!Free]
        BY <1>1, <2>1, <2>2
    <2> QED BY <2>3 DEF Ownership!Next, Ownership!Register, held
<1>4. ASSUME NEW a \in Assets, Forgotten(a) PROVE Ownership!Next
    <2>1. asset[a].status # "reserved"
        BY <1>2, <1>4 DEF Forgotten, RowAgreesWithAssignments
    <2>2. V(a) = Ownership!Free /\ V(a)' = Ownership!Unknown
        BY <1>2, <1>4, <2>1 DEF Forgotten, View, Absent, HasRow, AssetStatus
    <2>3. \A b \in Assets : b # a => V(b)' = V(b)
        BY <1>2, <1>4 DEF Forgotten, View
    <2>4. held[a] = Ownership!Free /\ held' = [held EXCEPT ![a] = Ownership!Unknown]
        BY <1>1, <2>2, <2>3
    <2> QED BY <2>4 DEF Ownership!Next, Ownership!Forget, held
<1>5. ASSUME NEW picked \in SUBSET Assets, NEW c \in Clusters, NEW p \in Pools, Taken(picked, c, p)
      PROVE  Ownership!Next
    <2>1. \A a \in picked : V(a) = Ownership!Free /\ V(a)' = Ownership!Held(c, p)
        BY <1>5 DEF Taken, View, HasRow, AssetStatus
    <2>2. \A a \in Assets \ picked : V(a)' = V(a)
        BY <1>5 DEF Taken, View
    <2>3. /\ \A a \in picked : held[a] = Ownership!Free
          /\ held' = [a \in Assets |-> IF a \in picked THEN Ownership!Held(c, p) ELSE held[a]]
        BY <1>1, <2>1, <2>2
    <2> QED BY <2>3 DEF Ownership!Next, Ownership!Take, held
<1>6. ASSUME NEW x \in assignments, GivenBack(x) PROVE Ownership!Next
    <2> DEFINE a == x.asset
    <2>1. a \in Assets /\ asset[a].status = "reserved"
        BY <1>2, AssignedHasRow
    <2>2. V(a).state = "held" /\ V(a)' = Ownership!Free
        BY <1>2, <1>6, <2>1 DEF GivenBack, View, Free, HasRow, AssetStatus, Ownership!Held
    <2>3. \A b \in Assets : b # a => V(b)' = V(b)
        BY <1>2, <1>6 DEF GivenBack, View
    <2>4. held[a].state = "held" /\ held' = [held EXCEPT ![a] = Ownership!Free]
        BY <1>1, <2>1, <2>2, <2>3
    <2> QED BY <2>1, <2>4 DEF Ownership!Next, Ownership!GiveBack, held
<1>7. ASSUME NEW c \in Clusters, GivenBackAll(c) PROVE Ownership!Next
    <2>1. \A a \in Assets : V(a)' = IF V(a).cluster = c THEN Ownership!Free ELSE V(a)
        <3> SUFFICES ASSUME NEW a \in Assets
                     PROVE  V(a)' = IF V(a).cluster = c THEN Ownership!Free ELSE V(a)
            OBVIOUS
        <3>1. V(a).cluster = c <=> \E x \in OnAsset(a) : x.cluster = c
            <4>1. CASE asset[a].status = "reserved"
                <5>1. \E x \in OnAsset(a) : OnAsset(a) = {x} /\ asset[a].cluster = x.cluster
                    BY <1>2, <4>1 DEF RowAgreesWithAssignments
                <5>2. V(a).cluster = asset[a].cluster
                    BY <4>1 DEF View, HasRow, AssetStatus, Ownership!Held
                <5> QED BY <5>1, <5>2
            <4>2. CASE asset[a].status # "reserved"
                <5>1. OnAsset(a) = {}
                    BY <1>2, <4>2 DEF RowAgreesWithAssignments
                <5>2. V(a).cluster = None
                    BY <4>2 DEF View, Ownership!Free, Ownership!Unknown
                <5> QED BY <1>2, <5>1, <5>2
            <4> QED BY <4>1, <4>2
        <3>2. CASE \E x \in OnAsset(a) : x.cluster = c
            <4>1. asset'[a] = Free
                BY <1>7, <3>2 DEF GivenBackAll
            <4>2. V(a)' = Ownership!Free
                BY <4>1 DEF View, Free, HasRow, AssetStatus
            <4> QED BY <3>1, <3>2, <4>2
        <3>3. CASE ~ \E x \in OnAsset(a) : x.cluster = c
            <4>1. asset'[a] = asset[a]
                BY <1>7, <3>3 DEF GivenBackAll
            <4>2. V(a)' = V(a)
                BY <4>1 DEF View
            <4> QED BY <3>1, <3>3, <4>2
        <3> QED BY <3>2, <3>3
    <2>2. held' = [a \in Assets |-> IF held[a].cluster = c THEN Ownership!Free ELSE held[a]]
        BY <1>1, <2>1
    <2> QED BY <2>2 DEF Ownership!Next, Ownership!GiveBackAll, held
<1>8. CASE UNCHANGED <<asset, assignments>>
    <2>1. held' = held
        BY <1>1, <1>8 DEF View
    <2> QED BY <2>1 DEF held
<1> QED BY <1>3, <1>4, <1>5, <1>6, <1>7, <1>8 DEF Effect, held

\* Seen by its clients, the inventory is AssetOwnership: a server is handed out
\* only when it is free, to one pool of one cluster, and comes back only from
\* the cluster that holds it (api/planner.py:32-125, api/clusters.py:78-133),
\* when requests do not overlap.
THEOREM InventoryKeepsOwnership ==
    ASSUME Calm
    PROVE  Spec => ImplementsOwnership
<1>1. Init => Ownership!Init
    <2> SUFFICES ASSUME Init, NEW a \in Assets PROVE Holder(a) = Ownership!Unknown
        BY DEF Ownership!Init
    <2> QED BY DEF Init, InventoryInit, Holder, HasRow, Absent, AssetStatus, Ownership!Unknown
<1>2. CalmInv /\ CalmInv' /\ [Next]_vars => [Ownership!Next]_([a \in Assets |-> Holder(a)])
    BY CalmStep, EffectRefines
<1> QED BY <1>1, <1>2, CalmInvariant, PTL DEF Spec, ImplementsOwnership, Ownership!Spec

=============================================================================
