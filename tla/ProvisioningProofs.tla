-------------------------- MODULE ProvisioningProofs --------------------------
(***************************************************************************)
(* Theorems about Provisioning, for every value of its constants.          *)
(***************************************************************************)
EXTENDS Provisioning, FiniteSetTheorems, TLAPS

-----------------------------------------------------------------------------
(* Type correctness *)

\* The records handlers start from and rows are reset to have their types.
LEMMA Records ==
    /\ Idle \in Session /\ Filled(Idle)
    /\ Absent \in AssetRow /\ Unread \in AssetRow /\ Free \in AssetRow
    /\ NoDeployment \in DeploymentRow
    /\ NoTask \in Task
<1>1. Absent \in AssetRow /\ Unread \in AssetRow /\ Free \in AssetRow
    BY DEF Absent, Unread, Free, AssetRow, AssetStatus
<1>2. Idle \in Session /\ Filled(Idle)
    BY <1>1, InventoryConstants DEF Idle, Session, Steps, Filled
<1>3. NoDeployment \in DeploymentRow /\ NoTask \in Task
    BY DEF NoDeployment, DeploymentRow, NoTask, Task, Phases
<1> QED BY <1>1, <1>2, <1>3

\* A flush leaves well-typed rows.
LEMMA FlushType ==
    ASSUME asset \in [Assets -> AssetRow], NEW s \in Session, NEW new \in AssetRow
    PROVE  Flush(s, new) \in [Assets -> AssetRow]
<1> SUFFICES ASSUME NEW a \in Assets PROVE Merge(s.cache[a], new, asset[a]) \in AssetRow
    BY DEF Flush, Loaded
<1>1. asset[a] \in AssetRow
    OBVIOUS
<1> QED BY <1>1 DEF Merge, AssetRow

\* A request that is refused changes nothing but its own session.
LEMMA RefuseType ==
    ASSUME InventoryTypeOK, NEW h \in Handlers, Refuse(h)
    PROVE  InventoryTypeOK'
BY Records DEF Refuse, Set, Rows, InventoryTypeOK

\* The same for every step that only moves a session to a well-typed one.
LEMMA SessionType ==
    ASSUME InventoryTypeOK, NEW h \in Handlers, NEW s \in Session, Filled(s), Set(h, s), UNCHANGED Rows
    PROVE  InventoryTypeOK'
BY DEF Set, Rows, InventoryTypeOK

\* A session that reads the rows of its cluster and moves on is well typed.
LEMMA ReadType ==
    ASSUME NEW s \in Session
    PROVE  /\ \A found \in SUBSET Assignment, at \in {"delete_assets", "start_assets"} :
                  LET t == [s EXCEPT !.at = at, !.links = found] IN t \in Session /\ Filled(t)
           /\ \A found \in SUBSET Deployments :
                  LET t == [s EXCEPT !.at = "delete_links", !.seen = found] IN t \in Session /\ Filled(t)
BY DEF Session, Steps, Filled

LEMMA BeginType ==
    ASSUME InventoryTypeOK, NEW h \in Handlers, Begin(h)
    PROVE  InventoryTypeOK'
<1> USE Records
<1>1. ASSUME NEW c \in Clusters, NEW p \in Pools, NEW picks \in Requests, AssignBegin(h, c, p, picks)
      PROVE  InventoryTypeOK'
    <2> DEFINE s == [Idle EXCEPT !.at = "assign", !.cluster = c, !.pool = p, !.picks = picks]
    <2>1. s \in Session /\ Filled(s)
        BY <1>1 DEF Idle, Session, Steps, Requests, Filled
    <2> QED BY <1>1, <2>1, SessionType DEF AssignBegin
<1>2. ASSUME NEW x \in assignments, UnassignBegin(h, x)
      PROVE  InventoryTypeOK'
    <2> DEFINE s == [Idle EXCEPT !.at = "unassign", !.links = {x}]
    <2>1. s \in Session /\ Filled(s)
        BY <1>2 DEF Idle, Session, Steps, Filled, InventoryTypeOK
    <2> QED BY <1>2, <2>1, SessionType DEF UnassignBegin
<1>3. ASSUME NEW a \in Assets, NEW st \in AssetStatus, NEW p \in Pools \cup {None}, PatchBegin(h, a, st, p)
      PROVE  InventoryTypeOK'
    <2>1. asset[a] \in AssetRow
        BY DEF InventoryTypeOK
    <2> DEFINE want == [asset[a] EXCEPT !.status = st, !.pool = p]
               s == [Idle EXCEPT !.at = "patch", !.cache[a] = asset[a], !.want = want]
    <2>2. want \in AssetRow /\ HasRow(want)
        BY <2>1, <1>3 DEF AssetRow, HasRow
    <2>3. s \in Session /\ Filled(s)
        BY <2>1, <2>2 DEF Idle, Session, Steps, Filled
    <2> QED BY <1>3, <2>3, SessionType DEF PatchBegin
<1>4. ASSUME NEW a \in Assets, SyncBegin(h, a)
      PROVE  InventoryTypeOK'
    <2>1. asset[a] \in AssetRow
        BY DEF InventoryTypeOK
    <2> DEFINE want == [asset[a] EXCEPT !.status = "available"]
               s == [Idle EXCEPT !.at = "patch", !.cache[a] = asset[a], !.want = want]
    <2>2. want \in AssetRow /\ HasRow(want)
        BY <2>1 DEF AssetRow, AssetStatus, HasRow
    <2>3. s \in Session /\ Filled(s)
        BY <2>1, <2>2 DEF Idle, Session, Steps, Filled
    <2> QED BY <1>4, <2>3, SessionType DEF SyncBegin
<1>5. ASSUME NEW a \in Assets, RemoveBegin(h, a)
      PROVE  InventoryTypeOK'
    <2>1. asset[a] \in AssetRow
        BY DEF InventoryTypeOK
    <2> DEFINE s == [Idle EXCEPT !.at = "remove", !.cache[a] = asset[a]]
    <2>2. s \in Session /\ Filled(s)
        BY <2>1 DEF Idle, Session, Steps, Filled
    <2> QED BY <1>5, <2>2, SessionType DEF RemoveBegin
<1>6. ASSUME NEW c \in Clusters, DeleteBegin(h, c)
      PROVE  InventoryTypeOK'
    <2> DEFINE s == [Idle EXCEPT !.at = "delete_deployments", !.cluster = c]
    <2>1. s \in Session /\ Filled(s)
        BY DEF Idle, Session, Steps, Filled
    <2> QED BY <1>6, <2>1, SessionType DEF DeleteBegin
<1>7. ASSUME NEW c \in Clusters, StartBegin(h, c)
      PROVE  InventoryTypeOK'
    <2> DEFINE s == [Idle EXCEPT !.at = IF c \in Metal3Clusters THEN "start_links" ELSE "start_assets",
                                 !.cluster = c]
    <2>1. s \in Session /\ Filled(s)
        BY DEF Idle, Session, Steps, Filled
    <2> QED BY <1>7, <2>1, SessionType DEF StartBegin
<1> QED BY <1>1, <1>2, <1>3, <1>4, <1>5, <1>6, <1>7 DEF Begin

LEMMA ResumeType ==
    ASSUME InventoryTypeOK, NEW h \in Handlers, Resume(h)
    PROVE  InventoryTypeOK'
<1> DEFINE s == session[h]
<1> USE Records
<1>0. s \in Session /\ Filled(s)
    BY DEF InventoryTypeOK
<1>1. ASSUME NEW a \in Assets, AssignRead(h, a) \/ ReadLinkedAsset(h, a)
      PROVE  InventoryTypeOK'
    <2> DEFINE t == [s EXCEPT !.cache[a] = asset[a]]
    <2>1. t \in Session /\ Filled(t)
        BY <1>0 DEF Session, InventoryTypeOK, Filled
    <2> QED BY <1>1, <2>1, SessionType, RefuseType DEF AssignRead, ReadLinkedAsset
<1>2. CASE AssignCommit(h)
    <2> SUFFICES ASSUME ~Refuse(h) PROVE InventoryTypeOK'
        BY RefuseType
    <2>1. s.cluster \in Clusters /\ s.pool \in Pools
        BY <1>0, <1>2 DEF AssignCommit, Filled, InventoryTypeOK
    <2>2. Reserved(s) \in AssetRow
        BY <2>1 DEF Reserved, AssetRow, AssetStatus
    <2>3. Flush(s, Reserved(s)) \in [Assets -> AssetRow]
        BY <1>0, <2>2, FlushType DEF InventoryTypeOK
    <2>4. NewAssignments(s) \subseteq Assignment
        BY <2>1 DEF NewAssignments, Assignment, InventoryTypeOK
    <2> QED BY <1>2, <2>3, <2>4 DEF AssignCommit, Set, InventoryTypeOK
<1>3. CASE UnassignCommit(h)
    <2>1. Flush(s, Free) \in [Assets -> AssetRow]
        BY <1>0, FlushType DEF InventoryTypeOK
    <2> QED BY <1>3, <2>1, RefuseType DEF UnassignCommit, Set, InventoryTypeOK
<1>4. CASE PatchCommit(h)
    <2>1. Flush(s, s.want) \in [Assets -> AssetRow]
        BY <1>0, FlushType DEF InventoryTypeOK, Session
    <2> QED BY <1>4, <2>1, RefuseType DEF PatchCommit, Set, InventoryTypeOK
<1>5. CASE RemoveCommit(h)
    BY <1>5, RefuseType DEF RemoveCommit, Set, InventoryTypeOK
<1>6. CASE DeleteReadDeployments(h)
    <2> DEFINE found == DeploymentsOf(s.cluster)
               t == [s EXCEPT !.at = "delete_links", !.seen = found]
    <2>0. found \in SUBSET Deployments
        BY DEF DeploymentsOf
    <2>1. t \in Session /\ Filled(t)
        BY <1>0, <2>0, ReadType
    <2> QED BY <1>6, <2>1, SessionType, RefuseType DEF DeleteReadDeployments
<1>7. CASE DeleteReadLinks(h)
    <2> DEFINE found == AssignmentsOf(s.cluster)
               t == [s EXCEPT !.at = "delete_assets", !.links = found]
    <2>0. found \in SUBSET Assignment
        BY DEF AssignmentsOf, InventoryTypeOK
    <2>1. t \in Session /\ Filled(t)
        BY <1>0, <2>0, ReadType
    <2> QED BY <1>7, <2>1, SessionType DEF DeleteReadLinks
<1>8. CASE DeleteCommit(h)
    <2> SUFFICES ASSUME ~Refuse(h) PROVE InventoryTypeOK'
        BY RefuseType
    <2>1. Flush(s, Free) \in [Assets -> AssetRow]
        BY <1>0, FlushType DEF InventoryTypeOK
    <2>2. Unlink(Flush(s, Free), s.cluster) \in [Assets -> AssetRow]
        BY <2>1 DEF Unlink, AssetRow
    <2>3. [d \in Deployments |-> IF d \in s.seen THEN NoDeployment ELSE deployment[d]]
            \in [Deployments -> DeploymentRow]
        BY DEF InventoryTypeOK
    <2> QED BY <1>8, <2>2, <2>3 DEF DeleteCommit, Set, InventoryTypeOK
<1>9. CASE StartReadLinks(h)
    <2> DEFINE found == AssignmentsOf(s.cluster)
               t == [s EXCEPT !.at = "start_assets", !.links = found]
    <2>0. found \in SUBSET Assignment
        BY DEF AssignmentsOf, InventoryTypeOK
    <2>1. t \in Session /\ Filled(t)
        BY <1>0, <2>0, ReadType
    <2> QED BY <1>9, <2>1, SessionType, RefuseType DEF StartReadLinks
<1>10. CASE StartReject(h)
    BY <1>10, RefuseType DEF StartReject
<1>11. ASSUME NEW d \in Deployments, StartCommit(h, d)
       PROVE  InventoryTypeOK'
    <2> SUFFICES ASSUME ~Refuse(h) PROVE InventoryTypeOK'
        BY RefuseType
    <2> DEFINE t == [s EXCEPT !.at = "start_enqueue", !.dep = d]
               row == [phase |-> "queued", cluster |-> s.cluster, tracked |-> FALSE]
    <2>1. t \in Session /\ Filled(t)
        BY <1>0 DEF Session, Steps, Filled
    <2>2. row \in DeploymentRow
        BY <1>0 DEF Session, DeploymentRow, Phases
    <2> QED BY <1>11, <2>1, <2>2 DEF StartCommit, Set, InventoryTypeOK
<1>12. CASE StartEnqueue(h)
    <2> DEFINE t == [s EXCEPT !.at = "start_save"]
    <2>1. t \in Session /\ Filled(t)
        BY <1>0, <1>12 DEF Session, Steps, Filled, StartEnqueue
    <2>2. session' \in [Handlers -> Session] /\ \A g \in Handlers : Filled(session'[g])
        BY <1>12, <2>1 DEF StartEnqueue, Set, InventoryTypeOK
    <2>3. s.dep \in Deployments /\ queue' = [queue EXCEPT ![s.dep] = queue[s.dep] + 1]
        BY <1>0, <1>12 DEF StartEnqueue, Filled
    <2>4. queue' \in [Deployments -> Nat]
        BY <2>3 DEF InventoryTypeOK
    <2>5. UNCHANGED <<clusters, asset, assignments, deployment, minted, batch>>
        BY <1>12 DEF StartEnqueue
    <2> QED BY <2>2, <2>4, <2>5 DEF InventoryTypeOK, Filled
<1>13. CASE StartSave(h)
    <2>1. [deployment EXCEPT ![s.dep].tracked = deployment[s.dep].phase # "absent"]
            \in [Deployments -> DeploymentRow]
        BY DEF InventoryTypeOK, DeploymentRow
    <2> QED BY <1>13, <2>1 DEF StartSave, Set, InventoryTypeOK
<1> QED BY <1>1, <1>2, <1>3, <1>4, <1>5, <1>6, <1>7, <1>8, <1>9, <1>10, <1>11, <1>12, <1>13
        DEF Resume

LEMMA ApiType == ASSUME InventoryTypeOK, InventoryNext PROVE InventoryTypeOK'
<1>1. ASSUME NEW c \in Clusters, CreateCluster(c) PROVE InventoryTypeOK'
    BY <1>1 DEF CreateCluster, InventoryTypeOK
<1>2. ASSUME NEW a \in Assets, CreateAsset(a) PROVE InventoryTypeOK'
    <2>1. [Absent EXCEPT !.status = "discovered"] \in AssetRow
        BY DEF Absent, AssetRow, AssetStatus
    <2> QED BY <1>2, <2>1 DEF CreateAsset, InventoryTypeOK
<1>3. ASSUME NEW h \in Handlers, Abort(h) PROVE InventoryTypeOK'
    BY <1>3, RefuseType DEF Abort
<1> QED BY <1>1, <1>2, <1>3, BeginType, ResumeType DEF InventoryNext

LEMMA WritePhaseType ==
    ASSUME InventoryTypeOK, NEW d \in Deployments, NEW ph \in Phases, WritePhase(d, ph)
    PROVE  deployment' \in [Deployments -> DeploymentRow]
BY DEF WritePhase, InventoryTypeOK, DeploymentRow

LEMMA TypeInit == Init => TypeOK
BY Records DEF Init, InventoryInit, TypeOK, InventoryTypeOK

LEMMA TypeStep == TypeOK /\ [Next]_vars => TypeOK'
<1> SUFFICES ASSUME TypeOK, [Next]_vars PROVE TypeOK'
    OBVIOUS
<1> USE Records
<1>1. CASE ApiStep
    BY <1>1, ApiType DEF ApiStep, TypeOK
<1>2. ASSUME NEW w \in Workers, NEW d \in Deployments, TaskTake(w, d) PROVE TypeOK'
    BY <1>2 DEF TaskTake, TypeOK, InventoryTypeOK, Task, Phases
<1>3. ASSUME NEW w \in Workers, NEW ph \in Phases, TaskPhase(w, ph) PROVE TypeOK'
    <2>1. worker[w] \in Task /\ worker[w].dep \in Deployments
        BY <1>3 DEF TaskPhase, Running, TypeOK, Task
    <2>2. [worker[w] EXCEPT !.at = ph] \in Task
        BY <2>1 DEF Task
    <2>3. worker' \in [Workers -> Task]
        BY <1>3, <2>2 DEF TaskPhase, TypeOK
    <2>4. deployment' \in [Deployments -> DeploymentRow]
        BY <1>3, <2>1, WritePhaseType DEF TaskPhase, TypeOK
    <2> QED BY <1>3, <2>3, <2>4 DEF TaskPhase, TypeOK, InventoryTypeOK
<1>4. ASSUME NEW w \in Workers, TaskFail(w) PROVE TypeOK'
    <2>1. worker[w].dep \in Deployments
        BY <1>4 DEF TaskFail, Running, TypeOK, Task
    <2>2. deployment' \in [Deployments -> DeploymentRow]
        BY <1>4, <2>1, WritePhaseType DEF TaskFail, TypeOK, Phases
    <2> QED BY <1>4, <2>2 DEF TaskFail, TypeOK, InventoryTypeOK
<1>5. ASSUME NEW w \in Workers, TaskLost(w) PROVE TypeOK'
    BY <1>5 DEF TaskLost, TypeOK, InventoryTypeOK, inventoryVars
<1>6. ASSUME NEW d \in Deployments, Redeliver(d) PROVE TypeOK'
    BY <1>6 DEF Redeliver, TypeOK, InventoryTypeOK
<1>7. CASE UNCHANGED vars
    BY <1>7 DEF vars, inventoryVars, TypeOK, InventoryTypeOK
<1> QED BY <1>1, <1>2, <1>3, <1>4, <1>5, <1>6, <1>7 DEF Next, WorkerStep

\* Every reachable state is well typed, however many handlers and workers there are.
THEOREM TypeCorrect == Spec => []TypeOK
BY TypeInit, TypeStep, PTL DEF Spec

-----------------------------------------------------------------------------
(* References *)

\* An assign request has read, of the assets it wants, rows it may take.  So its
\* flush changes every one of them, and hits StaleDataError if one is gone.
SoundReads(s) ==
    s.at = "assign" =>
        \A a \in Assets : s.cache[a] = Unread \/ s.cache[a].status \in {"available", "discovered"}
ReadsExist == \A h \in Handlers : SoundReads(session[h])

RefInv == TypeOK /\ ReferencesResolve /\ ReadsExist

\* Moving one session to a sound one keeps all of them sound.
LEMMA ReadsSet ==
    ASSUME InventoryTypeOK, ReadsExist, NEW h \in Handlers, NEW s, SoundReads(s), Set(h, s)
    PROVE  ReadsExist'
<1> SUFFICES ASSUME NEW g \in Handlers PROVE SoundReads(session'[g])
    BY DEF ReadsExist, SoundReads
<1>1. session'[g] = IF g = h THEN s ELSE session[g]
    BY DEF Set, InventoryTypeOK
<1> QED BY <1>1 DEF ReadsExist

LEMMA IdleReads == SoundReads(Idle)
BY DEF SoundReads, Idle

LEMMA RowsReferences ==
    ASSUME ReferencesResolve, UNCHANGED <<clusters, asset, assignments, deployment>>
    PROVE  ReferencesResolve'
BY DEF ReferencesResolve, HasRow

\* A flush never removes a row.
LEMMA FlushKeepsRows ==
    ASSUME NEW s, NEW new, HasRow(new), NEW a \in Assets, HasRow(asset[a])
    PROVE  HasRow(Flush(s, new)[a])
BY DEF Flush, Merge, HasRow

\* A session that has nothing to do with a deployment row.
Unattached(s) == s.seen = {} /\ s.dep = None /\ s.at # "start_enqueue"

\* Every request starts with a session that has read no row of its own.
LEMMA BeginShape ==
    ASSUME NEW h \in Handlers, Begin(h)
    PROVE  UNCHANGED Rows /\ \E s : Set(h, s) /\ SoundReads(s) /\ Unattached(s)
<1>1. UNCHANGED Rows
    BY DEF Begin, AssignBegin, UnassignBegin, PatchBegin, SyncBegin, RemoveBegin, DeleteBegin, StartBegin
<1>2. \E s : Set(h, s) /\ SoundReads(s) /\ Unattached(s)
    <2>1. ASSUME NEW c \in Clusters, NEW p \in Pools, NEW picks \in Requests, AssignBegin(h, c, p, picks)
          PROVE  \E s : Set(h, s) /\ SoundReads(s) /\ Unattached(s)
        <3> DEFINE s == [Idle EXCEPT !.at = "assign", !.cluster = c, !.pool = p, !.picks = picks]
        <3>1. SoundReads(s) /\ Unattached(s)
            BY DEF SoundReads, Unattached, Idle
        <3> QED BY <2>1, <3>1 DEF AssignBegin
    <2>2. ASSUME NEW x \in assignments, UnassignBegin(h, x)
          PROVE  \E s : Set(h, s) /\ SoundReads(s) /\ Unattached(s)
        <3> DEFINE s == [Idle EXCEPT !.at = "unassign", !.links = {x}]
        <3>1. SoundReads(s) /\ Unattached(s)
            BY DEF SoundReads, Unattached, Idle
        <3> QED BY <2>2, <3>1 DEF UnassignBegin
    <2>3. ASSUME NEW a \in Assets, NEW st \in AssetStatus, NEW p \in Pools \cup {None}, PatchBegin(h, a, st, p)
          PROVE  \E s : Set(h, s) /\ SoundReads(s) /\ Unattached(s)
        <3> DEFINE s == [Idle EXCEPT !.at = "patch", !.cache[a] = asset[a],
                                     !.want = [asset[a] EXCEPT !.status = st, !.pool = p]]
        <3>1. SoundReads(s) /\ Unattached(s)
            BY DEF SoundReads, Unattached, Idle
        <3> QED BY <2>3, <3>1 DEF PatchBegin
    <2>4. ASSUME NEW a \in Assets, SyncBegin(h, a)
          PROVE  \E s : Set(h, s) /\ SoundReads(s) /\ Unattached(s)
        <3> DEFINE s == [Idle EXCEPT !.at = "patch", !.cache[a] = asset[a],
                                     !.want = [asset[a] EXCEPT !.status = "available"]]
        <3>1. SoundReads(s) /\ Unattached(s)
            BY DEF SoundReads, Unattached, Idle
        <3> QED BY <2>4, <3>1 DEF SyncBegin
    <2>5. ASSUME NEW a \in Assets, RemoveBegin(h, a)
          PROVE  \E s : Set(h, s) /\ SoundReads(s) /\ Unattached(s)
        <3> DEFINE s == [Idle EXCEPT !.at = "remove", !.cache[a] = asset[a]]
        <3>1. SoundReads(s) /\ Unattached(s)
            BY DEF SoundReads, Unattached, Idle
        <3> QED BY <2>5, <3>1 DEF RemoveBegin
    <2>6. ASSUME NEW c \in Clusters, DeleteBegin(h, c)
          PROVE  \E s : Set(h, s) /\ SoundReads(s) /\ Unattached(s)
        <3> DEFINE s == [Idle EXCEPT !.at = "delete_deployments", !.cluster = c]
        <3>1. SoundReads(s) /\ Unattached(s)
            BY DEF SoundReads, Unattached, Idle
        <3> QED BY <2>6, <3>1 DEF DeleteBegin
    <2>7. ASSUME NEW c \in Clusters, StartBegin(h, c)
          PROVE  \E s : Set(h, s) /\ SoundReads(s) /\ Unattached(s)
        <3> DEFINE s == [Idle EXCEPT !.at = IF c \in Metal3Clusters THEN "start_links" ELSE "start_assets",
                                     !.cluster = c]
        <3>1. SoundReads(s) /\ Unattached(s)
            BY DEF SoundReads, Unattached, Idle
        <3> QED BY <2>7, <3>1 DEF StartBegin
    <2> QED BY <2>1, <2>2, <2>3, <2>4, <2>5, <2>6, <2>7 DEF Begin
<1> QED BY <1>1, <1>2

LEMMA BeginReferences ==
    ASSUME InventoryTypeOK, ReferencesResolve, ReadsExist, NEW h \in Handlers, Begin(h)
    PROVE  ReferencesResolve' /\ ReadsExist'
<1>1. PICK s : UNCHANGED Rows /\ Set(h, s) /\ SoundReads(s)
    BY BeginShape
<1> QED BY <1>1, ReadsSet, RowsReferences DEF Rows

LEMMA ResumeReferences ==
    ASSUME InventoryTypeOK, ReferencesResolve, ReadsExist, NEW h \in Handlers, Resume(h)
    PROVE  ReferencesResolve' /\ ReadsExist'
<1> DEFINE s == session[h]
<1>0. s \in Session /\ Filled(s) /\ SoundReads(s)
    BY DEF InventoryTypeOK, ReadsExist
<1>r. ASSUME Refuse(h) PROVE ReferencesResolve' /\ ReadsExist'
    BY <1>r, RowsReferences, ReadsSet, IdleReads DEF Refuse, Rows
<1>s. ASSUME NEW t, SoundReads(t), Set(h, t), UNCHANGED Rows
      PROVE  ReferencesResolve' /\ ReadsExist'
    BY <1>s, RowsReferences, ReadsSet DEF Rows
<1>c. ASSUME Set(h, Idle) PROVE ReadsExist'
    BY <1>c, ReadsSet, IdleReads
<1>1. ASSUME NEW a \in Assets, AssignRead(h, a) PROVE ReferencesResolve' /\ ReadsExist'
    <2> SUFFICES ASSUME ~Refuse(h) PROVE ReferencesResolve' /\ ReadsExist'
        BY <1>r
    <2> DEFINE t == [s EXCEPT !.cache[a] = asset[a]]
    <2>1. asset[a].status \in {"available", "discovered"}
        BY <1>1 DEF AssignRead
    <2>2. \A b \in Assets : t.cache[b] = IF b = a THEN asset[a] ELSE s.cache[b]
        BY <1>0 DEF Session
    <2>3. t.at = s.at
        BY <1>0 DEF Session
    <2>4. SoundReads(t)
        BY <1>0, <2>1, <2>2, <2>3 DEF SoundReads
    <2> QED BY <1>1, <1>s, <2>4 DEF AssignRead
<1>2. ASSUME NEW a \in Assets, ReadLinkedAsset(h, a) PROVE ReferencesResolve' /\ ReadsExist'
    <2> DEFINE t == [s EXCEPT !.cache[a] = asset[a]]
    <2>1. t.at = s.at /\ s.at # "assign"
        BY <1>0, <1>2 DEF Session, ReadLinkedAsset
    <2>2. SoundReads(t)
        BY <2>1 DEF SoundReads
    <2> QED BY <1>2, <1>s, <2>2 DEF ReadLinkedAsset
<1>3. CASE AssignCommit(h)
    <2> SUFFICES ASSUME ~Refuse(h) PROVE ReferencesResolve'
        BY <1>r, <1>c, <1>3 DEF AssignCommit
    <2>1. HasRow(Reserved(s))
        BY DEF HasRow, Reserved, AssetStatus
    <2>2. ASSUME NEW x \in NewAssignments(s) PROVE x.cluster \in clusters /\ HasRow(asset[x.asset]) /\ x.asset \in Assets
        <3>1. x.asset \in Assets /\ x.cluster = s.cluster /\ x.copy \in 1..MaxRepeat /\ x.copy <= s.picks[x.asset]
            BY <2>2 DEF NewAssignments
        <3>2. x.asset \in Picked(s)
            BY <1>0, <3>1, InventoryConstants DEF Picked, Session
        <3>3. x.asset \in Loaded(s)
            BY <1>0, <1>3, <3>1, <3>2 DEF AssignCommit, Unfetched, Loaded, SoundReads, HasRow, AssetStatus
        <3>4. s.cache[x.asset].status # "reserved"
            BY <1>0, <1>3, <3>1, <3>3 DEF AssignCommit, Loaded, SoundReads, Unread
        <3>5. HasRow(asset[x.asset])
            BY <1>3, <3>3, <3>4 DEF AssignCommit, Stale, Reserved
        <3> QED BY <1>3, <3>1, <3>5 DEF AssignCommit
    <2> QED BY <1>3, <2>1, <2>2, FlushKeepsRows DEF AssignCommit, ReferencesResolve, InventoryTypeOK, Assignment
<1>4. CASE UnassignCommit(h)
    <2> SUFFICES ASSUME ~Refuse(h) PROVE ReferencesResolve'
        BY <1>r, <1>c, <1>4 DEF UnassignCommit
    <2>1. HasRow(Free)
        BY DEF HasRow, Free, AssetStatus
    <2> QED BY <1>4, <2>1, FlushKeepsRows DEF UnassignCommit, ReferencesResolve, InventoryTypeOK, Assignment
<1>5. CASE PatchCommit(h)
    <2> SUFFICES ASSUME ~Refuse(h) PROVE ReferencesResolve'
        BY <1>r, <1>c, <1>5 DEF PatchCommit
    <2>1. HasRow(s.want)
        BY <1>0, <1>5 DEF PatchCommit, Filled
    <2> QED BY <1>5, <2>1, FlushKeepsRows DEF PatchCommit, ReferencesResolve, InventoryTypeOK, Assignment
<1>6. CASE RemoveCommit(h)
    <2> SUFFICES ASSUME ~Refuse(h) PROVE ReferencesResolve'
        BY <1>r, <1>c, <1>6 DEF RemoveCommit
    <2> QED BY <1>6 DEF RemoveCommit, ReferencesResolve, InventoryTypeOK, Assignment
<1>7. CASE DeleteReadDeployments(h)
    <2> DEFINE t == [s EXCEPT !.at = "delete_links", !.seen = DeploymentsOf(s.cluster)]
    <2>1. SoundReads(t)
        BY <1>0 DEF SoundReads, Session
    <2> QED BY <1>7, <1>r, <1>s, <2>1 DEF DeleteReadDeployments
<1>8. CASE DeleteReadLinks(h)
    <2> DEFINE t == [s EXCEPT !.at = "delete_assets", !.links = AssignmentsOf(s.cluster)]
    <2>1. SoundReads(t)
        BY <1>0 DEF SoundReads, Session
    <2> QED BY <1>8, <1>s, <2>1 DEF DeleteReadLinks
<1>9. CASE DeleteCommit(h)
    <2> SUFFICES ASSUME ~Refuse(h) PROVE ReferencesResolve'
        BY <1>r, <1>c, <1>9 DEF DeleteCommit
    <2>1. HasRow(Free)
        BY DEF HasRow, Free, AssetStatus
    <2>2. ASSUME NEW a \in Assets, HasRow(asset[a]) PROVE HasRow(asset'[a])
        <3> DEFINE rows == Flush(s, Free)
        <3>1. HasRow(rows[a]) /\ rows \in [Assets -> AssetRow]
            BY <1>0, <2>1, <2>2, FlushKeepsRows, FlushType, Records DEF InventoryTypeOK
        <3>2. asset' = Unlink(rows, s.cluster)
            BY <1>9 DEF DeleteCommit
        <3>3. HasRow(Unlink(rows, s.cluster)[a])
            <4> HIDE DEF rows
            <4> QED BY <3>1 DEF Unlink, HasRow, AssetRow
        <3> QED BY <3>2, <3>3
    <2>3. ASSUME NEW x \in assignments' PROVE x.cluster \in clusters' /\ HasRow(asset'[x.asset])
        BY <1>9, <2>2, <2>3 DEF DeleteCommit, Deletable, AssignmentsOf, ReferencesResolve, InventoryTypeOK, Assignment
    <2>4. ASSUME NEW d \in Deployments, deployment'[d].phase # "absent" PROVE deployment'[d].cluster \in clusters'
        BY <1>9, <2>4 DEF DeleteCommit, Deletable, DeploymentsOf, NoDeployment, ReferencesResolve
    <2> QED BY <2>3, <2>4 DEF ReferencesResolve, HasRow
<1>10. CASE StartReadLinks(h)
    <2> DEFINE t == [s EXCEPT !.at = "start_assets", !.links = AssignmentsOf(s.cluster)]
    <2>1. SoundReads(t)
        BY <1>0 DEF SoundReads, Session
    <2> QED BY <1>10, <1>r, <1>s, <2>1 DEF StartReadLinks
<1>11. CASE StartReject(h)
    BY <1>11, <1>r DEF StartReject
<1>12. ASSUME NEW d \in Deployments, StartCommit(h, d) PROVE ReferencesResolve' /\ ReadsExist'
    <2> SUFFICES ASSUME ~Refuse(h) PROVE ReferencesResolve' /\ ReadsExist'
        BY <1>r
    <2> DEFINE t == [s EXCEPT !.at = "start_enqueue", !.dep = d]
    <2>1. SoundReads(t)
        BY <1>0 DEF SoundReads, Session
    <2>2. ReadsExist'
        BY <1>12, <2>1, ReadsSet DEF StartCommit
    <2>3. ReferencesResolve'
        BY <1>12 DEF StartCommit, ReferencesResolve, InventoryTypeOK, HasRow
    <2> QED BY <2>2, <2>3
<1>13. CASE StartEnqueue(h)
    <2> DEFINE t == [s EXCEPT !.at = "start_save"]
    <2>1. SoundReads(t)
        BY <1>0 DEF SoundReads, Session
    <2>2. ReadsExist'
        BY <1>13, <2>1, ReadsSet DEF StartEnqueue
    <2> QED BY <1>13, <2>2, RowsReferences DEF StartEnqueue
<1>14. CASE StartSave(h)
    <2>1. \A d \in Deployments : /\ deployment'[d].phase = deployment[d].phase
                                 /\ deployment'[d].cluster = deployment[d].cluster
        BY <1>14 DEF StartSave, InventoryTypeOK, DeploymentRow
    <2> QED BY <1>14, <1>c, <2>1 DEF StartSave, ReferencesResolve, HasRow
<1> QED BY <1>1, <1>2, <1>3, <1>4, <1>5, <1>6, <1>7, <1>8, <1>9, <1>10, <1>11, <1>12, <1>13, <1>14
        DEF Resume

LEMMA ApiReferences ==
    ASSUME InventoryTypeOK, ReferencesResolve, ReadsExist, InventoryNext
    PROVE  ReferencesResolve' /\ ReadsExist'
<1>1. ASSUME NEW c \in Clusters, CreateCluster(c) PROVE ReferencesResolve' /\ ReadsExist'
    BY <1>1 DEF CreateCluster, ReferencesResolve, ReadsExist, HasRow
<1>2. ASSUME NEW a \in Assets, CreateAsset(a) PROVE ReferencesResolve' /\ ReadsExist'
    <2>1. HasRow([Absent EXCEPT !.status = "discovered"])
        BY DEF HasRow, Absent, AssetStatus
    <2>2. \A b \in Assets : HasRow(asset[b]) => HasRow(asset'[b])
        BY <1>2, <2>1 DEF CreateAsset, InventoryTypeOK
    <2> QED BY <1>2, <2>2 DEF CreateAsset, ReferencesResolve, ReadsExist, InventoryTypeOK, Assignment, HasRow
<1>3. ASSUME NEW h \in Handlers, Abort(h) PROVE ReferencesResolve' /\ ReadsExist'
    BY <1>3, RowsReferences, ReadsSet, IdleReads DEF Abort, Refuse, Rows
<1> QED BY <1>1, <1>2, <1>3, BeginReferences, ResumeReferences DEF InventoryNext

\* A task's phase write neither creates nor removes a row, nor moves it to
\* another cluster.
LEMMA WritePhaseRow ==
    ASSUME InventoryTypeOK, NEW d \in Deployments, NEW ph \in Phases, WritePhase(d, ph)
    PROVE  \A e \in Deployments :
              /\ deployment'[e].cluster = deployment[e].cluster
              /\ deployment'[e].phase = IF e = d /\ deployment[e].phase # "absent" THEN ph ELSE deployment[e].phase
BY DEF WritePhase, InventoryTypeOK, DeploymentRow

LEMMA ReferencesStep == RefInv /\ [Next]_vars => RefInv'
<1> SUFFICES ASSUME RefInv, [Next]_vars PROVE ReferencesResolve' /\ ReadsExist'
    BY TypeStep DEF RefInv
<1> USE DEF RefInv
<1>t. InventoryTypeOK /\ worker \in [Workers -> Task]
    BY DEF TypeOK
<1>1. CASE ApiStep
    BY <1>1, <1>t, ApiReferences DEF ApiStep
<1>2. ASSUME NEW w \in Workers, NEW d \in Deployments, TaskTake(w, d) PROVE ReferencesResolve' /\ ReadsExist'
    BY <1>2, RowsReferences DEF TaskTake, ReadsExist
<1>3. ASSUME NEW w \in Workers, NEW ph \in Phases, WritePhase(worker[w].dep, ph), Running(w),
             UNCHANGED <<clusters, asset, assignments, session>>
      PROVE  ReferencesResolve' /\ ReadsExist'
    <2>1. worker[w].dep \in Deployments
        BY <1>t, <1>3 DEF Running, Task
    <2>2. \A e \in Deployments : /\ deployment'[e].cluster = deployment[e].cluster
                                 /\ deployment[e].phase = "absent" => deployment'[e].phase = "absent"
        BY <1>t, <1>3, <2>1, WritePhaseRow
    <2> QED BY <1>3, <2>2 DEF ReferencesResolve, ReadsExist, HasRow
<1>4. ASSUME NEW w \in Workers, NEW ph \in Phases, TaskPhase(w, ph) PROVE ReferencesResolve' /\ ReadsExist'
    BY <1>3, <1>4 DEF TaskPhase
<1>5. ASSUME NEW w \in Workers, TaskFail(w) PROVE ReferencesResolve' /\ ReadsExist'
    BY <1>3, <1>5 DEF TaskFail, Phases
<1>6. ASSUME NEW w \in Workers, TaskLost(w) PROVE ReferencesResolve' /\ ReadsExist'
    BY <1>6, RowsReferences DEF TaskLost, ReadsExist, inventoryVars
<1>7. ASSUME NEW d \in Deployments, Redeliver(d) PROVE ReferencesResolve' /\ ReadsExist'
    BY <1>7, RowsReferences DEF Redeliver, ReadsExist
<1>8. CASE UNCHANGED vars
    BY <1>8, RowsReferences DEF vars, inventoryVars, ReadsExist
<1> QED BY <1>1, <1>2, <1>4, <1>5, <1>6, <1>7, <1>8 DEF Next, WorkerStep

LEMMA ReferencesInit == Init => RefInv
<1> SUFFICES ASSUME Init PROVE ReferencesResolve /\ ReadsExist
    BY TypeInit DEF RefInv
<1>1. ReferencesResolve
    BY DEF Init, InventoryInit, ReferencesResolve, NoDeployment
<1>2. ReadsExist
    BY IdleReads DEF Init, InventoryInit, ReadsExist
<1> QED BY <1>1, <1>2

\* No interleaving of any number of requests and workers leaves an assignment
\* or a deployment pointing at a cluster or an asset that is gone.
THEOREM ReferencesHold == Spec => []ReferencesResolve
<1>1. RefInv => ReferencesResolve
    BY DEF RefInv
<1> QED BY <1>1, ReferencesInit, ReferencesStep, PTL DEF Spec

-----------------------------------------------------------------------------
(* One task per deployment.  delete_cluster looks at the deployments long     *)
(* before it commits, and start_deployment commits the row before it sends   *)
(* the message; the strengthening says what each of them may rely on in      *)
(* between.                                                                  *)

\* What delete_cluster read stays true: a finished deployment never restarts.
SeenAreDone == \A h \in Handlers : \A d \in session[h].seen : d \in minted /\ ~InFlight(d)

\* Nobody knows an id that was not minted.
FreshIds ==
    \A d \in Deployments \ minted :
        /\ deployment[d].phase = "absent" /\ queue[d] = 0
        /\ \A w \in Workers : worker[w].dep # d
        /\ \A h \in Handlers : session[h].dep # d

\* Between the commit of the row and the message, only this request knows it.
BeforeEnqueue ==
    \A h \in Handlers : session[h].at = "start_enqueue" =>
        LET d == session[h].dep IN
        /\ deployment[d].phase = "queued" /\ queue[d] = 0
        /\ \A w \in Workers : worker[w].dep # d
        /\ \A g \in Handlers : session[g].at = "start_enqueue" /\ session[g].dep = d => g = h

Waiting ==
    \A d \in Deployments : queue[d] > 0 =>
        /\ queue[d] = 1 /\ deployment[d].phase = "queued"
        /\ \A w \in Workers : worker[w].dep # d

Working ==
    \A w \in Workers : Running(w) =>
        /\ worker[w].at \notin Terminal
        /\ deployment[worker[w].dep].phase = worker[w].at
        /\ \A v \in Workers : worker[v].dep = worker[w].dep => v = w

Exclusive == SeenAreDone /\ FreshIds /\ BeforeEnqueue /\ Waiting /\ Working
TaskInv == TypeOK /\ Exclusive

\* A step that changes no phase, no message and no task, and gives no session
\* a deployment it did not have, keeps all of it.
LEMMA QuietStep ==
    ASSUME TypeOK, Exclusive,
           \A d \in Deployments : deployment'[d].phase = deployment[d].phase,
           minted \subseteq minted', UNCHANGED <<queue, worker>>,
           \A h \in Handlers : /\ session'[h].seen \subseteq session[h].seen
                               /\ session'[h].dep \in {session[h].dep, None}
                               /\ session'[h].at = "start_enqueue" =>
                                     session[h].at = "start_enqueue" /\ session'[h].dep = session[h].dep
    PROVE  Exclusive'
<1>t. /\ \A h \in Handlers : session[h] \in Session /\ Filled(session[h])
      /\ worker \in [Workers -> Task]
    BY DEF TypeOK, InventoryTypeOK
<1>1. SeenAreDone'
    BY <1>t DEF Exclusive, SeenAreDone, InFlight, Session
<1>2. FreshIds'
    BY InventoryConstants DEF Exclusive, FreshIds
<1>3. BeforeEnqueue'
    BY <1>t DEF Exclusive, BeforeEnqueue, Filled
<1>4. Waiting'
    BY DEF Exclusive, Waiting
<1>5. Working'
    BY <1>t DEF Exclusive, Working, Running, Task
<1> QED BY <1>1, <1>2, <1>3, <1>4, <1>5 DEF Exclusive

\* In particular a step of one session that attaches it to nothing new.
LEMMA QuietSession ==
    ASSUME TypeOK, Exclusive, NEW h \in Handlers, NEW s, Set(h, s),
           \A d \in Deployments : deployment'[d].phase = deployment[d].phase,
           minted \subseteq minted', UNCHANGED <<queue, worker>>,
           \/ Unattached(s)
           \/ s.seen = session[h].seen /\ s.dep = session[h].dep /\ s.at # "start_enqueue"
    PROVE  Exclusive'
<1>1. \A g \in Handlers : session'[g] = IF g = h THEN s ELSE session[g]
    BY DEF Set, TypeOK, InventoryTypeOK
<1> QED BY <1>1, QuietStep DEF Unattached

LEMMA QuietRefuse ==
    ASSUME TypeOK, Exclusive, NEW h \in Handlers, Refuse(h), UNCHANGED worker
    PROVE  Exclusive'
<1>1. Unattached(Idle)
    BY DEF Unattached, Idle
<1> QED BY <1>1, QuietSession DEF Refuse, Rows

LEMMA ResumeExclusive ==
    ASSUME TypeOK, Exclusive, NEW h \in Handlers, Resume(h), UNCHANGED worker
    PROVE  Exclusive'
<1> DEFINE s == session[h]
<1>0. s \in Session /\ Filled(s) /\ InventoryTypeOK
    BY DEF TypeOK, InventoryTypeOK
<1>i. Unattached(Idle)
    BY DEF Unattached, Idle
<1>1. ASSUME NEW a \in Assets, AssignRead(h, a) \/ ReadLinkedAsset(h, a) PROVE Exclusive'
    <2> DEFINE t == [s EXCEPT !.cache[a] = asset[a]]
    <2>1. t.seen = s.seen /\ t.dep = s.dep /\ t.at # "start_enqueue"
        BY <1>0, <1>1 DEF Session, AssignRead, ReadLinkedAsset
    <2> QED BY <1>1, <2>1, QuietSession, QuietRefuse DEF AssignRead, ReadLinkedAsset, Rows
<1>2. CASE AssignCommit(h) \/ UnassignCommit(h) \/ PatchCommit(h) \/ RemoveCommit(h)
    BY <1>2, <1>i, QuietSession, QuietRefuse DEF AssignCommit, UnassignCommit, PatchCommit, RemoveCommit
<1>3. CASE DeleteReadDeployments(h)
    <2> SUFFICES ASSUME ~Refuse(h) PROVE Exclusive'
        BY QuietRefuse
    <2> DEFINE found == DeploymentsOf(s.cluster)
               t == [s EXCEPT !.at = "delete_links", !.seen = found]
    <2>1. \A d \in found : d \in Deployments /\ d \in minted /\ ~InFlight(d)
        BY <1>3 DEF DeleteReadDeployments, DeploymentsOf, Exclusive, FreshIds
    <2>2. t.seen = found /\ t.dep = s.dep /\ t.at = "delete_links"
        BY <1>0 DEF Session
    <2>3. \A g \in Handlers : session'[g] = IF g = h THEN t ELSE session[g]
        BY <1>0, <1>3 DEF DeleteReadDeployments, Set, InventoryTypeOK
    <2>4. UNCHANGED <<deployment, minted, queue, worker>>
        BY <1>3 DEF DeleteReadDeployments, Rows
    <2> HIDE DEF t, found
    <2>5. SeenAreDone'
        BY <2>1, <2>2, <2>3, <2>4 DEF Exclusive, SeenAreDone, InFlight
    <2>6. FreshIds' /\ BeforeEnqueue'
        BY <2>2, <2>3, <2>4 DEF Exclusive, FreshIds, BeforeEnqueue
    <2>7. Waiting' /\ Working'
        BY <2>4 DEF Exclusive, Waiting, Working, Running
    <2> QED BY <2>5, <2>6, <2>7 DEF Exclusive
<1>4. CASE DeleteReadLinks(h)
    <2> DEFINE t == [s EXCEPT !.at = "delete_assets", !.links = AssignmentsOf(s.cluster)]
    <2>1. t.seen = s.seen /\ t.dep = s.dep /\ t.at # "start_enqueue"
        BY <1>0 DEF Session
    <2> QED BY <1>4, <2>1, QuietSession DEF DeleteReadLinks, Rows
<1>5. CASE DeleteCommit(h)
    <2> SUFFICES ASSUME ~Refuse(h) PROVE Exclusive'
        BY QuietRefuse
    <2>1. \A d \in s.seen : d \in Deployments /\ d \in minted /\ ~InFlight(d)
        BY <1>0 DEF Exclusive, SeenAreDone, Session
    <2>2. \A d \in Deployments : deployment'[d].phase = IF d \in s.seen THEN "absent" ELSE deployment[d].phase
        BY <1>5 DEF DeleteCommit, NoDeployment
    <2>3. \A g \in Handlers : session'[g] = IF g = h THEN Idle ELSE session[g]
        BY <1>0, <1>5 DEF DeleteCommit, Set, InventoryTypeOK
    <2>4. UNCHANGED <<minted, queue, worker>>
        BY <1>5 DEF DeleteCommit
    <2>5. \A d \in Deployments : InFlight(d) => deployment'[d].phase = deployment[d].phase
        BY <2>1, <2>2
    <2>6. SeenAreDone'
        BY <1>0, <1>i, <2>2, <2>3, <2>4 DEF Exclusive, SeenAreDone, InFlight, Unattached, Phases,
           Session, TypeOK, InventoryTypeOK
    <2>7. FreshIds'
        BY <1>i, <2>2, <2>3, <2>4, InventoryConstants DEF Exclusive, FreshIds, Unattached
    <2>8. BeforeEnqueue'
        BY <1>0, <1>i, <2>3, <2>4, <2>5 DEF Exclusive, BeforeEnqueue, Unattached, InFlight, Phases, Terminal,
           InventoryTypeOK, Filled
    <2>9. Waiting'
        BY <2>4, <2>5 DEF Exclusive, Waiting, InFlight, Phases, Terminal
    <2>10. Working'
        BY <2>4, <2>5 DEF Exclusive, Working, Running, InFlight, TypeOK, Task
    <2> QED BY <2>6, <2>7, <2>8, <2>9, <2>10 DEF Exclusive
<1>6. CASE StartReadLinks(h)
    <2> DEFINE t == [s EXCEPT !.at = "start_assets", !.links = AssignmentsOf(s.cluster)]
    <2>1. t.seen = s.seen /\ t.dep = s.dep /\ t.at # "start_enqueue"
        BY <1>0 DEF Session
    <2> QED BY <1>6, <2>1, QuietSession, QuietRefuse DEF StartReadLinks, Rows
<1>7. CASE StartReject(h)
    BY <1>7, QuietRefuse DEF StartReject
<1>8. ASSUME NEW d \in Deployments, StartCommit(h, d) PROVE Exclusive'
    <2> SUFFICES ASSUME ~Refuse(h) PROVE Exclusive'
        BY QuietRefuse
    <2> DEFINE t == [s EXCEPT !.at = "start_enqueue", !.dep = d]
    <2>1. t.seen = s.seen /\ t.dep = d /\ t.at = "start_enqueue"
        BY <1>0 DEF Session
    <2>2. \A g \in Handlers : session'[g] = IF g = h THEN t ELSE session[g]
        BY <1>0, <1>8 DEF StartCommit, Set, InventoryTypeOK
    <2>3. /\ d \notin minted
          /\ minted' = minted \cup {d}
          /\ UNCHANGED <<queue, worker>>
        BY <1>8 DEF StartCommit
    <2>4. \A e \in Deployments : deployment'[e].phase = IF e = d THEN "queued" ELSE deployment[e].phase
        BY <1>0, <1>8 DEF StartCommit, InventoryTypeOK
    <2> HIDE DEF t
    <2>5. /\ deployment[d].phase = "absent" /\ queue[d] = 0
          /\ \A w \in Workers : worker[w].dep # d
          /\ \A g \in Handlers : session[g].dep # d /\ d \notin session[g].seen
        BY <2>3 DEF Exclusive, FreshIds, SeenAreDone
    <2>6. SeenAreDone'
        BY <1>0, <2>1, <2>2, <2>3, <2>4, <2>5 DEF Exclusive, SeenAreDone, InFlight, InventoryTypeOK, Session
    <2>7. FreshIds'
        BY <2>1, <2>2, <2>3, <2>4 DEF Exclusive, FreshIds
    <2>8. BeforeEnqueue'
        BY <1>0, <2>1, <2>2, <2>3, <2>4, <2>5 DEF Exclusive, BeforeEnqueue, InventoryTypeOK, Filled
    <2>9. Waiting'
        BY <2>3, <2>4, <2>5 DEF Exclusive, Waiting
    <2>10. Working'
        BY <2>3, <2>4, <2>5 DEF Exclusive, Working, Running, TypeOK, Task
    <2> QED BY <2>6, <2>7, <2>8, <2>9, <2>10 DEF Exclusive
<1>9. CASE StartEnqueue(h)
    <2> DEFINE t == [s EXCEPT !.at = "start_save"]
               d == s.dep
    <2>1. t.seen = s.seen /\ t.dep = d /\ t.at = "start_save"
        BY <1>0 DEF Session
    <2>2. \A g \in Handlers : session'[g] = IF g = h THEN t ELSE session[g]
        BY <1>0, <1>9 DEF StartEnqueue, Set, InventoryTypeOK
    <2>3. d \in Deployments /\ s.at = "start_enqueue"
        BY <1>0, <1>9 DEF StartEnqueue, Filled
    <2>4. UNCHANGED <<deployment, minted, worker>>
        BY <1>9 DEF StartEnqueue
    <2>5. /\ deployment[d].phase = "queued" /\ queue[d] = 0
          /\ \A w \in Workers : worker[w].dep # d
          /\ \A g \in Handlers : session[g].at = "start_enqueue" /\ session[g].dep = d => g = h
        BY <2>3 DEF Exclusive, BeforeEnqueue
    <2>6. \A e \in Deployments : queue'[e] = IF e = d THEN 1 ELSE queue[e]
        BY <1>0, <1>9, <2>3, <2>5 DEF StartEnqueue, InventoryTypeOK
    <2>7. d \in minted
        BY <2>3, <2>5 DEF Exclusive, FreshIds
    <2> HIDE DEF t, d
    <2>8. SeenAreDone'
        BY <2>1, <2>2, <2>4 DEF Exclusive, SeenAreDone, InFlight
    <2>9. FreshIds'
        BY <2>1, <2>2, <2>4, <2>6, <2>7 DEF Exclusive, FreshIds
    <2>10. BeforeEnqueue'
        BY <1>0, <2>1, <2>2, <2>4, <2>5, <2>6 DEF Exclusive, BeforeEnqueue, InventoryTypeOK, Filled
    <2>11. Waiting'
        BY <2>4, <2>5, <2>6 DEF Exclusive, Waiting
    <2>12. Working'
        BY <2>4 DEF Exclusive, Working, Running
    <2> QED BY <2>8, <2>9, <2>10, <2>11, <2>12 DEF Exclusive
<1>10. CASE StartSave(h)
    <2>1. \A d \in Deployments : deployment'[d].phase = deployment[d].phase
        BY <1>0, <1>10 DEF StartSave, InventoryTypeOK, DeploymentRow
    <2> QED BY <1>10, <1>i, <2>1, QuietSession DEF StartSave
<1> QED BY <1>1, <1>2, <1>3, <1>4, <1>5, <1>6, <1>7, <1>8, <1>9, <1>10 DEF Resume

LEMMA ApiExclusive ==
    ASSUME TypeOK, Exclusive, ApiStep
    PROVE  Exclusive'
<1>w. UNCHANGED worker
    BY DEF ApiStep
<1>1. ASSUME NEW c \in Clusters, CreateCluster(c) PROVE Exclusive'
    BY <1>1, <1>w, QuietStep DEF CreateCluster
<1>2. ASSUME NEW a \in Assets, CreateAsset(a) PROVE Exclusive'
    BY <1>2, <1>w, QuietStep DEF CreateAsset
<1>3. ASSUME NEW h \in Handlers, Begin(h) PROVE Exclusive'
    BY <1>3, <1>w, BeginShape, QuietSession DEF Rows
<1>4. ASSUME NEW h \in Handlers, Abort(h) PROVE Exclusive'
    BY <1>4, <1>w, QuietRefuse DEF Abort
<1> QED BY <1>w, <1>1, <1>2, <1>3, <1>4, ResumeExclusive DEF ApiStep, InventoryNext

\* A running task writes ph on its row, and either ends or goes on in ph.
LEMMA WriteExclusive ==
    ASSUME TypeOK, Exclusive, NEW w \in Workers, Running(w), NEW ph \in Phases,
           WritePhase(worker[w].dep, ph),
           \A v \in Workers \ {w} : worker'[v] = worker[v],
           \/ worker'[w].dep = None
           \/ worker'[w].dep = worker[w].dep /\ worker'[w].at = ph /\ ph \notin Terminal,
           UNCHANGED <<minted, queue, session>>
    PROVE  Exclusive'
<1> DEFINE d == worker[w].dep
<1>t. InventoryTypeOK /\ worker \in [Workers -> Task] /\ worker[w] \in Task
    BY DEF TypeOK
<1>1. d \in Deployments /\ d # None
    BY <1>t DEF Running, Task
<1>2. /\ deployment[d].phase = worker[w].at
      /\ worker[w].at \in Phases \ Terminal
      /\ \A v \in Workers : worker[v].dep = d => v = w
    BY <1>t, <1>1 DEF Exclusive, Working, Running, Task
<1>3. InFlight(d) /\ deployment[d].phase # "absent"
    BY <1>2 DEF InFlight, Phases
<1>4. \A e \in Deployments : deployment'[e].phase = IF e = d THEN ph ELSE deployment[e].phase
    BY <1>t, <1>1, <1>3, WritePhaseRow
<1>5. \/ worker'[w].dep = None
      \/ worker'[w].dep = d /\ worker'[w].at = ph /\ ph \notin Terminal
    OBVIOUS
<1>6. d \in minted /\ queue[d] = 0
    <2>1. d \in minted
        BY <1>1 DEF Exclusive, FreshIds
    <2>2. ~(queue[d] > 0)
        BY <1>1 DEF Exclusive, Waiting
    <2>3. queue[d] \in Nat
        BY <1>t, <1>1 DEF InventoryTypeOK
    <2> QED BY <2>1, <2>2, <2>3
<1> HIDE DEF d
<1>7. SeenAreDone'
    BY <1>t, <1>3, <1>4 DEF Exclusive, SeenAreDone, InFlight, InventoryTypeOK, Session
<1>8. FreshIds'
    BY <1>4, <1>5, <1>6, InventoryConstants DEF Exclusive, FreshIds
<1>9. BeforeEnqueue'
    BY <1>t, <1>4, <1>5, InventoryConstants DEF Exclusive, BeforeEnqueue, InventoryTypeOK, Filled, d
<1>10. Waiting'
    BY <1>4, <1>5, <1>6, InventoryConstants DEF Exclusive, Waiting
<1>11. Working'
    BY <1>t, <1>1, <1>2, <1>4, <1>5 DEF Exclusive, Working, Running, Task, d
<1> QED BY <1>7, <1>8, <1>9, <1>10, <1>11 DEF Exclusive

LEMMA TaskStep ==
    ASSUME MaxRedeliveries = 0, TaskInv, [Next]_vars
    PROVE  TaskInv'
<1> SUFFICES Exclusive'
    BY TypeStep DEF TaskInv
<1> USE DEF TaskInv
<1>t. InventoryTypeOK /\ worker \in [Workers -> Task] /\ redeliveries \in Nat
    BY DEF TypeOK
<1>1. CASE ApiStep
    BY <1>1, ApiExclusive
<1>2. ASSUME NEW w \in Workers, NEW d \in Deployments, TaskTake(w, d) PROVE Exclusive'
    <2>1. /\ queue[d] = 1 /\ deployment[d].phase = "queued"
          /\ \A v \in Workers : worker[v].dep # d
        BY <1>2 DEF TaskTake, Exclusive, Waiting
    <2>2. \A e \in Deployments : queue'[e] = IF e = d THEN 0 ELSE queue[e]
        BY <1>t, <1>2, <2>1 DEF TaskTake, InventoryTypeOK
    <2>3. \A v \in Workers : worker'[v] = IF v = w THEN [dep |-> d, at |-> "queued"] ELSE worker[v]
        BY <1>t, <1>2 DEF TaskTake
    <2>4. UNCHANGED <<deployment, minted, session>>
        BY <1>2 DEF TaskTake
    <2>5. d \in minted /\ \A h \in Handlers : ~(session[h].at = "start_enqueue" /\ session[h].dep = d)
        BY <2>1 DEF Exclusive, FreshIds, BeforeEnqueue
    <2>6. SeenAreDone'
        BY <2>4 DEF Exclusive, SeenAreDone, InFlight
    <2>7. FreshIds'
        BY <2>2, <2>3, <2>4, <2>5 DEF Exclusive, FreshIds
    <2>8. BeforeEnqueue'
        BY <1>t, <2>2, <2>3, <2>4, <2>5 DEF Exclusive, BeforeEnqueue, InventoryTypeOK, Filled
    <2>9. Waiting'
        BY <2>2, <2>3, <2>4 DEF Exclusive, Waiting
    <2>10. Working'
        BY <2>1, <2>3, <2>4 DEF Exclusive, Working, Running, Terminal
    <2> QED BY <2>6, <2>7, <2>8, <2>9, <2>10 DEF Exclusive
<1>3. ASSUME NEW w \in Workers, NEW ph \in Phases, TaskPhase(w, ph) PROVE Exclusive'
    <2>1. ph \notin Terminal \/ ph = "complete"
        BY <1>3 DEF TaskPhase, PhaseSteps, Terminal
    <2>2. \A v \in Workers : worker'[v] = IF v # w THEN worker[v]
                                        ELSE IF ph = "complete" THEN NoTask ELSE [worker[w] EXCEPT !.at = ph]
        BY <1>t, <1>3 DEF TaskPhase
    <2>3. worker[w] \in Task
        BY <1>t
    <2>4. \/ worker'[w].dep = None
          \/ worker'[w].dep = worker[w].dep /\ worker'[w].at = ph /\ ph \notin Terminal
        BY <2>1, <2>2, <2>3 DEF Task, NoTask
    <2>5. Running(w) /\ WritePhase(worker[w].dep, ph) /\ UNCHANGED <<minted, queue, session>>
        BY <1>3 DEF TaskPhase
    <2> QED BY <2>2, <2>4, <2>5, WriteExclusive
<1>4. ASSUME NEW w \in Workers, TaskFail(w) PROVE Exclusive'
    <2>1. worker'[w].dep = None /\ \A v \in Workers \ {w} : worker'[v] = worker[v]
        BY <1>t, <1>4 DEF TaskFail, NoTask
    <2>2. Running(w) /\ WritePhase(worker[w].dep, "failed") /\ UNCHANGED <<minted, queue, session>>
        BY <1>4 DEF TaskFail
    <2>3. "failed" \in Phases
        BY DEF Phases
    <2> QED BY <2>1, <2>2, <2>3, WriteExclusive
<1>5. ASSUME NEW w \in Workers, TaskLost(w) PROVE Exclusive'
    <2>1. \A v \in Workers : worker'[v] = IF v = w THEN NoTask ELSE worker[v]
        BY <1>t, <1>5 DEF TaskLost
    <2>2. UNCHANGED <<deployment, minted, queue, session>>
        BY <1>5 DEF TaskLost, inventoryVars
    <2>3. SeenAreDone'
        BY <2>2 DEF Exclusive, SeenAreDone, InFlight
    <2>4. FreshIds'
        BY <2>1, <2>2, InventoryConstants DEF Exclusive, FreshIds, NoTask
    <2>5. BeforeEnqueue'
        BY <1>t, <2>1, <2>2, InventoryConstants DEF Exclusive, BeforeEnqueue, NoTask, InventoryTypeOK, Filled
    <2>6. Waiting'
        BY <2>1, <2>2, InventoryConstants DEF Exclusive, Waiting, NoTask
    <2>7. Working'
        BY <2>1, <2>2 DEF Exclusive, Working, Running, NoTask
    <2> QED BY <2>3, <2>4, <2>5, <2>6, <2>7 DEF Exclusive
<1>6. ASSUME NEW d \in Deployments, Redeliver(d) PROVE Exclusive'
    BY <1>6, <1>t DEF Redeliver
<1>7. CASE UNCHANGED vars
    BY <1>7, QuietStep DEF vars, inventoryVars
<1> QED BY <1>1, <1>2, <1>3, <1>4, <1>5, <1>6, <1>7 DEF Next, WorkerStep

LEMMA TaskInit == Init => TaskInv
<1> SUFFICES ASSUME Init PROVE Exclusive
    BY TypeInit DEF TaskInv
<1>1. \A h \in Handlers : session[h].seen = {} /\ session[h].dep = None /\ session[h].at = "idle"
    BY DEF Init, InventoryInit, Idle
<1>2. \A w \in Workers : worker[w].dep = None
    BY DEF Init, NoTask
<1>3. \A d \in Deployments : deployment[d].phase = "absent" /\ queue[d] = 0
    BY DEF Init, InventoryInit, NoDeployment
<1> QED BY <1>1, <1>2, <1>3, InventoryConstants
        DEF Exclusive, SeenAreDone, FreshIds, BeforeEnqueue, Waiting, Working, Running

LEMMA TaskInvariant == ASSUME MaxRedeliveries = 0 PROVE Spec => [](TaskInv /\ RefInv)
<1>1. TaskInv /\ [Next]_vars => TaskInv'
    BY TaskStep
<1> QED BY <1>1, TaskInit, ReferencesInit, ReferencesStep, PTL DEF Spec

\* As long as the broker hands every message out once, a deployment never has
\* two messages, two workers, or a message and a worker.
THEOREM TasksAreExclusive ==
    ASSUME MaxRedeliveries = 0
    PROVE  Spec => []OneTaskPerDeployment
<1>1. TaskInv => OneTaskPerDeployment
    <2> SUFFICES ASSUME TaskInv, NEW d \in Deployments
                 PROVE  /\ queue[d] <= 1
                        /\ \A w \in Workers : worker[w].dep = d =>
                              queue[d] = 0 /\ \A v \in Workers : worker[v].dep = d => v = w
        BY DEF OneTaskPerDeployment
    <2>1. queue[d] \in Nat /\ d # None
        BY InventoryConstants DEF TaskInv, TypeOK, InventoryTypeOK
    <2> QED BY <2>1 DEF TaskInv, Exclusive, Waiting, Working, Running
<1> QED BY <1>1, TaskInvariant, PTL

\* ... and the row shows the phase its task is in: the second commit of
\* start_deployment cannot put "queued" back, and no delete removes the row.
THEOREM RowsFollowTasks ==
    ASSUME MaxRedeliveries = 0
    PROVE  Spec => []RowFollowsTask
<1>1. TaskInv => RowFollowsTask
    BY DEF TaskInv, Exclusive, Working, RowFollowsTask
<1> QED BY <1>1, TaskInvariant, PTL

\* ... and the cluster of a queued or running task exists, although
\* delete_cluster does not lock the deployments it checked.
THEOREM TasksHaveClusters ==
    ASSUME MaxRedeliveries = 0
    PROVE  Spec => []TaskHasCluster
<1>1. TaskInv /\ RefInv => TaskHasCluster
    <2> SUFFICES ASSUME TaskInv, RefInv, NEW d \in Deployments,
                        queue[d] > 0 \/ (\E w \in Workers : worker[w].dep = d)
                 PROVE  InFlight(d) /\ deployment[d].cluster \in clusters
        BY DEF TaskHasCluster
    <2>1. worker \in [Workers -> Task] /\ d # None
        BY InventoryConstants DEF TaskInv, TypeOK
    <2>2. InFlight(d)
        <3>1. CASE queue[d] > 0
            BY <3>1 DEF TaskInv, Exclusive, Waiting, InFlight, Phases, Terminal
        <3>2. ASSUME NEW w \in Workers, worker[w].dep = d PROVE InFlight(d)
            BY <2>1, <3>2 DEF TaskInv, Exclusive, Working, Running, InFlight, Task
        <3> QED BY <3>1, <3>2
    <2>3. deployment[d].phase # "absent"
        BY <2>2 DEF InFlight, Phases
    <2> QED BY <2>2, <2>3 DEF RefInv, ReferencesResolve
<1> QED BY <1>1, TaskInvariant, PTL

\* ... and a deployment only moves forward, whoever writes or deletes its row.
THEOREM PhasesMoveForward ==
    ASSUME MaxRedeliveries = 0
    PROVE  Spec => PhaseForward
<1> DEFINE Forward(d) ==
        LET before == deployment[d].phase
            after  == deployment'[d].phase
        IN  \/ after = before
            \/ before = "absent" /\ after = "queued"
            \/ <<before, after>> \in PhaseSteps
            \/ InFlight(d) /\ after = "failed"
            \/ before \in Terminal /\ after = "absent"
<1>1. ASSUME TaskInv, [Next]_vars, NEW d \in Deployments PROVE Forward(d)
    <2>t. InventoryTypeOK /\ worker \in [Workers -> Task]
        BY <1>1 DEF TaskInv, TypeOK
    <2>1. ASSUME UNCHANGED deployment PROVE Forward(d)
        BY <2>1
    <2>2. ASSUME NEW h \in Handlers, Resume(h) PROVE Forward(d)
        <3>1. CASE DeleteCommit(h)
            <4>1. d \in session[h].seen => d \in minted /\ ~InFlight(d) /\ deployment[d] \in DeploymentRow
                BY <1>1, <2>t, <2>2 DEF TaskInv, Exclusive, SeenAreDone, InventoryTypeOK
            <4>2. deployment'[d] = deployment[d] \/ (d \in session[h].seen /\ deployment'[d].phase = "absent")
                BY <2>t, <3>1 DEF DeleteCommit, NoDeployment, Refuse, Rows, InventoryTypeOK
            <4> QED BY <4>1, <4>2 DEF InFlight, DeploymentRow
        <3>2. CASE StartSave(h)
            BY <2>t, <3>2 DEF StartSave, InventoryTypeOK, DeploymentRow
        <3>3. ASSUME NEW e \in Deployments, StartCommit(h, e) PROVE Forward(d)
            <4>1. deployment[e].phase = "absent"
                BY <1>1, <3>3 DEF StartCommit, TaskInv, Exclusive, FreshIds
            <4>2. deployment'[d] = deployment[d] \/ (d = e /\ deployment'[d].phase = "queued")
                BY <2>t, <3>3 DEF StartCommit, Refuse, Rows, InventoryTypeOK
            <4> QED BY <4>1, <4>2
        <3>4. UNCHANGED deployment \/ DeleteCommit(h) \/ StartSave(h) \/ \E e \in Deployments : StartCommit(h, e)
            BY <2>2 DEF Resume, AssignRead, ReadLinkedAsset, AssignCommit, UnassignCommit, PatchCommit,
               RemoveCommit, DeleteReadDeployments, DeleteReadLinks, StartReadLinks, StartReject,
               StartEnqueue, Refuse, Rows
        <3> QED BY <2>1, <3>1, <3>2, <3>3, <3>4
    <2>3. CASE ApiStep
        <3>1. UNCHANGED deployment \/ \E h \in Handlers : Resume(h)
            BY <2>3, BeginShape DEF ApiStep, InventoryNext, CreateCluster, CreateAsset, Abort, Refuse, Rows
        <3> QED BY <2>1, <2>2, <3>1
    <2>4. ASSUME NEW w \in Workers, Running(w)
          PROVE  /\ worker[w].dep \in Deployments
                 /\ deployment[worker[w].dep].phase = worker[w].at
                 /\ InFlight(worker[w].dep)
        <3>1. worker[w].dep \in Deployments /\ worker[w].at \in Phases
            BY <2>t, <2>4 DEF Running, Task
        <3> QED BY <1>1, <2>4, <3>1 DEF TaskInv, Exclusive, Working, InFlight
    <2>5. ASSUME NEW w \in Workers, NEW ph \in Phases, TaskPhase(w, ph) PROVE Forward(d)
        BY <2>t, <2>4, <2>5, WritePhaseRow DEF TaskPhase
    <2>6. ASSUME NEW w \in Workers, TaskFail(w) PROVE Forward(d)
        BY <2>t, <2>4, <2>6, WritePhaseRow DEF TaskFail, Phases
    <2>7. CASE UNCHANGED deployment
        BY <2>1, <2>7
    <2> QED BY <1>1, <2>3, <2>5, <2>6, <2>7
            DEF Next, WorkerStep, TaskTake, TaskLost, Redeliver, vars, inventoryVars
<1>2. ASSUME TaskInv, [Next]_vars PROVE [\A d \in Deployments : Forward(d)]_vars
    BY <1>1, <1>2
<1> QED BY <1>2, TaskInvariant, PTL DEF Spec, PhaseForward
-----------------------------------------------------------------------------
(* What DeploymentEnds rests on: somebody is always going to work on a       *)
(* deployment in flight, and what happens to one that nobody works on.       *)

InHand(d) ==
    \/ queue[d] > 0
    \/ \E w \in Workers : worker[w].dep = d
    \/ \E h \in Handlers : session[h].at = "start_enqueue" /\ session[h].dep = d

Abandoned(d) == InFlight(d) /\ ~InHand(d)

\* A request inserts a new deployment and will send its message, ...
Accepts(h, d) ==
    /\ d \notin minted /\ session[h].at # "start_enqueue"
    /\ session'[h].at = "start_enqueue" /\ session'[h].dep = d
    /\ deployment'[d].phase = "queued"
    /\ \A e \in Deployments \ {d} : deployment'[e] = deployment[e]
    /\ UNCHANGED queue

\* ... sends it, ...
Sends(h) ==
    /\ session[h].at = "start_enqueue" /\ session'[h].at # "start_enqueue"
    /\ session[h].dep \in Deployments
    /\ queue' = [queue EXCEPT ![session[h].dep] = @ + 1]
    /\ UNCHANGED deployment

\* ... or has nothing to do with messages, and removes rows it saw at most.
Minds(h) ==
    /\ session[h].at # "start_enqueue" /\ session'[h].at # "start_enqueue"
    /\ UNCHANGED queue
    /\ \A d \in Deployments :
          \/ /\ deployment'[d].phase = deployment[d].phase
             /\ deployment'[d].cluster = deployment[d].cluster
          \/ d \in session[h].seen /\ deployment'[d].phase = "absent"

LEMMA RefuseMinds ==
    ASSUME InventoryTypeOK, NEW h \in Handlers, Refuse(h), session[h].at # "start_enqueue"
    PROVE  Minds(h)
<1>1. session'[h] = Idle /\ UNCHANGED <<queue, deployment>>
    BY DEF Refuse, Set, Rows, InventoryTypeOK
<1> QED BY <1>1 DEF Minds, Idle

LEMMA MoveMinds ==
    ASSUME InventoryTypeOK, NEW h \in Handlers, NEW t, Set(h, t), t.at # "start_enqueue",
           session[h].at # "start_enqueue", UNCHANGED <<queue, deployment>>
    PROVE  Minds(h)
<1>1. session'[h] = t
    BY DEF Set, InventoryTypeOK
<1> QED BY <1>1 DEF Minds

\* Every step of a request is one of the three, and touches no other request.
LEMMA ResumeTouches ==
    ASSUME InventoryTypeOK, NEW h \in Handlers, Resume(h)
    PROVE  /\ \A g \in Handlers \ {h} : session'[g] = session[g]
           /\ Minds(h) \/ Sends(h) \/ \E d \in Deployments : Accepts(h, d)
<1> DEFINE s == session[h]
<1>0. /\ s \in Session /\ Filled(s) /\ session \in [Handlers -> Session]
      /\ deployment \in [Deployments -> DeploymentRow]
    BY DEF InventoryTypeOK
<1>1. \A g \in Handlers \ {h} : session'[g] = session[g]
    <2>1. ASSUME NEW t, Set(h, t) PROVE \A g \in Handlers \ {h} : session'[g] = session[g]
        BY <1>0, <2>1 DEF Set
    <2>2. CASE \E a \in Assets : AssignRead(h, a) \/ ReadLinkedAsset(h, a)
        BY <2>1, <2>2 DEF AssignRead, ReadLinkedAsset, Refuse
    <2>3. CASE AssignCommit(h) \/ UnassignCommit(h) \/ PatchCommit(h) \/ RemoveCommit(h)
        BY <2>1, <2>3 DEF AssignCommit, UnassignCommit, PatchCommit, RemoveCommit, Refuse
    <2>4. CASE DeleteReadDeployments(h) \/ DeleteReadLinks(h) \/ DeleteCommit(h)
        BY <2>1, <2>4 DEF DeleteReadDeployments, DeleteReadLinks, DeleteCommit, Refuse
    <2>5. CASE StartReadLinks(h) \/ StartReject(h) \/ StartEnqueue(h) \/ StartSave(h)
        BY <2>1, <2>5 DEF StartReadLinks, StartReject, StartEnqueue, StartSave, Refuse
    <2>6. CASE \E d \in Deployments : StartCommit(h, d)
        BY <2>1, <2>6 DEF StartCommit, Refuse
    <2> QED BY <2>2, <2>3, <2>4, <2>5, <2>6 DEF Resume
<1>3. ASSUME NEW a \in Assets, AssignRead(h, a) \/ ReadLinkedAsset(h, a) PROVE Minds(h)
    <2> DEFINE t == [s EXCEPT !.cache[a] = asset[a]]
    <2>1. t.at = s.at /\ s.at # "start_enqueue"
        BY <1>0, <1>3 DEF Session, AssignRead, ReadLinkedAsset
    <2> QED BY <1>3, <2>1, MoveMinds, RefuseMinds DEF AssignRead, ReadLinkedAsset, Rows
<1>4. ASSUME AssignCommit(h) \/ UnassignCommit(h) \/ PatchCommit(h) \/ RemoveCommit(h) PROVE Minds(h)
    <2>1. s.at # "start_enqueue" /\ Idle.at # "start_enqueue"
        BY <1>4 DEF AssignCommit, UnassignCommit, PatchCommit, RemoveCommit, Idle
    <2>2. Refuse(h) \/ (Set(h, Idle) /\ UNCHANGED <<queue, deployment>>)
        BY <1>4 DEF AssignCommit, UnassignCommit, PatchCommit, RemoveCommit
    <2> QED BY <2>1, <2>2, MoveMinds, RefuseMinds
<1>5. ASSUME DeleteReadDeployments(h) \/ DeleteReadLinks(h) \/ StartReadLinks(h) \/ StartReject(h) PROVE Minds(h)
    <2>1. s.at # "start_enqueue"
        BY <1>5 DEF DeleteReadDeployments, DeleteReadLinks, StartReadLinks, StartReject
    <2>3. CASE DeleteReadDeployments(h)
        <3> DEFINE t == [s EXCEPT !.at = "delete_links", !.seen = DeploymentsOf(s.cluster)]
        <3>1. t.at = "delete_links"
            BY <1>0 DEF Session
        <3> QED BY <2>1, <2>3, <3>1, MoveMinds, RefuseMinds DEF DeleteReadDeployments, Rows
    <2>4. CASE DeleteReadLinks(h)
        <3> DEFINE t == [s EXCEPT !.at = "delete_assets", !.links = AssignmentsOf(s.cluster)]
        <3>1. t.at = "delete_assets"
            BY <1>0 DEF Session
        <3> QED BY <2>1, <2>4, <3>1, MoveMinds DEF DeleteReadLinks, Rows
    <2>5. CASE StartReadLinks(h)
        <3> DEFINE t == [s EXCEPT !.at = "start_assets", !.links = AssignmentsOf(s.cluster)]
        <3>1. t.at = "start_assets"
            BY <1>0 DEF Session
        <3> QED BY <2>1, <2>5, <3>1, MoveMinds, RefuseMinds DEF StartReadLinks, Rows
    <2> QED BY <1>5, <2>1, <2>3, <2>4, <2>5, RefuseMinds DEF StartReject
<1>6. ASSUME DeleteCommit(h) PROVE Minds(h)
    <2>1. s.at # "start_enqueue" /\ Idle.at # "start_enqueue"
        BY <1>6 DEF DeleteCommit, Idle
    <2>2. ASSUME ~Refuse(h) PROVE Minds(h)
        <3>1. session'[h] = Idle /\ UNCHANGED queue
            BY <1>0, <1>6, <2>2 DEF DeleteCommit, Set
        <3>2. deployment' = [d \in Deployments |-> IF d \in s.seen THEN NoDeployment ELSE deployment[d]]
            BY <1>6, <2>2 DEF DeleteCommit
        <3> QED BY <2>1, <3>1, <3>2 DEF Minds, NoDeployment
    <2> QED BY <2>1, <2>2, RefuseMinds
<1>7. ASSUME NEW d \in Deployments, StartCommit(h, d) PROVE Minds(h) \/ Accepts(h, d)
    <2>1. s.at # "start_enqueue" /\ d \notin minted
        BY <1>7 DEF StartCommit
    <2>2. ASSUME ~Refuse(h) PROVE Accepts(h, d)
        <3> DEFINE t == [s EXCEPT !.at = "start_enqueue", !.dep = d]
        <3>1. t.at = "start_enqueue" /\ t.dep = d
            BY <1>0 DEF Session
        <3>2. session'[h] = t /\ UNCHANGED queue
            BY <1>0, <1>7, <2>2 DEF StartCommit, Set
        <3>3. deployment' = [deployment EXCEPT ![d] =
                                [phase |-> "queued", cluster |-> s.cluster, tracked |-> FALSE]]
            BY <1>7, <2>2 DEF StartCommit
        <3> HIDE DEF t
        <3> QED BY <1>0, <2>1, <3>1, <3>2, <3>3 DEF Accepts
    <2> QED BY <2>1, <2>2, RefuseMinds
<1>8. ASSUME StartEnqueue(h) PROVE Sends(h)
    <2> DEFINE t == [s EXCEPT !.at = "start_save"]
    <2>1. t.at = "start_save" /\ session'[h] = t /\ s.dep \in Deployments
        BY <1>0, <1>8 DEF StartEnqueue, Set, Session, Filled
    <2> HIDE DEF t
    <2> QED BY <1>8, <2>1 DEF StartEnqueue, Sends
<1>9. ASSUME StartSave(h) PROVE Minds(h)
    <2>1. /\ s.at = "start_save" /\ session'[h] = Idle /\ s.dep \in Deployments /\ UNCHANGED queue
          /\ deployment' = [deployment EXCEPT ![s.dep].tracked = deployment[s.dep].phase # "absent"]
        BY <1>0, <1>9 DEF StartSave, Set, Filled
    <2>2. \A d \in Deployments : /\ deployment'[d].phase = deployment[d].phase
                                 /\ deployment'[d].cluster = deployment[d].cluster
        BY <1>0, <2>1 DEF DeploymentRow
    <2> QED BY <2>1, <2>2 DEF Minds, Idle
<1> QED BY <1>1, <1>3, <1>4, <1>5, <1>6, <1>7, <1>8, <1>9 DEF Resume

\* A step of the API that is no step of a request in flight sees no messages,
\* no deployments and no request in flight.
LEMMA ApiTouches ==
    ASSUME InventoryTypeOK, InventoryNext
    PROVE  \/ \E h \in Handlers : Resume(h) \/ Abort(h)
           \/ /\ UNCHANGED <<queue, deployment>>
              /\ \A g \in Handlers : \/ session'[g] = session[g]
                                     \/ session[g] = Idle /\ session'[g].at # "start_enqueue"
<1>1. ASSUME NEW h \in Handlers, Begin(h)
      PROVE  /\ UNCHANGED <<queue, deployment>>
             /\ \A g \in Handlers : \/ session'[g] = session[g]
                                    \/ session[g] = Idle /\ session'[g].at # "start_enqueue"
    <2>1. session[h] = Idle
        <3>1. CASE \E c \in Clusters, p \in Pools, picks \in Requests : AssignBegin(h, c, p, picks)
            BY <3>1 DEF AssignBegin
        <3>2. CASE \E a \in Assets, st \in AssetStatus, p \in Pools \cup {None} : PatchBegin(h, a, st, p)
            BY <3>2 DEF PatchBegin
        <3>3. CASE \E x \in assignments : UnassignBegin(h, x)
            BY <3>3 DEF UnassignBegin
        <3>4. CASE \E a \in Assets : SyncBegin(h, a) \/ RemoveBegin(h, a)
            BY <3>4 DEF SyncBegin, RemoveBegin
        <3>5. CASE \E c \in Clusters : DeleteBegin(h, c) \/ StartBegin(h, c)
            BY <3>5 DEF DeleteBegin, StartBegin
        <3> QED BY <1>1, <3>1, <3>2, <3>3, <3>4, <3>5 DEF Begin
    <2>2. PICK s : Set(h, s) /\ Unattached(s)
        BY <1>1, BeginShape
    <2>3. \A g \in Handlers : session'[g] = IF g = h THEN s ELSE session[g]
        BY <2>2 DEF Set, InventoryTypeOK
    <2> QED BY <1>1, <2>1, <2>2, <2>3, BeginShape DEF Rows, Unattached
<1> QED BY <1>1 DEF InventoryNext, CreateCluster, CreateAsset

\* Nothing but a request that died before it sent the message, or a task that
\* was lost, leaves a deployment in flight that nobody works on: no commit, no
\* delivery and no end of a task does (deployments.py:95-115,
\* clusters.py:92-133, deployment_tasks.py:170-305), however often the broker
\* redelivers.
THEOREM OnlyLossAbandons ==
    Spec => [][\A d \in Deployments : Abandoned(d)' =>
                  \/ Abandoned(d)
                  \/ \E h \in Handlers : Abort(h)
                  \/ \E w \in Workers : TaskLost(w)]_vars
<1>1. ASSUME TypeOK, Next, NEW d \in Deployments, Abandoned(d)', ~Abandoned(d)
      PROVE  (\E h \in Handlers : Abort(h)) \/ (\E w \in Workers : TaskLost(w))
    <2> SUFFICES ASSUME \A h \in Handlers : ~Abort(h), \A w \in Workers : ~TaskLost(w) PROVE FALSE
        OBVIOUS
    <2>t. /\ InventoryTypeOK /\ worker \in [Workers -> Task] /\ queue \in [Deployments -> Nat]
          /\ deployment \in [Deployments -> DeploymentRow] /\ d # None
        BY <1>1, InventoryConstants DEF TypeOK, InventoryTypeOK
    <2>0. /\ deployment'[d].phase \in Phases \ Terminal
          /\ ~(queue'[d] > 0)
          /\ \A w \in Workers : worker'[w].dep # d
          /\ \A h \in Handlers : ~(session'[h].at = "start_enqueue" /\ session'[h].dep = d)
        BY <1>1 DEF Abandoned, InHand, InFlight
    <2>1. deployment'[d].phase # "absent"
        BY <2>0 DEF Phases
    <2>2. deployment'[d].phase = deployment[d].phase => InHand(d)
        BY <1>1, <2>0 DEF Abandoned, InFlight
    <2>3. CASE ApiStep
        <3>1. UNCHANGED worker
            BY <2>3 DEF ApiStep
        <3>2. ASSUME NEW h \in Handlers, Resume(h) PROVE FALSE
            <4>1. \A g \in Handlers \ {h} : session'[g] = session[g]
                BY <2>t, <3>2, ResumeTouches
            <4>2. CASE Minds(h)
                BY <2>0, <2>1, <2>2, <3>1, <4>1, <4>2 DEF Minds, InHand
            <4>3. CASE Sends(h)
                BY <2>t, <2>0, <2>2, <3>1, <4>1, <4>3 DEF Sends, InHand
            <4>4. ASSUME NEW e \in Deployments, Accepts(h, e) PROVE FALSE
                BY <2>0, <2>2, <3>1, <4>1, <4>4 DEF Accepts, InHand
            <4> QED BY <2>t, <3>2, <4>2, <4>3, <4>4, ResumeTouches
        <3>3. CASE /\ UNCHANGED <<queue, deployment>>
                   /\ \A g \in Handlers : \/ session'[g] = session[g]
                                          \/ session[g] = Idle /\ session'[g].at # "start_enqueue"
            BY <2>0, <2>2, <3>1, <3>3 DEF InHand, Idle
        <3> QED BY <2>t, <2>3, <3>2, <3>3, ApiTouches DEF ApiStep
    <2>4. ASSUME NEW w \in Workers, NEW e \in Deployments, TaskTake(w, e) PROVE FALSE
        <3>1. /\ worker[w].dep = None /\ worker'[w].dep = e
              /\ \A v \in Workers \ {w} : worker'[v] = worker[v]
              /\ \A f \in Deployments \ {e} : queue'[f] = queue[f]
              /\ UNCHANGED <<deployment, session>>
            BY <2>t, <2>4 DEF TaskTake, Running
        <3> QED BY <2>t, <2>0, <2>2, <3>1 DEF InHand
    <2>5. ASSUME NEW w \in Workers, Running(w), UNCHANGED <<queue, session>>,
                 NEW ph \in Phases, WritePhase(worker[w].dep, ph),
                 \A v \in Workers \ {w} : worker'[v] = worker[v],
                 ph \in Terminal \/ worker'[w].dep = worker[w].dep
          PROVE  FALSE
        <3>1. worker[w].dep \in Deployments
            BY <2>t, <2>5 DEF Running, Task
        <3>2. CASE worker[w].dep = d
            <4>1. deployment'[d].phase \in {"absent", ph}
                BY <2>t, <2>5, <3>2 DEF WritePhase
            <4> QED BY <2>0, <2>1, <2>5, <3>2, <4>1
        <3>3. CASE worker[w].dep # d
            <4>1. deployment'[d] = deployment[d]
                BY <2>t, <2>5, <3>1, <3>3 DEF WritePhase
            <4> QED BY <2>0, <2>2, <2>5, <3>3, <4>1 DEF InHand
        <3> QED BY <3>2, <3>3
    <2>6. ASSUME NEW w \in Workers, NEW ph \in Phases, TaskPhase(w, ph) PROVE FALSE
        <3>1. /\ worker' = [worker EXCEPT ![w] = IF ph = "complete" THEN NoTask ELSE [@ EXCEPT !.at = ph]]
              /\ Running(w) /\ WritePhase(worker[w].dep, ph) /\ UNCHANGED <<queue, session>>
            BY <2>6 DEF TaskPhase
        <3>2. ph \in Terminal \/ worker'[w].dep = worker[w].dep
            <4>1. worker[w] \in Task
                BY <2>t
            <4> QED BY <2>t, <3>1, <4>1 DEF Task, Terminal
        <3>3. \A v \in Workers \ {w} : worker'[v] = worker[v]
            BY <2>t, <3>1
        <3> QED BY <2>5, <3>1, <3>2, <3>3
    <2>7. ASSUME NEW w \in Workers, TaskFail(w) PROVE FALSE
        <3>1. \A v \in Workers \ {w} : worker'[v] = worker[v]
            BY <2>t, <2>7 DEF TaskFail
        <3> QED BY <2>5, <2>7, <3>1 DEF TaskFail, Phases, Terminal
    <2>8. ASSUME NEW e \in Deployments, Redeliver(e) PROVE FALSE
        <3>1. /\ \A f \in Deployments : queue[f] > 0 => queue'[f] > 0
              /\ UNCHANGED <<deployment, session, worker>>
            BY <2>t, <2>8 DEF Redeliver
        <3> QED BY <2>0, <2>2, <3>1 DEF InHand
    <2> QED BY <1>1, <2>3, <2>4, <2>6, <2>7, <2>8 DEF Next, WorkerStep
<1>2. ASSUME TypeOK, [Next]_vars
      PROVE  [\A d \in Deployments : Abandoned(d)' =>
                 \/ Abandoned(d)
                 \/ \E h \in Handlers : Abort(h)
                 \/ \E w \in Workers : TaskLost(w)]_vars
    BY <1>1, <1>2
<1> QED BY <1>2, TypeCorrect, PTL DEF Spec

\* A deployment that nobody works on stays as it is for ever: no other request or
\* task picks it up, its row shows the phase it was lost in, and the check of
\* delete_cluster for deployments in flight keeps its cluster
\* (clusters.py:97-107).
THEOREM AbandonedForGood ==
    ASSUME MaxRedeliveries = 0
    PROVE  Spec => [][\A d \in Deployments : Abandoned(d) =>
                         /\ Abandoned(d)'
                         /\ deployment'[d].phase = deployment[d].phase
                         /\ deployment'[d].cluster = deployment[d].cluster
                         /\ deployment'[d].cluster \in clusters']_vars
<1>1. ASSUME TaskInv, Next, NEW d \in Deployments, Abandoned(d)
      PROVE  /\ deployment'[d].phase = deployment[d].phase
             /\ deployment'[d].cluster = deployment[d].cluster
             /\ ~InHand(d)'
    <2> DEFINE Goal == /\ deployment'[d].phase = deployment[d].phase
                       /\ deployment'[d].cluster = deployment[d].cluster
                       /\ ~InHand(d)'
    <2>t. /\ InventoryTypeOK /\ worker \in [Workers -> Task] /\ queue \in [Deployments -> Nat]
          /\ deployment \in [Deployments -> DeploymentRow] /\ d # None
          /\ redeliveries \in Nat
        BY <1>1, InventoryConstants DEF TaskInv, TypeOK, InventoryTypeOK
    <2>0. /\ InFlight(d) /\ ~(queue[d] > 0)
          /\ \A w \in Workers : worker[w].dep # d
          /\ \A h \in Handlers : ~(session[h].at = "start_enqueue" /\ session[h].dep = d)
        BY <1>1 DEF Abandoned, InHand
    <2>1. d \in minted /\ \A h \in Handlers : d \notin session[h].seen
        <3>1. deployment[d].phase # "absent"
            BY <2>0 DEF InFlight, Phases
        <3> QED BY <1>1, <2>0, <3>1 DEF TaskInv, Exclusive, FreshIds, SeenAreDone
    <2>2. CASE ApiStep
        <3>1. UNCHANGED worker
            BY <2>2 DEF ApiStep
        <3>2. ASSUME NEW h \in Handlers, Resume(h) PROVE Goal
            <4>1. \A g \in Handlers \ {h} : session'[g] = session[g]
                BY <2>t, <3>2, ResumeTouches
            <4>2. CASE Minds(h)
                BY <2>0, <2>1, <3>1, <4>1, <4>2 DEF Minds, InHand
            <4>3. CASE Sends(h)
                <5>1. session[h].dep # d
                    BY <2>0, <4>3 DEF Sends
                <5>2. queue'[d] = queue[d]
                    BY <2>t, <4>3, <5>1 DEF Sends
                <5> QED BY <2>0, <3>1, <4>1, <4>3, <5>2 DEF Sends, InHand
            <4>4. ASSUME NEW e \in Deployments, Accepts(h, e) PROVE Goal
                BY <2>0, <2>1, <3>1, <4>1, <4>4 DEF Accepts, InHand
            <4> QED BY <2>t, <3>2, <4>2, <4>3, <4>4, ResumeTouches
        <3>3. ASSUME NEW h \in Handlers, Abort(h) PROVE Goal
            <4>1. /\ \A g \in Handlers : session'[g] = IF g = h THEN Idle ELSE session[g]
                  /\ UNCHANGED <<queue, deployment>>
                BY <2>t, <3>3 DEF Abort, Refuse, Set, Rows, InventoryTypeOK
            <4> QED BY <2>0, <3>1, <4>1 DEF InHand, Idle
        <3>4. CASE /\ UNCHANGED <<queue, deployment>>
                   /\ \A g \in Handlers : \/ session'[g] = session[g]
                                          \/ session[g] = Idle /\ session'[g].at # "start_enqueue"
            BY <2>0, <3>1, <3>4 DEF InHand
        <3> QED BY <2>t, <2>2, <3>2, <3>3, <3>4, ApiTouches DEF ApiStep
    <2>3. ASSUME NEW w \in Workers, NEW e \in Deployments, TaskTake(w, e) PROVE Goal
        <3>1. /\ e # d
              /\ worker'[w].dep = e /\ \A v \in Workers \ {w} : worker'[v] = worker[v]
              /\ queue'[d] = queue[d]
              /\ UNCHANGED <<deployment, session>>
            BY <2>t, <2>0, <2>3 DEF TaskTake
        <3> QED BY <2>0, <3>1 DEF InHand
    <2>4. ASSUME NEW w \in Workers, Running(w), UNCHANGED <<queue, session>>,
                 NEW ph \in Phases, WritePhase(worker[w].dep, ph),
                 \A v \in Workers \ {w} : worker'[v] = worker[v],
                 worker'[w].dep \in {None, worker[w].dep}
          PROVE  Goal
        <3>1. worker[w].dep \in Deployments \ {d}
            BY <2>t, <2>0, <2>4 DEF Running, Task
        <3>2. deployment'[d] = deployment[d]
            BY <2>t, <2>4, <3>1 DEF WritePhase
        <3> QED BY <2>t, <2>0, <2>4, <3>1, <3>2 DEF InHand
    <2>5. ASSUME NEW w \in Workers, NEW ph \in Phases, TaskPhase(w, ph) PROVE Goal
        <3>1. /\ worker' = [worker EXCEPT ![w] = IF ph = "complete" THEN NoTask ELSE [@ EXCEPT !.at = ph]]
              /\ Running(w) /\ WritePhase(worker[w].dep, ph) /\ UNCHANGED <<queue, session>>
            BY <2>5 DEF TaskPhase
        <3>2. worker'[w].dep \in {None, worker[w].dep}
            <4>1. worker[w] \in Task
                BY <2>t
            <4> QED BY <2>t, <3>1, <4>1 DEF Task, NoTask
        <3>3. \A v \in Workers \ {w} : worker'[v] = worker[v]
            BY <2>t, <3>1
        <3> QED BY <2>4, <3>1, <3>2, <3>3
    <2>6. ASSUME NEW w \in Workers, TaskFail(w) PROVE Goal
        <3>1. worker'[w].dep = None /\ \A v \in Workers \ {w} : worker'[v] = worker[v]
            BY <2>t, <2>6 DEF TaskFail, NoTask
        <3> QED BY <2>4, <2>6, <3>1 DEF TaskFail, Phases
    <2>7. ASSUME NEW w \in Workers, TaskLost(w) PROVE Goal
        <3>1. /\ \A v \in Workers : worker'[v].dep \in {None, worker[v].dep}
              /\ UNCHANGED <<deployment, queue, session>>
            BY <2>t, <2>7 DEF TaskLost, NoTask, inventoryVars
        <3> QED BY <2>t, <2>0, <3>1 DEF InHand
    <2>8. ASSUME NEW e \in Deployments, Redeliver(e) PROVE Goal
        BY <2>t, <2>8 DEF Redeliver
    <2> QED BY <1>1, <2>2, <2>3, <2>5, <2>6, <2>7, <2>8 DEF Next, WorkerStep
<1>2. ASSUME TaskInv, TaskInv', RefInv', [Next]_vars
      PROVE  [\A d \in Deployments : Abandoned(d) =>
                 /\ Abandoned(d)'
                 /\ deployment'[d].phase = deployment[d].phase
                 /\ deployment'[d].cluster = deployment[d].cluster
                 /\ deployment'[d].cluster \in clusters']_vars
    <2> SUFFICES ASSUME Next, NEW d \in Deployments, Abandoned(d)
                 PROVE  /\ Abandoned(d)'
                        /\ deployment'[d].phase = deployment[d].phase
                        /\ deployment'[d].cluster = deployment[d].cluster
                        /\ deployment'[d].cluster \in clusters'
        BY <1>2
    <2>1. /\ deployment'[d].phase = deployment[d].phase
          /\ deployment'[d].cluster = deployment[d].cluster
          /\ ~InHand(d)'
        BY <1>1, <1>2
    <2>2. deployment'[d].phase \in Phases \ Terminal /\ deployment'[d].phase # "absent"
        BY <2>1 DEF Abandoned, InFlight, Phases
    <2>3. Abandoned(d)'
        BY <2>1, <2>2 DEF Abandoned, InFlight
    <2>4. deployment'[d].cluster \in clusters'
        BY <1>2, <2>2 DEF RefInv, ReferencesResolve
    <2> QED BY <2>1, <2>3, <2>4
<1> QED BY <1>2, TaskInvariant, PTL DEF Spec

-----------------------------------------------------------------------------
(* What RequestAnswered rests on: a handler that the event loop resumes gets *)
(* on, and no other request can put it back.                                 *)

\* Queries and commits that lie ahead of the loop over the assets, or after it.
Stage(s) ==
    CASE s.at = "delete_deployments"              -> 5
      [] s.at \in {"delete_links", "start_links"} -> 4
      [] s.at \in {"assign", "unassign", "patch", "remove", "delete_assets", "start_assets"} -> 3
      [] s.at = "start_enqueue"                   -> 2
      [] s.at = "start_save"                      -> 1
      [] OTHER                                    -> 0

\* Assets the loop has not read yet.
ToRead(s) == Unfetched(s, Picked(s) \cup Linked(s))

Ahead(s) == <<Stage(s), Cardinality(ToRead(s))>>

Smaller == {ss \in Nat \X Nat : ss[1] < ss[2]}
LessAhead == LexPairOrdering(Smaller, Smaller, Nat, Nat)

LEMMA AheadWellFounded == IsWellFoundedOn(LessAhead, Nat \X Nat)
<1>1. IsWellFoundedOn(Smaller, Nat)
    BY NatLessThanWellFounded DEF OpToRel, Smaller
<1> QED BY <1>1, WFLexPairOrdering DEF LessAhead

LEMMA AheadTyped ==
    ASSUME IsFiniteSet(Assets), NEW s \in Session
    PROVE  Stage(s) \in Nat /\ IsFiniteSet(ToRead(s)) /\ Cardinality(ToRead(s)) \in Nat
<1>1. Stage(s) \in Nat
    BY DEF Stage
<1>2. Picked(s) \subseteq Assets /\ Linked(s) \subseteq Assets
    BY DEF Picked, Linked, Session, Assignment
<1>3. ToRead(s) \subseteq Assets
    BY <1>2 DEF ToRead, Unfetched
<1> QED BY <1>1, <1>3, FS_Subset, FS_CardinalityType

\* The request of handler h gets on.
GetsOn(h) ==
    \/ Stage(session'[h]) < Stage(session[h])
    \/ /\ Stage(session'[h]) = Stage(session[h])
       /\ Cardinality(ToRead(session'[h])) < Cardinality(ToRead(session[h]))

LEMMA GetsOnIsLess ==
    ASSUME IsFiniteSet(Assets), InventoryTypeOK, InventoryTypeOK', NEW h \in Handlers, GetsOn(h)
    PROVE  <<Ahead(session'[h]), Ahead(session[h])>> \in LessAhead
<1>1. session[h] \in Session /\ session'[h] \in Session
    BY DEF InventoryTypeOK
<1>2. /\ Stage(session[h]) \in Nat /\ Cardinality(ToRead(session[h])) \in Nat
      /\ Stage(session'[h]) \in Nat /\ Cardinality(ToRead(session'[h])) \in Nat
    BY <1>1, AheadTyped
<1> QED BY <1>2 DEF GetsOn, Ahead, LessAhead, LexPairOrdering, Smaller

\* "unread" marks what a session has not read; no row of the table has it.
AssetsAreRows == \A a \in Assets : asset[a].status # "unread"

LEMMA FlushRows ==
    ASSUME AssetsAreRows, NEW s, NEW new, new.status # "unread"
    PROVE  \A a \in Assets : Flush(s, new)[a].status # "unread"
BY DEF AssetsAreRows, Flush, Merge

LEMMA ResumeRows ==
    ASSUME InventoryTypeOK, AssetsAreRows, NEW h \in Handlers, Resume(h)
    PROVE  AssetsAreRows'
<1> DEFINE s == session[h]
<1>0. s \in Session /\ Filled(s)
    BY DEF InventoryTypeOK
<1>1. ASSUME UNCHANGED asset PROVE AssetsAreRows'
    BY <1>1 DEF AssetsAreRows
<1>2. ASSUME NEW new, new.status # "unread", asset' = Flush(s, new) PROVE AssetsAreRows'
    BY <1>2, FlushRows DEF AssetsAreRows
<1>3. Refuse(h) => UNCHANGED asset
    BY DEF Refuse, Rows
<1>4. Reserved(s).status # "unread" /\ Free.status # "unread"
    BY DEF Reserved, Free
<1>5. CASE AssignCommit(h)
    BY <1>1, <1>2, <1>3, <1>4, <1>5 DEF AssignCommit
<1>6. CASE UnassignCommit(h)
    BY <1>1, <1>2, <1>3, <1>4, <1>6 DEF UnassignCommit
<1>7. CASE PatchCommit(h)
    <2>1. s.want.status # "unread"
        BY <1>0, <1>7 DEF PatchCommit, Filled, HasRow, AssetStatus
    <2> QED BY <1>1, <1>2, <1>3, <1>7, <2>1 DEF PatchCommit
<1>8. CASE RemoveCommit(h)
    BY <1>1, <1>3, <1>8 DEF RemoveCommit, AssetsAreRows, Absent
<1>9. CASE DeleteCommit(h)
    <2>1. ASSUME ~Refuse(h) PROVE AssetsAreRows'
        <3>1. asset' = Unlink(Flush(s, Free), s.cluster)
            BY <1>9, <2>1 DEF DeleteCommit
        <3>2. \A a \in Assets : Flush(s, Free)[a].status # "unread"
            BY <1>4, FlushRows
        <3>3. Flush(s, Free) \in [Assets -> AssetRow]
            BY <1>0, Records, FlushType DEF InventoryTypeOK
        <3>4. \A a \in Assets : Unlink(Flush(s, Free), s.cluster)[a].status = Flush(s, Free)[a].status
            BY <3>3 DEF Unlink, AssetRow
        <3> QED BY <3>1, <3>2, <3>4 DEF AssetsAreRows
    <2> QED BY <1>1, <1>3, <2>1
<1>10. CASE \E a \in Assets : AssignRead(h, a) \/ ReadLinkedAsset(h, a)
    BY <1>1, <1>3, <1>10 DEF AssignRead, ReadLinkedAsset, Rows
<1>11. CASE DeleteReadDeployments(h) \/ DeleteReadLinks(h) \/ StartReadLinks(h) \/ StartReject(h)
    BY <1>1, <1>3, <1>11 DEF DeleteReadDeployments, DeleteReadLinks, StartReadLinks, StartReject, Rows
<1>12. CASE StartEnqueue(h) \/ StartSave(h) \/ \E d \in Deployments : StartCommit(h, d)
    <2>1. CASE StartEnqueue(h) \/ StartSave(h)
        BY <1>1, <2>1 DEF StartEnqueue, StartSave
    <2>2. ASSUME NEW d \in Deployments, StartCommit(h, d) PROVE UNCHANGED asset
        BY <1>3, <2>2 DEF StartCommit
    <2> QED BY <1>1, <1>12, <2>1, <2>2
<1> QED BY <1>5, <1>6, <1>7, <1>8, <1>9, <1>10, <1>11, <1>12 DEF Resume

LEMMA RowsStep == TypeOK /\ AssetsAreRows /\ [Next]_vars => AssetsAreRows'
<1> SUFFICES ASSUME TypeOK, AssetsAreRows, [Next]_vars PROVE AssetsAreRows'
    OBVIOUS
<1>1. ASSUME UNCHANGED asset PROVE AssetsAreRows'
    BY <1>1 DEF AssetsAreRows
<1>2. ASSUME NEW a \in Assets, CreateAsset(a) PROVE AssetsAreRows'
    BY <1>2 DEF CreateAsset, AssetsAreRows, Absent, TypeOK, InventoryTypeOK
<1>3. CASE ApiStep
    BY <1>1, <1>2, <1>3, ResumeRows, BeginShape
       DEF ApiStep, InventoryNext, CreateCluster, Abort, Refuse, Rows, TypeOK
<1>4. CASE Next /\ ~ApiStep
    BY <1>1, <1>4 DEF Next, WorkerStep, TaskTake, TaskPhase, TaskFail, TaskLost, Redeliver, inventoryVars
<1>5. CASE UNCHANGED vars
    BY <1>1, <1>5 DEF vars, inventoryVars
<1> QED BY <1>3, <1>4, <1>5

LEMMA RowsInvariant == Spec => [](TypeOK /\ AssetsAreRows)
<1>1. Init => AssetsAreRows
    BY DEF Init, InventoryInit, AssetsAreRows, Absent
<1> QED BY <1>1, TypeInit, TypeStep, RowsStep, PTL DEF Spec

\* One more asset is read.
LEMMA ReadGetsOn ==
    ASSUME IsFiniteSet(Assets), InventoryTypeOK, AssetsAreRows, NEW h \in Handlers, NEW a \in Assets,
           a \in ToRead(session[h]), Set(h, [session[h] EXCEPT !.cache[a] = asset[a]])
    PROVE  GetsOn(h)
<1> DEFINE s == session[h]
           t == [s EXCEPT !.cache[a] = asset[a]]
<1>0. s \in Session /\ session'[h] = t /\ asset[a] # Unread
    BY DEF InventoryTypeOK, Set, AssetsAreRows, Unread
<1>1. /\ t.at = s.at /\ t.picks = s.picks /\ t.links = s.links
      /\ \A b \in Assets : t.cache[b] = IF b = a THEN asset[a] ELSE s.cache[b]
    BY <1>0 DEF Session
<1>2. Picked(t) = Picked(s) /\ Linked(t) = Linked(s) /\ Stage(t) = Stage(s)
    BY <1>1 DEF Picked, Linked, Stage
<1>3. Picked(s) \cup Linked(s) \subseteq Assets
    BY <1>0 DEF Picked, Linked, Session, Assignment
<1> HIDE DEF s, t
<1>4. ToRead(t) = ToRead(s) \ {a}
    BY <1>0, <1>1, <1>2, <1>3 DEF ToRead, Unfetched
<1>5. IsFiniteSet(ToRead(s)) /\ Cardinality(ToRead(s)) \in Nat
    BY <1>0, AheadTyped
<1>6. Cardinality(ToRead(t)) = Cardinality(ToRead(s)) - 1
    BY <1>4, <1>5, FS_RemoveElement DEF s
<1> QED BY <1>0, <1>2, <1>5, <1>6 DEF GetsOn, s

\* A step that ends in a session at an earlier stage.
LEMMA StageGetsOn ==
    ASSUME InventoryTypeOK, NEW h \in Handlers, NEW t, Set(h, t), Stage(t) < Stage(session[h])
    PROVE  GetsOn(h)
BY DEF Set, InventoryTypeOK, GetsOn

LEMMA ResumeGetsOn ==
    ASSUME IsFiniteSet(Assets), InventoryTypeOK, AssetsAreRows, NEW h \in Handlers, Resume(h)
    PROVE  GetsOn(h)
<1> DEFINE s == session[h]
<1>0. s \in Session /\ Stage(Idle) = 0
    BY DEF InventoryTypeOK, Stage, Idle
<1>1. ASSUME s.at \in Steps \ {"idle"}, Set(h, Idle) PROVE GetsOn(h)
    <2>1. Stage(s) > 0
        BY <1>1 DEF Stage, Steps
    <2> QED BY <1>0, <1>1, <2>1, StageGetsOn
<1>2. ASSUME NEW a \in Assets, AssignRead(h, a) PROVE GetsOn(h)
    <2>1. s.at \in Steps \ {"idle"} /\ a \in ToRead(s)
        BY <1>2 DEF AssignRead, Steps, ToRead, Unfetched
    <2> QED BY <1>1, <1>2, <2>1, ReadGetsOn DEF AssignRead, Refuse
<1>3. ASSUME NEW a \in Assets, ReadLinkedAsset(h, a) PROVE GetsOn(h)
    <2>1. a \in ToRead(s)
        BY <1>3 DEF ReadLinkedAsset, ToRead, Unfetched
    <2> QED BY <1>3, <2>1, ReadGetsOn DEF ReadLinkedAsset
<1>4. CASE AssignCommit(h) \/ UnassignCommit(h) \/ PatchCommit(h) \/ RemoveCommit(h)
           \/ DeleteCommit(h) \/ StartReject(h) \/ StartSave(h)
    BY <1>1, <1>4 DEF AssignCommit, UnassignCommit, PatchCommit, RemoveCommit, DeleteCommit,
       StartReject, StartSave, Refuse, Steps
<1>5. CASE DeleteReadDeployments(h)
    <2> DEFINE t == [s EXCEPT !.at = "delete_links", !.seen = DeploymentsOf(s.cluster)]
    <2>1. s.at = "delete_deployments" /\ t.at = "delete_links"
        BY <1>0, <1>5 DEF Session, DeleteReadDeployments
    <2>2. Stage(t) < Stage(s)
        BY <2>1 DEF Stage
    <2> QED BY <1>1, <1>5, <2>1, <2>2, StageGetsOn DEF DeleteReadDeployments, Refuse, Steps
<1>6. CASE DeleteReadLinks(h)
    <2> DEFINE t == [s EXCEPT !.at = "delete_assets", !.links = AssignmentsOf(s.cluster)]
    <2>1. s.at = "delete_links" /\ t.at = "delete_assets"
        BY <1>0, <1>6 DEF Session, DeleteReadLinks
    <2>2. Stage(t) < Stage(s)
        BY <2>1 DEF Stage
    <2> QED BY <1>6, <2>2, StageGetsOn DEF DeleteReadLinks
<1>7. CASE StartReadLinks(h)
    <2> DEFINE t == [s EXCEPT !.at = "start_assets", !.links = AssignmentsOf(s.cluster)]
    <2>1. s.at = "start_links" /\ t.at = "start_assets"
        BY <1>0, <1>7 DEF Session, StartReadLinks
    <2>2. Stage(t) < Stage(s)
        BY <2>1 DEF Stage
    <2> QED BY <1>1, <1>7, <2>1, <2>2, StageGetsOn DEF StartReadLinks, Refuse, Steps
<1>8. ASSUME NEW d \in Deployments, StartCommit(h, d) PROVE GetsOn(h)
    <2> DEFINE t == [s EXCEPT !.at = "start_enqueue", !.dep = d]
    <2>1. s.at = "start_assets" /\ t.at = "start_enqueue"
        BY <1>0, <1>8 DEF Session, StartCommit
    <2>2. Stage(t) < Stage(s)
        BY <2>1 DEF Stage
    <2> QED BY <1>1, <1>8, <2>1, <2>2, StageGetsOn DEF StartCommit, Refuse, Steps
<1>9. CASE StartEnqueue(h)
    <2> DEFINE t == [s EXCEPT !.at = "start_save"]
    <2>1. s.at = "start_enqueue" /\ t.at = "start_save"
        BY <1>0, <1>9 DEF Session, StartEnqueue
    <2>2. Stage(t) < Stage(s)
        BY <2>1 DEF Stage
    <2> QED BY <1>9, <2>2, StageGetsOn DEF StartEnqueue
<1> QED BY <1>2, <1>3, <1>4, <1>5, <1>6, <1>7, <1>8, <1>9 DEF Resume

\* Whenever the event loop resumes a request, fewer queries and commits lie ahead
\* of it, in an order in which nothing falls for ever; and no other request, task
\* or message changes a request in flight. So a request takes finitely many steps,
\* whatever the other requests do to the rows it reads (planner.py:31-126,
\* hardware_assets.py:77-140, clusters.py:77-133, deployments.py:40-116).
THEOREM RequestsGetOn ==
    ASSUME IsFiniteSet(Assets)
    PROVE  /\ IsWellFoundedOn(LessAhead, Nat \X Nat)
           /\ Spec => [][\A h \in Handlers :
                  /\ Resume(h) => <<Ahead(session'[h]), Ahead(session[h])>> \in LessAhead
                  /\ session[h] # Idle => \/ session'[h] = session[h]
                                          \/ session'[h] = Idle
                                          \/ <<Ahead(session'[h]), Ahead(session[h])>> \in LessAhead]_vars
<1>1. ASSUME TypeOK, TypeOK', AssetsAreRows, NEW h \in Handlers, Resume(h)
      PROVE  <<Ahead(session'[h]), Ahead(session[h])>> \in LessAhead
    BY <1>1, ResumeGetsOn, GetsOnIsLess DEF TypeOK
<1>2. ASSUME TypeOK, TypeOK', AssetsAreRows, Next, NEW h \in Handlers, session[h] # Idle
      PROVE  \/ session'[h] = session[h]
             \/ session'[h] = Idle
             \/ <<Ahead(session'[h]), Ahead(session[h])>> \in LessAhead
    <2>t. InventoryTypeOK
        BY <1>2 DEF TypeOK
    <2>1. ASSUME NEW g \in Handlers, Resume(g)
          PROVE  session'[h] = session[h] \/ <<Ahead(session'[h]), Ahead(session[h])>> \in LessAhead
        BY <1>1, <1>2, <2>t, <2>1, ResumeTouches
    <2>2. ASSUME NEW g \in Handlers, Abort(g) PROVE session'[h] \in {session[h], Idle}
        BY <2>t, <2>2 DEF Abort, Refuse, Set, InventoryTypeOK
    <2>3. CASE ApiStep
        <3>1. InventoryNext
            BY <2>3 DEF ApiStep
        <3> QED BY <1>2, <2>t, <2>1, <2>2, <3>1, ApiTouches
    <2>4. CASE ~ApiStep
        <3>1. UNCHANGED session
            BY <1>2, <2>4 DEF Next, WorkerStep, TaskTake, TaskPhase, TaskFail, TaskLost, Redeliver, inventoryVars
        <3> QED BY <3>1
    <2> QED BY <2>3, <2>4
<1> DEFINE Step ==
        \A h \in Handlers :
           /\ Resume(h) => <<Ahead(session'[h]), Ahead(session[h])>> \in LessAhead
           /\ session[h] # Idle => \/ session'[h] = session[h]
                                   \/ session'[h] = Idle
                                   \/ <<Ahead(session'[h]), Ahead(session[h])>> \in LessAhead
<1>3. ASSUME TypeOK, TypeOK', AssetsAreRows, [Next]_vars PROVE [Step]_vars
    BY <1>1, <1>2, <1>3
<1> QED BY <1>3, AheadWellFounded, RowsInvariant, PTL DEF Spec
-----------------------------------------------------------------------------
(* Messages and tasks, with any number of redeliveries *)

RunningOn(d) == {w \in Workers : worker[w].dep = d}

\* A redelivery costs one more run of the task, and nothing else does.
TasksCounted ==
    \A d \in Deployments : queue[d] + Cardinality(RunningOn(d)) <= 1 + redeliveries

Unmet ==
    \A d \in Deployments \ minted :
        /\ queue[d] = 0 /\ RunningOn(d) = {}
        /\ \A h \in Handlers : session[h].dep # d

Coming ==
    \A h \in Handlers : session[h].at = "start_enqueue" =>
        LET d == session[h].dep IN
        /\ queue[d] = 0 /\ RunningOn(d) = {}
        /\ \A g \in Handlers : session[g].at = "start_enqueue" /\ session[g].dep = d => g = h

CountInv == TypeOK /\ Unmet /\ Coming /\ TasksCounted

\* A request inserts at most the deployment it gets, and keeps it until it ends.
LEMMA ResumeKeepsDep ==
    ASSUME InventoryTypeOK, NEW h \in Handlers, Resume(h)
    PROVE  /\ minted \subseteq minted'
           /\ \/ session'[h].dep \in {None, session[h].dep}
              \/ Accepts(h, session'[h].dep) /\ session'[h].dep \in Deployments \cap minted'
<1> DEFINE s == session[h]
<1>0. /\ s \in Session /\ session \in [Handlers -> Session]
      /\ deployment \in [Deployments -> DeploymentRow]
    BY DEF InventoryTypeOK
<1>i. Idle.dep = None
    BY DEF Idle
<1> DEFINE Keeps == minted' = minted /\ session'[h].dep \in {None, s.dep}
<1>1. ASSUME Refuse(h) PROVE Keeps
    BY <1>0, <1>1, <1>i DEF Refuse, Set, Rows
<1>2. ASSUME NEW a \in Assets, AssignRead(h, a) \/ ReadLinkedAsset(h, a) PROVE Keeps
    <2> DEFINE t == [s EXCEPT !.cache[a] = asset[a]]
    <2>1. t.dep = s.dep
        BY <1>0 DEF Session
    <2>2. Refuse(h) \/ (session'[h] = t /\ minted' = minted)
        BY <1>0, <1>2 DEF AssignRead, ReadLinkedAsset, Set, Rows
    <2> HIDE DEF t
    <2> QED BY <1>1, <2>1, <2>2
<1>3. ASSUME \/ AssignCommit(h) \/ UnassignCommit(h) \/ PatchCommit(h) \/ RemoveCommit(h)
             \/ DeleteCommit(h) \/ StartReject(h) \/ StartSave(h)
      PROVE  Keeps
    <2>1. Refuse(h) \/ (Set(h, Idle) /\ minted' = minted)
        BY <1>3 DEF AssignCommit, UnassignCommit, PatchCommit, RemoveCommit, DeleteCommit,
           StartReject, StartSave
    <2> QED BY <1>0, <1>1, <1>i, <2>1 DEF Set
<1>4. ASSUME DeleteReadDeployments(h) PROVE Keeps
    <2> DEFINE t == [s EXCEPT !.at = "delete_links", !.seen = DeploymentsOf(s.cluster)]
    <2>1. t.dep = s.dep
        BY <1>0 DEF Session
    <2>2. Refuse(h) \/ (session'[h] = t /\ minted' = minted)
        BY <1>0, <1>4 DEF DeleteReadDeployments, Set, Rows
    <2> HIDE DEF t
    <2> QED BY <1>1, <2>1, <2>2
<1>5. ASSUME DeleteReadLinks(h) PROVE Keeps
    <2> DEFINE t == [s EXCEPT !.at = "delete_assets", !.links = AssignmentsOf(s.cluster)]
    <2>1. t.dep = s.dep
        BY <1>0 DEF Session
    <2>2. session'[h] = t /\ minted' = minted
        BY <1>0, <1>5 DEF DeleteReadLinks, Set, Rows
    <2> HIDE DEF t
    <2> QED BY <2>1, <2>2
<1>6. ASSUME StartReadLinks(h) PROVE Keeps
    <2> DEFINE t == [s EXCEPT !.at = "start_assets", !.links = AssignmentsOf(s.cluster)]
    <2>1. t.dep = s.dep
        BY <1>0 DEF Session
    <2>2. Refuse(h) \/ (session'[h] = t /\ minted' = minted)
        BY <1>0, <1>6 DEF StartReadLinks, Set, Rows
    <2> HIDE DEF t
    <2> QED BY <1>1, <2>1, <2>2
<1>7. ASSUME StartEnqueue(h) PROVE Keeps
    <2> DEFINE t == [s EXCEPT !.at = "start_save"]
    <2>1. t.dep = s.dep
        BY <1>0 DEF Session
    <2>2. session'[h] = t /\ minted' = minted
        BY <1>0, <1>7 DEF StartEnqueue, Set
    <2> HIDE DEF t
    <2> QED BY <2>1, <2>2
<1>8. ASSUME NEW d \in Deployments, StartCommit(h, d), ~Refuse(h)
      PROVE  minted' = minted \cup {d} /\ session'[h].dep = d /\ Accepts(h, d)
    <2> DEFINE t == [s EXCEPT !.at = "start_enqueue", !.dep = d]
    <2>1. t.at = "start_enqueue" /\ t.dep = d
        BY <1>0 DEF Session
    <2>2. /\ session'[h] = t /\ minted' = minted \cup {d} /\ UNCHANGED queue
          /\ s.at = "start_assets" /\ d \notin minted
          /\ deployment' = [deployment EXCEPT ![d] =
                               [phase |-> "queued", cluster |-> s.cluster, tracked |-> FALSE]]
        BY <1>0, <1>8 DEF StartCommit, Set
    <2> HIDE DEF t
    <2> QED BY <1>0, <2>1, <2>2 DEF Accepts
<1> QED BY <1>1, <1>2, <1>3, <1>4, <1>5, <1>6, <1>7, <1>8 DEF Resume

\* A step that takes no message and starts no task, and gives no request a
\* deployment or a message to send that it did not have.
LEMMA QuietCount ==
    ASSUME CountInv, TypeOK', UNCHANGED <<queue, redeliveries>>, minted \subseteq minted',
           \A d \in Deployments : RunningOn(d)' \subseteq RunningOn(d),
           \A h \in Handlers : /\ session'[h].dep \in {None, session[h].dep}
                               /\ session'[h].at = "start_enqueue" =>
                                     session[h].at = "start_enqueue" /\ session'[h].dep = session[h].dep,
           IsFiniteSet(Workers)
    PROVE  CountInv'
<1>1. \A h \in Handlers : session[h].at = "start_enqueue" => session[h].dep \in Deployments
    BY DEF CountInv, TypeOK, InventoryTypeOK, Filled
<1>2. Unmet'
    BY InventoryConstants DEF CountInv, Unmet
<1>3. Coming'
    BY <1>1 DEF CountInv, Coming
<1>4. \A d \in Deployments : /\ Cardinality(RunningOn(d)') <= Cardinality(RunningOn(d))
                             /\ Cardinality(RunningOn(d)) \in Nat /\ Cardinality(RunningOn(d)') \in Nat
    <2> SUFFICES ASSUME NEW d \in Deployments
                 PROVE  /\ Cardinality(RunningOn(d)') <= Cardinality(RunningOn(d))
                        /\ Cardinality(RunningOn(d)) \in Nat /\ Cardinality(RunningOn(d)') \in Nat
        OBVIOUS
    <2>1. IsFiniteSet(RunningOn(d))
        BY FS_Subset DEF RunningOn
    <2> QED BY <2>1, FS_Subset, FS_CardinalityType
<1>5. TasksCounted'
    <2>1. queue \in [Deployments -> Nat] /\ redeliveries \in Nat
        BY DEF CountInv, TypeOK, InventoryTypeOK
    <2>2. \A d \in Deployments : queue[d] + Cardinality(RunningOn(d)) <= 1 + redeliveries
        BY DEF CountInv, TasksCounted
    <2>3. \A d \in Deployments : queue'[d] = queue[d] /\ redeliveries' = redeliveries
        OBVIOUS
    <2>4. \A d \in Deployments : queue[d] + Cardinality(RunningOn(d)') <= 1 + redeliveries
        BY <1>4, <2>1, <2>2
    <2> QED BY <2>3, <2>4 DEF TasksCounted
<1> QED BY <1>2, <1>3, <1>5 DEF CountInv

\* The request of handler h commits its deployment.
LEMMA AcceptsCounts ==
    ASSUME CountInv, TypeOK', NEW h \in Handlers, NEW d \in Deployments, Accepts(h, d),
           \A g \in Handlers \ {h} : session'[g] = session[g],
           minted \subseteq minted', d \in minted', UNCHANGED <<worker, redeliveries>>
    PROVE  CountInv'
<1>t. \A g \in Handlers : session[g].at = "start_enqueue" => session[g].dep \in Deployments
    BY DEF CountInv, TypeOK, InventoryTypeOK, Filled
<1>1. /\ queue[d] = 0 /\ RunningOn(d) = {} /\ \A g \in Handlers : session[g].dep # d
    BY DEF CountInv, Unmet, Accepts
<1>2. \A e \in Deployments : RunningOn(e)' = RunningOn(e) /\ queue'[e] = queue[e]
    BY DEF RunningOn, Accepts
<1>3. session'[h].at = "start_enqueue" /\ session'[h].dep = d
    BY DEF Accepts
<1>4. Unmet'
    BY <1>2, <1>3 DEF CountInv, Unmet
<1>5. Coming'
    BY <1>t, <1>1, <1>2, <1>3 DEF CountInv, Coming
<1>6. TasksCounted'
    BY <1>2 DEF CountInv, TasksCounted
<1> QED BY <1>4, <1>5, <1>6 DEF CountInv

\* ... and sends its one message.
LEMMA SendsCounts ==
    ASSUME CountInv, TypeOK', NEW h \in Handlers, Sends(h),
           \A g \in Handlers \ {h} : session'[g] = session[g],
           session'[h].dep \in {None, session[h].dep},
           minted \subseteq minted', UNCHANGED <<worker, redeliveries>>
    PROVE  CountInv'
<1>t. /\ \A g \in Handlers : session[g].at = "start_enqueue" => session[g].dep \in Deployments
      /\ queue \in [Deployments -> Nat] /\ redeliveries \in Nat
    BY DEF CountInv, TypeOK, InventoryTypeOK, Filled
<1>d. PICK d \in Deployments : d = session[h].dep
    BY <1>t DEF Sends
<1>1. /\ session[h].at = "start_enqueue" /\ session'[h].at # "start_enqueue"
      /\ queue[d] = 0 /\ RunningOn(d) = {}
      /\ \A g \in Handlers : session[g].at = "start_enqueue" /\ session[g].dep = d => g = h
    BY <1>d DEF Sends, CountInv, Coming
<1>2. \A e \in Deployments : RunningOn(e)' = RunningOn(e)
    BY DEF RunningOn
<1>3. \A e \in Deployments : queue'[e] = IF e = d THEN 1 ELSE queue[e]
    BY <1>t, <1>d, <1>1 DEF Sends
<1>4. d \in minted
    BY <1>d, <1>1 DEF CountInv, Unmet
<1>5. session'[h].dep \in {None, d}
    BY <1>d
<1>6. Unmet'
    BY <1>2, <1>3, <1>4, <1>5, InventoryConstants DEF CountInv, Unmet
<1>7. Coming'
    BY <1>t, <1>1, <1>2, <1>3 DEF CountInv, Coming
<1>8. TasksCounted'
    <2>1. \A e \in Deployments : e # d => queue'[e] + Cardinality(RunningOn(e)') <= 1 + redeliveries
        BY <1>2, <1>3 DEF CountInv, TasksCounted
    <2>2. queue'[d] + Cardinality(RunningOn(d)') <= 1 + redeliveries
        <3>1. RunningOn(d)' = {}
            BY <1>1, <1>2
        <3>2. Cardinality({}) = 0
            BY FS_EmptySet
        <3>3. Cardinality(RunningOn(d)') = 0
            BY <3>1, <3>2
        <3> QED BY <1>t, <1>1, <1>3, <3>3
    <2>3. redeliveries' = redeliveries
        OBVIOUS
    <2>4. \A e \in Deployments : queue'[e] + Cardinality(RunningOn(e)') <= 1 + redeliveries'
        BY <2>1, <2>2, <2>3
    <2> QED BY <2>4 DEF TasksCounted
<1> QED BY <1>6, <1>7, <1>8 DEF CountInv

LEMMA ApiCounts ==
    ASSUME IsFiniteSet(Workers), CountInv, TypeOK', ApiStep
    PROVE  CountInv'
<1>0. InventoryTypeOK
    BY DEF CountInv, TypeOK
<1>w. UNCHANGED <<worker, redeliveries>> /\ \A d \in Deployments : RunningOn(d)' = RunningOn(d)
    BY DEF ApiStep, RunningOn
<1>1. ASSUME NEW h \in Handlers, NEW s, Set(h, s), Unattached(s), UNCHANGED <<queue, minted>>
      PROVE  CountInv'
    <2>1. \A g \in Handlers : session'[g] = IF g = h THEN s ELSE session[g]
        BY <1>0, <1>1 DEF Set, InventoryTypeOK
    <2> QED BY <1>1, <1>w, <2>1, QuietCount DEF Unattached
<1>2. ASSUME NEW h \in Handlers, Begin(h) PROVE CountInv'
    BY <1>1, <1>2, BeginShape DEF Rows
<1>3. ASSUME NEW h \in Handlers, Abort(h) PROVE CountInv'
    <2>1. Unattached(Idle)
        BY DEF Unattached, Idle
    <2> QED BY <1>1, <1>3, <2>1 DEF Abort, Refuse, Rows
<1>4. ASSUME UNCHANGED <<queue, session>>, minted \subseteq minted' PROVE CountInv'
    BY <1>4, <1>w, QuietCount
<1>5. ASSUME NEW h \in Handlers, Resume(h) PROVE CountInv'
    <2>1. \A g \in Handlers \ {h} : session'[g] = session[g]
        BY <1>0, <1>5, ResumeTouches
    <2>2. /\ minted \subseteq minted'
          /\ \/ session'[h].dep \in {None, session[h].dep}
             \/ Accepts(h, session'[h].dep) /\ session'[h].dep \in Deployments \cap minted'
        BY <1>0, <1>5, ResumeKeepsDep
    <2>3. CASE Accepts(h, session'[h].dep) /\ session'[h].dep \in Deployments \cap minted'
        BY <1>w, <2>1, <2>2, <2>3, AcceptsCounts
    <2>4. CASE session'[h].dep \in {None, session[h].dep}
        <3>1. CASE Minds(h)
            BY <1>w, <2>1, <2>2, <2>4, <3>1, QuietCount DEF Minds
        <3>2. CASE Sends(h)
            BY <1>w, <2>1, <2>2, <2>4, <3>2, SendsCounts
        <3>3. ASSUME NEW d \in Deployments, Accepts(h, d) PROVE CountInv'
            <4>1. session'[h].dep = d /\ d \notin minted /\ d # None
                BY <3>3, InventoryConstants DEF Accepts
            <4>2. session[h].dep # d
                BY <4>1 DEF CountInv, Unmet
            <4> QED BY <2>4, <4>1, <4>2
        <3> QED BY <1>0, <1>5, <3>1, <3>2, <3>3, ResumeTouches
    <2> QED BY <2>2, <2>3, <2>4
<1>6. (\E c \in Clusters : CreateCluster(c)) \/ (\E a \in Assets : CreateAsset(a))
      => UNCHANGED <<queue, session>> /\ minted \subseteq minted'
    BY DEF CreateCluster, CreateAsset
<1> QED BY <1>2, <1>3, <1>4, <1>5, <1>6 DEF ApiStep, InventoryNext

LEMMA TakeCounts ==
    ASSUME IsFiniteSet(Workers), CountInv, TypeOK', NEW w \in Workers, NEW d \in Deployments,
           TaskTake(w, d)
    PROVE  CountInv'
<1>t. /\ worker \in [Workers -> Task] /\ queue \in [Deployments -> Nat] /\ redeliveries \in Nat
      /\ \A h \in Handlers : session[h].at = "start_enqueue" => session[h].dep \in Deployments
      /\ d # None
    BY InventoryConstants DEF CountInv, TypeOK, InventoryTypeOK, Filled
<1>1. /\ worker[w].dep = None /\ queue[d] > 0
      /\ \A e \in Deployments : queue'[e] = IF e = d THEN queue[d] - 1 ELSE queue[e]
      /\ \A v \in Workers : worker'[v].dep = IF v = w THEN d ELSE worker[v].dep
      /\ UNCHANGED <<minted, session, redeliveries>>
    BY <1>t DEF TaskTake, Running
<1>2. d \in minted /\ \A h \in Handlers : ~(session[h].at = "start_enqueue" /\ session[h].dep = d)
    BY <1>1 DEF CountInv, Unmet, Coming
<1>3. /\ RunningOn(d)' = RunningOn(d) \cup {w} /\ w \notin RunningOn(d)
      /\ \A e \in Deployments \ {d} : RunningOn(e)' = RunningOn(e)
    BY <1>t, <1>1, InventoryConstants DEF RunningOn
<1>4. Unmet'
    BY <1>1, <1>2, <1>3 DEF CountInv, Unmet
<1>5. Coming'
    BY <1>t, <1>1, <1>2, <1>3 DEF CountInv, Coming
<1>6. TasksCounted'
    <2>1. IsFiniteSet(RunningOn(d)) /\ Cardinality(RunningOn(d)) \in Nat
        BY FS_Subset, FS_CardinalityType DEF RunningOn
    <2>2. Cardinality(RunningOn(d)') = Cardinality(RunningOn(d)) + 1
        BY <1>3, <2>1, FS_AddElement
    <2>3. queue[d] + Cardinality(RunningOn(d)) <= 1 + redeliveries
        BY DEF CountInv, TasksCounted
    <2>4. queue'[d] + Cardinality(RunningOn(d)') <= 1 + redeliveries
        BY <1>t, <1>1, <2>1, <2>2, <2>3
    <2>5. \A e \in Deployments \ {d} : queue'[e] + Cardinality(RunningOn(e)') <= 1 + redeliveries
        BY <1>1, <1>3 DEF CountInv, TasksCounted
    <2> QED BY <1>1, <2>4, <2>5 DEF TasksCounted
<1> QED BY <1>4, <1>5, <1>6 DEF CountInv

LEMMA RedeliverCounts ==
    ASSUME IsFiniteSet(Workers), CountInv, TypeOK', NEW d \in Deployments, Redeliver(d)
    PROVE  CountInv'
<1>t. /\ queue \in [Deployments -> Nat] /\ redeliveries \in Nat
      /\ \A h \in Handlers : session[h].at = "start_enqueue" => session[h].dep \in Deployments
    BY DEF CountInv, TypeOK, InventoryTypeOK, Filled
<1>1. /\ queue[d] > 0 /\ redeliveries' = redeliveries + 1
      /\ \A e \in Deployments : queue'[e] = IF e = d THEN queue[d] + 1 ELSE queue[e]
      /\ UNCHANGED <<minted, session>>
      /\ \A e \in Deployments : RunningOn(e)' = RunningOn(e)
    BY <1>t DEF Redeliver, RunningOn
<1>2. d \in minted /\ \A h \in Handlers : ~(session[h].at = "start_enqueue" /\ session[h].dep = d)
    BY <1>1 DEF CountInv, Unmet, Coming
<1>3. Unmet' /\ Coming'
    BY <1>t, <1>1, <1>2 DEF CountInv, Unmet, Coming
<1>4. TasksCounted'
    <2> SUFFICES ASSUME NEW e \in Deployments
                 PROVE  queue'[e] + Cardinality(RunningOn(e)') <= 1 + redeliveries'
        BY DEF TasksCounted
    <2>1. IsFiniteSet(RunningOn(e))
        BY FS_Subset DEF RunningOn
    <2>2. Cardinality(RunningOn(e)) \in Nat /\ queue[e] \in Nat
        BY <1>t, <2>1, FS_CardinalityType
    <2>3. queue[e] + Cardinality(RunningOn(e)) <= 1 + redeliveries
        BY DEF CountInv, TasksCounted
    <2>4. queue'[e] \in {queue[e], queue[e] + 1} /\ RunningOn(e)' = RunningOn(e)
        BY <1>1
    <2> QED BY <1>t, <1>1, <2>2, <2>3, <2>4
<1> QED BY <1>3, <1>4 DEF CountInv

LEMMA CountStep ==
    ASSUME IsFiniteSet(Workers), CountInv, [Next]_vars
    PROVE  CountInv'
<1>0. TypeOK'
    BY TypeStep DEF CountInv
<1>t. worker \in [Workers -> Task]
    BY DEF CountInv, TypeOK
<1>1. ASSUME NEW w \in Workers, worker'[w].dep \in {None, worker[w].dep},
             \A v \in Workers \ {w} : worker'[v] = worker[v],
             UNCHANGED <<queue, minted, session, redeliveries>>
      PROVE  CountInv'
    <2>1. \A d \in Deployments : RunningOn(d)' \subseteq RunningOn(d)
        BY <1>1, InventoryConstants DEF RunningOn
    <2> QED BY <1>0, <1>1, <2>1, QuietCount
<1>2. ASSUME NEW w \in Workers, NEW ph \in Phases, TaskPhase(w, ph) PROVE CountInv'
    <2>1. worker[w] \in Task
        BY <1>t
    <2>2. worker'[w] = IF ph = "complete" THEN NoTask ELSE [worker[w] EXCEPT !.at = ph]
        BY <1>t, <1>2 DEF TaskPhase
    <2>3. worker'[w].dep \in {None, worker[w].dep}
        BY <2>1, <2>2 DEF Task, NoTask
    <2>4. /\ \A v \in Workers \ {w} : worker'[v] = worker[v]
          /\ UNCHANGED <<queue, minted, session, redeliveries>>
        BY <1>t, <1>2 DEF TaskPhase
    <2> QED BY <1>1, <2>3, <2>4
<1>3. ASSUME NEW w \in Workers, TaskFail(w) \/ TaskLost(w) PROVE CountInv'
    <2>1. /\ worker'[w].dep = None /\ \A v \in Workers \ {w} : worker'[v] = worker[v]
          /\ UNCHANGED <<queue, minted, session, redeliveries>>
        BY <1>t, <1>3 DEF TaskFail, TaskLost, NoTask, inventoryVars
    <2> QED BY <1>1, <2>1
<1>4. CASE UNCHANGED vars
    <2>1. UNCHANGED <<queue, minted, session, redeliveries, worker>>
        BY <1>4 DEF vars, inventoryVars
    <2>2. \A d \in Deployments : RunningOn(d)' = RunningOn(d)
        BY <2>1 DEF RunningOn
    <2> QED BY <1>0, <2>1, <2>2, QuietCount
<1> QED BY <1>0, <1>2, <1>3, <1>4, ApiCounts, TakeCounts, RedeliverCounts DEF Next, WorkerStep

\* However often the broker hands a message out again, a deployment has at most
\* one message or worker more than its message was redelivered: the API sends one
\* message per deployment, a worker that takes one acknowledges it, and neither a
\* crash nor an aborted request multiplies it (deployments.py:108-115,
\* deployment_tasks.py:306-314). OneTaskPerDeployment is the case without
\* redeliveries.
THEOREM RedeliveriesAreCounted ==
    ASSUME IsFiniteSet(Workers)
    PROVE  Spec => []TasksCounted
<1>1. Init => CountInv
    <2> SUFFICES ASSUME Init PROVE CountInv
        OBVIOUS
    <2>1. \A d \in Deployments : queue[d] = 0 /\ RunningOn(d) = {} /\ d # None
        BY InventoryConstants DEF Init, InventoryInit, RunningOn, NoTask
    <2>2. \A h \in Handlers : session[h].dep = None /\ session[h].at = "idle"
        BY DEF Init, InventoryInit, Idle
    <2>3. Unmet /\ Coming
        BY <2>1, <2>2 DEF Unmet, Coming
    <2>4. TasksCounted
        BY <2>1, FS_EmptySet DEF Init, TasksCounted
    <2> QED BY <2>3, <2>4, TypeInit DEF CountInv
<1>2. CountInv /\ [Next]_vars => CountInv'
    BY CountStep
<1>3. CountInv => TasksCounted
    BY DEF CountInv
<1> QED BY <1>1, <1>2, <1>3, PTL DEF Spec
=============================================================================
