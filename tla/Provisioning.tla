----------------------------- MODULE Provisioning -----------------------------
(***************************************************************************)
(* The whole path of a deployment: the API of module Inventory, the Celery *)
(* queue, and the worker processes that run the deployment.run task.       *)
(*                                                                         *)
(* A worker is seen here as the sequence of phase writes it makes on the   *)
(* Deployment row; module DeploymentTask models what it does in between.   *)
(***************************************************************************)
EXTENDS Inventory

CONSTANTS
    Workers,          \* prefork worker processes
    MaxRedeliveries,  \* bound: messages the broker hands out a second time
    Crashes           \* whether a worker process may die in the middle of a task

ASSUME ProvisioningConstants == MaxRedeliveries \in Nat /\ Crashes \in BOOLEAN

VARIABLES
    worker,       \* per process: the deployment it runs and the last phase it reached
    redeliveries  \* messages redelivered so far

vars == <<inventoryVars, worker, redeliveries>>

Task == [dep: Deployments \cup {None}, at: Phases]
NoTask == [dep |-> None, at |-> "queued"]

Running(w) == worker[w].dep # None

\* session.get(Deployment, id); the write is skipped when the row is gone.
WritePhase(d, phase) ==
    deployment' = IF deployment[d].phase = "absent" THEN deployment
                  ELSE [deployment EXCEPT ![d].phase = phase]

\* Mutants: a message is taken without being there, or never acknowledged.
TaskTakeUnguarded(w, d) ==
    /\ ~Running(w)
    /\ queue' = [queue EXCEPT ![d] = @ - 1]
    /\ worker' = [worker EXCEPT ![w] = [dep |-> d, at |-> "queued"]]
    /\ UNCHANGED <<clusters, asset, assignments, deployment, minted, batch, session, redeliveries>>

TaskTakeUnacknowledged(w, d) ==
    /\ ~Running(w)
    /\ queue[d] > 0
    /\ worker' = [worker EXCEPT ![w] = [dep |-> d, at |-> "queued"]]
    /\ UNCHANGED <<inventoryVars, redeliveries>>

\* The message is acknowledged when a process starts it (task_acks_late is off).
TaskTake(w, d) ==
    /\ ~Running(w)
    /\ queue[d] > 0
    /\ queue' = [queue EXCEPT ![d] = @ - 1]
    /\ worker' = [worker EXCEPT ![w] = [dep |-> d, at |-> "queued"]]
    /\ UNCHANGED <<clusters, asset, assignments, deployment, minted, batch, session, redeliveries>>

TaskPhase(w, phase) ==
    /\ Running(w)
    /\ <<worker[w].at, phase>> \in PhaseSteps
    /\ WritePhase(worker[w].dep, phase)
    /\ worker' = [worker EXCEPT ![w] = IF phase = "complete" THEN NoTask ELSE [@ EXCEPT !.at = phase]]
    /\ UNCHANGED <<clusters, asset, assignments, minted, batch, queue, session, redeliveries>>

TaskFail(w) ==
    /\ Running(w)
    /\ WritePhase(worker[w].dep, "failed")
    /\ worker' = [worker EXCEPT ![w] = NoTask]
    /\ UNCHANGED <<clusters, asset, assignments, minted, batch, queue, session, redeliveries>>

\* The process dies, or the write of the except block fails too: the row keeps
\* its phase and nobody works on the deployment any more.
TaskLost(w) ==
    /\ Crashes
    /\ Running(w)
    /\ worker' = [worker EXCEPT ![w] = NoTask]
    /\ UNCHANGED <<inventoryVars, redeliveries>>

\* A message that waited in a worker's prefetch buffer for longer than the Redis
\* transport's visibility timeout goes back on the queue while the buffered copy
\* is still going to run.
Redeliver(d) ==
    /\ redeliveries < MaxRedeliveries
    /\ queue[d] > 0
    /\ queue' = [queue EXCEPT ![d] = @ + 1]
    /\ redeliveries' = redeliveries + 1
    /\ UNCHANGED <<clusters, asset, assignments, deployment, minted, batch, session, worker>>

Init ==
    /\ InventoryInit
    /\ worker = [w \in Workers |-> NoTask]
    /\ redeliveries = 0

ApiStep == InventoryNext /\ UNCHANGED <<worker, redeliveries>>

WorkerStep(w) ==
    \/ \E d \in Deployments : TaskTake(w, d)
    \/ \E phase \in Phases : TaskPhase(w, phase)
    \/ TaskFail(w)

Next ==
    \/ ApiStep
    \/ \E w \in Workers : WorkerStep(w) \/ TaskLost(w)
    \/ \E d \in Deployments : Redeliver(d)

\* The event loop resumes every handler whose query was answered; a worker
\* process keeps running, and every wait of its task has a deadline.
Fairness ==
    /\ \A h \in Handlers : WF_vars(Resume(h) /\ UNCHANGED <<worker, redeliveries>>)
    /\ \A w \in Workers : WF_vars(WorkerStep(w))

Spec == Init /\ [][Next]_vars
FairSpec == Spec /\ Fairness

-----------------------------------------------------------------------------
TypeOK ==
    /\ InventoryTypeOK
    /\ worker \in [Workers -> Task]
    /\ redeliveries \in Nat

-----------------------------------------------------------------------------
(* Safety *)

\* Every assignment row points at a cluster and an asset that exist, and every
\* deployment row at a cluster that exists, however assign, unassign, asset
\* removal, start_deployment and delete_cluster interleave.
ReferencesResolve ==
    /\ \A x \in assignments : x.cluster \in clusters /\ HasRow(asset[x.asset])
    /\ \A d \in Deployments : deployment[d].phase # "absent" => deployment[d].cluster \in clusters

\* A deployment is worked on by one task at most: its message is on the queue
\* or one process runs it, never both and never two processes (as long as the
\* broker delivers each message once).
OneTaskPerDeployment ==
    \A d \in Deployments :
        /\ queue[d] <= 1
        /\ \A w \in Workers : worker[w].dep = d =>
              queue[d] = 0 /\ \A v \in Workers : worker[v].dep = d => v = w

\* While a task runs, its row shows the phase the task is in: start_deployment
\* stores celery_task_id after the task may have started, and must not put the
\* phase it inserted back; and nobody deletes the row.
RowFollowsTask ==
    \A w \in Workers : Running(w) => deployment[worker[w].dep].phase = worker[w].at

\* The cluster of a task that is queued or running exists: delete_cluster
\* checks the deployments long before it commits, and start_deployment may
\* commit a new one in between.
TaskHasCluster ==
    \A d \in Deployments :
        queue[d] > 0 \/ (\E w \in Workers : worker[w].dep = d) =>
            InFlight(d) /\ deployment[d].cluster \in clusters

(* Action properties *)

\* A deployment only moves along the pipeline or to failed; a finished one
\* never starts again, and a row disappears only when it is finished.
PhaseForward ==
    [][\A d \in Deployments :
         LET before == deployment[d].phase
             after  == deployment'[d].phase
         IN  \/ after = before
             \/ before = "absent" /\ after = "queued"
             \/ <<before, after>> \in PhaseSteps
             \/ InFlight(d) /\ after = "failed"
             \/ before \in Terminal /\ after = "absent"]_vars

(* Liveness *)

\* A deployment the API accepted is finished one day, so that its cluster can be
\* deleted: delete_cluster says "wait for them to finish or fail first".
DeploymentEnds == \A d \in Deployments : InFlight(d) ~> ~InFlight(d)

\* Every request is answered, whatever the other requests do.
RequestAnswered == \A h \in Handlers : session[h] # Idle ~> session[h] = Idle

-----------------------------------------------------------------------------
(* The inventory as its clients see it *)

OnAsset(a) == {x \in assignments : x.asset = a}

\* The status, cluster and pool of an asset row say exactly what the assignment
\* rows say: reserved means one assignment, to that cluster and pool, and every
\* other asset has none.  (Requests one at a time, no sync-from-ironic, no PATCH
\* of status.)
RowAgreesWithAssignments ==
    \A a \in Assets :
        IF asset[a].status = "reserved"
        THEN \E x \in OnAsset(a) : /\ OnAsset(a) = {x}
                                   /\ asset[a].cluster = x.cluster
                                   /\ asset[a].pool = x.pool
        ELSE OnAsset(a) = {} /\ asset[a].cluster = None /\ asset[a].pool = None

Holder(a) ==
    IF ~HasRow(asset[a]) THEN [state |-> "unknown", cluster |-> None, pool |-> None]
    ELSE IF OnAsset(a) = {} THEN [state |-> "free", cluster |-> None, pool |-> None]
    ELSE LET x == CHOOSE x \in OnAsset(a) : TRUE
         IN  [state |-> "held", cluster |-> x.cluster, pool |-> x.pool]

Ownership == INSTANCE AssetOwnership WITH holder <- [a \in Assets |-> Holder(a)]

\* Requests one at a time implement the ownership promise.
ImplementsOwnership == Ownership!Spec

-----------------------------------------------------------------------------
(* What the repository says and the code does not keep *)

\* POST .../assign "rejects assets that are already reserved elsewhere".
AssetHeldOnce == \A x, y \in assignments : x.asset = y.asset => x = y
=============================================================================
