------------------------------ MODULE Inventory ------------------------------
(***************************************************************************)
(* The console's API over its database: cluster, hardware-asset,           *)
(* pool-assignment and deployment rows, and the FastAPI handlers that      *)
(* change them.                                                            *)
(*                                                                         *)
(* One API process serves all requests on one event loop, so handlers      *)
(* interleave exactly where they await the database.  A handler is a       *)
(* session (SQLAlchemy's unit of work): every SELECT is a step that copies *)
(* a committed row into the session, and the final commit is one atomic    *)
(* step that writes back the columns the handler changed, subject to the   *)
(* foreign keys.  Between two steps any other handler may commit (READ     *)
(* COMMITTED, no row is locked by the reads).                              *)
(***************************************************************************)
EXTENDS Naturals, FiniteSets, DeploymentPhases

CONSTANTS
    Handlers,        \* requests the event loop can have in flight
    Clusters,        \* cluster ids that can ever be minted
    Metal3Clusters,  \* those created with infrastructure_provider = metal3
    NameOf,          \* the name each cluster is created with
    Assets,          \* hardware-asset ids
    Pools,           \* pool names
    Deployments,     \* deployment ids that can ever be minted
    Operations,      \* the endpoints the clients of this instance call
    MaxBatches,      \* bound: assign requests that commit
    MaxRepeat,       \* bound: times one asset id is repeated in a request
    Aborts,          \* whether a request may die on a database/broker error or API restart
    None

ASSUME InventoryConstants ==
    /\ Metal3Clusters \subseteq Clusters
    /\ MaxBatches \in Nat /\ MaxRepeat \in Nat
    /\ Aborts \in BOOLEAN
    /\ None \notin Clusters \cup Pools \cup Deployments

VARIABLES
    clusters,     \* the ids with a row in table clusters
    asset,        \* table hardware_assets
    assignments,  \* table node_pool_assignments
    deployment,   \* table deployments
    minted,       \* uuids already given out
    batch,        \* number of committed assign requests (makes row ids unique)
    queue,        \* per deployment: copies of its task message at the broker
    session       \* per handler: the request it serves and the rows it has read

inventoryVars == <<clusters, asset, assignments, deployment, minted, batch, queue, session>>

-----------------------------------------------------------------------------
(* Rows *)

AssetStatus == {"discovered", "available", "reserved", "provisioned", "decommissioned"}

AssetRow == [status: AssetStatus \cup {"absent", "unread"},
             cluster: Clusters \cup {None}, pool: Pools \cup {None}]

Absent == [status |-> "absent", cluster |-> None, pool |-> None]
Unread == [status |-> "unread", cluster |-> None, pool |-> None]
Free   == [status |-> "available", cluster |-> None, pool |-> None]

HasRow(row) == row.status \in AssetStatus

Assignment == [batch: Nat, copy: 1..MaxRepeat,
               asset: Assets, cluster: Clusters, pool: Pools]

DeploymentRow == [phase: Phases \cup {"absent"}, cluster: Clusters \cup {None},
                  tracked: BOOLEAN]

NoDeployment == [phase |-> "absent", cluster |-> None, tracked |-> FALSE]

(* The UPDATE SQLAlchemy emits at flush names only the columns whose value
   differs from the one that was loaded; the other columns keep whatever is
   in the table by then. *)
Merge(loaded, new, stored) ==
    [status  |-> IF new.status  # loaded.status  THEN new.status  ELSE stored.status,
     cluster |-> IF new.cluster # loaded.cluster THEN new.cluster ELSE stored.cluster,
     pool    |-> IF new.pool    # loaded.pool    THEN new.pool    ELSE stored.pool]

-----------------------------------------------------------------------------
(* Sessions *)

Steps == {"idle", "assign", "unassign", "patch", "remove",
          "delete_deployments", "delete_links", "delete_assets",
          "start_links", "start_assets", "start_enqueue", "start_save"}

Session == [at: Steps, cluster: Clusters \cup {None}, pool: Pools \cup {None},
            picks: [Assets -> 0..MaxRepeat],  \* asset_ids of an assign request
            cache: [Assets -> AssetRow],      \* asset rows as this session read them
            want: AssetRow,                   \* the asset values a PATCH or sync sets
            links: SUBSET Assignment,         \* assignment rows it read
            seen: SUBSET Deployments,         \* deployment rows it read
            dep: Deployments \cup {None}]     \* the deployment row it inserted

Idle == [at |-> "idle", cluster |-> None, pool |-> None,
         picks |-> [a \in Assets |-> 0], cache |-> [a \in Assets |-> Unread],
         want |-> Unread, links |-> {}, seen |-> {}, dep |-> None]

Set(h, s) == session' = [session EXCEPT ![h] = s]

Picked(s) == {a \in Assets : s.picks[a] > 0}
Linked(s) == {x.asset : x \in s.links}
Unfetched(s, as) == {a \in as : s.cache[a] = Unread}
Loaded(s) == {a \in Assets : HasRow(s.cache[a])}

(* Every loaded asset set to `new': the table after the flush, and whether the
   flush hits a row that is gone (StaleDataError, answered as a 500). *)
Flush(s, new) ==
    [a \in Assets |-> IF a \in Loaded(s) THEN Merge(s.cache[a], new, asset[a]) ELSE asset[a]]

Stale(s, new) == \E a \in Loaded(s) : s.cache[a] # new /\ ~HasRow(asset[a])

Rows == <<clusters, asset, assignments, deployment, minted, batch, queue>>

\* The request is answered with an error: nothing was committed.
Refuse(h) == Set(h, Idle) /\ UNCHANGED Rows

-----------------------------------------------------------------------------
(* POST /clusters and POST /hardware-assets.  The name check and the unique
   index both refuse a second row of the same name, whatever runs in between. *)

CreateCluster(c) ==
    /\ c \notin minted
    /\ \A other \in clusters : NameOf[other] # NameOf[c]
    /\ clusters' = clusters \cup {c}
    /\ minted' = minted \cup {c}
    /\ UNCHANGED <<asset, assignments, deployment, batch, queue, session>>

CreateAsset(a) ==
    /\ a \notin minted
    /\ asset' = [asset EXCEPT ![a] = [Absent EXCEPT !.status = "discovered"]]
    /\ minted' = minted \cup {a}
    /\ UNCHANGED <<clusters, assignments, deployment, batch, queue, session>>

-----------------------------------------------------------------------------
(* POST /clusters/{c}/pools/{p}/assign *)

AssignBegin(h, c, p, picks) ==
    /\ "assign" \in Operations
    /\ session[h] = Idle
    /\ c \in clusters \cap Metal3Clusters
    /\ batch + Cardinality({g \in Handlers : session[g].at = "assign"}) < MaxBatches
    /\ Set(h, [Idle EXCEPT !.at = "assign", !.cluster = c, !.pool = p, !.picks = picks])
    /\ UNCHANGED Rows

\* Mutant: the status check is lost.
AssignReadAnyStatus(h, a) ==
    LET s == session[h] IN
    /\ s.at = "assign"
    /\ a \in Unfetched(s, Picked(s))
    /\ IF HasRow(asset[a])
       THEN Set(h, [s EXCEPT !.cache[a] = asset[a]]) /\ UNCHANGED Rows
       ELSE Refuse(h)

\* Mutant: an unavailable asset is waited for instead of refused.
AssignReadWaits(h, a) ==
    LET s == session[h] IN
    /\ s.at = "assign"
    /\ a \in Unfetched(s, Picked(s))
    /\ asset[a].status \in {"available", "discovered"}
    /\ Set(h, [s EXCEPT !.cache[a] = asset[a]])
    /\ UNCHANGED Rows

\* One turn of the loop over asset_ids: 404 and 409 end the request.
AssignRead(h, a) ==
    LET s == session[h] IN
    /\ s.at = "assign"
    /\ a \in Unfetched(s, Picked(s))
    /\ IF asset[a].status \in {"available", "discovered"}
       THEN Set(h, [s EXCEPT !.cache[a] = asset[a]]) /\ UNCHANGED Rows
       ELSE Refuse(h)

Reserved(s) == [status |-> "reserved", cluster |-> s.cluster, pool |-> s.pool]

NewAssignments(s) ==
    {x \in [batch: {batch + 1}, copy: 1..MaxRepeat, asset: Assets,
            cluster: {s.cluster}, pool: {s.pool}] : x.copy <= s.picks[x.asset]}

AssignCommit(h) ==
    LET s == session[h] IN
    /\ s.at = "assign"
    /\ Unfetched(s, Picked(s)) = {}
    /\ IF s.cluster \in clusters /\ ~Stale(s, Reserved(s))
       THEN /\ assignments' = assignments \cup NewAssignments(s)
            /\ asset' = Flush(s, Reserved(s))
            /\ batch' = batch + 1
            /\ Set(h, Idle)
            /\ UNCHANGED <<clusters, deployment, minted, queue>>
       ELSE Refuse(h)

-----------------------------------------------------------------------------
(* DELETE /clusters/{c}/pools/{p}/assets/{a} *)

UnassignBegin(h, x) ==
    /\ "unassign" \in Operations
    /\ session[h] = Idle
    /\ x \in assignments
    /\ Set(h, [Idle EXCEPT !.at = "unassign", !.links = {x}])
    /\ UNCHANGED Rows

\* Mutant: the assignment goes, the asset row keeps its reservation.
UnassignCommitKeepsRow(h) ==
    LET s == session[h] IN
    /\ s.at = "unassign"
    /\ Unfetched(s, Linked(s)) = {}
    /\ assignments' = assignments \ s.links
    /\ Set(h, Idle)
    /\ UNCHANGED <<clusters, asset, deployment, minted, batch, queue>>

UnassignCommit(h) ==
    LET s == session[h] IN
    /\ s.at = "unassign"
    /\ Unfetched(s, Linked(s)) = {}
    /\ IF ~Stale(s, Free)
       THEN /\ asset' = Flush(s, Free)
            /\ assignments' = assignments \ s.links
            /\ Set(h, Idle)
            /\ UNCHANGED <<clusters, deployment, minted, batch, queue>>
       ELSE Refuse(h)

\* await db.get(HardwareAsset, assignment.asset_id), one turn of the loops of
\* unassign, delete_cluster and start_deployment.
ReadLinkedAsset(h, a) ==
    LET s == session[h] IN
    /\ s.at \in {"unassign", "delete_assets", "start_assets"}
    /\ a \in Unfetched(s, Linked(s))
    /\ Set(h, [s EXCEPT !.cache[a] = asset[a]])
    /\ UNCHANGED Rows

-----------------------------------------------------------------------------
(* PATCH /hardware-assets/{a}, POST .../sync-from-ironic, DELETE *)

\* An operator may PATCH status and node_pool_name to anything.
PatchBegin(h, a, status, pool) ==
    /\ "patch" \in Operations
    /\ session[h] = Idle
    /\ HasRow(asset[a])
    /\ Set(h, [Idle EXCEPT !.at = "patch", !.cache[a] = asset[a],
                           !.want = [asset[a] EXCEPT !.status = status, !.pool = pool]])
    /\ UNCHANGED Rows

\* Sync sets the status to available, whatever it was.
SyncBegin(h, a) ==
    /\ "sync" \in Operations
    /\ session[h] = Idle
    /\ HasRow(asset[a])
    /\ Set(h, [Idle EXCEPT !.at = "patch", !.cache[a] = asset[a],
                           !.want = [asset[a] EXCEPT !.status = "available"]])
    /\ UNCHANGED Rows

PatchCommit(h) ==
    LET s == session[h] IN
    /\ s.at = "patch"
    /\ IF ~Stale(s, s.want)
       THEN asset' = Flush(s, s.want) /\ Set(h, Idle)
            /\ UNCHANGED <<clusters, assignments, deployment, minted, batch, queue>>
       ELSE Refuse(h)

RemoveBegin(h, a) ==
    /\ "remove" \in Operations
    /\ session[h] = Idle
    /\ HasRow(asset[a])
    /\ Set(h, [Idle EXCEPT !.at = "remove", !.cache[a] = asset[a]])
    /\ UNCHANGED Rows

\* Mutant: no foreign key on the asset.
RemoveCommitUnchecked(h) ==
    LET s == session[h] IN
    /\ s.at = "remove"
    /\ asset' = [a \in Assets |-> IF a \in Loaded(s) THEN Absent ELSE asset[a]]
    /\ Set(h, Idle)
    /\ UNCHANGED <<clusters, assignments, deployment, minted, batch, queue>>

\* node_pool_assignments.asset_id refuses the DELETE of an assigned asset.
RemoveCommit(h) ==
    LET s == session[h] IN
    /\ s.at = "remove"
    /\ IF \A x \in assignments : x.asset \notin Loaded(s)
       THEN /\ asset' = [a \in Assets |-> IF a \in Loaded(s) THEN Absent ELSE asset[a]]
            /\ Set(h, Idle)
            /\ UNCHANGED <<clusters, assignments, deployment, minted, batch, queue>>
       ELSE Refuse(h)

-----------------------------------------------------------------------------
(* DELETE /clusters/{c} *)

DeleteBegin(h, c) ==
    /\ "delete" \in Operations
    /\ session[h] = Idle
    /\ c \in clusters
    /\ Set(h, [Idle EXCEPT !.at = "delete_deployments", !.cluster = c])
    /\ UNCHANGED Rows

DeploymentsOf(c) == {d \in Deployments : deployment[d].phase # "absent" /\ deployment[d].cluster = c}
AssignmentsOf(c) == {x \in assignments : x.cluster = c}

InFlight(d) == deployment[d].phase \in Phases \ Terminal

\* Mutant: no check that a deployment is in flight.
DeleteReadDeploymentsUnchecked(h) ==
    LET s == session[h] IN
    /\ s.at = "delete_deployments"
    /\ Set(h, [s EXCEPT !.at = "delete_links", !.seen = DeploymentsOf(s.cluster)])
    /\ UNCHANGED Rows

DeleteReadDeployments(h) ==
    LET s == session[h] IN
    /\ s.at = "delete_deployments"
    /\ IF \E d \in DeploymentsOf(s.cluster) : InFlight(d)
       THEN Refuse(h)
       ELSE Set(h, [s EXCEPT !.at = "delete_links", !.seen = DeploymentsOf(s.cluster)])
            /\ UNCHANGED Rows

DeleteReadLinks(h) ==
    LET s == session[h] IN
    /\ s.at = "delete_links"
    /\ Set(h, [s EXCEPT !.at = "delete_assets", !.links = AssignmentsOf(s.cluster)])
    /\ UNCHANGED Rows

\* Mutants: one of the two foreign keys is not enforced.
DeletableDespiteAssignments(s) == DeploymentsOf(s.cluster) \subseteq s.seen /\ ~Stale(s, Free)
DeletableDespiteDeployments(s) == AssignmentsOf(s.cluster) \subseteq s.links /\ ~Stale(s, Free)

\* The foreign keys of node_pool_assignments and deployments
\* (models/pool_assignment.py:19, deployment.py:31) refuse the DELETE of a
\* cluster that still has rows this session did not see.
Deletable(s) ==
    /\ AssignmentsOf(s.cluster) \subseteq s.links
    /\ DeploymentsOf(s.cluster) \subseteq s.seen
    /\ ~Stale(s, Free)

\* hardware_assets.cluster_id is ON DELETE SET NULL.
Unlink(rows, c) ==
    [a \in Assets |-> IF rows[a].cluster = c THEN [rows[a] EXCEPT !.cluster = None] ELSE rows[a]]

DeleteCommit(h) ==
    LET s == session[h] IN
    /\ s.at = "delete_assets"
    /\ Unfetched(s, Linked(s)) = {}
    /\ IF Deletable(s)
       THEN /\ clusters' = clusters \ {s.cluster}
            /\ asset' = Unlink(Flush(s, Free), s.cluster)
            /\ assignments' = assignments \ s.links
            /\ deployment' = [d \in Deployments |-> IF d \in s.seen THEN NoDeployment ELSE deployment[d]]
            /\ Set(h, Idle)
            /\ UNCHANGED <<minted, batch, queue>>
       ELSE Refuse(h)

-----------------------------------------------------------------------------
(* POST /deployments *)

\* A cloud cluster has no hardware to read: it goes straight to the INSERT.
StartBegin(h, c) ==
    /\ "start" \in Operations
    /\ session[h] = Idle
    /\ c \in clusters
    /\ Cardinality({g \in Handlers : session[g].at \in {"start_links", "start_assets"}})
          < Cardinality(Deployments \ minted)
    /\ Set(h, [Idle EXCEPT !.at = IF c \in Metal3Clusters THEN "start_links" ELSE "start_assets",
                           !.cluster = c])
    /\ UNCHANGED Rows

\* 409 when no hardware is assigned.
StartReadLinks(h) ==
    LET s == session[h] IN
    /\ s.at = "start_links"
    /\ IF AssignmentsOf(s.cluster) = {}
       THEN Refuse(h)
       ELSE Set(h, [s EXCEPT !.at = "start_assets", !.links = AssignmentsOf(s.cluster)])
            /\ UNCHANGED Rows

\* generate_bundle raised ValueError: 422 before anything is written.
StartReject(h) ==
    /\ session[h].at = "start_assets"
    /\ session[h].links # {}
    /\ Unfetched(session[h], Linked(session[h])) = {}
    /\ Refuse(h)

\* The first commit inserts the row; deployments.cluster_id must still exist.
StartCommit(h, d) ==
    LET s == session[h] IN
    /\ s.at = "start_assets"
    /\ Unfetched(s, Linked(s)) = {}
    /\ d \notin minted
    /\ IF s.cluster \in clusters
       THEN /\ deployment' = [deployment EXCEPT ![d] =
                                 [phase |-> "queued", cluster |-> s.cluster, tracked |-> FALSE]]
            /\ minted' = minted \cup {d}
            /\ Set(h, [s EXCEPT !.at = "start_enqueue", !.dep = d])
            /\ UNCHANGED <<clusters, asset, assignments, batch, queue>>
       ELSE Refuse(h)

\* Mutants: the message is sent again and again, or never.
StartEnqueueRepeats(h) ==
    LET s == session[h] IN
    /\ s.at = "start_enqueue"
    /\ queue' = [queue EXCEPT ![s.dep] = @ + 1]
    /\ UNCHANGED <<session, clusters, asset, assignments, deployment, minted, batch>>

StartEnqueueLoses(h) ==
    LET s == session[h] IN
    /\ s.at = "start_enqueue"
    /\ Set(h, [s EXCEPT !.at = "start_save"])
    /\ UNCHANGED Rows

\* run_deployment_task.delay puts the message on the broker.
StartEnqueue(h) ==
    LET s == session[h] IN
    /\ s.at = "start_enqueue"
    /\ queue' = [queue EXCEPT ![s.dep] = @ + 1]
    /\ Set(h, [s EXCEPT !.at = "start_save"])
    /\ UNCHANGED <<clusters, asset, assignments, deployment, minted, batch>>

\* Mutant: the second commit writes back the whole row as it was inserted.
StartSaveWholeRow(h) ==
    LET s == session[h] IN
    /\ s.at = "start_save"
    /\ deployment' = [deployment EXCEPT ![s.dep] =
                         IF @.phase = "absent" THEN @ ELSE [@ EXCEPT !.phase = "queued", !.tracked = TRUE]]
    /\ Set(h, Idle)
    /\ UNCHANGED <<clusters, asset, assignments, minted, batch, queue>>

\* The second commit stores celery_task_id (and no other column).
StartSave(h) ==
    LET s == session[h] IN
    /\ s.at = "start_save"
    /\ deployment' = [deployment EXCEPT ![s.dep].tracked = deployment[s.dep].phase # "absent"]
    /\ Set(h, Idle)
    /\ UNCHANGED <<clusters, asset, assignments, minted, batch, queue>>

-----------------------------------------------------------------------------
\* A database, broker or Kubernetes error, or the restart of the API process,
\* ends a request between two of its steps: what it committed stays.
Abort(h) ==
    /\ Aborts
    /\ session[h] # Idle
    /\ Refuse(h)

-----------------------------------------------------------------------------
InventoryInit ==
    /\ clusters = {}
    /\ asset = [a \in Assets |-> Absent]
    /\ assignments = {}
    /\ deployment = [d \in Deployments |-> NoDeployment]
    /\ minted = {}
    /\ batch = 0
    /\ queue = [d \in Deployments |-> 0]
    /\ session = [h \in Handlers |-> Idle]

\* asset_ids, as how often each id occurs in it (the order does not matter).
Requests == {picks \in [Assets -> 0..MaxRepeat] : \E a \in Assets : picks[a] > 0}

\* A request arrives.
Begin(h) ==
    \/ \E c \in Clusters, p \in Pools, picks \in Requests : AssignBegin(h, c, p, picks)
    \/ \E x \in assignments : UnassignBegin(h, x)
    \/ \E a \in Assets, st \in AssetStatus, p \in Pools \cup {None} : PatchBegin(h, a, st, p)
    \/ \E a \in Assets : SyncBegin(h, a) \/ RemoveBegin(h, a)
    \/ \E c \in Clusters : DeleteBegin(h, c) \/ StartBegin(h, c)

\* The event loop resumes the handler of a request in flight.
Resume(h) ==
    \/ \E a \in Assets : AssignRead(h, a) \/ ReadLinkedAsset(h, a)
    \/ AssignCommit(h) \/ UnassignCommit(h) \/ PatchCommit(h) \/ RemoveCommit(h)
    \/ DeleteReadDeployments(h) \/ DeleteReadLinks(h) \/ DeleteCommit(h)
    \/ StartReadLinks(h) \/ StartReject(h) \/ StartEnqueue(h) \/ StartSave(h)
    \/ \E d \in Deployments : StartCommit(h, d)

InventoryNext ==
    \/ \E c \in Clusters : CreateCluster(c)
    \/ \E a \in Assets : CreateAsset(a)
    \/ \E h \in Handlers : Begin(h) \/ Resume(h) \/ Abort(h)

\* A request has the fields its next steps use.
Filled(s) ==
    /\ s.at = "assign" => s.pool \in Pools
    /\ s.at = "patch" => HasRow(s.want)
    /\ s.at \in {"start_enqueue", "start_save"} => s.dep \in Deployments

InventoryTypeOK ==
    /\ clusters \subseteq Clusters
    /\ asset \in [Assets -> AssetRow]
    /\ assignments \subseteq Assignment
    /\ deployment \in [Deployments -> DeploymentRow]
    /\ minted \subseteq Clusters \cup Assets \cup Deployments
    /\ batch \in Nat
    /\ queue \in [Deployments -> Nat]
    /\ session \in [Handlers -> Session]
    /\ \A h \in Handlers : Filled(session[h])
=============================================================================
