# Verification of metal3-deploy-k8s

The repository is a console that keeps an inventory of bare-metal servers, assigns them to the node
pools of clusters, and deploys Kubernetes clusters on them through Metal3, Cluster API and Helm. A
FastAPI process (`backend/app/api`) answers requests over a PostgreSQL database, a Celery worker
(`backend/app/tasks`) runs the deployments, a React frontend (`frontend/src`) shows them.

This directory holds a formal model of it: TLA+ modules translated from `src/backend/app`, the TLC
configurations that check them on small instances, and proofs that TLAPS checks for every instance.
All paths below are relative to `src/`; `api/`, `tasks/`, `services/`, `models/`, `core/` and
`websocket/` stand for the directories of that name in `backend/app/`.

## 1. Inventory of the system

| Component | State | Operations | Interacts with | Hard behaviour | Correct when |
|---|---|---|---|---|---|
| Cluster registry (`api/clusters.py`) | `clusters` rows | create, PATCH, delete | deletes assignments and deployments, frees assets | several reads, one commit, between which other requests commit | nothing refers to a cluster that is gone; a cluster with a running deployment stays |
| Hardware inventory (`api/hardware_assets.py`) | `hardware_assets` rows, BMC secrets in Kubernetes | create, bulk import, PATCH, delete, sync-from-ironic, set credentials, resync | Ironic through BareMetalHost objects | read-modify-write on rows that `assign` changes too | row status and assignment rows agree |
| Pool assignment (`api/planner.py`) | `node_pool_assignments` rows | assign, unassign | changes the asset rows | check-then-act on the asset status | an asset has at most one owner |
| Deployment API (`api/deployments.py`) | `deployments` rows | start, list, get, WebSocket | sends `deployment.run`, reads assignments | commit, enqueue, commit again while the worker may already run | one task per row, the row shows what the task does |
| Celery (`tasks/`) | Redis list, worker processes | deliver, acknowledge, redeliver | runs the tasks | at-most-once on a crash, at-least-once after the visibility timeout | every row ends in a terminal phase |
| Deployment task (`tasks/deployment_tasks.py`, `services/addons.py`, `capi.py`, `target_cluster.py`, `pivot.py`) | phase of the row, manifests on the management cluster, addons, a kubeconfig on disk | the eleven phases of the pipeline, the except and finally blocks | Kubernetes API, helm, clusterctl | partial failure, two deadlines, hosts that change state meanwhile | phases in order, gates passed, half-done work is a failure, no credential left on disk |
| Sessions and schema (`core/db.py`) | unit of work per request; the schema | `get_db`, start-up auto-migration | every handler | two processes migrating at once | a request commits all of its changes or none |
| App store (`api/addons.py`, `tasks/addon_tasks.py`) | `spec.addons`, `addon_status` (JSON columns) | enable, disable, the `addon.install` task | a second Celery application, the target cluster | whole-column read-modify-write from API and workers | intent and status reflect what was asked and done |
| Progress feed (`websocket/manager.py`, `frontend/src/lib/useDeploymentSocket.ts`) | sockets per deployment; events in the browser | connect, disconnect, broadcast, reconnect | the task broadcasts | reconnects, dead sockets, worker and API are different processes | a connected browser sees the events |
| BMC credentials (`services/crypto.py`, `bmc.py`, `api/hardware_assets.py`) | encrypted columns, Secret | set, resync, rotate | Kubernetes | stores changed one after the other, a key that changes under running requests | they agree once a request succeeded; every kept password can be decrypted |
| Bare-metal registration (`api/baremetalhosts.py`, `services/metal3.py`) | BareMetalHost objects, Secrets, asset rows | register one or many, list, power | Kubernetes | a batch that is refused in the middle | what was confirmed is kept |
| AI workloads (`api/ai_workloads.py`, `services/target_cluster.py`) | rows, objects on the target cluster | create, redeploy, delete | target cluster | row and objects changed in turn, each request with the status it read | the status tells what runs; nothing is left behind unexplained |
| Asset planner, CPU topology, cloud planner, introspection (`services/`) | none (they read asset, assignment and cluster rows) | translate reports, render a bundle | used by `start_deployment` and the preview | their inputs change in any order; odd counts | replicas equal the hosts; reserved CPUs exist; networks follow the roles |
| Authentication (`api/auth.py`, `services/auth.py`) | `users` rows | login, change of password, seed the first admin | all routes | two processes seed at once, each with its own random password | the password in the log is the admin's |
| Manifest templates, machines, LLM providers | none; a table nobody writes; rows with a name and a key | rendering, reads, create and delete | Kubernetes, the providers | none | - |
| Frontend pages, scripts, images, simulators (`frontend/`, `deploy/`, `scripts/`) | none of its own | forms; run once by an operator | API | none | - |

How the parts interact: API handlers and workers share the database; the API sends messages through
Redis; workers call Kubernetes, helm and clusterctl; the only callback is the WebSocket broadcast.
`PROJECT.json` lists the components with what is and is not modelled, and the hazards with their lines.

## 2. The modules

| Module | Models | Lines it stands for |
|---|---|---|
| `DeploymentPhases` | the phases, the terminal ones, the order of the pipeline | `models/deployment.py`, `api/clusters.py:19`, `_run_deployment` |
| `Inventory` | the four tables, one session per request, and all handlers that change them | `api/clusters.py`, `planner.py`, `hardware_assets.py`, `deployments.py`, `core/db.py` |
| `Provisioning` | composes `Inventory` with the queue and the worker processes; states the properties | `tasks/deployment_tasks.py` as seen from the row |
| `AssetOwnership` | abstract: a server is unknown, free, or held by one cluster and pool | - |
| `DeploymentTask` | one run of `deployment.run` in detail | `tasks/deployment_tasks.py`, `services/capi.py`, `addons.py`, `target_cluster.py`, `pivot.py` |
| `AddonStore` | the app store of one cluster: requests, messages, `addon.install` tasks | `api/addons.py`, `tasks/addon_tasks.py` |
| `CpuTopology` | topologies and CPU ids as functions | `services/introspection.py`, `cpu_topology.py` |
| `AssetPlan` | the way of the inputs (inspection, roles, pools) to the bundle that is previewed and deployed | `services/asset_planner.py`, `cloud_planner.py`, `introspection.py`, `yaml_generator.py`, `api/planner.py` |
| `Credentials` | row and Secret of each host: registration, set, resync, key rotation | `api/hardware_assets.py`, `baremetalhosts.py`, `services/metal3.py`, `crypto.py` |
| `Workloads` | workload rows and their objects on a target cluster | `api/ai_workloads.py`, `services/target_cluster.py` |
| `Startup` | processes that start together: schema, migrations, first admin | `core/db.py`, `main.py`, `services/auth.py` |
| `DeploymentLifecycle` | abstract: the gates a deployment passes, in order, or `failed` | - |
| `MC...` | instances for TLC: names, machines, columns, symmetry | - |
| `...Proofs` | the theorems about `Provisioning` (those of requests one at a time in `OwnershipProofs`), `DeploymentTask`, `AddonStore`, `AssetPlan` with `CpuTopology`, `Credentials`, `Workloads` and `Startup` | - |

### Inventory

The API is one process with one event loop, so handlers interleave exactly at their awaits, and every
await of a handler is a database call. `session[h]` is the unit of work of one request. A handler is
cut at each `await db.get` / `db.scalars` / `db.commit`:

* a *Begin* action is the first read (with its 404), a *Read* action one later read (with its 404 or
  409), and a *Commit* action the `db.commit()`, at which all changes of the request appear at once;
* a read copies the row (`cache`, `links`, `seen`); the guards after it use the copy, as the code does.
  PostgreSQL's READ COMMITTED lets other requests commit in between and nothing locks a row;
* the flush writes only the columns whose new value differs from the one loaded (`Merge`), because that
  is the UPDATE SQLAlchemy emits, and raises `StaleDataError` (a 500, nothing committed) when such a row
  is gone (`Stale`);
* foreign keys are in the commit: `node_pool_assignments.cluster_id`, `.asset_id` and
  `deployments.cluster_id` refuse (`Deletable`, `RemoveCommit`, `StartCommit`, `AssignCommit`),
  `hardware_assets.cluster_id` is set to NULL (`Unlink`);
* `delete_cluster` deletes the deployments and assignments it has *read*, which is why a row committed
  after the read makes the DELETE fail instead of leaving a dangling reference;
* `start_deployment` is two commits around `run_deployment_task.delay`: `StartCommit`, `StartEnqueue`,
  `StartSave`. Between them the worker may take, run and finish the task;
* `Abort` ends a request at any await (database or broker error, restart of the API): what it committed
  before stays, the rest is rolled back.

Ids are uuids, so `minted` never gives one out twice, and a name may be used again after a deletion
(`NameOf`). Asset serials, BMC fields, schedules and CPU topology are data no guard reads.

### Provisioning

`queue[d]` counts the copies of the message of deployment `d`, `worker[w]` the task a prefork process
runs and the last phase it wrote. `TaskTake` acknowledges on start (Celery's default, the application
sets no `task_acks_late`), so `TaskLost`, a process that dies, leaves the row as it is. `Redeliver` is the
visibility timeout of the Redis transport, which hands a prefetched message out again.
`WritePhase` is `_set_phase`: a fresh session, the write skipped when the row is gone.

### DeploymentTask

One run of the coroutine. `at` is the program point; `PhaseWrites` lists the calls of `_set_phase` in
program order and each is a step that may fail, in which case control goes to the `except` block.
`_wait_for_bmh_ready` polls the pending hosts one by one, so a host may change between two reads of a
round; `budget` counts how many rounds fit before the deadline, and the sleep between rounds may use up
any number of them (the deadline is wall-clock time). `install_addon` can return, raise
`AddonInstallError` (collected), or raise something else (a helm timeout: it leaves the loop).
`kubeconfigs` are the files of `NamedTemporaryFile(delete=False)`. `ApplyCluster` and `Move` may leave
half of their work behind when they fail. `Killed` is SIGKILL: no finally block runs.
`spec` is the task's argument, and every spec over the constants is an initial state: no hosts (a cloud
cluster), some hosts, any set of addons, pivot or not.

### AddonStore

`intent` is `spec["addons"]`, `status` is `addon_status`: two JSON columns of one row, each read, changed in
memory and written back whole, so requests and workers never overwrite each other's column. A request is
read (`EnableBegin`, `DisableBegin`), `ToggleCommit`, and for enable `Send`. A task reads and writes the row
twice through `_set_addon_status` (`ReadStatus`, `WriteStatus`): first `installing`, then the result. `Install`
returns, raises `AddonInstallError`, or is cut off by its timeout, which nothing records; a task that cannot fetch the kubeconfig
records `failed`. `Served` says
whether the workers know the task at all: `addon.install` belongs to a Celery application of its own, and
`docker-compose.yml:71` and `deploy/k8s/deployment-worker.yaml:25` start the other one. `DeleteCluster` is a
deletion at any time; a task then skips its write, or fails if it had read the row already.
`installed`, `wish`, `outcome` and `cut` only remember, for the properties, what the tools did, what the requests
asked, what each addon's own task recorded and whether its last task was cut off.

### CpuTopology and AssetPlan

`row` holds what the planner reads of an asset: whether it may be taken, its CPU topology, the roles of its
NICs, and whether it has a BMC address and a boot MAC; all of it may be what the operator entered with POST (`Entered`,
`RoleChoices`), and PATCH sets the list of NICs to any list, the BMC, and the status. `SyncFromIronic` overwrites topology and NICs with one
of the `Reports`: the status of the BareMetalHost (one socket is assumed), or the agent's inventory on top of it. Either source may lack
the count of CPUs, and the inventory the sockets; each missing field falls back to the other source. A report is `mixed` when sockets of the
inventory thus stand beside cores that the BareMetalHost counted for one socket; `source` remembers on the row where its topology came from.
`AssignAssets` stores the NIC roles of the request (`override`) with each row; `NetworkPolicy` passes none on, because `generate_bundle` does not.
`reused` only remembers the assets of which one server may now be counted twice: put back while assigned, or named twice in a request.
`links` are the assignment rows in the order the SELECT returns them; it has no ORDER
BY, so `AssignAssets` inserts new rows anywhere. The members of a pool are named by the positions of their rows. `Bundle` is `generate_bundle` or the cloud planner:
the role of a pool is that of its first row, groups count their rows and take their CPUs from the first asset,
NIC roles are an operator's choice or positional. `plan` is the last bundle, from a preview or a deployment, and
is forgotten whenever an input changes. Numbers are not negative here, though the schema of POST does not demand it. Requests come one at a time here; their interleaving is `Inventory`'s.

### Credentials

A step runs from one database call to the next: Kubernetes calls block the event loop of the only API process.
`secret[x]` is what the BareMetalHost's Secret holds, `row[x]` the password kept and the key it is encrypted
under. `Register` may be refused after any number of Secrets, `Abort` ends a request anywhere, and a row that
is deleted under a request fails its UPDATE. Passwords are numbered in the order they are submitted, which is how the
properties tell new from old. `KeyPlan` is the sequence of values `BMC_ENCRYPTION_KEY` takes, one after the other:
the rotation `rotate_key` documents (one key, new and old, then new only, after `RotateRow` went over the rows that were kept when
the phase began). `unset` says that the process was started without the key, which may happen at every restart, before and after passwords were kept.
`acked` and `trust` remember what was confirmed, whether requests about a host overlapped (`raced`), and whether a registration without a key
left an older password in the row (`unkept`), until a request that runs alone settles it.

### Workloads

Calls to the target cluster come between two commits, so a request is `insert`, `mark`, `apply`, `record` or
`clean`, `remove`. Each carries the status *its* session read, on which `delete_workload` decides whether there is
anything to clean up, and which decides whether `mark` writes at all. `Apply` may leave the Deployment without
its Service; `DeleteClean` passes over a cluster out of reach and only logs a refusal. `trouble` remembers what kept requests about a
name from their course, until nothing of that name is left.

### Startup

Every process runs `create_all`, `_add_missing_columns`, `_add_missing_enum_values` and `ensure_seed_admin`;
each is a step that inspects and a step that changes and commits, because DDL is transactional. A second process
that creates what exists by then fails, exits, and is started again (`restart: unless-stopped`, or
Kubernetes). The database starts as any older version of the schema, with rows in any of its tables, and
`Serve` inserts rows meanwhile, as processes of the old version do. `AlterFails` are the columns that PostgreSQL refuses: one that
exists by now, one that is NOT NULL without a default in a table with rows (the migration never asks for it), and an enum column with a default, whose
literal is the member's value while the type knows the names (`core/db.py:49-50`).

## 3. What the runs check

Passing runs:

| Run | Instance | Properties |
|---|---|---|
| `Prov_safety` | a metal3 and a cloud cluster of one name, 1 asset, 2 deployments, 2 requests, 2 workers, aborts, killed workers | `TypeOK`, `ReferencesResolve`, `OneTaskPerDeployment`, `RowFollowsTask`, `TaskHasCluster`, `PhaseForward` |
| `Prov_assets` | 1 cluster, 1 asset, 2 requests among every endpoint that writes an asset, an id repeated in a request, aborts | `ReferencesResolve` |
| `Prov_sequential` | 2 clusters, 2 assets, 1 deployment, 1 worker, one request at a time, aborts | `RowAgreesWithAssignments`, `ImplementsOwnership` |
| `Prov_ends` | 1 cluster, 1 asset, 2 deployments, 2 requests, 1 worker, one redelivery, no crash | `DeploymentEnds`, `RequestAnswered` |
| `Task_safety` | every spec over 3 hosts and 3 addons, 3 and 2 polls, failing phase writes, SIGKILL | `TypeOK`, `PartialWorkIsFailure`, `KubeconfigLifetime`, `NothingAppliedEarly`, `ImplementsLifecycle`, `TaskEnds` |
| `Plan_bundle` | 2 servers (8 CPUs on 2 sockets with 7 NICs, a single CPU), 2 pools, 2 assignment rows, overrides, a hardware and a cloud cluster | `TypeOK`, `ReservedCpusExist`, `ReplicasAreHosts`, `NetworkFollowsRoles`, `StableBundle` |
| `Cred_stores` | 2 hosts, 2 requests, 2 passwords, 3 values of the key and none | `TypeOK`, `StoresAgree`, `AcknowledgedKept`, `Decryptable` |
| `Work_rows` | 1 name, 2 requests | `TypeOK`, `RunningIsReal`, `OrphansExplained`, `Settles` |
| `Startup_upgrade` | 2 processes, 2 tables, every kind of column, 2 enum values, 2 kills | `TypeOK`, `ServesComplete`, `LoggedPasswordWorks`, `StartEnds` |
| `Addons_store` | 3 addons (one without install method), 3 enables, 1 request and 1 worker at a time, aborts, killed tasks, deletion | `TypeOK`, `InstalledIsReal`, `StatusIsOutcome`, `IntentRecorded`, `InstallingEnds` |

What the properties say, and why they are not obvious from the code:

* `ReferencesResolve`: whatever interleaves with `delete_cluster` and asset removal, no assignment or
  deployment row points nowhere. It rests on the reads *and* the foreign keys together.
* `OneTaskPerDeployment`, `RowFollowsTask`, `PhaseForward`: the second commit of `start_deployment` may
  run after the task has moved the row on, or finished; only the column-wise UPDATE keeps it from
  putting `queued` back.
* `TaskHasCluster`: `delete_cluster` checks for running deployments long before it commits, and a new
  deployment may be committed in between. The foreign key, not the check, then saves the row.
* `RowAgreesWithAssignments` and `ImplementsOwnership` are about requests one at a time, the case the
  code is written for; `Prov_twice` shows why they stop there.
* `NothingAppliedEarly`: no manifest before every host was seen ready, whichever way the wait ended.
* `PartialWorkIsFailure`: half-applied manifests, a failed addon or a namespace split by clusterctl
  never end as `complete`.
* `KubeconfigLifetime`: the admin kubeconfig of the target cluster is on disk while a tool reads it, and
  gone on every way out but SIGKILL.
* `ImplementsLifecycle`: the detailed task refines `DeploymentLifecycle` under the mapping `Passed`.
* `InstalledIsReal`: a task writes the whole status column from a copy; whatever is old in it, it never says
  `installed` of an addon that is not. The proof covers any number of workers.
* `StatusIsOutcome` and `IntentRecorded`: the columns are what the tasks and requests wrote, one worker and
  one request at a time. With two workers TLC finds the status of one addon put back by the task of another
  (it then says `installing` for ever), and with two requests an enable that is lost: the test
  `test_multiple_addons_on_the_same_cluster_do_not_clobber_each_others_status` runs its tasks in turn.
* `InstallingEnds`: no addon is shown as installing for ever. A kubeconfig that cannot be fetched, a tool that fails, an addon without
  install method, and the same addon enabled again or disabled meanwhile all end in a recorded status; only a tool that runs into its timeout
  and a task that dies (`cut`) leave the word behind.
* `ReservedCpusExist`: the reports of one machine give several topologies, with integer divisions on the way, and
  a topology stays on the row while assignments come and go; the ids given to kubelet are CPUs of the topology on the row, and
  of the machine itself whenever that topology was reported without mixing two sources.
  (A single-threaded machine is reported with two threads per core and half the cores, so the ids stay in range.)
* `ReplicasAreHosts`: the machines the manifests ask for are as many as the distinct servers a deployment prepares,
  whatever pools and roles were mixed; otherwise it would wait in vain. The exceptions are the two ways in which one server gets two
  rows: a sync or a PATCH that puts an assigned asset back, and a request that names an asset twice.
* `NetworkFollowsRoles`: what an operator chose for the NICs of an asset is never filled up by position, and positions use every NIC.
* `StableBundle`: `start_deployment` writes the derived count back into the row it renders from, which must not
  change what a second rendering gives.
* `StoresAgree`: the Secret is written before the row, and either write may fail; a request that succeeds alone
  leaves them equal whatever earlier ones left behind. `AcknowledgedKept`: no resync or failed
  request brings an old password back. The key may be missing at any time; the only thing that it spoils is a registration
  of a host whose older password is kept (`unkept`), until a request about the host runs alone and settles it. `Decryptable`: with registrations, aborted requests and restarts in the
  middle of a rotation, no row is left under the key that is dropped.
* `RunningIsReal`, `OrphansExplained`, `Settles`: the status is true of both objects, objects outlive their row only
  for a reason, and no workload stays `deploying`. Excused are requests that overlap or are cut off, which the code does
  not defend against; the proof that nothing else is to blame is what the properties add.
* `ServesComplete`, `StartEnds`: the starts of two processes collide in `create_all`, in `ALTER TABLE` and in the
  seeding; the loser rolls back and crashes, and still nobody serves on half a schema, and from an `Upgradable` version the crashes end.
* `LoggedPasswordWorks`: of two random passwords only the one that was committed is shown, and it is shown unless its process is killed at that
  very line. (Another process may count the new user and serve before the line is written.)

Runs that show a disagreement between the code and what the repository says of it:

| Run | The repository says | The counterexample |
|---|---|---|
| `Prov_twice` (`AssetHeldOnce`) | assign "Rejects assets that are already reserved elsewhere" (`api/planner.py:41`) | two concurrent requests both read `available`; both commit, and there is no unique constraint |
| `Plan_roles` (`ControlPlaneCounted`) | "every assignment in a pool shares the same role -- enforced by how /pools/{pool}/assign works" (`services/asset_planner.py:239-240`) | two assign calls with different roles name the same pool; the first row decides for both, and a control plane server is deployed as a worker |

Disagreements that an instance of these modules shows at once, as a violation of the formula named, with its bounds changed or the
formula added to its configuration:

* A worker process that dies leaves the row in its phase for ever, and the cluster can no longer be deleted, against "wait
  for them to finish or fail first" (`api/clusters.py:108`): `Prov_ends` with `Crashes = TRUE` violates `DeploymentEnds`.
* A message delivered twice starts a second run on a row that is already terminal, and `delete_cluster` lets the cluster go,
  "out from under a running Celery task" (`api/clusters.py:87`): `Prov_safety` with `MaxRedeliveries = 1` violates `TaskHasCluster`.
* The workers of `docker-compose.yml:71` and `deploy/k8s/deployment-worker.yaml:25` do not know `addon.install` and
  discard its messages, against "actually attempts a real install" (`api/addons.py:53-55`): `Addons_store` with
  `Served = FALSE` violates `InstallAttempted`.
* The NIC roles given to `assign` are stored and never rendered (`api/planner.py:76`, `services/asset_planner.py:289`), against "Optional manual overrides"
  (`models/pool_assignment.py:35-38`): `Plan_bundle` with `OverridesRendered`. (The disk roles neither: `resolve_disk_roles` is never called.)
* `sync_from_ironic` sets `available` whatever the status was, also for an assigned asset (`api/hardware_assets.py:136`,
  against `models/hardware_asset.py:21`), so the next `assign` takes it a second time and a bundle asks for two machines on one server,
  "machines that were never going to appear" (`services/asset_planner.py:160-165`): `Plan_bundle` with `HostsAreDistinct`.
* A re-registration while no key is configured succeeds with the new Secret and the old row, and a later resync brings the old password back
  (`api/baremetalhosts.py:41-53`), against "can't drift into storing different passwords" (`api/hardware_assets.py:149-152`) and
  "should fail loudly" (`services/crypto.py:31-35`): `Cred_stores` with `NoDrift`.
* An enum column with a default that an older version lacks is added with the value, not the name, of the member as DEFAULT
  (`core/db.py:49-50`), which its type does not know: every start crashes, against "a running app beats a crash-looping one" (line 103).
  Six of the eight enum columns of the models have such a default: `Startup_upgrade` with the conclusion of `StartEnds` alone.
* Two requests or two workers in `Addons_store` lose an enable or overwrite a status (`IntentRecorded`, `StatusIsOutcome`).

Others were met while modelling and are plain from the code:

* A helm timeout is not an `AddonInstallError` and leaves the addon loop (`services/addons.py:92`), against "One broken addon
  shouldn't block the others" (`tasks/deployment_tasks.py:250`).
* A host that was seen ready is not polled again (`tasks/deployment_tasks.py:162`), so a later error goes unnoticed while others
  are awaited, against "the moment ANY host errors" (line 143).
* Nothing ever sets `provisioned`, so the assets of a completed deployment stay `reserved`, "not yet deployed" (`models/hardware_asset.py:22`).
* `assign` computes the CPU figures of its answer after the commit (`api/planner.py:85-92`): an impossible reservation
  is a 500 with the assignment stored, and every later rendering is a 422.
* With worker pools only, the manifests ask for the control plane count the cluster was created with, for which no host is prepared.
* Overlapping requests about one host, or a failed commit after the Secret was written, leave Secret and row with different
  passwords, against "can't drift" (`api/hardware_assets.py:149-152`). And the error text of line 165 says
  "Stored encrypted locally" when nothing was stored.
* `set_power_state` writes back the whole object it read; a re-registration replaces the spec of a provisioned BareMetalHost;
  `delete_asset` leaves Secret and BareMetalHost behind.
* `delete_workload` cleans up only when the status it read is `running`: a workload that failed half-way, or whose redeployment
  failed, leaves its objects on the cluster (`Work_rows` notes it as `refused`). "Nothing left to clean up there either way"
  (`api/ai_workloads.py:145`) is wrong of a cluster whose kubeconfig Secret moved away with a pivot.
* A process killed between the commit of the admin and the log line loses the random password (`services/auth.py:74-92`).
* An inventory that gives the sockets but no count of CPUs, or fewer than two CPUs per socket (virtual machines: 4 CPUs on 4 sockets), keeps the
  core count of the single-socket guess next to the new socket count (`services/introspection.py:93-98`, 135): the asset is taken for one with more CPUs than
  it has, against "fall back gracefully" (line 88), and kubelet may be told to reserve CPUs that do not exist. `GuessedCoresExceed` proves it for every such machine.
* A workload's foreign key makes `delete_cluster` of its cluster fail with a 500.

### Bounds

* Two requests in flight are enough for every race of two handlers, and no hazard in the list needs three.
  Two workers and two deployments allow a second task of the same deployment, and a deployment that is
  started while the first one runs. A cluster deleted and made again needs two cluster ids.
* `MaxBatches` (committed assign requests) is 1 where re-assignment does not matter and 3 in
  `Prov_sequential`, where an asset is assigned, freed and assigned to the other cluster.
  `MaxRepeat` is 2 where the repeated id of one request matters.
* `MaxRedeliveries` is 0 except in `Prov_ends`: the exclusivity properties are promises under single delivery, and that run
  shows that with one redelivery deployments still end.
* `HostPolls` and `ControlPlanePolls`: the code polls for 30 minutes (every 3 to 30 seconds) and for two
  hours (every 20 seconds). Two or three polls give every order of becoming ready, failing and running out of time.
* `Plan_bundle`: two rows let a pool hold both assets, or an asset appear twice, in one pool or two, after a sync freed it; the machines
  are the smallest that differ between reports: a second socket, more NICs than positions, and a count that no core is left of. One
  reservation, one entered topology, one partial choice of roles and one override suffice: each is either there or not.
* `Cred_stores`: two requests give every overlap of two, two passwords one change; with three the properties hold as well (10.1
  million states). `Work_rows` also holds with three requests (1.5 million states). No request is about two names.
* `Startup_upgrade`: each step of the migration can collide with the same step of one other process, and each process can
  be killed once; columns cover nullable, literal, enum and per-row defaults.
* Symmetry is used in the runs without liveness, over everything but `Clusters` (they differ in name and
  provider): assets, pools, hosts, deployments, workers and requests. No property names a member of a symmetry set.
* Deadlock is not checked: the system rests when every id of the instance is used up and no request
  arrives, and a task that is over does nothing.

### Fairness

`Provisioning!Fairness` is weak fairness of each handler (`Resume`: the event loop resumes a coroutine
whose query was answered) and of each worker process. It does not cover the arrival of requests, aborts,
crashes and redeliveries. That a worker step is fair rests on the task: `DeploymentTask!FairSpec` (weak
fairness of the coroutine) has `TaskEnds`, because every wait has a deadline and every subprocess a timeout.
A killed worker counts as an end there (`lost`); the row then stays as it is.
`AddonStore!FairSpec` is weak fairness of each worker process, for the same reason; messages are not taken in
order there, and `MaxEnables` keeps one addon from being served before another for ever.
`Workloads!FairSpec` is weak fairness of each handler, again the event loop. `Startup!FairSpec` is weak fairness of each process,
the boot included: `docker-compose.yml` says `restart: unless-stopped`, and Kubernetes restarts containers.

## 4. What is proved

Each `...Proofs` module proves about its component for all values of the constants, under the named assumptions of the
modules it extends:

| Module | Theorem | Property | Further assumption |
|---|---|---|---|
| `ProvisioningProofs` | `TypeCorrect` | `TypeOK` | - |
| | `ReferencesHold` | `ReferencesResolve` | - |
| | `TasksAreExclusive` | `OneTaskPerDeployment` | `MaxRedeliveries = 0` |
| | `RowsFollowTasks` | `RowFollowsTask` | `MaxRedeliveries = 0` |
| | `TasksHaveClusters` | `TaskHasCluster` | `MaxRedeliveries = 0` |
| | `PhasesMoveForward` | `PhaseForward` | `MaxRedeliveries = 0` |
| | `OnlyLossAbandons` | towards `DeploymentEnds` | - |
| | `AbandonedForGood` | why `DeploymentEnds` needs `Crashes = FALSE` | `MaxRedeliveries = 0` |
| | `RedeliveriesAreCounted` | generalizes `OneTaskPerDeployment` | finitely many workers |
| | `RequestsGetOn` | towards `RequestAnswered` | finitely many assets |
| `OwnershipProofs` | `RowsAgree` | `RowAgreesWithAssignments` | `Calm` |
| | `InventoryKeepsOwnership` | `ImplementsOwnership` | `Calm` |
| `DeploymentTaskProofs` | `TypeCorrect` | `TypeOK` | - |
| | `HalfDoneIsFailed` | `PartialWorkIsFailure` | - |
| | `KubeconfigsAreTemporary` | `KubeconfigLifetime` | - |
| | `HostsComeFirst` | `NothingAppliedEarly` | - |
| | `WatchersSeeTheLifecycle` | `ImplementsLifecycle` | - |
| | `NoTaskRunsForever` | towards `TaskEnds` | - |
| | `TaskIsAWorker` | `DeploymentTask` as a worker of `Provisioning` | - |
| `AddonStoreProofs` | `TypeCorrect` | `TypeOK` | - |
| | `InstalledStaysReal` | `InstalledIsReal` | - |
| | `OneWorkerKeepsOutcomes` | `StatusIsOutcome` | one worker |
| | `IntentFollowsRequests` | `IntentRecorded` | one request at a time |
| | `InstallingIsPursued` | towards `InstallingEnds` | one worker |
| | `TasksGetOn` | towards `InstallingEnds` | - |
| | `NothingIsAttempted` | why `InstallAttempted` fails as deployed | `~Served` |
| `WorkloadsProofs` | `TypeCorrect` | `TypeOK` | - |
| | `RunningStaysReal` | `RunningIsReal` | - |
| | `OrphansAreExplained` | `OrphansExplained` | - |
| | `OutcomesArePursued`, `RequestsAreShort` | towards `Settles` | - |
| `StartupProofs` | `TypeCorrect` | `TypeOK` | - |
| | `NobodyServesEarly` | `ServesComplete` | - |
| | `LogTellsThePassword` | `LoggedPasswordWorks` | - |
| | `NoCrashLoops` | towards `StartEnds` | finitely many columns, `Upgradable` |
| `CredentialsProofs` | `TypeCorrect` | `TypeOK` | - |
| | `NoPasswordIsLost` | `Decryptable` | - |
| | `StoresHeal` | `StoresAgree` | - |
| | `ConfirmedPasswordsStay` | `AcknowledgedKept` | - |
| `AssetPlanProofs` | `TypeCorrect` | `TypeOK` | - |
| | `ReservationsAreReal` | `ReservedCpusExist` | - |
| | `MachinesMatchHosts` | `ReplicasAreHosts` | - |
| | `NetworksMatchRoles` | `NetworkFollowsRoles` | - |
| | `PreviewIsDeployed` | `StableBundle` | - |
| | `CpuIdsAreDistinct`, `ReservedInRange` | - | - |
| | `ReportsFit`, `ReservationsNameRealCpus` | the content of `ReservedCpusExist` for one machine | a report that is not `mixed` |
| | `GuessedCoresExceed` | why `mixed` reports are the exception | two CPUs, two sockets, no count in the inventory |

The assumptions of the modules themselves: `InventoryConstants` and `ProvisioningConstants` (types of the constants);
`MachineConstants` and `RoleConstants` (`AssetPlan`): a server has at least one socket (and any number of CPUs and NICs), and a role that is set is one the
schema admits; `NoneIsNothing` (`Workloads`) and `PasswordsDiffer` (`Startup`), which keep `None` and the names of passwords apart from what they
are compared with; and `KeyPlanRotates` (`Credentials`), which is what `rotate_key` documents: the key that encrypts now is still
among the keys at the next stage. It says nothing of a process without the key, which every restart may be.

The arguments:

* `ReferencesHold`. `RefInv` is `TypeOK`, the property, and `ReadsExist`: what an assign request has read of
  an asset is a row it may take, neither absent nor already `reserved`. So its flush changes every row it
  read, and if one is gone in the meantime the commit fails (`Stale`) instead of leaving an assignment that
  dangles. One step per action: `assign` and `start_deployment` check the cluster through the foreign key;
  `delete_cluster` removes exactly the rows `Deletable` found to be all of them; removal of an asset checks
  the assignments; every other action leaves the referring rows alone or removes some.
* The other four of `Provisioning` share the inductive invariant `TaskInv == TypeOK /\ Exclusive`. The property alone is not inductive:
  `StartEnqueue` could send a message for a deployment that already runs, so `BeforeEnqueue` says that the
  deployment a session is about to enqueue is its own, queued, with no message and no worker;
  `Waiting` and `Working` say what a message and a worker imply (one of them, the row in that phase);
  `FreshIds` that an unminted id occurs nowhere, so that `StartCommit` inserts a new row; and `SeenAreDone`
  that the deployments `delete_cluster` has read stay terminal, because a terminal row never restarts under
  single delivery, which is what makes deleting them later harmless.
* `TasksHaveClusters` combines `TaskInv` (a task's row exists and is in flight) with `RefInv` (its cluster
  exists). `PhasesMoveForward` checks each action under `TaskInv`.
* `OwnershipProofs`. `Calm` is the instance of `Prov_sequential` in general: requests do not overlap, none names an asset twice, and
  nobody overwrites a status by PATCH or sync; without it the properties are false (`Prov_twice`). `CalmInv` adds to
  `RowAgreesWithAssignments` that a row was registered (`RowsMinted`) and what a request that runs alone knows (`Knows`): the rows it
  has read are the rows that are stored, an assign has read only free ones, an unassign or a deletion only those of its assignments.
  Each commit is then one `Effect` on the two tables, and both theorems follow from the effects alone: `EffectAgrees` keeps
  the tables in step, and `EffectRefines` maps each effect to a step of `AssetOwnership`, since the row alone tells the holder (`HolderView`).
* `DeploymentTask`. The properties speak of the ends of the task, so the invariant says what holds on the way: `RowShows`, which
  phase the row has at each point of the coroutine; `WorkDone`, which gates lie behind it, that every addon of the spec is still
  to do, installed or failed, and that nothing was applied or moved before its turn; `FilesHeld`, which kubeconfig is on the disk. One
  lemma per action; `RaiseInv` serves the exception of each. For `WatchersSeeTheLifecycle` a phase write is `Advance`, because
  `WorkDone` holds the gate of the phase that is left; `PollHost`, `ApplyCluster`, `PollControlPlane`, `InstallAddon` and `Move` pass
  at most the gate of their phase; `MarkFailed` is `Fail`; everything else is not noticed.
* `InstalledStaysReal`. `RealInv` adds to the property `CopiesAreReal`: what a worker has read of any addon, and
  what it is about to record of its own, is real as well. A copy may be old, but nothing uninstalls an addon.
  `StatusIsOutcome` and `IntentRecorded` need that copies are current (`CopyIsCurrent`, `ListIsCurrent`), which only one worker,
  and one request at a time, guarantee; each covers any number of the other side.
* `Workloads`. `Course(w)` follows the requests about one name. As long as no two met, there is at most one (`Alone`); as
  long as none was cut off, it holds its row with the status it believes (`Holds`), so that it writes `running` only over
  `deploying` and only after both objects were applied; and as long as no call failed, it leaves both objects or none (`Tidy`), which
  is where `delete_workload` could go wrong: it cleans up only what it read as `running`, and `Rests` says that a row nobody works on is
  `running` or absent. Requests about other names do not touch any of it (`Elsewhere`).
* `Startup`. `Ensured(p)` is what a process has made sure of at each point of its start. The database only grows
  (`Grows`: tables, columns, values and the admin stay), so no step of another process, and no rollback, takes it away. A
  transaction that finds what it wanted to create crashes instead of going on, which is why the inspection may be old.
  `NoCrashLoops` needs that no start meets a missing enum column (`Addable`): what is created is created whole, so `Upgradable` stays true.
* `NoPasswordIsLost`. `KeyInv` adds to the property that every row the rotation has passed is under the key that encrypts, and that
  a request about to write one encrypted it under that key (`Fresh`); a restart ends all requests, so none carries an older one
  over. A key is dropped only when no row is left to rotate, and then all rows are under one that stays.
* `StoresHeal` and `ConfirmedPasswordsStay`. `PassInv` adds whose host it is: a request that nobody overlapped, or in whose time nobody
  overlapped about that host, is its only owner (`Own`, `Apart`, `OneOwner`), so that what it knows (`Known`: its password is not older than
  the confirmed one; what it wrote is still in the Secret and in the rows it is done with) is disturbed by nobody else. Four
  lemmas serve the fourteen actions, by what they do to a request: it arrives (`Arrives`), goes on (`GoesOn`), ends with
  success (`Settles`), or something happens behind its back (`Background`). A registration without a key leaves an old row in place:
  `Unkept` marks it at its success, from then on the host is `InDoubt` and neither property speaks of it until a request that runs alone writes row
  and Secret alike, or resyncs, which makes the row's password the confirmed one.
* `AssetPlan`. `PlanInv` adds three facts to `TypeOK`. `TopologyIsReported`: a topology whose source is `reported` is one of the reports
  of its own machine, and not a mixed one. `AssignedOnce`: an asset that is not `reused` has one row at most, and is not free while it has it. `PlanIsCurrent`: the bundle that is kept is the one the present rows give. `StartDeployment` is the step that
  could break it, because it writes the count the bundle is computed from: with a control plane pool `declared` is not read, and
  without one it is written back as it was (`SameInputsSameBundle`). The four properties are then about one bundle of one state.
  `ReplicasAreHosts` is two bijections: with no `reused` asset the positions are the servers, and each assignment is numbered within its pool (`CountByClass`), so that the workers' replicas and the
  members of the control plane partition the positions. `NetworkFollowsRoles` needs which of the roles by position meet in one bond
  (`PolicyOfHost`). The first row of a pool, for which `Min` stands, exists because the sets `1 .. i` are well-founded under
  inclusion (`LeastPosition`).
* `CpuTopology`, in the same module. `WithinBlock` and `BlocksApart` are the two facts about `b * size + i` that make a layout in blocks one to one;
  `CpuId` is that layout twice. `ReportsFit` bounds the integer divisions of all reports that are not mixed, and `ReservedCardinality` counts what
  a reservation takes.

The theorems marked "towards" are what the liveness properties rest on. TLAPS cannot go from a step that is always possible to
one that is taken, but it can show that steps lead somewhere, in two parts:

* Nobody goes round in circles: every step of the actor that fairness drives lowers a measure in a well-founded order, and
  no step of anybody else raises it. `NoTaskRunsForever`: the stages of the coroutine that lie ahead, then the polls until the deadline, then
  what this round, or the loop over the addons, has left; hosts that go back and forth change none of it. `RequestsGetOn`: queries and commits
  ahead, then assets the loop has not read; it needs that no row of the table looks like one that was not read (`AssetsAreRows`).
  `RequestsAreShort` and `TasksGetOn` count steps. `NoCrashLoops`: a crash sends a process back to its boot, so after the kills still to come
  (`MaxKills`: nobody kills processes for ever) the measure is what the database still lacks, and then whether the process looked before somebody else created it: only such a process crashes,
  and it does not look again before it starts anew.
* Nobody is forgotten: `OnlyLossAbandons` goes through every step of the API, the broker and the workers and finds two that can leave
  a deployment in flight without a message, a worker or a request about to send one: `Abort` between the two commits of `start_deployment`, and
  `TaskLost`. `AbandonedForGood` says what that costs: from `TaskInv`, no request, message or task ever touches such a deployment
  again, its row shows the phase for ever, and with `RefInv` its cluster stays, because `delete_cluster` refuses. `OutcomesArePursued` and
  `InstallingIsPursued` are the same for workload rows and for addons shown as installing.
* Redeliveries: `OneTaskPerDeployment` needs `MaxRedeliveries = 0`. `RedeliveriesAreCounted` says what is left without it: messages plus
  workers of a deployment are at most one more than the redeliveries so far. Its invariant (`CountInv`) adds `Unmet` (nobody knows a
  deployment that was not inserted) and `Coming` (a request about to send has nothing in the queue, no worker and no rival), so that sending
  starts from zero, and `Redeliver` alone raises the sum.

`TaskIsAWorker` ties the two models of the worker together: under the mapping `Row`, `Process` every phase write of `DeploymentTask` is
`TaskPhase` or repeats its phase, `MarkFailed` is `TaskFail`, a kill and a failing write of the `except` block are `TaskLost`,
and everything between two writes is unseen. So what is proved about `Provisioning` holds for workers that run this coroutine, and the weak
fairness it gives them is that of a task that ends (`NoTaskRunsForever`).

All invariants and steps were checked with TLC on small instances before they were proved; `InstalledIsReal` also with two
requests and two workers, `AbandonedForGood` and `RequestsGetOn` on the instance of `Prov_safety`.

Only model-checked: that the steps above are taken, that is, the liveness properties themselves (`DeploymentEnds`, `RequestAnswered`, `TaskEnds`,
`InstallingEnds`, `Settles`, `StartEnds`): they need fairness and ENABLED, which TLAPS does not handle.

## 5. What is not modelled

* The progress feed: as deployed, the worker broadcasts in a process that has no connections, so no event ever reaches a browser, and
  the console lives on its queries. LLM providers, login and tokens, machines, pages and scripts keep no state that two steps change.
* Ambiguous commits: a connection lost during COMMIT is a rollback here.
* `update_cluster`: it changes `control_plane_endpoint` and `status`, which no guard of these handlers reads.
* The failure of writing (not creating) a temporary kubeconfig, which would leave an empty file.
* In `DeploymentTask` the row is taken to be there, which `RowsFollowTasks` justifies under single delivery.
* Bulk import of assets is creation repeated. What is in manifests, logs and messages; disk roles, hugepages and GPU labels, which the planner copies.
* In `AddonStore`: the temporary kubeconfig, and addons the deployment pipeline installs. An addon that is
  disabled while its message waits is still installed; no document promises otherwise.
* In `Credentials`: the user name (it travels with the password), a second API process with another key during a rolling
  update, and the power switch. In `Startup`: renamed or dropped columns, which the migration does not handle either, and new enum types.
* In `Workloads`: the deletion of the cluster row, which the foreign key refuses while a workload exists.
* A deployment's snapshot of its hosts: unassigning a host under a running task is allowed and changes nothing the task does.

## 6. Plan

Done: all modules of section 2. What would come next:

1. The composition of `Workloads` with `Inventory` (the foreign key that blocks `delete_cluster`), and of `AssetPlan` with
   `DeploymentTask` (the bundle as the argument of the task).
2. The reconnecting hook of the frontend, once the feed has a process to come from.
