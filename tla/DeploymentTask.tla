--------------------------- MODULE DeploymentTask ---------------------------
(***************************************************************************)
(* One run of the Celery task deployment.run: the coroutine                *)
(* _run_deployment with everything it calls, against a management cluster  *)
(* whose hosts change state underneath it.                                 *)
(***************************************************************************)
EXTENDS Naturals, FiniteSets, DeploymentPhases

CONSTANTS
    Hosts,              \* hosts a cluster_spec may name
    Addons,             \* addons a cluster_spec may name
    HostPolls,          \* bound: polling rounds BMH_READY_TIMEOUT has room for
    ControlPlanePolls,  \* bound: polls CLUSTER_PROVISION_TIMEOUT has room for
    DbFails,            \* whether a phase write may fail
    Crashes             \* whether the worker process may be killed

ASSUME TaskConstants ==
    /\ IsFiniteSet(Hosts) /\ IsFiniteSet(Addons)
    /\ DbFails \in BOOLEAN /\ Crashes \in BOOLEAN
    /\ HostPolls \in Nat /\ ControlPlanePolls \in Nat

VARIABLES
    spec,          \* cluster_spec, the argument of the task
    at,            \* where the coroutine is
    phase,         \* the phase of the Deployment row
    pending,       \* hosts the wait still polls
    round,         \* hosts still to look at in this round of polling
    budget,        \* polls left before the deadline of the current wait
    applied,       \* how much of the rendered manifests is on the management cluster
    ready,         \* the control plane was reported ready
    todo,          \* addons not attempted yet
    installed,     \* addons install_addon returned for
    failures,      \* addon_failures
    moved,         \* how much of the namespace clusterctl has moved
    kubeconfigs,   \* temporary kubeconfig files on the worker's disk
    host           \* what the BareMetalHost status of each host says

progress == <<pending, round, applied, ready, todo, installed, failures, moved>>
vars == <<spec, at, phase, budget, kubeconfigs, progress, host>>

\* Ends of the task: returned, raised after the row was marked failed, or gone
\* without a trace in the row.
Ended == {"returned", "raised", "lost"}

\* <<from, phase written, to>>: the calls of _set_phase, in program order.
PhaseWrites ==
    {<<"accepted",      "generating_manifests",         "render">>,
     <<"rendered",      "bootstrapping_ephemeral_node", "bootstrapped">>,
     <<"bootstrapped",  "applying_bmh",                 "bmh_applied">>,
     <<"bmh_applied",   "waiting_for_hosts",            "wait_hosts">>,
     <<"hosts_ready",   "applying_cluster",             "apply">>,
     <<"applied",       "waiting_for_control_plane",    "start_wait">>,
     <<"running",       "installing_addons",            "fetch">>,
     <<"addon_tried",   "installing_addons",            "install">>,
     <<"start_pivot",   "pivoting_to_target_cluster",   "pivot_fetch">>,
     <<"pivoted",       "pivoting_to_target_cluster",   "finish">>,
     <<"finish",        "complete",                     "returned">>}

Labels == {w[1] : w \in PhaseWrites} \cup {w[3] : w \in PhaseWrites} \cup
          {"poll", "wait_control_plane", "pivot", "except"} \cup Ended

Amount == {"none", "partial", "all"}
HostStates == {"busy", "ready", "error"}

-----------------------------------------------------------------------------
Goto(label) == at' = label

\* Mutant: no finally block.
RaiseLeaks == Goto("except") /\ UNCHANGED kubeconfigs

\* An exception: the finally of the addon loop removes its kubeconfig on the way
\* to the except block.
Raise == Goto("except") /\ kubeconfigs' = {}

Keep == UNCHANGED <<spec, phase, host>>

SetPhase(write) ==
    /\ at = write[1]
    /\ \/ phase' = write[2] /\ Goto(write[3]) /\ UNCHANGED kubeconfigs
       \/ DbFails /\ Raise /\ UNCHANGED phase
    /\ UNCHANGED <<spec, budget, progress, host>>

\* capi.render_manifests: an unrenderable spec fails here, before anything is applied.
Render ==
    /\ at = "render"
    /\ \/ Goto("rendered") /\ UNCHANGED kubeconfigs
       \/ Raise
    /\ UNCHANGED <<budget, progress>> /\ Keep

-----------------------------------------------------------------------------
(* _wait_for_bmh_ready *)

\* Mutant: the deadline ends the wait as if the hosts were ready.
HostsLoopIgnoresDeadline ==
    /\ at = "wait_hosts"
    /\ \/ (pending = {} \/ budget = 0) /\ Goto("hosts_ready") /\ UNCHANGED round
       \/ /\ pending # {} /\ budget > 0
          /\ Goto("poll")
          /\ round' = pending
    /\ UNCHANGED <<spec, phase, budget, kubeconfigs, host, pending, applied, ready, todo, installed, failures, moved>>

\* while pending and time.time() < deadline
HostsLoop ==
    /\ at = "wait_hosts"
    /\ \/ pending = {} /\ Goto("hosts_ready") /\ UNCHANGED <<round, kubeconfigs>>
       \/ pending # {} /\ budget = 0 /\ Raise /\ UNCHANGED round
       \/ /\ pending # {} /\ budget > 0
          /\ Goto("poll")
          /\ round' = pending
          /\ UNCHANGED kubeconfigs
    /\ UNCHANGED <<spec, phase, budget, host, pending, applied, ready, todo, installed, failures, moved>>

\* Mutant: the round iterates over the set it shrinks.
PollHostRereads(x) ==
    /\ at = "poll"
    /\ x \in round
    /\ \/ Raise /\ UNCHANGED pending
       \/ /\ host[x] # "error"
          /\ pending' = IF host[x] = "ready" THEN pending \ {x} ELSE pending
          /\ UNCHANGED <<at, kubeconfigs>>
    /\ UNCHANGED <<budget, round, applied, ready, todo, installed, failures, moved>> /\ Keep

\* get_host_status: an errorMessage raises at once, and so does the Kubernetes API.
PollHost(x) ==
    /\ at = "poll"
    /\ x \in round
    /\ round' = round \ {x}
    /\ \/ Raise /\ UNCHANGED pending
       \/ /\ host[x] # "error"
          /\ pending' = IF host[x] = "ready" THEN pending \ {x} ELSE pending
          /\ UNCHANGED <<at, kubeconfigs>>
    /\ UNCHANGED <<budget, applied, ready, todo, installed, failures, moved>> /\ Keep

\* The sleep between two rounds takes at least one poll's worth of the time left.
EndRound ==
    /\ at = "poll"
    /\ round = {}
    /\ Goto("wait_hosts")
    /\ IF pending = {} THEN UNCHANGED budget ELSE budget' \in 0 .. (budget - 1)
    /\ UNCHANGED <<kubeconfigs, progress>> /\ Keep

-----------------------------------------------------------------------------
(* apply_cluster and the wait for the control plane *)

\* One create-or-replace per manifest; an API error in the middle leaves the
\* first ones applied.
ApplyCluster ==
    /\ at = "apply"
    /\ \/ applied' = "all" /\ Goto("applied") /\ UNCHANGED kubeconfigs
       \/ applied' \in {"none", "partial"} /\ Raise
    /\ UNCHANGED <<budget, pending, round, ready, todo, installed, failures, moved>> /\ Keep

StartWait ==
    /\ at = "start_wait"
    /\ Goto("wait_control_plane")
    /\ budget' = ControlPlanePolls
    /\ UNCHANGED <<kubeconfigs, progress>> /\ Keep

\* Mutants: the deadline is taken for readiness, or is set anew between polls.
PollControlPlaneOptimistic ==
    /\ at = "wait_control_plane"
    /\ \/ ready' = (budget > 0) /\ Goto("running") /\ UNCHANGED budget
       \/ budget > 0 /\ budget' \in 0 .. (budget - 1) /\ UNCHANGED <<at, ready>>
    /\ UNCHANGED <<kubeconfigs, pending, round, applied, todo, installed, failures, moved>> /\ Keep

PollControlPlaneForever ==
    /\ at = "wait_control_plane"
    /\ \/ ready' = TRUE /\ Goto("running") /\ UNCHANGED kubeconfigs
       \/ UNCHANGED <<at, ready, kubeconfigs>>
       \/ Raise /\ UNCHANGED ready
    /\ budget' \in 1 .. ControlPlanePolls
    /\ UNCHANGED <<pending, round, applied, todo, installed, failures, moved>> /\ Keep

PollControlPlane ==
    /\ at = "wait_control_plane"
    /\ \/ /\ budget > 0
          /\ ready' = TRUE
          /\ Goto("running")
          /\ UNCHANGED <<budget, kubeconfigs>>
       \/ /\ budget > 0
          /\ budget' \in 0 .. (budget - 1)
          /\ UNCHANGED <<at, ready, kubeconfigs>>
       \/ Raise /\ UNCHANGED <<budget, ready>>
    /\ UNCHANGED <<pending, round, applied, todo, installed, failures, moved>> /\ Keep

-----------------------------------------------------------------------------
(* Addons *)

\* Without addons nothing is fetched; otherwise the kubeconfig goes to a temp file.
FetchForAddons ==
    /\ at = "fetch"
    /\ \/ Goto("install") /\ kubeconfigs' = (IF spec.addons = {} THEN {} ELSE {"addons"})
       \/ spec.addons # {} /\ Raise
    /\ UNCHANGED <<budget, progress>> /\ Keep

\* install_addon returns, raises AddonInstallError (collected), or lets another
\* exception of subprocess.run through (TimeoutExpired, FileNotFoundError).
InstallAddon(x) ==
    /\ at = "install"
    /\ x \in todo
    /\ todo' = todo \ {x}
    /\ \/ installed' = installed \cup {x} /\ Goto("addon_tried") /\ UNCHANGED <<failures, kubeconfigs>>
       \/ failures' = failures \cup {x} /\ Goto("addon_tried") /\ UNCHANGED <<installed, kubeconfigs>>
       \/ Raise /\ UNCHANGED <<installed, failures>>
    /\ UNCHANGED <<budget, pending, round, applied, ready, moved>> /\ Keep

\* Mutant: failures are collected and forgotten.
AddonsDoneQuiet ==
    /\ at = "install"
    /\ todo = {}
    /\ kubeconfigs' = {}
    /\ Goto(IF spec.pivot THEN "start_pivot" ELSE "finish")
    /\ UNCHANGED <<budget, progress>> /\ Keep

\* After the loop: the temp file goes, and any collected failure fails the deployment.
AddonsDone ==
    /\ at = "install"
    /\ todo = {}
    /\ kubeconfigs' = {}
    /\ Goto(IF failures # {} THEN "except" ELSE IF spec.pivot THEN "start_pivot" ELSE "finish")
    /\ UNCHANGED <<budget, progress>> /\ Keep

-----------------------------------------------------------------------------
(* pivot_management_to_target *)

FetchForPivot ==
    /\ at = "pivot_fetch"
    /\ \/ Goto("pivot") /\ kubeconfigs' = {"pivot"}
       \/ Raise
    /\ UNCHANGED <<budget, progress>> /\ Keep

\* Mutant: a failed move is silently continued past.
MoveQuiet ==
    /\ at = "pivot"
    /\ moved' \in Amount /\ Goto("pivoted") /\ kubeconfigs' = {}
    /\ UNCHANGED <<budget, pending, round, applied, ready, todo, installed, failures>> /\ Keep

\* clusterctl move: a failure or a timeout may leave the namespace half moved.
Move ==
    /\ at = "pivot"
    /\ \/ moved' = "all" /\ Goto("pivoted") /\ kubeconfigs' = {}
       \/ moved' \in Amount /\ Raise
    /\ UNCHANGED <<budget, pending, round, applied, ready, todo, installed, failures>> /\ Keep

-----------------------------------------------------------------------------
\* except Exception: mark the row failed and re-raise; the write itself may fail.
MarkFailed ==
    /\ at = "except"
    /\ \/ phase' = "failed" /\ Goto("raised")
       \/ DbFails /\ Goto("lost") /\ UNCHANGED phase
    /\ UNCHANGED <<spec, budget, kubeconfigs, progress, host>>

\* kill -9: no finally block runs.
Killed ==
    /\ Crashes
    /\ at \notin Ended
    /\ Goto("lost")
    /\ UNCHANGED <<spec, phase, budget, kubeconfigs, progress, host>>

\* Ironic moves a host on, or reports an error on it, whenever it likes.
HostChanges(x, state) ==
    /\ at \notin Ended
    /\ x \in spec.hosts
    /\ host[x] # state
    /\ host' = [host EXCEPT ![x] = state]
    /\ UNCHANGED <<spec, at, phase, budget, kubeconfigs, progress>>

Init ==
    /\ spec \in [hosts: SUBSET Hosts, addons: SUBSET Addons, pivot: BOOLEAN]
    /\ at = "accepted"
    /\ phase = "queued"
    /\ pending = spec.hosts /\ round = {}
    /\ budget = HostPolls
    /\ applied = "none" /\ ready = FALSE
    /\ todo = spec.addons /\ installed = {} /\ failures = {}
    /\ moved = "none"
    /\ kubeconfigs = {}
    /\ host \in [Hosts -> HostStates]
    /\ \A x \in Hosts \ spec.hosts : host[x] = "ready"

TaskStep ==
    \/ \E write \in PhaseWrites : SetPhase(write)
    \/ Render
    \/ HostsLoop \/ EndRound \/ (\E x \in Hosts : PollHost(x))
    \/ ApplyCluster \/ StartWait \/ PollControlPlane
    \/ FetchForAddons \/ AddonsDone \/ (\E x \in Addons : InstallAddon(x))
    \/ FetchForPivot \/ Move
    \/ MarkFailed

Next ==
    \/ TaskStep
    \/ Killed
    \/ \E x \in Hosts, state \in HostStates : HostChanges(x, state)

Spec == Init /\ [][Next]_vars
FairSpec == Spec /\ WF_vars(TaskStep)

-----------------------------------------------------------------------------
TypeOK ==
    /\ spec \in [hosts: SUBSET Hosts, addons: SUBSET Addons, pivot: BOOLEAN]
    /\ at \in Labels /\ phase \in Phases
    /\ pending \subseteq spec.hosts /\ round \subseteq pending
    /\ budget \in 0 .. (HostPolls + ControlPlanePolls)
    /\ applied \in Amount /\ moved \in Amount /\ ready \in BOOLEAN
    /\ todo \subseteq spec.addons /\ installed \subseteq spec.addons /\ failures \subseteq spec.addons
    /\ kubeconfigs \subseteq {"addons", "pivot"}
    /\ host \in [Hosts -> HostStates]

\* Nothing is created on the management cluster before every host of the spec
\* was seen ready, whatever deadline ended the wait.
NothingAppliedEarly ==
    [][applied' # applied => pending = {} /\ phase = "applying_cluster"]_vars

\* Half-done work never ends as anything but failed: a cluster of which only
\* some objects were applied, an addon that did not install, a namespace split
\* between two management clusters.
PartialWorkIsFailure ==
    at \in {"returned", "raised"} /\
    (applied = "partial" \/ moved = "partial" \/ failures # {} \/ todo # {}) => phase = "failed"

\* The target cluster's admin kubeconfig does not outlive the task that wrote it
\* to disk, however the task ends (a killed process excepted), and it is there
\* whenever the tool that reads it runs.
KubeconfigLifetime ==
    /\ at \in {"except", "returned", "raised"} => kubeconfigs = {}
    /\ at = "install" /\ todo # {} => kubeconfigs = {"addons"}
    /\ at = "pivot" => kubeconfigs = {"pivot"}

\* The run ends, because every wait has a deadline.
TaskEnds == <>(at \in Ended)

(* The promise of DeploymentLifecycle *)

Needs == {"cluster", "control_plane"}
         \cup (IF spec.hosts # {} THEN {"hosts"} ELSE {})
         \cup (IF spec.addons # {} THEN {"addons"} ELSE {})
         \cup (IF spec.pivot THEN {"pivot"} ELSE {})

Passed(g) ==
    \/ g = "hosts" /\ pending = {}
    \/ g = "cluster" /\ applied = "all"
    \/ g = "control_plane" /\ ready
    \/ g = "addons" /\ installed = spec.addons
    \/ g = "pivot" /\ moved = "all"

Lifecycle == INSTANCE DeploymentLifecycle
             WITH required <- Needs, passed <- {g \in Needs : Passed(g)}

\* A watcher of the row sees the lifecycle, with crashes and failing writes too.
ImplementsLifecycle == Lifecycle!Spec
=============================================================================
