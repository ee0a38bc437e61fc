------------------------------ MODULE AddonStore ------------------------------
(***************************************************************************)
(* The app store of one cluster: enabling and disabling addons over the    *)
(* API, and the addon.install tasks that put them on the running cluster.  *)
(*                                                                         *)
(* Intent (clusters.spec["addons"]) and status (clusters.addon_status) are *)
(* two JSON columns of one row.  Each is read, changed in memory and       *)
(* written back whole, the first by requests, the second by workers; an    *)
(* UPDATE leaves the other column alone.                                   *)
(***************************************************************************)
EXTENDS Naturals

CONSTANTS
    Addons,      \* the catalog, and any other name a cluster may be created with
    Wired,       \* those with an entry in INSTALL_METHODS
    Handlers,    \* requests in flight
    Workers,     \* prefork worker processes
    Served,      \* whether the workers run the application that registers addon.install
    MaxEnables,  \* bound: enable requests
    Aborts,      \* whether a request may die on a database/broker error or API restart
    Crashes      \* whether a task may die on a database error or with its process

ASSUME AddonStoreConstants ==
    Wired \subseteq Addons /\ MaxEnables \in Nat
    /\ Served \in BOOLEAN /\ Aborts \in BOOLEAN /\ Crashes \in BOOLEAN

VARIABLES
    exists,    \* the cluster row is there
    intent,    \* spec["addons"]
    status,    \* addon_status, per addon
    request,   \* per handler: the request it serves
    enables,   \* enable requests so far
    messages,  \* per addon: copies of its message on the queue
    worker,    \* per process: the task it runs
    installed, \* addons install_addon has returned for
    wish,      \* per addon: whether the last request that committed enabled it
    outcome,   \* per addon: what a task of its own last wrote
    cut        \* per addon: whether the last of its tasks timed out or died

cluster == <<exists, intent, status>>
ghosts == <<installed, wish, outcome, cut>>
vars == <<cluster, request, enables, messages, worker, ghosts>>

Statuses == {"none", "installing", "installed", "failed"}

NoRequest == [at |-> "idle"]
Request == {NoRequest} \cup
           [at: {"commit", "send"}, op: {"enable", "disable"}, addon: Addons, read: SUBSET Addons]

NoTask == [at |-> "idle"]
Task == {NoTask} \cup
        [at: {"read", "write", "fetch", "install"}, addon: Addons, value: Statuses,
         read: [Addons -> Statuses]]

-----------------------------------------------------------------------------
(* POST .../enable and DELETE .../disable *)

\* 404 without a cluster; an addon nobody can install is refused with a 400.
EnableBegin(h, x) ==
    /\ request[h] = NoRequest
    /\ exists /\ x \in Wired
    /\ enables < MaxEnables
    /\ enables' = enables + 1
    /\ request' = [request EXCEPT ![h] = [at |-> "commit", op |-> "enable", addon |-> x, read |-> intent]]
    /\ UNCHANGED <<cluster, messages, worker, ghosts>>

DisableBegin(h, x) ==
    /\ request[h] = NoRequest
    /\ exists
    /\ request' = [request EXCEPT ![h] = [at |-> "commit", op |-> "disable", addon |-> x, read |-> intent]]
    /\ UNCHANGED <<cluster, enables, messages, worker, ghosts>>

\* Mutant: the list is replaced, not extended.
ToggledReplaces(r) == IF r.op = "enable" THEN {r.addon} ELSE r.read \ {r.addon}

Toggled(r) == IF r.op = "enable" THEN r.read \cup {r.addon} ELSE r.read \ {r.addon}

\* The whole list is written back.  An unchanged list needs no UPDATE, which is
\* why it cannot fail although the row is gone.
ToggleCommit(h) ==
    LET r == request[h] IN
    /\ r.at = "commit"
    /\ IF Toggled(r) # r.read /\ ~exists
       THEN /\ request' = [request EXCEPT ![h] = NoRequest]
            /\ UNCHANGED <<intent, wish>>
       ELSE /\ intent' = IF Toggled(r) = r.read THEN intent ELSE Toggled(r)
            /\ wish' = [wish EXCEPT ![r.addon] = (r.op = "enable")]
            /\ request' = [request EXCEPT ![h] = IF r.op = "enable" THEN [r EXCEPT !.at = "send"] ELSE NoRequest]
    /\ UNCHANGED <<exists, status, enables, messages, worker, installed, outcome, cut>>

Send(h) ==
    /\ request[h].at = "send"
    /\ messages' = [messages EXCEPT ![request[h].addon] = @ + 1]
    /\ request' = [request EXCEPT ![h] = NoRequest]
    /\ UNCHANGED <<cluster, enables, worker, ghosts>>

RequestAborts(h) ==
    /\ Aborts
    /\ request[h] # NoRequest
    /\ request' = [request EXCEPT ![h] = NoRequest]
    /\ UNCHANGED <<cluster, enables, messages, worker, ghosts>>

\* delete_cluster takes the row and both columns with it.
DeleteCluster ==
    /\ exists
    /\ exists' = FALSE
    /\ UNCHANGED <<intent, status, request, enables, messages, worker, ghosts>>

-----------------------------------------------------------------------------
(* The addon.install task *)

\* A task's next point and what it will record there.
Proceed(w, at, value) == worker' = [worker EXCEPT ![w] = [@ EXCEPT !.at = at, !.value = value]]
Finish(w) == worker' = [worker EXCEPT ![w] = NoTask]
CutOff(w) == Finish(w) /\ cut' = [cut EXCEPT ![worker[w].addon] = TRUE]

\* Mutant: a message is taken without being there.
TaskTakeUnguarded(w, x) ==
    /\ worker[w] = NoTask
    /\ messages' = [messages EXCEPT ![x] = @ - 1]
    /\ worker' = [worker EXCEPT ![w] = [at |-> "read", addon |-> x, value |-> "installing", read |-> status]]
    /\ UNCHANGED <<cluster, request, enables, ghosts>>

\* A worker that does not know the task discards the message; a task whose
\* cluster is gone raises before it records anything.
TaskTake(w, x) ==
    /\ worker[w] = NoTask
    /\ messages[x] > 0
    /\ messages' = [messages EXCEPT ![x] = @ - 1]
    /\ IF Served /\ exists
       THEN /\ worker' = [worker EXCEPT ![w] = [at |-> "read", addon |-> x, value |-> "installing",
                                               read |-> status]]
            /\ cut' = [cut EXCEPT ![x] = FALSE]
       ELSE UNCHANGED <<worker, cut>>
    /\ UNCHANGED <<cluster, request, enables, installed, wish, outcome>>

\* What follows once a status is recorded, or skipped because the row is gone.
Recorded(w) ==
    IF worker[w].value = "installing" THEN Proceed(w, "fetch", "installing") ELSE Finish(w)

ReadStatus(w) ==
    /\ worker[w].at = "read"
    /\ IF exists THEN worker' = [worker EXCEPT ![w] = [@ EXCEPT !.at = "write", !.read = status]]
                 ELSE Recorded(w)
    /\ UNCHANGED <<cluster, request, enables, messages, ghosts>>

\* Mutant: the column is replaced by this addon's entry.
WriteStatusReplaces(w) ==
    LET t == worker[w] IN
    /\ t.at = "write"
    /\ status' = [x \in Addons |-> IF x = t.addon THEN t.value ELSE "none"]
    /\ outcome' = [outcome EXCEPT ![t.addon] = t.value]
    /\ Recorded(w)
    /\ UNCHANGED <<exists, intent, request, enables, messages, installed, wish, cut>>

\* The whole column is written back; the UPDATE of a row that is gone raises.
WriteStatus(w) ==
    LET t == worker[w] IN
    /\ t.at = "write"
    /\ IF exists
       THEN /\ status' = [t.read EXCEPT ![t.addon] = t.value]
            /\ outcome' = [outcome EXCEPT ![t.addon] = t.value]
            /\ Recorded(w)
       ELSE Finish(w) /\ UNCHANGED <<status, outcome>>
    /\ UNCHANGED <<exists, intent, request, enables, messages, installed, wish, cut>>

\* Mutant: the exception is left to Celery.
FetchKubeconfigRaises(w) ==
    /\ worker[w].at = "fetch"
    /\ Proceed(w, "install", "installing") \/ Finish(w)
    /\ UNCHANGED <<cluster, request, enables, messages, ghosts>>

FetchKubeconfig(w) ==
    /\ worker[w].at = "fetch"
    /\ \/ Proceed(w, "install", "installing")
       \/ Proceed(w, "read", "failed")
    /\ UNCHANGED <<cluster, request, enables, messages, ghosts>>

\* Mutant: an AddonInstallError is taken for output.
InstallOptimistic(w) ==
    /\ worker[w].at = "install"
    /\ Proceed(w, "read", "installed")
    /\ installed' \in {installed, installed \cup {worker[w].addon}}
    /\ UNCHANGED <<cluster, request, enables, messages, wish, outcome, cut>>

\* install_addon returns, raises AddonInstallError, or is cut off by its timeout,
\* which nothing records.
Install(w) ==
    /\ worker[w].at = "install"
    /\ \/ /\ Proceed(w, "read", "installed") /\ installed' = installed \cup {worker[w].addon}
          /\ UNCHANGED cut
       \/ Proceed(w, "read", "failed") /\ UNCHANGED <<installed, cut>>
       \/ CutOff(w) /\ UNCHANGED installed
    /\ UNCHANGED <<cluster, request, enables, messages, wish, outcome>>

TaskDies(w) ==
    /\ Crashes
    /\ worker[w] # NoTask
    /\ CutOff(w)
    /\ UNCHANGED <<cluster, request, enables, messages, installed, wish, outcome>>

-----------------------------------------------------------------------------
Init ==
    /\ exists = TRUE
    /\ intent \in SUBSET Addons
    /\ status = [x \in Addons |-> "none"]
    /\ request = [h \in Handlers |-> NoRequest]
    /\ enables = 0
    /\ messages = [x \in Addons |-> 0]
    /\ worker = [w \in Workers |-> NoTask]
    /\ installed = {}
    /\ wish = [x \in Addons |-> x \in intent]
    /\ outcome = [x \in Addons |-> "none"]
    /\ cut = [x \in Addons |-> FALSE]

Begin(h) == \E x \in Addons : EnableBegin(h, x) \/ DisableBegin(h, x)

TaskStep(w) == ReadStatus(w) \/ WriteStatus(w) \/ FetchKubeconfig(w) \/ Install(w)

WorkerStep(w) == TaskStep(w) \/ \E x \in Addons : TaskTake(w, x)

Next ==
    \/ \E h \in Handlers : Begin(h) \/ ToggleCommit(h) \/ Send(h) \/ RequestAborts(h)
    \/ \E w \in Workers : WorkerStep(w) \/ TaskDies(w)
    \/ DeleteCluster

Spec == Init /\ [][Next]_vars

\* A worker process keeps running: every step of a task has a timeout.
FairSpec == Spec /\ \A w \in Workers : WF_vars(WorkerStep(w))

-----------------------------------------------------------------------------
TypeOK ==
    /\ exists \in BOOLEAN
    /\ intent \subseteq Addons
    /\ status \in [Addons -> Statuses]
    /\ request \in [Handlers -> Request]
    /\ enables \in Nat
    /\ messages \in [Addons -> Nat]
    /\ worker \in [Workers -> Task]
    /\ installed \subseteq Addons
    /\ wish \in [Addons -> BOOLEAN]
    /\ outcome \in [Addons -> Statuses]
    /\ cut \in [Addons -> BOOLEAN]

\* The console never says "installed" of an addon that was not installed, though
\* each task writes back every other addon's entry from a copy it read earlier.
InstalledIsReal == \A x \in Addons : status[x] = "installed" => x \in installed

\* The status of an addon is what its own task recorded last: tests/test_addon_tasks.py
\* has addons that "do not clobber each others status".  (One worker process.)
StatusIsOutcome == status = outcome

\* Enable and disable record intent: the list is what the requests that committed
\* asked for, also after requests that died half way.  (Requests one at a time.)
IntentRecorded == exists => intent = {x \in Addons : wish[x]}

\* The console does not show an addon as "installing" for ever: whatever fails on
\* the way is recorded (tasks/addon_tasks.py:79-94), also when a later task or the
\* disabling of the addon comes in between.  The exceptions are a tool that runs
\* into its timeout, which nobody catches, and a task that dies.  (One worker.)
InstallingEnds ==
    \A x \in Addons : status[x] = "installing" ~> status[x] # "installing" \/ cut[x] \/ ~exists

\* An enable "actually attempts a real install" (api/addons.py:53-55): some worker
\* starts the task, unless the cluster is deleted first.  True only if Served.
InstallAttempted ==
    \A x \in Addons : messages[x] > 0 ~> ~exists \/ \E w \in Workers : worker[w] # NoTask /\ worker[w].addon = x
=============================================================================
