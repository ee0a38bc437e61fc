------------------------------ MODULE Workloads ------------------------------
(* vLLM workloads: the ai_workloads row, and the Deployment and Service of    *)
(* that name on a target cluster (api/ai_workloads.py,                       *)
(* services/target_cluster.py, models/ai_workload.py).                       *)
(*                                                                         *)
(* Requests are coroutines of one API process. Calls to the target cluster  *)
(* block the event loop and come before or after a commit, never with it; a *)
(* step runs from one commit to the next.                                   *)
CONSTANTS
    Names,          \* workload names, unique in the table and on the cluster
    Handlers,       \* requests in progress at a time
    None

VARIABLES
    row,        \* row[w]: the status of the row of that name, None without one
    objects,    \* objects[w]: what is on the target cluster
    kubeconfig, \* the cluster's kubeconfig Secret is on the management cluster
    request,    \* request[h]: what a handler is doing
    trouble     \* history: trouble[w], what kept requests about w from their course

vars == <<row, objects, kubeconfig, request, trouble>>

AIWorkloadStatus == {"pending", "deploying", "running", "failed"}
Objects == {"deployment", "service"}
Troubles == {"overlap", "cut", "refused", "unreachable"}

ASSUME NoneIsNothing == None \notin Names \cup AIWorkloadStatus

(* A request: program point, workload, the status in its session, and whether *)
(* the row it loaded (or inserted) is still there.                           *)
Request == [at : {"idle", "insert", "mark", "apply", "record", "clean", "remove"},
            name : Names \cup {None}, status : AIWorkloadStatus \cup {None},
            present : BOOLEAN]
Idle == [at |-> "idle", name |-> None, status |-> None, present |-> FALSE]

Init ==
    /\ row = [w \in Names |-> None]
    /\ objects = [w \in Names |-> {}]
    /\ kubeconfig \in BOOLEAN
    /\ request = [h \in Handlers |-> Idle]
    /\ trouble = [w \in Names |-> {}]

-----------------------------------------------------------------------------
About(w) == { h \in Handlers : request[h].name = w }
Note(w, what) == trouble' = [trouble EXCEPT ![w] = @ \cup what]
Continue(h, point, status) ==
    request' = [request EXCEPT ![h] = [at |-> point, name |-> @.name, status |-> status,
                                       present |-> @.present]]
Answer(h) == request' = [request EXCEPT ![h] = Idle]

(* A request about w begins, with the status it read. Where nothing is left   *)
(* of an earlier workload of that name, its history begins anew.             *)
Arrive(h, w, at, status) ==
    /\ request[h] = Idle
    /\ request' = [request EXCEPT ![h] = [at |-> at, name |-> w, status |-> status,
                                          present |-> status # None]]
    /\ IF About(w) # {} THEN Note(w, {"overlap"})
       ELSE IF row[w] = None /\ objects[w] = {}
            THEN trouble' = [trouble EXCEPT ![w] = {}]
            ELSE UNCHANGED trouble
    /\ UNCHANGED <<row, objects, kubeconfig>>

(* The commit of a changed status: an UPDATE that needs the row it loaded.    *)
Store(h, status) ==
    /\ request[h].present
    /\ row' = [row EXCEPT ![request[h].name] = status]

(* A request ends in an error: a row that is gone at the flush, a lost        *)
(* database, a 403 from the management cluster, a restart of the process.    *)
Abort(h) ==
    /\ request[h] # Idle
    /\ Answer(h)
    /\ Note(request[h].name, {"cut"})
    /\ UNCHANGED <<row, objects, kubeconfig>>

-----------------------------------------------------------------------------
(* POST /ai-workloads: look for the name,                                    *)
CreateBegin(h, w) ==
    /\ row[w] = None
    /\ Arrive(h, w, "insert", None)

(* insert the row (the name is unique),                                      *)
CreateInsert(h) ==
    LET w == request[h].name
    IN  /\ request[h].at = "insert"
        /\ row[w] = None
        /\ row' = [row EXCEPT ![w] = "pending"]
        /\ request' = [request EXCEPT ![h] = [at |-> "mark", name |-> w, status |-> "pending",
                                               present |-> TRUE]]
        /\ UNCHANGED <<objects, kubeconfig, trouble>>

(* POST /ai-workloads/{id}/redeploy: load the row,                           *)
RedeployBegin(h, w) ==
    /\ row[w] # None
    /\ Arrive(h, w, "mark", row[w])

\* Mutant: the status in the session stays what it was.
MarkDeployingQuiet(h) ==
    /\ request[h].at = "mark"
    /\ IF request[h].status = "deploying" THEN UNCHANGED row ELSE Store(h, "deploying")
    /\ Continue(h, "apply", request[h].status)
    /\ UNCHANGED <<objects, kubeconfig, trouble>>

(* both: say that it is being deployed, which changes nothing, and is not     *)
(* checked, if the row said so when it was read,                             *)
MarkDeploying(h) ==
    /\ request[h].at = "mark"
    /\ IF request[h].status = "deploying" THEN UNCHANGED row ELSE Store(h, "deploying")
    /\ Continue(h, "apply", "deploying")
    /\ UNCHANGED <<objects, kubeconfig, trouble>>

(* create or replace the Deployment, then the Service, on the target cluster  *)
(* if its kubeconfig is found,                                               *)
Outcome(h, status, what) ==
    /\ Continue(h, "record", status)
    /\ Note(request[h].name, what)

\* Mutant: a refused Service is only logged.
ApplyIgnoresService(h) ==
    LET w == request[h].name
    IN  /\ request[h].at = "apply"
        /\ \/ /\ ~kubeconfig
              /\ Outcome(h, "failed", {"unreachable"}) /\ UNCHANGED objects
           \/ /\ kubeconfig
              /\ Outcome(h, "failed", {"refused"}) /\ UNCHANGED objects
           \/ /\ kubeconfig
              /\ \E applied \in {{"deployment"}, Objects} :
                    objects' = [objects EXCEPT ![w] = @ \cup applied]
              /\ Outcome(h, "running", {})
        /\ UNCHANGED <<row, kubeconfig>>

\* Mutant: a missing kubeconfig is not handled.
ApplyUnhandled(h) ==
    LET w == request[h].name
    IN  /\ request[h].at = "apply"
        /\ \/ /\ ~kubeconfig
              /\ Answer(h) /\ UNCHANGED <<objects, trouble>>
           \/ /\ kubeconfig
              /\ objects' = [objects EXCEPT ![w] = Objects]
              /\ Outcome(h, "running", {})
        /\ UNCHANGED <<row, kubeconfig>>

Apply(h) ==
    LET w == request[h].name
    IN  /\ request[h].at = "apply"
        /\ \/ /\ ~kubeconfig
              /\ Outcome(h, "failed", {"unreachable"}) /\ UNCHANGED objects
           \/ /\ kubeconfig
              /\ \E applied \in {{}, {"deployment"}} :
                    /\ objects' = [objects EXCEPT ![w] = @ \cup applied]
                    /\ Outcome(h, "failed", {"refused"})
           \/ /\ kubeconfig
              /\ objects' = [objects EXCEPT ![w] = Objects]
              /\ Outcome(h, "running", {})
        /\ UNCHANGED <<row, kubeconfig>>

(* and record the outcome.                                                   *)
Record(h) ==
    /\ request[h].at = "record"
    /\ Store(h, request[h].status)
    /\ Answer(h)
    /\ UNCHANGED <<objects, kubeconfig, trouble>>

-----------------------------------------------------------------------------
(* DELETE /ai-workloads/{id}: load the row,                                  *)
DeleteBegin(h, w) ==
    /\ row[w] # None
    /\ Arrive(h, w, "clean", row[w])

\* Mutant: the Service is forgotten.
DeleteCleanDeployment(h) ==
    LET w == request[h].name
    IN  /\ request[h].at = "clean"
        /\ \/ /\ request[h].status # "running"
              /\ UNCHANGED <<objects, trouble>>
           \/ /\ request[h].status = "running" /\ ~kubeconfig
              /\ Note(w, {"unreachable"}) /\ UNCHANGED objects
           \/ /\ request[h].status = "running" /\ kubeconfig
              /\ objects' = [objects EXCEPT ![w] = @ \ {"deployment"}]
              /\ UNCHANGED trouble
        /\ Continue(h, "remove", request[h].status)
        /\ UNCHANGED <<row, kubeconfig>>

(* delete the objects of a workload that was running; a cluster that cannot   *)
(* be reached is passed over, a refusal is only logged,                      *)
DeleteClean(h) ==
    LET w == request[h].name
    IN  /\ request[h].at = "clean"
        /\ \/ /\ request[h].status # "running"
              /\ UNCHANGED <<objects, trouble>>
           \/ /\ request[h].status = "running" /\ ~kubeconfig
              /\ Note(w, {"unreachable"}) /\ UNCHANGED objects
           \/ /\ request[h].status = "running" /\ kubeconfig
              /\ \E refused \in SUBSET objects[w] :
                    /\ objects' = [objects EXCEPT ![w] = refused]
                    /\ Note(w, IF refused = {} THEN {} ELSE {"refused"})
        /\ Continue(h, "remove", request[h].status)
        /\ UNCHANGED <<row, kubeconfig>>

(* remove the row; one that is gone already is not missed.                   *)
DeleteCommit(h) ==
    LET w == request[h].name
    IN  /\ request[h].at = "remove"
        /\ row' = IF request[h].present THEN [row EXCEPT ![w] = None] ELSE row
        /\ request' = [i \in Handlers |->
              IF i = h THEN Idle
              ELSE IF request[h].present /\ request[i].name = w
                   THEN [request[i] EXCEPT !.present = FALSE] ELSE request[i]]
        /\ UNCHANGED <<objects, kubeconfig, trouble>>

-----------------------------------------------------------------------------
(* The kubeconfig Secret appears with the control plane, and goes with the    *)
(* Cluster or with a pivot.                                                  *)
KubeconfigChanges ==
    /\ kubeconfig' = ~kubeconfig
    /\ UNCHANGED <<row, objects, request, trouble>>

Resume(h) ==
    \/ CreateInsert(h) \/ MarkDeploying(h) \/ Apply(h) \/ Record(h)
    \/ DeleteClean(h) \/ DeleteCommit(h)

Next ==
    \/ \E h \in Handlers :
          \/ \E w \in Names : CreateBegin(h, w) \/ RedeployBegin(h, w) \/ DeleteBegin(h, w)
          \/ Resume(h) \/ Abort(h)
    \/ KubeconfigChanges

Spec == Init /\ [][Next]_vars

(* The event loop resumes a coroutine whose query was answered.              *)
FairSpec == Spec /\ \A h \in Handlers : WF_vars(Resume(h))

-----------------------------------------------------------------------------
RequestOK(r) ==
    /\ r.at = "idle" => r = Idle
    /\ r.at # "idle" => r.name \in Names
    /\ r.at = "apply" => r.status = "deploying"
    /\ r.at = "record" => r.status \in {"running", "failed"}
    /\ r.present => row[r.name] # None

(* Every variable has its type, and a request holds a row whose status is the *)
(* one it is about to write: only a request past its insert holds one, and a  *)
(* request that records has an outcome (ai_workloads.py:54-71).              *)
TypeOK ==
    /\ row \in [Names -> AIWorkloadStatus \cup {None}]
    /\ objects \in [Names -> SUBSET Objects]
    /\ kubeconfig \in BOOLEAN
    /\ trouble \in [Names -> SUBSET Troubles]
    /\ request \in [Handlers -> Request]
    /\ \A h \in Handlers : RequestOK(request[h])

(* A workload shown as running has both its objects on the target cluster,    *)
(* through redeployments that fail, a kubeconfig that comes and goes, and     *)
(* deletions in progress; overlapping or interrupted requests are excused     *)
(* (ai_workloads.py:54-71, 140-152).                                         *)
RunningIsReal ==
    \A w \in Names :
        /\ row[w] = "running"
        /\ trouble[w] \cap {"overlap", "cut"} = {}
        /\ \A h \in About(w) : request[h].at # "remove"
        => objects[w] = Objects

(* Objects are left behind without a row to find them by only after a call    *)
(* that was refused, a cluster that was out of reach, or requests that        *)
(* overlapped or were cut off (ai_workloads.py:140-152).                     *)
OrphansExplained ==
    \A w \in Names : row[w] = None /\ trouble[w] = {} => objects[w] = {}

(* A workload never stays pending or deploying, except after an interrupted   *)
(* request: whatever happens on the target cluster, and whichever requests    *)
(* overlap, the outcome is recorded (ai_workloads.py:106-108, 57-71).        *)
Settles ==
    \A w \in Names : row[w] \in {"pending", "deploying"}
                     ~> (row[w] \notin {"pending", "deploying"} \/ "cut" \in trouble[w])
=============================================================================
