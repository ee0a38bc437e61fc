--------------------------- MODULE AddonStoreProofs ---------------------------
(***************************************************************************)
(* Theorems about AddonStore, for every value of its constants.            *)
(***************************************************************************)
EXTENDS AddonStore, TLAPS

-----------------------------------------------------------------------------
(* Type correctness *)

\* A request that answers, and a task that ends, leave a well-typed record.
LEMMA Moves ==
    ASSUME TypeOK
    PROVE  /\ \A h \in Handlers : [request EXCEPT ![h] = NoRequest] \in [Handlers -> Request]
           /\ \A w \in Workers : Finish(w) => worker' \in [Workers -> Task]
           /\ \A w \in Workers, at \in {"read", "write", "fetch", "install"}, value \in Statuses :
                 worker[w] # NoTask /\ Proceed(w, at, value) => worker' \in [Workers -> Task]
<1>1. \A h \in Handlers : [request EXCEPT ![h] = NoRequest] \in [Handlers -> Request]
    BY DEF TypeOK, Request
<1>2. \A w \in Workers : Finish(w) => worker' \in [Workers -> Task]
    BY DEF TypeOK, Finish, Task
<1>3. ASSUME NEW w \in Workers, NEW at \in {"read", "write", "fetch", "install"}, NEW value \in Statuses,
             worker[w] # NoTask, Proceed(w, at, value)
      PROVE  worker' \in [Workers -> Task]
    <2>1. worker[w] \in [at: {"read", "write", "fetch", "install"}, addon: Addons, value: Statuses,
                         read: [Addons -> Statuses]]
        BY <1>3 DEF TypeOK, Task
    <2>2. [worker[w] EXCEPT !.at = at, !.value = value] \in Task
        BY <2>1 DEF Task
    <2> QED BY <1>3, <2>2 DEF TypeOK, Proceed
<1> QED BY <1>1, <1>2, <1>3

\* A request in flight, and a task in progress, have all their fields.
LEMMA Fields ==
    ASSUME TypeOK
    PROVE  /\ \A h \in Handlers : request[h].at \in {"commit", "send"} =>
                 request[h] \in [at: {"commit", "send"}, op: {"enable", "disable"}, addon: Addons, read: SUBSET Addons]
           /\ \A w \in Workers : worker[w].at \in {"read", "write", "fetch", "install"} =>
                 /\ worker[w] # NoTask
                 /\ worker[w] \in [at: {"read", "write", "fetch", "install"}, addon: Addons, value: Statuses,
                                   read: [Addons -> Statuses]]
BY DEF TypeOK, Request, NoRequest, Task, NoTask

LEMMA RequestType ==
    ASSUME TypeOK, NEW h \in Handlers, Begin(h) \/ ToggleCommit(h) \/ Send(h) \/ RequestAborts(h)
    PROVE  TypeOK'
<1>1. CASE Begin(h)
    <2> PICK x \in Addons : EnableBegin(h, x) \/ DisableBegin(h, x)
        BY <1>1 DEF Begin
    <2>1. \A op \in {"enable", "disable"} :
              [at |-> "commit", op |-> op, addon |-> x, read |-> intent] \in Request
        BY DEF TypeOK, Request
    <2>2. request' \in [Handlers -> Request]
        BY <2>1 DEF TypeOK, EnableBegin, DisableBegin
    <2> QED BY <2>2 DEF TypeOK, EnableBegin, DisableBegin, cluster, ghosts
<1>2. CASE ToggleCommit(h)
    <2> DEFINE r == request[h]
    <2>1. r \in [at: {"commit", "send"}, op: {"enable", "disable"}, addon: Addons, read: SUBSET Addons]
        BY <1>2, Fields DEF ToggleCommit
    <2>2. [r EXCEPT !.at = "send"] \in Request /\ NoRequest \in Request
        BY <2>1 DEF Request
    <2>3. Toggled(r) \subseteq Addons
        BY <2>1 DEF Toggled
    <2>4. request' \in [Handlers -> Request]
        BY <1>2, <2>2 DEF TypeOK, ToggleCommit
    <2>5. intent' \subseteq Addons /\ wish' \in [Addons -> BOOLEAN]
        BY <1>2, <2>1, <2>3 DEF TypeOK, ToggleCommit
    <2> QED BY <1>2, <2>4, <2>5 DEF TypeOK, ToggleCommit
<1>3. CASE Send(h)
    <2>1. request[h].addon \in Addons
        BY <1>3, Fields DEF Send
    <2> QED BY <1>3, <2>1, Moves DEF TypeOK, Send, cluster, ghosts
<1>4. CASE RequestAborts(h)
    BY <1>4, Moves DEF TypeOK, RequestAborts, cluster, ghosts
<1> QED BY <1>1, <1>2, <1>3, <1>4

LEMMA WorkerType ==
    ASSUME TypeOK, NEW w \in Workers, WorkerStep(w) \/ TaskDies(w)
    PROVE  TypeOK'
<1> DEFINE t == worker[w]
<1> USE DEF cluster, ghosts
<1>1. ASSUME NEW x \in Addons, TaskTake(w, x) PROVE TypeOK'
    <2>1. [at |-> "read", addon |-> x, value |-> "installing", read |-> status] \in Task
        BY DEF TypeOK, Task, Statuses
    <2>2. worker' \in [Workers -> Task]
        BY <1>1, <2>1 DEF TypeOK, TaskTake
    <2>3. messages' \in [Addons -> Nat]
        BY <1>1 DEF TypeOK, TaskTake
    <2>4. cut' \in [Addons -> BOOLEAN]
        BY <1>1 DEF TypeOK, TaskTake
    <2> QED BY <1>1, <2>2, <2>3, <2>4 DEF TypeOK, TaskTake
<1>2. ASSUME t.at \in {"read", "write"}, Recorded(w) PROVE worker' \in [Workers -> Task]
    BY <1>2, Fields, Moves DEF Recorded, Statuses
<1>3. CASE ReadStatus(w)
    <2>1. t \in [at: {"read", "write", "fetch", "install"}, addon: Addons, value: Statuses,
                 read: [Addons -> Statuses]]
        BY <1>3, Fields DEF ReadStatus
    <2>2. [t EXCEPT !.at = "write", !.read = status] \in Task
        BY <2>1 DEF Task, TypeOK
    <2>3. worker' \in [Workers -> Task]
        BY <1>2, <1>3, <2>2 DEF TypeOK, ReadStatus
    <2> QED BY <1>3, <2>3 DEF TypeOK, ReadStatus
<1>4. CASE WriteStatus(w)
    <2>1. t.addon \in Addons /\ t.value \in Statuses /\ t.read \in [Addons -> Statuses]
        BY <1>4, Fields DEF WriteStatus
    <2>2. worker' \in [Workers -> Task]
        BY <1>2, <1>4, Moves DEF WriteStatus
    <2>3. status' \in [Addons -> Statuses] /\ outcome' \in [Addons -> Statuses]
        BY <1>4, <2>1 DEF TypeOK, WriteStatus
    <2> QED BY <1>4, <2>2, <2>3 DEF TypeOK, WriteStatus
<1>5. CASE FetchKubeconfig(w)
    BY <1>5, Fields, Moves DEF TypeOK, FetchKubeconfig, Statuses
<1>6. CASE Install(w)
    <2>1. t.addon \in Addons /\ t # NoTask
        BY <1>6, Fields DEF Install
    <2>2. worker' \in [Workers -> Task]
        BY <1>6, <2>1, Moves DEF Install, CutOff, Statuses
    <2>3. installed' \subseteq Addons /\ cut' \in [Addons -> BOOLEAN]
        BY <1>6, <2>1 DEF TypeOK, Install, CutOff
    <2> QED BY <1>6, <2>2, <2>3 DEF TypeOK, Install
<1>7. CASE TaskDies(w)
    <2>1. worker' \in [Workers -> Task] /\ cut' \in [Addons -> BOOLEAN]
        BY <1>7, Moves DEF TypeOK, TaskDies, CutOff
    <2> QED BY <1>7, <2>1 DEF TypeOK, TaskDies
<1> QED BY <1>1, <1>3, <1>4, <1>5, <1>6, <1>7 DEF WorkerStep, TaskStep

LEMMA TypeStep == TypeOK /\ [Next]_vars => TypeOK'
<1> SUFFICES ASSUME TypeOK, [Next]_vars PROVE TypeOK'
    OBVIOUS
<1>1. CASE DeleteCluster
    BY <1>1 DEF TypeOK, DeleteCluster, ghosts
<1>2. CASE UNCHANGED vars
    BY <1>2 DEF TypeOK, vars, cluster, ghosts
<1> QED BY <1>1, <1>2, RequestType, WorkerType DEF Next

LEMMA TypeInit == Init => TypeOK
<1> SUFFICES ASSUME Init PROVE TypeOK
    OBVIOUS
<1>1. NoRequest \in Request /\ NoTask \in Task
    BY DEF Request, Task
<1>2. "none" \in Statuses
    BY DEF Statuses
<1> QED BY <1>1, <1>2 DEF Init, TypeOK

\* Every reachable state of the app store is well typed.
THEOREM TypeCorrect == Spec => []TypeOK
<1> QED BY TypeInit, TypeStep, PTL DEF Spec

-----------------------------------------------------------------------------
(* InstalledIsReal.  A copy a worker read may be old, but what it says of an  *)
(* installed addon stays true, because nothing uninstalls one.                *)

\* What a task has read, and what it is about to record, is real too.
CopiesAreReal ==
    \A w \in Workers : worker[w].at \in {"read", "write", "fetch", "install"} =>
        /\ \A x \in Addons : worker[w].read[x] = "installed" => x \in installed
        /\ worker[w].value = "installed" => worker[w].addon \in installed

RealInv == TypeOK /\ InstalledIsReal /\ CopiesAreReal

LEMMA RealWorker ==
    ASSUME RealInv, NEW w \in Workers, WorkerStep(w) \/ TaskDies(w)
    PROVE  InstalledIsReal' /\ CopiesAreReal'
<1> DEFINE t == worker[w]
           Active(s) == s.at \in {"read", "write", "fetch", "install"}
           Real(s) == Active(s) => /\ \A x \in Addons : s.read[x] = "installed" => x \in installed'
                                   /\ s.value = "installed" => s.addon \in installed'
<1> USE DEF cluster, ghosts
\* The other workers' copies are as real as before.
<1>0. TypeOK /\ installed \subseteq installed'
    BY DEF RealInv, WorkerStep, TaskStep, TaskTake, ReadStatus, WriteStatus, FetchKubeconfig, Install, TaskDies
<1>1. ASSUME worker' = [worker EXCEPT ![w] = worker'[w]], Real(worker'[w]) PROVE CopiesAreReal'
    BY <1>0, <1>1 DEF RealInv, CopiesAreReal, TypeOK
<1>2. ASSUME UNCHANGED status PROVE InstalledIsReal'
    BY <1>0, <1>2 DEF RealInv, InstalledIsReal
<1>3. Real(NoTask)
    BY DEF NoTask
<1>4. ASSUME Finish(w) PROVE CopiesAreReal'
    <2>1. worker'[w] = NoTask /\ worker' = [worker EXCEPT ![w] = worker'[w]]
        BY <1>0, <1>4 DEF Finish, TypeOK
    <2> QED BY <2>1, <1>1, <1>3
<1>5. ASSUME Active(t), NEW at \in {"read", "fetch", "install"}, NEW value \in Statuses, Proceed(w, at, value),
             value = "installed" => t.addon \in installed'
      PROVE  CopiesAreReal'
    <2>1. t \in [at: {"read", "write", "fetch", "install"}, addon: Addons, value: Statuses,
                 read: [Addons -> Statuses]]
        BY <1>0, <1>5, Fields
    <2>2. worker'[w] = [t EXCEPT !.at = at, !.value = value] /\ worker' = [worker EXCEPT ![w] = worker'[w]]
        BY <1>0, <1>5 DEF Proceed, TypeOK
    <2>3. worker'[w].read = t.read /\ worker'[w].value = value /\ worker'[w].addon = t.addon
        BY <2>1, <2>2
    <2>4. \A x \in Addons : t.read[x] = "installed" => x \in installed'
        BY <1>0, <1>5 DEF RealInv, CopiesAreReal
    <2>5. Real(worker'[w])
        BY <1>5, <2>3, <2>4
    <2> QED BY <2>2, <2>5, <1>1
<1>6. ASSUME t.at \in {"read", "write"}, Recorded(w) PROVE CopiesAreReal'
    BY <1>4, <1>5, <1>6 DEF Recorded, Statuses
<1>7. ASSUME NEW x \in Addons, TaskTake(w, x) PROVE InstalledIsReal' /\ CopiesAreReal'
    <2> DEFINE s == [at |-> "read", addon |-> x, value |-> "installing", read |-> status]
    <2>1. Real(s)
        BY <1>0 DEF RealInv, InstalledIsReal
    <2>2. CASE worker' = worker
        BY <1>0, <1>2, <1>7, <2>2 DEF RealInv, CopiesAreReal, TaskTake
    <2>3. CASE worker' = [worker EXCEPT ![w] = s]
        <3>1. worker'[w] = s
            BY <1>0, <2>3 DEF TypeOK
        <3> QED BY <1>1, <1>2, <1>7, <2>1, <2>3, <3>1 DEF TaskTake
    <2> QED BY <1>7, <2>2, <2>3 DEF TaskTake
<1>8. CASE ReadStatus(w)
    <2>1. t \in [at: {"read", "write", "fetch", "install"}, addon: Addons, value: Statuses,
                 read: [Addons -> Statuses]]
        BY <1>0, <1>8, Fields DEF ReadStatus
    <2> DEFINE s == [t EXCEPT !.at = "write", !.read = status]
    <2>2. CASE exists
        <3>1. worker'[w] = s /\ worker' = [worker EXCEPT ![w] = worker'[w]]
            BY <1>0, <1>8, <2>2 DEF ReadStatus, TypeOK
        <3>2. s.read = status /\ s.value = t.value /\ s.addon = t.addon
            BY <2>1
        <3>3. t.value = "installed" => t.addon \in installed
            BY <1>8 DEF RealInv, CopiesAreReal, ReadStatus
        <3>4. \A x \in Addons : status[x] = "installed" => x \in installed
            BY DEF RealInv, InstalledIsReal
        <3>5. Real(s)
            BY <1>0, <3>2, <3>3, <3>4
        <3> QED BY <1>1, <1>2, <1>8, <3>1, <3>5 DEF ReadStatus
    <2> QED BY <1>2, <1>6, <1>8, <2>2 DEF ReadStatus
<1>9. CASE WriteStatus(w)
    <2>1. t.addon \in Addons /\ t.read \in [Addons -> Statuses]
        BY <1>0, <1>9, Fields DEF WriteStatus
    <2>2. CopiesAreReal'
        BY <1>4, <1>6, <1>9 DEF WriteStatus
    <2>3. /\ \A x \in Addons : t.read[x] = "installed" => x \in installed
          /\ t.value = "installed" => t.addon \in installed
        BY <1>9 DEF RealInv, CopiesAreReal, WriteStatus
    <2>4. ASSUME status' = [t.read EXCEPT ![t.addon] = t.value] PROVE InstalledIsReal'
        BY <1>0, <2>1, <2>3, <2>4 DEF InstalledIsReal
    <2> QED BY <1>2, <1>9, <2>2, <2>4 DEF WriteStatus
<1>10. CASE FetchKubeconfig(w)
    BY <1>2, <1>5, <1>10 DEF FetchKubeconfig, Statuses
<1>11. CASE Install(w)
    <2>1. CASE Proceed(w, "read", "installed") /\ installed' = installed \cup {t.addon}
        BY <1>2, <1>5, <1>11, <2>1 DEF Install, Statuses
    <2>2. CASE Proceed(w, "read", "failed")
        BY <1>2, <1>5, <1>11, <2>2 DEF Install, Statuses
    <2> QED BY <1>2, <1>4, <1>11, <2>1, <2>2 DEF Install, CutOff
<1>12. CASE TaskDies(w)
    BY <1>2, <1>4, <1>12 DEF TaskDies, CutOff
<1> QED BY <1>7, <1>8, <1>9, <1>10, <1>11, <1>12 DEF WorkerStep, TaskStep

LEMMA RealStep == RealInv /\ [Next]_vars => RealInv'
<1> SUFFICES ASSUME RealInv, [Next]_vars PROVE RealInv'
    OBVIOUS
<1>1. TypeOK'
    BY TypeStep DEF RealInv
<1>2. ASSUME UNCHANGED <<status, worker, installed>> PROVE InstalledIsReal' /\ CopiesAreReal'
    BY <1>2 DEF RealInv, InstalledIsReal, CopiesAreReal
<1>3. ASSUME NEW h \in Handlers, Begin(h) \/ ToggleCommit(h) \/ Send(h) \/ RequestAborts(h)
      PROVE  UNCHANGED <<status, worker, installed>>
    BY <1>3 DEF Begin, EnableBegin, DisableBegin, ToggleCommit, Send, RequestAborts, cluster, ghosts
<1>4. DeleteCluster => UNCHANGED <<status, worker, installed>>
    BY DEF DeleteCluster, ghosts
<1>5. UNCHANGED vars => UNCHANGED <<status, worker, installed>>
    BY DEF vars, cluster, ghosts
<1>6. InstalledIsReal' /\ CopiesAreReal'
    BY <1>2, <1>3, <1>4, <1>5, RealWorker DEF Next
<1> QED BY <1>1, <1>6 DEF RealInv

\* The console never shows an addon as installed that is not, for any number of
\* requests and workers.
THEOREM InstalledStaysReal == Spec => []InstalledIsReal
<1>1. Init => RealInv
    <2> SUFFICES ASSUME Init PROVE RealInv
        OBVIOUS
    <2>1. InstalledIsReal
        BY DEF Init, InstalledIsReal
    <2>2. CopiesAreReal
        BY DEF Init, CopiesAreReal, NoTask
    <2> QED BY <2>1, <2>2, TypeInit DEF RealInv
<1>2. RealInv => InstalledIsReal
    BY DEF RealInv
<1> QED BY <1>1, <1>2, RealStep, PTL DEF Spec

-----------------------------------------------------------------------------
(* One worker, one request at a time.  Both properties are about a list that  *)
(* is read, changed and written back as a whole, and hold because nobody else *)
(* writes it in between.                                                      *)

CopyIsCurrent == \A w \in Workers : worker[w].at = "write" => worker[w].read = status

OutcomeInv == TypeOK /\ StatusIsOutcome /\ CopyIsCurrent

\* Only the process that runs a task changes a status.
LEMMA OutcomeStep ==
    ASSUME \A v, w \in Workers : v = w, OutcomeInv, [Next]_vars
    PROVE  OutcomeInv'
<1> USE DEF cluster, ghosts
<1>1. TypeOK /\ TypeOK'
    BY TypeStep DEF OutcomeInv
<1>2. ASSUME UNCHANGED <<status, outcome, worker>> PROVE OutcomeInv'
    BY <1>1, <1>2 DEF OutcomeInv, StatusIsOutcome, CopyIsCurrent
<1>3. ASSUME NEW w \in Workers, UNCHANGED <<status, outcome>>,
             worker'[w].at = "write" => worker'[w].read = status
      PROVE  OutcomeInv'
    BY <1>1, <1>3 DEF OutcomeInv, StatusIsOutcome, CopyIsCurrent
<1>4. ASSUME NEW w \in Workers, Finish(w) PROVE worker'[w].at # "write"
    BY <1>1, <1>4 DEF Finish, NoTask, TypeOK
<1>5. ASSUME NEW w \in Workers, worker[w].at \in {"read", "write", "fetch", "install"},
             NEW at \in {"read", "fetch", "install"}, NEW value, Proceed(w, at, value)
      PROVE  worker'[w].at # "write"
    <2>1. worker[w] \in [at: {"read", "write", "fetch", "install"}, addon: Addons, value: Statuses,
                         read: [Addons -> Statuses]]
        BY <1>1, <1>5, Fields
    <2>2. worker'[w] = [worker[w] EXCEPT !.at = at, !.value = value]
        BY <1>1, <1>5 DEF Proceed, TypeOK
    <2> QED BY <2>1, <2>2
<1>6. ASSUME NEW w \in Workers, worker[w].at \in {"read", "write"}, Recorded(w)
      PROVE  worker'[w].at # "write"
    BY <1>4, <1>5, <1>6 DEF Recorded
<1>7. ASSUME NEW w \in Workers, ReadStatus(w) PROVE OutcomeInv'
    <2>1. CASE exists
        <3>1. worker[w] \in [at: {"read", "write", "fetch", "install"}, addon: Addons,
                             value: Statuses, read: [Addons -> Statuses]]
            BY <1>1, <1>7, Fields DEF ReadStatus
        <3>2. worker'[w] = [worker[w] EXCEPT !.at = "write", !.read = status]
            BY <1>1, <1>7, <2>1 DEF ReadStatus, TypeOK
        <3>3. worker'[w].read = status
            BY <3>1, <3>2
        <3> QED BY <1>3, <1>7, <3>3 DEF ReadStatus
    <2>2. CASE ~exists
        BY <1>3, <1>6, <1>7, <2>2 DEF ReadStatus
    <2> QED BY <2>1, <2>2
<1>8. ASSUME NEW w \in Workers, WriteStatus(w) PROVE OutcomeInv'
    <2>1. worker'[w].at # "write"
        BY <1>4, <1>6, <1>8 DEF WriteStatus
    <2>2. CopyIsCurrent'
        BY <2>1 DEF CopyIsCurrent
    <2>3. worker[w].read = status /\ status = outcome
        BY <1>8 DEF OutcomeInv, CopyIsCurrent, StatusIsOutcome, WriteStatus
    <2>4. status' = outcome'
        BY <1>8, <2>3 DEF WriteStatus
    <2> QED BY <1>1, <2>2, <2>4 DEF OutcomeInv, StatusIsOutcome
<1>9. ASSUME NEW w \in Workers, FetchKubeconfig(w) PROVE OutcomeInv'
    BY <1>3, <1>5, <1>9 DEF FetchKubeconfig
<1>10. ASSUME NEW w \in Workers, Install(w) PROVE OutcomeInv'
    BY <1>3, <1>4, <1>5, <1>10 DEF Install, CutOff
<1>11. ASSUME NEW w \in Workers, NEW x \in Addons, TaskTake(w, x) PROVE OutcomeInv'
    <2>1. CASE worker' = worker
        BY <1>2, <1>11, <2>1 DEF TaskTake
    <2>2. CASE worker' # worker
        <3>1. worker'[w] = [at |-> "read", addon |-> x, value |-> "installing", read |-> status]
            BY <1>1, <1>11, <2>2 DEF TaskTake, TypeOK
        <3> QED BY <1>3, <1>11, <3>1 DEF TaskTake
    <2> QED BY <2>1, <2>2
<1>12. ASSUME NEW w \in Workers, TaskDies(w) PROVE OutcomeInv'
    BY <1>3, <1>4, <1>12 DEF TaskDies, CutOff
<1>13. CASE DeleteCluster \/ UNCHANGED vars
            \/ \E h \in Handlers : Begin(h) \/ ToggleCommit(h) \/ Send(h) \/ RequestAborts(h)
    BY <1>2, <1>13 DEF DeleteCluster, vars, Begin, EnableBegin, DisableBegin, ToggleCommit, Send,
       RequestAborts
<1> QED BY <1>7, <1>8, <1>9, <1>10, <1>11, <1>12, <1>13 DEF Next, WorkerStep, TaskStep

\* With one worker process, each addon keeps the status its own task recorded
\* last, for any number of addons and requests (tasks/addon_tasks.py:55-69).
THEOREM OneWorkerKeepsOutcomes ==
    ASSUME \A v, w \in Workers : v = w
    PROVE  Spec => []StatusIsOutcome
<1>1. Init => OutcomeInv
    BY TypeInit DEF Init, OutcomeInv, StatusIsOutcome, CopyIsCurrent, NoTask
<1>2. OutcomeInv /\ [Next]_vars => OutcomeInv'
    BY OutcomeStep
<1>3. OutcomeInv => StatusIsOutcome
    BY DEF OutcomeInv
<1> QED BY <1>1, <1>2, <1>3, PTL DEF Spec

ListIsCurrent == \A h \in Handlers : exists /\ request[h].at = "commit" => request[h].read = intent

IntentInv == TypeOK /\ IntentRecorded /\ ListIsCurrent

\* Only the request in progress changes the list.
LEMMA IntentStep ==
    ASSUME \A g, h \in Handlers : g = h, IntentInv, [Next]_vars
    PROVE  IntentInv'
<1> USE DEF cluster, ghosts
<1>1. TypeOK /\ TypeOK'
    BY TypeStep DEF IntentInv
<1>2. ASSUME UNCHANGED <<intent, wish, request>>, exists' => exists PROVE IntentInv'
    BY <1>1, <1>2 DEF IntentInv, IntentRecorded, ListIsCurrent
<1>3. ASSUME NEW h \in Handlers, UNCHANGED <<exists, intent, wish>>,
             request'[h].at = "commit" => request'[h].read = intent
      PROVE  IntentInv'
    BY <1>1, <1>3 DEF IntentInv, IntentRecorded, ListIsCurrent
<1>4. ASSUME NEW h \in Handlers, Begin(h) PROVE IntentInv'
    <2> PICK x \in Addons : EnableBegin(h, x) \/ DisableBegin(h, x)
        BY <1>4 DEF Begin
    <2>1. \E op \in {"enable", "disable"} :
              request'[h] = [at |-> "commit", op |-> op, addon |-> x, read |-> intent]
        BY <1>1 DEF EnableBegin, DisableBegin, TypeOK
    <2> QED BY <1>3, <2>1 DEF EnableBegin, DisableBegin
<1>5. ASSUME NEW h \in Handlers, ToggleCommit(h) PROVE IntentInv'
    <2> DEFINE r == request[h]
    <2>1. r \in [at: {"commit", "send"}, op: {"enable", "disable"}, addon: Addons, read: SUBSET Addons]
        BY <1>1, <1>5, Fields DEF ToggleCommit
    <2>2. request'[h].at # "commit"
        <3>1. [r EXCEPT !.at = "send"].at = "send" /\ NoRequest.at = "idle"
            BY <2>1 DEF NoRequest
        <3>2. request'[h] \in {NoRequest, [r EXCEPT !.at = "send"]}
            BY <1>1, <1>5 DEF ToggleCommit, TypeOK
        <3> QED BY <3>1, <3>2
    <2>3. ListIsCurrent'
        BY <2>2 DEF ListIsCurrent
    <2>4. IntentRecorded'
        <3>1. CASE ~exists
            BY <1>5, <3>1 DEF ToggleCommit, IntentRecorded
        <3>2. CASE exists
            <4>1. r.read = intent /\ intent = {x \in Addons : wish[x]}
                BY <1>5, <3>2 DEF IntentInv, ListIsCurrent, IntentRecorded, ToggleCommit
            <4>2. intent' = Toggled(r) /\ wish' = [wish EXCEPT ![r.addon] = (r.op = "enable")]
                BY <1>5, <3>2, <4>1 DEF ToggleCommit
            <4>3. \A x \in Addons : wish'[x] = (IF x = r.addon THEN r.op = "enable" ELSE wish[x])
                BY <1>1, <2>1, <4>2 DEF TypeOK
            <4>4. \A x \in Addons : x \in Toggled(r) <=> IF x = r.addon THEN r.op = "enable" ELSE wish[x]
                BY <4>1 DEF Toggled
            <4>5. Toggled(r) \subseteq Addons
                BY <2>1 DEF Toggled
            <4>6. Toggled(r) = {x \in Addons : wish'[x]}
                BY <4>3, <4>4, <4>5
            <4> QED BY <4>2, <4>6 DEF IntentRecorded
        <3> QED BY <3>1, <3>2
    <2> QED BY <1>1, <2>3, <2>4 DEF IntentInv
<1>6. ASSUME NEW h \in Handlers, Send(h) \/ RequestAborts(h) PROVE IntentInv'
    <2>1. request'[h] = NoRequest
        BY <1>1, <1>6 DEF Send, RequestAborts, TypeOK
    <2> QED BY <1>3, <1>6, <2>1 DEF Send, RequestAborts, NoRequest
<1>7. CASE DeleteCluster \/ UNCHANGED vars
    BY <1>2, <1>7 DEF DeleteCluster, vars
<1>8. ASSUME NEW w \in Workers, WorkerStep(w) \/ TaskDies(w) PROVE IntentInv'
    BY <1>2, <1>8 DEF WorkerStep, TaskStep, TaskTake, ReadStatus, WriteStatus, FetchKubeconfig,
       Install, TaskDies
<1> QED BY <1>4, <1>5, <1>6, <1>7, <1>8 DEF Next

\* With requests served one at a time, the list of addons is what the requests
\* that committed asked for, through aborted requests and whatever the workers
\* do meanwhile (api/addons.py:51-99).
THEOREM IntentFollowsRequests ==
    ASSUME \A g, h \in Handlers : g = h
    PROVE  Spec => []IntentRecorded
<1>1. Init => IntentInv
    <2> SUFFICES ASSUME Init PROVE IntentInv
        OBVIOUS
    <2>1. IntentRecorded
        BY DEF Init, IntentRecorded
    <2>2. ListIsCurrent
        BY DEF Init, ListIsCurrent, NoRequest
    <2> QED BY <2>1, <2>2, TypeInit DEF IntentInv
<1>2. IntentInv /\ [Next]_vars => IntentInv'
    BY IntentStep
<1>3. IntentInv => IntentRecorded
    BY DEF IntentInv
<1> QED BY <1>1, <1>2, <1>3, PTL DEF Spec

-----------------------------------------------------------------------------
(* What InstallingEnds rests on: an addon that is shown as "installing" has a  *)
(* worker on it, unless its task was cut off, and every task gets to its end. *)

Pursued(x) ==
    status[x] = "installing" /\ exists =>
        cut[x] \/ \E w \in Workers : worker[w] # NoTask /\ worker[w].addon = x

PursuedInv == OutcomeInv /\ \A x \in Addons : Pursued(x)

\* A step of the only worker: what its task was about, and what is next.
LEMMA PursuedStep ==
    ASSUME \A v, w \in Workers : v = w, PursuedInv, [Next]_vars
    PROVE  PursuedInv'
<1> USE DEF cluster, ghosts
<1>1. OutcomeInv' /\ TypeOK /\ worker \in [Workers -> Task] /\ status \in [Addons -> Statuses]
    BY OutcomeStep DEF PursuedInv, OutcomeInv, TypeOK
<1>2. ASSUME UNCHANGED <<status, worker, cut>>, exists' => exists PROVE PursuedInv'
    BY <1>1, <1>2 DEF PursuedInv, Pursued
<1>t. ASSUME NEW w \in Workers, worker[w].at \in {"read", "write", "fetch", "install"}
      PROVE  worker[w] # NoTask /\ worker[w].addon \in Addons
             /\ worker[w] \in [at: {"read", "write", "fetch", "install"}, addon: Addons, value: Statuses,
                               read: [Addons -> Statuses]]
    BY <1>1, <1>t, Fields
<1>3. ASSUME NEW w \in Workers, worker[w].at \in {"read", "write", "fetch", "install"},
             NEW at \in {"read", "fetch", "install"}, NEW value, Proceed(w, at, value)
      PROVE  worker'[w] # NoTask /\ worker'[w].addon = worker[w].addon
    <2>1. worker'[w] = [worker[w] EXCEPT !.at = at, !.value = value]
        BY <1>1, <1>3 DEF Proceed
    <2>2. worker'[w].at = at /\ worker'[w].addon = worker[w].addon
        BY <1>3, <1>t, <2>1
    <2> QED BY <2>2 DEF NoTask
\* The task goes on.
<1>4. ASSUME NEW w \in Workers, UNCHANGED <<status, exists, cut>>,
             worker[w].at \in {"read", "write", "fetch", "install"},
             worker'[w] # NoTask, worker'[w].addon = worker[w].addon
      PROVE  PursuedInv'
    BY <1>1, <1>4 DEF PursuedInv, Pursued
\* The task is cut off.
<1>5. ASSUME NEW w \in Workers, UNCHANGED <<status, exists>>, CutOff(w), worker[w].addon \in Addons
      PROVE  PursuedInv'
    <2>1. cut' = [cut EXCEPT ![worker[w].addon] = TRUE] /\ cut \in [Addons -> BOOLEAN]
        BY <1>1, <1>5 DEF CutOff, TypeOK
    <2>2. ASSUME NEW x \in Addons, status[x] = "installing", exists PROVE cut'[x]
        <3>1. CASE x = worker[w].addon
            BY <2>1, <3>1
        <3>2. CASE x # worker[w].addon
            BY <2>1, <2>2, <3>2 DEF PursuedInv, Pursued
        <3> QED BY <3>1, <3>2
    <2> QED BY <1>1, <1>5, <2>2 DEF PursuedInv, Pursued
<1>6. ASSUME ~exists' PROVE PursuedInv'
    BY <1>1, <1>6 DEF PursuedInv, Pursued
<1>7. ASSUME NEW w \in Workers, NEW x \in Addons, TaskTake(w, x) PROVE PursuedInv'
    <2>1. CASE Served /\ exists
        <3>1. worker'[w] = [at |-> "read", addon |-> x, value |-> "installing", read |-> status]
            BY <1>1, <1>7, <2>1 DEF TaskTake
        <3>2. worker'[w] # NoTask /\ worker'[w].addon = x
            BY <3>1 DEF NoTask
        <3>3. \A y \in Addons : y # x => cut'[y] = cut[y]
            BY <1>1, <1>7, <2>1 DEF TaskTake, TypeOK
        <3>4. worker[w] = NoTask /\ UNCHANGED <<status, exists>>
            BY <1>7 DEF TaskTake
        <3> QED BY <1>1, <3>2, <3>3, <3>4 DEF PursuedInv, Pursued
    <2> QED BY <1>2, <1>7, <2>1 DEF TaskTake
<1>8. ASSUME NEW w \in Workers, ReadStatus(w) PROVE PursuedInv'
    <2>1. CASE exists
        <3>1. worker'[w] = [worker[w] EXCEPT !.at = "write", !.read = status]
            BY <1>1, <1>8, <2>1 DEF ReadStatus
        <3>2. worker'[w].at = "write" /\ worker'[w].addon = worker[w].addon
            BY <1>8, <1>t, <3>1 DEF ReadStatus
        <3> QED BY <1>4, <1>8, <3>2 DEF ReadStatus, NoTask
    <2> QED BY <1>6, <1>8, <2>1 DEF ReadStatus
<1>9. ASSUME NEW w \in Workers, WriteStatus(w) PROVE PursuedInv'
    <2>1. CASE exists
        <3>1. status' = [status EXCEPT ![worker[w].addon] = worker[w].value] /\ UNCHANGED <<exists, cut>>
            BY <1>9, <2>1 DEF WriteStatus, PursuedInv, OutcomeInv, CopyIsCurrent
        <3>2. worker[w].addon \in Addons /\ worker[w] # NoTask
            BY <1>9, <1>t DEF WriteStatus
        <3>3. status'[worker[w].addon] = worker[w].value
              /\ \A x \in Addons : x # worker[w].addon => status'[x] = status[x]
            BY <1>1, <3>1, <3>2
        <3>4. worker[w].value = "installing" => worker'[w] # NoTask /\ worker'[w].addon = worker[w].addon
            BY <1>3, <1>9, <2>1 DEF WriteStatus, Recorded
        <3>5. ASSUME NEW x \in Addons PROVE Pursued(x)'
            <4>1. CASE x = worker[w].addon
                BY <3>3, <3>4, <4>1 DEF Pursued
            <4>2. CASE x # worker[w].addon
                BY <3>1, <3>3, <4>2 DEF PursuedInv, Pursued
            <4> QED BY <4>1, <4>2
        <3> QED BY <1>1, <3>5 DEF PursuedInv
    <2> QED BY <1>6, <1>9, <2>1 DEF WriteStatus
<1>10. ASSUME NEW w \in Workers, FetchKubeconfig(w) PROVE PursuedInv'
    BY <1>3, <1>4, <1>10 DEF FetchKubeconfig
<1>11. ASSUME NEW w \in Workers, Install(w) PROVE PursuedInv'
    <2>1. CASE CutOff(w)
        BY <1>5, <1>11, <1>t, <2>1 DEF Install
    <2>2. CASE (Proceed(w, "read", "installed") \/ Proceed(w, "read", "failed")) /\ UNCHANGED cut
        BY <1>3, <1>4, <1>11, <2>2 DEF Install
    <2> QED BY <1>11, <2>1, <2>2 DEF Install
<1>12. ASSUME NEW w \in Workers, TaskDies(w) PROVE PursuedInv'
    <2>1. worker[w] \in Task /\ worker[w] # NoTask
        BY <1>1, <1>12 DEF TaskDies
    <2>2. worker[w].addon \in Addons
        BY <2>1 DEF Task
    <2> QED BY <1>5, <1>12, <2>2 DEF TaskDies
<1>13. CASE DeleteCluster \/ UNCHANGED vars
            \/ \E h \in Handlers : Begin(h) \/ ToggleCommit(h) \/ Send(h) \/ RequestAborts(h)
    BY <1>2, <1>13 DEF DeleteCluster, vars, Begin, EnableBegin, DisableBegin, ToggleCommit, Send,
       RequestAborts
<1> QED BY <1>7, <1>8, <1>9, <1>10, <1>11, <1>12, <1>13 DEF Next, WorkerStep, TaskStep

\* With one worker process, an addon that the console shows as installing has the
\* worker on it, unless the cluster is gone or its last task was cut off by a
\* timeout or killed: a failed lookup or install, the tasks of other addons and
\* the requests that disable it leave no such status behind
\* (tasks/addon_tasks.py:71-94).
THEOREM InstallingIsPursued ==
    ASSUME \A v, w \in Workers : v = w
    PROVE  Spec => [](\A x \in Addons : status[x] = "installing" /\ exists =>
                        cut[x] \/ \E w \in Workers : worker[w] # NoTask /\ worker[w].addon = x)
<1>1. Init => PursuedInv
    BY TypeInit DEF Init, PursuedInv, Pursued, OutcomeInv, StatusIsOutcome, CopyIsCurrent, NoTask
<1>2. PursuedInv /\ [Next]_vars => PursuedInv'
    BY PursuedStep
<1>3. PursuedInv => \A x \in Addons : status[x] = "installing" /\ exists =>
                        cut[x] \/ \E w \in Workers : worker[w] # NoTask /\ worker[w].addon = x
    BY DEF PursuedInv, Pursued
<1> QED BY <1>1, <1>2, <1>3, PTL DEF Spec

NothingDone ==
    /\ \A w \in Workers : worker[w] = NoTask
    /\ status = [x \in Addons |-> "none"]
    /\ installed = {}

\* Workers started for the other Celery application, as docker-compose.yml:71 and
\* deploy/k8s/deployment-worker.yaml:25 start them, never start an install: no
\* addon gets a status or is installed, however often it is enabled.
THEOREM NothingIsAttempted ==
    ASSUME ~Served
    PROVE  Spec => []NothingDone
<1>1. Init => NothingDone
    BY DEF Init, NothingDone
<1>2. ASSUME NothingDone, [Next]_vars PROVE NothingDone'
    <2>1. ASSUME UNCHANGED <<worker, status, installed>> PROVE NothingDone'
        BY <1>2, <2>1 DEF NothingDone
    <2>2. ASSUME NEW w \in Workers PROVE ~TaskStep(w) /\ ~TaskDies(w)
        BY <1>2 DEF NothingDone, NoTask, TaskStep, ReadStatus, WriteStatus, FetchKubeconfig, Install, TaskDies
    <2>3. ASSUME NEW w \in Workers, NEW x \in Addons, TaskTake(w, x)
          PROVE  UNCHANGED <<worker, status, installed>>
        BY <2>3 DEF TaskTake, cluster
    <2>4. CASE DeleteCluster \/ UNCHANGED vars
               \/ \E h \in Handlers : Begin(h) \/ ToggleCommit(h) \/ Send(h) \/ RequestAborts(h)
        BY <2>1, <2>4 DEF DeleteCluster, vars, Begin, EnableBegin, DisableBegin, ToggleCommit, Send,
           RequestAborts, cluster, ghosts
    <2> QED BY <1>2, <2>1, <2>2, <2>3, <2>4 DEF Next, WorkerStep
<1> QED BY <1>1, <1>2, PTL DEF Spec

\* Steps of the task that lie ahead.
Ahead(t) ==
    CASE t.at = "read" /\ t.value = "installing"  -> 6
      [] t.at = "write" /\ t.value = "installing" -> 5
      [] t.at = "fetch"                           -> 4
      [] t.at = "install"                         -> 3
      [] t.at = "read" /\ t.value # "installing"  -> 2
      [] t.at = "write" /\ t.value # "installing" -> 1
      [] OTHER                                    -> 0

LEMMA TaskStepGetsOn ==
    ASSUME TypeOK, NEW w \in Workers, TaskStep(w) \/ TaskDies(w)
    PROVE  Ahead(worker'[w]) < Ahead(worker[w]) /\ \A v \in Workers \ {w} : worker'[v] = worker[v]
<1> DEFINE t == worker[w]
<1>t. worker \in [Workers -> Task]
    BY DEF TypeOK
<1>1. /\ t # NoTask
      /\ t \in [at: {"read", "write", "fetch", "install"}, addon: Addons, value: Statuses,
                read: [Addons -> Statuses]]
    BY <1>t, Fields DEF TaskStep, ReadStatus, WriteStatus, FetchKubeconfig, Install, TaskDies, Task
<1>2. Ahead(NoTask) = 0 /\ Ahead(t) \in Nat \ {0}
    BY <1>1 DEF Ahead, NoTask
<1>3. ASSUME Finish(w) PROVE worker'[w] = NoTask /\ \A v \in Workers \ {w} : worker'[v] = worker[v]
    BY <1>t, <1>3 DEF Finish
<1>4. ASSUME NEW at \in {"fetch", "install", "read"}, NEW value \in Statuses, Proceed(w, at, value)
      PROVE  /\ worker'[w].at = at /\ worker'[w].value = value
             /\ \A v \in Workers \ {w} : worker'[v] = worker[v]
    <2>1. worker'[w] = [t EXCEPT !.at = at, !.value = value]
        BY <1>t, <1>4 DEF Proceed
    <2>2. \A v \in Workers \ {w} : worker'[v] = worker[v]
        BY <1>t, <1>4 DEF Proceed
    <2> HIDE DEF t
    <2> QED BY <1>1, <2>1, <2>2
<1>5. ASSUME Recorded(w), t.at \in {"read", "write"}
      PROVE  Ahead(worker'[w]) < Ahead(worker[w]) /\ \A v \in Workers \ {w} : worker'[v] = worker[v]
    <2>1. CASE t.value = "installing"
        <3>1. worker'[w].at = "fetch" /\ \A v \in Workers \ {w} : worker'[v] = worker[v]
            BY <1>4, <1>5, <2>1 DEF Recorded, Statuses
        <3> QED BY <1>5, <2>1, <3>1 DEF Ahead
    <2>2. CASE t.value # "installing"
        BY <1>2, <1>3, <1>5, <2>2 DEF Recorded
    <2> QED BY <2>1, <2>2
<1>6. CASE ReadStatus(w)
    <2>1. CASE exists
        <3>1. worker'[w] = [t EXCEPT !.at = "write", !.read = status]
              /\ \A v \in Workers \ {w} : worker'[v] = worker[v]
            BY <1>t, <1>6, <2>1 DEF ReadStatus
        <3>2. worker'[w].at = "write" /\ worker'[w].value = t.value /\ t.at = "read"
            BY <1>1, <1>6, <3>1 DEF ReadStatus
        <3> QED BY <3>1, <3>2 DEF Ahead
    <2>2. CASE ~exists
        BY <1>5, <1>6, <2>2 DEF ReadStatus
    <2> QED BY <2>1, <2>2
<1>7. CASE WriteStatus(w)
    BY <1>2, <1>3, <1>5, <1>7 DEF WriteStatus
<1>8. CASE FetchKubeconfig(w)
    <2>1. t.at = "fetch"
        BY <1>8 DEF FetchKubeconfig
    <2>2. /\ \/ worker'[w].at = "install"
             \/ worker'[w].at = "read" /\ worker'[w].value = "failed"
          /\ \A v \in Workers \ {w} : worker'[v] = worker[v]
        BY <1>4, <1>8 DEF FetchKubeconfig, Statuses
    <2> QED BY <2>1, <2>2 DEF Ahead
<1>9. CASE Install(w)
    <2>1. t.at = "install"
        BY <1>9 DEF Install
    <2>2. /\ \/ worker'[w] = NoTask
             \/ worker'[w].at = "read" /\ worker'[w].value \in {"installed", "failed"}
          /\ \A v \in Workers \ {w} : worker'[v] = worker[v]
        BY <1>3, <1>4, <1>9 DEF Install, CutOff, Statuses
    <2> QED BY <1>2, <2>1, <2>2 DEF Ahead
<1>10. CASE TaskDies(w)
    BY <1>2, <1>3, <1>10 DEF TaskDies, CutOff
<1> QED BY <1>6, <1>7, <1>8, <1>9, <1>10 DEF TaskStep

\* Every step of a task brings it closer to its end, whatever the requests, the
\* other workers and a delete of the cluster do: at most six steps and the worker
\* is free for the next message (tasks/addon_tasks.py:55-100).
THEOREM TasksGetOn ==
    Spec => [][\A w \in Workers : worker[w] # NoTask =>
                  worker'[w] = worker[w] \/ Ahead(worker'[w]) \in 0 .. (Ahead(worker[w]) - 1)]_vars
<1>1. ASSUME TypeOK, TypeOK', Next, NEW w \in Workers, worker[w] # NoTask
      PROVE  worker'[w] = worker[w] \/ Ahead(worker'[w]) \in 0 .. (Ahead(worker[w]) - 1)
    <2>1. Ahead(worker'[w]) \in Nat /\ Ahead(worker[w]) \in Nat
        BY DEF Ahead
    <2>2. ASSUME NEW v \in Workers, TaskStep(v) \/ TaskDies(v)
          PROVE  worker'[w] = worker[w] \/ Ahead(worker'[w]) < Ahead(worker[w])
        BY <1>1, <2>2, TaskStepGetsOn
    <2>3. ASSUME NEW v \in Workers, NEW x \in Addons, TaskTake(v, x) PROVE worker'[w] = worker[w]
        <3>1. worker[v] = NoTask
            BY <2>3 DEF TaskTake
        <3> QED BY <1>1, <2>3, <3>1 DEF TaskTake, TypeOK
    <2>4. ASSUME NEW h \in Handlers, Begin(h) \/ ToggleCommit(h) \/ Send(h) \/ RequestAborts(h)
          PROVE  UNCHANGED worker
        BY <2>4 DEF Begin, EnableBegin, DisableBegin, ToggleCommit, Send, RequestAborts
    <2>5. DeleteCluster => UNCHANGED worker
        BY DEF DeleteCluster
    <2> QED BY <1>1, <2>1, <2>2, <2>3, <2>4, <2>5 DEF Next, WorkerStep
<1>2. ASSUME TypeOK, TypeOK', [Next]_vars
      PROVE  [\A w \in Workers : worker[w] # NoTask =>
                 worker'[w] = worker[w] \/ Ahead(worker'[w]) \in 0 .. (Ahead(worker[w]) - 1)]_vars
    BY <1>1, <1>2
<1> QED BY <1>2, TypeCorrect, PTL DEF Spec
=============================================================================
