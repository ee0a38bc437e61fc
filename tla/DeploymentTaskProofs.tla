------------------------ MODULE DeploymentTaskProofs ------------------------
(***************************************************************************)
(* A deployment task keeps its promises for any number of hosts, addons    *)
(* and polls, with failing writes and killed workers.                      *)
(***************************************************************************)
EXTENDS DeploymentTask, FiniteSetTheorems, TLAPS

\* Where the coroutine is once it passed each gate.
AfterAddons == {"start_pivot", "pivot_fetch", "pivot", "pivoted", "finish", "returned"}
AfterControlPlane == {"running", "fetch", "install", "addon_tried"} \cup AfterAddons
AfterCluster == {"applied", "start_wait", "wait_control_plane"} \cup AfterControlPlane
AfterHosts == {"hosts_ready", "apply"} \cup AfterCluster
Broken == {"except", "raised", "lost"}

\* The phase a watcher reads, from where the coroutine is.
RowShows ==
    /\ at = "accepted" => phase = "queued"
    /\ at \in {"render", "rendered"} => phase = "generating_manifests"
    /\ at = "bootstrapped" => phase = "bootstrapping_ephemeral_node"
    /\ at = "bmh_applied" => phase = "applying_bmh"
    /\ at \in {"wait_hosts", "poll", "hosts_ready"} => phase = "waiting_for_hosts"
    /\ at \in {"apply", "applied"} => phase = "applying_cluster"
    /\ at \in {"start_wait", "wait_control_plane", "running"} => phase = "waiting_for_control_plane"
    /\ at \in {"fetch", "install", "addon_tried", "start_pivot"} => phase = "installing_addons"
    /\ at \in {"pivot_fetch", "pivot", "pivoted"} => phase = "pivoting_to_target_cluster"
    /\ at = "finish" /\ spec.pivot => phase = "pivoting_to_target_cluster"
    /\ at = "finish" /\ ~spec.pivot => phase = "installing_addons"
    /\ at = "returned" => phase = "complete"
    /\ at = "except" => phase \notin Terminal
    /\ at = "raised" => phase = "failed"

\* What the task did is what it is past, and nothing is done ahead of its gate.
WorkDone ==
    /\ at \in AfterHosts => pending = {}
    /\ at \in AfterCluster => applied = "all"
    /\ at \in AfterControlPlane => ready
    /\ at \in AfterAddons => todo = {} /\ failures = {}
    /\ at \notin Broken => spec.addons = (todo \cup installed) \cup failures
    /\ at \in {"start_pivot", "pivot_fetch", "pivot", "pivoted"} => spec.pivot
    /\ at = "pivoted" => moved = "all"
    /\ at \in {"finish", "returned"} /\ spec.pivot => moved = "all"
    /\ applied # "none" => at \in AfterCluster \cup Broken
    /\ moved # "none" => at \in Broken \/ (at \in {"pivoted", "finish", "returned"} /\ spec.pivot)

\* Which kubeconfig is on the disk.
FilesHeld ==
    /\ at \in {"install", "addon_tried"} =>
         kubeconfigs = (IF spec.addons = {} THEN {} ELSE {"addons"})
    /\ at = "pivot" => kubeconfigs = {"pivot"}
    /\ at \notin {"install", "addon_tried", "pivot", "lost"} => kubeconfigs = {}

IInv == TypeOK /\ RowShows /\ WorkDone /\ FilesHeld

-----------------------------------------------------------------------------
\* Where a phase write starts and ends.
LEMMA LabelsListed ==
    Labels = {"accepted", "rendered", "bootstrapped", "bmh_applied", "hosts_ready", "applied", "running",
              "addon_tried", "start_pivot", "pivoted", "finish", "render", "wait_hosts", "apply",
              "start_wait", "fetch", "install", "pivot_fetch", "returned", "poll",
              "wait_control_plane", "pivot", "except", "raised", "lost"}
<1>1. {w[1] : w \in PhaseWrites} =
        {"accepted", "rendered", "bootstrapped", "bmh_applied", "hosts_ready", "applied", "running",
         "addon_tried", "start_pivot", "pivoted", "finish"}
    BY DEF PhaseWrites
<1>2. {w[3] : w \in PhaseWrites} =
        {"render", "bootstrapped", "bmh_applied", "wait_hosts", "apply", "start_wait", "fetch",
         "install", "pivot_fetch", "finish", "returned"}
    BY DEF PhaseWrites
<1> QED BY <1>1, <1>2 DEF Labels, Ended

LEMMA InitInv == Init => IInv
<1> SUFFICES ASSUME Init PROVE IInv
    OBVIOUS
<1>1. TypeOK
    <2>1. at \in Labels /\ phase \in Phases
        BY LabelsListed DEF Init, Phases
    <2>2. budget \in 0 .. (HostPolls + ControlPlanePolls)
        BY TaskConstants DEF Init
    <2>3. applied \in Amount /\ moved \in Amount /\ ready \in BOOLEAN
        BY DEF Init, Amount
    <2> QED BY <2>1, <2>2, <2>3 DEF Init, TypeOK
<1>2. RowShows
    BY DEF Init, RowShows
<1>3. WorkDone
    BY DEF Init, WorkDone, AfterHosts, AfterCluster, AfterControlPlane, AfterAddons, Broken
<1>4. FilesHeld
    BY DEF Init, FilesHeld
<1> QED BY <1>1, <1>2, <1>3, <1>4 DEF IInv

-----------------------------------------------------------------------------
\* An exception, wherever it is raised, needs no more than the types to hold.
LEMMA RaiseInv ==
    ASSUME IInv, Raise, TypeOK', at \notin Ended, UNCHANGED phase
    PROVE  IInv'
<1>1. phase \notin Terminal
    BY LabelsListed DEF IInv, TypeOK, RowShows, Ended, Terminal
<1>2. at' = "except" /\ kubeconfigs' = {}
    BY DEF Raise, Goto
<1>3. RowShows'
    BY <1>1, <1>2 DEF RowShows, Terminal
<1>4. WorkDone'
    BY <1>2 DEF WorkDone, AfterHosts, AfterCluster, AfterControlPlane, AfterAddons, Broken
<1>5. FilesHeld'
    BY <1>2 DEF FilesHeld
<1> QED BY <1>3, <1>4, <1>5 DEF IInv

\* Each phase write, or the exception in its place.
LEMMA SetPhaseInv ==
    ASSUME IInv, NEW write \in PhaseWrites, SetPhase(write)
    PROVE  IInv'
<1>1. at' \in Labels /\ phase' \in Phases /\ kubeconfigs' \subseteq {"addons", "pivot"}
    <2>1. write[3] \in Labels /\ write[2] \in Phases
        BY LabelsListed DEF PhaseWrites, Phases
    <2>2. "except" \in Labels
        BY LabelsListed
    <2> QED BY <2>1, <2>2 DEF IInv, TypeOK, SetPhase, Raise, Goto
<1>2. TypeOK'
    BY <1>1 DEF IInv, TypeOK, SetPhase, progress
<1>3. at \notin Ended
    BY DEF SetPhase, PhaseWrites, Ended
<1>4. CASE Raise /\ UNCHANGED phase
    BY <1>2, <1>3, <1>4, RaiseInv
<1>5. CASE phase' = write[2] /\ Goto(write[3]) /\ UNCHANGED kubeconfigs
    <2>1. RowShows'
        BY <1>5 DEF IInv, RowShows, WorkDone, SetPhase, PhaseWrites, Goto
    <2>2. WorkDone'
        BY <1>5 DEF IInv, WorkDone, SetPhase, PhaseWrites, Goto, progress,
                    AfterHosts, AfterCluster, AfterControlPlane, AfterAddons, Broken
    <2>3. FilesHeld'
        BY <1>5 DEF IInv, FilesHeld, SetPhase, PhaseWrites, Goto
    <2> QED BY <1>2, <2>1, <2>2, <2>3 DEF IInv
<1> QED BY <1>4, <1>5 DEF SetPhase

-----------------------------------------------------------------------------
(* One lemma per action *)

LEMMA HostsLoopInv == ASSUME IInv, HostsLoop PROVE IInv'
<1>1. at' \in Labels /\ kubeconfigs' \subseteq {"addons", "pivot"}
    BY LabelsListed DEF IInv, TypeOK, HostsLoop, Raise, Goto
<1>2. TypeOK'
    BY <1>1 DEF IInv, TypeOK, HostsLoop
<1>3. CASE Raise
    BY <1>2, <1>3, RaiseInv DEF HostsLoop, Ended
<1>4. CASE ~Raise
    <2>1. RowShows'
        BY <1>4 DEF IInv, RowShows, HostsLoop, Goto
    <2>2. WorkDone'
        BY <1>4 DEF IInv, WorkDone, HostsLoop, Goto,
                    AfterHosts, AfterCluster, AfterControlPlane, AfterAddons, Broken
    <2>3. FilesHeld'
        BY <1>4 DEF IInv, FilesHeld, HostsLoop, Goto
    <2> QED BY <1>2, <2>1, <2>2, <2>3 DEF IInv
<1> QED BY <1>3, <1>4

LEMMA PollHostInv == ASSUME IInv, NEW x \in Hosts, PollHost(x) PROVE IInv'
<1>1. at' \in Labels /\ kubeconfigs' \subseteq {"addons", "pivot"}
    BY LabelsListed DEF IInv, TypeOK, PollHost, Raise, Goto
<1>2. pending' \subseteq spec.hosts /\ round' \subseteq pending'
    BY DEF IInv, TypeOK, PollHost
<1>3. TypeOK'
    BY <1>1, <1>2 DEF IInv, TypeOK, PollHost, Keep
<1>4. CASE Raise
    BY <1>3, <1>4, RaiseInv DEF PollHost, Keep, Ended
<1>5. CASE UNCHANGED <<at, kubeconfigs>>
    <2>1. RowShows'
        BY <1>5 DEF IInv, RowShows, PollHost, Keep
    <2>2. WorkDone'
        BY <1>5 DEF IInv, WorkDone, PollHost, Keep,
                    AfterHosts, AfterCluster, AfterControlPlane, AfterAddons, Broken
    <2>3. FilesHeld'
        BY <1>5 DEF IInv, FilesHeld, PollHost, Keep
    <2> QED BY <1>3, <2>1, <2>2, <2>3 DEF IInv
<1> QED BY <1>4, <1>5 DEF PollHost

LEMMA RenderInv == ASSUME IInv, Render PROVE IInv'
<1>1. at' \in Labels /\ kubeconfigs' \subseteq {"addons", "pivot"}
    BY LabelsListed DEF IInv, TypeOK, Render, Raise, Goto
<1>2. TypeOK'
    BY <1>1 DEF IInv, TypeOK, Render, Keep, progress
<1>3. CASE Raise
    BY <1>2, <1>3, RaiseInv DEF Render, Keep, Ended
<1>4. CASE ~Raise
    <2>1. RowShows'
        BY <1>4 DEF IInv, TypeOK, RowShows, WorkDone, Render, Goto, Keep, progress
    <2>2. WorkDone'
        BY <1>4 DEF IInv, TypeOK, WorkDone, Render, Goto, Keep, progress, AfterHosts,
           AfterCluster, AfterControlPlane, AfterAddons, Broken
    <2>3. FilesHeld'
        BY <1>4 DEF IInv, TypeOK, FilesHeld, Render, Goto, Keep, progress
    <2> QED BY <1>2, <2>1, <2>2, <2>3 DEF IInv
<1> QED BY <1>3, <1>4

LEMMA EndRoundInv == ASSUME IInv, EndRound PROVE IInv'
<1>1. at' \in Labels /\ kubeconfigs' \subseteq {"addons", "pivot"}
    BY LabelsListed DEF IInv, TypeOK, EndRound, Raise, Goto
<1>2. budget' \in 0 .. (HostPolls + ControlPlanePolls)
    BY TaskConstants DEF IInv, TypeOK, EndRound
<1>3. TypeOK'
    BY <1>1, <1>2 DEF IInv, TypeOK, EndRound, Keep, progress
<1>4. RowShows'
    BY DEF IInv, TypeOK, RowShows, WorkDone, EndRound, Goto, Keep, progress
<1>5. WorkDone'
    BY DEF IInv, TypeOK, WorkDone, EndRound, Goto, Keep, progress, AfterHosts, AfterCluster,
       AfterControlPlane, AfterAddons, Broken
<1>6. FilesHeld'
    BY DEF IInv, TypeOK, FilesHeld, EndRound, Goto, Keep, progress
<1> QED BY <1>3, <1>4, <1>5, <1>6 DEF IInv

LEMMA ApplyClusterInv == ASSUME IInv, ApplyCluster PROVE IInv'
<1>1. at' \in Labels /\ kubeconfigs' \subseteq {"addons", "pivot"}
    BY LabelsListed DEF IInv, TypeOK, ApplyCluster, Raise, Goto
<1>2. TypeOK'
    BY <1>1 DEF IInv, TypeOK, ApplyCluster, Keep, progress, Amount
<1>3. CASE Raise
    BY <1>2, <1>3, RaiseInv DEF ApplyCluster, Keep, Ended
<1>4. CASE ~Raise
    <2>1. RowShows'
        BY <1>4 DEF IInv, TypeOK, RowShows, WorkDone, ApplyCluster, Goto, Keep, progress
    <2>2. WorkDone'
        BY <1>4 DEF IInv, TypeOK, WorkDone, ApplyCluster, Goto, Keep, progress, AfterHosts,
           AfterCluster, AfterControlPlane, AfterAddons, Broken
    <2>3. FilesHeld'
        BY <1>4 DEF IInv, TypeOK, FilesHeld, ApplyCluster, Goto, Keep, progress
    <2> QED BY <1>2, <2>1, <2>2, <2>3 DEF IInv
<1> QED BY <1>3, <1>4

LEMMA StartWaitInv == ASSUME IInv, StartWait PROVE IInv'
<1>1. at' \in Labels /\ kubeconfigs' \subseteq {"addons", "pivot"}
    BY LabelsListed DEF IInv, TypeOK, StartWait, Raise, Goto
<1>2. budget' \in 0 .. (HostPolls + ControlPlanePolls)
    BY TaskConstants DEF IInv, TypeOK, StartWait
<1>3. TypeOK'
    BY <1>1, <1>2 DEF IInv, TypeOK, StartWait, Keep, progress
<1>4. RowShows'
    BY DEF IInv, TypeOK, RowShows, WorkDone, StartWait, Goto, Keep, progress
<1>5. WorkDone'
    BY DEF IInv, TypeOK, WorkDone, StartWait, Goto, Keep, progress, AfterHosts, AfterCluster,
       AfterControlPlane, AfterAddons, Broken
<1>6. FilesHeld'
    BY DEF IInv, TypeOK, FilesHeld, StartWait, Goto, Keep, progress
<1> QED BY <1>3, <1>4, <1>5, <1>6 DEF IInv

LEMMA PollControlPlaneInv == ASSUME IInv, PollControlPlane PROVE IInv'
<1>1. at' \in Labels /\ kubeconfigs' \subseteq {"addons", "pivot"}
    BY LabelsListed DEF IInv, TypeOK, PollControlPlane, Raise, Goto
<1>2. budget' \in 0 .. (HostPolls + ControlPlanePolls)
    BY TaskConstants DEF IInv, TypeOK, PollControlPlane
<1>3. TypeOK'
    BY <1>1, <1>2 DEF IInv, TypeOK, PollControlPlane, Keep, progress
<1>4. CASE Raise
    BY <1>3, <1>4, RaiseInv DEF PollControlPlane, Keep, Ended
<1>5. CASE ~Raise
    <2>1. RowShows'
        BY <1>5 DEF IInv, TypeOK, RowShows, WorkDone, PollControlPlane, Goto, Keep, progress
    <2>2. WorkDone'
        BY <1>5 DEF IInv, TypeOK, WorkDone, PollControlPlane, Goto, Keep, progress, AfterHosts,
           AfterCluster, AfterControlPlane, AfterAddons, Broken
    <2>3. FilesHeld'
        BY <1>5 DEF IInv, TypeOK, FilesHeld, PollControlPlane, Goto, Keep, progress
    <2> QED BY <1>3, <2>1, <2>2, <2>3 DEF IInv
<1> QED BY <1>4, <1>5

LEMMA FetchForAddonsInv == ASSUME IInv, FetchForAddons PROVE IInv'
<1>1. at' \in Labels /\ kubeconfigs' \subseteq {"addons", "pivot"}
    BY LabelsListed DEF IInv, TypeOK, FetchForAddons, Raise, Goto
<1>2. TypeOK'
    BY <1>1 DEF IInv, TypeOK, FetchForAddons, Keep, progress
<1>3. CASE Raise
    BY <1>2, <1>3, RaiseInv DEF FetchForAddons, Keep, Ended
<1>4. CASE ~Raise
    <2>1. RowShows'
        BY <1>4 DEF IInv, TypeOK, RowShows, WorkDone, FetchForAddons, Goto, Keep, progress
    <2>2. WorkDone'
        BY <1>4 DEF IInv, TypeOK, WorkDone, FetchForAddons, Goto, Keep, progress, AfterHosts,
           AfterCluster, AfterControlPlane, AfterAddons, Broken
    <2>3. FilesHeld'
        BY <1>4 DEF IInv, TypeOK, FilesHeld, FetchForAddons, Goto, Keep, progress
    <2> QED BY <1>2, <2>1, <2>2, <2>3 DEF IInv
<1> QED BY <1>3, <1>4

LEMMA InstallAddonInv == ASSUME IInv, NEW x \in Addons, InstallAddon(x) PROVE IInv'
<1>1. at' \in Labels /\ kubeconfigs' \subseteq {"addons", "pivot"}
    BY LabelsListed DEF IInv, TypeOK, InstallAddon, Raise, Goto
<1>2. TypeOK'
    BY <1>1 DEF IInv, TypeOK, InstallAddon, Keep, progress
<1>3. CASE Raise
    BY <1>2, <1>3, RaiseInv DEF InstallAddon, Keep, Ended
<1>4. CASE ~Raise
    <2>1. RowShows'
        BY <1>4 DEF IInv, TypeOK, RowShows, WorkDone, InstallAddon, Goto, Keep, progress
    <2>2. WorkDone'
        BY <1>4 DEF IInv, TypeOK, WorkDone, InstallAddon, Goto, Keep, progress, AfterHosts,
           AfterCluster, AfterControlPlane, AfterAddons, Broken
    <2>3. FilesHeld'
        BY <1>4 DEF IInv, TypeOK, FilesHeld, InstallAddon, Goto, Keep, progress
    <2> QED BY <1>2, <2>1, <2>2, <2>3 DEF IInv
<1> QED BY <1>3, <1>4

LEMMA AddonsDoneInv == ASSUME IInv, AddonsDone PROVE IInv'
<1>1. at' \in Labels /\ kubeconfigs' \subseteq {"addons", "pivot"}
    BY LabelsListed DEF IInv, TypeOK, AddonsDone, Raise, Goto
<1>2. TypeOK'
    BY <1>1 DEF IInv, TypeOK, AddonsDone, Keep, progress
<1>3. RowShows'
    BY DEF IInv, TypeOK, RowShows, WorkDone, AddonsDone, Terminal, Goto, Keep, progress
<1>4. WorkDone'
    BY DEF IInv, TypeOK, WorkDone, AddonsDone, Goto, Keep, progress, AfterHosts, AfterCluster,
       AfterControlPlane, AfterAddons, Broken
<1>5. FilesHeld'
    BY DEF IInv, TypeOK, FilesHeld, AddonsDone, Goto, Keep, progress
<1> QED BY <1>2, <1>3, <1>4, <1>5 DEF IInv

LEMMA FetchForPivotInv == ASSUME IInv, FetchForPivot PROVE IInv'
<1>1. at' \in Labels /\ kubeconfigs' \subseteq {"addons", "pivot"}
    BY LabelsListed DEF IInv, TypeOK, FetchForPivot, Raise, Goto
<1>2. TypeOK'
    BY <1>1 DEF IInv, TypeOK, FetchForPivot, Keep, progress
<1>3. CASE Raise
    BY <1>2, <1>3, RaiseInv DEF FetchForPivot, Keep, Ended
<1>4. CASE ~Raise
    <2>1. RowShows'
        BY <1>4 DEF IInv, TypeOK, RowShows, WorkDone, FetchForPivot, Goto, Keep, progress
    <2>2. WorkDone'
        BY <1>4 DEF IInv, TypeOK, WorkDone, FetchForPivot, Goto, Keep, progress, AfterHosts,
           AfterCluster, AfterControlPlane, AfterAddons, Broken
    <2>3. FilesHeld'
        BY <1>4 DEF IInv, TypeOK, FilesHeld, FetchForPivot, Goto, Keep, progress
    <2> QED BY <1>2, <2>1, <2>2, <2>3 DEF IInv
<1> QED BY <1>3, <1>4

LEMMA MoveInv == ASSUME IInv, Move PROVE IInv'
<1>1. at' \in Labels /\ kubeconfigs' \subseteq {"addons", "pivot"}
    BY LabelsListed DEF IInv, TypeOK, Move, Raise, Goto
<1>2. TypeOK'
    BY <1>1 DEF IInv, TypeOK, Move, Keep, progress, Amount
<1>3. CASE Raise
    BY <1>2, <1>3, RaiseInv DEF Move, Keep, Ended
<1>4. CASE ~Raise
    <2>1. RowShows'
        BY <1>4 DEF IInv, TypeOK, RowShows, WorkDone, Move, Goto, Keep, progress
    <2>2. WorkDone'
        BY <1>4 DEF IInv, TypeOK, WorkDone, Move, Goto, Keep, progress, AfterHosts,
           AfterCluster, AfterControlPlane, AfterAddons, Broken
    <2>3. FilesHeld'
        BY <1>4 DEF IInv, TypeOK, FilesHeld, Move, Goto, Keep, progress
    <2> QED BY <1>2, <2>1, <2>2, <2>3 DEF IInv
<1> QED BY <1>3, <1>4

LEMMA MarkFailedInv == ASSUME IInv, MarkFailed PROVE IInv'
<1>1. at' \in Labels /\ kubeconfigs' \subseteq {"addons", "pivot"}
    BY LabelsListed DEF IInv, TypeOK, MarkFailed, Raise, Goto
<1>2. phase' \in Phases
    BY DEF IInv, TypeOK, MarkFailed, Phases
<1>3. TypeOK'
    BY <1>1, <1>2 DEF IInv, TypeOK, MarkFailed, Keep, progress
<1>4. RowShows'
    BY DEF IInv, TypeOK, RowShows, WorkDone, MarkFailed, Goto, Keep, progress
<1>5. WorkDone'
    BY DEF IInv, TypeOK, WorkDone, MarkFailed, Goto, Keep, progress, AfterHosts, AfterCluster,
       AfterControlPlane, AfterAddons, Broken
<1>6. FilesHeld'
    BY DEF IInv, TypeOK, FilesHeld, MarkFailed, Goto, Keep, progress
<1> QED BY <1>3, <1>4, <1>5, <1>6 DEF IInv

LEMMA KilledInv == ASSUME IInv, Killed PROVE IInv'
<1>1. at' \in Labels /\ kubeconfigs' \subseteq {"addons", "pivot"}
    BY LabelsListed DEF IInv, TypeOK, Killed, Raise, Goto
<1>2. TypeOK'
    BY <1>1 DEF IInv, TypeOK, Killed, Keep, progress
<1>3. RowShows'
    BY DEF IInv, TypeOK, RowShows, WorkDone, Killed, Goto, Keep, progress
<1>4. WorkDone'
    BY DEF IInv, TypeOK, WorkDone, Killed, Goto, Keep, progress, AfterHosts, AfterCluster,
       AfterControlPlane, AfterAddons, Broken
<1>5. FilesHeld'
    BY DEF IInv, TypeOK, FilesHeld, Killed, Goto, Keep, progress
<1> QED BY <1>2, <1>3, <1>4, <1>5 DEF IInv

LEMMA HostChangesInv ==
    ASSUME IInv, NEW x \in Hosts, NEW state \in HostStates, HostChanges(x, state)
    PROVE  IInv'
<1>1. at' \in Labels /\ kubeconfigs' \subseteq {"addons", "pivot"}
    BY LabelsListed DEF IInv, TypeOK, HostChanges, Raise, Goto
<1>2. TypeOK'
    BY <1>1 DEF IInv, TypeOK, HostChanges, Keep, progress
<1>3. RowShows'
    BY DEF IInv, TypeOK, RowShows, WorkDone, HostChanges, Goto, Keep, progress
<1>4. WorkDone'
    BY DEF IInv, TypeOK, WorkDone, HostChanges, Goto, Keep, progress, AfterHosts, AfterCluster,
       AfterControlPlane, AfterAddons, Broken
<1>5. FilesHeld'
    BY DEF IInv, TypeOK, FilesHeld, HostChanges, Goto, Keep, progress
<1> QED BY <1>2, <1>3, <1>4, <1>5 DEF IInv

LEMMA NextInv == ASSUME IInv, [Next]_vars PROVE IInv'
<1>1. CASE UNCHANGED vars
    BY <1>1 DEF IInv, TypeOK, RowShows, WorkDone, FilesHeld, vars, progress
<1>2. CASE Next
    BY <1>2, SetPhaseInv, HostsLoopInv, PollHostInv, RenderInv, EndRoundInv, ApplyClusterInv,
       StartWaitInv, PollControlPlaneInv, FetchForAddonsInv, InstallAddonInv, AddonsDoneInv,
       FetchForPivotInv, MoveInv, MarkFailedInv, KilledInv, HostChangesInv
       DEF Next, TaskStep
<1> QED BY <1>1, <1>2

LEMMA Invariance == Spec => []IInv
BY InitInv, NextInv, PTL DEF Spec

-----------------------------------------------------------------------------
(* The properties *)

\* The coroutine's variables keep their types.
THEOREM TypeCorrect == Spec => []TypeOK
<1>1. IInv => TypeOK
    BY DEF IInv
<1> QED BY <1>1, Invariance, PTL

\* A half-applied cluster, an addon that did not install or a split namespace
\* ends as failed, however many hosts and addons there are
\* (deployment_tasks.py:170-305).
THEOREM HalfDoneIsFailed == Spec => []PartialWorkIsFailure
<1>1. IInv => PartialWorkIsFailure
    BY DEF IInv, RowShows, WorkDone, PartialWorkIsFailure, AfterHosts, AfterCluster,
       AfterControlPlane, AfterAddons, Broken
<1> QED BY <1>1, Invariance, PTL

\* No temporary kubeconfig survives the task that wrote it, and the tools that
\* read one find it (deployment_tasks.py:226-260, pivot.py:80-115).
THEOREM KubeconfigsAreTemporary == Spec => []KubeconfigLifetime
<1>1. IInv => KubeconfigLifetime
    BY DEF IInv, TypeOK, FilesHeld, KubeconfigLifetime
<1> QED BY <1>1, Invariance, PTL

\* The management cluster is not touched before every host was seen ready
\* (deployment_tasks.py:122-205).
THEOREM HostsComeFirst == Spec => NothingAppliedEarly
<1>1. ASSUME IInv, [Next]_vars, applied' # applied
      PROVE  pending = {} /\ phase = "applying_cluster"
    <2>1. CASE ApplyCluster
        BY <1>1, <2>1 DEF IInv, RowShows, WorkDone, AfterHosts, ApplyCluster
    <2>2. CASE ~ApplyCluster
        BY <1>1, <2>2 DEF Next, TaskStep, SetPhase, Render, HostsLoop, EndRound, PollHost, StartWait,
           PollControlPlane, FetchForAddons, AddonsDone, InstallAddon, FetchForPivot, Move,
           MarkFailed, Killed, HostChanges, vars, progress
    <2> QED BY <2>1, <2>2
<1>2. IInv /\ [Next]_vars =>
        [applied' # applied => pending = {} /\ phase = "applying_cluster"]_vars
    BY <1>1
<1> QED BY <1>2, Invariance, PTL DEF Spec, NothingAppliedEarly

-----------------------------------------------------------------------------
(* The promise of DeploymentLifecycle *)

\* The gates the task has passed: what DeploymentLifecycle calls passed.
PassedGates == {g \in Needs : Passed(g)}

LEMMA InitLifecycle == Init => Lifecycle!Init
<1> SUFFICES ASSUME Init PROVE Lifecycle!Init
    OBVIOUS
<1>1. Needs \subseteq DOMAIN Lifecycle!GatePhase
    <2>1. DOMAIN Lifecycle!GatePhase = {"hosts", "cluster", "control_plane", "addons", "pivot"}
        BY DEF Lifecycle!GatePhase
    <2>2. Needs \subseteq {"hosts", "cluster", "control_plane", "addons", "pivot"}
        BY DEF Needs
    <2> QED BY <2>1, <2>2
<1>2. PassedGates = {}
    BY DEF Init, PassedGates, Needs, Passed
<1> QED BY <1>1, <1>2 DEF Init, Lifecycle!Init, PassedGates

\* The row and the gates of a step that touches neither look the same.
LEMMA Unnoticed ==
    ASSUME UNCHANGED <<spec, phase, pending, applied, ready, installed, moved>>
    PROVE  UNCHANGED <<Needs, phase, PassedGates>>
BY DEF Needs, PassedGates, Passed

LEMMA StepLifecycle ==
    ASSUME IInv, IInv', [Next]_vars
    PROVE  [Lifecycle!Next]_<<Needs, phase, PassedGates>>
<1>1. ASSUME UNCHANGED <<spec, phase, pending, applied, ready, installed, moved>>
      PROVE  [Lifecycle!Next]_<<Needs, phase, PassedGates>>
    BY <1>1, Unnoticed
<1>2. ASSUME NEW g \in {"hosts", "cluster", "control_plane", "addons", "pivot"},
             UNCHANGED <<spec, phase>>, phase = Lifecycle!GatePhase[g],
             \A f \in Needs \ {g} : Passed(f)' <=> Passed(f),
             Passed(g) => Passed(g)'
      PROVE  [Lifecycle!Next]_<<Needs, phase, PassedGates>>
    <2>1. UNCHANGED Needs
        BY <1>2 DEF Needs
    <2>2. CASE g \notin Needs \/ (Passed(g) <=> Passed(g)')
        <3>1. PassedGates' = PassedGates
            BY <1>2, <2>1, <2>2 DEF PassedGates
        <3> QED BY <1>2, <2>1, <3>1
    <2>3. CASE g \in Needs /\ ~Passed(g) /\ Passed(g)'
        <3>1. g \notin PassedGates /\ PassedGates' = PassedGates \cup {g}
            BY <1>2, <2>1, <2>3 DEF PassedGates
        <3>2. Lifecycle!Pass(g)
            BY <1>2, <2>1, <3>1 DEF Lifecycle!Pass, PassedGates
        <3> QED BY <2>3, <3>2 DEF Lifecycle!Next
    <2> QED BY <1>2, <2>2, <2>3
<1>3. ASSUME NEW write \in PhaseWrites, SetPhase(write)
      PROVE  [Lifecycle!Next]_<<Needs, phase, PassedGates>>
    <2>1. UNCHANGED <<spec, pending, applied, ready, installed, moved>>
        BY <1>3 DEF SetPhase, progress
    <2>2. CASE phase' = phase
        BY <1>1, <2>1, <2>2
    <2>3. CASE phase' = write[2] /\ phase' # phase
        <3>1. UNCHANGED <<Needs, PassedGates>>
            BY <2>1 DEF Needs, PassedGates, Passed
        <3>2. <<phase, phase'>> \in Lifecycle!PhaseSteps /\ phase' \in Lifecycle!Phases
            BY <1>3, <2>3 DEF IInv, RowShows, WorkDone, SetPhase, PhaseWrites,
               Lifecycle!PhaseSteps, Lifecycle!Phases
        <3>3. ASSUME NEW g \in Needs, Lifecycle!GatePhase[g] = phase PROVE g \in PassedGates
            <4>1. g \in {"hosts", "cluster", "control_plane", "addons", "pivot"}
                BY DEF Needs
            <4>2. Passed(g)
                BY <1>3, <2>3, <3>3, <4>1 DEF IInv, RowShows, WorkDone, SetPhase, PhaseWrites,
                   Passed, Lifecycle!GatePhase, AfterHosts, AfterCluster, AfterControlPlane,
                   AfterAddons, Broken
            <4> QED BY <4>2 DEF PassedGates
        <3>4. phase = "installing_addons" =>
                (phase' = "pivoting_to_target_cluster" <=> "pivot" \in Needs)
            <4>1. "pivot" \in Needs <=> spec.pivot
                BY DEF Needs
            <4> QED BY <1>3, <2>3, <4>1 DEF IInv, RowShows, WorkDone, SetPhase, PhaseWrites
        <3>5. Lifecycle!Advance(phase')
            BY <3>1, <3>2, <3>3, <3>4 DEF Lifecycle!Advance, PassedGates
        <3> QED BY <3>2, <3>5 DEF Lifecycle!Next
    <2> QED BY <1>3, <2>2, <2>3 DEF SetPhase
<1>4. ASSUME NEW x \in Hosts, PollHost(x)
      PROVE  [Lifecycle!Next]_<<Needs, phase, PassedGates>>
    <2>1. UNCHANGED <<spec, phase>> /\ phase = Lifecycle!GatePhase["hosts"]
        BY <1>4 DEF IInv, RowShows, PollHost, Keep, Lifecycle!GatePhase
    <2>2. \A f \in Needs \ {"hosts"} : Passed(f)' <=> Passed(f)
        BY <1>4 DEF PollHost, Keep, Passed, Needs
    <2>3. Passed("hosts") => Passed("hosts")'
        BY <1>4 DEF PollHost, Passed
    <2> QED BY <1>2, <2>1, <2>2, <2>3
<1>5. CASE ApplyCluster
    <2>1. UNCHANGED <<spec, phase>> /\ phase = Lifecycle!GatePhase["cluster"]
        BY <1>5 DEF IInv, RowShows, ApplyCluster, Keep, Lifecycle!GatePhase
    <2>2. \A f \in Needs \ {"cluster"} : Passed(f)' <=> Passed(f)
        BY <1>5 DEF ApplyCluster, Keep, Passed, Needs
    <2>3. Passed("cluster") => Passed("cluster")'
        BY <1>5 DEF IInv, WorkDone, ApplyCluster, Passed, AfterCluster, AfterControlPlane,
           AfterAddons, Broken
    <2> QED BY <1>2, <2>1, <2>2, <2>3
<1>6. CASE PollControlPlane
    <2>1. UNCHANGED <<spec, phase>> /\ phase = Lifecycle!GatePhase["control_plane"]
        BY <1>6 DEF IInv, RowShows, PollControlPlane, Keep, Lifecycle!GatePhase
    <2>2. \A f \in Needs \ {"control_plane"} : Passed(f)' <=> Passed(f)
        BY <1>6 DEF PollControlPlane, Keep, Passed, Needs
    <2>3. Passed("control_plane") => Passed("control_plane")'
        BY <1>6 DEF PollControlPlane, Passed
    <2> QED BY <1>2, <2>1, <2>2, <2>3
<1>7. ASSUME NEW x \in Addons, InstallAddon(x)
      PROVE  [Lifecycle!Next]_<<Needs, phase, PassedGates>>
    <2>1. UNCHANGED <<spec, phase>> /\ phase = Lifecycle!GatePhase["addons"]
        BY <1>7 DEF IInv, RowShows, InstallAddon, Keep, Lifecycle!GatePhase
    <2>2. \A f \in Needs \ {"addons"} : Passed(f)' <=> Passed(f)
        BY <1>7 DEF InstallAddon, Keep, Passed, Needs
    <2>3. installed' = installed \cup {x} \/ installed' = installed
        BY <1>7 DEF InstallAddon
    <2>4. installed' \subseteq spec.addons
        BY <2>1 DEF IInv, TypeOK
    <2>5. Passed("addons") => Passed("addons")'
        BY <2>1, <2>3, <2>4 DEF Passed
    <2> QED BY <1>2, <2>1, <2>2, <2>5
<1>8. CASE Move
    <2>1. UNCHANGED <<spec, phase>> /\ phase = Lifecycle!GatePhase["pivot"]
        BY <1>8 DEF IInv, RowShows, Move, Keep, Lifecycle!GatePhase
    <2>2. \A f \in Needs \ {"pivot"} : Passed(f)' <=> Passed(f)
        BY <1>8 DEF Move, Keep, Passed, Needs
    <2>3. Passed("pivot") => Passed("pivot")'
        BY <1>8 DEF IInv, WorkDone, Move, Passed, Broken
    <2> QED BY <1>2, <2>1, <2>2, <2>3
<1>9. CASE MarkFailed
    <2>1. UNCHANGED <<spec, pending, applied, ready, installed, moved>>
        BY <1>9 DEF MarkFailed, progress
    <2>2. CASE phase' = "failed"
        <3>1. UNCHANGED <<Needs, PassedGates>>
            BY <2>1 DEF Needs, PassedGates, Passed
        <3>2. phase \notin Lifecycle!Terminal
            BY <1>9 DEF IInv, RowShows, MarkFailed, Terminal, Lifecycle!Terminal
        <3> QED BY <2>2, <3>1, <3>2 DEF Lifecycle!Next, Lifecycle!Fail, PassedGates
    <2>3. CASE phase' = phase
        BY <1>1, <2>1, <2>3
    <2> QED BY <1>9, <2>2, <2>3 DEF MarkFailed
<1>10. CASE Render \/ HostsLoop \/ EndRound \/ StartWait \/ FetchForAddons \/ AddonsDone
            \/ FetchForPivot \/ Killed \/ UNCHANGED vars
    <2>1. UNCHANGED <<spec, phase, pending, applied, ready, installed, moved>>
        BY <1>10 DEF Render, HostsLoop, EndRound, StartWait, FetchForAddons, AddonsDone,
           FetchForPivot, Killed, vars, progress, Keep
    <2> QED BY <1>1, <2>1
<1>11. ASSUME NEW x \in Hosts, NEW state \in HostStates, HostChanges(x, state)
       PROVE  [Lifecycle!Next]_<<Needs, phase, PassedGates>>
    <2>1. UNCHANGED <<spec, phase, pending, applied, ready, installed, moved>>
        BY <1>11 DEF HostChanges, progress
    <2> QED BY <1>1, <2>1
<1> QED BY <1>3, <1>4, <1>5, <1>6, <1>7, <1>8, <1>9, <1>10, <1>11 DEF Next, TaskStep

\* Whoever watches the row sees the phases in order and "complete" only after
\* every gate the spec asks for was passed, with failing writes and crashes
\* (deployment_tasks.py:170-305).
THEOREM WatchersSeeTheLifecycle == Spec => ImplementsLifecycle
<1>1. IInv /\ IInv' /\ [Next]_vars => [Lifecycle!Next]_<<Needs, phase, PassedGates>>
    BY StepLifecycle
<1>2. [Lifecycle!Next]_<<Needs, phase, PassedGates>>
      => [Lifecycle!Next]_<<Needs, phase, {g \in Needs : Passed(g)}>>
    BY DEF PassedGates
<1> QED BY <1>1, <1>2, InitLifecycle, Invariance, PTL DEF Spec, ImplementsLifecycle, Lifecycle!Spec
-----------------------------------------------------------------------------
(* The task ends: what TaskEnds rests on. The effort that is left is, in this *)
(* order, the stages that lie ahead, the polls until the deadline, and what   *)
(* one round or the loop over the addons still has to do.                    *)

Stage ==
    CASE at = "accepted"           -> 20
      [] at = "render"             -> 19
      [] at = "rendered"           -> 18
      [] at = "bootstrapped"       -> 17
      [] at = "bmh_applied"        -> 16
      [] at \in {"wait_hosts", "poll"} -> 15
      [] at = "hosts_ready"        -> 14
      [] at = "apply"              -> 13
      [] at = "applied"            -> 12
      [] at = "start_wait"         -> 11
      [] at = "wait_control_plane" -> 10
      [] at = "running"            -> 9
      [] at = "fetch"              -> 8
      [] at \in {"install", "addon_tried"} -> 7
      [] at = "start_pivot"        -> 6
      [] at = "pivot_fetch"        -> 5
      [] at = "pivot"              -> 4
      [] at = "pivoted"            -> 3
      [] at = "finish"             -> 2
      [] at = "except"             -> 1
      [] OTHER                     -> 0

Turn ==
    CASE at = "poll"        -> Cardinality(round) + 1
      [] at = "wait_hosts"  -> IF pending = {} THEN 0 ELSE Cardinality(pending) + 2
      [] at = "install"     -> 2 * Cardinality(todo)
      [] at = "addon_tried" -> 2 * Cardinality(todo) + 1
      [] OTHER              -> 0

Effort == <<Stage, <<budget, Turn>>>>

Smaller == { ss \in Nat \X Nat : ss[1] < ss[2] }
LessEffort == LexPairOrdering(Smaller, LexPairOrdering(Smaller, Smaller, Nat, Nat),
                              Nat, Nat \X Nat)

LEMMA EffortsWellFounded == IsWellFoundedOn(LessEffort, Nat \X (Nat \X Nat))
<1>1. IsWellFoundedOn(Smaller, Nat)
  BY NatLessThanWellFounded DEF OpToRel, Smaller
<1>2. IsWellFoundedOn(LexPairOrdering(Smaller, Smaller, Nat, Nat), Nat \X Nat)
  BY <1>1, WFLexPairOrdering
<1> QED BY <1>1, <1>2, WFLexPairOrdering DEF LessEffort

EffortType ==
    /\ Stage \in Nat /\ budget \in Nat /\ Turn \in Nat
    /\ IsFiniteSet(round) /\ IsFiniteSet(pending) /\ IsFiniteSet(todo)

LEMMA EffortTyped == IInv => EffortType
<1> SUFFICES ASSUME IInv PROVE EffortType
  OBVIOUS
<1>1. budget \in Nat
  BY TaskConstants DEF IInv, TypeOK
<1>2. spec.hosts \subseteq Hosts /\ spec.addons \subseteq Addons
  BY DEF IInv, TypeOK
<1>3. round \subseteq Hosts /\ pending \subseteq Hosts /\ todo \subseteq Addons
  BY <1>2 DEF IInv, TypeOK
<1>4. IsFiniteSet(round) /\ IsFiniteSet(pending) /\ IsFiniteSet(todo)
  BY <1>3, TaskConstants, FS_Subset
<1>5. Cardinality(round) \in Nat /\ Cardinality(pending) \in Nat /\ Cardinality(todo) \in Nat
  BY <1>4, FS_CardinalityType
<1>6. Turn \in Nat
  BY <1>5 DEF Turn
<1>7. Stage \in Nat
  BY DEF Stage
<1> QED BY <1>1, <1>4, <1>6, <1>7 DEF EffortType

\* The three ways in which a step gets on.
Falls ==
    \/ Stage' < Stage
    \/ Stage' = Stage /\ budget' < budget
    \/ Stage' = Stage /\ budget' = budget /\ Turn' < Turn

LEMMA FallsIsLess ==
  ASSUME EffortType, EffortType', Falls
  PROVE  <<Effort', Effort>> \in LessEffort
BY DEF EffortType, Falls, Effort, LessEffort, LexPairOrdering, Smaller

\* A step to another stage, and an exception or a kill anywhere.
LEMMA AheadOfExcept ==
  ASSUME IInv, at \notin Ended \cup {"except"}
  PROVE  Stage > 1
BY LabelsListed DEF IInv, TypeOK, Ended, Stage

LEMMA RaiseFalls ==
  ASSUME IInv, at \notin Ended \cup {"except"}, at' \in {"except", "lost"}
  PROVE  Falls
<1>1. Stage' <= 1
  BY DEF Stage
<1> QED BY <1>1, AheadOfExcept DEF Falls, Stage

LEMMA SetPhaseFalls == ASSUME IInv, NEW write \in PhaseWrites, SetPhase(write) PROVE Falls
<1>1. CASE at' = write[3]
  <2>1. CASE at = "addon_tried"
    <3>1. write = <<"addon_tried", "installing_addons", "install">>
      <4>1. write[1] = "addon_tried"
        BY <2>1 DEF SetPhase
      <4> QED BY <4>1 DEF PhaseWrites
    <3>2. todo' = todo /\ budget' = budget
      BY DEF SetPhase, progress
    <3>3. Cardinality(todo) \in Nat
      BY EffortTyped, FS_CardinalityType DEF EffortType
    <3> QED BY <1>1, <2>1, <3>1, <3>2, <3>3 DEF Falls, Stage, Turn
  <2>2. CASE at # "addon_tried"
    BY <1>1, <2>2 DEF SetPhase, PhaseWrites, Falls, Stage
  <2> QED BY <2>1, <2>2
<1>2. CASE Raise
  BY <1>2, RaiseFalls DEF SetPhase, PhaseWrites, Raise, Goto, Ended
<1> QED BY <1>1, <1>2 DEF SetPhase, Goto

LEMMA HostsLoopFalls == ASSUME IInv, HostsLoop PROVE Falls
<1>1. CASE pending = {} /\ Goto("hosts_ready")
  BY <1>1 DEF HostsLoop, Goto, Falls, Stage
<1>2. CASE Raise
  BY <1>2, RaiseFalls DEF HostsLoop, Raise, Goto, Ended
<1>3. CASE pending # {} /\ Goto("poll") /\ round' = pending
  <2>1. Cardinality(pending) \in Nat
    BY EffortTyped, FS_CardinalityType DEF EffortType
  <2>2. Turn' = Cardinality(pending) + 1 /\ Turn = Cardinality(pending) + 2
    BY <1>3 DEF HostsLoop, Goto, Turn
  <2> QED BY <1>3, <2>1, <2>2 DEF HostsLoop, Goto, Falls, Stage
<1> QED BY <1>1, <1>2, <1>3 DEF HostsLoop

LEMMA PollHostFalls == ASSUME IInv, NEW x \in Hosts, PollHost(x) PROVE Falls
<1>1. CASE Raise
  BY <1>1, RaiseFalls DEF PollHost, Raise, Goto, Ended
<1>2. CASE at' = at
  <2>1. Cardinality(round \ {x}) = Cardinality(round) - 1
    BY EffortTyped, FS_RemoveElement DEF EffortType, PollHost
  <2>2. Cardinality(round) \in Nat
    BY EffortTyped, FS_CardinalityType DEF EffortType
  <2> QED BY <1>2, <2>1, <2>2 DEF PollHost, Falls, Stage, Turn
<1> QED BY <1>1, <1>2 DEF PollHost

LEMMA EndRoundFalls == ASSUME IInv, EndRound PROVE Falls
<1>1. CASE pending = {}
  <2>1. Cardinality(round) \in Nat
    BY EffortTyped, FS_CardinalityType DEF EffortType
  <2> QED BY <1>1, <2>1 DEF EndRound, Goto, progress, Falls, Stage, Turn
<1>2. CASE pending # {}
  BY <1>2, EffortTyped DEF EffortType, EndRound, Goto, Falls, Stage
<1> QED BY <1>1, <1>2

LEMMA PollControlPlaneFalls == ASSUME IInv, PollControlPlane PROVE Falls
<1>1. CASE Raise
  BY <1>1, RaiseFalls DEF PollControlPlane, Raise, Goto, Ended
<1>2. CASE ~Raise
  BY <1>2, EffortTyped DEF EffortType, PollControlPlane, Goto, Falls, Stage
<1> QED BY <1>1, <1>2

LEMMA InstallAddonFalls == ASSUME IInv, NEW x \in Addons, InstallAddon(x) PROVE Falls
<1>1. CASE Raise
  BY <1>1, RaiseFalls DEF InstallAddon, Raise, Goto, Ended
<1>2. CASE at' = "addon_tried"
  <2>1. Cardinality(todo \ {x}) = Cardinality(todo) - 1
    BY EffortTyped, FS_RemoveElement DEF EffortType, InstallAddon
  <2>2. Cardinality(todo) \in Nat
    BY EffortTyped, FS_CardinalityType DEF EffortType
  <2> QED BY <1>2, <2>1, <2>2 DEF InstallAddon, Falls, Stage, Turn
<1> QED BY <1>1, <1>2 DEF InstallAddon, Goto

LEMMA StageFallsElsewhere ==
  ASSUME IInv, \/ Render \/ ApplyCluster \/ StartWait \/ FetchForAddons \/ AddonsDone
               \/ FetchForPivot \/ Move \/ MarkFailed
  PROVE  Falls
BY DEF Render, ApplyCluster, StartWait, FetchForAddons, AddonsDone, FetchForPivot, Move,
       MarkFailed, Raise, Goto, Falls, Stage

LEMMA KilledFalls == ASSUME IInv, Killed PROVE Falls
<1>1. Stage' = 0
  BY DEF Killed, Goto, Stage
<1>2. Stage > 0
  BY LabelsListed DEF IInv, TypeOK, Killed, Ended, Stage
<1> QED BY <1>1, <1>2 DEF Falls

LEMMA StepFalls == ASSUME IInv, TaskStep \/ Killed PROVE Falls
BY SetPhaseFalls, HostsLoopFalls, PollHostFalls, EndRoundFalls, PollControlPlaneFalls,
   InstallAddonFalls, StageFallsElsewhere, KilledFalls DEF TaskStep

LEMMA WatchingCostsNothing ==
  ASSUME NEW x \in Hosts, NEW state \in HostStates, HostChanges(x, state)
  PROVE  Effort' = Effort
BY DEF HostChanges, progress, Effort, Stage, Turn

\* Every step of the task, and a kill, leaves less effort, in an order in which
\* nothing falls for ever; a host that changes state leaves it as it is. So a task
\* takes finitely many steps, whatever hosts, tools and database do in between:
\* no loop of _wait_for_bmh_ready, of the wait for the control plane or of the
\* addons goes round without getting on (deployment_tasks.py:134-166, 232-300).
THEOREM NoTaskRunsForever ==
  /\ IsWellFoundedOn(LessEffort, Nat \X (Nat \X Nat))
  /\ Spec => [][ \/ <<Effort', Effort>> \in LessEffort
                 \/ /\ Effort' = Effort
                    /\ \E x \in Hosts, state \in HostStates : HostChanges(x, state) ]_vars
<1>1. IInv /\ IInv' /\ Next =>
        \/ <<Effort', Effort>> \in LessEffort
        \/ /\ Effort' = Effort
           /\ \E x \in Hosts, state \in HostStates : HostChanges(x, state)
  <2>1. IInv' => EffortType'
    BY EffortTyped, PTL
  <2>2. ASSUME IInv, IInv', TaskStep \/ Killed PROVE <<Effort', Effort>> \in LessEffort
    BY <2>1, <2>2, EffortTyped, StepFalls, FallsIsLess
  <2> QED BY <2>2, WatchingCostsNothing DEF Next
<1> QED BY <1>1, EffortsWellFounded, Invariance, PTL DEF Spec
-----------------------------------------------------------------------------
(* The task as a worker of Provisioning, which sees the phase of its row and *)
(* whether a process runs it: one worker, one deployment, a cluster nobody   *)
(* deletes. A failing write of the except block is a lost task there, like a *)
(* killed process.                                                           *)

Row == [phase |-> phase, cluster |-> "cluster", tracked |-> FALSE]
Process == IF at \in Ended THEN [dep |-> "none", at |-> "queued"]
                           ELSE [dep |-> "deployment", at |-> phase]

View == INSTANCE Provisioning
        WITH Handlers <- {}, Clusters <- {"cluster"}, Metal3Clusters <- {},
             NameOf <- [c \in {"cluster"} |-> c], Assets <- {}, Pools <- {},
             Deployments <- {"deployment"}, Operations <- {}, MaxBatches <- 0, MaxRepeat <- 0,
             Aborts <- FALSE, None <- "none", Workers <- {"worker"}, MaxRedeliveries <- 0,
             Crashes <- Crashes \/ DbFails,
             clusters <- {"cluster"}, asset <- <<>>, assignments <- {}, minted <- {"deployment"},
             batch <- 0, session <- <<>>, redeliveries <- 0,
             queue <- [d \in {"deployment"} |-> 0],
             deployment <- [d \in {"deployment"} |-> Row],
             worker <- [w \in {"worker"} |-> Process]

Taken == Row.phase = "queued" /\ Process = [View!NoTask EXCEPT !.dep = "deployment"]

WorkerMoves == \/ \E p \in Phases : View!TaskPhase("worker", p)
               \/ View!TaskFail("worker")
               \/ View!TaskLost("worker")

\* The next phase is written.
LEMMA PhaseIsTaskPhase ==
  ASSUME at \notin Ended, phase \in Phases, <<phase, phase'>> \in PhaseSteps,
         phase' = "complete" <=> at' \in Ended
  PROVE  WorkerMoves
<1>1. phase' \in Phases
  BY DEF PhaseSteps, Phases
<1>2. phase # "absent"
  BY DEF Phases
<1>3. Process = [dep |-> "deployment", at |-> phase]
  BY DEF Process
<1>4. Process' = IF phase' = "complete" THEN View!NoTask ELSE [Process EXCEPT !.at = phase']
  BY <1>3 DEF Process, View!NoTask
<1>5. View!WritePhase("deployment", phase')
  BY <1>2 DEF View!WritePhase, Row
<1>6. View!Running("worker") /\ <<phase, phase'>> \in View!PhaseSteps
  BY <1>3 DEF View!Running, View!PhaseSteps, PhaseSteps
<1>7. View!TaskPhase("worker", phase')
  BY <1>3, <1>4, <1>5, <1>6 DEF View!TaskPhase
<1> QED BY <1>1, <1>7 DEF WorkerMoves

\* The except block writes "failed".
LEMMA FailureIsTaskFail ==
  ASSUME at \notin Ended, phase \in Phases, phase' = "failed", at' \in Ended
  PROVE  WorkerMoves
<1>1. phase # "absent"
  BY DEF Phases
<1>2. View!WritePhase("deployment", "failed")
  BY <1>1 DEF View!WritePhase, Row
<1>3. Process = [dep |-> "deployment", at |-> phase] /\ Process' = View!NoTask
  BY DEF Process, View!NoTask
<1>4. View!Running("worker")
  BY <1>3 DEF View!Running
<1> QED BY <1>2, <1>3, <1>4 DEF WorkerMoves, View!TaskFail

\* The task is gone and the row keeps its phase.
LEMMA LossIsTaskLost ==
  ASSUME at \notin Ended, phase' = phase, at' \in Ended, Crashes \/ DbFails
  PROVE  WorkerMoves
<1>1. Row' = Row /\ Process' = View!NoTask
  BY DEF Row, Process, View!NoTask
<1>2. View!Running("worker")
  BY DEF View!Running, Process
<1>3. View!inventoryVars' = View!inventoryVars
  BY <1>1 DEF View!inventoryVars
<1> QED BY <1>1, <1>2, <1>3 DEF WorkerMoves, View!TaskLost

\* Everything between two writes is unseen.
LEMMA UnseenBetweenWrites ==
  ASSUME phase' = phase, at' \in Ended <=> at \in Ended
  PROVE  UNCHANGED <<Row, Process>>
BY DEF Row, Process

\* A phase write goes one phase on, or repeats the phase it is in.
LEMMA WriteMovesOn ==
  ASSUME IInv, NEW write \in PhaseWrites, at = write[1], phase' = write[2], at' = write[3]
  PROVE  /\ at \notin Ended
         /\ phase' = "complete" <=> at' \in Ended
         /\ \/ <<phase, phase'>> \in PhaseSteps
            \/ phase' = phase /\ at' \notin Ended
<1> QED BY DEF IInv, RowShows, WorkDone, PhaseWrites, PhaseSteps, Ended

\* Every step of a task is a step of the worker process in Provisioning, or
\* nothing it sees; the task starts where TaskTake leaves the process. So what
\* Provisioning says of the API, the broker and its workers is said of workers
\* that run this coroutine (deployment_tasks.py:170-305).
THEOREM TaskIsAWorker == Spec => Taken /\ [][WorkerMoves]_<<Row, Process>>
<1>1. Init => Taken
  BY DEF Init, Taken, Row, Process, View!NoTask, Ended
<1>2. IInv /\ [Next]_vars => [WorkerMoves]_<<Row, Process>>
  <2> SUFFICES ASSUME IInv, [Next]_vars PROVE [WorkerMoves]_<<Row, Process>>
    OBVIOUS
  <2>1. phase \in Phases
    BY DEF IInv, TypeOK
  <2>2. ASSUME phase' = phase, at' \in Ended <=> at \in Ended PROVE [WorkerMoves]_<<Row, Process>>
    BY <2>2, UnseenBetweenWrites
  <2>3. ASSUME NEW write \in PhaseWrites, SetPhase(write) PROVE [WorkerMoves]_<<Row, Process>>
    <3>1. CASE phase' = write[2] /\ at' = write[3]
      <4>1. at = write[1]
        BY <2>3 DEF SetPhase
      <4> QED BY <2>1, <2>2, <3>1, <4>1, WriteMovesOn, PhaseIsTaskPhase
    <3>2. CASE phase' = phase /\ at' = "except" /\ at = write[1]
      <4>1. at \notin Ended /\ at' \notin Ended
        BY <3>2 DEF Ended, PhaseWrites
      <4> QED BY <2>2, <3>2, <4>1
    <3> QED BY <2>3, <3>1, <3>2 DEF SetPhase, Goto, Raise
  <2>4. CASE MarkFailed
    <3>1. at \notin Ended /\ at' \in Ended
      BY <2>4 DEF MarkFailed, Goto, Ended
    <3>2. CASE phase' = "failed"
      BY <2>1, <3>1, <3>2, FailureIsTaskFail
    <3>3. CASE DbFails /\ phase' = phase
      BY <3>1, <3>3, LossIsTaskLost
    <3> QED BY <2>4, <3>2, <3>3 DEF MarkFailed
  <2>5. CASE Killed
    <3>1. at \notin Ended /\ at' \in Ended /\ phase' = phase /\ Crashes
      BY <2>5 DEF Killed, Goto, Ended
    <3> QED BY <3>1, LossIsTaskLost
  <2>6. CASE UNCHANGED vars \/ \E x \in Hosts, state \in HostStates : HostChanges(x, state)
    BY <2>2, <2>6 DEF vars, HostChanges
  <2>7. CASE HostsLoop \/ EndRound \/ \E x \in Hosts : PollHost(x)
    BY <2>2, <2>7 DEF HostsLoop, EndRound, PollHost, Goto, Raise, Keep, Ended
  <2>8. CASE Render \/ ApplyCluster \/ StartWait \/ PollControlPlane
    BY <2>2, <2>8 DEF Render, ApplyCluster, StartWait, PollControlPlane, Goto, Raise, Keep, Ended
  <2>9. CASE FetchForAddons \/ AddonsDone \/ \E x \in Addons : InstallAddon(x)
    BY <2>2, <2>9 DEF FetchForAddons, AddonsDone, InstallAddon, Goto, Raise, Keep, Ended
  <2>10. CASE FetchForPivot \/ Move
    BY <2>2, <2>10 DEF FetchForPivot, Move, Goto, Raise, Keep, Ended
  <2> QED BY <2>3, <2>4, <2>5, <2>6, <2>7, <2>8, <2>9, <2>10 DEF Next, TaskStep
<1> QED BY <1>1, <1>2, InitInv, Invariance, PTL DEF Spec
=============================================================================
