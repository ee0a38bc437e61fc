------------------------- MODULE DeploymentLifecycle -------------------------
(***************************************************************************)
(* What a deployment promises whoever watches its phase: it walks the      *)
(* pipeline in order, leaves a phase only after that phase's gate was      *)
(* really passed, and so is complete only when every gate it needs was.    *)
(***************************************************************************)
EXTENDS DeploymentPhases

GatePhase == [hosts         |-> "waiting_for_hosts",
              cluster       |-> "applying_cluster",
              control_plane |-> "waiting_for_control_plane",
              addons        |-> "installing_addons",
              pivot         |-> "pivoting_to_target_cluster"]

VARIABLES
    required,  \* the gates this deployment has to pass
    phase,
    passed     \* those it has passed

Init ==
    /\ required \subseteq DOMAIN GatePhase
    /\ phase = "queued" /\ passed = {}

Pass(g) ==
    /\ phase = GatePhase[g]
    /\ g \notin passed
    /\ passed' = passed \cup {g}
    /\ UNCHANGED <<required, phase>>

Advance(next) ==
    /\ <<phase, next>> \in PhaseSteps
    /\ \A g \in required : GatePhase[g] = phase => g \in passed
    /\ phase = "installing_addons" =>
         (next = "pivoting_to_target_cluster" <=> "pivot" \in required)
    /\ phase' = next
    /\ UNCHANGED <<required, passed>>

Fail == phase \notin Terminal /\ phase' = "failed" /\ UNCHANGED <<required, passed>>

Next == Fail \/ (\E g \in required : Pass(g)) \/ (\E next \in Phases : Advance(next))

Spec == Init /\ [][Next]_<<required, phase, passed>>
=============================================================================
