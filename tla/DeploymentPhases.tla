-------------------------- MODULE DeploymentPhases --------------------------
(***************************************************************************)
(* The phases of a Deployment row and the order in which the worker's      *)
(* coroutine _run_deployment writes them.                                  *)
(***************************************************************************)

\* DeploymentPhase, as the values the database and the API show.
Phases == {"queued", "generating_manifests", "bootstrapping_ephemeral_node",
           "applying_bmh", "waiting_for_hosts", "applying_cluster",
           "waiting_for_control_plane", "installing_addons",
           "pivoting_to_target_cluster", "complete", "failed"}

\* _TERMINAL_PHASES of the cluster API: no task is expected to work on the
\* deployment any more.
Terminal == {"complete", "failed"}

\* The phase writes of the try block, as <<before, after>>.  Only a spec with
\* pivot_to_self_hosting passes through pivoting_to_target_cluster.  A failure
\* is not listed: the except block reaches it from everywhere.
PhaseSteps ==
    {<<"queued", "generating_manifests">>,
     <<"generating_manifests", "bootstrapping_ephemeral_node">>,
     <<"bootstrapping_ephemeral_node", "applying_bmh">>,
     <<"applying_bmh", "waiting_for_hosts">>,
     <<"waiting_for_hosts", "applying_cluster">>,
     <<"applying_cluster", "waiting_for_control_plane">>,
     <<"waiting_for_control_plane", "installing_addons">>,
     <<"installing_addons", "pivoting_to_target_cluster">>,
     <<"installing_addons", "complete">>,
     <<"pivoting_to_target_cluster", "complete">>}
=============================================================================
