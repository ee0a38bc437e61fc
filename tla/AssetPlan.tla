------------------------------ MODULE AssetPlan ------------------------------
(* What a deployment is made of: the inspection fills in the assets, the     *)
(* operator sets roles and assigns assets to the pools of one cluster, and   *)
(* the planner turns that into the bundle that is previewed and deployed     *)
(* (services/introspection.py, asset_planner.py, cloud_planner.py,           *)
(* yaml_generator.py, api/planner.py, api/deployments.py).                   *)
(*                                                                         *)
(* Requests come one at a time here: how their reads and commits interleave *)
(* is the subject of Inventory.                                             *)
EXTENDS CpuTopology, SequencesExt

CONSTANTS
    Assets,
    Machine,        \* Machine[a]: the server: [count, sockets, nics]
    Pools,
    Providers,      \* infrastructure_provider and os_flavor of the cluster
    Reservations,   \* values of reserved_cores_per_socket
    Declared,       \* values of control_plane_count at creation
    Entered,        \* topologies an operator may enter with POST /hardware-assets
    RoleChoices,    \* lists of NIC roles an operator may enter, or set with PATCH
    Overrides,      \* nic_role_overrides an operator may pass to assign
    MaxLinks,       \* bound: assignment rows
    None

HardwareProviders == {"metal3", "talos"}
NicRoles == {"control", "data", "storage", "sriov"}
NicLists == Seq(NicRoles \cup {"unassigned"})

ASSUME MachineConstants ==
    /\ MaxLinks \in Nat /\ Declared \subseteq Nat /\ Reservations \subseteq Nat
    /\ Entered \subseteq Topology
    /\ \A a \in Assets : /\ Machine[a].count \in Nat /\ Machine[a].nics \in Nat
                         /\ Machine[a].sockets \in Nat \ {0}

\* NicSpec admits the members of NicRole only; an override maps positions to roles.
ASSUME RoleConstants ==
    /\ RoleChoices \subseteq NicLists
    /\ \A o \in Overrides : DOMAIN o \subseteq Nat /\ Range(o) \subseteq NicRoles

VARIABLES
    provider,   \* of the cluster
    declared,   \* clusters.control_plane_count
    row,        \* the hardware_assets rows
    links,      \* the cluster's assignment rows, in the order SELECT gives
    plan,       \* the bundle rendered from the present rows, or None
    reused      \* history: the assigned assets that were put back while assigned,
                \* or named twice by the request that assigned them

vars == <<provider, declared, row, links, plan, reused>>

DefaultTopology == [sockets |-> 2, cores |-> 32, threads |-> 2]

\* Mutant: NICs come without a role.
FreshWithoutRole(a) == [i \in 1 .. Machine[a].nics |-> "none"]

Fresh(a) == [i \in 1 .. Machine[a].nics |-> "unassigned"]

Init ==
    /\ provider \in Providers
    /\ declared \in Declared
    /\ row \in [Assets -> { [free |-> TRUE, topology |-> t, source |-> "entered",
                             nics |-> n, bmc |-> b] :
                            t \in {DefaultTopology} \cup Entered,
                            n \in {<<>>} \cup RoleChoices, b \in BOOLEAN }]
    /\ links = <<>>
    /\ plan = None
    /\ reused = {}

-----------------------------------------------------------------------------
(* The inventory. "source" remembers where the topology of an asset is from. *)

\* The assigned assets among these.
Assigned(assets) == { a \in assets : \E i \in DOMAIN links : links[i].asset = a }

\* Every field a report has is overwritten, the roles of the NICs included, and
\* the asset is available whatever it was before.
Synced(a, report) ==
    [row[a] EXCEPT !.free = TRUE, !.topology = report.topology, !.nics = Fresh(a),
                   !.source = IF report.mixed THEN "mixed" ELSE "reported"]

(* POST /hardware-assets/{id}/sync-from-ironic, with the agent's inventory    *)
(* or without.                                                               *)
SyncFromIronic(a) ==
    /\ \E report \in Reports(Machine[a].count, Machine[a].sockets) :
          row' = [row EXCEPT ![a] = Synced(a, report)]
    /\ plan' = None
    /\ reused' = Assigned(reused \cup {a})
    /\ UNCHANGED <<provider, declared, links>>

(* PATCH /hardware-assets/{id}: the operator sets the list of NICs, the BMC  *)
(* or the status, each to any value.                                         *)
UpdateAsset(a) ==
    /\ \/ /\ \E roles \in RoleChoices : row' = [row EXCEPT ![a].nics = roles]
          /\ UNCHANGED reused
       \/ /\ \E b \in BOOLEAN : row' = [row EXCEPT ![a].bmc = b]
          /\ UNCHANGED reused
       \/ \E free \in BOOLEAN :
             /\ row' = [row EXCEPT ![a].free = free]
             /\ reused' = IF free THEN Assigned(reused \cup {a}) ELSE reused
    /\ plan' = None
    /\ UNCHANGED <<provider, declared, links>>

-----------------------------------------------------------------------------
(* Pools. *)

(* POST /pools/{pool}/assign: one row per asset id (an id that is named       *)
(* twice is found free twice), then the CPU figures of the answer are        *)
(* computed (an impossible reservation fails only there, after the commit).  *)
(* Nothing orders the SELECT: the new rows may be read back before older     *)
(* ones.                                                                     *)
AssignAssets(p, assets, role, reserved, override) ==
    LET new == [i \in DOMAIN assets |-> [pool |-> p, asset |-> assets[i], role |-> role,
                                         reserved |-> reserved, override |-> override]]
    IN  /\ provider \in HardwareProviders
        /\ \A i \in DOMAIN assets : row[assets[i]].free
        /\ Len(links) + Len(assets) <= MaxLinks
        /\ \E k \in 0 .. Len(links) :
              links' = SubSeq(links, 1, k) \o new \o SubSeq(links, k + 1, Len(links))
        /\ row' = [a \in Assets |-> [row[a] EXCEPT !.free = @ /\ a \notin Range(assets)]]
        /\ reused' = reused \cup { assets[i] : i \in { j \in DOMAIN assets :
                                    \E k \in DOMAIN assets \ {j} : assets[k] = assets[j] } }
        /\ plan' = None
        /\ UNCHANGED <<provider, declared>>

(* DELETE /pools/{pool}/assets/{id}: the first matching row.                  *)
UnassignAsset(p, a) ==
    LET matching == { i \in DOMAIN links : links[i].pool = p /\ links[i].asset = a }
    IN  /\ matching # {}
        /\ links' = RemoveAt(links, Min(matching))
        /\ row' = [row EXCEPT ![a].free = TRUE]
        /\ reused' = { x \in reused : \E i \in DOMAIN links' : links'[i].asset = x }
        /\ plan' = None
        /\ UNCHANGED <<provider, declared>>

-----------------------------------------------------------------------------
(* AssetPlannerService: a bundle from the rows. Members of a pool are named  *)
(* by the positions of their assignments.                                    *)

Members(p) == { i \in DOMAIN links : links[i].pool = p }
PoolsInUse == { links[i].pool : i \in DOMAIN links }

(* The role of a pool is the role of its first assignment.                   *)
ControlPlanePools == { p \in PoolsInUse : links[Min(Members(p))].role = "control-plane" }

\* Mutant: control plane pools fall through to the workers.
WorkerPoolsFallThrough == PoolsInUse

WorkerPools == PoolsInUse \ ControlPlanePools
ControlPlaneMembers == { i \in DOMAIN links : links[i].pool \in ControlPlanePools }

(* compute_cpu_config, for the first of the assets, which stands for all.    *)
Group(members) ==
    LET first == links[Min(members)]
    IN  [count |-> Cardinality(members), of |-> first.asset,
         reserved |-> ReservedCpus(row[first.asset].topology, first.reserved)]

WorkerGroups == [p \in WorkerPools |-> Group(Members(p))]

(* Without a control plane pool the cluster's own count stays.               *)
ControlPlane == IF ControlPlaneMembers = {} THEN [count |-> declared]
                ELSE Group(ControlPlaneMembers)

(* resolve_nic_roles: an override where it names the NIC; else the choice of  *)
(* whoever entered the roles; by position if nobody chose.                   *)
PositionalRole(i) == IF i <= 6 THEN <<"control", "data", "storage">>[(i + 1) \div 2]
                     ELSE "sriov"

Overridden(nics, override) ==
    [i \in DOMAIN nics |-> IF i \in DOMAIN override THEN override[i] ELSE nics[i]]

\* Mutant: positions fill the gaps of the choice.
ResolvedRolesFillsGaps(nics, override) ==
    IF DOMAIN override # {} THEN Overridden(nics, override)
    ELSE [i \in DOMAIN nics |-> IF nics[i] # "unassigned" THEN nics[i] ELSE PositionalRole(i)]

ResolvedRoles(nics, override) ==
    IF DOMAIN override # {} THEN Overridden(nics, override)
    ELSE IF \E i \in DOMAIN nics : nics[i] # "unassigned" THEN nics
    ELSE [i \in DOMAIN nics |-> PositionalRole(i)]

(* build_network_policy_spec: the members of each bond, and the SR-IOV NICs. *)
NicsByRole(nics, override) ==
    [r \in NicRoles |-> { i \in DOMAIN nics : ResolvedRoles(nics, override)[i] = r }]

\* generate_bundle passes no overrides, whatever the assignments have.
NetworkPolicy(a) == NicsByRole(row[a].nics, <<>>)

(* render_cluster_config.                                                    *)
Template == CASE provider = "metal3" -> "cluster-template"
              [] provider = "talos"  -> "talos-metal3"
              [] OTHER               -> provider

(* ValueErrors: a host without BMC or boot MAC, or a first asset with fewer  *)
(* cores than are reserved.                                                 *)
Renderable ==
    /\ \A i \in DOMAIN links : row[links[i].asset].bmc
    /\ \A members \in {ControlPlaneMembers} \cup { Members(p) : p \in WorkerPools } :
          LET first == links[Min(members)]
          IN  members # {} => Reservable(row[first.asset].topology, first.reserved)

(* generate_bundle; the order of the hosts, pool by pool, is left out.       *)
HardwareBundle ==
    [template |-> Template,
     hosts |-> [i \in DOMAIN links |-> links[i].asset],
     controlPlane |-> ControlPlane,
     workers |-> WorkerGroups,
     untainted |-> Cardinality(ControlPlaneMembers) = 1 /\ WorkerPools = {},
     networks |-> [a \in { links[i].asset : i \in DOMAIN links } |-> NetworkPolicy(a)]]

(* CloudPlannerService.build_cluster_spec: the cluster as it was declared,   *)
(* and no hosts to wait for.                                                *)
CloudBundle ==
    [template |-> Template, hosts |-> <<>>, controlPlane |-> [count |-> declared],
     workers |-> <<>>, untainted |-> FALSE, networks |-> <<>>]

Bundle == IF provider \in HardwareProviders THEN HardwareBundle ELSE CloudBundle
CanRender == provider \in HardwareProviders => links # <<>> /\ Renderable

(* POST /manifests/generate: 409 or 422, or the bundle.                       *)
GenerateManifests ==
    /\ CanRender
    /\ plan' = Bundle
    /\ UNCHANGED <<provider, declared, row, links, reused>>

\* Mutant: the count written back is that of all hosts.
StartDeploymentCountsHosts ==
    /\ CanRender
    /\ plan' = Bundle
    /\ declared' = Len(Bundle.hosts)
    /\ UNCHANGED <<provider, row, links, reused>>

(* POST /deployments renders again, and keeps the count it deploys with.      *)
StartDeployment ==
    /\ CanRender
    /\ plan' = Bundle
    /\ declared' = Bundle.controlPlane.count
    /\ UNCHANGED <<provider, row, links, reused>>

Batches == { <<a>> : a \in Assets } \cup (Assets \X Assets)

Next ==
    \/ \E a \in Assets : SyncFromIronic(a) \/ UpdateAsset(a)
    \/ \E p \in Pools, b \in Batches, role \in {"worker", "control-plane"},
          r \in Reservations, o \in {<<>>} \cup Overrides : AssignAssets(p, b, role, r, o)
    \/ \E p \in Pools, a \in Assets : UnassignAsset(p, a)
    \/ GenerateManifests
    \/ StartDeployment

Spec == Init /\ [][Next]_vars

-----------------------------------------------------------------------------
(* Properties. *)

TypeOK ==
    /\ provider \in Providers /\ declared \in Nat
    /\ row \in [Assets -> [free : BOOLEAN, topology : Topology, nics : NicLists, bmc : BOOLEAN,
                           source : {"entered", "reported", "mixed"}]]
    /\ links \in Seq([pool : Pools, asset : Assets, role : {"worker", "control-plane"},
                      reserved : Reservations, override : {<<>>} \cup Overrides])
    /\ Len(links) <= MaxLinks
    /\ reused \subseteq Assets

Planned == plan # None
Groups == Range(plan.workers) \cup
          IF "of" \in DOMAIN plan.controlPlane THEN {plan.controlPlane} ELSE {}

(* Every CPU that kubelet is told to reserve is a CPU of the topology the     *)
(* asset has, and, where an inspection gave it, of the machine; and what     *)
(* isolated_cpu_count announces is what the reservation leaves over. Of a    *)
(* machine whose inventory gives the sockets without a core count, no more   *)
(* is said: its topology mixes two sources and may exceed it.                *)
ReservedCpusExist ==
    Planned => \A g \in Groups :
        LET t == row[g.of].topology
        IN  /\ g.reserved \subseteq 0 .. LogicalCpus(t) - 1
            /\ row[g.of].source = "reported" =>
                  g.reserved \subseteq 0 .. Machine[g.of].count - 1
            /\ \E r \in Reservations :
                  /\ Cardinality(g.reserved) = ReservedCount(t, r)
                  /\ IsolatedCount(t, r) = Cardinality((0 .. LogicalCpus(t) - 1) \ g.reserved)

(* With a control plane pool, the machines of the manifests are as many as   *)
(* the servers the deployment prepares, so that it does not wait for         *)
(* machines that never appear; and only a node that is alone carries         *)
(* workloads too. An asset that a sync or a PATCH makes available while it   *)
(* is assigned, or that one request names twice, can be counted twice.       *)
ReplicasAreHosts ==
    Planned /\ "of" \in DOMAIN plan.controlPlane /\ Range(plan.hosts) \cap reused = {} =>
        LET replicas == UNION { {p} \X (1 .. plan.workers[p].count) : p \in DOMAIN plan.workers }
            servers == Cardinality(Range(plan.hosts))
        IN  /\ plan.controlPlane.count + Cardinality(replicas) = servers
            /\ plan.untainted <=> servers = 1

(* The NICs of every host that was assigned without overrides: what the      *)
(* operator chose is rendered and nothing else; if nobody chose, every NIC   *)
(* is used, two at most in a bond.                                           *)
NetworkFollowsRoles ==
    Planned => \A a \in DOMAIN plan.networks :
        LET net == plan.networks[a]
            chosen(r) == { i \in DOMAIN row[a].nics : row[a].nics[i] = r }
        IN  (\A i \in DOMAIN links : links[i].asset = a => links[i].override = <<>>) =>
                IF \A r \in NicRoles : chosen(r) = {}
                THEN /\ UNION Range(net) = DOMAIN row[a].nics
                     /\ \A r \in NicRoles \ {"sriov"} : Cardinality(net[r]) <= 2
                     /\ \A r, s \in NicRoles : r # s => net[r] \cap net[s] = {}
                ELSE \A r \in NicRoles : net[r] = chosen(r)

(* Rendering again, for the deployment or for a second one, gives the bundle *)
(* that was previewed unless something was changed in between, although the *)
(* deployment writes the cluster row ("exactly what was previewed here",     *)
(* asset_planner.py).                                                       *)
StableBundle == [][Planned /\ Planned' => plan' = plan]_vars

(* Control plane hardware drives the control plane's replicas, as            *)
(* build_control_plane_fields promises: "every assignment in a pool shares   *)
(* the same role".                                                          *)
ControlPlaneCounted ==
    Planned /\ "of" \in DOMAIN plan.controlPlane =>
        plan.controlPlane.count =
            Cardinality({ i \in DOMAIN links : links[i].role = "control-plane" })

(* The NIC roles an operator passes to assign are those of the host           *)
(* ("Optional manual overrides. If unset, roles are taken straight from      *)
(* HardwareAsset.nics", models/pool_assignment.py:35-39). They are stored    *)
(* and never rendered: false as soon as Overrides is not empty.              *)
OverridesRendered ==
    Planned => \A i \in DOMAIN links :
        LET a == links[i].asset
        IN  a \in DOMAIN plan.networks /\ links[i].override # <<>> =>
                plan.networks[a] = NicsByRole(row[a].nics, links[i].override)

(* No server is asked for twice ("machines that were never going to appear", *)
(* asset_planner.py:160-165): false once an assigned asset was put back.     *)
HostsAreDistinct == Planned => Cardinality(Range(plan.hosts)) = Len(plan.hosts)

=============================================================================
