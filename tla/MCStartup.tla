---- MODULE MCStartup ----
(* A finite instance of Startup: two tables with every kind of column.       *)
EXTENDS Startup

Models == {
    [table |-> "hardware_assets", name |-> "bmc_username", nullable |-> TRUE, default |-> "none"],
    [table |-> "hardware_assets", name |-> "gpu_count", nullable |-> FALSE, default |-> "scalar"],
    [table |-> "hardware_assets", name |-> "status", nullable |-> FALSE, default |-> "enum"],
    [table |-> "clusters", name |-> "addon_status", nullable |-> FALSE, default |-> "callable"],
    [table |-> "clusters", name |-> "id", nullable |-> FALSE, default |-> "per row"] }
====
