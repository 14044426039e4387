----------------------------- MODULE MCEventHub -----------------------------
(* The hub for TLC: the snapshot reads the nodes, then the drones.         *)
EXTENDS EventHub
CONSTANTS nodes, drones
MCSnapshotReads == <<nodes, drones>>
=============================================================================
