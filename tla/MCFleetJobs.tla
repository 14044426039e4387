----------------------------- MODULE MCFleetJobs -----------------------------
(* Two callers that race for the recovery job of one node, and one direct  *)
(* enqueuer of rotation jobs.                                              *)
EXTENDS FleetJobs

MCDebouncedWork == {[kind |-> "recover_stranded", node |-> 1]}
MCDirectWork == {[kind |-> "rotate_phase_a", node |-> 0]}
=============================================================================
