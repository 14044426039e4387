--------------------------- MODULE MCStatusReply ----------------------------
(* The registry and the broadcaster for TLC: the instance is in the cfg.   *)
EXTENDS StatusReply
=============================================================================
