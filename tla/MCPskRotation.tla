---------------------------- MODULE MCPskRotation ----------------------------
(* One or two enrolled remotes and one recovery slot.                      *)
EXTENDS PskRotation

NodeSymmetry == Permutations(Nodes)
=============================================================================
