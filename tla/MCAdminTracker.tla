--------------------------- MODULE MCAdminTracker ---------------------------
(* Two calls race over one remote and the local radio, with one session    *)
(* expiry of the remote.                                                   *)
EXTENDS AdminTracker
=============================================================================
