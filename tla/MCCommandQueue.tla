--------------------------- MODULE MCCommandQueue ---------------------------
(* Every kind of command, for one node or for all of them.                 *)
EXTENDS CommandQueue

MCIssued == {"DEVICE_SCAN_START", "PROBE_START", "PROBE_STOP", "STOP", "MODEL_SET", "RAW_BLE_OFF"}
=============================================================================
