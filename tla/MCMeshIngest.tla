---------------------------- MODULE MCMeshIngest ----------------------------
(* MeshIngest for TLC.  The first packet is a line of any form, with and   *)
(* without its optional part, or one of a few texts of two lines; the      *)
(* second is a plain text, which shares the filter and the cache with it.  *)
EXTENDS MeshIngest

Line(f, o, a) == [form |-> f, opt |-> o, arg |-> a]
Text == Line("text", FALSE, "")
Tamper == Line("tamper", FALSE, "")
OptForms == {"status", "target-mac-first", "ble-raw", "gps-lock", "node-hb", "i2c-scan"}

MCBodies ==
    <<{<<Line(f, TRUE, IF f = "ack" THEN "PROBE_ACK" ELSE "")>> : f \in AllForms}
          \cup {<<Line(f, FALSE, "")>> : f \in OptForms}
          \cup {<<Text, Tamper>>, <<Tamper, Text>>, <<Line("status", TRUE, ""), Tamper>>,
                <<Text, Line("ack", FALSE, "SCAN_ACK")>>},
      {<<Text>>}>>
=============================================================================
