--------------------------- MODULE MCPortForward ---------------------------
(* Small instances of PortForward for TLC.                                 *)
EXTENDS PortForward

CONSTANTS r1, r2, h1

OneHost      == [r \in Rules |-> h1]
LocalRemote  == [r \in Rules |-> IF r = r1 THEN "local" ELSE "remote"]
LocalDynamic == [r \in Rules |-> IF r = r1 THEN "local" ELSE "dynamic"]
============================================================================
