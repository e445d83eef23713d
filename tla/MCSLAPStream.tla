---------------------------- MODULE MCSLAPStream ----------------------------
(* Instances of SLAPStream for model checking.                             *)
EXTENDS SLAPStream

\* The two ends support different windows and packet sizes.
MCWindow  == [e \in End |-> IF e = "A" THEN 2 ELSE 4]
MCPacket  == [e \in End |-> IF e = "A" THEN 3 ELSE 2]

MCPush1A   == [e \in End |-> IF e = "A" THEN 1 ELSE 0]
MCPush2A   == [e \in End |-> IF e = "A" THEN 2 ELSE 0]
MCPush3A   == [e \in End |-> IF e = "A" THEN 3 ELSE 0]
MCPushBoth == [e \in End |-> 1]

MCOpenOnce == [e \in End |-> 1]
MCReopenBoth == [e \in End |-> 2]
=============================================================================
