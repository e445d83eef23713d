------------------------------ MODULE MCTimer ------------------------------
(* Instances of Timer for model checking.                                  *)
EXTENDS Timer

\* Alarm 1 is due at once, alarm 2 a tick later; each has its own listener.
MCWhen     == [a \in Alarms |-> IF a = 1 THEN 0 ELSE 1]
MCListener == [a \in Alarms |-> IF a = 2 THEN "l2" ELSE "l1"]

\* Periods: none, and one in which alarm 1 comes back.
MCOneShot  == [a \in Alarms |-> 0]
MCPeriodic == [a \in Alarms |-> IF a = 1 THEN 1 ELSE 0]
=============================================================================
