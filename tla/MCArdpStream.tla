---------------------------- MODULE MCArdpStream ----------------------------
(* Instances of ArdpStream for model checking.                             *)
EXTENDS ArdpStream

Inf(n) == [fcnt |-> n, ttl |-> "inf"]
Fin(n) == [fcnt |-> n, ttl |-> "fin"]

MCPlain  == <<Inf(1), Inf(2), Inf(1)>>
MCMixed  == <<Fin(2), Inf(1)>>
MCTtl    == <<Inf(1), Fin(2), Inf(1)>>
MCFill   == <<Fin(2), Fin(1), Inf(2)>>
=============================================================================
