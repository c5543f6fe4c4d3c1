------------------------------- MODULE MCGateway -------------------------------
(* Two servers and three launches: a first process, its replacement, and one *)
(* more after a failure.                                                     *)
EXTENDS Gateway
=============================================================================
