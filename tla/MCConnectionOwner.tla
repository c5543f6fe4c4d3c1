-------------------------- MODULE MCConnectionOwner --------------------------
(* One tool call and one resource read through two lives of a connection.   *)
EXTENDS ConnectionOwner
=============================================================================
