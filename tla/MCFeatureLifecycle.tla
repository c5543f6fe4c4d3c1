-------------------------- MODULE MCFeatureLifecycle --------------------------
(* One server and one OAuth connection, a few calls of every kind.          *)
EXTENDS FeatureLifecycle

CONSTANTS server, grant

MCTarget == [p \in Opener \cup Unloader \cup Disconnector |->
               IF p \in Connector \cup Disconnector THEN grant ELSE server]
=============================================================================
