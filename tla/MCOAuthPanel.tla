----------------------------- MODULE MCOAuthPanel -----------------------------
(* Two agents and two accounts, with a few operations of one panel across   *)
(* changes of either.                                                       *)
EXTENDS OAuthPanel

CONSTANTS a, x

MCHome == <<a, x>>
=============================================================================
