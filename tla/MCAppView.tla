------------------------------ MODULE MCAppView ------------------------------
(* One part of a chat, opened twice, with a View that makes one tool call   *)
(* and breaks the protocol once, at any moment and in any of its ways.      *)
EXTENDS AppView
=============================================================================
