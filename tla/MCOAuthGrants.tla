--------------------------- MODULE MCOAuthGrants ---------------------------
(* A handful of actors race for one slot.  MCOAuthGrantsConsent.cfg has two *)
(* consent attempts, of which one acknowledges an unknown outcome, against  *)
(* a refresh and a disconnect; MCOAuthGrantsRefresh.cfg has two refresh     *)
(* attempts against a consent attempt and a disconnect.                     *)
EXTENDS OAuthGrants
=============================================================================
