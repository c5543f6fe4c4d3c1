--------------------------- MODULE MCSandboxService ---------------------------
(* Three files, an edit of their sources between or during two builds, two  *)
(* starts of the service, and one edit of a policy.                         *)
EXTENDS SandboxService
=============================================================================
