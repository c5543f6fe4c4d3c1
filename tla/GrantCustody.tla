---------------------------- MODULE GrantCustody ----------------------------
(***************************************************************************)
(* What one durable OAuth credential slot promises, with every custody      *)
(* operation a single step: who may move the slot from one phase to the     *)
(* next, that a token request is sent only under a durable intent and at    *)
(* most once for it, and that tokens are stored only by the worker whose    *)
(* claim the slot still carries.  OAuthGrants implements this with separate *)
(* reads, compare-and-set commits and acknowledging reads.                  *)
(***************************************************************************)
CONSTANTS
  Acquirer,       \* interactive authorization operations
  Refresher,      \* refresh attempts
  Acknowledging,  \* the acquirers whose request acknowledges an unknown outcome
  Nobody          \* no claim, no tokens

VARIABLES
  phase,     \* the state column of the slot, "absent" without a row
  holder,    \* the worker whose original claim the slot carries
  grantee,   \* the worker that obtained the stored access token
  intended,  \* workers that made an exchange or refresh intent durable
  posted     \* workers that sent their token request

vars == <<phase, holder, grantee, intended, posted>>

Worker == Acquirer \cup Refresher

Unknown == {"exchanging", "refreshing"}

\* A new consent attempt replaces anything but live tokens; an exchange of
\* unknown outcome only when its caller says so.
Authorize(a) ==
  /\ phase \in {"absent", "authorizing", "exchanging", "revoked"}
  /\ phase = "exchanging" => a \in Acknowledging
  /\ phase' = "authorizing"
  /\ holder' = a
  /\ grantee' = Nobody
  /\ UNCHANGED <<intended, posted>>

Exchange(a) ==
  /\ phase = "authorizing"
  /\ holder = a
  /\ a \notin intended
  /\ phase' = "exchanging"
  /\ intended' = intended \cup {a}
  /\ UNCHANGED <<holder, grantee, posted>>

Claim(r) ==
  /\ phase = "active"
  /\ r \notin intended
  /\ phase' = "refreshing"
  /\ holder' = r
  /\ intended' = intended \cup {r}
  /\ UNCHANGED <<grantee, posted>>

Post(w) ==
  /\ w \in intended \ posted
  /\ posted' = posted \cup {w}
  /\ UNCHANGED <<phase, holder, grantee, intended>>

Install(w) ==
  /\ phase \in Unknown
  /\ holder = w
  /\ w \in posted
  /\ phase' = "active"
  /\ holder' = Nobody
  /\ grantee' = w
  /\ UNCHANGED <<intended, posted>>

\* The authorization server refused the posted request of the claim's owner.
Reject(w) ==
  /\ phase \in Unknown
  /\ holder = w
  /\ w \in posted
  /\ phase' = "revoked"
  /\ holder' = Nobody
  /\ grantee' = Nobody
  /\ UNCHANGED <<intended, posted>>

\* The consent attempt is given up, or the user disconnects the grant.
Revoke ==
  /\ phase \notin {"absent", "revoked"}
  /\ phase' = "revoked"
  /\ holder' = Nobody
  /\ grantee' = Nobody
  /\ UNCHANGED <<intended, posted>>

Init ==
  /\ phase \in {"absent", "active"}
  /\ holder = Nobody
  /\ grantee \notin Worker
  /\ intended = {}
  /\ posted = {}

Next ==
  \/ \E a \in Acquirer : Authorize(a) \/ Exchange(a)
  \/ \E r \in Refresher : Claim(r)
  \/ \E w \in Worker : Post(w) \/ Install(w) \/ Reject(w)
  \/ Revoke

Spec == Init /\ [][Next]_vars
=============================================================================
