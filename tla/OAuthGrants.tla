----------------------------- MODULE OAuthGrants -----------------------------
(***************************************************************************)
(* One durable credential slot (oauth_grants.py) and the workers that race  *)
(* for it, possibly from different processes on one database: interactive   *)
(* authorizations and their cancellers (oauth_acquisition.py), refresh      *)
(* attempts (oauth_refresh.py) and local disconnects (oauth_runtime.py).    *)
(*                                                                          *)
(* Every store operation is an awaited read that checks the caller's        *)
(* snapshot or claim, a compare-and-set in one transaction, and a reading   *)
(* back that acknowledges the commit.  Each is a step of its own, and a     *)
(* worker may fail between any two of them (Fail): an error, a lost         *)
(* acknowledgement, a cancelled task, a dead process.                       *)
(*                                                                          *)
(* Revisions are random and never recur; the model numbers them.  A claim   *)
(* hash stands for the worker that drew the secret, a token for the worker  *)
(* that obtained it.  Binding contents, encryption and the reason column    *)
(* are left out.                                                            *)
(***************************************************************************)
EXTENDS Naturals

CONSTANTS
  Acquirer,       \* AuthorizationOperation objects
  Refresher,      \* OAuthRefresher objects
  Disconnector,   \* calls of OAuthRuntime.disconnect
  Acknowledging,  \* acquirers whose request has acknowledge_unknown
  Nobody,         \* NULL claim_hash, no token
  Seed            \* obtained the tokens an earlier process left active

Worker == Acquirer \cup Refresher
Actor == Worker \cup Disconnector

ASSUME ActorsAssumption ==
  /\ Acquirer \cap Refresher = {}
  /\ Disconnector \cap Worker = {}
  /\ Acknowledging \subseteq Acquirer
  /\ Nobody \notin Actor
  /\ Seed \notin Actor
  /\ Nobody # Seed

VARIABLES
  slot,        \* the row of mcp_oauth_credential_slots
  pc,          \* where each actor is
  seen,        \* state and revision of the snapshot or claim it holds
  token,       \* refresh token a refresher read and will send
  receipt,     \* refresh token in the response a worker received
  intent,      \* revision of an acquirer's authorizing claim, 0 without one
  withdrawn,   \* AuthorizationOperation._withdrawn
  canceller,   \* where the storage.abandon call of an acquirer is
  intended,    \* history: workers with a committed exchange or refresh intent
  posted,      \* history: workers whose token request was sent
  settled,     \* history: workers whose token response was committed
  overridden,  \* history: workers whose unknown outcome a user gave up
  disowned     \* history: workers under way when a disconnect committed

vars == <<slot, pc, seen, token, receipt, intent, withdrawn, canceller,
          intended, posted, settled, overridden, disowned>>

history == <<intended, posted, settled, overridden, disowned>>
cancelling == <<intent, withdrawn, canceller>>

Claimed == {"authorizing", "exchanging", "refreshing"}
Holding == {"active", "refreshing"}
Unknown == {"exchanging", "refreshing"}
State == {"absent", "authorizing", "exchanging", "active", "refreshing", "revoked"}

Phase == {"idle", "discovering", "intending", "intended", "consent", "exchanging",
          "exchanged", "holding", "verified", "claiming", "claimed",
          "licensed", "posted", "receipt", "denied", "completing", "rejecting",
          "committed", "done", "failed"}

Snapshot == [state: State, revision: Nat]

Row == [state: State, revision: Nat, claim: Worker \cup {Nobody},
        access: Worker \cup {Seed, Nobody}, refresh: Worker \cup {Seed, Nobody}]

\* The CHECK constraints of the table, which _read_slot verifies again.
WellFormed(row) ==
  /\ row.state \in Claimed <=> row.claim # Nobody
  /\ row.state \in Holding <=> row.access # Nobody
  /\ row.access = Nobody => row.refresh = Nobody

\* Rows stay readable: the columns fit the CHECK constraints of the table and
\* no actor holds a revision the slot never had.
TypeOK ==
  /\ slot \in Row
  /\ WellFormed(slot)
  /\ pc \in [Actor -> Phase]
  /\ seen \in [Actor -> Snapshot]
  /\ \A x \in Actor : seen[x].revision <= slot.revision
  /\ token \in [Refresher -> Worker \cup {Seed, Nobody}]
  /\ receipt \in [Worker -> Worker \cup {Nobody}]
  /\ intent \in [Acquirer -> Nat]
  /\ withdrawn \in [Acquirer -> BOOLEAN]
  /\ canceller \in [Acquirer -> {"idle", "reading", "abandoning", "done"}]
  /\ intended \subseteq Worker
  /\ posted \subseteq Worker
  /\ settled \subseteq Worker
  /\ overridden \subseteq Worker
  /\ disowned \subseteq Worker

NoSnapshot == [state |-> "absent", revision |-> 0]
EmptyRow == [state |-> "absent", revision |-> 0, claim |-> Nobody,
             access |-> Nobody, refresh |-> Nobody]
SeedRow == [state |-> "active", revision |-> 1, claim |-> Nobody,
            access |-> Seed, refresh |-> Seed]

Init ==
  /\ slot \in {EmptyRow, SeedRow}
  /\ pc = [x \in Actor |-> "idle"]
  /\ seen = [x \in Actor |-> NoSnapshot]
  /\ token = [r \in Refresher |-> Nobody]
  /\ receipt = [w \in Worker |-> Nobody]
  /\ intent = [a \in Acquirer |-> 0]
  /\ withdrawn = [a \in Acquirer |-> FALSE]
  /\ canceller = [a \in Acquirer |-> "idle"]
  /\ intended = {}
  /\ posted = {}
  /\ settled = {}
  /\ overridden = {}
  /\ disowned = {}
-----------------------------------------------------------------------------
(* The store: reads, compare-and-set, acknowledgement.                     *)

Read == [state |-> slot.state, revision |-> slot.revision]

\* The snapshot or claim x holds is still the row.  _read_slot and the WHERE
\* clause of _replace compare the same columns.
Current(x) == seen[x] = Read

\* The claim_hash of the row is the one of w's secret.
HoldsSecret(w) == slot.claim = w

\* _replace writes a row with a fresh revision.
Replace(state, claim, access, refresh) ==
  slot' = [state |-> state, revision |-> slot.revision + 1, claim |-> claim,
           access |-> access, refresh |-> refresh]

Goto(x, phase) == pc' = [pc EXCEPT ![x] = phase]

\* The worker keeps the revision it wrote, as the claim of its next operation.
Wrote(w, state) ==
  seen' = [seen EXCEPT ![w] = [state |-> state, revision |-> slot.revision + 1]]

\* A worker's claim that may have an unanswered token request is given up.
Abandoned == IF slot.state \in Unknown THEN {slot.claim} ELSE {}
-----------------------------------------------------------------------------
(* Interactive authorization.                                              *)

\* OAuthRuntime.begin reads the expected row, then starts the native worker.
Begin(a) ==
  /\ pc[a] = "idle"
  /\ seen' = [seen EXCEPT ![a] = Read]
  /\ Goto(a, "discovering")
  /\ UNCHANGED <<slot, token, receipt, cancelling, history>>

\* Refuses an unasked replacement of an exchange nobody knows the outcome of...
BeginAuthorizationUnasked(a) ==
  /\ pc[a] = "discovering"
  /\ ~withdrawn[a]
  /\ seen[a].state \notin Holding
  /\ Goto(a, "intending")
  /\ UNCHANGED <<slot, seen, token, receipt, cancelling, history>>

\* ... and any replacement of live tokens.
BeginAuthorization(a) ==
  /\ pc[a] = "discovering"
  /\ ~withdrawn[a]
  /\ seen[a].state \notin Holding
  /\ seen[a].state = "exchanging" => a \in Acknowledging
  /\ Goto(a, "intending")
  /\ UNCHANGED <<slot, seen, token, receipt, cancelling, history>>

CommitAuthorization(a) ==
  /\ pc[a] = "intending"
  /\ Current(a)
  /\ Replace("authorizing", a, Nobody, Nobody)
  /\ Wrote(a, "authorizing")
  /\ overridden' = overridden \cup (IF a \in Acknowledging THEN Abandoned ELSE {})
  /\ Goto(a, "intended")
  /\ UNCHANGED <<token, receipt, cancelling, intended, posted, settled, disowned>>

\* The reading back returns the claim, and the redirect is shown to the user.
AcknowledgeAuthorization(a) ==
  /\ pc[a] = "intended"
  /\ ~withdrawn[a]
  /\ Current(a)
  /\ HoldsSecret(a)
  /\ intent' = [intent EXCEPT ![a] = seen[a].revision]
  /\ Goto(a, "consent")
  /\ UNCHANGED <<slot, seen, token, receipt, withdrawn, canceller, history>>

\* The callback arrived; the hook of the code request reads its claim first.
BeginExchange(a) ==
  /\ pc[a] = "consent"
  /\ ~withdrawn[a]
  /\ Current(a)
  /\ HoldsSecret(a)
  /\ Goto(a, "exchanging")
  /\ UNCHANGED <<slot, seen, token, receipt, cancelling, history>>

\* Sends the code without waiting for the durable intent.
ExchangeUndurable(a) ==
  /\ pc[a] = "exchanging"
  /\ Goto(a, "licensed")
  /\ UNCHANGED <<slot, seen, token, receipt, cancelling, history>>

CommitExchange(a) ==
  /\ pc[a] = "exchanging"
  /\ Current(a)
  /\ HoldsSecret(a)
  /\ Replace("exchanging", a, Nobody, Nobody)
  /\ Wrote(a, "exchanging")
  /\ intended' = intended \cup {a}
  /\ Goto(a, "exchanged")
  /\ UNCHANGED <<token, receipt, cancelling, posted, settled, overridden, disowned>>

AcknowledgeExchange(a) ==
  /\ pc[a] = "exchanged"
  /\ ~withdrawn[a]
  /\ Current(a)
  /\ HoldsSecret(a)
  /\ intent' = [intent EXCEPT ![a] = 0]
  /\ Goto(a, "licensed")
  /\ UNCHANGED <<slot, seen, token, receipt, withdrawn, canceller, history>>

\* complete_authorization or reject_exchange reads the exchanging claim.
ReadExchangeClaim(a) ==
  /\ pc[a] \in {"receipt", "denied"}
  /\ ~withdrawn[a]
  /\ Current(a)
  /\ HoldsSecret(a)
  /\ Goto(a, IF pc[a] = "receipt" THEN "completing" ELSE "rejecting")
  /\ UNCHANGED <<slot, seen, token, receipt, cancelling, history>>

\* The WHERE clause names only the slot.
CompleteUnconditionally(a) ==
  /\ pc[a] = "completing"
  /\ Replace("active", Nobody, a, receipt[a])
  /\ settled' = settled \cup {a}
  /\ Goto(a, "committed")
  /\ Wrote(a, "active")
  /\ UNCHANGED <<token, receipt, cancelling, intended, posted, overridden, disowned>>

CompleteAuthorization(a) ==
  /\ pc[a] = "completing"
  /\ Current(a)
  /\ HoldsSecret(a)
  /\ Replace("active", Nobody, a, receipt[a])
  /\ Wrote(a, "active")
  /\ settled' = settled \cup {a}
  /\ Goto(a, "committed")
  /\ UNCHANGED <<token, receipt, cancelling, intended, posted, overridden, disowned>>

\* After the rejection is durable the operation raises in any case.
RejectExchange(a) ==
  /\ pc[a] = "rejecting"
  /\ Current(a)
  /\ HoldsSecret(a)
  /\ Replace("revoked", Nobody, Nobody, Nobody)
  /\ settled' = settled \cup {a}
  /\ Goto(a, "failed")
  /\ UNCHANGED <<seen, token, receipt, cancelling, intended, posted, overridden, disowned>>
-----------------------------------------------------------------------------
(* Cancelling an authorization: withdraw, then abandon the consent attempt, *)
(* while the cancelled worker may still have a commit in flight.            *)

\* withdraw() alone is what closing the feature does; cancel() goes on to
\* storage.abandon when it holds an acknowledged authorizing claim.
Withdraw(a) ==
  /\ pc[a] # "idle"
  /\ ~withdrawn[a]
  /\ withdrawn' = [withdrawn EXCEPT ![a] = TRUE]
  /\ UNCHANGED <<slot, pc, seen, token, receipt, intent, canceller, history>>

Cancel(a) ==
  /\ pc[a] # "idle"
  /\ canceller[a] = "idle"
  /\ withdrawn' = [withdrawn EXCEPT ![a] = TRUE]
  /\ canceller' = [canceller EXCEPT ![a] = IF intent[a] = 0 THEN "done" ELSE "reading"]
  /\ UNCHANGED <<slot, pc, seen, token, receipt, intent, history>>

\* A later revision, or a later state, no longer belongs to this operation.
ReadAbandon(a) ==
  /\ canceller[a] = "reading"
  /\ canceller' = [canceller EXCEPT ![a] =
       IF Read = [state |-> "authorizing", revision |-> intent[a]]
       THEN "abandoning" ELSE "done"]
  /\ UNCHANGED <<slot, pc, seen, token, receipt, intent, withdrawn, history>>

\* Revokes whatever the slot has become since the read.
AbandonAnything(a) ==
  /\ canceller[a] = "abandoning"
  /\ slot.state \notin {"absent", "revoked"}
  /\ Replace("revoked", Nobody, Nobody, Nobody)
  /\ canceller' = [canceller EXCEPT ![a] = "done"]
  /\ UNCHANGED <<pc, seen, token, receipt, intent, withdrawn, history>>

AbandonAuthorization(a) ==
  /\ canceller[a] = "abandoning"
  /\ Read = [state |-> "authorizing", revision |-> intent[a]]
  /\ HoldsSecret(a)
  /\ Replace("revoked", Nobody, Nobody, Nobody)
  /\ canceller' = [canceller EXCEPT ![a] = "done"]
  /\ UNCHANGED <<pc, seen, token, receipt, intent, withdrawn, history>>

\* A failed read or commit leaves the cleanup retryable.
AbandonFails(a) ==
  /\ canceller[a] \in {"reading", "abandoning"}
  /\ canceller' = [canceller EXCEPT ![a] = "idle"]
  /\ UNCHANGED <<slot, pc, seen, token, receipt, intent, withdrawn, history>>
-----------------------------------------------------------------------------
(* Refresh.                                                                *)

\* OAuthRuntime.connect reads the row before it waits for the connection lock.
ReadGrant(r) ==
  /\ pc[r] = "idle"
  /\ slot.state = "active"
  /\ seen' = [seen EXCEPT ![r] = Read]
  /\ Goto(r, "holding")
  /\ UNCHANGED <<slot, token, receipt, cancelling, history>>

\* read_tokens decrypts the tokens of the snapshot's own revision.
ReadTokens(r) ==
  /\ pc[r] = "holding"
  /\ Current(r)
  /\ slot.refresh # Nobody
  /\ token' = [token EXCEPT ![r] = slot.refresh]
  /\ Goto(r, "verified")
  /\ UNCHANGED <<slot, seen, receipt, cancelling, history>>

\* The metadata was fetched again; begin_refresh rereads the tokens.
BeginRefresh(r) ==
  /\ pc[r] = "verified"
  /\ Current(r)
  /\ Goto(r, "claiming")
  /\ UNCHANGED <<slot, seen, token, receipt, cancelling, history>>

\* The claim replaces any row that holds tokens.
CommitAnyRefresh(r) ==
  /\ pc[r] = "claiming"
  /\ slot.state \in Holding
  /\ Replace("refreshing", r, slot.access, slot.refresh)
  /\ Wrote(r, "refreshing")
  /\ intended' = intended \cup {r}
  /\ Goto(r, "claimed")
  /\ UNCHANGED <<token, receipt, cancelling, posted, settled, overridden, disowned>>

CommitRefresh(r) ==
  /\ pc[r] = "claiming"
  /\ Current(r)
  /\ Replace("refreshing", r, slot.access, slot.refresh)
  /\ Wrote(r, "refreshing")
  /\ intended' = intended \cup {r}
  /\ Goto(r, "claimed")
  /\ UNCHANGED <<token, receipt, cancelling, posted, settled, overridden, disowned>>

AcknowledgeRefresh(r) ==
  /\ pc[r] = "claimed"
  /\ Current(r)
  /\ HoldsSecret(r)
  /\ Goto(r, "licensed")
  /\ UNCHANGED <<slot, seen, token, receipt, cancelling, history>>

\* finish_refresh or reject_refresh reads the refreshing claim.
ReadRefreshClaim(r) ==
  /\ pc[r] \in {"receipt", "denied"}
  /\ Current(r)
  /\ HoldsSecret(r)
  /\ Goto(r, IF pc[r] = "receipt" THEN "completing" ELSE "rejecting")
  /\ UNCHANGED <<slot, seen, token, receipt, cancelling, history>>

\* A response without a new refresh token keeps the original one.
FinishRefresh(r) ==
  /\ pc[r] = "completing"
  /\ Current(r)
  /\ HoldsSecret(r)
  /\ Replace("active", Nobody, r, IF receipt[r] = Nobody THEN slot.refresh ELSE receipt[r])
  /\ Wrote(r, "active")
  /\ settled' = settled \cup {r}
  /\ Goto(r, "committed")
  /\ UNCHANGED <<token, receipt, cancelling, intended, posted, overridden, disowned>>

RejectRefresh(r) ==
  /\ pc[r] = "rejecting"
  /\ Current(r)
  /\ HoldsSecret(r)
  /\ Replace("revoked", Nobody, Nobody, Nobody)
  /\ settled' = settled \cup {r}
  /\ Goto(r, "failed")
  /\ UNCHANGED <<seen, token, receipt, cancelling, intended, posted, overridden, disowned>>
-----------------------------------------------------------------------------
(* The token request.  The authorization server answers at most once; an    *)
(* answer that is lost, late or malformed is the worker's Fail.             *)

PostToken(w) ==
  /\ pc[w] = "licensed"
  /\ w \in Acquirer => ~withdrawn[w]
  /\ posted' = posted \cup {w}
  /\ Goto(w, "posted")
  /\ UNCHANGED <<slot, seen, token, receipt, cancelling, intended, settled, overridden, disowned>>

\* External: tokens are issued, with or without a new refresh token.
ServerIssues(w) ==
  /\ pc[w] = "posted"
  /\ \E fresh \in {w, Nobody} : receipt' = [receipt EXCEPT ![w] = fresh]
  /\ Goto(w, "receipt")
  /\ UNCHANGED <<slot, seen, token, cancelling, history>>

\* 400 or 401 with an error document is a definite refusal.
ServerDenies(w) ==
  /\ pc[w] = "posted"
  /\ Goto(w, "denied")
  /\ UNCHANGED <<slot, seen, token, receipt, cancelling, history>>
-----------------------------------------------------------------------------
(* Local disconnect.                                                       *)

\* The snapshot is read before the connection lock is awaited.
ReadDisconnect(d) ==
  /\ pc[d] = "idle"
  /\ slot.state # "absent"
  /\ seen' = [seen EXCEPT ![d] = Read]
  /\ Goto(d, "holding")
  /\ UNCHANGED <<slot, token, receipt, cancelling, history>>

\* A tombstone is confirmed by one more read, never rewritten.
ConfirmTombstone(d) ==
  /\ pc[d] = "holding"
  /\ seen[d].state = "revoked"
  /\ Current(d)
  /\ Goto(d, "done")
  /\ UNCHANGED <<slot, seen, token, receipt, cancelling, history>>

RevokeLocal(d) ==
  /\ pc[d] = "holding"
  /\ seen[d].state # "revoked"
  /\ Current(d)
  /\ Replace("revoked", Nobody, Nobody, Nobody)
  /\ Wrote(d, "revoked")
  /\ overridden' = overridden \cup Abandoned
  /\ disowned' = disowned \cup {w \in Worker : pc[w] # "idle"}
  /\ Goto(d, "committed")
  /\ UNCHANGED <<token, receipt, cancelling, intended, posted, settled>>
-----------------------------------------------------------------------------
\* The reading back after the last commit of an operation.
Acknowledge(x) ==
  /\ pc[x] = "committed"
  /\ Current(x)
  /\ x \in Acquirer => ~withdrawn[x]
  /\ Goto(x, "done")
  /\ UNCHANGED <<slot, seen, token, receipt, cancelling, history>>

\* A refused check, a lost row, a failed call or acknowledgement, a cancelled
\* task or a dead process ends the actor; none of them is retried.
Fail(x) ==
  /\ pc[x] \notin {"idle", "done", "failed"}
  /\ Goto(x, "failed")
  /\ seen' = [seen EXCEPT ![x] = NoSnapshot]
  /\ receipt' = [w \in Worker |-> IF w = x THEN Nobody ELSE receipt[w]]
  /\ UNCHANGED <<slot, token, cancelling, history>>

AcquirerNext(a) ==
  \/ Begin(a) \/ BeginAuthorization(a) \/ CommitAuthorization(a)
  \/ AcknowledgeAuthorization(a) \/ BeginExchange(a) \/ CommitExchange(a)
  \/ AcknowledgeExchange(a) \/ ReadExchangeClaim(a) \/ CompleteAuthorization(a)
  \/ RejectExchange(a) \/ Withdraw(a) \/ Cancel(a) \/ ReadAbandon(a)
  \/ AbandonAuthorization(a) \/ AbandonFails(a)

RefresherNext(r) ==
  \/ ReadGrant(r) \/ ReadTokens(r) \/ BeginRefresh(r) \/ CommitRefresh(r)
  \/ AcknowledgeRefresh(r) \/ ReadRefreshClaim(r) \/ FinishRefresh(r) \/ RejectRefresh(r)

Next ==
  \/ \E a \in Acquirer : AcquirerNext(a)
  \/ \E r \in Refresher : RefresherNext(r)
  \/ \E w \in Worker : PostToken(w) \/ ServerIssues(w) \/ ServerDenies(w)
  \/ \E d \in Disconnector : ReadDisconnect(d) \/ ConfirmTombstone(d) \/ RevokeLocal(d)
  \/ \E x \in Actor : Acknowledge(x) \/ Fail(x)

Spec == Init /\ [][Next]_vars
-----------------------------------------------------------------------------
\* A token request whose answer was not committed leaves its claim readable in
\* the slot, so that every process reports an unknown outcome, until a user
\* disconnects or acknowledges it.  No crash, cancellation or race of the
\* store's operations (_replace, begin_authorization) may hide it.
UnknownOutcomeVisible ==
  \A w \in posted \ settled :
    \/ slot.state \in Unknown /\ slot.claim = w
    \/ w \in overridden

\* A refresh token is never sent again while an earlier request with it has no
\* committed answer: the first may have been redeemed and rotated, and a replay
\* makes the server revoke the family (begin_refresh, RefreshPolicy.request).
NoRefreshReplay ==
  \A r, s \in (posted \ settled) \cap Refresher : r # s => token[r] # token[s]

\* Tokens obtained by an operation that was under way when a disconnect
\* committed never become the stored grant: a late answer of complete_authorization
\* or finish_refresh loses against revoke_local.
DisconnectIsFinal == slot.access \notin disowned

\* Stored tokens disappear only because a user disconnected or the server
\* refused the refresh; cancelling a consent attempt, even one that races the
\* completion of its own exchange, never deletes a grant.
TokensRemovedOnPurpose ==
  [][slot.access # Nobody /\ slot'.access = Nobody =>
       \/ \E d \in Disconnector : pc[d] = "holding" /\ pc'[d] = "committed"
       \/ \E r \in Refresher : slot.claim = r /\ pc[r] = "rejecting"]_vars

\* Reads, commits and acknowledgements together implement one atomic custody
\* step or none.
Custody == INSTANCE GrantCustody WITH
  phase <- slot.state, holder <- slot.claim, grantee <- slot.access

ImplementsCustody == Custody!Spec
=============================================================================
