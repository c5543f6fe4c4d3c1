-------------------------- MODULE OAuthGrantsProofs --------------------------
(* Custody of one credential slot, proved for any number of workers.        *)
EXTENDS OAuthGrants, TLAPS

USE ActorsAssumption
-----------------------------------------------------------------------------
(* The inductive invariant.                                                 *)

BeforeIntent == {"idle", "discovering", "intending", "intended", "consent",
                 "exchanging", "holding", "verified", "claiming"}
BeforePost == {"exchanged", "claimed", "licensed"}
AfterPost == {"posted", "receipt", "denied", "completing", "rejecting"}
Ended == {"committed", "done", "failed"}

\* How far a worker has come bounds what it made durable and what it sent.
ProgressInv ==
  /\ settled \subseteq posted
  /\ posted \subseteq intended
  /\ \A w \in Worker :
       /\ pc[w] \in BeforeIntent => w \notin intended
       /\ pc[w] \in BeforePost => w \in intended \ posted
       /\ pc[w] \in AfterPost => w \in posted \ settled
       /\ receipt[w] \in {w, Nobody}

\* The state of the claim or snapshot a worker works with.
PhaseInv ==
  /\ \A a \in Acquirer :
       /\ pc[a] = "intending" =>
            /\ seen[a].state \notin Holding
            /\ seen[a].state = "exchanging" => a \in Acknowledging
       /\ pc[a] \in {"intended", "consent", "exchanging"} => seen[a].state = "authorizing"
       /\ pc[a] \in BeforePost \cup AfterPost => seen[a].state = "exchanging"
       /\ pc[a] \notin {"holding", "verified", "claiming", "claimed"}
  /\ \A r \in Refresher :
       /\ pc[r] \in {"holding", "verified", "claiming"} => seen[r].state = "active"
       /\ pc[r] \in BeforePost \cup AfterPost => seen[r].state = "refreshing"
       /\ pc[r] \notin {"discovering", "intending", "intended", "consent", "exchanging", "exchanged"}
  /\ \A d \in Disconnector : pc[d] = "holding" => seen[d].state # "absent"
  /\ slot.state \in {"authorizing", "exchanging"} => slot.claim \in Acquirer
  /\ slot.state = "refreshing" => slot.claim \in Refresher

Carries(w) == slot.state \in Unknown /\ slot.claim = w

\* An intent without a committed answer is in the slot, or was given up.
IntentInv == \A w \in intended \ settled : Carries(w) \/ w \in overridden

\* A refresh token in an unanswered request is in the slot only under the claim
\* that sent it, and a token that left the slot never returns: tokens are
\* installed by workers that settle only then.
TokenInv ==
  /\ slot.access \in {Nobody, Seed} \cup settled
  /\ slot.refresh \in {Nobody, Seed} \cup settled
  /\ \A r \in Refresher :
       /\ pc[r] \in {"verified", "claiming"} \/ r \in intended =>
            token[r] \in {Seed} \cup settled
       /\ pc[r] \in {"verified", "claiming"} /\ Current(r) => slot.refresh = token[r]
       /\ r \in intended \ settled =>
            \/ Carries(r) /\ slot.refresh = token[r]
            \/ r \in overridden /\ slot.refresh # token[r]
  /\ \A r, s \in (intended \ settled) \cap Refresher : r # s => token[r] # token[s]

\* A worker that a disconnect overtook holds a revision of the past for good.
StaleInv ==
  /\ slot.access \notin disowned
  /\ \A w \in disowned :
       \/ pc[w] \in Ended
       \/ pc[w] # "idle" /\ seen[w].revision < slot.revision

IInv == TypeOK /\ ProgressInv /\ PhaseInv /\ IntentInv /\ TokenInv /\ StaleInv
-----------------------------------------------------------------------------
\* An empty slot, or one with a grant, and workers that have not started satisfy it.
THEOREM InitIInv == Init => IInv
<1> SUFFICES ASSUME Init PROVE IInv
  OBVIOUS
<1> USE DEF Init, EmptyRow, SeedRow, NoSnapshot, Actor, Worker
<1>1. TypeOK
  BY DEF TypeOK, Row, WellFormed, State, Snapshot, Phase, Claimed, Holding
<1>2. ProgressInv
  BY DEF ProgressInv, BeforeIntent, BeforePost, AfterPost
<1>3. PhaseInv
  BY DEF PhaseInv, BeforePost, AfterPost
<1>4. IntentInv
  BY DEF IntentInv
<1>5. TokenInv
  BY DEF TokenInv
<1>6. StaleInv
  BY DEF StaleInv
<1>7. QED
  BY <1>1, <1>2, <1>3, <1>4, <1>5, <1>6 DEF IInv

\* Steps that leave the slot alone are one leaf each; the commits are split by
\* conjunct of the invariant.
THEOREM StepIInv == IInv /\ [Next]_vars => IInv'
<1> SUFFICES ASSUME IInv, [Next]_vars PROVE IInv'
  OBVIOUS
<1> USE DEF IInv, Actor, Worker, Read, Current, HoldsSecret, Replace, Goto, Wrote, Carries,
            history, cancelling, NoSnapshot, Abandoned
<1>1. ASSUME NEW a \in Acquirer, Begin(a) PROVE IInv'
  BY <1>1 DEF Begin, TypeOK, Snapshot, Phase, WellFormed, ProgressInv, PhaseInv,
         IntentInv, TokenInv, StaleInv, BeforeIntent, BeforePost, AfterPost, Ended, Row, State
<1>2. ASSUME NEW a \in Acquirer, BeginAuthorization(a) PROVE IInv'
  BY <1>2 DEF BeginAuthorization, TypeOK, Snapshot, Phase, WellFormed, ProgressInv,
         PhaseInv, IntentInv, TokenInv, StaleInv, BeforeIntent, BeforePost, AfterPost, Ended, Holding
\* It displaces a claim with an intent only by acknowledgement.
<1>3. ASSUME NEW a \in Acquirer, CommitAuthorization(a) PROVE IInv'
  <2>1. TypeOK'
    BY <1>3 DEF CommitAuthorization, TypeOK, PhaseInv, WellFormed, Row, Snapshot, State,
          Phase, Claimed, Holding, Unknown
  <2>2. ProgressInv'
    BY <1>3 DEF CommitAuthorization, TypeOK, ProgressInv, PhaseInv, BeforeIntent,
          BeforePost, AfterPost
  <2>3. PhaseInv'
    BY <1>3 DEF CommitAuthorization, TypeOK, ProgressInv, PhaseInv, BeforePost,
          AfterPost, WellFormed, Holding, Claimed
  <2>4. IntentInv'
    BY <1>3 DEF CommitAuthorization, TypeOK, ProgressInv, PhaseInv, IntentInv,
          BeforePost, AfterPost, Holding, Unknown, WellFormed
  <2>5. TokenInv'
    BY <1>3 DEF CommitAuthorization, TypeOK, ProgressInv, PhaseInv, IntentInv, TokenInv,
          BeforeIntent, BeforePost, AfterPost, Holding, Unknown, WellFormed, Row
  <2>6. StaleInv'
    BY <1>3 DEF CommitAuthorization, TypeOK, StaleInv, Ended, Snapshot, Row, WellFormed
  <2> QED BY <2>1, <2>2, <2>3, <2>4, <2>5, <2>6
<1>4. ASSUME NEW a \in Acquirer, AcknowledgeAuthorization(a) PROVE IInv'
  BY <1>4 DEF AcknowledgeAuthorization, TypeOK, Snapshot, Phase, WellFormed, ProgressInv,
         PhaseInv, IntentInv, TokenInv, StaleInv, BeforeIntent, BeforePost, AfterPost, Ended
<1>5. ASSUME NEW a \in Acquirer, BeginExchange(a) PROVE IInv'
  BY <1>5 DEF BeginExchange, TypeOK, Snapshot, Phase, WellFormed, ProgressInv, PhaseInv,
         IntentInv, TokenInv, StaleInv, BeforeIntent, BeforePost, AfterPost, Ended
\* The slot was authorizing, so it carried no other worker's intent.
<1>6. ASSUME NEW a \in Acquirer, CommitExchange(a) PROVE IInv'
  <2>1. TypeOK'
    BY <1>6 DEF CommitExchange, TypeOK, PhaseInv, WellFormed, Row, Snapshot, State,
          Phase, Claimed, Holding, Unknown
  <2>2. ProgressInv'
    BY <1>6 DEF CommitExchange, TypeOK, ProgressInv, PhaseInv, BeforeIntent, BeforePost,
          AfterPost
  <2>3. PhaseInv'
    BY <1>6 DEF CommitExchange, TypeOK, ProgressInv, PhaseInv, BeforePost, AfterPost,
          WellFormed, Holding, Claimed
  <2>4. IntentInv'
    BY <1>6 DEF CommitExchange, TypeOK, ProgressInv, PhaseInv, IntentInv, BeforePost,
          AfterPost, Holding, Unknown, WellFormed
  <2>5. TokenInv'
    BY <1>6 DEF CommitExchange, TypeOK, ProgressInv, PhaseInv, IntentInv, TokenInv,
          BeforeIntent, BeforePost, AfterPost, Holding, Unknown, WellFormed, Row
  <2>6. StaleInv'
    BY <1>6 DEF CommitExchange, TypeOK, StaleInv, Ended, Snapshot, Row, WellFormed
  <2> QED BY <2>1, <2>2, <2>3, <2>4, <2>5, <2>6
<1>7. ASSUME NEW a \in Acquirer, AcknowledgeExchange(a) PROVE IInv'
  BY <1>7 DEF AcknowledgeExchange, TypeOK, Snapshot, Phase, WellFormed, ProgressInv,
         PhaseInv, IntentInv, TokenInv, StaleInv, BeforeIntent, BeforePost, AfterPost, Ended
<1>8. ASSUME NEW a \in Acquirer, ReadExchangeClaim(a) PROVE IInv'
  BY <1>8 DEF ReadExchangeClaim, TypeOK, Snapshot, Phase, WellFormed, ProgressInv,
         PhaseInv, IntentInv, TokenInv, StaleInv, BeforeIntent, BeforePost, AfterPost, Ended
\* Only the claim it settles was in the slot; its tokens were never there.
<1>9. ASSUME NEW a \in Acquirer, CompleteAuthorization(a) PROVE IInv'
  <2>1. TypeOK'
    BY <1>9 DEF CompleteAuthorization, TypeOK, PhaseInv, WellFormed, Row, Snapshot,
          State, Phase, Claimed, Holding, Unknown
  <2>2. ProgressInv'
    BY <1>9 DEF CompleteAuthorization, TypeOK, ProgressInv, PhaseInv, BeforeIntent,
          BeforePost, AfterPost
  <2>3. PhaseInv'
    BY <1>9 DEF CompleteAuthorization, TypeOK, ProgressInv, PhaseInv, BeforePost,
          AfterPost, WellFormed, Holding, Claimed
  <2>4. IntentInv'
    BY <1>9 DEF CompleteAuthorization, TypeOK, ProgressInv, PhaseInv, IntentInv,
          BeforePost, AfterPost, Holding, Unknown, WellFormed
  <2>5. TokenInv'
    BY <1>9 DEF CompleteAuthorization, TypeOK, ProgressInv, PhaseInv, IntentInv,
          TokenInv, BeforeIntent, BeforePost, AfterPost, Holding, Unknown, WellFormed, Row
  <2>6. StaleInv'
    BY <1>9 DEF CompleteAuthorization, TypeOK, StaleInv, Ended, Snapshot, Row, WellFormed
  <2> QED BY <2>1, <2>2, <2>3, <2>4, <2>5, <2>6
<1>10. ASSUME NEW a \in Acquirer, RejectExchange(a) PROVE IInv'
  <2>1. TypeOK'
    BY <1>10 DEF RejectExchange, TypeOK, PhaseInv, WellFormed, Row, Snapshot, State,
          Phase, Claimed, Holding, Unknown
  <2>2. ProgressInv'
    BY <1>10 DEF RejectExchange, TypeOK, ProgressInv, PhaseInv, BeforeIntent, BeforePost,
          AfterPost
  <2>3. PhaseInv'
    BY <1>10 DEF RejectExchange, TypeOK, ProgressInv, PhaseInv, BeforePost, AfterPost,
          WellFormed, Holding, Claimed
  <2>4. IntentInv'
    BY <1>10 DEF RejectExchange, TypeOK, ProgressInv, PhaseInv, IntentInv, BeforePost,
          AfterPost, Holding, Unknown, WellFormed
  <2>5. TokenInv'
    BY <1>10 DEF RejectExchange, TypeOK, ProgressInv, PhaseInv, IntentInv, TokenInv,
          BeforeIntent, BeforePost, AfterPost, Holding, Unknown, WellFormed, Row
  <2>6. StaleInv'
    BY <1>10 DEF RejectExchange, TypeOK, StaleInv, Ended, Snapshot, Row, WellFormed
  <2> QED BY <2>1, <2>2, <2>3, <2>4, <2>5, <2>6
<1>11. ASSUME NEW a \in Acquirer, Withdraw(a) PROVE IInv'
  BY <1>11 DEF Withdraw, TypeOK, Snapshot, Phase, WellFormed, ProgressInv, PhaseInv,
         IntentInv, TokenInv, StaleInv, BeforeIntent, BeforePost, AfterPost, Ended
<1>12. ASSUME NEW a \in Acquirer, Cancel(a) PROVE IInv'
  BY <1>12 DEF Cancel, TypeOK, Snapshot, Phase, WellFormed, ProgressInv, PhaseInv,
         IntentInv, TokenInv, StaleInv, BeforeIntent, BeforePost, AfterPost, Ended
<1>13. ASSUME NEW a \in Acquirer, ReadAbandon(a) PROVE IInv'
  BY <1>13 DEF ReadAbandon, TypeOK, Snapshot, Phase, WellFormed, ProgressInv, PhaseInv,
         IntentInv, TokenInv, StaleInv, BeforeIntent, BeforePost, AfterPost, Ended
\* An authorizing slot carries no intent and no tokens.
<1>14. ASSUME NEW a \in Acquirer, AbandonAuthorization(a) PROVE IInv'
  <2>1. TypeOK'
    BY <1>14 DEF AbandonAuthorization, TypeOK, PhaseInv, WellFormed, Row, Snapshot,
          State, Phase, Claimed, Holding, Unknown
  <2>2. ProgressInv'
    BY <1>14 DEF AbandonAuthorization, TypeOK, ProgressInv, PhaseInv, BeforeIntent,
          BeforePost, AfterPost
  <2>3. PhaseInv'
    BY <1>14 DEF AbandonAuthorization, TypeOK, ProgressInv, PhaseInv, BeforePost,
          AfterPost, WellFormed, Holding, Claimed
  <2>4. IntentInv'
    BY <1>14 DEF AbandonAuthorization, TypeOK, ProgressInv, PhaseInv, IntentInv,
          BeforePost, AfterPost, Holding, Unknown, WellFormed
  <2>5. TokenInv'
    BY <1>14 DEF AbandonAuthorization, TypeOK, ProgressInv, PhaseInv, IntentInv,
          TokenInv, BeforeIntent, BeforePost, AfterPost, Holding, Unknown, WellFormed, Row
  <2>6. StaleInv'
    BY <1>14 DEF AbandonAuthorization, TypeOK, StaleInv, Ended, Snapshot, Row, WellFormed
  <2> QED BY <2>1, <2>2, <2>3, <2>4, <2>5, <2>6
<1>15. ASSUME NEW a \in Acquirer, AbandonFails(a) PROVE IInv'
  BY <1>15 DEF AbandonFails, TypeOK, Snapshot, Phase, WellFormed, ProgressInv, PhaseInv,
         IntentInv, TokenInv, StaleInv, BeforeIntent, BeforePost, AfterPost, Ended
<1>16. ASSUME NEW r \in Refresher, ReadGrant(r) PROVE IInv'
  BY <1>16 DEF ReadGrant, TypeOK, Snapshot, Phase, WellFormed, ProgressInv, PhaseInv,
         IntentInv, TokenInv, StaleInv, BeforeIntent, BeforePost, AfterPost, Ended, Row, State
<1>17. ASSUME NEW r \in Refresher, ReadTokens(r) PROVE IInv'
  BY <1>17 DEF ReadTokens, TypeOK, Snapshot, Phase, WellFormed, ProgressInv, PhaseInv,
         IntentInv, TokenInv, StaleInv, BeforeIntent, BeforePost, AfterPost, Ended, Row, State
<1>18. ASSUME NEW r \in Refresher, BeginRefresh(r) PROVE IInv'
  BY <1>18 DEF BeginRefresh, TypeOK, Snapshot, Phase, WellFormed, ProgressInv, PhaseInv,
         IntentInv, TokenInv, StaleInv, BeforeIntent, BeforePost, AfterPost, Ended
\* An active slot carries no intent: an earlier unanswered request with this
\* token was given up, and its token left the slot.
<1>19. ASSUME NEW r \in Refresher, CommitRefresh(r) PROVE IInv'
  <2>1. TypeOK'
    BY <1>19 DEF CommitRefresh, TypeOK, PhaseInv, WellFormed, Row, Snapshot, State,
          Phase, Claimed, Holding, Unknown
  <2>2. ProgressInv'
    BY <1>19 DEF CommitRefresh, TypeOK, ProgressInv, PhaseInv, BeforeIntent, BeforePost,
          AfterPost
  <2>3. PhaseInv'
    BY <1>19 DEF CommitRefresh, TypeOK, ProgressInv, PhaseInv, BeforePost, AfterPost,
          WellFormed, Holding, Claimed
  <2>4. IntentInv'
    BY <1>19 DEF CommitRefresh, TypeOK, ProgressInv, PhaseInv, IntentInv, BeforePost,
          AfterPost, Holding, Unknown, WellFormed
  <2>5. TokenInv'
    BY <1>19 DEF CommitRefresh, TypeOK, ProgressInv, PhaseInv, IntentInv, TokenInv,
          BeforeIntent, BeforePost, AfterPost, Holding, Unknown, WellFormed, Row
  <2>6. StaleInv'
    BY <1>19 DEF CommitRefresh, TypeOK, StaleInv, Ended, Snapshot, Row, WellFormed
  <2> QED BY <2>1, <2>2, <2>3, <2>4, <2>5, <2>6
<1>20. ASSUME NEW r \in Refresher, AcknowledgeRefresh(r) PROVE IInv'
  BY <1>20 DEF AcknowledgeRefresh, TypeOK, Snapshot, Phase, WellFormed, ProgressInv,
         PhaseInv, IntentInv, TokenInv, StaleInv, BeforeIntent, BeforePost, AfterPost, Ended
<1>21. ASSUME NEW r \in Refresher, ReadRefreshClaim(r) PROVE IInv'
  BY <1>21 DEF ReadRefreshClaim, TypeOK, Snapshot, Phase, WellFormed, ProgressInv,
         PhaseInv, IntentInv, TokenInv, StaleInv, BeforeIntent, BeforePost, AfterPost, Ended
<1>22. ASSUME NEW r \in Refresher, FinishRefresh(r) PROVE IInv'
  <2>1. TypeOK'
    BY <1>22 DEF FinishRefresh, TypeOK, PhaseInv, WellFormed, Row, Snapshot, State,
          Phase, Claimed, Holding, Unknown
  <2>2. ProgressInv'
    BY <1>22 DEF FinishRefresh, TypeOK, ProgressInv, PhaseInv, BeforeIntent, BeforePost,
          AfterPost
  <2>3. PhaseInv'
    BY <1>22 DEF FinishRefresh, TypeOK, ProgressInv, PhaseInv, BeforePost, AfterPost,
          WellFormed, Holding, Claimed
  <2>4. IntentInv'
    BY <1>22 DEF FinishRefresh, TypeOK, ProgressInv, PhaseInv, IntentInv, BeforePost,
          AfterPost, Holding, Unknown, WellFormed
  <2>5. TokenInv'
    BY <1>22 DEF FinishRefresh, TypeOK, ProgressInv, PhaseInv, IntentInv, TokenInv,
          BeforeIntent, BeforePost, AfterPost, Holding, Unknown, WellFormed, Row
  <2>6. StaleInv'
    BY <1>22 DEF FinishRefresh, TypeOK, StaleInv, Ended, Snapshot, Row, WellFormed
  <2> QED BY <2>1, <2>2, <2>3, <2>4, <2>5, <2>6
<1>23. ASSUME NEW r \in Refresher, RejectRefresh(r) PROVE IInv'
  <2>1. TypeOK'
    BY <1>23 DEF RejectRefresh, TypeOK, PhaseInv, WellFormed, Row, Snapshot, State,
          Phase, Claimed, Holding, Unknown
  <2>2. ProgressInv'
    BY <1>23 DEF RejectRefresh, TypeOK, ProgressInv, PhaseInv, BeforeIntent, BeforePost,
          AfterPost
  <2>3. PhaseInv'
    BY <1>23 DEF RejectRefresh, TypeOK, ProgressInv, PhaseInv, BeforePost, AfterPost,
          WellFormed, Holding, Claimed
  <2>4. IntentInv'
    BY <1>23 DEF RejectRefresh, TypeOK, ProgressInv, PhaseInv, IntentInv, BeforePost,
          AfterPost, Holding, Unknown, WellFormed
  <2>5. TokenInv'
    BY <1>23 DEF RejectRefresh, TypeOK, ProgressInv, PhaseInv, IntentInv, TokenInv,
          BeforeIntent, BeforePost, AfterPost, Holding, Unknown, WellFormed, Row
  <2>6. StaleInv'
    BY <1>23 DEF RejectRefresh, TypeOK, StaleInv, Ended, Snapshot, Row, WellFormed
  <2> QED BY <2>1, <2>2, <2>3, <2>4, <2>5, <2>6
<1>24. ASSUME NEW w \in Worker, PostToken(w) PROVE IInv'
  BY <1>24 DEF PostToken, TypeOK, Snapshot, Phase, WellFormed, ProgressInv, PhaseInv,
         IntentInv, TokenInv, StaleInv, BeforeIntent, BeforePost, AfterPost, Ended
<1>25. ASSUME NEW w \in Worker, ServerIssues(w) PROVE IInv'
  BY <1>25 DEF ServerIssues, TypeOK, Snapshot, Phase, WellFormed, ProgressInv, PhaseInv,
         IntentInv, TokenInv, StaleInv, BeforeIntent, BeforePost, AfterPost, Ended
<1>26. ASSUME NEW w \in Worker, ServerDenies(w) PROVE IInv'
  BY <1>26 DEF ServerDenies, TypeOK, Snapshot, Phase, WellFormed, ProgressInv, PhaseInv,
         IntentInv, TokenInv, StaleInv, BeforeIntent, BeforePost, AfterPost, Ended
<1>27. ASSUME NEW d \in Disconnector, ReadDisconnect(d) PROVE IInv'
  BY <1>27 DEF ReadDisconnect, TypeOK, Snapshot, Phase, WellFormed, ProgressInv,
         PhaseInv, IntentInv, TokenInv, StaleInv, BeforeIntent, BeforePost, AfterPost, Ended, Row, State
<1>28. ASSUME NEW d \in Disconnector, ConfirmTombstone(d) PROVE IInv'
  BY <1>28 DEF ConfirmTombstone, TypeOK, Snapshot, Phase, WellFormed, ProgressInv,
         PhaseInv, IntentInv, TokenInv, StaleInv, BeforeIntent, BeforePost, AfterPost, Ended
\* The displaced claim is given up, and every worker under way becomes stale.
<1>29. ASSUME NEW d \in Disconnector, RevokeLocal(d) PROVE IInv'
  <2>1. TypeOK'
    BY <1>29 DEF RevokeLocal, TypeOK, PhaseInv, WellFormed, Row, Snapshot, State, Phase,
          Claimed, Holding, Unknown
  <2>2. ProgressInv'
    BY <1>29 DEF RevokeLocal, TypeOK, ProgressInv, PhaseInv, BeforeIntent, BeforePost,
          AfterPost
  <2>3. PhaseInv'
    BY <1>29 DEF RevokeLocal, TypeOK, ProgressInv, PhaseInv, BeforePost, AfterPost,
          WellFormed, Holding, Claimed
  <2>4. IntentInv'
    BY <1>29 DEF RevokeLocal, TypeOK, ProgressInv, PhaseInv, IntentInv, BeforePost,
          AfterPost, Holding, Unknown, WellFormed
  <2>5. TokenInv'
    BY <1>29 DEF RevokeLocal, TypeOK, ProgressInv, PhaseInv, IntentInv, TokenInv,
          BeforeIntent, BeforePost, AfterPost, Holding, Unknown, WellFormed, Row
  <2>6. StaleInv'
    BY <1>29 DEF RevokeLocal, TypeOK, StaleInv, Ended, Snapshot, Row, WellFormed
  <2> QED BY <2>1, <2>2, <2>3, <2>4, <2>5, <2>6
<1>30. ASSUME NEW x \in Actor, Acknowledge(x) PROVE IInv'
  BY <1>30 DEF Acknowledge, TypeOK, Snapshot, Phase, WellFormed, ProgressInv, PhaseInv,
         IntentInv, TokenInv, StaleInv, BeforeIntent, BeforePost, AfterPost, Ended
\* A failed actor holds nothing it could still commit.
<1>31. ASSUME NEW x \in Actor, Fail(x) PROVE IInv'
  <2>1. TypeOK'
    BY <1>31 DEF Fail, TypeOK, PhaseInv, WellFormed, Row, Snapshot, State, Phase,
          Claimed, Holding, Unknown
  <2>2. ProgressInv'
    BY <1>31 DEF Fail, TypeOK, ProgressInv, PhaseInv, BeforeIntent, BeforePost, AfterPost
  <2>3. PhaseInv'
    BY <1>31 DEF Fail, TypeOK, ProgressInv, PhaseInv, BeforePost, AfterPost, WellFormed,
          Holding, Claimed
  <2>4. IntentInv'
    BY <1>31 DEF Fail, TypeOK, ProgressInv, PhaseInv, IntentInv, BeforePost, AfterPost,
          Holding, Unknown, WellFormed
  <2>5. TokenInv'
    BY <1>31 DEF Fail, TypeOK, ProgressInv, PhaseInv, IntentInv, TokenInv, BeforeIntent,
          BeforePost, AfterPost, Holding, Unknown, WellFormed, Row
  <2>6. StaleInv'
    BY <1>31 DEF Fail, TypeOK, StaleInv, Ended, Snapshot, Row, WellFormed
  <2> QED BY <2>1, <2>2, <2>3, <2>4, <2>5, <2>6
<1>32. CASE UNCHANGED vars
  BY <1>32 DEF vars, TypeOK, WellFormed, ProgressInv, PhaseInv, IntentInv, TokenInv, StaleInv
<1> QED
  BY <1>1, <1>2, <1>3, <1>4, <1>5, <1>6, <1>7, <1>8, <1>9, <1>10, <1>11, <1>12, <1>13, <1>14, <1>15, <1>16,
     <1>17, <1>18, <1>19, <1>20, <1>21, <1>22, <1>23, <1>24, <1>25, <1>26, <1>27, <1>28, <1>29, <1>30, <1>31, <1>32
  DEF Next, AcquirerNext, RefresherNext

\* Every state of the store and its workers satisfies it.
THEOREM InvariantIInv == Spec => []IInv
  BY InitIInv, StepIInv, PTL DEF Spec
-----------------------------------------------------------------------------
(* What the invariant is for.                                              *)

\* The row always satisfies the table's CHECK constraints, and no actor holds
\* a revision the slot never had.
THEOREM TypeCorrect == Spec => []TypeOK
<1>1. IInv => TypeOK
  BY DEF IInv
<1> QED
  BY <1>1, InvariantIInv, PTL

\* No crash, cancellation or race hides a token request of unknown outcome.
THEOREM UnknownOutcomesStayVisible == Spec => []UnknownOutcomeVisible
<1>1. IInv => UnknownOutcomeVisible
  BY DEF IInv, IntentInv, ProgressInv, Carries, UnknownOutcomeVisible
<1> QED
  BY <1>1, InvariantIInv, PTL

\* No two unanswered requests carry the same refresh token.
THEOREM RefreshTokensAreNotReplayed == Spec => []NoRefreshReplay
<1>1. IInv => NoRefreshReplay
  BY DEF IInv, TokenInv, ProgressInv, NoRefreshReplay
<1> QED
  BY <1>1, InvariantIInv, PTL

\* A disconnect is final for every operation that was under way.
THEOREM DisconnectsAreFinal == Spec => []DisconnectIsFinal
<1>1. IInv => DisconnectIsFinal
  BY DEF IInv, StaleInv, DisconnectIsFinal
<1> QED
  BY <1>1, InvariantIInv, PTL

\* Tokens leave the slot only by a disconnect or a refused refresh: all other
\* commits replace a row without tokens or store new ones.
THEOREM TokensLeaveOnPurpose == Spec => TokensRemovedOnPurpose
<1> DEFINE Removed == slot.access # Nobody /\ slot'.access = Nobody
           OnPurpose == \/ \E d \in Disconnector : pc[d] = "holding" /\ pc'[d] = "committed"
                        \/ \E r \in Refresher : slot.claim = r /\ pc[r] = "rejecting"
<1>1. IInv /\ [Next]_vars => [Removed => OnPurpose]_vars
  <2> SUFFICES ASSUME IInv, [Next]_vars, Removed PROVE OnPurpose
    OBVIOUS
  <2> USE DEF IInv, TypeOK, WellFormed, Holding, Actor, Worker, Read, Current, HoldsSecret,
              Replace, Goto, history, cancelling
  <2>1. ASSUME NEW a \in Acquirer, AcquirerNext(a) PROVE FALSE
    <3>1. slot' # slot
      OBVIOUS
    <3>2. CASE CommitAuthorization(a)
      BY <3>2 DEF CommitAuthorization, PhaseInv
    <3>3. CASE CommitExchange(a)
      BY <3>3 DEF CommitExchange, PhaseInv
    <3>4. CASE CompleteAuthorization(a)
      BY <3>4 DEF CompleteAuthorization
    <3>5. CASE RejectExchange(a)
      BY <3>5 DEF RejectExchange, PhaseInv, AfterPost
    <3>6. CASE AbandonAuthorization(a)
      BY <3>6 DEF AbandonAuthorization
    <3> QED
      BY <2>1, <3>1, <3>2, <3>3, <3>4, <3>5, <3>6
      DEF AcquirerNext, Begin, BeginAuthorization, AcknowledgeAuthorization, BeginExchange,
          AcknowledgeExchange, ReadExchangeClaim, Withdraw, Cancel, ReadAbandon, AbandonFails
  <2>2. ASSUME NEW r \in Refresher, RefresherNext(r) PROVE OnPurpose
    <3>1. CASE CommitRefresh(r)
      BY <3>1 DEF CommitRefresh
    <3>2. CASE FinishRefresh(r)
      BY <3>2 DEF FinishRefresh
    <3>3. CASE RejectRefresh(r)
      BY <3>3 DEF RejectRefresh
    <3> QED
      BY <2>2, <3>1, <3>2, <3>3
      DEF RefresherNext, ReadGrant, ReadTokens, BeginRefresh, AcknowledgeRefresh,
          ReadRefreshClaim
  <2>3. ASSUME NEW d \in Disconnector, RevokeLocal(d) PROVE OnPurpose
    BY <2>3 DEF RevokeLocal, Phase
  <2>4. slot' = slot => FALSE
    OBVIOUS
  <2> QED
    BY <2>1, <2>2, <2>3, <2>4
    DEF Next, vars, PostToken, ServerIssues, ServerDenies, ReadDisconnect, ConfirmTombstone,
        Acknowledge, Fail
<1> QED
  BY <1>1, InvariantIInv, PTL DEF Spec, TokensRemovedOnPurpose
-----------------------------------------------------------------------------
(* Refinement of the atomic custody specification.                         *)

CustodyStep == Custody!Next \/ UNCHANGED Custody!vars

\* Each commit is one custody step, PostToken the abstract Post, and every other
\* step leaves the custody variables alone.
THEOREM StepImplementsCustody == IInv /\ [Next]_vars => [Custody!Next]_Custody!vars
<1> SUFFICES ASSUME IInv, [Next]_vars PROVE CustodyStep
  BY DEF CustodyStep
<1> USE DEF IInv, TypeOK, WellFormed, Row, Holding, Claimed, Unknown, Actor, Worker, Read,
            Current, HoldsSecret, Replace, Goto, history, cancelling, Custody!vars
<1>1. ASSUME NEW a \in Acquirer, CommitAuthorization(a) PROVE Custody!Authorize(a)
  BY <1>1 DEF CommitAuthorization, PhaseInv, State, Custody!Authorize
<1>2. ASSUME NEW a \in Acquirer, CommitExchange(a) PROVE Custody!Exchange(a)
  BY <1>2 DEF CommitExchange, PhaseInv, ProgressInv, BeforeIntent, Custody!Exchange
<1>3. ASSUME NEW a \in Acquirer, CompleteAuthorization(a) PROVE Custody!Install(a)
  BY <1>3 DEF CompleteAuthorization, PhaseInv, ProgressInv, AfterPost, Custody!Install,
              Custody!Unknown
<1>4. ASSUME NEW a \in Acquirer, RejectExchange(a) PROVE Custody!Reject(a)
  BY <1>4 DEF RejectExchange, PhaseInv, ProgressInv, AfterPost, Custody!Reject, Custody!Unknown
<1>5. ASSUME NEW a \in Acquirer, AbandonAuthorization(a) PROVE Custody!Revoke
  BY <1>5 DEF AbandonAuthorization, Custody!Revoke
<1>6. ASSUME NEW r \in Refresher, CommitRefresh(r) PROVE Custody!Claim(r)
  BY <1>6 DEF CommitRefresh, PhaseInv, ProgressInv, BeforeIntent, Custody!Claim
<1>7. ASSUME NEW r \in Refresher, FinishRefresh(r) PROVE Custody!Install(r)
  BY <1>7 DEF FinishRefresh, PhaseInv, ProgressInv, AfterPost, Custody!Install, Custody!Unknown
<1>8. ASSUME NEW r \in Refresher, RejectRefresh(r) PROVE Custody!Reject(r)
  BY <1>8 DEF RejectRefresh, PhaseInv, ProgressInv, AfterPost, Custody!Reject, Custody!Unknown
<1>9. ASSUME NEW w \in Worker, PostToken(w) PROVE Custody!Post(w)
  BY <1>9 DEF PostToken, ProgressInv, BeforePost, Custody!Post
<1>10. ASSUME NEW d \in Disconnector, RevokeLocal(d) PROVE Custody!Revoke
  BY <1>10 DEF RevokeLocal, PhaseInv, Custody!Revoke
<1>11. CASE UNCHANGED <<slot, intended, posted>>
  BY <1>11 DEF CustodyStep
<1> QED
  BY <1>1, <1>2, <1>3, <1>4, <1>5, <1>6, <1>7, <1>8, <1>9, <1>10, <1>11
  DEF Next, AcquirerNext, RefresherNext, vars, Begin, BeginAuthorization, BeginExchange,
      AcknowledgeAuthorization, AcknowledgeExchange, ReadExchangeClaim, Withdraw, Cancel,
      ReadAbandon, AbandonFails, ReadGrant, ReadTokens, BeginRefresh, AcknowledgeRefresh,
      ReadRefreshClaim, ServerIssues, ServerDenies, ReadDisconnect, ConfirmTombstone,
      Acknowledge, Fail, CustodyStep, Custody!Next, Custody!Worker

\* Reads, commits and acknowledgements together implement atomic custody.
THEOREM GrantsImplementCustody == Spec => ImplementsCustody
<1>1. Init => Custody!Init
  BY DEF Init, EmptyRow, SeedRow, Custody!Init, Custody!Worker, Actor, Worker
<1> QED
  BY <1>1, StepImplementsCustody, InvariantIInv, PTL
  DEF Spec, ImplementsCustody, Custody!Spec
=============================================================================
