----------------------------- MODULE AppExecution -----------------------------
(***************************************************************************)
(* The server's side of Apps (apps_execution.py, apps_publication.py):      *)
(* registrations of one native connection, the private results published    *)
(* from them, the physical Views opened on a result, and the calls, reads   *)
(* and deliveries of a View.  Each call is a child task that a request       *)
(* awaits; the checks of a View's authority run inside those tasks, and may *)
(* themselves withdraw results and Views.  Closers (a closed View, the       *)
(* maintenance, the retirement of the connection, the publisher's close)    *)
(* revoke and join.  Core (approvals, policy, audit), the native server,    *)
(* the clock, the readers' authorization and the host are external.         *)
(*                                                                          *)
(* One principal publishes, so that the two limits on a kind are one.        *)
(***************************************************************************)
EXTENDS Naturals, FiniteSets

CONSTANTS
  Batch,            \* registrations, each with wrappers of its own
  Publication,      \* private results
  View,             \* physical Views
  Request,          \* operations of the Views: calls of a tool, and reads
  Delivery,         \* operations of the Views: answers on their way
  Closer,           \* tasks that close a View, the connection or the publisher
  Maintenance,      \* the task of the host's maintenance
  MaxPublications,  \* max_publications
  MaxViews,         \* max_views
  MaxPending,       \* max_pending_calls
  None              \* no View, no registration, no publication

ASSUME AppExecutionAssumption ==
  /\ Request \cap Delivery = {}
  /\ Maintenance \notin Closer
  /\ None \notin Batch \cup Publication \cup View
  /\ {MaxPublications, MaxViews, MaxPending} \subseteq Nat \ {0}

VARIABLES
  batch,      \* of each registration: its _Batch
  valid,      \* registrations whose owner, bindings and connection are current
  stage,      \* of each publication: kept in _publications, or not
  source,     \* of each publication: its batch
  expired,    \* publications past expires_at
  view,       \* of each View: not opened, open, or _closed
  shows,      \* of each View: its publication
  held,       \* AppPublications._views
  accepting,  \* ~ AppPublications._closed
  call,       \* of each call: its child task, its request, its _Invocation
  executed,   \* calls that the native server performed
  closer,     \* of each closer
  transport   \* the native connection has not been closed by its owner

results == <<stage, source, expired>>
views == <<view, shows, held>>
context == <<batch, valid, results, views, accepting, executed, closer, transport>>
serverVars == <<call, context>>

Operation == Request \cup Delivery
Tasks == Closer \cup {Maintenance}

Fresh == [on |-> None, phase |-> "none", cancel |-> FALSE, struck |-> FALSE,
          stopped |-> FALSE, started |-> FALSE, sent |-> FALSE, native |-> FALSE,
          refusal |-> FALSE, approved |-> FALSE, raised |-> "none", failed |-> FALSE, result |-> "none"]

Resting == [phase |-> "idle", kind |-> "drain", todo |-> {}, at |-> None, joins |-> {},
            cancelled |-> FALSE, failed |-> FALSE]

Task ==
  [on: View \cup {None},
   phase: {"none", "queued", "approving", "calling", "policy", "auditing", "reading", "sending",
           "returned", "ended"},
   cancel: BOOLEAN, struck: BOOLEAN, stopped: BOOLEAN, started: BOOLEAN, sent: BOOLEAN,
   native: BOOLEAN, refusal: BOOLEAN, approved: BOOLEAN, failed: BOOLEAN,
   raised: {"none", "conflict", "unknown", "cancelled"},
   result: {"none", "native", "refused", "html", "sent", "error", "conflict", "unknown", "withheld",
            "cancelled"}]

Owner ==
  [phase: {"idle", "joining", "ended"}, kind: {"drain", "retire", "view"}, todo: SUBSET View,
   at: View \cup {None}, joins: SUBSET Operation, cancelled: BOOLEAN, failed: BOOLEAN]

ServerTypeOK ==
  /\ batch \in [Batch -> {"unborn", "live", "fenced", "retired"}] /\ valid \subseteq Batch
  /\ stage \in [Publication -> {"none", "kept", "gone"}]
  /\ source \in [Publication -> Batch \cup {None}] /\ expired \subseteq Publication
  /\ view \in [View -> {"none", "open", "closed"}]
  /\ shows \in [View -> Publication \cup {None}] /\ held \subseteq View
  /\ executed \subseteq Operation /\ accepting \in BOOLEAN /\ transport \in BOOLEAN
  /\ call \in [Operation -> Task] /\ closer \in [Tasks -> Owner]

ServerInit ==
  /\ batch = [b \in Batch |-> "unborn"] /\ valid = Batch
  /\ stage = [p \in Publication |-> "none"] /\ source = [p \in Publication |-> None]
  /\ expired = {}
  /\ view = [v \in View |-> "none"] /\ shows = [v \in View |-> None]
  /\ held = {} /\ accepting = TRUE
  /\ call = [c \in Operation |-> Fresh] /\ executed = {}
  /\ closer = [d \in Tasks |-> Resting] /\ transport = TRUE

---------------------------------------------------------------------------
(* Authority *)

Registered(b) == batch[b] \in {"live", "fenced"}
Live(b) == batch[b] = "live" /\ b \in valid
PublishedFrom(B) == {p \in Publication : stage[p] = "kept" /\ source[p] \in B}
Lapsed == {p \in expired : stage[p] = "kept"}

\* The child tasks of a View that have not ended, and those in its custody.
Underway(c) == call[c].phase \notin {"none", "returned", "ended"}
OwnedBy(v) == {c \in Operation : call[c].on = v /\ call[c].phase \notin {"none", "ended"}}
Pending(v) == Cardinality(OwnedBy(v))

\* The sends of deliveries are not cancelled with their View.
StruckRequests(V) ==
  [c \in Operation |-> IF c \in Request /\ call[c].on \in V /\ Underway(c) /\ ~call[c].struck
                  THEN [call[c] EXCEPT !.cancel = TRUE, !.struck = TRUE] ELSE call[c]]

\* revoke(): the running children of these Views are cancelled, once each.
Struck(V) ==
  [c \in Operation |-> IF call[c].on \in V /\ Underway(c) /\ ~call[c].struck
                  THEN [call[c] EXCEPT !.cancel = TRUE, !.struck = TRUE] ELSE call[c]]

OpenOn(P) == {v \in View : view[v] = "open" /\ shows[v] \in P}

\* _discard(): the results go, and their Views lose their authority.
Discarded(P) == [p \in Publication |-> IF p \in P THEN "gone" ELSE stage[p]]
Revoked(V) == [v \in View |-> IF v \in V THEN "closed" ELSE view[v]]
Fenced(B) == [b \in Batch |-> IF b \in B THEN "fenced" ELSE batch[b]]

\* _require_publication() withdraws what has expired, and if the reader of p is
\* authorized and its registration is not current, all that this one published.
Withdrawn(p, reader) ==
  Lapsed \cup (IF reader /\ stage[p] = "kept" /\ p \notin Lapsed /\ ~Live(source[p])
               THEN PublishedFrom({source[p]}) ELSE {})
Found(p, reader) == accepting /\ reader /\ stage[p] = "kept" /\ p \notin Lapsed /\ Live(source[p])

\* require_current() of View v: what it withdraws, and whether it succeeds.
Dropped(v, reader) == IF view[v] = "open" THEN Withdrawn(shows[v], reader) ELSE {}
Current(v, reader) == view[v] = "open" /\ Found(shows[v], reader)

\* The effects of such a withdrawal.
Withdraw(gone) ==
  /\ stage' = Discarded(gone)
  /\ view' = Revoked(OpenOn(gone))
  /\ batch' = Fenced({b \in Batch \ valid : batch[b] = "live" /\ \E p \in gone \ Lapsed : source[p] = b})

Check(v, reader) ==
  /\ Withdraw(Dropped(v, reader))
  /\ UNCHANGED <<valid, source, expired, shows, held, accepting, executed, closer, transport>>

\* The calls after that check, which cancels those of the Views that it revokes.
Checked(v, reader) == Struck(OpenOn(Dropped(v, reader)))

---------------------------------------------------------------------------
(* Registrations, results and Views *)

\* register(): a new batch of wrappers replaces the registration, whose results
\* go.  The feature mounts tools and closes their connection under one lock.
Register(b) ==
  /\ accepting /\ transport /\ batch[b] = "unborn" /\ b \in valid
  /\ \A d \in Tasks : closer[d].phase = "joining" => closer[d].kind # "retire"
  /\ LET old == {o \in Batch : Registered(o)} IN
       /\ batch' = [o \in Batch |-> IF o = b THEN "live" ELSE IF o \in old THEN "retired" ELSE batch[o]]
       /\ stage' = Discarded(PublishedFrom(old))
       /\ view' = Revoked(OpenOn(PublishedFrom(old)))
       /\ call' = Struck(OpenOn(PublishedFrom(old)))
  /\ UNCHANGED <<valid, source, expired, shows, held, accepting, executed, closer, transport>>

\* retire(): the tools of the registration are unmounted; nothing is joined yet.
Retire(b) ==
  /\ Registered(b)
  /\ batch' = [batch EXCEPT ![b] = "retired"]
  /\ stage' = Discarded(PublishedFrom({b}))
  /\ view' = Revoked(OpenOn(PublishedFrom({b})))
  /\ call' = Struck(OpenOn(PublishedFrom({b})))
  /\ UNCHANGED <<valid, source, expired, shows, held, accepting, executed, closer, transport>>

\* The owner of a registration, a binding or the connection is no longer current.
LoseSource(b) ==
  /\ b \in valid /\ Registered(b)
  /\ valid' = valid \ {b}
  /\ UNCHANGED <<batch, results, views, accepting, call, executed, closer, transport>>

\* publish(): the factory of a chat's tool, after the required audit.
Publish(p, b) ==
  /\ accepting /\ Registered(b) /\ stage[p] = "none"
  /\ LET gone == IF Live(b) THEN Lapsed ELSE PublishedFrom({b})
         room == Cardinality(PublishedFrom(Batch) \ gone) < MaxPublications
         kept == IF Live(b) /\ room THEN {p} ELSE {} IN
       /\ stage' = [q \in Publication |-> IF q \in kept THEN "kept" ELSE Discarded(gone)[q]]
       /\ source' = [q \in Publication |-> IF q \in kept THEN b ELSE source[q]]
       /\ batch' = Fenced(IF Live(b) THEN {} ELSE {b})
       /\ view' = Revoked(OpenOn(gone))
       /\ call' = Struck(OpenOn(gone))
  /\ UNCHANGED <<valid, expired, shows, held, accepting, executed, closer, transport>>

Expire(p) ==
  /\ stage[p] = "kept" /\ p \notin expired
  /\ expired' = expired \cup {p}
  /\ UNCHANGED <<batch, valid, stage, source, views, accepting, call, executed, closer, transport>>

\* withdraw_publications(): a change of the host's policy.
WithdrawPublications ==
  /\ PublishedFrom(Batch) # {}
  /\ stage' = Discarded(PublishedFrom(Batch))
  /\ view' = Revoked({v \in held : view[v] = "open"})
  /\ call' = Struck({v \in held : view[v] = "open"})
  /\ UNCHANGED <<batch, valid, source, expired, shows, held, accepting, executed, closer, transport>>

\* open_view(), after what Probe withdraws.
OpenView(v, p) ==
  /\ view[v] = "none" /\ Found(p, TRUE) /\ Lapsed = {}
  /\ Cardinality(held) < MaxViews
  /\ view' = [view EXCEPT ![v] = "open"] /\ shows' = [shows EXCEPT ![v] = p]
  /\ held' = held \cup {v}
  /\ UNCHANGED <<batch, valid, results, accepting, call, executed, closer, transport>>

\* A locator is read, or a View checked, with nothing after it.
Probe(p, reader) ==
  /\ Withdrawn(p, reader) # {}
  /\ Withdraw(Withdrawn(p, reader))
  /\ call' = Struck(OpenOn(Withdrawn(p, reader)))
  /\ UNCHANGED <<valid, source, expired, shows, held, accepting, executed, closer, transport>>

---------------------------------------------------------------------------
(* Calls *)

Values == {"native", "refused", "html", "sent"}

\* The end of a child; it is cancelled if it was to return in spite of a
\* cancellation.  What only the child had to know is forgotten.
Settled(k, value) ==
  LET result == IF value \in Values /\ k.cancel THEN "cancelled" ELSE value IN
  [k EXCEPT !.phase = "returned", !.result = result,
            !.failed = result \notin Values \cup {"cancelled"},
            !.cancel = FALSE, !.struck = FALSE, !.raised = "none"]

\* The end of the request; a closer may still look at the child's end.
Over(k, value) ==
  [Fresh EXCEPT !.phase = "ended", !.result = value, !.failed = k.failed,
                !.sent = k.sent, !.refusal = k.refusal]

\* _run_owned and borrow_delivery admit an operation, after what Probe withdraws.
Begin(c, v) ==
  /\ call[c].phase = "none"
  /\ Current(v, TRUE) /\ Lapsed = {} /\ Pending(v) < MaxPending
  /\ call' = [call EXCEPT ![c].on = v,
                          ![c].phase = IF c \in Delivery THEN "sending" ELSE "queued"]
  /\ UNCHANGED context

\* The child starts to call its tool or to read; if it was cancelled before, it
\* never does.
Start(c) ==
  /\ call[c].phase = "queued"
  /\ \E phase \in {"approving", "reading"} :
       call' = [call EXCEPT ![c] = IF @.cancel THEN Settled(@, "cancelled") ELSE [@ EXCEPT !.phase = phase]]
  /\ UNCHANGED context

\* Core: the approval and the hooks permit the call, and execute() asks admit().
Admit(c, reader) ==
  LET v == call[c].on IN
  /\ call[c].phase = "approving" /\ ~call[c].cancel
  /\ Check(v, reader)
  /\ call' = [Checked(v, reader) EXCEPT ![c] =
                IF Current(v, reader) THEN [@ EXCEPT !.phase = "calling", !.started = TRUE]
                ELSE [@ EXCEPT !.phase = "auditing", !.raised = "conflict"]]

\* Core: the call is denied; its result is an ordinary refusal.
Deny(c) ==
  /\ call[c].phase = "approving" /\ ~call[c].cancel
  /\ call' = [call EXCEPT ![c].phase = "auditing"]
  /\ UNCHANGED context

\* The round check before the request, or after an answer of the server.
Send(c, reader) ==
  LET v == call[c].on IN
  /\ call[c].phase = "calling" /\ ~call[c].cancel /\ ~call[c].sent
  /\ Check(v, reader)
  /\ call' = [Checked(v, reader) EXCEPT ![c] =
                IF Current(v, reader) THEN [@ EXCEPT !.sent = TRUE]
                ELSE [@ EXCEPT !.phase = "auditing", !.raised = "conflict"]]

\* The native server runs the tool, maybe when nobody waits any more.
Execute(c) ==
  /\ call[c].sent /\ ~call[c].refusal /\ c \notin executed
  /\ executed' = executed \cup {c}
  /\ UNCHANGED <<batch, valid, results, views, accepting, call, closer, transport>>

\* capture(): the answer is complete; its native form is kept for the View.
Answer(c, reader) ==
  LET v == call[c].on IN
  /\ call[c].phase = "calling" /\ ~call[c].cancel /\ c \in executed
  /\ Check(v, reader)
  /\ call' = [Checked(v, reader) EXCEPT ![c] =
                IF Current(v, reader) THEN [@ EXCEPT !.phase = "policy", !.native = TRUE]
                ELSE [@ EXCEPT !.phase = "auditing", !.raised = "conflict"]]

\* capture_refusal(): the connection says that the request was rejected.
Refuse(c) ==
  /\ call[c].phase = "calling" /\ ~call[c].cancel /\ c \notin executed
  /\ call' = [call EXCEPT ![c].phase = "auditing", ![c].refusal = TRUE]
  /\ UNCHANGED context

\* The call times out, or breaks: it may have run.
Break(c) ==
  /\ call[c].phase = "calling" /\ ~call[c].cancel
  /\ call' = [call EXCEPT ![c].phase = "auditing", ![c].raised = "unknown"]
  /\ UNCHANGED context

\* approve_delivery(): Core's policy after the tool, which may leave the result
\* as it is and approve it, or change it, or not call the factory.
Approve(c, reader) ==
  LET v == call[c].on IN
  /\ call[c].phase = "policy" /\ ~call[c].cancel
  /\ Check(v, reader)
  /\ \E raised \in {"none", "conflict"} :
       call' = [Checked(v, reader) EXCEPT ![c] =
                  IF Current(v, reader) THEN [@ EXCEPT !.phase = "auditing", !.approved = TRUE]
                  ELSE [@ EXCEPT !.phase = "auditing", !.raised = raised]]

Disapprove(c) ==
  /\ call[c].phase = "policy" /\ ~call[c].cancel
  /\ call' = [call EXCEPT ![c].phase = "auditing"]
  /\ UNCHANGED context

\* Core receives the cancellation, and goes on to its audit.
Interrupt(c) ==
  /\ call[c].phase \in {"approving", "calling", "policy"} /\ call[c].cancel
  /\ \E raised \in {"cancelled", "conflict"} :
       call' = [call EXCEPT ![c].phase = "auditing", ![c].raised = raised, ![c].cancel = FALSE]
  /\ UNCHANGED context

\* operation(): whether it checks the View after Core's invocation returned.
Rechecks(c) ==
  call[c].raised = "none" /\ (call[c].native \/ call[c].refusal \/ ~call[c].started)

\* A conflict is reported as it is, also after the call was admitted.
OutcomeAsRaised(c, current) ==
  LET k == call[c] IN
  IF k.raised # "none" THEN k.raised
  ELSE IF k.native THEN IF current /\ k.approved THEN "native" ELSE "withheld"
  ELSE IF k.refusal THEN "conflict" ELSE IF k.started THEN "unknown"
  ELSE IF current THEN "refused" ELSE "conflict"

\* What operation() returns or raises.
Outcome(c, current) ==
  LET k == call[c] IN
  CASE k.raised \in {"cancelled", "unknown"} -> k.raised
    [] k.raised = "conflict" -> IF k.started /\ ~k.refusal THEN "unknown" ELSE "conflict"
    [] k.raised = "none" /\ k.native -> IF current /\ k.approved THEN "native" ELSE "withheld"
    [] k.raised = "none" /\ ~k.native /\ k.refusal -> "conflict"
    [] OTHER -> IF k.started THEN "unknown" ELSE IF current THEN "refused" ELSE "conflict"

\* Core's audit is written, and operation() goes on to its end.
Audited(c, reader) ==
  LET v == call[c].on IN
  /\ call[c].phase = "auditing"
  /\ IF Rechecks(c)
     THEN Check(v, reader) /\ call' = [Checked(v, reader) EXCEPT ![c] = Settled(@, Outcome(c, Current(v, reader)))]
     ELSE /\ call' = [call EXCEPT ![c] = Settled(@, Outcome(c, FALSE))]
          /\ UNCHANGED <<batch, valid, results, views, accepting, closer, transport>>
  /\ UNCHANGED executed

\* The audit fails, or Core raises the cancellation that came meanwhile.
NotAudited(c) ==
  /\ call[c].phase = "auditing"
  /\ \E raised \in {"unknown"} \cup (IF call[c].cancel THEN {"cancelled"} ELSE {}) :
       call' = [call EXCEPT ![c] = Settled(@, raised)]
  /\ UNCHANGED context

\* read_resource: the HTML of the View, or an error.
Read(c, reader) ==
  LET v == call[c].on IN
  /\ call[c].phase = "reading" /\ ~call[c].cancel
  /\ Check(v, reader)
  /\ \E value \in {"html", "error"} :
       call' = [Checked(v, reader) EXCEPT ![c] = Settled(@, IF Current(v, reader) THEN value ELSE "conflict")]

ReadCancelled(c) ==
  /\ call[c].phase = "reading" /\ call[c].cancel
  /\ call' = [call EXCEPT ![c] = Settled(@, "cancelled")]
  /\ UNCHANGED context

\* revoked_outcome(), or the conflict of a read.
RevokedOutcome(c) ==
  IF ~call[c].started THEN "conflict" ELSE IF call[c].native THEN "withheld" ELSE "unknown"

\* It trusts the checks that the child made.
ResumeUnchecked(c, reader) ==
  /\ call[c].phase = "returned"
  /\ call' = [call EXCEPT ![c] = Over(@, IF @.result = "cancelled" /\ view[@.on] = "closed" /\ ~@.stopped
                                         THEN RevokedOutcome(c) ELSE @.result)]
  /\ UNCHANGED context

\* The request that awaits the child resumes, and checks the View once more.
Resume(c, reader) ==
  LET v == call[c].on IN
  /\ call[c].phase = "returned"
  /\ IF call[c].result \in Values
     THEN /\ Check(v, reader)
          /\ call' = [Checked(v, reader) EXCEPT ![c] =
                        Over(@, IF Current(v, reader) THEN @.result ELSE RevokedOutcome(c))]
     ELSE /\ call' = [call EXCEPT ![c] =
                        Over(@, IF @.result = "cancelled" /\ view[v] = "closed" /\ ~@.stopped
                                THEN RevokedOutcome(c) ELSE @.result)]
          /\ UNCHANGED <<batch, valid, results, views, accepting, closer, transport>>
  /\ UNCHANGED executed

\* The caller gives up: its cancellation is the child's, while that runs.
Stop(c) ==
  /\ call[c].phase \notin {"none", "sending", "ended"} /\ ~call[c].stopped
  /\ call' = [call EXCEPT ![c] = IF Underway(c) THEN [@ EXCEPT !.cancel = TRUE, !.stopped = TRUE]
                                 ELSE Over(@, "cancelled")]
  /\ UNCHANGED context

\* The transport's send ends, and with it the borrow of its task.
Delivered(c, reader) ==
  LET v == call[c].on IN
  /\ call[c].phase = "sending" /\ ~call[c].cancel
  /\ Check(v, reader)
  /\ \E value \in {"sent", "error"} :
       call' = [Checked(v, reader) EXCEPT ![c] =
         LET k == Settled(@, IF Current(v, reader) THEN value ELSE "conflict") IN Over(k, k.result)]

\* cancel_delivery(), once.
CancelDelivery(c) ==
  /\ call[c].phase = "sending" /\ ~call[c].struck
  /\ call' = [call EXCEPT ![c].cancel = TRUE, ![c].struck = TRUE]
  /\ UNCHANGED context

DeliveryCancelled(c) ==
  /\ call[c].phase = "sending" /\ call[c].cancel
  /\ call' = [call EXCEPT ![c] = Over(Settled(@, "cancelled"), "cancelled")]
  /\ UNCHANGED context

---------------------------------------------------------------------------
(* Revoking and joining *)

\* Retire these registrations, prune, and take the revoked Views to be joined:
\* what every drain does before its first await.
Drain(d, kind, retired) ==
  LET stale == {b \in Batch \ retired : batch[b] = "live" /\ b \notin valid}
      gone == Lapsed \cup PublishedFrom(retired \cup stale)
      now == Revoked(OpenOn(gone)) IN
  /\ closer[d].phase = "idle"
  /\ batch' = [b \in Batch |-> IF b \in retired THEN "retired" ELSE Fenced(stale)[b]]
  /\ stage' = Discarded(gone) /\ view' = now
  /\ call' = Struck(OpenOn(gone))
  /\ closer' = [closer EXCEPT ![d].phase = "joining", ![d].kind = kind, ![d].failed = FALSE,
                              ![d].todo = {v \in held : now[v] = "closed"}]
  /\ UNCHANGED <<valid, source, expired, shows, held, executed, transport>>

\* drain_retired(), by the maintenance.
Maintain == Drain(Maintenance, "drain", {}) /\ UNCHANGED accepting

\* retire_connection(), before the native transport closes.
RetireConnection(d) ==
  /\ transport
  /\ Drain(d, "retire", {b \in Batch : Registered(b)})
  /\ UNCHANGED accepting

\* AppPublications.close()
ClosePublisher(d) ==
  /\ accepting
  /\ Drain(d, "drain", {b \in Batch : Registered(b)})
  /\ accepting' = FALSE

\* close_view(): the View is revoked; its result stays.
CloseOneView(d, v) ==
  /\ closer[d].phase = "idle" /\ v \in held
  /\ view' = Revoked({v})
  /\ call' = Struck({v})
  /\ closer' = [closer EXCEPT ![d].phase = "joining", ![d].kind = "view", ![d].todo = {v}]
  /\ UNCHANGED <<batch, valid, results, shows, held, accepting, executed, transport>>

\* AppView.close() takes the tasks of the View that there are.
Join(d, v) ==
  /\ closer[d].phase = "joining" /\ closer[d].at = None /\ v \in closer[d].todo
  /\ closer' = [closer EXCEPT ![d].at = v, ![d].joins = OwnedBy(v), ![d].cancelled = FALSE,
                              ![d].todo = @ \ {v}]
  /\ UNCHANGED <<batch, valid, results, views, accepting, call, executed, transport>>

\* A closer is cancelled; it goes on joining.  The maintenance is cancelled only
\* when the feature closes.
CancelCloser(d) ==
  /\ closer[d].at # None /\ ~closer[d].cancelled
  /\ closer' = [closer EXCEPT ![d].cancelled = TRUE]
  /\ UNCHANGED <<batch, valid, results, views, accepting, call, executed, transport>>

\* A closer that is cancelled no longer waits.
JoinedAnyway(d) ==
  LET failed == closer[d].cancelled \/ \E c \in closer[d].joins : call[c].failed IN
  /\ closer[d].at # None /\ (closer[d].cancelled \/ \A c \in closer[d].joins : ~Underway(c))
  /\ held' = IF failed THEN held ELSE held \ {closer[d].at}
  /\ closer' = [closer EXCEPT ![d].at = None, ![d].joins = {}, ![d].failed = @ \/ failed]
  /\ UNCHANGED <<batch, valid, results, view, shows, accepting, call, executed, transport>>

\* _close_owned_view() releases the View, unless the join raises.
Joined(d) ==
  LET failed == closer[d].cancelled \/ \E c \in closer[d].joins : call[c].failed IN
  /\ closer[d].at # None /\ \A c \in closer[d].joins : ~Underway(c)
  /\ held' = IF failed THEN held ELSE held \ {closer[d].at}
  /\ closer' = [closer EXCEPT ![d].at = None, ![d].joins = {}, ![d].failed = @ \/ failed]
  /\ UNCHANGED <<batch, valid, results, view, shows, accepting, call, executed, transport>>

\* The closer returns or raises; the connection closes its transport either way.
\* A drain that raises may be the end of the host's maintenance.
Finish(d) ==
  LET over == closer[d].kind = "retire" IN
  /\ closer[d].phase = "joining" /\ closer[d].at = None /\ closer[d].todo = {}
  /\ \E phase \in IF d # Maintenance THEN {"ended"}
                  ELSE {"idle"} \cup (IF closer[d].failed THEN {"ended"} ELSE {}) :
       closer' = [closer EXCEPT ![d] = [Resting EXCEPT !.phase = phase]]
  /\ transport' = (transport /\ ~over)
  /\ valid' = IF over THEN {} ELSE valid
  /\ UNCHANGED <<batch, results, views, accepting, call, executed>>

---------------------------------------------------------------------------

Child(c) ==
  \/ Start(c) \/ Interrupt(c) \/ ReadCancelled(c) \/ DeliveryCancelled(c)
  \/ \E reader \in BOOLEAN : Audited(c, reader) \/ Resume(c, reader)

External(c) ==
  \/ Deny(c) \/ Execute(c) \/ Refuse(c) \/ Break(c) \/ Disapprove(c) \/ NotAudited(c)
  \/ Stop(c) \/ CancelDelivery(c)
  \/ \E v \in View : Begin(c, v)
  \/ \E reader \in BOOLEAN : \/ Admit(c, reader) \/ Send(c, reader) \/ Answer(c, reader)
                             \/ Approve(c, reader) \/ Read(c, reader) \/ Delivered(c, reader)

Proceed(d) == (\E v \in View : Join(d, v)) \/ Joined(d) \/ Finish(d)

ServerNext ==
  \/ \E b \in Batch : Register(b) \/ Retire(b) \/ LoseSource(b) \/ \E p \in Publication : Publish(p, b)
  \/ \E p \in Publication : Expire(p) \/ \E reader \in BOOLEAN : Probe(p, reader)
  \/ WithdrawPublications
  \/ \E v \in View, p \in Publication : OpenView(v, p)
  \/ \E c \in Operation : Child(c) \/ External(c)
  \/ Maintain
  \/ \E d \in Closer : RetireConnection(d) \/ ClosePublisher(d) \/ CancelCloser(d)
  \/ \E d \in Closer, v \in View : CloseOneView(d, v)
  \/ \E d \in Tasks : Proceed(d)

ServerSpec == ServerInit /\ [][ServerNext]_serverVars

\* asyncio runs what can run; a cancelled task ends; the host goes on maintaining until
\* it closes the publisher (_close_apps cancels that task first).
FairServerSpec ==
  /\ ServerSpec
  /\ \A c \in Operation : WF_serverVars(Child(c))
  /\ \A d \in Tasks : WF_serverVars(Proceed(d))
  /\ WF_serverVars(accepting /\ Maintain)

---------------------------------------------------------------------------
(* Properties *)

\* A request is told that nothing ran only if the native server never runs its
\* tool: neither before nor after.  Every other end tells it not to replay.
DefiniteMeansNothingRan ==
  \A c \in Operation : call[c].phase = "ended" /\ call[c].result \in {"conflict", "refused"} => c \notin executed

\* A task of a View is in the publisher's custody until it ends, through closes
\* that overlap, fail or are cancelled; the connection closes after all of them.
JoinedBeforeClosed ==
  \A c \in Operation : Underway(c) => call[c].on \in held /\ transport

\* A native result reaches a request only of a View that is open at that moment,
\* on a result still kept from a current registration, after the audit and with
\* the approval of the policy.
DeliveredInTime ==
  [][\A c \in Operation :
       call'[c].phase = "ended" /\ call[c].phase # "ended" /\ call'[c].result \in {"native", "html"} =>
         /\ view[call[c].on] = "open" /\ stage[shows[call[c].on]] = "kept"
         /\ shows[call[c].on] \notin expired /\ source[shows[call[c].on]] \in valid
         /\ call'[c].result = "native" => call[c].approved /\ c \in executed]_serverVars

\* A revoked View gives back its place, unless a failed drain ended the host's
\* maintenance or the publisher was closed, which ends it too: what a cancelled close
\* leaves is then joined when the feature retires the connections.
PlacesReturn ==
  \A v \in View :
    view[v] = "closed" ~>
      v \notin held \/ closer[Maintenance].phase = "ended" \/ ~accepting

=============================================================================
