---------------------------- MODULE ConnectionOwner ----------------------------
(***************************************************************************)
(* One MCPConnection (connection.py), the task that owns its SDK resources, *)
(* the feature code that connects, publishes and closes it, possibly again  *)
(* and again, and the BoundMCPCaller handles of its advertised tools.       *)
(*                                                                          *)
(* A step lies between two awaits.  An incarnation is numbered by the       *)
(* connect that drew it and names the task, the SDK client and the session  *)
(* of that connect too.  The feature calls connect and close one after the  *)
(* other, under the gate of its name.  The peer decides when it performs a  *)
(* request and what it answers; deadlines are steps that may come any time. *)
(* Arguments, opaque state and the contents of results are left out.        *)
(***************************************************************************)
EXTENDS Naturals

CONSTANTS
  Caller,          \* invocations of bound callers
  Reader,          \* the invocations that are read_resource
  MaxRounds,       \* _max_state_only_rounds
  MaxIncarnation   \* bound on the number of connects

ASSUME ConnectionAssumption ==
  /\ Reader \subseteq Caller
  /\ MaxRounds \in Nat
  /\ MaxIncarnation \in Nat \ {0}

Incarnation == 1..MaxIncarnation

VARIABLES
  drawn,         \* the number of connects so far
  incarnation,   \* _incarnation, 0 when None
  task,          \* _task, 0 when None
  life,          \* the owner task of each incarnation
  client,        \* _client, 0 when None
  shutdown,      \* _shutdown: none, closing, expired
  owner,         \* where the feature is
  published,     \* incarnation whose catalog the feature publishes, or 0
  authorized,    \* callers whose round_check still passes
  bound,         \* incarnation of a BoundMCPCaller
  pc,            \* where each invocation is, or its outcome
  session,       \* the client an invocation captured
  intermediate,  \* progress.intermediate
  rounds,        \* continuations sent
  reply,         \* an answer that has arrived and is not processed yet
  peer,          \* what the peer did with the last request
  effects,       \* history: invocations the peer performed
  requests,      \* history: requests sent by an invocation
  asked          \* history: state-only answers it received

vars == <<drawn, incarnation, task, life, client, shutdown, owner, published,
          authorized, bound, pc, session, intermediate, rounds, reply, peer, effects,
          requests, asked>>

lifetime == <<drawn, task, life, client, shutdown>>
feature == <<owner, published>>
calls == <<authorized, bound, pc, session, intermediate, rounds, reply, peer, effects,
           requests, asked>>

Outcome == {"value", "refused", "rejected", "failed", "unknown", "cancelled"}

\* The SDK client belongs to the task in custody and goes away with it.
TypeOK ==
  /\ drawn \in 0..MaxIncarnation
  /\ incarnation \in 0..drawn
  /\ task \in 0..drawn
  /\ life \in [Incarnation -> {"none", "starting", "serving", "unwinding", "ended"}]
  /\ client \in {0, task}
  /\ client # 0 => life[client] \in {"serving", "unwinding"}
  /\ shutdown \in {"none", "closing", "expired"}
  /\ owner \in {"idle", "connecting", "listing", "open", "closing"}
  /\ published \in 0..drawn
  /\ authorized \subseteq Caller
  /\ bound \in [Caller -> 0..drawn]
  /\ pc \in [Caller -> {"idle", "bound", "sent", "waiting"} \cup Outcome]
  /\ session \in [Caller -> 0..drawn]
  /\ intermediate \in [Caller -> BOOLEAN]
  /\ rounds \in [Caller -> 0..MaxRounds]
  /\ reply \in [Caller -> {"none", "final", "state", "input", "rejection", "mismatch", "error"}]
  /\ peer \in [Caller -> {"none", "wire", "performed"}]
  /\ effects \subseteq Caller
  /\ requests \in [Caller -> Nat]
  /\ asked \in [Caller -> Nat]

Init ==
  /\ drawn = 0
  /\ incarnation = 0
  /\ task = 0
  /\ life = [n \in Incarnation |-> "none"]
  /\ client = 0
  /\ shutdown = "none"
  /\ owner = "idle"
  /\ published = 0
  /\ authorized = Caller
  /\ bound = [c \in Caller |-> 0]
  /\ pc = [c \in Caller |-> "idle"]
  /\ session = [c \in Caller |-> 0]
  /\ intermediate = [c \in Caller |-> FALSE]
  /\ rounds = [c \in Caller |-> 0]
  /\ reply = [c \in Caller |-> "none"]
  /\ peer = [c \in Caller |-> "none"]
  /\ effects = {}
  /\ requests = [c \in Caller |-> 0]
  /\ asked = [c \in Caller |-> 0]
-----------------------------------------------------------------------------
Running(n) == life[n] \in {"starting", "serving", "unwinding"}

IsConnected ==
  /\ incarnation # 0
  /\ client # 0
  /\ task # 0
  /\ Running(task)
  /\ shutdown = "none"

\* The incarnation property, and require_incarnation.
Current(n) == n # 0 /\ IsConnected /\ incarnation = n

\* _require_round: the feature still publishes the caller's catalog, the
\* session is the caller's own, and the host still stands behind the request.
MayProceed(c) ==
  /\ published = bound[c]
  /\ Current(bound[c])
  /\ c \in authorized
-----------------------------------------------------------------------------
(* connect and close, called by the feature.                               *)

Connect ==
  /\ owner = "idle"
  /\ task = 0
  /\ drawn < MaxIncarnation
  /\ drawn' = drawn + 1
  /\ incarnation' = drawn'
  /\ task' = drawn'
  /\ life' = [life EXCEPT ![drawn'] = "starting"]
  /\ owner' = "connecting"
  /\ UNCHANGED <<client, shutdown, published, calls>>

\* The ready future: the client was entered, then its tools are listed.
Ready ==
  /\ owner = "connecting"
  /\ life[task] = "serving"
  /\ owner' = "listing"
  /\ UNCHANGED <<lifetime, incarnation, published, calls>>

\* bind_tool_caller refuses a connection that was lost meanwhile.
Publish ==
  /\ owner = "listing"
  /\ IsConnected
  /\ owner' = "open"
  /\ published' = incarnation
  /\ UNCHANGED <<lifetime, incarnation, calls>>

\* close: a failed or abandoned startup, a catalog that could not be listed or
\* bound, an open connection whose catalog is withdrawn first, or another
\* attempt at a close that failed.
Close ==
  /\ owner \in {"connecting", "listing", "open", "idle"}
  /\ task # 0
  /\ published' = 0
  /\ owner' = "closing"
  /\ IF Running(task) /\ shutdown = "none"
     THEN /\ shutdown' = "closing"
          /\ life' = [life EXCEPT ![task] = "unwinding"]
     ELSE UNCHANGED <<shutdown, life>>
  /\ UNCHANGED <<drawn, incarnation, task, client, calls>>

\* The graceful deadline interrupts the cleanup once more.
Expire ==
  /\ shutdown = "closing"
  /\ Running(task)
  /\ shutdown' = "expired"
  /\ UNCHANGED <<drawn, incarnation, task, life, client, feature, calls>>

\* The join returns, or raises what the cleanup raised; both drop the task.
Joined ==
  /\ owner = "closing"
  /\ ~Running(task)
  /\ task' = 0
  /\ client' = 0
  /\ shutdown' = "none"
  /\ owner' = "idle"
  /\ UNCHANGED <<drawn, incarnation, life, published, calls>>

\* Both budgets passed, or the caller gave up: the task is dropped regardless.
UnjoinedDropped ==
  /\ owner = "closing"
  /\ Running(task)
  /\ task' = 0
  /\ client' = 0
  /\ shutdown' = "none"
  /\ owner' = "idle"
  /\ UNCHANGED <<drawn, incarnation, life, published, calls>>

\* Both budgets passed, or the caller gave up: the task stays in custody.
Unjoined ==
  /\ owner = "closing"
  /\ Running(task)
  /\ owner' = "idle"
  /\ UNCHANGED <<lifetime, incarnation, published, calls>>
-----------------------------------------------------------------------------
(* _run, the owner task.                                                   *)

Enter ==
  /\ task # 0
  /\ life[task] = "starting"
  /\ life' = [life EXCEPT ![task] = "serving"]
  /\ client' = task
  /\ UNCHANGED <<drawn, incarnation, task, shutdown, feature, calls>>

\* The transport fails; the resources are being exited, and nobody was told.
Break ==
  /\ task # 0
  /\ life[task] \in {"starting", "serving"}
  /\ life' = [life EXCEPT ![task] = "unwinding"]
  /\ UNCHANGED <<drawn, incarnation, task, client, shutdown, feature, calls>>

Finish ==
  \E n \in Incarnation :
    /\ life[n] = "unwinding"
    /\ life' = [life EXCEPT ![n] = "ended"]
    /\ client' = 0
    /\ UNCHANGED <<drawn, incarnation, task, shutdown, feature, calls>>
-----------------------------------------------------------------------------
(* call_tool and read_resource through a BoundMCPCaller.                   *)

Goto(c, phase) == pc' = [pc EXCEPT ![c] = phase]

\* A handle of the published catalog is picked up, to be called some time later.
Bind(c) ==
  /\ pc[c] = "idle"
  /\ published # 0
  /\ bound' = [bound EXCEPT ![c] = published]
  /\ Goto(c, "bound")
  /\ UNCHANGED <<lifetime, incarnation, feature, authorized, session, intermediate, rounds,
                 reply, peer, effects, requests, asked>>

Send(c, via) ==
  /\ session' = [session EXCEPT ![c] = via]
  /\ requests' = [requests EXCEPT ![c] = @ + 1]
  /\ peer' = [peer EXCEPT ![c] = "wire"]
  /\ Goto(c, "sent")

\* Admission was awaited; the check, the capture of the client and the first
\* request are one step.
Dispatch(c) ==
  /\ pc[c] = "bound"
  /\ MayProceed(c)
  /\ Send(c, client)
  /\ UNCHANGED <<lifetime, incarnation, feature, authorized, bound, intermediate, rounds,
                 reply, effects, asked>>

\* The check or the admission failed, and nothing was sent.
Refuse(c) ==
  /\ pc[c] = "bound"
  /\ Goto(c, "refused")
  /\ UNCHANGED <<lifetime, incarnation, feature, authorized, bound, session, intermediate,
                 rounds, reply, peer, effects, requests, asked>>

\* An error of a request that was sent.  A tool may have run; a resource read is
\* only uncertain after an intermediate answer, or when its result is invalid.
Uncertain(c) ==
  Goto(c, IF c \in Reader /\ ~intermediate[c] THEN "failed" ELSE "unknown")

Arrived(c, answer) == pc[c] = "sent" /\ reply[c] = answer

\* The answer is returned without a second look at the session.
ReturnUnchecked(c) ==
  /\ Arrived(c, "final")
  /\ Goto(c, "value")
  /\ UNCHANGED <<lifetime, incarnation, feature, authorized, bound, session, intermediate,
                 rounds, reply, peer, effects, requests, asked>>

Return(c) ==
  /\ Arrived(c, "final")
  /\ MayProceed(c)
  /\ Goto(c, "value")
  /\ UNCHANGED <<lifetime, incarnation, feature, authorized, bound, session, intermediate,
                 rounds, reply, peer, effects, requests, asked>>

\* A state-only answer is continued after a pause, within the limit.
Pause(c) ==
  /\ Arrived(c, "state")
  /\ MayProceed(c)
  /\ rounds[c] < MaxRounds
  /\ intermediate' = [intermediate EXCEPT ![c] = TRUE]
  /\ asked' = [asked EXCEPT ![c] = @ + 1]
  /\ reply' = [reply EXCEPT ![c] = "none"]
  /\ Goto(c, "waiting")
  /\ UNCHANGED <<lifetime, incarnation, feature, authorized, bound, session, rounds, peer,
                 effects, requests>>

\* The next round goes out through whatever client the connection has now.
ContinueAnywhere(c) ==
  /\ pc[c] = "waiting"
  /\ IsConnected
  /\ rounds' = [rounds EXCEPT ![c] = @ + 1]
  /\ Send(c, client)
  /\ UNCHANGED <<lifetime, incarnation, feature, authorized, bound, intermediate, reply,
                 effects, asked>>

Continue(c) ==
  /\ pc[c] = "waiting"
  /\ MayProceed(c)
  /\ rounds' = [rounds EXCEPT ![c] = @ + 1]
  /\ Send(c, session[c])
  /\ UNCHANGED <<lifetime, incarnation, feature, authorized, bound, intermediate, reply,
                 effects, asked>>

\* An intermediate answer that may not be continued, or asks for input, and a
\* session or an authority lost while the answer was on its way.
GiveUp(c) ==
  /\ \/ Arrived(c, "final") /\ ~MayProceed(c)
     \/ Arrived(c, "state") /\ (~MayProceed(c) \/ rounds[c] >= MaxRounds)
     \/ Arrived(c, "input")
     \/ pc[c] = "waiting" /\ ~MayProceed(c)
  /\ intermediate' = [intermediate EXCEPT ![c] = @ \/ reply[c] \in {"state", "input"}]
  /\ Goto(c, IF c \in Reader /\ ~intermediate'[c] THEN "failed" ELSE "unknown")
  /\ UNCHANGED <<lifetime, incarnation, feature, authorized, bound, session, rounds, reply,
                 peer, effects, requests, asked>>

\* A standard rejection is reported as one in whatever round it comes.
RejectAnyRound(c) ==
  /\ \/ Arrived(c, "rejection") /\ UNCHANGED incarnation
     \/ Arrived(c, "mismatch") /\ incarnation' = IF c \in Reader THEN incarnation ELSE 0
  /\ Goto(c, IF c \in Reader THEN "failed" ELSE "rejected")
  /\ UNCHANGED <<lifetime, feature, authorized, bound, session, intermediate, rounds, reply,
                 peer, effects, requests, asked>>

\* A rejection before execution keeps its original error, unless an earlier
\* round was answered.  A tool's header mismatch withdraws the whole catalog.
Reject(c) ==
  /\ \/ Arrived(c, "rejection") /\ UNCHANGED incarnation
     \/ Arrived(c, "mismatch") /\ incarnation' = IF c \in Reader THEN incarnation ELSE 0
  /\ IF c \in Reader \/ intermediate[c] THEN Uncertain(c) ELSE Goto(c, "rejected")
  /\ UNCHANGED <<lifetime, feature, authorized, bound, session, intermediate, rounds, reply,
                 peer, effects, requests, asked>>

\* The request is sent once more after a transport error.
Resend(c) ==
  /\ Arrived(c, "error")
  /\ MayProceed(c)
  /\ reply' = [reply EXCEPT ![c] = "none"]
  /\ Send(c, session[c])
  /\ UNCHANGED <<lifetime, incarnation, feature, authorized, bound, intermediate, rounds,
                 effects, asked>>

\* A transport error, an invalid result, or the deadline of the whole call.
Lose(c) ==
  /\ Arrived(c, "error") \/ (pc[c] \in {"sent", "waiting"} /\ reply[c] = "none")
  /\ Uncertain(c) \/ Goto(c, "unknown")
  /\ UNCHANGED <<lifetime, incarnation, feature, authorized, bound, session, intermediate,
                 rounds, reply, peer, effects, requests, asked>>

Cancel(c) ==
  /\ pc[c] \in {"bound", "sent", "waiting"}
  /\ Goto(c, "cancelled")
  /\ UNCHANGED <<lifetime, incarnation, feature, authorized, bound, session, intermediate,
                 rounds, reply, peer, effects, requests, asked>>

\* External: the host's require_authority, or the lease, refuses from now on.
LoseAuthority(c) ==
  /\ c \in authorized
  /\ authorized' = authorized \ {c}
  /\ UNCHANGED <<lifetime, incarnation, feature, bound, pc, session, intermediate, rounds,
                 reply, peer, effects, requests, asked>>
-----------------------------------------------------------------------------
(* External: the MCP server behind the session.                            *)

\* A request on the wire may be performed late, whatever became of its caller.
Perform(c) ==
  /\ peer[c] = "wire"
  /\ peer' = [peer EXCEPT ![c] = "performed"]
  /\ effects' = effects \cup {c}
  /\ UNCHANGED <<lifetime, incarnation, feature, authorized, bound, pc, session, intermediate,
                 rounds, reply, requests, asked>>

\* A final answer follows the execution, an intermediate one may; a rejection
\* excludes it.  An ended session only yields errors.
Answer(c) ==
  \E answer \in {"final", "state", "input", "rejection", "mismatch", "error"} :
    /\ pc[c] = "sent"
    /\ reply[c] = "none"
    /\ answer = "final" => peer[c] = "performed"
    /\ answer \in {"rejection", "mismatch"} => peer[c] = "wire"
    /\ Running(session[c]) \/ answer = "error"
    /\ reply' = [reply EXCEPT ![c] = answer]
    /\ peer' = [peer EXCEPT ![c] = IF answer = "error" THEN @ ELSE "none"]
    /\ UNCHANGED <<lifetime, incarnation, feature, authorized, bound, pc, session,
                   intermediate, rounds, effects, requests, asked>>
-----------------------------------------------------------------------------
CallerNext(c) ==
  \/ Bind(c) \/ Dispatch(c) \/ Refuse(c) \/ Return(c) \/ Pause(c) \/ Continue(c)
  \/ GiveUp(c) \/ Reject(c) \/ Lose(c) \/ Cancel(c) \/ LoseAuthority(c)
  \/ Perform(c) \/ Answer(c)

Next ==
  \/ Connect \/ Ready \/ Publish \/ Close \/ Expire \/ Joined \/ Unjoined
  \/ Enter \/ Break \/ Finish
  \/ \E c \in Caller : CallerNext(c)

Spec == Init /\ [][Next]_vars
-----------------------------------------------------------------------------
\* A tool call that ends in an ordinary error was not performed and never will
\* be: everything else is an unknown outcome, or the caller's own cancellation.
\* A rejection after an answered round proves nothing (call_tool, README).
ErrorsHaveNoEffects ==
  \A c \in Caller \ Reader : pc[c] \in {"refused", "rejected"} => c \notin effects /\ peer[c] # "wire"

\* Every request of a call goes to the session that advertised the tool, also
\* when the connection object was closed and connected again between two rounds.
SameSession == \A c \in Caller : session[c] # 0 => session[c] = bound[c]

\* A request is repeated only to continue a state-only answer, and at most
\* MaxRounds times; a lost or late answer is never replayed (_complete).
NoReplay ==
  \A c \in Caller : requests[c] <= asked[c] + 1 /\ requests[c] <= MaxRounds + 1

\* An owner task that has not ended is the one in custody: deadlines, failed
\* cleanups and abandoned joins never lose it, and no second one starts beside
\* it (_close_transport).
NoOwnerLost == \A n \in Incarnation : Running(n) => task = n

\* A value is only delivered while its session, its catalog and its authority
\* are still the caller's own, however long the answer was on its way.
ValuesAreCurrent ==
  [][\A c \in Caller : pc[c] # "value" /\ pc'[c] = "value" =>
       /\ c \in authorized
       /\ owner = "open" /\ published = session[c]
       /\ life[session[c]] # "ended"]_vars
=============================================================================
