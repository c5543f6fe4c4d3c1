------------------------- MODULE ConnectionOwnerProofs -------------------------
(***************************************************************************)
(* The safety properties of ConnectionOwner for any number of invocations,  *)
(* connects and rounds.  The inductive invariant IInv is the conjunction of *)
(* what the owner task, the sessions, the rounds and the effects of a call  *)
(* have to do with each other; the actions of the feature and the owner     *)
(* task leave the calls alone, and the calls leave the owner task alone.    *)
(***************************************************************************)
EXTENDS ConnectionOwner, TLAPS

\* Connects are numbered in order; the session that is current is the one of
\* the task in custody; only an open connection publishes a catalog.
Lives ==
  /\ NoOwnerLost
  /\ \A n \in Incarnation : n > drawn => life[n] = "none"
  /\ task # 0 => incarnation \in {0, task}
  /\ published # 0 => owner = "open"

\* A call under way keeps the session of its binding.
Sessions ==
  \A c \in Caller :
    /\ pc[c] \in {"idle", "bound"} => session[c] = 0
    /\ pc[c] \in {"sent", "waiting"} => session[c] = bound[c]
    /\ session[c] # 0 => session[c] = bound[c]

\* Every request but the first continues an answered round.
Rounds ==
  \A c \in Caller :
    /\ pc[c] \in {"idle", "bound"} => requests[c] = 0
    /\ requests[c] <= rounds[c] + 1
    /\ requests[c] <= asked[c] + 1
    /\ pc[c] = "waiting" => rounds[c] < MaxRounds /\ requests[c] <= asked[c]

\* Before its first intermediate answer a call has no effects unless the peer
\* performed the one request it sent, which a rejection excludes.
Effects ==
  \A c \in Caller :
    /\ pc[c] \in {"idle", "bound", "refused"} => c \notin effects /\ peer[c] = "none"
    /\ pc[c] \in {"idle", "bound", "waiting"} => reply[c] = "none"
    /\ pc[c] = "waiting" => intermediate[c] /\ peer[c] = "none"
    /\ pc[c] = "sent" /\ reply[c] = "none" /\ ~intermediate[c] /\ peer[c] = "wire" => c \notin effects
    /\ pc[c] = "sent" /\ reply[c] \in {"rejection", "mismatch"} /\ ~intermediate[c] =>
         c \notin effects /\ peer[c] = "none"
    /\ pc[c] = "sent" /\ reply[c] \notin {"none", "error"} => peer[c] = "none"
    /\ pc[c] = "rejected" => c \notin effects /\ peer[c] = "none"

IInv == TypeOK /\ Lives /\ Sessions /\ Rounds /\ Effects

\* What the feature and the owner task do, and what invocations do.
OwnerNext ==
  \/ Connect \/ Ready \/ Publish \/ Close \/ Expire \/ Joined \/ Unjoined
  \/ Enter \/ Break \/ Finish
-----------------------------------------------------------------------------
\* Nothing has happened in the initial states (connection.py, MCPConnection).
THEOREM InitIInv == Init => IInv
<1> SUFFICES ASSUME Init PROVE IInv
  OBVIOUS
<1> USE ConnectionAssumption
<1>1. TypeOK
  <2>1. /\ drawn \in 0..MaxIncarnation /\ incarnation \in 0..drawn /\ task \in 0..drawn
        /\ client \in {0, task} /\ client = 0 /\ published \in 0..drawn
    BY DEF Init
  <2>2. life \in [Incarnation -> {"none", "starting", "serving", "unwinding", "ended"}]
    BY DEF Init
  <2>3. /\ shutdown \in {"none", "closing", "expired"}
        /\ owner \in {"idle", "connecting", "listing", "open", "closing"}
        /\ authorized \subseteq Caller /\ effects \subseteq Caller
    BY DEF Init
  <2>4. /\ bound \in [Caller -> 0..drawn] /\ session \in [Caller -> 0..drawn]
        /\ rounds \in [Caller -> 0..MaxRounds]
        /\ requests \in [Caller -> Nat] /\ asked \in [Caller -> Nat]
    BY DEF Init
  <2>5. /\ pc \in [Caller -> {"idle", "bound", "sent", "waiting"} \cup Outcome]
        /\ intermediate \in [Caller -> BOOLEAN]
        /\ reply \in [Caller -> {"none", "final", "state", "input", "rejection", "mismatch", "error"}]
        /\ peer \in [Caller -> {"none", "wire", "performed"}]
    BY DEF Init
  <2> QED
    BY <2>1, <2>2, <2>3, <2>4, <2>5 DEF TypeOK
<1>2. Lives
  BY DEF Init, Lives, NoOwnerLost, Running, Incarnation
<1>3. Sessions /\ Rounds /\ Effects
  BY DEF Init, Sessions, Rounds, Effects
<1> QED
  BY <1>1, <1>2, <1>3 DEF IInv

\* The feature and the owner task leave every invocation alone.
LEMMA OwnerLeavesCalls == OwnerNext => UNCHANGED calls
BY DEF OwnerNext, Connect, Ready, Publish, Close, Expire, Joined, Unjoined, Enter, Break, Finish

\* An invocation leaves the task, the client and the catalog alone; a header
\* mismatch clears the incarnation (_retire_changed_contract).
LEMMA CallsLeaveOwner ==
  ASSUME NEW c \in Caller, CallerNext(c)
  PROVE  UNCHANGED <<lifetime, feature>> /\ incarnation' \in {incarnation, 0}
BY DEF CallerNext, Bind, Dispatch, Refuse, Return, Pause, Continue, GiveUp, Reject, Lose,
       Cancel, LoseAuthority, Perform, Answer

\* A request may only proceed on the client of its own incarnation.
LEMMA ProceedOnOwnSession ==
  ASSUME TypeOK, Lives, NEW c \in Caller, MayProceed(c)
  PROVE  /\ client = bound[c] /\ bound[c] # 0 /\ owner = "open"
         /\ life[bound[c]] \in {"serving", "unwinding"}
BY DEF TypeOK, Lives, MayProceed, Current, IsConnected
-----------------------------------------------------------------------------
\* Custody: a task that runs is the one in _task, whatever connect, close, its
\* deadline and the task itself do.
LEMMA OwnerKeepsLives ==
  ASSUME TypeOK, Lives, OwnerNext
  PROVE  TypeOK' /\ Lives'
<1> USE ConnectionAssumption
<1> USE DEF Incarnation
<1>0. UNCHANGED calls
  BY OwnerLeavesCalls
<1>1. /\ drawn' \in 0..MaxIncarnation /\ drawn <= drawn'
      /\ incarnation' \in 0..drawn'
      /\ task' \in 0..drawn'
      /\ life' \in [Incarnation -> {"none", "starting", "serving", "unwinding", "ended"}]
      /\ shutdown' \in {"none", "closing", "expired"}
      /\ owner' \in {"idle", "connecting", "listing", "open", "closing"}
      /\ published' \in 0..drawn'
  <2>1. CASE Connect
    BY <2>1 DEF Connect, TypeOK
  <2>2. CASE Close
    BY <2>2 DEF Close, TypeOK
  <2>3. CASE Ready \/ Publish \/ Joined \/ Unjoined
    BY <2>3 DEF Ready, Publish, Joined, Unjoined, TypeOK, lifetime
  <2>4. CASE Expire \/ Enter
    BY <2>4 DEF Expire, Enter, TypeOK, feature
  <2>5. CASE Break
    BY <2>5 DEF Break, TypeOK, feature
  <2>6. CASE Finish
    BY <2>6 DEF Finish, TypeOK, feature
  <2> QED
    BY <2>1, <2>2, <2>3, <2>4, <2>5, <2>6 DEF OwnerNext
<1>2. Lives' /\ client' \in {0, task'} /\ (client' # 0 => life'[client'] \in {"serving", "unwinding"})
  <2>1. CASE Connect
    BY <2>1 DEF Connect, TypeOK, Lives, NoOwnerLost, Running
  <2>2. CASE Ready \/ Publish \/ Unjoined
    BY <2>2 DEF Ready, Publish, Unjoined, TypeOK, Lives, NoOwnerLost, Running, lifetime
  <2>3. CASE Close
    BY <2>3 DEF Close, TypeOK, Lives, NoOwnerLost, Running
  <2>4. CASE Expire
    BY <2>4 DEF Expire, TypeOK, Lives, NoOwnerLost, Running, feature
  <2>5. CASE Joined
    BY <2>5 DEF Joined, TypeOK, Lives, NoOwnerLost, Running
  <2>6. CASE Enter
    BY <2>6 DEF Enter, TypeOK, Lives, NoOwnerLost, Running, feature
  <2>7. CASE Break
    BY <2>7 DEF Break, TypeOK, Lives, NoOwnerLost, Running, feature
  <2>8. CASE Finish
    BY <2>8 DEF Finish, TypeOK, Lives, NoOwnerLost, Running, feature
  <2> QED
    BY <2>1, <2>2, <2>3, <2>4, <2>5, <2>6, <2>7, <2>8 DEF OwnerNext
<1>3. TypeOK'
  BY <1>0, <1>1, <1>2 DEF TypeOK, calls
<1> QED
  BY <1>2, <1>3

\* An invocation keeps the types, and the custody of the task.
LEMMA CallsKeepLives ==
  ASSUME IInv, NEW c \in Caller, CallerNext(c)
  PROVE  TypeOK' /\ Lives'
<1> USE ConnectionAssumption
<1>1. UNCHANGED <<lifetime, feature>> /\ incarnation' \in {incarnation, 0}
  BY CallsLeaveOwner
<1>2. Lives'
  BY <1>1 DEF IInv, TypeOK, Lives, NoOwnerLost, Running, Incarnation, lifetime, feature
<1>3. pc' \in [Caller -> {"idle", "bound", "sent", "waiting"} \cup Outcome]
  BY DEF IInv, TypeOK, Outcome, CallerNext, Bind, Dispatch, Refuse, Return, Pause, Continue,
         GiveUp, Reject, Lose, Cancel, LoseAuthority, Perform, Answer, Goto, Send, Uncertain
<1>4. authorized' \subseteq Caller /\ bound' \in [Caller -> 0..drawn] /\ session' \in [Caller -> 0..drawn]
  BY DEF IInv, TypeOK, CallerNext, Bind, Dispatch, Refuse, Return, Pause, Continue, GiveUp,
         Reject, Lose, Cancel, LoseAuthority, Perform, Answer, Send
<1>5. /\ intermediate' \in [Caller -> BOOLEAN]
      /\ reply' \in [Caller -> {"none", "final", "state", "input", "rejection", "mismatch", "error"}]
      /\ peer' \in [Caller -> {"none", "wire", "performed"}]
      /\ effects' \subseteq Caller
  <2>1. CASE GiveUp(c)
    BY <2>1 DEF IInv, TypeOK, GiveUp
  <2>2. CASE Answer(c)
    BY <2>2 DEF IInv, TypeOK, Answer
  <2>3. CASE Bind(c) \/ Dispatch(c) \/ Refuse(c) \/ Return(c) \/ Pause(c) \/ Continue(c)
             \/ Reject(c) \/ Lose(c) \/ Cancel(c) \/ LoseAuthority(c) \/ Perform(c)
    BY <2>3 DEF IInv, TypeOK, Bind, Dispatch, Refuse, Return, Pause, Continue, Reject, Lose,
           Cancel, LoseAuthority, Perform, Send
  <2> QED
    BY <2>1, <2>2, <2>3 DEF CallerNext
<1>6. rounds' \in [Caller -> 0..MaxRounds] /\ requests' \in [Caller -> Nat] /\ asked' \in [Caller -> Nat]
  BY DEF IInv, TypeOK, Rounds, CallerNext, Bind, Dispatch, Refuse, Return, Pause, Continue,
         GiveUp, Reject, Lose, Cancel, LoseAuthority, Perform, Answer, Send
<1>7. TypeOK'
  BY <1>1, <1>3, <1>4, <1>5, <1>6 DEF IInv, TypeOK, lifetime, feature
<1> QED
  BY <1>2, <1>7
-----------------------------------------------------------------------------
\* A call under way stays on the session of its binding, through every round.
LEMMA CallsKeepSessions ==
  ASSUME IInv, NEW c \in Caller, CallerNext(c)
  PROVE  Sessions'
<1>1. CASE Bind(c)
  BY <1>1 DEF IInv, TypeOK, Sessions, Bind, Goto
<1>2. CASE Dispatch(c)
  BY <1>2, ProceedOnOwnSession DEF IInv, TypeOK, Sessions, Dispatch, Send, Goto
<1>3. CASE Pause(c) \/ Continue(c)
  BY <1>3 DEF IInv, TypeOK, Sessions, Pause, Continue, Send, Goto, Arrived
<1>4. CASE Refuse(c) \/ Return(c) \/ GiveUp(c) \/ Reject(c) \/ Lose(c) \/ Cancel(c)
  BY <1>4 DEF IInv, TypeOK, Sessions, Refuse, Return, GiveUp, Reject, Lose, Cancel, Goto, Uncertain
<1>5. CASE LoseAuthority(c) \/ Perform(c) \/ Answer(c)
  BY <1>5 DEF IInv, TypeOK, Sessions, LoseAuthority, Perform, Answer
<1> QED
  BY <1>1, <1>2, <1>3, <1>4, <1>5 DEF CallerNext

\* A request is only sent first, or after an answered round.
LEMMA CallsKeepRounds ==
  ASSUME IInv, NEW c \in Caller, CallerNext(c)
  PROVE  Rounds'
<1> USE ConnectionAssumption
<1>1. CASE Bind(c)
  BY <1>1 DEF IInv, TypeOK, Rounds, Bind, Goto
<1>2. CASE Dispatch(c)
  BY <1>2 DEF IInv, TypeOK, Rounds, Dispatch, Send, Goto
<1>3. CASE Pause(c)
  BY <1>3 DEF IInv, TypeOK, Rounds, Pause, Goto
<1>4. CASE Continue(c)
  BY <1>4 DEF IInv, TypeOK, Rounds, Continue, Send, Goto
<1>5. CASE Refuse(c) \/ Return(c) \/ GiveUp(c) \/ Reject(c) \/ Lose(c) \/ Cancel(c)
  BY <1>5 DEF IInv, TypeOK, Rounds, Refuse, Return, GiveUp, Reject, Lose, Cancel, Goto, Uncertain
<1>6. CASE LoseAuthority(c) \/ Perform(c) \/ Answer(c)
  BY <1>6 DEF IInv, TypeOK, Rounds, LoseAuthority, Perform, Answer
<1> QED
  BY <1>1, <1>2, <1>3, <1>4, <1>5, <1>6 DEF CallerNext

\* A plain error is only reported where nothing can have been performed.
LEMMA CallsKeepEffects ==
  ASSUME IInv, NEW c \in Caller, CallerNext(c)
  PROVE  Effects'
<1>1. CASE Bind(c) \/ Refuse(c)
  BY <1>1 DEF IInv, TypeOK, Effects, Bind, Refuse, Goto
<1>2. CASE Dispatch(c)
  BY <1>2 DEF IInv, TypeOK, Effects, Dispatch, Send, Goto
<1>3. CASE Pause(c)
  BY <1>3 DEF IInv, TypeOK, Effects, Pause, Goto, Arrived
<1>4. CASE Continue(c)
  BY <1>4 DEF IInv, TypeOK, Effects, Continue, Send, Goto
<1>5. CASE Return(c) \/ Lose(c) \/ Cancel(c)
  BY <1>5 DEF IInv, TypeOK, Effects, Return, Lose, Cancel, Goto, Uncertain
<1>6. CASE GiveUp(c)
  BY <1>6 DEF IInv, TypeOK, Effects, GiveUp, Goto
<1>7. CASE Reject(c)
  BY <1>7 DEF IInv, TypeOK, Effects, Reject, Goto, Uncertain, Arrived
<1>8. CASE LoseAuthority(c)
  BY <1>8 DEF IInv, Effects, LoseAuthority
<1>9. CASE Perform(c)
  BY <1>9 DEF IInv, TypeOK, Effects, Perform
<1>10. CASE Answer(c)
  BY <1>10 DEF IInv, TypeOK, Effects, Answer
<1> QED
  BY <1>1, <1>2, <1>3, <1>4, <1>5, <1>6, <1>7, <1>8, <1>9, <1>10 DEF CallerNext
-----------------------------------------------------------------------------
\* The invariant is inductive: no step of the feature, the owner task, an
\* invocation or the peer breaks it.
THEOREM StepIInv == IInv /\ [Next]_vars => IInv'
<1> SUFFICES ASSUME IInv, [Next]_vars PROVE IInv'
  OBVIOUS
<1>1. CASE OwnerNext
  <2>1. TypeOK' /\ Lives'
    BY <1>1, OwnerKeepsLives DEF IInv
  <2>2. UNCHANGED calls
    BY <1>1, OwnerLeavesCalls
  <2>3. Sessions' /\ Rounds' /\ Effects'
    BY <2>2 DEF IInv, Sessions, Rounds, Effects, calls
  <2> QED
    BY <2>1, <2>3 DEF IInv
<1>2. ASSUME NEW c \in Caller, CallerNext(c) PROVE IInv'
  BY <1>2, CallsKeepLives, CallsKeepSessions, CallsKeepRounds, CallsKeepEffects DEF IInv
<1>3. CASE UNCHANGED vars
  BY <1>3 DEF IInv, TypeOK, Lives, NoOwnerLost, Running, Sessions, Rounds, Effects, vars
<1> QED
  BY <1>1, <1>2, <1>3 DEF Next, OwnerNext

\* The owner task, the sessions, the rounds and the effects of calls agree in
\* every reachable state.
THEOREM InvariantIInv == Spec => []IInv
BY InitIInv, StepIInv, PTL DEF Spec

\* Every variable keeps its type, and the client belongs to the task in custody.
THEOREM TypeCorrect == Spec => []TypeOK
<1>1. IInv => TypeOK
  BY DEF IInv
<1> QED
  BY <1>1, InvariantIInv, PTL

\* A tool call reported as an ordinary error was not performed and will not be.
THEOREM OrdinaryErrorsHaveNoEffects == Spec => []ErrorsHaveNoEffects
<1>1. IInv => ErrorsHaveNoEffects
  BY DEF IInv, Effects, ErrorsHaveNoEffects
<1> QED
  BY <1>1, InvariantIInv, PTL

\* All requests of a call go to the session that advertised its tool.
THEOREM CallsStayOnTheirSession == Spec => []SameSession
<1>1. IInv => SameSession
  BY DEF IInv, Sessions, SameSession
<1> QED
  BY <1>1, InvariantIInv, PTL

\* No request is replayed, and the rounds of a call are bounded.
THEOREM RequestsAreNotReplayed == Spec => []NoReplay
<1>1. IInv => NoReplay
  <2> SUFFICES ASSUME IInv, NEW c \in Caller
               PROVE  requests[c] <= asked[c] + 1 /\ requests[c] <= MaxRounds + 1
    BY DEF NoReplay
  <2>1. rounds[c] \in Nat /\ requests[c] \in Nat /\ rounds[c] <= MaxRounds
    BY ConnectionAssumption DEF IInv, TypeOK
  <2>2. requests[c] <= rounds[c] + 1 /\ requests[c] <= asked[c] + 1
    BY DEF IInv, Rounds
  <2> QED
    BY <2>1, <2>2, ConnectionAssumption DEF ConnectionAssumption
<1> QED
  BY <1>1, InvariantIInv, PTL

\* The owner task that runs is the one in custody.
THEOREM OwnersStayInCustody == Spec => []NoOwnerLost
<1>1. IInv => NoOwnerLost
  BY DEF IInv, Lives
<1> QED
  BY <1>1, InvariantIInv, PTL

\* A value is delivered on a live, published session to an authorized caller.
THEOREM DeliveredValuesAreCurrent == Spec => ValuesAreCurrent
<1> DEFINE Deliver == \A c \in Caller : pc[c] # "value" /\ pc'[c] = "value" =>
             /\ c \in authorized
             /\ owner = "open" /\ published = session[c]
             /\ life[session[c]] # "ended"
<1>1. IInv /\ [Next]_vars => [Deliver]_vars
  <2> SUFFICES ASSUME IInv, Next, NEW c \in Caller, pc[c] # "value", pc'[c] = "value"
               PROVE  /\ c \in authorized
                      /\ owner = "open" /\ published = session[c]
                      /\ life[session[c]] # "ended"
    BY DEF vars
  <2>1. ~OwnerNext
    BY OwnerLeavesCalls DEF calls
  <2>2. PICK d \in Caller : CallerNext(d)
    BY <2>1 DEF Next, OwnerNext
  <2>3. c = d /\ Return(c)
    BY <2>2 DEF IInv, TypeOK, CallerNext, Bind, Dispatch, Refuse, Return, Pause, Continue,
           GiveUp, Reject, Lose, Cancel, LoseAuthority, Perform, Answer, Goto, Send, Uncertain
  <2>4. MayProceed(c) /\ pc[c] = "sent"
    BY <2>3 DEF Return, Arrived
  <2>5. session[c] = bound[c]
    BY <2>4 DEF IInv, Sessions
  <2> QED
    BY <2>4, <2>5, ProceedOnOwnSession DEF IInv, MayProceed
<1> QED
  BY <1>1, InvariantIInv, PTL DEF Spec, ValuesAreCurrent
=============================================================================
