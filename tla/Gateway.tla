-------------------------------- MODULE Gateway --------------------------------
(***************************************************************************)
(* Docker's MCP gateway as the feature drives it (gateway.py, the           *)
(* MCPGatewayManager of manager.py, the gateway operations of feature.py):  *)
(* one process serves several servers, one connection reads its catalog,    *)
(* and every change of the set restarts both.                               *)
(*                                                                          *)
(* _docker_operations admits one call at a time; call is what it is doing.  *)
(* A step lies between two awaits, any of which may fail or be cancelled,   *)
(* while the process exits, or the session breaks, on its own.  A launch    *)
(* numbers the process and the connection made to it.  The session timeout  *)
(* is left out, for no caller sets one, and so are catalog checks and the   *)
(* drain thread.                                                            *)
(***************************************************************************)
EXTENDS Naturals

CONSTANTS
  Server,      \* names of the gateway's servers
  MaxLaunches  \* bound on the number of processes

ASSUME GatewayAssumption == MaxLaunches \in Nat

Launch == 1..MaxLaunches

VARIABLES
  closing,     \* _closing
  owned,       \* gateway_manager is not None
  process,     \* gateway.process, 0 when None
  os,          \* the state of each process
  connection,  \* manager.connection, 0 when None
  session,     \* the owner task of each connection
  requested,   \* gateway.requested_servers
  mounted,     \* servers whose tools the host registry holds
  saved,       \* gateway servers with an enabled row
  launched,    \* the number of launches so far
  call,        \* the operation under way
  restoring,   \* on_agent_ready: the rows it read and has not used yet
  removed,     \* history: servers whose row was cleared on request, not asked for since
  excused      \* history: those of them that an interrupted clearing left served, or
               \* that a restore started from a row it had read before

aside == <<restoring, removed, excused>>
vars == <<closing, owned, process, os, connection, session, requested, mounted, saved,
          launched, call, aside>>

physical == <<process, os, connection, session, launched>>

Idle == [kind |-> "none", phase |-> "none", goal |-> {}, target |-> {},
         fresh |-> FALSE, failing |-> FALSE]

\* goal: the servers the gateway shall serve then; target: those the call names;
\* fresh: through a new manager (or none), else by a restart in place; failing:
\* an error is raised when the cleanup under way ends.
Call == [kind: {"none", "start", "load", "unload", "stop", "shutdown"},
         phase: {"none", "forgetting", "unlinking", "stopping", "launching", "linking", "saving"},
         goal: SUBSET Server, target: SUBSET Server, fresh: BOOLEAN, failing: BOOLEAN]

\* A manager is only dropped when nothing of it is left.
TypeOK ==
  /\ closing \in BOOLEAN
  /\ owned \in BOOLEAN
  /\ launched \in 0..MaxLaunches
  /\ process \in 0..launched
  /\ connection \in 0..launched
  /\ os \in [Launch -> {"none", "starting", "serving", "terminating", "exited"}]
  /\ session \in [Launch -> {"none", "open", "unfinished", "stray", "ended"}]
  /\ requested \subseteq Server
  /\ mounted \subseteq Server
  /\ saved \subseteq Server
  /\ call \in Call
  /\ restoring \subseteq Server
  /\ removed \subseteq Server
  /\ excused \subseteq removed
  /\ ~owned => process = 0 /\ connection = 0 /\ requested = {} /\ mounted = {}

Init ==
  /\ closing = FALSE
  /\ owned = FALSE
  /\ process = 0
  /\ os = [n \in Launch |-> "none"]
  /\ connection = 0
  /\ session = [n \in Launch |-> "none"]
  /\ requested = {}
  /\ mounted = {}
  /\ saved \in SUBSET Server
  /\ launched = 0
  /\ call = Idle
  /\ restoring = {}
  /\ removed = {}
  /\ excused = {}
-----------------------------------------------------------------------------
Alive(n) == n # 0 /\ os[n] \in {"starting", "serving", "terminating"}

\* The flag alone, whatever became of the session and the process.
LooksConnected == owned

IsConnected ==
  /\ owned
  /\ connection # 0
  /\ session[connection] = "open"
  /\ Alive(process)

Goto(phase) == call' = [call EXCEPT !.phase = phase]
Raise(phase) == call' = [call EXCEPT !.phase = phase, !.failing = TRUE]
End == call' = Idle

\* stop() signals the process before it waits for it.
TerminateNothing == UNCHANGED os
Terminate ==
  os' = IF Alive(process) THEN [os EXCEPT ![process] = "terminating"] ELSE os

\* The user asks for these servers; the user, or a new set, takes them away.
AskFor(servers) == removed' = removed \ servers /\ excused' = excused \ servers
TakeAway(servers) == removed' = removed \cup servers /\ excused' = excused \ servers

\* The catalog of the connected gateway, all of it.
Mount == mounted' = IF IsConnected' THEN requested' ELSE {}
-----------------------------------------------------------------------------
(* The operations, each under _docker_operations.                          *)

Accept(kind, phase, goal, target, fresh) ==
  call' = [kind |-> kind, phase |-> phase, goal |-> goal, target |-> target,
           fresh |-> fresh, failing |-> FALSE]

\* gateway_start replaces whatever runs, and mcp_load_server what is not connected.
StartGateway(servers) ==
  /\ call = Idle
  /\ ~closing
  /\ Accept("start", "unlinking", servers, servers, TRUE)
  /\ UNCHANGED <<closing, owned, physical, requested, mounted, saved>>

GatewayStart ==
  \E servers \in SUBSET Server \ {{}} :
    /\ StartGateway(servers)
    /\ AskFor(servers)
    /\ UNCHANGED restoring

\* on_agent_ready reads the rows, restores the remote servers, and starts the
\* gateway with what it read, unless it fails or Docker's toolkit is not there.
ReadRows ==
  /\ ~closing
  /\ restoring = {}
  /\ restoring' = saved
  /\ UNCHANGED <<closing, owned, physical, requested, mounted, saved, call, removed, excused>>

RestoreGateway ==
  /\ restoring # {}
  /\ StartGateway(restoring)
  /\ restoring' = {}
  /\ excused' = excused \cup (restoring \cap removed)
  /\ UNCHANGED removed

RestoreDropped ==
  /\ restoring # {}
  /\ restoring' = {}
  /\ UNCHANGED <<closing, owned, physical, requested, mounted, saved, call, removed, excused>>

Load ==
  \E s \in Server :
    /\ call = Idle
    /\ ~closing
    /\ IF IsConnected
       THEN /\ mounted' = {}
            /\ Accept("load", "unlinking", requested \cup {s}, {s}, FALSE)
       ELSE /\ UNCHANGED mounted
            /\ Accept("load", "unlinking", {s}, {s}, TRUE)
    /\ AskFor({s})
    /\ UNCHANGED <<closing, owned, physical, requested, saved, restoring>>

\* The last server takes the gateway with it.
Unload ==
  \E s \in requested :
    /\ call = Idle
    /\ IsConnected
    /\ mounted' = {}
    /\ Accept("unload", "forgetting", requested \ {s}, {s}, requested = {s})
    /\ UNCHANGED <<closing, owned, physical, requested, saved, aside>>

\* A name that no connected gateway serves is taken for a container's: with a
\* container manager the row goes, and nothing else happens to the gateway.
UnloadUnserved ==
  \E s \in Server :
    /\ call = Idle
    /\ ~(IsConnected /\ s \in requested)
    /\ saved' = saved \ {s}
    /\ TakeAway({s})
    /\ UNCHANGED <<closing, owned, physical, requested, mounted, call, restoring>>

GatewayStop ==
  /\ call = Idle
  /\ Accept("stop", "forgetting", {}, Server, TRUE)
  /\ UNCHANGED <<closing, owned, physical, requested, mounted, saved, aside>>

\* shutdown refuses new starts at once, and takes its turn.
Shutdown ==
  /\ ~closing
  /\ closing' = TRUE
  /\ UNCHANGED <<owned, physical, requested, mounted, saved, call, aside>>

ReleaseConnections ==
  /\ call = Idle
  /\ closing
  /\ owned
  /\ Accept("shutdown", "unlinking", {}, {}, TRUE)
  /\ UNCHANGED <<closing, owned, physical, requested, mounted, saved, aside>>

Initialize ==
  /\ call = Idle
  /\ closing
  /\ ~owned
  /\ closing' = FALSE
  /\ UNCHANGED <<owned, physical, requested, mounted, saved, call, aside>>
-----------------------------------------------------------------------------
(* Their steps.                                                            *)

\* gateway_stop goes on without an error when it cannot read the rows.
Forget ==
  \E gone \in {call.target, {}} :
    /\ call.phase = "forgetting"
    /\ gone = {} => call.kind = "stop"
    /\ saved' = saved \ gone
    /\ TakeAway(gone)
    /\ Goto("unlinking")
    /\ UNCHANGED <<closing, owned, physical, requested, mounted, restoring>>

\* Rows may have gone before the error, or the cancellation, that the caller sees;
\* the gateway goes on with their servers.
ForgetFails ==
  \E gone \in SUBSET call.target :
    /\ call.phase = "forgetting"
    /\ saved' = saved \ gone
    /\ removed' = removed \cup gone
    /\ excused' = excused \cup gone
    /\ End
    /\ UNCHANGED <<closing, owned, physical, requested, mounted, restoring>>

\* _disconnect joins the session's owner; stop() then signals the process.
Unlink ==
  /\ call.phase = "unlinking"
  /\ session' = IF connection = 0 THEN session ELSE [session EXCEPT ![connection] = "ended"]
  /\ connection' = 0
  /\ Goto("stopping")
  /\ Terminate
  /\ UNCHANGED <<closing, owned, process, requested, mounted, saved, launched, aside>>

\* The connection is given up before its close ends.
UnlinkForgotten ==
  \E left \in {"unfinished", "ended"} :
    /\ call.phase = "unlinking"
    /\ connection # 0
    /\ session' = [session EXCEPT ![connection] = left]
    /\ connection' = 0
    /\ IF call.fresh
       THEN Raise("stopping") /\ Terminate
       ELSE End /\ UNCHANGED os
    /\ UNCHANGED <<closing, owned, process, requested, mounted, saved, launched, aside>>

\* A close that fails or is cancelled keeps the connection.  manager.stop stops
\* the process nevertheless; enable_server and disable_server end here.
UnlinkFails ==
  \E left \in {"unfinished", "ended"} :
    /\ call.phase = "unlinking"
    /\ connection # 0
    /\ session' = [session EXCEPT ![connection] = left]
    /\ IF call.fresh
       THEN Raise("stopping") /\ Terminate
       ELSE End /\ UNCHANGED os
    /\ UNCHANGED <<closing, owned, process, connection, requested, mounted, saved, launched,
                   aside>>

\* terminate(), and then kill(), were awaited.
Stopped == call.phase = "stopping" /\ ~Alive(process)

\* A failed close leaves the tools of the gateway mounted.
RetireMounted ==
  /\ Stopped
  /\ call.failing \/ (call.fresh /\ (call.goal = {} \/ closing))
  /\ owned' = (owned /\ call.failing)
  /\ process' = 0
  /\ requested' = {}
  /\ mounted' = IF call.failing THEN mounted ELSE {}
  /\ End
  /\ UNCHANGED <<closing, os, connection, session, saved, launched, aside>>

\* The end of _retire_gateway, or of the cleanup of a start that failed.  A
\* feature that is closing by now starts nothing.
Retire ==
  /\ Stopped
  /\ call.failing \/ (call.fresh /\ (call.goal = {} \/ closing))
  /\ owned' = (owned /\ call.failing)
  /\ process' = 0
  /\ requested' = {}
  /\ mounted' = {}
  /\ End
  /\ UNCHANGED <<closing, os, connection, session, saved, launched, aside>>

\* The next process starts in the step that saw the last one end.
StartProcess ==
  /\ Stopped
  /\ ~call.failing
  /\ call.goal # {}
  /\ call.fresh => ~closing
  /\ launched < MaxLaunches
  /\ owned' = TRUE
  /\ launched' = launched + 1
  /\ process' = launched'
  /\ os' = [os EXCEPT ![launched'] = "starting"]
  /\ requested' = call.goal
  /\ mounted' = {}
  /\ Goto("launching")
  /\ UNCHANGED <<closing, connection, session, saved, aside>>

\* Docker's MCP toolkit is gone, or its process cannot be spawned: a restart then
\* leaves the set it had prepared.
StartRefused ==
  \E left \in {{}, call.goal} :
  /\ Stopped
  /\ ~call.failing
  /\ call.goal # {}
  /\ call.fresh => ~closing
  /\ left # {} => ~call.fresh
  /\ owned' = TRUE
  /\ process' = 0
  /\ requested' = left
  /\ mounted' = {}
  /\ End
  /\ UNCHANGED <<closing, os, connection, session, saved, launched, aside>>

\* Cancelled while it waits for the process, stop() lets go of it all the same;
\* the cleanup of a start may run stop() once more.
StopCancelled ==
  \E left \in {requested, {}} :
  /\ call.phase = "stopping"
  /\ process # 0
  /\ left = {} => call.failing /\ call.fresh
  /\ requested' = left
  /\ process' = 0
  /\ mounted' = {}
  /\ End
  /\ UNCHANGED <<closing, owned, os, connection, session, saved, launched, aside>>

Ready ==
  /\ call.phase = "launching"
  /\ os[process] = "starting"
  /\ os' = [os EXCEPT ![process] = "serving"]
  /\ Goto("linking")
  /\ UNCHANGED <<closing, owned, process, connection, session, requested, mounted, saved,
                 launched, aside>>

\* A deadline stops the process; an exit, or a cancellation, leaves that to
\* manager.start, which always does, while a restart ends here.
StartFails ==
  /\ call.phase = "launching"
  /\ \/ Raise("stopping") /\ Terminate
     \/ ~call.fresh /\ End /\ UNCHANGED os
  /\ UNCHANGED <<closing, owned, process, connection, session, requested, mounted, saved,
                 launched, aside>>

\* A restart for an unload mounts what it finds; a start saves its rows first,
\* unless the feature is closing.
Connect ==
  /\ call.phase = "linking"
  /\ os[process] = "serving"
  /\ session' = [session EXCEPT ![process] = "open"]
  /\ connection' = process
  /\ UNCHANGED <<closing, owned, process, os, requested, saved, launched, aside>>
  /\ \/ call.kind = "unload" /\ Mount /\ End
     \/ call.kind # "unload" /\ closing /\ End /\ UNCHANGED mounted
     \/ call.kind # "unload" /\ ~closing /\ Goto("saving") /\ UNCHANGED mounted

\* connect closes what it opened, in vain perhaps; the manager never kept it, so
\* nobody joins the stray owner.
ConnectFails ==
  \E left \in {"stray", "ended"} :
    /\ call.phase = "linking"
    /\ session' = [session EXCEPT ![process] = left]
    /\ IF call.fresh
       THEN Raise("stopping") /\ Terminate
       ELSE End /\ UNCHANGED os
    /\ UNCHANGED <<closing, owned, process, connection, requested, mounted, saved, launched,
                   aside>>

\* gateway_start makes the saved set its own, a load adds its row.
Save ==
  /\ call.phase = "saving"
  /\ saved' = IF call.kind = "start" THEN call.target ELSE saved \cup call.target
  /\ TakeAway(saved \ saved')
  /\ UNCHANGED <<closing, owned, physical, requested, restoring>>
  /\ IF closing THEN mounted' = {} ELSE Mount
  /\ End

\* An error, a cancellation, or a readback that does not show the row.
SaveFails ==
  \E rows \in SUBSET (saved \cup call.target) :
    /\ call.phase = "saving"
    /\ saved \cap call.target \subseteq rows
    /\ call.kind # "start" => saved \subseteq rows
    /\ saved' = rows
    /\ TakeAway(saved \ rows)
    /\ mounted' = {}
    /\ End
    /\ UNCHANGED <<closing, owned, physical, requested, restoring>>
-----------------------------------------------------------------------------
(* What happens on its own.                                                *)

\* Of itself, or of the signals of stop().
Exit ==
  \E n \in Launch :
    /\ Alive(n)
    /\ os' = [os EXCEPT ![n] = "exited"]
    /\ UNCHANGED <<closing, owned, process, connection, session, requested, mounted, saved,
                   launched, call, aside>>

SessionBreaks ==
  \E n \in Launch :
    /\ session[n] \in {"open", "unfinished", "stray"}
    /\ session' = [session EXCEPT ![n] = IF @ = "open" THEN "unfinished" ELSE "ended"]
    /\ UNCHANGED <<closing, owned, process, os, connection, requested, mounted, saved,
                   launched, call, aside>>

Next ==
  \/ GatewayStart \/ ReadRows \/ RestoreGateway \/ RestoreDropped
  \/ Load \/ Unload \/ UnloadUnserved \/ GatewayStop
  \/ Shutdown \/ ReleaseConnections \/ Initialize
  \/ Forget \/ ForgetFails \/ Unlink \/ UnlinkFails \/ Retire
  \/ StartProcess \/ StartRefused \/ StopCancelled \/ Ready \/ StartFails
  \/ Connect \/ ConnectFails \/ Save \/ SaveFails
  \/ Exit \/ SessionBreaks

Spec == Init /\ [][Next]_vars
-----------------------------------------------------------------------------
\* The tools a user may call between two operations are all of those, and only
\* those, that the current process serves over its current connection.
MountedIsServed ==
  call = Idle /\ mounted # {} =>
    /\ mounted = requested
    /\ connection = process

\* A server whose row was cleared on request is not callable between two operations
\* until the user asks for it again, however the teardown went and whatever else is
\* loaded next.  Two cases are excused: the operation ended while it cleared rows, in
\* an error or cancelled; or a restore goes on with a row that it had read before.
RemovedStaysRemoved ==
  call = Idle /\ IsConnected => mounted \cap removed \subseteq excused

\* A process that was told nothing is the one in gateway.process: failures and
\* cancellations forget no gateway that goes on serving.
EveryProcessTold ==
  \A n \in Launch : os[n] \in {"starting", "serving"} => process = n

\* An owner task whose session was established and has not finished is the one in
\* custody, however often its close failed, so that the next operation joins it.
OwnersInCustody ==
  \A n \in Launch : session[n] \in {"open", "unfinished"} => connection = n
=============================================================================
