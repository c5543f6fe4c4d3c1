--------------------------- MODULE FeatureLifecycle ---------------------------
(***************************************************************************)
(* Remote connections of one MCP feature (feature.py, host_configuration.py) *)
(* and the tasks of one event loop that open and close them: loads,         *)
(* restores of saved servers, OAuth connects and disconnects                *)
(* (oauth_runtime.py), unloads, shutdown and initialize.  Three kinds of    *)
(* asyncio locks order them: the lifecycle transition lock, a gate per      *)
(* remote name and a gate per OAuth connection.                             *)
(*                                                                          *)
(* A step is what one task does between two awaits.  asyncio locks are      *)
(* queues; a task that finds one free goes on without suspending, which     *)
(* running records.  An await may end in an error, which stands for         *)
(* deadlines and cancellation too.  DNS, the MCP handshake, the host's      *)
(* enablement rows and Core's authority check are environment choices.      *)
(* The container and gateway owners, and Apps, are left out.                *)
(***************************************************************************)
EXTENDS Naturals, Sequences

CONSTANTS
  Loader,        \* _load_via_remote calls of a user
  Restorer,      \* _load_via_remote calls of on_agent_ready
  Connector,     \* OAuthRuntime.connect calls, each with its credential
  Unloader,      \* _unload_remote calls
  Disconnector,  \* OAuthRuntime.disconnect calls
  Stopper,       \* shutdown calls
  Starter,       \* initialize calls
  Server,        \* remote names without credentials
  Grant,         \* remote names of OAuth connections
  Target,        \* the name each call is about
  Nobody

Opener == Loader \cup Restorer \cup Connector
Drainer == Stopper \cup Starter
Task == Opener \cup Unloader \cup Disconnector \cup Drainer
Name == Server \cup Grant

ASSUME TargetAssumption ==
  /\ Target \in [Opener \cup Unloader \cup Disconnector -> Name]
  /\ \A p \in Loader \cup Restorer : Target[p] \in Server
  /\ \A p \in Connector \cup Disconnector : Target[p] \in Grant
  /\ Server \cap Grant = {}
  /\ Nobody \notin Task

ASSUME TasksAssumption ==
  /\ Opener \cap (Unloader \cup Disconnector \cup Drainer) = {}
  /\ Unloader \cap (Disconnector \cup Drainer) = {}
  /\ Disconnector \cap Drainer = {}
  /\ Loader \cap Restorer = {}
  /\ Stopper \cap Starter = {}

VARIABLES
  closing,      \* _closing
  generation,   \* _lifecycle_generation
  maintenance,  \* the OAuth host and its retention task: running, dead, none
  transition,   \* holder and waiters of _lifecycle_transition
  remoteGate,   \* holder and waiters of each gate of _remote_lifecycle
  grantGate,    \* holder and waiters of each gate of OAuthRuntime._connections
  record,       \* _remote_connections, each record named by its opener
  published,    \* record.tools is not None
  connection,   \* the MCPConnection of each opener
  mounted,      \* whose tools the host registry holds for a name
  saved,        \* the host's enablement row says enabled
  credential,   \* OAuthRuntime._credentials
  pc,           \* where each task is
  admitted,     \* the generation an opener read when it started
  at,           \* the record or credential a task is retiring
  todo,         \* cleanup steps a drainer still has to take
  clean,        \* no cleanup step of the drainer has failed
  running,      \* the task that goes on without suspending
  quiet         \* history: a shutdown completed and nothing reopened

vars == <<closing, generation, maintenance, transition, remoteGate, grantGate, record,
          published, connection, mounted, saved, credential, pc, admitted, at, todo,
          clean, running, quiet>>

status == <<closing, generation, quiet>>
owned == <<record, published, connection, mounted>>
cleanup == <<at, todo, clean>>

Phase == {"idle", "reading", "granting", "reaching", "parting", "admitting", "resolving",
          "queued", "gating", "replacing", "connecting", "saving", "confirming",
          "forgetting", "retiring", "draining", "releasing", "starting", "done", "failed"}

\* asyncio locks are not reentrant: a task that queues twice waits for itself.
WaitsOnce(queue) == \A i, j \in DOMAIN queue : queue[i] = queue[j] => i = j

\* No task waits for a lock it holds, however _retire_connection is nested in
\* connect, and every name maps to a task that may own it.
TypeOK ==
  /\ closing \in BOOLEAN
  /\ generation \in Nat
  /\ maintenance \in {"running", "dead", "none"}
  /\ transition \in Seq(Opener \cup Drainer)
  /\ remoteGate \in [Name -> Seq(Task)]
  /\ grantGate \in [Grant -> Seq(Task)]
  /\ WaitsOnce(transition)
  /\ \A n \in Name : WaitsOnce(remoteGate[n])
  /\ \A g \in Grant : WaitsOnce(grantGate[g])
  /\ record \in [Name -> Opener \cup {Nobody}]
  /\ published \in [Opener -> BOOLEAN]
  /\ connection \in [Opener -> {"none", "open", "lost", "closed"}]
  /\ mounted \in [Name -> Opener \cup {Nobody}]
  /\ saved \in [Name -> BOOLEAN]
  /\ credential \in [Grant -> Connector \cup {Nobody}]
  /\ pc \in [Task -> Phase]
  /\ admitted \in [Opener -> Nat]
  /\ at \in [Task -> Opener \cup {Nobody}]
  /\ todo \in [Drainer -> SUBSET Opener]
  /\ clean \in [Drainer -> BOOLEAN]
  /\ running \in Task \cup {Nobody}
  /\ quiet \in BOOLEAN
  /\ \A n \in Name : record[n] # Nobody => Target[record[n]] = n

Init ==
  /\ closing = FALSE
  /\ generation = 0
  /\ maintenance = "running"
  /\ transition = <<>>
  /\ remoteGate = [n \in Name |-> <<>>]
  /\ grantGate = [g \in Grant |-> <<>>]
  /\ record = [n \in Name |-> Nobody]
  /\ published = [p \in Opener |-> FALSE]
  /\ connection = [p \in Opener |-> "none"]
  /\ mounted = [n \in Name |-> Nobody]
  /\ saved \in [Name -> BOOLEAN]
  /\ credential = [g \in Grant |-> Nobody]
  /\ pc = [p \in Task |-> "idle"]
  /\ admitted = [p \in Opener |-> 0]
  /\ at = [p \in Task |-> Nobody]
  /\ todo = [d \in Drainer |-> {}]
  /\ clean = [d \in Drainer |-> TRUE]
  /\ running = Nobody
  /\ quiet = FALSE
-----------------------------------------------------------------------------
(* The event loop and its locks.                                           *)

Turn(p) == running \in {Nobody, p}
Suspend == running' = Nobody

\* An uncontended lock is acquired without suspending.
SuspendUnlessFree(p, queue) == running' = IF queue = <<>> THEN p ELSE Nobody

Holds(p, queue) == queue # <<>> /\ Head(queue) = p

Goto(p, phase) == pc' = [pc EXCEPT ![p] = phase]

JoinTransition(p) ==
  /\ transition' = Append(transition, p)
  /\ SuspendUnlessFree(p, transition)

JoinRemote(p, n) ==
  /\ remoteGate' = [remoteGate EXCEPT ![n] = Append(@, p)]
  /\ SuspendUnlessFree(p, remoteGate[n])

JoinGrant(p, g) ==
  /\ grantGate' = [grantGate EXCEPT ![g] = Append(@, p)]
  /\ SuspendUnlessFree(p, grantGate[g])

LeaveTransition == transition' = Tail(transition)
LeaveRemote(n) == remoteGate' = [remoteGate EXCEPT ![n] = Tail(@)]
LeaveGrant(g) == grantGate' = [grantGate EXCEPT ![g] = Tail(@)]
-----------------------------------------------------------------------------
(* Records.                                                                *)

\* _require_open with the generation the call was admitted in.
Admissible(p) == ~closing /\ admitted[p] = generation

\* External: Core's check of the live request, which is_current withdraws.
Authorized == ~closing /\ maintenance = "running"

Unmount(n) == mounted' = [mounted EXCEPT ![n] = Nobody]

\* _retire_remote takes the tools away before it awaits the close ...
Withdraw(n) == published' = [p \in Opener |-> published[p] /\ record[n] # p]

\* The owner task may have ended although its close reports a failure.
Closed(n, acknowledged) ==
  \E ended \in BOOLEAN :
    /\ acknowledged => ended
    /\ connection' = [p \in Opener |->
         IF ended /\ record[n] = p THEN "closed" ELSE connection[p]]

\* A failed close drops the record as well.
RetiredAnyway(n, acknowledged) ==
  /\ record' = [record EXCEPT ![n] = Nobody]
  /\ Closed(n, acknowledged)

\* ... and drops the record only when the close is acknowledged.
Retired(n, acknowledged) ==
  /\ record' = [record EXCEPT ![n] = IF acknowledged THEN Nobody ELSE @]
  /\ Closed(n, acknowledged)
-----------------------------------------------------------------------------
(* _load_remote_connection.                                                *)

\* A user's load starts; a refused one leaves no trace.
Load(p) ==
  /\ p \in Loader
  /\ Turn(p)
  /\ pc[p] = "idle"
  /\ ~closing
  /\ admitted' = [admitted EXCEPT ![p] = generation]
  /\ Goto(p, "resolving")
  /\ Suspend
  /\ UNCHANGED <<status, maintenance, transition, remoteGate, grantGate, owned, saved,
                 credential, cleanup>>

\* on_agent_ready reads the saved rows, and loads each of them later.
ReadSaved(p) ==
  /\ p \in Restorer
  /\ Turn(p)
  /\ pc[p] = "idle"
  /\ saved[Target[p]]
  /\ Goto(p, "reading")
  /\ Suspend
  /\ UNCHANGED <<status, maintenance, transition, remoteGate, grantGate, owned, saved,
                 credential, admitted, cleanup>>

Restore(p) ==
  /\ p \in Restorer
  /\ Turn(p)
  /\ pc[p] = "reading"
  /\ admitted' = [admitted EXCEPT ![p] = generation]
  /\ Goto(p, IF closing THEN "failed" ELSE "resolving")
  /\ Suspend
  /\ UNCHANGED <<status, maintenance, transition, remoteGate, grantGate, owned, saved,
                 credential, cleanup>>

\* A load that fails leaves its name; an OAuth connect then retires its own
\* connection through the same gate.  gate is the queue without the load.
GiveUp(p, gate) ==
  LET retires == p \in Connector
  IN /\ Goto(p, IF retires THEN "reaching" ELSE "failed")
     /\ at' = IF retires THEN [at EXCEPT ![p] = p] ELSE at
     /\ remoteGate' =
          [remoteGate EXCEPT ![Target[p]] = IF retires THEN Append(gate, p) ELSE gate]
     /\ running' = IF retires /\ gate = <<>> THEN p ELSE Nobody

\* The address was validated; the load queues without another check.
ResolveUnchecked(p) ==
  /\ Turn(p)
  /\ pc[p] = "resolving"
  /\ Goto(p, "queued")
  /\ JoinTransition(p)
  /\ UNCHANGED <<status, maintenance, remoteGate, grantGate, owned, saved, credential,
                 admitted, cleanup>>

Resolve(p) ==
  /\ Turn(p)
  /\ pc[p] = "resolving"
  /\ Admissible(p)
  /\ Goto(p, "queued")
  /\ JoinTransition(p)
  /\ UNCHANGED <<status, maintenance, remoteGate, grantGate, owned, saved, credential,
                 admitted, cleanup>>

\* DNS failed, or validation outlived the admission.
Unresolved(p) ==
  /\ Turn(p)
  /\ pc[p] = "resolving"
  /\ GiveUp(p, remoteGate[Target[p]])
  /\ UNCHANGED <<status, maintenance, transition, grantGate, owned, saved, credential,
                 admitted, todo, clean>>

EnterTransition(p) ==
  /\ Turn(p)
  /\ pc[p] = "queued"
  /\ Holds(p, transition)
  /\ Goto(p, "gating")
  /\ JoinRemote(p, Target[p])
  /\ UNCHANGED <<status, maintenance, transition, grantGate, owned, saved, credential,
                 admitted, cleanup>>

\* Both locks are held: the load is still admissible, and the previous record
\* of the name is retired first.
ReplaceAnyGeneration(p) ==
  LET n == Target[p]
  IN /\ Turn(p)
     /\ pc[p] = "gating"
     /\ Holds(p, remoteGate[n])
     /\ ~closing
     /\ Unmount(n)
     /\ Withdraw(n)
     /\ Goto(p, "replacing")
     /\ Suspend
     /\ UNCHANGED <<status, maintenance, transition, remoteGate, grantGate, record,
                    connection, saved, credential, admitted, cleanup>>

Replace(p) ==
  LET n == Target[p]
  IN /\ Turn(p)
     /\ pc[p] = "gating"
     /\ Holds(p, remoteGate[n])
     /\ Admissible(p)
     /\ Unmount(n)
     /\ Withdraw(n)
     /\ Goto(p, "replacing")
     /\ Suspend
     /\ UNCHANGED <<status, maintenance, transition, remoteGate, grantGate, record,
                    connection, saved, credential, admitted, cleanup>>

Inadmissible(p) ==
  /\ Turn(p)
  /\ pc[p] = "gating"
  /\ Holds(p, remoteGate[Target[p]])
  /\ ~Admissible(p)
  /\ GiveUp(p, Tail(remoteGate[Target[p]]))
  /\ LeaveTransition
  /\ UNCHANGED <<status, maintenance, grantGate, owned, saved, credential, admitted, todo, clean>>

\* A failed close of the previous record does not stop the new one.
ReplaceRegardless(p) ==
  LET n == Target[p]
  IN /\ Turn(p)
     /\ pc[p] = "replacing"
     /\ ~closing
     /\ record' = [record EXCEPT ![n] = p]
     /\ connection' = [connection EXCEPT ![p] = "open"]
     /\ Goto(p, "connecting")
     /\ Suspend
     /\ UNCHANGED <<status, maintenance, transition, remoteGate, grantGate, published,
                    mounted, saved, credential, admitted, cleanup>>

\* The previous connection is closed and the new owner task started; the record
\* is registered before the handshake is awaited.
StartConnection(p) ==
  LET n == Target[p]
  IN /\ Turn(p)
     /\ pc[p] = "replacing"
     /\ ~closing
     /\ record' = [record EXCEPT ![n] = p]
     /\ connection' = [q \in Opener |-> IF q = p THEN "open"
                                        ELSE IF q = record[n] THEN "closed" ELSE connection[q]]
     /\ Goto(p, "connecting")
     /\ Suspend
     /\ UNCHANGED <<status, maintenance, transition, remoteGate, grantGate, published,
                    mounted, saved, credential, admitted, cleanup>>

\* The close failed, or _new_mcp_connection refused to start while closing.
ReplaceFails(p) ==
  LET n == Target[p]
  IN /\ Turn(p)
     /\ pc[p] = "replacing"
     /\ \E acknowledged \in BOOLEAN :
          /\ acknowledged => closing
          /\ Retired(n, acknowledged)
     /\ GiveUp(p, Tail(remoteGate[n]))
     /\ LeaveTransition
     /\ UNCHANGED <<status, maintenance, grantGate, published, mounted, saved, credential,
                    admitted, todo, clean>>

\* The catalog is discovered.
Discover(p) ==
  /\ Turn(p)
  /\ pc[p] = "connecting"
  /\ ~closing
  /\ Goto(p, IF p \in Restorer THEN "confirming" ELSE "saving")
  /\ Suspend
  /\ UNCHANGED <<status, maintenance, transition, remoteGate, grantGate, owned, saved,
                 credential, admitted, cleanup>>

\* The host may complete the call without retaining the row.
Persist(p) ==
  /\ Turn(p)
  /\ pc[p] = "saving"
  /\ \E retained \in BOOLEAN :
       saved' = [saved EXCEPT ![Target[p]] = retained \/ @]
  /\ Goto(p, "confirming")
  /\ Suspend
  /\ UNCHANGED <<status, maintenance, transition, remoteGate, grantGate, owned,
                 credential, admitted, cleanup>>

\* A completed host call is taken as an acknowledgement.
PublishUnconfirmed(p) ==
  LET n == Target[p]
  IN /\ Turn(p)
     /\ pc[p] = "confirming"
     /\ ~closing
     /\ connection[p] = "open"
     /\ published' = [published EXCEPT ![p] = TRUE]
     /\ mounted' = [mounted EXCEPT ![n] = p]
     /\ Goto(p, "done")
     /\ LeaveTransition
     /\ LeaveRemote(n)
     /\ IF p \in Connector THEN LeaveGrant(n) ELSE UNCHANGED grantGate
     /\ Suspend
     /\ UNCHANGED <<status, maintenance, record, connection, saved, credential, admitted,
                    cleanup>>

\* The saved row was read back; the caller is bound to the incarnation of a
\* live connection and the tools are mounted.
Announce(p) ==
  /\ Turn(p)
  /\ pc[p] = "confirming"
  /\ saved[Target[p]]
  /\ ~closing
  /\ connection[p] = "open"
  /\ published' = [published EXCEPT ![p] = TRUE]
  /\ mounted' = [mounted EXCEPT ![Target[p]] = p]
  /\ LeaveTransition
  /\ UNCHANGED <<status, maintenance, record, connection, saved, credential, admitted, todo,
                 clean>>

Publish(p) ==
  /\ p \in Connector => Authorized
  /\ Announce(p)
  /\ Goto(p, "done")
  /\ LeaveRemote(Target[p])
  /\ IF p \in Connector THEN LeaveGrant(Target[p]) ELSE UNCHANGED grantGate
  /\ Suspend
  /\ UNCHANGED at

\* The request of a connect lost its authority during the load: what was mounted is
\* retired again.
PublishRefused(p) ==
  /\ p \in Connector
  /\ Announce(p)
  /\ GiveUp(p, Tail(remoteGate[Target[p]]))
  /\ UNCHANGED grantGate

\* Any error after the record exists unmounts and retires it.
LoadFails(p) ==
  /\ Turn(p)
  /\ pc[p] \in {"connecting", "saving", "confirming"}
  /\ Unmount(Target[p])
  /\ Withdraw(Target[p])
  /\ Goto(p, "retiring")
  /\ Suspend
  /\ UNCHANGED <<status, maintenance, transition, remoteGate, grantGate, record, connection,
                 saved, credential, admitted, cleanup>>

RetireFailedLoad(p) ==
  LET n == Target[p]
  IN /\ p \in Opener
     /\ Turn(p)
     /\ pc[p] = "retiring"
     /\ \E acknowledged \in BOOLEAN : Retired(n, acknowledged)
     /\ GiveUp(p, Tail(remoteGate[n]))
     /\ LeaveTransition
     /\ UNCHANGED <<status, maintenance, grantGate, published, mounted, saved, credential,
                    admitted, todo, clean>>

\* The server closed the stream, or the owner task failed.
LoseConnection(p) ==
  /\ running = Nobody
  /\ connection[p] = "open"
  /\ connection' = [connection EXCEPT ![p] = "lost"]
  /\ UNCHANGED <<status, maintenance, transition, remoteGate, grantGate, record, published,
                 mounted, saved, credential, pc, admitted, cleanup, running>>
-----------------------------------------------------------------------------
(* OAuthRuntime.connect and disconnect.                                    *)

\* Both read the durable grant before they wait for the gate.
ReadSlot(p) ==
  /\ p \in Connector \cup Disconnector
  /\ Turn(p)
  /\ pc[p] = "idle"
  /\ Authorized
  /\ Goto(p, "reading")
  /\ Suspend
  /\ UNCHANGED <<status, maintenance, transition, remoteGate, grantGate, owned, saved,
                 credential, admitted, cleanup>>

JoinConnection(p) ==
  /\ p \in Connector \cup Disconnector
  /\ Turn(p)
  /\ pc[p] = "reading"
  /\ Authorized
  /\ Goto(p, "granting")
  /\ JoinGrant(p, Target[p])
  /\ UNCHANGED <<status, maintenance, transition, remoteGate, owned, saved, credential,
                 admitted, cleanup>>

SlotRefused(p) ==
  /\ p \in Connector \cup Disconnector
  /\ Turn(p)
  /\ pc[p] = "reading"
  /\ Goto(p, "failed")
  /\ Suspend
  /\ UNCHANGED <<status, maintenance, transition, remoteGate, grantGate, owned, saved,
                 credential, admitted, cleanup>>

\* A previous credential of the connection is retired first.
Evict(c) ==
  LET g == Target[c]
  IN /\ Turn(c)
     /\ pc[c] = "granting"
     /\ Holds(c, grantGate[g])
     /\ Authorized
     /\ credential[g] # Nobody
     /\ at' = [at EXCEPT ![c] = credential[g]]
     /\ Goto(c, "reaching")
     /\ JoinRemote(c, g)
     /\ UNCHANGED <<status, maintenance, transition, grantGate, owned, saved, credential,
                    admitted, todo, clean>>

Register(c) ==
  LET g == Target[c]
  IN /\ Turn(c)
     /\ pc[c] = "granting"
     /\ Holds(c, grantGate[g])
     /\ Authorized
     /\ credential[g] = Nobody
     /\ credential' = [credential EXCEPT ![g] = c]
     /\ Goto(c, "admitting")
     /\ Suspend
     /\ UNCHANGED <<status, maintenance, transition, remoteGate, grantGate, owned, saved,
                    admitted, cleanup>>

\* The request lost its authority, or the principal has connections enough.
GateRefused(c) ==
  LET g == Target[c]
  IN /\ Turn(c)
     /\ pc[c] = "granting"
     /\ Holds(c, grantGate[g])
     /\ credential[g] = Nobody \/ ~Authorized
     /\ Goto(c, "failed")
     /\ LeaveGrant(g)
     /\ Suspend
     /\ UNCHANGED <<status, maintenance, transition, remoteGate, owned, saved, credential,
                    admitted, cleanup>>

\* The credential was admitted, refreshed if need be; the load starts.
Admit(c) ==
  /\ Turn(c)
  /\ pc[c] = "admitting"
  /\ Authorized
  /\ admitted' = [admitted EXCEPT ![c] = generation]
  /\ Goto(c, "resolving")
  /\ Suspend
  /\ UNCHANGED <<status, maintenance, transition, remoteGate, grantGate, owned, saved,
                 credential, cleanup>>

NotAdmitted(c) ==
  /\ Turn(c)
  /\ pc[c] = "admitting"
  /\ GiveUp(c, remoteGate[Target[c]])
  /\ UNCHANGED <<status, maintenance, transition, grantGate, owned, saved, credential,
                 admitted, todo, clean>>

\* _retire_connection: under the gate of the name, take the tools of this
\* credential's record away, close it, and forget the credential.
Reach(p) ==
  LET n == Target[at[p]]
  IN /\ Turn(p)
     /\ pc[p] = "reaching"
     /\ Holds(p, remoteGate[n])
     /\ IF record[n] = at[p] THEN Unmount(n) /\ Withdraw(n) ELSE UNCHANGED <<mounted, published>>
     /\ Goto(p, "parting")
     /\ Suspend
     /\ UNCHANGED <<status, maintenance, transition, remoteGate, grantGate, record,
                    connection, saved, credential, admitted, cleanup>>

Parted(p, acknowledged) ==
  LET n == Target[at[p]]
  IN /\ Turn(p)
     /\ pc[p] = "parting"
     /\ IF record[n] = at[p] THEN Retired(n, acknowledged) ELSE UNCHANGED <<record, connection>>
     /\ LeaveRemote(n)
     /\ Suspend
     /\ UNCHANGED <<status, maintenance, transition, mounted, published, saved, admitted>>

Forgotten(p) ==
  [g \in Grant |-> IF credential[g] = at[p] THEN Nobody ELSE credential[g]]

\* The previous credential is gone: register the new one, if the request still may.
Evicted(c) ==
  /\ at[c] # c
  /\ Authorized
  /\ Parted(c, TRUE)
  /\ credential' = [credential EXCEPT ![Target[c]] = c]
  /\ Goto(c, "admitting")
  /\ UNCHANGED <<grantGate, cleanup>>

\* The end of a connect that did not become ready, of an eviction that failed
\* or whose request was then refused, and of a disconnect.
Part(p) ==
  \E acknowledged \in BOOLEAN :
    /\ p \in Connector \cup Disconnector
    /\ Parted(p, acknowledged)
    /\ credential' = IF acknowledged THEN Forgotten(p) ELSE credential
    /\ LeaveGrant(Target[p])
    /\ Goto(p, IF acknowledged /\ p \in Disconnector THEN "done" ELSE "failed")
    /\ UNCHANGED cleanup

\* A disconnect unmounts at once, before it revokes and forgets.
Disconnect(d) ==
  LET g == Target[d]
  IN /\ Turn(d)
     /\ pc[d] = "granting"
     /\ Holds(d, grantGate[g])
     /\ Unmount(g)
     /\ at' = [at EXCEPT ![d] = credential[g]]
     /\ Goto(d, "forgetting")
     /\ Suspend
     /\ UNCHANGED <<status, maintenance, transition, remoteGate, grantGate, record,
                    published, connection, saved, credential, admitted, todo, clean>>

\* The grant is revoked and the row cleared, or not; the connection is retired
\* in any case.
ForgetGrant(d) ==
  LET g == Target[d]
  IN /\ Turn(d)
     /\ pc[d] = "forgetting"
     /\ \E removed \in BOOLEAN : saved' = [saved EXCEPT ![g] = @ /\ ~removed]
     /\ IF at[d] # Nobody
        THEN /\ Goto(d, "reaching")
             /\ JoinRemote(d, g)
             /\ UNCHANGED grantGate
        ELSE /\ Goto(d, IF saved'[g] THEN "failed" ELSE "done")
             /\ LeaveGrant(g)
             /\ Suspend
             /\ UNCHANGED remoteGate
     /\ UNCHANGED <<status, maintenance, transition, owned, credential, admitted, cleanup>>
-----------------------------------------------------------------------------
(* _unload_remote.                                                         *)

Unload(u) ==
  /\ Turn(u)
  /\ pc[u] = "idle"
  /\ Goto(u, "gating")
  /\ JoinRemote(u, Target[u])
  /\ UNCHANGED <<status, maintenance, transition, grantGate, owned, saved, credential,
                 admitted, cleanup>>

EnterUnload(u) ==
  /\ Turn(u)
  /\ pc[u] = "gating"
  /\ Holds(u, remoteGate[Target[u]])
  /\ Goto(u, "reading")
  /\ Suspend
  /\ UNCHANGED <<status, maintenance, transition, remoteGate, grantGate, owned, saved,
                 credential, admitted, cleanup>>

\* An OAuth connection is refused, and a store that cannot be read ends it.
UnloadRefused(u) ==
  LET n == Target[u]
  IN /\ Turn(u)
     /\ pc[u] = "reading"
     /\ Goto(u, "failed")
     /\ LeaveRemote(n)
     /\ Suspend
     /\ UNCHANGED <<status, maintenance, transition, grantGate, owned, saved, credential,
                    admitted, cleanup>>

WithdrawUnloaded(u) ==
  LET n == Target[u]
  IN /\ Turn(u)
     /\ pc[u] = "reading"
     /\ n \in Grant => record[n] = Nobody /\ ~saved[n]
     /\ Withdraw(n)
     /\ Unmount(n)
     /\ Goto(u, "forgetting")
     /\ Suspend
     /\ UNCHANGED <<status, maintenance, transition, remoteGate, grantGate, record,
                    connection, saved, credential, admitted, cleanup>>

ForgetUnloaded(u) ==
  LET n == Target[u]
  IN /\ Turn(u)
     /\ pc[u] = "forgetting"
     /\ \E removed \in BOOLEAN : saved' = [saved EXCEPT ![n] = @ /\ ~removed]
     /\ Goto(u, "retiring")
     /\ Suspend
     /\ UNCHANGED <<status, maintenance, transition, remoteGate, grantGate, owned,
                    credential, admitted, cleanup>>

\* A row the host kept is reported, and the connection is closed all the same.
FinishUnload(u) ==
  LET n == Target[u]
  IN /\ Turn(u)
     /\ pc[u] = "retiring"
     /\ \E acknowledged \in BOOLEAN :
          /\ Retired(n, acknowledged)
          /\ Goto(u, IF acknowledged /\ ~saved[n] THEN "done" ELSE "failed")
     /\ LeaveRemote(n)
     /\ Suspend
     /\ UNCHANGED <<status, maintenance, transition, grantGate, published, mounted, saved,
                    credential, admitted, cleanup>>
-----------------------------------------------------------------------------
(* shutdown and initialize.                                                *)

\* The admission closes before the lock is awaited.
Stop(s) ==
  /\ Turn(s)
  /\ pc[s] = "idle"
  /\ closing' = TRUE
  /\ generation' = generation + 1
  /\ Goto(s, "queued")
  /\ JoinTransition(s)
  /\ UNCHANGED <<maintenance, quiet, remoteGate, grantGate, owned, saved, credential,
                 admitted, cleanup>>

Initialize(i) ==
  /\ Turn(i)
  /\ pc[i] = "idle"
  /\ Goto(i, "queued")
  /\ JoinTransition(i)
  /\ UNCHANGED <<status, maintenance, remoteGate, grantGate, owned, saved, credential,
                 admitted, cleanup>>

\* _close_oauth ends the retention task and withdraws every credential; the
\* snapshot of them is what close_authorizations goes on to retire.
BeginDrain(d) ==
  LET held == {credential[g] : g \in Grant} \ {Nobody}
      live == maintenance # "none"
  IN /\ Turn(d)
     /\ Holds(d, transition)
     /\ closing' = TRUE
     /\ todo' = [todo EXCEPT ![d] = IF live THEN held ELSE {}]
     /\ maintenance' = IF live THEN "dead" ELSE "none"
     /\ mounted' = [n \in Name |->
          IF live /\ record[n] \in held THEN Nobody ELSE mounted[n]]
     /\ Goto(d, "draining")
     /\ Suspend
     /\ UNCHANGED <<quiet, transition, remoteGate, grantGate, record, published, connection,
                    saved, credential, admitted, at, clean>>

EnterStop(s) ==
  /\ pc[s] = "queued"
  /\ BeginDrain(s)
  /\ UNCHANGED generation

\* A dead retention task closes an open feature first.
EnterInitialize(i) ==
  /\ pc[i] = "queued"
  /\ closing \/ maintenance = "dead"
  /\ BeginDrain(i)
  /\ generation' = IF closing THEN generation ELSE generation + 1

InitializeLive(i) ==
  /\ Turn(i)
  /\ pc[i] = "queued"
  /\ Holds(i, transition)
  /\ ~closing
  /\ maintenance # "dead"
  /\ Goto(i, "starting")
  /\ Suspend
  /\ UNCHANGED <<status, maintenance, transition, remoteGate, grantGate, owned, saved,
                 credential, admitted, cleanup>>

\* _retire_idle_connection joins a connect or disconnect under way.
DrainGrant(d) ==
  \E c \in todo[d] :
    /\ Turn(d)
    /\ pc[d] = "draining"
    /\ at' = [at EXCEPT ![d] = c]
    /\ Goto(d, "granting")
    /\ JoinGrant(d, Target[c])
    /\ UNCHANGED <<status, maintenance, transition, remoteGate, owned, saved, credential,
                   admitted, todo, clean>>

JoinIdleConnection(d) ==
  LET g == Target[at[d]]
  IN /\ Turn(d)
     /\ pc[d] = "granting"
     /\ Holds(d, grantGate[g])
     /\ Goto(d, "reaching")
     /\ JoinRemote(d, g)
     /\ UNCHANGED <<status, maintenance, transition, grantGate, owned, saved, credential,
                    admitted, cleanup>>

DrainedGrant(d) ==
  \E acknowledged \in BOOLEAN :
    /\ Parted(d, acknowledged)
    /\ credential' = IF acknowledged THEN Forgotten(d) ELSE credential
    /\ LeaveGrant(Target[at[d]])
    /\ todo' = [todo EXCEPT ![d] = @ \ {at[d]}]
    /\ clean' = [clean EXCEPT ![d] = @ /\ acknowledged]
    /\ Goto(d, "draining")
    /\ UNCHANGED at

\* A host that closed without an error is dropped with its runtime; then
\* _release_connections lists the records.
BeginRelease(d) ==
  /\ Turn(d)
  /\ pc[d] = "draining"
  /\ todo[d] = {}
  /\ todo' = [todo EXCEPT ![d] = {record[n] : n \in Name} \ {Nobody}]
  /\ maintenance' = IF clean[d] THEN "none" ELSE maintenance
  /\ credential' = IF clean[d] THEN [g \in Grant |-> Nobody] ELSE credential
  /\ Goto(d, "releasing")
  /\ Suspend
  /\ UNCHANGED <<status, transition, remoteGate, grantGate, owned, saved, admitted, at, clean>>

ReleaseRemote(d) ==
  \E p \in todo[d] :
    /\ Turn(d)
    /\ pc[d] = "releasing"
    /\ at' = [at EXCEPT ![d] = p]
    /\ Goto(d, "gating")
    /\ JoinRemote(d, Target[p])
    /\ UNCHANGED <<status, maintenance, transition, grantGate, owned, saved, credential,
                   admitted, todo, clean>>

EnterRelease(d) ==
  LET n == Target[at[d]]
  IN /\ Turn(d)
     /\ pc[d] = "gating"
     /\ Holds(d, remoteGate[n])
     /\ Withdraw(n)
     /\ Goto(d, "retiring")
     /\ Suspend
     /\ UNCHANGED <<status, maintenance, transition, remoteGate, grantGate, record,
                    connection, mounted, saved, credential, admitted, cleanup>>

\* The failure is forgotten with the record's turn.
ReleasedUnremembered(d) ==
  LET n == Target[at[d]]
  IN \E acknowledged \in BOOLEAN :
     /\ Turn(d)
     /\ pc[d] = "retiring"
     /\ Retired(n, acknowledged)
     /\ Unmount(n)
     /\ LeaveRemote(n)
     /\ todo' = [todo EXCEPT ![d] = @ \ {at[d]}]
     /\ Goto(d, "releasing")
     /\ Suspend
     /\ UNCHANGED <<status, maintenance, transition, grantGate, published, saved,
                    credential, admitted, at, clean>>

\* A failed close is remembered, and the next record is still attempted.
ReleasedRemote(d) ==
  LET n == Target[at[d]]
  IN \E acknowledged \in BOOLEAN :
     /\ Turn(d)
     /\ pc[d] = "retiring"
     /\ record[n] = Nobody => acknowledged
     /\ Retired(n, acknowledged)
     /\ Unmount(n)
     /\ LeaveRemote(n)
     /\ todo' = [todo EXCEPT ![d] = @ \ {at[d]}]
     /\ clean' = [clean EXCEPT ![d] = @ /\ acknowledged]
     /\ Goto(d, "releasing")
     /\ Suspend
     /\ UNCHANGED <<status, maintenance, transition, grantGate, published, saved,
                    credential, admitted, at>>

Stopped(s) ==
  /\ Turn(s)
  /\ pc[s] = "releasing"
  /\ todo[s] = {}
  /\ quiet' = (quiet \/ clean[s])
  /\ Goto(s, IF clean[s] THEN "done" ELSE "failed")
  /\ LeaveTransition
  /\ Suspend
  /\ UNCHANGED <<closing, generation, maintenance, remoteGate, grantGate, owned, saved,
                 credential, admitted, cleanup>>

\* initialize reopens only after every original cleanup succeeded.
Reopen(i) ==
  /\ Turn(i)
  /\ pc[i] = "releasing"
  /\ todo[i] = {}
  /\ clean[i]
  /\ closing' = FALSE
  /\ quiet' = FALSE
  /\ Goto(i, "starting")
  /\ Suspend
  /\ UNCHANGED <<generation, maintenance, transition, remoteGate, grantGate, owned, saved,
                 credential, admitted, cleanup>>

NotReopened(i) ==
  /\ Turn(i)
  /\ pc[i] = "releasing"
  /\ todo[i] = {}
  /\ ~clean[i]
  /\ Goto(i, "failed")
  /\ LeaveTransition
  /\ Suspend
  /\ UNCHANGED <<status, maintenance, remoteGate, grantGate, owned, saved, credential,
                 admitted, cleanup>>

\* _start_configured_hosts creates a new OAuth host unless closing intervenes.
StartHosts(i) ==
  \E ready \in BOOLEAN :
    /\ Turn(i)
    /\ pc[i] = "starting"
    /\ ready => ~closing /\ maintenance # "dead"
    /\ maintenance' = IF ready THEN "running" ELSE maintenance
    /\ Goto(i, IF ready THEN "done" ELSE "failed")
    /\ LeaveTransition
    /\ Suspend
    /\ UNCHANGED <<status, remoteGate, grantGate, owned, saved, credential, admitted, cleanup>>

\* The retention task ends when one of its cleanups fails.
MaintenanceDies ==
  /\ running = Nobody
  /\ maintenance = "running"
  /\ maintenance' = "dead"
  /\ UNCHANGED <<status, transition, remoteGate, grantGate, owned, saved, credential, pc,
                 admitted, cleanup, running>>
-----------------------------------------------------------------------------
OpenerStep(p) ==
  \/ Restore(p) \/ Resolve(p) \/ Unresolved(p) \/ EnterTransition(p) \/ Replace(p)
  \/ Inadmissible(p) \/ StartConnection(p) \/ ReplaceFails(p) \/ Discover(p) \/ Persist(p)
  \/ Publish(p) \/ PublishRefused(p) \/ LoadFails(p) \/ RetireFailedLoad(p)

ConnectorStep(c) ==
  \/ JoinConnection(c) \/ SlotRefused(c) \/ Evict(c) \/ Register(c) \/ GateRefused(c)
  \/ Admit(c) \/ NotAdmitted(c) \/ Reach(c) \/ Evicted(c) \/ Part(c)

DisconnectorStep(d) ==
  \/ JoinConnection(d) \/ SlotRefused(d) \/ Disconnect(d) \/ ForgetGrant(d) \/ Reach(d)
  \/ Part(d)

UnloaderStep(u) ==
  \/ EnterUnload(u) \/ UnloadRefused(u) \/ WithdrawUnloaded(u) \/ ForgetUnloaded(u)
  \/ FinishUnload(u)

DrainerStep(d) ==
  \/ DrainGrant(d) \/ JoinIdleConnection(d) \/ Reach(d) \/ DrainedGrant(d) \/ BeginRelease(d)
  \/ ReleaseRemote(d) \/ EnterRelease(d) \/ ReleasedRemote(d)

StopperStep(s) == DrainerStep(s) \/ EnterStop(s) \/ Stopped(s)

StarterStep(i) ==
  \/ DrainerStep(i) \/ EnterInitialize(i) \/ InitializeLive(i) \/ Reopen(i)
  \/ NotReopened(i) \/ StartHosts(i)

\* What a task does after it was called.
Proceed ==
  \/ \E p \in Opener : OpenerStep(p)
  \/ \E c \in Connector : ConnectorStep(c)
  \/ \E d \in Disconnector : DisconnectorStep(d)
  \/ \E u \in Unloader : UnloaderStep(u)
  \/ \E s \in Stopper : StopperStep(s)
  \/ \E i \in Starter : StarterStep(i)

Call ==
  \/ \E p \in Opener : Load(p) \/ ReadSaved(p)
  \/ \E p \in Connector \cup Disconnector : ReadSlot(p)
  \/ \E u \in Unloader : Unload(u)
  \/ \E s \in Stopper : Stop(s)
  \/ \E i \in Starter : Initialize(i)

Next ==
  \/ Call
  \/ Proceed
  \/ \E p \in Opener : LoseConnection(p)
  \/ MaintenanceDies

Spec == Init /\ [][Next]_vars

\* Every await ends: network and close calls have deadlines, host and database
\* calls return, and the locks are first come, first served.
FairSpec ==
  /\ Spec
  /\ \A p \in Opener : WF_vars(OpenerStep(p))
  /\ \A c \in Connector : WF_vars(ConnectorStep(c))
  /\ \A d \in Disconnector : WF_vars(DisconnectorStep(d))
  /\ \A u \in Unloader : WF_vars(UnloaderStep(u))
  /\ \A s \in Stopper : WF_vars(StopperStep(s))
  /\ \A i \in Starter : WF_vars(StarterStep(i))
-----------------------------------------------------------------------------
\* A physical connection is never lost track of: until its close is
\* acknowledged, the record of its name is its owner's (_retire_remote and the
\* failure paths of _load_remote_connection).
NoConnectionLeaked ==
  \A p \in Opener : connection[p] \in {"open", "lost"} => record[Target[p]] = p

\* A mounted tool stands for the current record of its name, whose enablement
\* the host still retains: a handle never outlives an unload, a disconnect or
\* a restore whose row was removed meanwhile.
MountedIsOwned ==
  \A n \in Name : mounted[n] # Nobody => record[n] = mounted[n] /\ saved[n]

\* While the feature is open, nothing admitted under an earlier generation is
\* recorded or mounted: a load that outlives a shutdown and a re-enable does not
\* publish, and initialize opens the feature only when the cleanup left no record,
\* whichever shutdown had to be finished first.
NoStaleGeneration ==
  \A n \in Name : \A p \in {record[n], mounted[n]} \ {Nobody} :
    closing \/ admitted[p] = generation

\* After a shutdown that reported success, nothing is connected, recorded or
\* mounted until initialize reopens the feature, whatever loads were under way.
QuietAfterShutdown ==
  quiet => \A n \in Name :
    /\ record[n] = Nobody
    /\ mounted[n] = Nobody
    /\ \A p \in Opener : Target[p] = n => connection[p] \in {"none", "closed"}

\* Every call settles: shutdown and an admitted connect never wait for each
\* other, although one holds the transition lock and the other its gate.
EverySettles ==
  \A p \in Task : pc[p] # "idle" ~> pc[p] \in {"done", "failed"}
=============================================================================
