------------------------------ MODULE Containers ------------------------------
(***************************************************************************)
(* The local Docker containers of one feature: MCPToolManager (manager.py)  *)
(* and the operations of feature.py that drive it.  _docker_operations      *)
(* admits one at a time; call is what it is doing, and a step lies between  *)
(* two awaits.                                                              *)
(*                                                                          *)
(* Docker is called in worker threads, which go on when their await is      *)
(* cancelled: such a command is late, and takes effect, or not, at any      *)
(* time after.  The daemon lets one container at a time have a name; the    *)
(* containers that had it are numbered.  Ports, images, logs and the        *)
(* polling of the health check are left out.                                *)
(***************************************************************************)
EXTENDS Naturals, FiniteSets

CONSTANTS
  Name,          \* names of containers
  MaxContainers, \* bound on the containers that have one name in turn
  MaxLate        \* bound on the commands that are late at the same time

ASSUME ContainersAssumption == MaxContainers \in Nat /\ MaxLate \in Nat

VARIABLES
  closing,     \* _closing
  client,      \* the manager's Docker client; none when manager is None
  owned,       \* the container of each record of owned_containers, 0 without one
  connection,  \* the connection of each record
  catalog,     \* the records whose tools is not None
  mounted,     \* containers whose tools the host registry holds
  saved,       \* containers with an enabled row
  box,         \* the container that has each name
  late,        \* commands whose await was cancelled
  call         \* the operation under way

vars == <<closing, client, owned, connection, catalog, mounted, saved, box, late, call>>

docker == <<box, late>>
record == <<owned, connection, catalog>>

Number == 0..MaxContainers
\* A creation is of the container to come, the other commands are given for one.
Command == [op: {"create", "restart", "start", "stop", "remove"}, name: Name, id: Number]

\* told (history): the strongest command this feature gave for the container.
Box == [id: Number, foreign: BOOLEAN, told: {"nothing", "other", "start"},
        status: {"absent", "created", "running", "exited", "removing"}]

Idle == [kind |-> "none", phase |-> "none", on |-> {}, todo |-> {}, failing |-> FALSE]

\* on: the container it is about; todo: those a shutdown has yet to stop; failing: a
\* step of a stop_tool raised.
Call == [kind: {"none", "load", "unload", "shutdown"},
         phase: {"none", "ensuring", "dropping", "finding", "restarting", "removing",
                 "confirming", "creating", "starting", "started", "restarted", "locating", "connecting",
                 "saving", "forgetting", "next", "closing", "halting", "releasing"},
         on: SUBSET Name, todo: SUBSET Name, failing: BOOLEAN]

\* A record without a container does not exist; a catalog has a connection.
TypeOK ==
  /\ closing \in BOOLEAN
  /\ client \in {"none", "open", "closed"}
  /\ owned \in [Name -> Number]
  /\ connection \in [Name -> {"none", "open", "broken"}]
  /\ catalog \subseteq {n \in Name : connection[n] # "none"}
  /\ mounted \subseteq Name
  /\ saved \subseteq Name
  /\ box \in [Name -> Box]
  /\ late \subseteq Command
  /\ Cardinality(late) <= MaxLate
  /\ call \in Call
  /\ \A n \in Name : owned[n] = 0 => connection[n] = "none"

Nobody == [id |-> 0, foreign |-> FALSE, told |-> "nothing", status |-> "absent"]
Found == [id: {1} \cap Number, foreign: BOOLEAN, told: {"nothing"}, status: {"running", "exited"}]

\* A name may be taken: by a container of an earlier process, or by anyone's.  Rows of
\* that process only tell what to load.
Init ==
  /\ closing = FALSE
  /\ client = "none"
  /\ owned = [n \in Name |-> 0]
  /\ connection = [n \in Name |-> "none"]
  /\ catalog = {}
  /\ mounted = {}
  /\ saved = {}
  /\ box \in [Name -> {Nobody} \cup Found]
  /\ late = {}
  /\ call = Idle
-----------------------------------------------------------------------------
(* The daemon.                                                             *)

Registered(n) == box[n].status # "absent"

\* The container of the record is still there.
Exists(n) == Registered(n) /\ box[n].id = owned[n]

Takes(command) ==
  /\ box[command.name].id = command.id
  /\ box[command.name].status \in {"created", "running", "exited"}

\* What a command does to the container it is for, if that is still there.
Outcome(command) ==
  CASE command.op \in {"start", "restart"} -> "running"
    [] command.op = "stop" -> "exited"
    [] command.op = "remove" -> "removing"

MayCreate(n) == ~Registered(n) /\ box[n].id < MaxContainers

\* The next container of that name.
NewBox(n, foreign, status) ==
  [box EXCEPT ![n] = [id |-> @.id + 1, foreign |-> foreign, told |-> "nothing", status |-> status]]

Tell(command, took) ==
  box' = IF ~Takes(command) THEN box ELSE
         [box EXCEPT ![command.name].told = IF command.op \in {"start", "restart"} THEN "start"
                                            ELSE IF @ = "nothing" THEN "other" ELSE @,
                     ![command.name].status = IF took THEN Outcome(command) ELSE @]

Postpone(command) == Cardinality(late) < MaxLate /\ late' = late \cup {command}

\* A command is given for the container of a record, and awaited.
Give(op, n) ==
  /\ Tell([op |-> op, name |-> n, id |-> owned[n]], TRUE)
  /\ UNCHANGED late

\* Its await raises: the command failed before or after it took effect, or is late.
GiveInVain(op, n) ==
  LET command == [op |-> op, name |-> n, id |-> owned[n]]
  IN \/ \E took \in BOOLEAN : Tell(command, took) /\ UNCHANGED late
     \/ Takes(command) /\ Tell(command, FALSE) /\ Postpone(command)
-----------------------------------------------------------------------------
Goto(phase) == call' = [call EXCEPT !.phase = phase]
Raise(phase) == call' = [call EXCEPT !.phase = phase, !.failing = TRUE]
At(phase, n) == call.phase = phase /\ n \in call.on

\* A load that does not publish ends without tools.
EndLoad(n) == call' = Idle /\ mounted' = mounted \ {n}

\* A stop_tool that raises ends an unload; a shutdown goes on to the next name.
EndStop(n) ==
  /\ mounted' = mounted \ {n}
  /\ call' = IF call.kind = "shutdown"
             THEN [call EXCEPT !.phase = "next", !.on = {}, !.failing = FALSE]
             ELSE Idle

EndInError(n) == IF call.kind = "load" THEN EndLoad(n) ELSE EndStop(n)

Drop(n) ==
  /\ owned' = [owned EXCEPT ![n] = 0]
  /\ connection' = [connection EXCEPT ![n] = "none"]
  /\ catalog' = catalog \ {n}

-----------------------------------------------------------------------------
(* The operations.                                                         *)

Load(n) ==
  /\ call = Idle
  /\ ~closing
  /\ call' = [Idle EXCEPT !.kind = "load", !.on = {n},
                          !.phase = IF client = "none" THEN "ensuring" ELSE "dropping"]
  /\ mounted' = IF client = "none" THEN mounted ELSE mounted \ {n}
  /\ UNCHANGED <<closing, client, record, saved, docker>>

Unload(n) ==
  /\ call = Idle
  /\ client # "none"
  /\ call' = [Idle EXCEPT !.kind = "unload", !.on = {n}, !.phase = "forgetting"]
  /\ mounted' = mounted \ {n}
  /\ UNCHANGED <<closing, client, record, saved, docker>>

Shutdown ==
  /\ ~closing
  /\ closing' = TRUE
  /\ UNCHANGED <<client, record, mounted, saved, docker, call>>

\* It takes its turn, again after a failure.
ReleaseContainers ==
  /\ call = Idle
  /\ closing
  /\ client # "none"
  /\ call' = [Idle EXCEPT !.kind = "shutdown", !.phase = "next",
                          !.todo = {n \in Name : owned[n] # 0}]
  /\ UNCHANGED <<closing, client, record, mounted, saved, docker>>

\* Only a shutdown without errors lets initialize drop the manager.
Initialize ==
  /\ call = Idle
  /\ closing
  /\ client # "open"
  /\ closing' = FALSE
  /\ client' = "none"
  /\ UNCHANGED <<record, mounted, saved, docker, call>>
-----------------------------------------------------------------------------
(* A load: start_tool_container, connect_to_tool, and what publishes it.    *)

CreateManager(n) ==
  /\ At("ensuring", n)
  /\ client' = "open"
  /\ IF closing
     THEN call' = Idle /\ UNCHANGED mounted
     ELSE Goto("dropping") /\ mounted' = mounted \ {n}
  /\ UNCHANGED <<closing, record, saved, docker>>

NoDocker(n) ==
  /\ At("ensuring", n)
  /\ call' = Idle
  /\ UNCHANGED <<closing, client, record, mounted, saved, docker>>

DropConnection(n) ==
  /\ At("dropping", n)
  /\ catalog' = catalog \ {n}
  /\ connection' = [connection EXCEPT ![n] = "none"]
  /\ Goto("finding")
  /\ UNCHANGED <<closing, client, owned, mounted, saved, docker>>

DropFails(n) ==
  /\ At("dropping", n)
  /\ connection[n] # "none"
  /\ catalog' = catalog \ {n}
  /\ connection' = [connection EXCEPT ![n] = "broken"]
  /\ EndLoad(n)
  /\ UNCHANGED <<closing, client, owned, saved, docker>>

\* The label that says whose container it is goes unread.
FindAnyones(n) ==
  /\ At("finding", n)
  /\ Registered(n)
  /\ owned' = [owned EXCEPT ![n] = box[n].id]
  /\ Goto(IF box[n].status = "running" THEN "restarting" ELSE "removing")
  /\ UNCHANGED <<closing, client, connection, catalog, mounted, saved, docker>>

Find(n) ==
  /\ At("finding", n)
  /\ Registered(n)
  /\ ~box[n].foreign
  /\ owned' = [owned EXCEPT ![n] = box[n].id]
  /\ Goto(IF box[n].status = "running" THEN "restarting" ELSE "removing")
  /\ UNCHANGED <<closing, client, connection, catalog, mounted, saved, docker>>

FindNone(n) ==
  /\ At("finding", n)
  /\ ~Registered(n)
  /\ Drop(n)
  /\ Goto("creating")
  /\ UNCHANGED <<closing, client, mounted, saved, docker>>

\* Docker does not answer, or the container is not this agent's, or it did not become
\* healthy in time; the owner is checked again before connecting.
LoadFails(n) ==
  /\ call.kind = "load"
  /\ call.phase \in {"finding", "started", "restarted", "locating"}
  /\ n \in call.on
  /\ EndLoad(n)
  /\ UNCHANGED <<closing, client, record, saved, docker>>

Restart(n) ==
  /\ At("restarting", n)
  /\ Exists(n)
  /\ box[n].status # "removing"
  /\ Give("restart", n)
  /\ Goto("restarted")
  /\ UNCHANGED <<closing, client, record, mounted, saved>>

\* A container that is gone by now is replaced as if it had never been found.
RestartAbsent(n) ==
  /\ At("restarting", n) \/ At("restarted", n)
  /\ ~Exists(n)
  /\ Drop(n)
  /\ Goto("creating")
  /\ UNCHANGED <<closing, client, mounted, saved, docker>>

RestartFails(n) ==
  /\ At("restarting", n)
  /\ GiveInVain("restart", n)
  /\ EndLoad(n)
  /\ UNCHANGED <<closing, client, record, saved>>

\* The record is written when the container was created, before it starts.
Create(n) ==
  /\ At("creating", n)
  /\ MayCreate(n)
  /\ box' = NewBox(n, FALSE, "created")
  /\ owned' = [owned EXCEPT ![n] = box'[n].id]
  /\ Goto("starting")
  /\ UNCHANGED <<closing, client, connection, catalog, mounted, saved, late>>

\* The container may come into being nevertheless, now or late.
CreateFails(n) ==
  /\ At("creating", n)
  /\ \/ UNCHANGED <<box, late>>
     \/ MayCreate(n) /\ box' = NewBox(n, FALSE, "created") /\ UNCHANGED late
     \/ Postpone([op |-> "create", name |-> n, id |-> 0]) /\ UNCHANGED box
  /\ EndLoad(n)
  /\ UNCHANGED <<closing, client, record, saved>>

Start(n) ==
  /\ At("starting", n)
  /\ Exists(n)
  /\ box[n].status # "removing"
  /\ Give("start", n)
  /\ Goto("started")
  /\ UNCHANGED <<closing, client, record, mounted, saved>>

StartFails(n) ==
  /\ At("starting", n)
  /\ GiveInVain("start", n)
  /\ EndLoad(n)
  /\ UNCHANGED <<closing, client, record, saved>>

Healthy(n) ==
  /\ At("started", n) \/ At("restarted", n)
  /\ Exists(n)
  /\ box[n].status = "running"
  /\ IF closing THEN EndLoad(n) ELSE Goto("locating") /\ UNCHANGED mounted
  /\ UNCHANGED <<closing, client, record, saved, docker>>

\* The connection enters the record before it connects.
Locate(n) ==
  /\ At("locating", n)
  /\ box[n].status = "running"
  /\ ~box[n].foreign
  /\ owned' = [owned EXCEPT ![n] = box[n].id]
  /\ connection' = [connection EXCEPT ![n] = "broken"]
  /\ Goto("connecting")
  /\ UNCHANGED <<closing, client, catalog, mounted, saved, docker>>

Connect(n) ==
  /\ At("connecting", n)
  /\ connection' = [connection EXCEPT ![n] = "open"]
  /\ catalog' = catalog \cup {n}
  /\ IF closing THEN EndLoad(n) ELSE Goto("saving") /\ UNCHANGED mounted
  /\ UNCHANGED <<closing, client, owned, saved, docker>>

ConnectFails(n) ==
  /\ At("connecting", n)
  /\ connection' = [connection EXCEPT ![n] = "broken"]
  /\ EndLoad(n)
  /\ UNCHANGED <<closing, client, owned, catalog, saved, docker>>

\* A caller is only bound to a connection with a session.
Save(n) ==
  /\ At("saving", n)
  /\ saved' = saved \cup {n}
  /\ call' = Idle
  /\ mounted' = IF closing \/ connection[n] # "open" THEN mounted \ {n} ELSE mounted \cup {n}
  /\ UNCHANGED <<closing, client, record, docker>>

SaveFails(n) ==
  /\ At("saving", n)
  /\ saved' \in {saved, saved \cup {n}}
  /\ EndLoad(n)
  /\ UNCHANGED <<closing, client, record, docker>>
-----------------------------------------------------------------------------
(* An unload, and the stops of a shutdown.                                 *)

\* stop_tool withdraws the catalog of a record at once.
Forget(n) ==
  /\ At("forgetting", n)
  /\ saved' = saved \ {n}
  /\ catalog' = catalog \ {n}
  /\ IF owned[n] = 0 THEN call' = Idle ELSE Goto("closing")
  /\ UNCHANGED <<closing, client, owned, connection, mounted, docker>>

ForgetFails(n) ==
  /\ At("forgetting", n)
  /\ saved' \in {saved, saved \ {n}}
  /\ call' = Idle
  /\ UNCHANGED <<closing, client, record, mounted, docker>>

StopNext(n) ==
  /\ call.phase = "next"
  /\ n \in call.todo
  /\ catalog' = catalog \ {n}
  /\ call' = [call EXCEPT !.phase = "closing", !.on = {n}, !.todo = @ \ {n}]
  /\ UNCHANGED <<closing, client, owned, connection, mounted, saved, docker>>

CloseConnection(n) ==
  /\ At("closing", n)
  /\ connection' = [connection EXCEPT ![n] = IF @ = "none" THEN "none" ELSE "broken"]
  /\ Goto("halting")
  /\ UNCHANGED <<closing, client, owned, catalog, mounted, saved, docker>>

\* The container is stopped nevertheless, and removed whatever becomes of that.
CloseFails(n) ==
  /\ At("closing", n)
  /\ connection[n] # "none"
  /\ connection' = [connection EXCEPT ![n] = "broken"]
  /\ Raise("halting")
  /\ UNCHANGED <<closing, client, owned, catalog, mounted, saved, docker>>

Halt(n) ==
  /\ At("halting", n)
  /\ Give("stop", n)
  /\ Goto("removing")
  /\ UNCHANGED <<closing, client, record, mounted, saved>>

HaltFails(n) ==
  /\ At("halting", n)
  /\ GiveInVain("stop", n)
  /\ Raise("removing")
  /\ UNCHANGED <<closing, client, record, mounted, saved>>
-----------------------------------------------------------------------------
(* _remove_container, of either.                                           *)

\* A load goes on to create a container; an unload deletes the record.
Removed(n) ==
  CASE call.kind = "load" -> Drop(n) /\ Goto("creating") /\ UNCHANGED mounted
    [] call.kind # "load" /\ call.failing -> EndStop(n) /\ UNCHANGED record
    [] OTHER -> Drop(n) /\ EndStop(n)

Remove(n) ==
  /\ At("removing", n)
  /\ Exists(n)
  /\ box[n].status # "removing"
  /\ Give("remove", n)
  /\ Goto("confirming")
  /\ UNCHANGED <<closing, client, record, mounted, saved>>

RemoveAbsent(n) ==
  /\ At("removing", n)
  /\ ~Exists(n)
  /\ Removed(n)
  /\ UNCHANGED <<closing, client, saved, docker>>

RemoveFails(n) ==
  /\ At("removing", n)
  /\ GiveInVain("remove", n)
  /\ EndInError(n)
  /\ UNCHANGED <<closing, client, record, saved>>

ConfirmRemoval(n) ==
  /\ At("confirming", n)
  /\ ~Registered(n)
  /\ Removed(n)
  /\ UNCHANGED <<closing, client, saved, docker>>

\* The record of a container that is still registered is given up.
RemovalUnconfirmedForgotten(n) ==
  /\ At("confirming", n)
  /\ EndInError(n)
  /\ Drop(n)
  /\ UNCHANGED <<closing, client, saved, docker>>

\* The name is still registered after all attempts, or Docker does not answer.
RemovalUnconfirmed(n) ==
  /\ At("confirming", n)
  /\ EndInError(n)
  /\ UNCHANGED <<closing, client, record, saved, docker>>

\* The client is needed to retry what failed.
CloseDrainedManager ==
  /\ call.phase = "next"
  /\ call.todo = {}
  /\ client' = IF \A n \in Name : owned[n] = 0 THEN "closed" ELSE client
  /\ call' = Idle
  /\ UNCHANGED <<closing, record, mounted, saved, docker>>
-----------------------------------------------------------------------------
(* What happens on its own.                                                *)

\* A thread whose await was cancelled.
LateCommand ==
  \E command \in late :
    /\ late' = late \ {command}
    /\ IF command.op # "create" THEN Tell(command, TRUE)
       ELSE \/ MayCreate(command.name) /\ box' = NewBox(command.name, FALSE, "created")
            \/ UNCHANGED box
    /\ UNCHANGED <<closing, client, record, mounted, saved, call>>

Exit(n) ==
  /\ box[n].status = "running"
  /\ box' = [box EXCEPT ![n].status = "exited"]
  /\ UNCHANGED <<closing, client, record, mounted, saved, late, call>>

\* A removal ends, or somebody else removes the container.  Late commands for it then
\* have no effect.
Vanish(n) ==
  /\ Registered(n)
  /\ box' = [box EXCEPT ![n] = [Nobody EXCEPT !.id = box[n].id]]
  /\ late' = {command \in late : command.name # n \/ command.op = "create"}
  /\ UNCHANGED <<closing, client, record, mounted, saved, call>>

\* Somebody else's container gets the name.
Occupy(n) ==
  /\ MayCreate(n)
  /\ box' = NewBox(n, TRUE, "running")
  /\ UNCHANGED <<closing, client, record, mounted, saved, late, call>>

SessionBreaks(n) ==
  /\ connection[n] = "open"
  /\ connection' = [connection EXCEPT ![n] = "broken"]
  /\ UNCHANGED <<closing, client, owned, catalog, mounted, saved, docker, call>>

Next ==
  \/ \E n \in Name :
       \/ Load(n) \/ Unload(n)
       \/ CreateManager(n) \/ NoDocker(n) \/ DropConnection(n) \/ DropFails(n)
       \/ Find(n) \/ FindNone(n) \/ LoadFails(n) \/ Restart(n) \/ RestartFails(n)
       \/ RestartAbsent(n)
       \/ Create(n) \/ CreateFails(n) \/ Start(n) \/ StartFails(n) \/ Healthy(n)
       \/ Locate(n) \/ Connect(n) \/ ConnectFails(n) \/ Save(n) \/ SaveFails(n)
       \/ Forget(n) \/ ForgetFails(n) \/ StopNext(n) \/ CloseConnection(n)
       \/ CloseFails(n) \/ Halt(n) \/ HaltFails(n) \/ Remove(n) \/ RemoveAbsent(n)
       \/ RemoveFails(n) \/ ConfirmRemoval(n) \/ RemovalUnconfirmed(n)
       \/ Exit(n) \/ Vanish(n) \/ Occupy(n) \/ SessionBreaks(n)
  \/ Shutdown \/ ReleaseContainers \/ Initialize \/ CloseDrainedManager \/ LateCommand

Spec == Init /\ [][Next]_vars
-----------------------------------------------------------------------------
\* A container that this feature has started or restarted, and that still exists, is the
\* one in its record: no failed or cancelled load, unload or shutdown, and no command
\* that outlived its await, leaves one behind without custody (_retain_container).
StartedIsOwned ==
  \A n \in Name : Registered(n) /\ box[n].told = "start" => owned[n] = box[n].id

\* No command is ever given for a container without this agent's label, although the
\* name may change hands between any two steps (_assert_container_owner).
ForeignUntouched == \A n \in Name : box[n].foreign => box[n].told = "nothing"
=============================================================================
