--------------------------- MODULE ContainersProofs ---------------------------
(* No container that was started is left without custody and no foreign one  *)
(* is touched, for any names, containers and late commands.                  *)
EXTENDS Containers, FiniteSetTheorems, TLAPS

USE ContainersAssumption
-----------------------------------------------------------------------------
(* The inductive invariant.                                                 *)

\* A record names the container that has the name, which then is this agent's, or
\* one that is gone.
RecordInv ==
  \A n \in Name :
    /\ Registered(n) => box[n].id # 0
    /\ owned[n] <= box[n].id
    /\ owned[n] = box[n].id => ~box[n].foreign

\* A late command was given for such a container too, which was told at once.
LateInv ==
  /\ IsFiniteSet(late)
  /\ \A command \in late : command.op # "create" =>
       /\ command.id <= box[command.name].id
       /\ command.id = box[command.name].id =>
            /\ ~box[command.name].foreign
            /\ Registered(command.name) /\ command.op \in {"restart", "start"} =>
                 box[command.name].told = "start"

CustodyInv == RecordInv /\ LateInv /\ StartedIsOwned /\ ForeignUntouched

\* An operation is about one container, which has a record when it is connected.
CallInv ==
  /\ \A m, n \in call.on : m = n
  /\ call.phase = "connecting" => \A n \in call.on : owned[n] # 0

IInv == TypeOK /\ CallInv /\ CustodyInv
-----------------------------------------------------------------------------
\* Whatever has the names when a feature starts, it has no records.
THEOREM InitIInv == Init => IInv
<1> SUFFICES ASSUME Init PROVE IInv
  OBVIOUS
<1> USE DEF Init
<1>1. call \in Call
  BY DEF Idle, Call
<1>2. box \in [Name -> Box]
  <2>1. 0 \in Number /\ {1} \cap Number \subseteq Number
    BY DEF Number
  <2>2. Nobody \in Box
    BY <2>1 DEF Nobody, Box
  <2>3. Found \subseteq Box
    BY <2>1 DEF Found, Box
  <2> QED
    BY <2>2, <2>3
<1>3. late \subseteq Command /\ IsFiniteSet(late) /\ Cardinality(late) <= MaxLate
  BY FS_EmptySet
<1>4. owned \in [Name -> Number] /\ connection \in [Name -> {"none", "open", "broken"}]
  BY DEF Number
<1>5. TypeOK
  BY <1>1, <1>2, <1>3, <1>4 DEF TypeOK
<1>6. CallInv
  BY DEF CallInv, Idle
<1>7. \A n \in Name : box[n] = Nobody \/ (box[n].id = 1 /\ box[n].told = "nothing")
  BY DEF Found
<1>8. CustodyInv
  BY <1>2, <1>3, <1>7 DEF CustodyInv, RecordInv, LateInv, StartedIsOwned, ForeignUntouched,
    Nobody, Registered, Box, Number
<1> QED
  BY <1>5, <1>6, <1>8 DEF IInv

\* Custody depends on the daemon and the records only.
LEMMA Quiet ==
  ASSUME IInv, UNCHANGED <<box, late, owned>>
  PROVE  CustodyInv'
  BY DEF IInv, CustodyInv, RecordInv, LateInv, StartedIsOwned, ForeignUntouched, Registered

\* A command moves no name, and marks at most the container that it is for.
LEMMA Told ==
  ASSUME TypeOK, NEW command \in Command, command.op # "create", NEW took \in BOOLEAN,
         Tell(command, took)
  PROVE  /\ box' \in [Name -> Box]
         /\ \A n \in Name :
              /\ box'[n].id = box[n].id /\ box'[n].foreign = box[n].foreign
              /\ Registered(n)' <=> Registered(n)
              /\ \/ box'[n].told = box[n].told
                 \/ /\ n = command.name /\ box[n].id = command.id /\ Registered(n)
                    /\ box'[n].told = "start" => command.op \in {"restart", "start"}
              /\ box[n].told = "start" => box'[n].told = "start"
         /\ Takes(command) /\ command.op \in {"restart", "start"} =>
              box'[command.name].told = "start"
<1>1. CASE ~Takes(command)
  BY <1>1 DEF Tell, TypeOK, Registered
<1>2. CASE Takes(command)
  <2> DEFINE b == box[command.name]
             told == IF command.op \in {"start", "restart"} THEN "start"
                     ELSE IF b.told = "nothing" THEN "other" ELSE b.told
             status == IF took THEN Outcome(command) ELSE b.status
             new == [b EXCEPT !.told = told, !.status = status]
  <2>1. command.name \in Name /\ command.op \in {"restart", "start", "stop", "remove"}
    BY DEF Command
  <2>2. b \in Box /\ b.id = command.id /\ b.status \in {"created", "running", "exited"}
    BY <1>2, <2>1 DEF Takes, TypeOK
  <2>3. Outcome(command) \in {"running", "exited", "removing"}
    BY <2>1 DEF Outcome
  <2>4. /\ new \in Box /\ new.id = b.id /\ new.foreign = b.foreign /\ new.told = told
        /\ new.status # "absent"
    BY <2>2, <2>3 DEF Box
  <2>5. box' = [box EXCEPT ![command.name] = new]
    BY <1>2 DEF Tell
  <2> HIDE DEF new
  <2> QED
    BY <2>1, <2>2, <2>4, <2>5, <1>2 DEF TypeOK, Registered, Box
<1> QED
  BY <1>1, <1>2

\* One more command is late.
LEMMA Postponed ==
  ASSUME TypeOK, IsFiniteSet(late), NEW command \in Command, Postpone(command)
  PROVE  late' \subseteq Command /\ IsFiniteSet(late') /\ Cardinality(late') <= MaxLate
<1>1. Cardinality(late) \in Nat /\ Cardinality(late) < MaxLate
  BY FS_CardinalityType DEF Postpone
<1>2. /\ IsFiniteSet(late \cup {command})
      /\ Cardinality(late \cup {command}) =
           IF command \in late THEN Cardinality(late) ELSE Cardinality(late) + 1
  BY FS_AddElement, Zenon
<1> QED
  BY <1>1, <1>2 DEF Postpone, TypeOK

\* Late commands take effect, or have none any more.
LEMMA Withdrawn ==
  ASSUME TypeOK, IsFiniteSet(late), late' \subseteq late
  PROVE  late' \subseteq Command /\ IsFiniteSet(late') /\ Cardinality(late') <= MaxLate
<1>1. Cardinality(late) \in Nat
  BY FS_CardinalityType
<1>2. IsFiniteSet(late') /\ Cardinality(late') \in Nat /\ Cardinality(late') <= Cardinality(late)
  BY FS_Subset, FS_CardinalityType
<1> QED
  BY <1>1, <1>2 DEF TypeOK

\* A command for the container of a record, whatever becomes of its await.
LEMMA Commanded ==
  ASSUME IInv, NEW n \in Name, NEW op \in {"restart", "start", "stop", "remove"},
         Give(op, n) \/ GiveInVain(op, n), UNCHANGED owned
  PROVE  /\ box' \in [Name -> Box] /\ late' \subseteq Command /\ Cardinality(late') <= MaxLate
         /\ CustodyInv'
<1> DEFINE command == [op |-> op, name |-> n, id |-> owned[n]]
<1> USE DEF IInv
<1>1. /\ command \in Command /\ command.op = op /\ command.name = n /\ command.id = owned[n]
      /\ op # "create"
  BY DEF Command, TypeOK
<1>2. PICK took \in BOOLEAN : Tell(command, took)
  BY DEF Give, GiveInVain
<1>3. late' = late \/ (late' = late \cup {command} /\ Cardinality(late) < MaxLate /\ Takes(command))
  BY DEF Give, GiveInVain, Postpone
<1> HIDE DEF command
<1>4. /\ box' \in [Name -> Box]
      /\ \A m \in Name :
           /\ box'[m].id = box[m].id /\ box'[m].foreign = box[m].foreign
           /\ Registered(m)' <=> Registered(m)
           /\ \/ box'[m].told = box[m].told
              \/ /\ m = n /\ box[m].id = owned[m] /\ Registered(m)
           /\ box[m].told = "start" => box'[m].told = "start"
      /\ Takes(command) /\ op \in {"restart", "start"} => box'[n].told = "start"
  BY <1>1, <1>2, Told
<1>5. late' \subseteq Command /\ IsFiniteSet(late') /\ Cardinality(late') <= MaxLate
  BY <1>1, <1>3, Postponed, Withdrawn DEF Postpone, CustodyInv, LateInv
<1>6. RecordInv'
  BY <1>4 DEF CustodyInv, RecordInv
<1>7. StartedIsOwned' /\ ForeignUntouched'
  BY <1>4 DEF CustodyInv, RecordInv, StartedIsOwned, ForeignUntouched, TypeOK, Box
<1>8. LateInv'
  <2> SUFFICES ASSUME NEW c \in late', c.op # "create"
               PROVE  /\ c.id <= box'[c.name].id
                      /\ c.id = box'[c.name].id =>
                           /\ ~box'[c.name].foreign
                           /\ Registered(c.name)' /\ c.op \in {"restart", "start"} =>
                                box'[c.name].told = "start"
    BY <1>5 DEF LateInv
  <2>1. c \in Command /\ c.name \in Name
    BY <1>5 DEF Command
  <2>2. CASE c \in late
    BY <2>1, <2>2, <1>4 DEF CustodyInv, LateInv
  <2>3. CASE c = command /\ Takes(command)
    BY <2>1, <2>3, <1>1, <1>4 DEF CustodyInv, RecordInv
  <2> QED
    BY <1>3, <2>2, <2>3
<1> QED
  BY <1>4, <1>5, <1>6, <1>7, <1>8 DEF CustodyInv

\* The next container of a name is nobody's in custody, and no command is late for it.
LEMMA Created ==
  ASSUME IInv, NEW n \in Name, MayCreate(n), NEW foreign \in BOOLEAN,
         NEW status \in {"created", "running"}, box' = NewBox(n, foreign, status),
         late' \subseteq late,
         owned' = owned \/ (~foreign /\ owned' = [owned EXCEPT ![n] = box'[n].id])
  PROVE  /\ box' \in [Name -> Box]
         /\ box'[n].id \in Number /\ box'[n].id # 0
         /\ CustodyInv'
<1> USE DEF IInv
<1> DEFINE new == [id |-> box[n].id + 1, foreign |-> foreign, told |-> "nothing",
                   status |-> status]
<1>1. box[n].id \in Number /\ box[n].id < MaxContainers
  BY DEF TypeOK, Box, MayCreate
<1>2. new \in Box /\ new.id \in Number /\ new.id > box[n].id
  BY <1>1 DEF Box, Number
<1>3. box' = [box EXCEPT ![n] = new]
  BY DEF NewBox
<1>4. /\ box' \in [Name -> Box]
      /\ box'[n].id > box[n].id /\ box'[n].id \in Number
      /\ box'[n].foreign = foreign /\ box'[n].told = "nothing"
      /\ \A m \in Name \ {n} : box'[m] = box[m]
  BY <1>2, <1>3 DEF TypeOK
<1> HIDE DEF new
<1>5. owned \in [Name -> Number] /\ \A m \in Name : box[m].id \in Number
  BY DEF TypeOK, Box
<1>6. RecordInv'
  BY <1>1, <1>4, <1>5 DEF CustodyInv, RecordInv, Registered, Number
<1>7. LateInv'
  <2>1. IsFiniteSet(late')
    BY FS_Subset DEF CustodyInv, LateInv
  <2>2. \A c \in late' : c.name \in Name /\ c.id \in Number
    BY DEF TypeOK, Command
  <2> QED
    BY <1>1, <1>4, <2>1, <2>2 DEF CustodyInv, LateInv, Registered, Number
<1>8. StartedIsOwned' /\ ForeignUntouched'
  BY <1>4, <1>5 DEF CustodyInv, StartedIsOwned, ForeignUntouched, Registered
<1> QED
  BY <1>1, <1>4, <1>6, <1>7, <1>8 DEF CustodyInv, Number

\* A record is deleted when its container is gone, or has lost its name.
LEMMA Dropped ==
  ASSUME IInv, NEW n \in Name, ~Exists(n), Drop(n), UNCHANGED <<box, late>>
  PROVE  CustodyInv'
<1>1. owned' = [owned EXCEPT ![n] = 0] /\ owned \in [Name -> Number]
  BY DEF Drop, IInv, TypeOK
<1>2. \A m \in Name : box[m].id \in Nat /\ (box[m].id = 0 => ~box[m].foreign)
  BY DEF IInv, TypeOK, Box, Number, CustodyInv, RecordInv
<1>3. RecordInv'
  BY <1>1, <1>2 DEF IInv, CustodyInv, RecordInv, Registered
<1>4. LateInv' /\ ForeignUntouched'
  BY DEF IInv, CustodyInv, LateInv, ForeignUntouched, Registered
<1>5. StartedIsOwned'
  BY <1>1 DEF IInv, CustodyInv, StartedIsOwned, Exists, Registered
<1> QED
  BY <1>3, <1>4, <1>5 DEF CustodyInv

\* A record takes the container that has its name, after its label was read.
LEMMA Adopted ==
  ASSUME IInv, NEW n \in Name, Registered(n), ~box[n].foreign,
         owned' = [owned EXCEPT ![n] = box[n].id], UNCHANGED <<box, late>>
  PROVE  owned' \in [Name -> Number] /\ owned'[n] # 0 /\ CustodyInv'
<1>1. owned \in [Name -> Number] /\ \A m \in Name : box[m].id \in Number
  BY DEF IInv, TypeOK, Box
<1>2. RecordInv'
  BY <1>1 DEF IInv, CustodyInv, RecordInv, Registered, Number
<1>3. LateInv' /\ ForeignUntouched'
  BY DEF IInv, CustodyInv, LateInv, ForeignUntouched, Registered
<1>4. StartedIsOwned'
  BY <1>1 DEF IInv, CustodyInv, StartedIsOwned, Registered
<1> QED
  BY <1>1, <1>2, <1>3, <1>4 DEF IInv, CustodyInv, RecordInv

\* Where a call goes next keeps what it is about.
LEMMA CallSteps ==
  ASSUME call \in Call, CallInv,
         NEW p \in {"dropping", "finding", "restarting", "removing", "confirming", "creating",
                    "starting", "started", "restarted", "locating", "connecting", "saving",
                    "closing", "halting"},
         Goto(p) \/ Raise(p)
  PROVE  /\ call' \in Call /\ call'.phase = p /\ call'.on = call.on
         /\ p # "connecting" => CallInv'
<1>1. call' \in Call
  BY DEF Call, Goto, Raise
<1>2. call'.phase = p /\ call'.on = call.on
  BY DEF Call, Goto, Raise
<1> QED
  BY <1>1, <1>2 DEF CallInv

\* The end of an operation, or of one stop of a shutdown, is about no container.
LEMMA CallEnds ==
  ASSUME TypeOK, NEW n \in Name,
         EndLoad(n) \/ EndStop(n) \/ EndInError(n) \/ (call' = Idle /\ UNCHANGED mounted)
  PROVE  call' \in Call /\ CallInv' /\ mounted' \subseteq Name
<1>1. call' = Idle \/ call' = [call EXCEPT !.phase = "next", !.on = {}, !.failing = FALSE]
  BY DEF EndLoad, EndStop, EndInError
<1>2. call' \in Call /\ call'.phase # "connecting" /\ call'.on = {}
  <2>1. CASE call' = Idle
    BY <2>1 DEF Call, Idle
  <2>2. CASE call' = [call EXCEPT !.phase = "next", !.on = {}, !.failing = FALSE]
    BY <2>2 DEF TypeOK, Call
  <2> QED
    BY <1>1, <2>1, <2>2
<1>3. mounted' \subseteq Name
  BY DEF EndLoad, EndStop, EndInError, TypeOK
<1> QED
  BY <1>2, <1>3 DEF CallInv

\* Only finitely many commands are late.
LEMMA FinitelyLate == IInv => IsFiniteSet(late)
  BY DEF IInv, CustodyInv, LateInv

\* A late command marks a container that it was given for, if any.
LEMMA Obeyed ==
  ASSUME IInv, NEW command \in late, command.op # "create", Tell(command, TRUE),
         late' \subseteq late, IsFiniteSet(late'), UNCHANGED owned
  PROVE  CustodyInv'
<1> USE DEF IInv, CustodyInv
<1>1. command \in Command /\ late \subseteq Command
  BY DEF TypeOK
<1>2. \A n \in Name :
        /\ box'[n].id = box[n].id /\ box'[n].foreign = box[n].foreign
        /\ Registered(n)' <=> Registered(n)
        /\ \/ box'[n].told = box[n].told
           \/ /\ n = command.name /\ box[n].id = command.id /\ Registered(n)
              /\ box'[n].told = "start" => command.op \in {"restart", "start"}
        /\ box[n].told = "start" => box'[n].told = "start"
  BY <1>1, Told
<1>3. RecordInv'
  BY <1>2 DEF RecordInv
<1>4. \A c \in late : c.name \in Name
  BY <1>1 DEF Command
<1>5. LateInv'
  BY <1>2, <1>4 DEF LateInv
<1>6. StartedIsOwned' /\ ForeignUntouched'
  BY <1>2, <1>4 DEF LateInv, StartedIsOwned, ForeignUntouched
<1> QED
  BY <1>3, <1>5, <1>6

\* Every step of an operation, the daemon and a session keeps it.
THEOREM StepIInv == IInv /\ [Next]_vars => IInv'
<1> SUFFICES ASSUME IInv, [Next]_vars PROVE IInv'
  OBVIOUS
<1> USE DEF IInv, docker, record
<1>1. ASSUME NEW n \in Name, Load(n) PROVE IInv'
  <2> USE <1>1
  <2>1. TypeOK'
    <3>1. call' \in Call
      BY DEF Load, Idle, Call
    <3>2. mounted' \subseteq Name
      BY DEF Load, TypeOK
    <3> QED
      BY <3>1, <3>2 DEF Load, TypeOK
  <2>2. CallInv'
    BY DEF Load, Idle, CallInv
  <2>3. CustodyInv'
    BY Quiet DEF Load
  <2> QED
    BY <2>1, <2>2, <2>3
<1>2. ASSUME NEW n \in Name, Unload(n) PROVE IInv'
  <2> USE <1>2
  <2>1. TypeOK'
    <3>1. call' \in Call
      BY DEF Unload, Idle, Call
    <3>2. mounted' \subseteq Name
      BY DEF Unload, TypeOK
    <3> QED
      BY <3>1, <3>2 DEF Unload, TypeOK
  <2>2. CallInv'
    BY DEF Unload, Idle, CallInv
  <2>3. CustodyInv'
    BY Quiet DEF Unload
  <2> QED
    BY <2>1, <2>2, <2>3
<1>3. ASSUME NEW n \in Name, CreateManager(n) PROVE IInv'
  <2> USE <1>3
  <2>1. TypeOK'
    BY CallSteps, CallEnds DEF CreateManager, TypeOK, At
  <2>2. CallInv'
    BY CallSteps, CallEnds DEF CreateManager, TypeOK, At
  <2>3. CustodyInv'
    BY Quiet DEF CreateManager
  <2> QED
    BY <2>1, <2>2, <2>3
<1>4. ASSUME NEW n \in Name, NoDocker(n) PROVE IInv'
  <2> USE <1>4
  <2>1. TypeOK'
    BY CallEnds DEF NoDocker, TypeOK, At
  <2>2. CallInv'
    BY CallEnds DEF NoDocker, TypeOK, At
  <2>3. CustodyInv'
    BY Quiet DEF NoDocker
  <2> QED
    BY <2>1, <2>2, <2>3
<1>5. ASSUME NEW n \in Name, DropConnection(n) PROVE IInv'
  <2> USE <1>5
  <2>1. TypeOK'
    BY CallSteps DEF DropConnection, TypeOK, At
  <2>2. CallInv'
    BY CallSteps DEF DropConnection, TypeOK, At
  <2>3. CustodyInv'
    BY Quiet DEF DropConnection
  <2> QED
    BY <2>1, <2>2, <2>3
<1>6. ASSUME NEW n \in Name, DropFails(n) PROVE IInv'
  <2> USE <1>6
  <2>1. TypeOK'
    BY CallEnds DEF DropFails, TypeOK, At
  <2>2. CallInv'
    BY CallEnds DEF DropFails, TypeOK, At
  <2>3. CustodyInv'
    BY Quiet DEF DropFails
  <2> QED
    BY <2>1, <2>2, <2>3
<1>7. ASSUME NEW n \in Name, LoadFails(n) PROVE IInv'
  <2> USE <1>7
  <2>1. TypeOK'
    BY CallEnds DEF LoadFails, TypeOK, At
  <2>2. CallInv'
    BY CallEnds DEF LoadFails, TypeOK, At
  <2>3. CustodyInv'
    BY Quiet DEF LoadFails
  <2> QED
    BY <2>1, <2>2, <2>3
<1>8. ASSUME NEW n \in Name, Healthy(n) PROVE IInv'
  <2> USE <1>8
  <2>1. TypeOK'
    BY CallSteps, CallEnds DEF Healthy, TypeOK, At
  <2>2. CallInv'
    BY CallSteps, CallEnds DEF Healthy, TypeOK, At
  <2>3. CustodyInv'
    BY Quiet DEF Healthy
  <2> QED
    BY <2>1, <2>2, <2>3
<1>9. ASSUME NEW n \in Name, Connect(n) PROVE IInv'
  <2> USE <1>9
  <2>1. TypeOK'
    BY CallSteps, CallEnds DEF Connect, TypeOK, At, CallInv
  <2>2. CallInv'
    BY CallSteps, CallEnds DEF Connect, TypeOK, At, CallInv
  <2>3. CustodyInv'
    BY Quiet DEF Connect
  <2> QED
    BY <2>1, <2>2, <2>3
<1>10. ASSUME NEW n \in Name, ConnectFails(n) PROVE IInv'
  <2> USE <1>10
  <2>1. TypeOK'
    BY CallEnds DEF ConnectFails, TypeOK, At, CallInv
  <2>2. CallInv'
    BY CallEnds DEF ConnectFails, TypeOK, At, CallInv
  <2>3. CustodyInv'
    BY Quiet DEF ConnectFails
  <2> QED
    BY <2>1, <2>2, <2>3
<1>11. ASSUME NEW n \in Name, Save(n) PROVE IInv'
  <2> USE <1>11
  <2>1. TypeOK'
    <3>1. call' \in Call
      BY DEF Save, Idle, Call
    <3>2. mounted' \subseteq Name
      BY DEF Save, TypeOK
    <3> QED
      BY <3>1, <3>2 DEF Save, TypeOK
  <2>2. CallInv'
    BY DEF Save, Idle, CallInv
  <2>3. CustodyInv'
    BY Quiet DEF Save
  <2> QED
    BY <2>1, <2>2, <2>3
<1>12. ASSUME NEW n \in Name, SaveFails(n) PROVE IInv'
  <2> USE <1>12
  <2>1. TypeOK'
    BY CallEnds DEF SaveFails, TypeOK, At
  <2>2. CallInv'
    BY CallEnds DEF SaveFails, TypeOK, At
  <2>3. CustodyInv'
    BY Quiet DEF SaveFails
  <2> QED
    BY <2>1, <2>2, <2>3
<1>13. ASSUME NEW n \in Name, Forget(n) PROVE IInv'
  <2> USE <1>13
  <2>1. TypeOK'
    BY CallSteps, CallEnds DEF Forget, TypeOK, At
  <2>2. CallInv'
    BY CallSteps, CallEnds DEF Forget, TypeOK, At
  <2>3. CustodyInv'
    BY Quiet DEF Forget
  <2> QED
    BY <2>1, <2>2, <2>3
<1>14. ASSUME NEW n \in Name, ForgetFails(n) PROVE IInv'
  <2> USE <1>14
  <2>1. TypeOK'
    BY CallEnds DEF ForgetFails, TypeOK, At
  <2>2. CallInv'
    BY CallEnds DEF ForgetFails, TypeOK, At
  <2>3. CustodyInv'
    BY Quiet DEF ForgetFails
  <2> QED
    BY <2>1, <2>2, <2>3
<1>15. ASSUME NEW n \in Name, StopNext(n) PROVE IInv'
  <2> USE <1>15
  <2>1. TypeOK'
    BY DEF StopNext, TypeOK, At, Call
  <2>2. CallInv'
    BY DEF StopNext, TypeOK, At, Call, CallInv
  <2>3. CustodyInv'
    BY Quiet DEF StopNext
  <2> QED
    BY <2>1, <2>2, <2>3
<1>16. ASSUME NEW n \in Name, CloseConnection(n) PROVE IInv'
  <2> USE <1>16
  <2>1. TypeOK'
    BY CallSteps DEF CloseConnection, TypeOK, At
  <2>2. CallInv'
    BY CallSteps DEF CloseConnection, TypeOK, At
  <2>3. CustodyInv'
    BY Quiet DEF CloseConnection
  <2> QED
    BY <2>1, <2>2, <2>3
<1>17. ASSUME NEW n \in Name, CloseFails(n) PROVE IInv'
  <2> USE <1>17
  <2>1. TypeOK'
    BY CallSteps DEF CloseFails, TypeOK, At
  <2>2. CallInv'
    BY CallSteps DEF CloseFails, TypeOK, At
  <2>3. CustodyInv'
    BY Quiet DEF CloseFails
  <2> QED
    BY <2>1, <2>2, <2>3
<1>18. ASSUME NEW n \in Name, RemovalUnconfirmed(n) PROVE IInv'
  <2> USE <1>18
  <2>1. TypeOK'
    BY CallEnds DEF RemovalUnconfirmed, TypeOK, At
  <2>2. CallInv'
    BY CallEnds DEF RemovalUnconfirmed, TypeOK, At
  <2>3. CustodyInv'
    BY Quiet DEF RemovalUnconfirmed
  <2> QED
    BY <2>1, <2>2, <2>3
<1>19. ASSUME NEW n \in Name, SessionBreaks(n) PROVE IInv'
  <2> USE <1>19
  <2>1. TypeOK'
    BY DEF SessionBreaks, TypeOK, At
  <2>2. CallInv'
    BY DEF SessionBreaks, TypeOK, At, CallInv
  <2>3. CustodyInv'
    BY Quiet DEF SessionBreaks
  <2> QED
    BY <2>1, <2>2, <2>3
<1>20. ASSUME Shutdown PROVE IInv'
  <2> USE <1>20
  <2>1. TypeOK'
    BY DEF Shutdown, TypeOK
  <2>2. CallInv'
    BY DEF Shutdown, CallInv, TypeOK
  <2>3. CustodyInv'
    BY Quiet DEF Shutdown
  <2> QED
    BY <2>1, <2>2, <2>3
<1>21. ASSUME ReleaseContainers PROVE IInv'
  <2> USE <1>21
  <2>1. TypeOK'
    BY DEF ReleaseContainers, TypeOK, Call, Idle
  <2>2. CallInv'
    BY DEF ReleaseContainers, CallInv, TypeOK, Call, Idle
  <2>3. CustodyInv'
    BY Quiet DEF ReleaseContainers
  <2> QED
    BY <2>1, <2>2, <2>3
<1>22. ASSUME Initialize PROVE IInv'
  <2> USE <1>22
  <2>1. TypeOK'
    BY DEF Initialize, TypeOK
  <2>2. CallInv'
    BY DEF Initialize, CallInv, TypeOK
  <2>3. CustodyInv'
    BY Quiet DEF Initialize
  <2> QED
    BY <2>1, <2>2, <2>3
<1>23. ASSUME CloseDrainedManager PROVE IInv'
  <2> USE <1>23
  <2>1. TypeOK'
    BY DEF CloseDrainedManager, TypeOK, Call, Idle
  <2>2. CallInv'
    BY DEF CloseDrainedManager, CallInv, TypeOK, Call, Idle
  <2>3. CustodyInv'
    BY Quiet DEF CloseDrainedManager
  <2> QED
    BY <2>1, <2>2, <2>3
<1>24. ASSUME NEW n \in Name, Restart(n) PROVE IInv'
  <2> USE <1>24
  <2>1. TypeOK'
    BY Commanded, CallSteps DEF Restart, TypeOK
  <2>2. CallInv'
    BY CallSteps DEF Restart, TypeOK
  <2>3. CustodyInv'
    BY Commanded DEF Restart
  <2> QED
    BY <2>1, <2>2, <2>3
<1>25. ASSUME NEW n \in Name, RestartFails(n) PROVE IInv'
  <2> USE <1>25
  <2>1. TypeOK'
    BY Commanded, CallEnds DEF RestartFails, TypeOK
  <2>2. CallInv'
    BY CallEnds DEF RestartFails, TypeOK
  <2>3. CustodyInv'
    BY Commanded DEF RestartFails
  <2> QED
    BY <2>1, <2>2, <2>3
<1>26. ASSUME NEW n \in Name, Start(n) PROVE IInv'
  <2> USE <1>26
  <2>1. TypeOK'
    BY Commanded, CallSteps DEF Start, TypeOK
  <2>2. CallInv'
    BY CallSteps DEF Start, TypeOK
  <2>3. CustodyInv'
    BY Commanded DEF Start
  <2> QED
    BY <2>1, <2>2, <2>3
<1>27. ASSUME NEW n \in Name, StartFails(n) PROVE IInv'
  <2> USE <1>27
  <2>1. TypeOK'
    BY Commanded, CallEnds DEF StartFails, TypeOK
  <2>2. CallInv'
    BY CallEnds DEF StartFails, TypeOK
  <2>3. CustodyInv'
    BY Commanded DEF StartFails
  <2> QED
    BY <2>1, <2>2, <2>3
<1>28. ASSUME NEW n \in Name, Halt(n) PROVE IInv'
  <2> USE <1>28
  <2>1. TypeOK'
    BY Commanded, CallSteps DEF Halt, TypeOK
  <2>2. CallInv'
    BY CallSteps DEF Halt, TypeOK
  <2>3. CustodyInv'
    BY Commanded DEF Halt
  <2> QED
    BY <2>1, <2>2, <2>3
<1>29. ASSUME NEW n \in Name, HaltFails(n) PROVE IInv'
  <2> USE <1>29
  <2>1. TypeOK'
    BY Commanded, CallSteps DEF HaltFails, TypeOK
  <2>2. CallInv'
    BY CallSteps DEF HaltFails, TypeOK
  <2>3. CustodyInv'
    BY Commanded DEF HaltFails
  <2> QED
    BY <2>1, <2>2, <2>3
<1>30. ASSUME NEW n \in Name, Remove(n) PROVE IInv'
  <2> USE <1>30
  <2>1. TypeOK'
    BY Commanded, CallSteps DEF Remove, TypeOK
  <2>2. CallInv'
    BY CallSteps DEF Remove, TypeOK
  <2>3. CustodyInv'
    BY Commanded DEF Remove
  <2> QED
    BY <2>1, <2>2, <2>3
<1>31. ASSUME NEW n \in Name, RemoveFails(n) PROVE IInv'
  <2> USE <1>31
  <2>1. TypeOK'
    BY Commanded, CallEnds DEF RemoveFails, TypeOK
  <2>2. CallInv'
    BY CallEnds DEF RemoveFails, TypeOK
  <2>3. CustodyInv'
    BY Commanded DEF RemoveFails
  <2> QED
    BY <2>1, <2>2, <2>3
<1>32. ASSUME NEW n \in Name, Find(n) PROVE IInv'
  <2> USE <1>32
  <2>1. TypeOK'
    BY Adopted, CallSteps DEF Find, TypeOK
  <2>2. CallInv'
    BY CallSteps DEF Find, TypeOK
  <2>3. CustodyInv'
    BY Adopted DEF Find
  <2> QED
    BY <2>1, <2>2, <2>3
<1>33. ASSUME NEW n \in Name, Locate(n) PROVE IInv'
  <2> USE <1>33
  <2>1. TypeOK'
    BY Adopted, CallSteps DEF Locate, Registered, TypeOK
  <2>2. CallInv'
    <3>1. owned'[n] # 0
      BY Adopted DEF Locate, Registered
    <3>2. call'.phase = "connecting" /\ call'.on = call.on
      BY CallSteps DEF Locate, TypeOK
    <3> QED
      BY <3>1, <3>2 DEF Locate, At, CallInv
  <2>3. CustodyInv'
    BY Adopted DEF Locate, Registered
  <2> QED
    BY <2>1, <2>2, <2>3
<1>34. ASSUME NEW n \in Name, FindNone(n) PROVE IInv'
  <2> USE <1>34
  <2>1. TypeOK'
    BY CallSteps DEF FindNone, Drop, TypeOK, Number
  <2>2. CallInv'
    BY CallSteps DEF FindNone, TypeOK
  <2>3. CustodyInv'
    BY Dropped DEF FindNone, Exists
  <2> QED
    BY <2>1, <2>2, <2>3
<1>35. ASSUME NEW n \in Name, RestartAbsent(n) PROVE IInv'
  <2> USE <1>35
  <2>1. TypeOK'
    BY CallSteps DEF RestartAbsent, Drop, TypeOK, Number
  <2>2. CallInv'
    BY CallSteps DEF RestartAbsent, TypeOK
  <2>3. CustodyInv'
    BY Dropped DEF RestartAbsent, Exists
  <2> QED
    BY <2>1, <2>2, <2>3
<1>36. ASSUME NEW n \in Name, RemoveAbsent(n) PROVE IInv'
  <2> USE <1>36
  <2>1. TypeOK'
    BY CallSteps, CallEnds DEF RemoveAbsent, Removed, Drop, TypeOK, Number
  <2>2. CallInv'
    BY CallSteps, CallEnds DEF RemoveAbsent, Removed, TypeOK
  <2>3. CustodyInv'
    BY Dropped, Quiet DEF RemoveAbsent, Removed, Exists
  <2> QED
    BY <2>1, <2>2, <2>3
<1>37. ASSUME NEW n \in Name, ConfirmRemoval(n) PROVE IInv'
  <2> USE <1>37
  <2>1. TypeOK'
    BY CallSteps, CallEnds DEF ConfirmRemoval, Removed, Drop, TypeOK, Number
  <2>2. CallInv'
    BY CallSteps, CallEnds DEF ConfirmRemoval, Removed, TypeOK
  <2>3. CustodyInv'
    BY Dropped, Quiet DEF ConfirmRemoval, Removed, Exists
  <2> QED
    BY <2>1, <2>2, <2>3
<1>38. ASSUME NEW n \in Name, Create(n) PROVE IInv'
  <2> USE <1>38
  <2>1. TypeOK'
    BY Created, CallSteps DEF Create, TypeOK
  <2>2. CallInv'
    BY CallSteps DEF Create, TypeOK
  <2>3. CustodyInv'
    BY Created DEF Create
  <2> QED
    BY <2>1, <2>2, <2>3
<1>39. ASSUME NEW n \in Name, CreateFails(n) PROVE IInv'
  <2> USE <1>39
  <2>1. TypeOK'
    <3>1. box' \in [Name -> Box]
      BY Created DEF CreateFails, TypeOK
    <3>2. late' \subseteq Command /\ Cardinality(late') <= MaxLate
      <4>1. [op |-> "create", name |-> n, id |-> 0] \in Command
        BY DEF Command, Number
      <4>2. late' = late \/ Postpone([op |-> "create", name |-> n, id |-> 0])
        BY DEF CreateFails
      <4> QED
        BY <4>1, <4>2, Postponed, FinitelyLate DEF TypeOK
    <3> QED
      BY <3>1, <3>2, CallEnds DEF CreateFails, TypeOK
  <2>2. CallInv'
    BY CallEnds DEF CreateFails, TypeOK
  <2>3. CustodyInv'
    <3>1. CASE UNCHANGED <<box, late>>
      BY <3>1, Quiet DEF CreateFails
    <3>2. CASE MayCreate(n) /\ box' = NewBox(n, FALSE, "created") /\ UNCHANGED late
      BY <3>2, Created DEF CreateFails
    <3>3. ASSUME Postpone([op |-> "create", name |-> n, id |-> 0]), UNCHANGED box
          PROVE  CustodyInv'
      <4>1. IsFiniteSet(late')
        BY <3>3, Postponed, FinitelyLate DEF Command, Number
      <4>2. \A c \in late' : c \in late \/ c.op = "create"
        BY <3>3 DEF Postpone
      <4> QED
        BY <3>3, <4>1, <4>2 DEF CreateFails, CustodyInv, RecordInv, LateInv, StartedIsOwned,
          ForeignUntouched, Registered
    <3> QED
      BY <3>1, <3>2, <3>3 DEF CreateFails
  <2> QED
    BY <2>1, <2>2, <2>3
<1>40. ASSUME NEW n \in Name, Occupy(n) PROVE IInv'
  <2> USE <1>40
  <2>1. TypeOK'
    BY Created DEF Occupy, TypeOK
  <2>2. CallInv'
    BY DEF Occupy, CallInv
  <2>3. CustodyInv'
    BY Created DEF Occupy
  <2> QED
    BY <2>1, <2>2, <2>3
<1>41. ASSUME NEW n \in Name, Exit(n) PROVE IInv'
  <2> USE <1>41
  <2>1. TypeOK'
    BY DEF Exit, TypeOK, Box
  <2>2. CallInv'
    BY DEF Exit, CallInv
  <2>3. CustodyInv'
    BY DEF Exit, TypeOK, Box, CustodyInv, RecordInv, LateInv, StartedIsOwned,
           ForeignUntouched, Registered
  <2> QED
    BY <2>1, <2>2, <2>3
<1>42. ASSUME NEW n \in Name, Vanish(n) PROVE IInv'
  <2> USE <1>42
  <2>1. TypeOK'
    <3>1. late' \subseteq late
      BY DEF Vanish
    <3>2. late' \subseteq Command /\ IsFiniteSet(late') /\ Cardinality(late') <= MaxLate
      BY <3>1, Withdrawn, FinitelyLate
    <3>3. [Nobody EXCEPT !.id = box[n].id] \in Box
      BY DEF Nobody, TypeOK, Box, Number
    <3> QED
      BY <3>2, <3>3 DEF Vanish, TypeOK
  <2>2. CallInv'
    BY DEF Vanish, CallInv
  <2>3. CustodyInv'
    <3>1. late' \subseteq late
      BY DEF Vanish
    <3>2. late' \subseteq Command /\ IsFiniteSet(late') /\ Cardinality(late') <= MaxLate
      BY <3>1, Withdrawn, FinitelyLate
    <3>3. /\ \A m \in Name : m # n => box'[m] = box[m]
          /\ box'[n].id = box[n].id /\ ~box'[n].foreign /\ box'[n].told = "nothing"
          /\ box'[n].status = "absent"
      BY DEF Vanish, Nobody, TypeOK
    <3>4. RecordInv' /\ StartedIsOwned' /\ ForeignUntouched'
      BY <3>3 DEF Vanish, CustodyInv, RecordInv, StartedIsOwned, ForeignUntouched, Registered
    <3>5. LateInv'
      BY <3>1, <3>2, <3>3 DEF Command, CustodyInv, LateInv, Registered
    <3> QED
      BY <3>4, <3>5 DEF CustodyInv
  <2> QED
    BY <2>1, <2>2, <2>3
<1>43. ASSUME LateCommand PROVE IInv'
  <2> USE <1>43
  <2>1. TypeOK'
    <3>1. PICK command \in late : LateCommand!(command)
      BY DEF LateCommand
    <3>2. late' \subseteq Command /\ Cardinality(late') <= MaxLate
      BY <3>1, Withdrawn, FinitelyLate
    <3>3. box' \in [Name -> Box]
      <4>1. command \in Command /\ command.name \in Name
        BY DEF TypeOK, Command
      <4> QED
        BY <3>1, <4>1, Told, Created DEF TypeOK
    <3> QED
      BY <3>2, <3>3 DEF LateCommand, TypeOK
  <2>2. CallInv'
    BY DEF LateCommand, CallInv
  <2>3. CustodyInv'
    <3>1. PICK command \in late : LateCommand!(command)
      BY DEF LateCommand
    <3>2. command \in Command /\ command.name \in Name
      BY DEF TypeOK, Command
    <3>3. late' \subseteq late /\ IsFiniteSet(late')
      BY <3>1, Withdrawn, FinitelyLate
    <3>4. CASE box' = box
      BY <3>1, <3>3, <3>4 DEF CustodyInv, RecordInv, LateInv, StartedIsOwned, ForeignUntouched,
        Registered
    <3>5. CASE MayCreate(command.name) /\ box' = NewBox(command.name, FALSE, "created")
      BY <3>1, <3>2, <3>3, <3>5, Created
    <3>6. CASE command.op # "create" /\ Tell(command, TRUE)
      BY <3>1, <3>2, <3>3, <3>6, Obeyed
    <3> QED
      BY <3>1, <3>4, <3>5, <3>6
  <2> QED
    BY <2>1, <2>2, <2>3
<1>44. CASE UNCHANGED vars
  BY <1>44, Quiet DEF vars, TypeOK, CallInv
<1> QED
  BY <1>1, <1>2, <1>3, <1>4, <1>5, <1>6, <1>7, <1>8, <1>9, <1>10, <1>11, <1>12, <1>13, <1>14,
     <1>15, <1>16, <1>17, <1>18, <1>19, <1>20, <1>21, <1>22, <1>23, <1>24, <1>25, <1>26,
     <1>27, <1>28, <1>29, <1>30, <1>31, <1>32, <1>33, <1>34, <1>35, <1>36, <1>37, <1>38,
     <1>39, <1>40, <1>41, <1>42, <1>43, <1>44 DEF Next
-----------------------------------------------------------------------------
\* Every state of the containers satisfies it.
LEMMA Invariant == Spec => []IInv
  BY InitIInv, StepIInv, PTL DEF Spec

\* Types; and a record without a container has neither a connection nor a catalog.
THEOREM TypeCorrect == Spec => []TypeOK
<1>1. IInv => TypeOK
  BY DEF IInv
<1> QED
  BY <1>1, Invariant, PTL

\* _retain_container and _remove_container: whatever fails or comes late, a container
\* that was started stays in the record as long as it exists.
THEOREM StartedContainersAreOwned == Spec => []StartedIsOwned
<1>1. IInv => StartedIsOwned
  BY DEF IInv, CustodyInv
<1> QED
  BY <1>1, Invariant, PTL

\* _assert_container_owner: no command is given for somebody else's container.
THEOREM ForeignContainersAreUntouched == Spec => []ForeignUntouched
<1>1. IInv => ForeignUntouched
  BY DEF IInv, CustodyInv
<1> QED
  BY <1>1, Invariant, PTL
===============================================================================
