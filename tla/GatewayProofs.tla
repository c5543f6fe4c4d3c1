---------------------------- MODULE GatewayProofs ----------------------------
(* No gateway is lost track of, and its tools are what the user asked for,  *)
(* for any servers and any number of launches.                             *)
EXTENDS Gateway, TLAPS

USE GatewayAssumption
-----------------------------------------------------------------------------
(* The inductive invariant.                                                 *)

\* What must not come back.
Gone == removed \ excused

\* What a call works towards never includes it.
CallInv ==
  /\ call.phase = "none" => call = Idle
  /\ call.kind = "start" => call.goal = call.target
  /\ call.goal \cap Gone = {}
  /\ call.phase = "forgetting" => call.goal \cap call.target = {}

\* By the time a process is awaited it was signalled.
ProcessInv ==
  /\ EveryProcessTold
  /\ call.phase = "stopping" /\ process # 0 => os[process] \notin {"starting", "serving"}
  /\ call.phase \in {"launching", "linking"} => process # 0

\* Nothing is launched while a connection is in custody.
ConnectionInv ==
  /\ OwnersInCustody
  /\ call.phase \in {"launching", "linking"} => connection = 0
  /\ call.phase = "stopping" /\ ~call.failing => connection = 0
  /\ call.phase = "saving" => connection = process

\* An operation that ends before it touched the gateway leaves things as they were.
Untouched == call.phase \in {"none", "forgetting"}

CatalogInv ==
  /\ Untouched /\ mounted # {} => mounted = requested /\ connection = process
  /\ Untouched /\ IsConnected => requested \cap Gone = {}
  /\ call.phase # "none" /\ ~call.fresh => mounted = {}
  /\ call.phase \in {"launching", "linking", "saving"} => mounted = {} /\ requested = call.goal

IInv == TypeOK /\ CallInv /\ ProcessInv /\ ConnectionInv /\ CatalogInv
-----------------------------------------------------------------------------
\* A feature starts without a gateway.
THEOREM InitIInv == Init => IInv
<1> SUFFICES ASSUME Init PROVE IInv
  OBVIOUS
<1> USE DEF Init, Idle
<1>1. /\ launched = 0 /\ process = 0 /\ connection = 0 /\ requested = {} /\ mounted = {}
      /\ restoring = {} /\ removed = {} /\ excused = {} /\ saved \subseteq Server
  OBVIOUS
<1>2. TypeOK
  <2>1. call \in Call
    BY DEF Call
  <2>2. /\ os \in [Launch -> {"none", "starting", "serving", "terminating", "exited"}]
        /\ session \in [Launch -> {"none", "open", "unfinished", "stray", "ended"}]
    OBVIOUS
  <2>3. closing \in BOOLEAN /\ owned \in BOOLEAN
    BY Zenon
  <2> HIDE DEF Init, Idle
  <2>4. launched \in 0..MaxLaunches /\ process \in 0..launched /\ connection \in 0..launched
    BY <1>1
  <2> QED
    BY <1>1, <2>1, <2>2, <2>3, <2>4 DEF TypeOK
<1>3. CallInv /\ ProcessInv /\ ConnectionInv /\ CatalogInv
  BY DEF CallInv, ProcessInv, EveryProcessTold, ConnectionInv, OwnersInCustody, CatalogInv
<1> QED
  BY <1>2, <1>3 DEF IInv

\* A process or a connection is that of a launch.
LEMMA Numbers ==
  ASSUME TypeOK
  PROVE  /\ process # 0 => process \in Launch
         /\ connection # 0 => connection \in Launch
         /\ launched < MaxLaunches => launched + 1 \in Launch
  BY DEF TypeOK, Launch

\* Where a call goes next keeps what it is for.
LEMMA CallSteps ==
  ASSUME call \in Call,
         NEW p \in {"unlinking", "stopping", "launching", "linking", "saving"}
  PROVE  /\ Goto(p) =>
              /\ call' \in Call
              /\ call'.phase = p
              /\ call'.kind = call.kind /\ call'.goal = call.goal
              /\ call'.target = call.target /\ call'.fresh = call.fresh
              /\ call'.failing = call.failing
         /\ Raise(p) =>
              /\ call' \in Call
              /\ call'.phase = p
              /\ call'.kind = call.kind /\ call'.goal = call.goal
              /\ call'.target = call.target /\ call'.fresh = call.fresh
              /\ call'.failing
<1>1. ASSUME Goto(p) PROVE call' \in Call
  BY <1>1 DEF Call, Goto
<1>2. ASSUME Raise(p) PROVE call' \in Call
  BY <1>2 DEF Call, Raise
<1> QED
  BY <1>1, <1>2 DEF Call, Goto, Raise

\* After stop() has signalled it, no process serves or starts that it was to stop.
LEMMA Signalled ==
  ASSUME TypeOK, Terminate
  PROVE  /\ os' \in [Launch -> {"none", "starting", "serving", "terminating", "exited"}]
         /\ process # 0 => os'[process] \notin {"starting", "serving"}
         /\ \A n \in Launch : os'[n] \in {"starting", "serving"} => os[n] \in {"starting", "serving"}
  BY Numbers DEF TypeOK, Terminate, Alive

\* Every step of an operation, a process and a session keeps it.
THEOREM StepIInv == IInv /\ [Next]_vars => IInv'
<1> SUFFICES ASSUME IInv, [Next]_vars PROVE IInv'
  OBVIOUS
<1> USE DEF IInv, physical, aside, Gone, AskFor, TakeAway
<1>1. ASSUME GatewayStart PROVE IInv'
  <2> USE <1>1 DEF GatewayStart, StartGateway, Accept, Idle
  <2>1. TypeOK'
    BY DEF TypeOK, Call
  <2>2. CallInv'
    BY DEF CallInv
  <2>3. ProcessInv'
    BY DEF ProcessInv, EveryProcessTold
  <2>4. ConnectionInv'
    BY DEF ConnectionInv, OwnersInCustody
  <2>5. CatalogInv'
    BY DEF CatalogInv, Untouched
  <2> QED
    BY <2>1, <2>2, <2>3, <2>4, <2>5
<1>2. ASSUME Load PROVE IInv'
  <2> USE <1>2 DEF Load, Accept, Idle, IsConnected
  <2>1. TypeOK'
    <3>1. call' \in Call
      <4>1. PICK s \in Server : \E goal \in SUBSET Server, fresh \in BOOLEAN :
                                   Accept("load", "unlinking", goal, {s}, fresh)
        BY DEF TypeOK
      <4> QED
        BY <4>1 DEF Call
    <3> QED
      BY <3>1 DEF TypeOK
  <2>2. CallInv'
    <3>1. call'.phase = "unlinking" /\ call'.kind = "load"
      OBVIOUS
    <3>2. CASE IsConnected
      <4>1. requested \cap Gone = {}
        BY <3>2 DEF CatalogInv, Untouched
      <4> QED
        BY <3>1, <3>2, <4>1 DEF CallInv
    <3>3. CASE ~IsConnected
      BY <3>1, <3>3 DEF CallInv
    <3> QED
      BY <3>2, <3>3
  <2>3. ProcessInv'
    BY DEF ProcessInv, EveryProcessTold
  <2>4. ConnectionInv'
    BY DEF ConnectionInv, OwnersInCustody
  <2>5. CatalogInv'
    BY DEF CatalogInv, Untouched
  <2> QED
    BY <2>1, <2>2, <2>3, <2>4, <2>5
<1>3. ASSUME Unload PROVE IInv'
  <2> USE <1>3 DEF Unload, Accept, Idle
  <2>1. TypeOK'
    BY DEF TypeOK, Call
  <2>2. CallInv'
    <3>1. requested \cap Gone = {}
      BY DEF CatalogInv, Untouched, IsConnected, Alive
    <3> QED
      BY <3>1 DEF CallInv
  <2>3. ProcessInv'
    BY DEF ProcessInv, EveryProcessTold
  <2>4. ConnectionInv'
    BY DEF ConnectionInv, OwnersInCustody
  <2>5. CatalogInv'
    BY DEF CatalogInv, Untouched, IsConnected, Alive
  <2> QED
    BY <2>1, <2>2, <2>3, <2>4, <2>5
<1>4. ASSUME GatewayStop PROVE IInv'
  <2> USE <1>4 DEF GatewayStop, Accept, Idle
  <2>1. TypeOK'
    BY DEF TypeOK, Call
  <2>2. CallInv'
    BY DEF CallInv
  <2>3. ProcessInv'
    BY DEF ProcessInv, EveryProcessTold
  <2>4. ConnectionInv'
    BY DEF ConnectionInv, OwnersInCustody
  <2>5. CatalogInv'
    BY DEF CatalogInv, Untouched, IsConnected, Alive
  <2> QED
    BY <2>1, <2>2, <2>3, <2>4, <2>5
<1>5. ASSUME Shutdown PROVE IInv'
  <2> USE <1>5 DEF Shutdown
  <2>1. TypeOK'
    BY DEF TypeOK
  <2>2. CallInv'
    BY DEF CallInv
  <2>3. ProcessInv'
    BY DEF ProcessInv, EveryProcessTold
  <2>4. ConnectionInv'
    BY DEF ConnectionInv, OwnersInCustody
  <2>5. CatalogInv'
    BY DEF CatalogInv, Untouched, IsConnected, Alive
  <2> QED
    BY <2>1, <2>2, <2>3, <2>4, <2>5
<1>6. ASSUME ReleaseConnections PROVE IInv'
  <2> USE <1>6 DEF ReleaseConnections, Accept, Idle
  <2>1. TypeOK'
    BY DEF TypeOK, Call
  <2>2. CallInv'
    BY DEF CallInv
  <2>3. ProcessInv'
    BY DEF ProcessInv, EveryProcessTold
  <2>4. ConnectionInv'
    BY DEF ConnectionInv, OwnersInCustody
  <2>5. CatalogInv'
    BY DEF CatalogInv, Untouched
  <2> QED
    BY <2>1, <2>2, <2>3, <2>4, <2>5
<1>7. ASSUME Initialize PROVE IInv'
  <2> USE <1>7 DEF Initialize
  <2>1. TypeOK'
    BY DEF TypeOK
  <2>2. CallInv'
    BY DEF CallInv
  <2>3. ProcessInv'
    BY DEF ProcessInv, EveryProcessTold
  <2>4. ConnectionInv'
    BY DEF ConnectionInv, OwnersInCustody
  <2>5. CatalogInv'
    BY DEF CatalogInv, Untouched, IsConnected, Alive
  <2> QED
    BY <2>1, <2>2, <2>3, <2>4, <2>5
<1>8. ASSUME Forget PROVE IInv'
  <2> USE <1>8 DEF Forget, Goto
  <2>1. TypeOK'
    BY DEF TypeOK, Call
  <2>2. CallInv'
    BY DEF CallInv
  <2>3. ProcessInv'
    BY DEF ProcessInv, EveryProcessTold
  <2>4. ConnectionInv'
    BY DEF ConnectionInv, OwnersInCustody
  <2>5. CatalogInv'
    BY DEF CatalogInv, Untouched
  <2> QED
    BY <2>1, <2>2, <2>3, <2>4, <2>5
<1>9. ASSUME ForgetFails PROVE IInv'
  <2> USE <1>9 DEF ForgetFails, End, Idle
  <2>1. TypeOK'
    BY DEF TypeOK, Call
  <2>2. CallInv'
    BY DEF CallInv
  <2>3. ProcessInv'
    BY DEF ProcessInv, EveryProcessTold
  <2>4. ConnectionInv'
    BY DEF ConnectionInv, OwnersInCustody
  <2>5. CatalogInv'
    BY DEF CatalogInv, Untouched, IsConnected, Alive
  <2> QED
    BY <2>1, <2>2, <2>3, <2>4, <2>5
<1>10. ASSUME Unlink PROVE IInv'
  <2> USE <1>10, CallSteps, Signalled DEF Unlink
  <2>1. TypeOK'
    BY Numbers DEF TypeOK
  <2>2. CallInv'
    BY DEF TypeOK, CallInv
  <2>3. ProcessInv'
    BY DEF TypeOK, ProcessInv, EveryProcessTold
  <2>4. ConnectionInv'
    BY DEF TypeOK, ConnectionInv, OwnersInCustody
  <2>5. CatalogInv'
    BY DEF TypeOK, CatalogInv, Untouched
  <2> QED
    BY <2>1, <2>2, <2>3, <2>4, <2>5
<1>11. ASSUME UnlinkFails PROVE IInv'
  <2> USE <1>11
  <2>1. ASSUME Raise("stopping"), Terminate PROVE IInv'
    <3> USE <2>1, CallSteps, Signalled
    <3>1. TypeOK'
      BY Numbers DEF UnlinkFails, TypeOK
    <3>2. CallInv'
      BY DEF UnlinkFails, TypeOK, CallInv
    <3>3. ProcessInv'
      BY DEF UnlinkFails, TypeOK, ProcessInv, EveryProcessTold
    <3>4. ConnectionInv'
      BY DEF UnlinkFails, TypeOK, ConnectionInv, OwnersInCustody
    <3>5. CatalogInv'
      BY Numbers DEF UnlinkFails, TypeOK, CatalogInv, Untouched
    <3> QED
      BY <3>1, <3>2, <3>3, <3>4, <3>5
  <2>2. ASSUME ~call.fresh, End, UNCHANGED os PROVE IInv'
    <3> USE <2>2 DEF End, Idle
    <3>1. TypeOK'
      BY Numbers DEF UnlinkFails, TypeOK, Call
    <3>2. CallInv'
      BY DEF CallInv
    <3>3. ProcessInv'
      BY DEF UnlinkFails, ProcessInv, EveryProcessTold
    <3>4. ConnectionInv'
      BY DEF UnlinkFails, ConnectionInv, OwnersInCustody
    <3>5. CatalogInv'
      BY Numbers DEF UnlinkFails, TypeOK, CatalogInv, IsConnected, Alive
    <3> QED
      BY <3>1, <3>2, <3>3, <3>4, <3>5
  <2> QED
    BY <2>1, <2>2 DEF UnlinkFails
<1>12. ASSUME Retire PROVE IInv'
  <2> USE <1>12 DEF Retire, Stopped, Alive, End, Idle
  <2>1. TypeOK'
    <3>1. owned' \in BOOLEAN
      BY Zenon
    <3>2. owned' \/ ~owned \/ ~call.failing
      BY Zenon
    <3>3. owned' \/ connection = 0
      BY <3>2 DEF TypeOK, ConnectionInv
    <3> QED
      BY <3>1, <3>3 DEF TypeOK, Call
  <2>2. CallInv'
    BY DEF CallInv
  <2>3. ProcessInv'
    BY DEF ProcessInv, EveryProcessTold
  <2>4. ConnectionInv'
    BY DEF ConnectionInv, OwnersInCustody
  <2>5. CatalogInv'
    BY DEF CatalogInv
  <2> QED
    BY <2>1, <2>2, <2>3, <2>4, <2>5
<1>13. ASSUME StartProcess PROVE IInv'
  <2> USE <1>13 DEF StartProcess, Stopped, Alive, Goto, Launch
  <2>1. TypeOK'
    <3>1. call' \in Call
      BY DEF TypeOK, Call
    <3>2. launched' \in 0..MaxLaunches /\ launched' \in Launch
      BY DEF TypeOK
    <3>3. connection' \in 0..launched' /\ process' \in 0..launched'
      BY DEF TypeOK
    <3>4. call.goal \subseteq Server
      BY DEF TypeOK, Call
    <3> QED
      BY <3>1, <3>2, <3>3, <3>4 DEF TypeOK
  <2>2. CallInv'
    BY DEF CallInv
  <2>3. ProcessInv'
    BY DEF TypeOK, ProcessInv, EveryProcessTold
  <2>4. ConnectionInv'
    BY DEF ConnectionInv, OwnersInCustody
  <2>5. CatalogInv'
    BY DEF CatalogInv, Untouched
  <2> QED
    BY <2>1, <2>2, <2>3, <2>4, <2>5
<1>14. ASSUME StartRefused PROVE IInv'
  <2> USE <1>14 DEF StartRefused, Stopped, Alive, End, Idle
  <2>1. TypeOK'
    BY DEF TypeOK, Call
  <2>2. CallInv'
    BY DEF CallInv
  <2>3. ProcessInv'
    BY DEF ProcessInv, EveryProcessTold
  <2>4. ConnectionInv'
    BY DEF ConnectionInv, OwnersInCustody
  <2>5. CatalogInv'
    BY DEF CatalogInv, IsConnected, Alive
  <2> QED
    BY <2>1, <2>2, <2>3, <2>4, <2>5
<1>15. ASSUME StopCancelled PROVE IInv'
  <2> USE <1>15 DEF StopCancelled, End, Idle
  <2>1. TypeOK'
    BY DEF TypeOK, Call
  <2>2. CallInv'
    BY DEF CallInv
  <2>3. ProcessInv'
    BY DEF ProcessInv, EveryProcessTold
  <2>4. ConnectionInv'
    BY DEF ConnectionInv, OwnersInCustody
  <2>5. CatalogInv'
    BY DEF CatalogInv, IsConnected, Alive
  <2> QED
    BY <2>1, <2>2, <2>3, <2>4, <2>5
<1>16. ASSUME Ready PROVE IInv'
  <2> USE <1>16 DEF Ready, Goto
  <2>1. TypeOK'
    BY DEF TypeOK, Call
  <2>2. CallInv'
    BY DEF CallInv
  <2>3. ProcessInv'
    BY DEF ProcessInv, EveryProcessTold
  <2>4. ConnectionInv'
    BY DEF ConnectionInv, OwnersInCustody
  <2>5. CatalogInv'
    BY DEF CatalogInv, Untouched
  <2> QED
    BY <2>1, <2>2, <2>3, <2>4, <2>5
<1>17. ASSUME StartFails PROVE IInv'
  <2> USE <1>17
  <2>1. ASSUME Raise("stopping"), Terminate PROVE IInv'
    <3> USE <2>1, CallSteps, Signalled
    <3>1. TypeOK'
      BY DEF StartFails, TypeOK
    <3>2. CallInv'
      BY DEF StartFails, TypeOK, CallInv
    <3>3. ProcessInv'
      BY DEF StartFails, ProcessInv, EveryProcessTold
    <3>4. ConnectionInv'
      BY DEF StartFails, TypeOK, ConnectionInv, OwnersInCustody
    <3>5. CatalogInv'
      BY DEF StartFails, TypeOK, CatalogInv, Untouched
    <3> QED
      BY <3>1, <3>2, <3>3, <3>4, <3>5
  <2>2. ASSUME ~call.fresh, End, UNCHANGED os PROVE IInv'
    <3> USE <2>2 DEF End, Idle
    <3>1. TypeOK'
      BY DEF StartFails, TypeOK, Call
    <3>2. CallInv'
      BY DEF CallInv
    <3>3. ProcessInv'
      BY DEF StartFails, ProcessInv, EveryProcessTold
    <3>4. ConnectionInv'
      BY DEF StartFails, ConnectionInv, OwnersInCustody
    <3>5. CatalogInv'
      BY DEF StartFails, CatalogInv, ConnectionInv, IsConnected, Alive
    <3> QED
      BY <3>1, <3>2, <3>3, <3>4, <3>5
  <2> QED
    BY <2>1, <2>2 DEF StartFails
<1>18. ASSUME Connect PROVE IInv'
  <2> USE <1>18 DEF Connect, Goto, End, Idle, Mount, IsConnected
  <2>1. TypeOK'
    <3>1. process \in Launch
      BY Numbers DEF ProcessInv
    <3>2. call' \in Call
      <4>1. call \in Call /\ Idle \in Call
        BY DEF TypeOK, Call
      <4>2. Goto("saving") \/ End \/ call' = Idle
        OBVIOUS
      <4> QED
        BY <4>1, <4>2, CallSteps
    <3>3. session' \in [Launch -> {"none", "open", "unfinished", "stray", "ended"}]
      BY <3>1 DEF TypeOK
    <3>4. owned
      BY DEF TypeOK, ProcessInv
    <3>5. mounted' \subseteq Server
      BY DEF TypeOK
    <3> QED
      BY <3>2, <3>3, <3>4, <3>5 DEF TypeOK
  <2>2. CallInv'
    BY DEF TypeOK, Call, CallInv
  <2>3. ProcessInv'
    BY DEF TypeOK, Call, ProcessInv, EveryProcessTold
  <2>4. ConnectionInv'
    <3>1. process \in Launch
      BY Numbers DEF ProcessInv
    <3>2. \A n \in Launch : session[n] \notin {"open", "unfinished"}
      BY DEF ConnectionInv, OwnersInCustody, Launch
    <3> QED
      BY <3>1, <3>2 DEF TypeOK, Call, ConnectionInv, OwnersInCustody
  <2>5. CatalogInv'
    BY DEF TypeOK, Call, CatalogInv, CallInv
  <2> QED
    BY <2>1, <2>2, <2>3, <2>4, <2>5
<1>19. ASSUME ConnectFails PROVE IInv'
  <2> USE <1>19
  <2>1. ASSUME Raise("stopping"), Terminate PROVE IInv'
    <3> USE <2>1, CallSteps, Signalled
    <3>1. TypeOK'
      BY Numbers DEF ConnectFails, TypeOK, ProcessInv
    <3>2. CallInv'
      BY DEF ConnectFails, TypeOK, CallInv
    <3>3. ProcessInv'
      BY DEF ConnectFails, ProcessInv, EveryProcessTold
    <3>4. ConnectionInv'
      BY DEF ConnectFails, TypeOK, ConnectionInv, OwnersInCustody
    <3>5. CatalogInv'
      BY DEF ConnectFails, TypeOK, CatalogInv, Untouched
    <3> QED
      BY <3>1, <3>2, <3>3, <3>4, <3>5
  <2>2. ASSUME ~call.fresh, End, UNCHANGED os PROVE IInv'
    <3> USE <2>2 DEF End, Idle
    <3>1. TypeOK'
      BY Numbers DEF ConnectFails, TypeOK, ProcessInv, Call
    <3>2. CallInv'
      BY DEF CallInv
    <3>3. ProcessInv'
      BY DEF ConnectFails, ProcessInv, EveryProcessTold
    <3>4. ConnectionInv'
      BY DEF ConnectFails, ConnectionInv, OwnersInCustody
    <3>5. CatalogInv'
      BY DEF ConnectFails, CatalogInv, ConnectionInv, IsConnected, Alive
    <3> QED
      BY <3>1, <3>2, <3>3, <3>4, <3>5
  <2> QED
    BY <2>1, <2>2 DEF ConnectFails
<1>20. ASSUME Save PROVE IInv'
  <2> USE <1>20 DEF Save, End, Idle, Mount, IsConnected
  <2>1. TypeOK'
    BY DEF TypeOK, Call
  <2>2. CallInv'
    BY DEF CallInv
  <2>3. ProcessInv'
    BY DEF ProcessInv, EveryProcessTold
  <2>4. ConnectionInv'
    BY DEF ConnectionInv, OwnersInCustody
  <2>5. CatalogInv'
    BY DEF CatalogInv, CallInv, ConnectionInv
  <2> QED
    BY <2>1, <2>2, <2>3, <2>4, <2>5
<1>21. ASSUME SaveFails PROVE IInv'
  <2> USE <1>21 DEF SaveFails, End, Idle
  <2>1. TypeOK'
    BY DEF TypeOK, Call
  <2>2. CallInv'
    BY DEF CallInv
  <2>3. ProcessInv'
    BY DEF ProcessInv, EveryProcessTold
  <2>4. ConnectionInv'
    BY DEF ConnectionInv, OwnersInCustody
  <2>5. CatalogInv'
    <3>1. requested \cap Gone' = {}
      <4>1. PICK rows \in SUBSET (saved \cup call.target) :
                /\ saved \cap call.target \subseteq rows
                /\ call.kind # "start" => saved \subseteq rows
                /\ Gone' \subseteq Gone \cup (saved \ rows)
        OBVIOUS
      <4>2. requested = call.goal /\ call.goal \cap Gone = {}
        BY DEF CatalogInv, CallInv
      <4>3. CASE call.kind = "start"
        BY <4>1, <4>2, <4>3 DEF CallInv
      <4>4. CASE call.kind # "start"
        BY <4>1, <4>2, <4>4
      <4> QED
        BY <4>3, <4>4
    <3> QED
      BY <3>1 DEF CatalogInv, CallInv
  <2> QED
    BY <2>1, <2>2, <2>3, <2>4, <2>5
<1>22. ASSUME Exit PROVE IInv'
  <2> USE <1>22 DEF Exit, Alive, Launch
  <2>1. TypeOK'
    BY DEF TypeOK
  <2>2. CallInv'
    BY DEF CallInv
  <2>3. ProcessInv'
    BY DEF ProcessInv, EveryProcessTold
  <2>4. ConnectionInv'
    BY DEF ConnectionInv, OwnersInCustody
  <2>5. CatalogInv'
    BY DEF CatalogInv, Untouched, IsConnected, Alive
  <2> QED
    BY <2>1, <2>2, <2>3, <2>4, <2>5
<1>23. ASSUME SessionBreaks PROVE IInv'
  <2> USE <1>23 DEF SessionBreaks, Launch
  <2>1. TypeOK'
    BY DEF TypeOK
  <2>2. CallInv'
    BY DEF CallInv
  <2>3. ProcessInv'
    BY DEF ProcessInv, EveryProcessTold
  <2>4. ConnectionInv'
    BY DEF ConnectionInv, OwnersInCustody
  <2>5. CatalogInv'
    BY DEF CatalogInv, Untouched, IsConnected, Alive
  <2> QED
    BY <2>1, <2>2, <2>3, <2>4, <2>5
<1>24. ASSUME ReadRows PROVE IInv'
  <2> USE <1>24 DEF ReadRows
  <2>1. TypeOK'
    BY DEF TypeOK
  <2>2. CallInv'
    BY DEF CallInv
  <2>3. ProcessInv'
    BY DEF ProcessInv, EveryProcessTold
  <2>4. ConnectionInv'
    BY DEF ConnectionInv, OwnersInCustody
  <2>5. CatalogInv'
    BY DEF CatalogInv, Untouched, IsConnected, Alive
  <2> QED
    BY <2>1, <2>2, <2>3, <2>4, <2>5
<1>25. ASSUME RestoreGateway PROVE IInv'
  <2> USE <1>25 DEF RestoreGateway, StartGateway, Accept, Idle
  <2>1. TypeOK'
    BY DEF TypeOK, Call
  <2>2. CallInv'
    BY DEF CallInv
  <2>3. ProcessInv'
    BY DEF ProcessInv, EveryProcessTold
  <2>4. ConnectionInv'
    BY DEF ConnectionInv, OwnersInCustody
  <2>5. CatalogInv'
    BY DEF CatalogInv, Untouched
  <2> QED
    BY <2>1, <2>2, <2>3, <2>4, <2>5
<1>26. ASSUME RestoreDropped PROVE IInv'
  <2> USE <1>26 DEF RestoreDropped
  <2>1. TypeOK'
    BY DEF TypeOK
  <2>2. CallInv'
    BY DEF CallInv
  <2>3. ProcessInv'
    BY DEF ProcessInv, EveryProcessTold
  <2>4. ConnectionInv'
    BY DEF ConnectionInv, OwnersInCustody
  <2>5. CatalogInv'
    BY DEF CatalogInv, Untouched, IsConnected, Alive
  <2> QED
    BY <2>1, <2>2, <2>3, <2>4, <2>5
<1>27. ASSUME UnloadUnserved PROVE IInv'
  <2> USE <1>27 DEF UnloadUnserved, Idle
  <2>1. TypeOK'
    BY DEF TypeOK
  <2>2. CallInv'
    BY DEF CallInv
  <2>3. ProcessInv'
    BY DEF ProcessInv, EveryProcessTold
  <2>4. ConnectionInv'
    BY DEF ConnectionInv, OwnersInCustody
  <2>5. CatalogInv'
    BY DEF CatalogInv, Untouched, IsConnected, Alive
  <2> QED
    BY <2>1, <2>2, <2>3, <2>4, <2>5
<1>28. CASE UNCHANGED vars
  BY <1>28 DEF vars, TypeOK, CallInv, ProcessInv, EveryProcessTold, ConnectionInv,
         OwnersInCustody, CatalogInv, Untouched, IsConnected, Alive
<1> QED
  BY <1>1, <1>2, <1>3, <1>4, <1>5, <1>6, <1>7, <1>8, <1>9, <1>10, <1>11, <1>12, <1>13, <1>14,
     <1>15, <1>16, <1>17, <1>18, <1>19, <1>20, <1>21, <1>22, <1>23, <1>24,
     <1>25, <1>26, <1>27, <1>28 DEF Next
-----------------------------------------------------------------------------
\* Every state of a gateway satisfies it.
LEMMA Invariant == Spec => []IInv
  BY InitIInv, StepIInv, PTL DEF Spec

\* Types; and a manager is dropped only when nothing of it is left.
THEOREM TypeCorrect == Spec => []TypeOK
<1>1. IInv => TypeOK
  BY DEF IInv
<1> QED
  BY <1>1, Invariant, PTL

\* _disconnect, stop and their failures: a gateway that nobody told to stop is the one in
\* gateway.process.
THEOREM ProcessesAreTold == Spec => []EveryProcessTold
<1>1. IInv => EveryProcessTold
  BY DEF IInv, ProcessInv
<1> QED
  BY <1>1, Invariant, PTL

\* MCPGatewayManager._disconnect: an established connection whose owner task has not
\* ended is kept until it is joined.
THEOREM OwnersStayInCustody == Spec => []OwnersInCustody
<1>1. IInv => OwnersInCustody
  BY DEF IInv, ConnectionInv
<1> QED
  BY <1>1, Invariant, PTL

\* Between two operations the mounted tools are those of the gateway in custody.
THEOREM MountedToolsAreServed == Spec => []MountedIsServed
<1>1. IInv => MountedIsServed
  BY DEF IInv, CatalogInv, Untouched, Idle, MountedIsServed
<1> QED
  BY <1>1, Invariant, PTL

\* What a user unloaded or stopped, or left out of a new set, is not callable again
\* before it is asked for; an interrupted clearing and a restore that had read the row
\* are excused.
THEOREM RemovedServersStayRemoved == Spec => []RemovedStaysRemoved
<1>1. IInv => RemovedStaysRemoved
  BY DEF IInv, CatalogInv, Untouched, Gone, Idle, RemovedStaysRemoved
<1> QED
  BY <1>1, Invariant, PTL
==============================================================================
