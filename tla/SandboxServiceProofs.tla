------------------------- MODULE SandboxServiceProofs -------------------------
(* The service serves one build, and a View has the grants that its host    *)
(* and its service agree on, for any files, edits, builds, starts, policies *)
(* and grants.                                                              *)
EXTENDS SandboxService, TLAPS

USE SandboxServiceAssumption
-----------------------------------------------------------------------------
(* The inductive invariant.                                                 *)

\* What is compiled, and then what is written, is the output of one build up to the
\* file that comes next.
BuildInv ==
  /\ manifest \subseteq builds /\ service.inventory \subseteq builds
  /\ builder.at = "compiling" => \A a \in Asset : a < builder.next => builder.out[a] \in Version
  /\ builder.at = "writing" =>
       /\ ~clean
       /\ builder.out \in builds
       /\ \A a \in Asset : a < builder.next => disk[a] = builder.out[a]

\* What the service has read so far is what its manifest lists.
ReadInv ==
  /\ service.at = "configured" => service.next = 1
  /\ service.at = "checking" =>
       /\ service.inventory # {}
       /\ \A listed \in service.inventory :
            /\ service.next > Entry => service.entry = listed[Entry]
            /\ service.next > Notices => service.notices = listed[Notices]

\* Each layer narrows what the one before it lets through.
ViewInv ==
  /\ view.approved = Approve(view.requested, view.host)
  /\ view.outer = view.approved \cap Device
  /\ view.page = view.origin
  /\ view.header = view.origin \cap Device
  /\ view.at = "shown" =>
       /\ view.csp = Approve(view.approved, view.page) \cap Network
       /\ view.inner = Approve(view.approved, view.page) \cap Device

IInv == TypeOK /\ BuildInv /\ ReadInv /\ ViewInv /\ ServedIsOneBuild /\ BuildIsStartable
-----------------------------------------------------------------------------
\* The records that a process and a View start from.
LEMMA RecordsTyped == Idle \in Builder /\ Down \in Service /\ Nothing \in View
<1>1. 1 \in 1..(Files + 1)
  OBVIOUS
<1>2. Idle \in Builder
  BY <1>1 DEF Idle, Builder
<1>3. Down \in Service
  BY <1>1 DEF Down, Service, Content
<1>4. Nothing \in View
  BY DEF Nothing, View
<1> QED
  BY <1>2, <1>3, <1>4

\* The packaged assets come from one build, and nothing is served yet.
THEOREM InitIInv == Init => IInv
<1> SUFFICES ASSUME Init PROVE IInv
  OBVIOUS
<1> USE DEF Init, Idle, Down, Nothing
<1>1. TypeOK
  BY DEF TypeOK, Version, Content, Output, Builder, Service, View, Grant, Absent, Torn
<1>2. BuildInv
  BY DEF TypeOK, BuildInv
<1>3. ReadInv
  BY DEF TypeOK, ReadInv
<1>4. ViewInv
  BY DEF TypeOK, ViewInv, Approve
<1>5. ServedIsOneBuild
  BY DEF TypeOK, ServedIsOneBuild
<1>6. BuildIsStartable
  BY DEF TypeOK, BuildIsStartable
<1> QED
  BY <1>1, <1>2, <1>3, <1>4, <1>5, <1>6 DEF IInv

\* Every step of the build, the operator, the service and the pages keeps it.
THEOREM StepIInv == IInv /\ [Next]_vars => IInv'
<1> SUFFICES ASSUME IInv, [Next]_vars PROVE IInv'
  OBVIOUS
<1> USE DEF IInv, package, policy, process
<1>1. ASSUME EditSource PROVE IInv'
  <2>1. TypeOK'
    BY <1>1 DEF EditSource, TypeOK, Version
  <2>2. BuildInv' /\ ReadInv' /\ ViewInv' /\ ServedIsOneBuild' /\ BuildIsStartable'
    BY <1>1 DEF EditSource, BuildInv, ReadInv, ViewInv, ServedIsOneBuild, BuildIsStartable
  <2> QED
    BY <2>1, <2>2
<1>2. ASSUME BeginBuild PROVE IInv'
  <2>1. TypeOK'
    <3>1. builder' \in Builder
      BY <1>2, RecordsTyped DEF BeginBuild, Builder
    <3> QED
      BY <1>2, <3>1 DEF BeginBuild, TypeOK
  <2>2. BuildInv'
    BY <1>2 DEF BeginBuild, Idle, Asset, BuildInv
  <2>3. ReadInv' /\ ViewInv' /\ ServedIsOneBuild' /\ BuildIsStartable'
    BY <1>2 DEF BeginBuild, ReadInv, ViewInv, ServedIsOneBuild, BuildIsStartable
  <2> QED
    BY <2>1, <2>2, <2>3
<1>3. ASSUME Compile PROVE IInv'
  <2>1. TypeOK'
    <3>1. /\ builder \in Builder /\ builder.next + 1 \in 1..(Files + 1)
          /\ source \in Version \cup {Absent}
      BY <1>3 DEF Compile, TypeOK, Asset
    <3>2. builder' \in Builder
      BY <1>3, <3>1 DEF Compile, Builder
    <3> QED
      BY <1>3, <3>2 DEF Compile, TypeOK
  <2>2. BuildInv'
    BY <1>3 DEF Compile, TypeOK, Builder, View, Asset, BuildInv
  <2>3. ReadInv' /\ ViewInv' /\ ServedIsOneBuild' /\ BuildIsStartable'
    BY <1>3 DEF Compile, ReadInv, ViewInv, ServedIsOneBuild, BuildIsStartable
  <2> QED
    BY <2>1, <2>2, <2>3
<1>4. ASSUME Compiled PROVE IInv'
  <2>1. TypeOK'
    <3>1. builder' \in Builder
      <4>1. builder \in Builder /\ 1 \in 1..(Files + 1)
        BY DEF TypeOK
      <4> QED
        BY <1>4, <4>1 DEF Compiled, Builder
    <3>2. builder.out \in Output
      <4>1. builder.next \in 1..(Files + 1) /\ builder.out \in [Asset -> Version \cup {Absent}]
        BY DEF TypeOK, Builder
      <4>2. \A a \in Asset : builder.out[a] \in Version
        BY <1>4, <4>1 DEF Compiled, BuildInv, Asset
      <4> QED
        BY <4>1, <4>2 DEF Output
    <3> QED
      BY <1>4, <3>1, <3>2 DEF Compiled, TypeOK
  <2>2. BuildInv'
    BY <1>4 DEF Compiled, Asset, BuildInv
  <2>3. ReadInv' /\ ViewInv' /\ ServedIsOneBuild' /\ BuildIsStartable'
    BY <1>4 DEF Compiled, ReadInv, ViewInv, ServedIsOneBuild, BuildIsStartable
  <2> QED
    BY <2>1, <2>2, <2>3
<1>5. ASSUME BeginWrite PROVE IInv'
  <2>1. TypeOK'
    BY <1>5 DEF BeginWrite, TypeOK, Content
  <2>2. BuildInv'
    BY <1>5 DEF BeginWrite, Asset, BuildInv
  <2>3. BuildIsStartable'
    BY <1>5 DEF BeginWrite, BuildInv, BuildIsStartable
  <2>4. ReadInv' /\ ViewInv' /\ ServedIsOneBuild'
    BY <1>5 DEF BeginWrite, ReadInv, ViewInv, ServedIsOneBuild
  <2> QED
    BY <2>1, <2>2, <2>3, <2>4
<1>6. ASSUME EndWrite PROVE IInv'
  <2>1. TypeOK'
    <3>1. builder' \in Builder
      BY SMTT(30), <1>6 DEF EndWrite, TypeOK, Builder, Asset
    <3>2. builder.out[builder.next] \in Version
      BY <1>6 DEF EndWrite, BuildInv, TypeOK, Output
    <3>3. disk' \in [Asset -> Content]
      BY <1>6, <3>2 DEF EndWrite, TypeOK, Content
    <3> QED
      BY <1>6, <3>1, <3>3 DEF EndWrite, TypeOK
  <2>2. BuildInv'
    <3>1. \A a \in Asset : a < builder.next + 1 => disk'[a] = builder.out[a]
      <4>1. disk \in [Asset -> Content] /\ builder.next \in Nat
        BY DEF TypeOK, Builder
      <4>2. \A a \in Asset : a < builder.next + 1 => a = builder.next \/ a < builder.next
        BY <4>1 DEF Asset
      <4> QED
        BY <1>6, <4>1, <4>2 DEF EndWrite, BuildInv
    <3>2. builder'.next = builder.next + 1 /\ builder'.out = builder.out /\ builder'.at = "writing"
      BY <1>6 DEF EndWrite, TypeOK, Builder
    <3> QED
      BY <1>6, <3>1, <3>2 DEF EndWrite, BuildInv
  <2>3. BuildIsStartable'
    BY <1>6 DEF EndWrite, BuildInv, BuildIsStartable
  <2>4. ReadInv' /\ ViewInv' /\ ServedIsOneBuild'
    BY <1>6 DEF EndWrite, ReadInv, ViewInv, ServedIsOneBuild
  <2> QED
    BY <2>1, <2>2, <2>3, <2>4
<1>7. ASSUME BeginManifest PROVE IInv'
  <2>1. BuildIsStartable'
    BY <1>7 DEF BeginManifest, BuildInv, BuildIsStartable
  <2>2. TypeOK' /\ BuildInv' /\ ReadInv' /\ ViewInv' /\ ServedIsOneBuild'
    BY <1>7 DEF BeginManifest, TypeOK, BuildInv, ReadInv, ViewInv, ServedIsOneBuild
  <2> QED
    BY <2>1, <2>2
<1>8. ASSUME EndManifest PROVE IInv'
  <2>1. TypeOK'
    <3>1. builder' \in Builder
      BY <1>8 DEF EndManifest, Builder, Idle, Asset
    <3>2. builder.out \in Output
      BY <1>8 DEF EndManifest, BuildInv, TypeOK
    <3> QED
      BY <1>8, <3>1, <3>2 DEF EndManifest, TypeOK
  <2>2. BuildIsStartable'
    BY <1>8 DEF EndManifest, Idle, TypeOK, Output, Builder, Asset, BuildInv, BuildIsStartable
  <2>3. BuildInv' /\ ReadInv' /\ ViewInv' /\ ServedIsOneBuild'
    BY <1>8 DEF EndManifest, Idle, BuildInv, ReadInv, ViewInv, ServedIsOneBuild
  <2> QED
    BY <2>1, <2>2, <2>3
<1>9. ASSUME BuildDies PROVE IInv'
  <2>1. TypeOK'
    BY <1>9 DEF BuildDies, Idle, TypeOK, Builder
  <2>2. BuildInv' /\ ReadInv' /\ ViewInv' /\ ServedIsOneBuild' /\ BuildIsStartable'
    BY <1>9 DEF BuildDies, Idle, BuildInv, ReadInv, ViewInv, ServedIsOneBuild, BuildIsStartable
  <2> QED
    BY <2>1, <2>2
<1>10. ASSUME EditDeployment PROVE IInv'
  BY <1>10 DEF EditDeployment, TypeOK, BuildInv, ReadInv, ViewInv, ServedIsOneBuild, BuildIsStartable
<1>11. ASSUME EditHostPolicy PROVE IInv'
  BY <1>11 DEF EditHostPolicy, TypeOK, BuildInv, ReadInv, ViewInv, ServedIsOneBuild, BuildIsStartable
<1>12. ASSUME Start PROVE IInv'
  <2>1. TypeOK'
    <3>1. service' \in Service /\ service'.at = "configured"
      <4>1. Down \in Service /\ deployed \in SUBSET Grant
        BY RecordsTyped DEF TypeOK
      <4> QED
        BY <1>12, <4>1 DEF Start, Service
    <3> QED
      BY <1>12, <3>1 DEF Start, TypeOK
  <2>2. BuildInv' /\ ReadInv' /\ ViewInv' /\ ServedIsOneBuild' /\ BuildIsStartable'
    BY <1>12 DEF Start, Down, BuildInv, ReadInv, ViewInv, ServedIsOneBuild, BuildIsStartable
  <2> QED
    BY <2>1, <2>2
<1>13. ASSUME ReadManifest PROVE IInv'
  <2>1. TypeOK'
    BY <1>13 DEF ReadManifest, TypeOK, Service
  <2>2. ReadInv'
    BY <1>13 DEF ReadManifest, ReadInv, Entry, Notices
  <2>3. BuildInv' /\ ViewInv' /\ ServedIsOneBuild' /\ BuildIsStartable'
    BY <1>13 DEF ReadManifest, BuildInv, ViewInv, ServedIsOneBuild, BuildIsStartable
  <2> QED
    BY <2>1, <2>2, <2>3
<1>14. ASSUME ReadAsset PROVE IInv'
  <2>1. TypeOK'
    <3>1. disk[service.next] \in Content /\ service.next + 1 \in 1..(Files + 1)
      BY <1>14 DEF ReadAsset, TypeOK, Asset
    <3>2. service' \in Service /\ service'.at = "checking"
      BY <1>14, <3>1 DEF ReadAsset, TypeOK, Service
    <3> QED
      BY <1>14, <3>2 DEF ReadAsset, TypeOK
  <2>2. ReadInv'
    <3>1. /\ service.next \in 1..Files /\ service.at = "checking" /\ service.inventory # {}
          /\ service'.next = service.next + 1 /\ service'.at = "checking"
          /\ service'.inventory = service.inventory
      BY <1>14 DEF ReadAsset, Asset, ReadInv
    <3>2. \A listed \in service.inventory :
            service.next + 1 > Entry => service'.entry = listed[Entry]
      BY <1>14, <3>1 DEF ReadAsset, ReadInv, Entry
    <3>3. \A listed \in service.inventory :
            service.next + 1 > Notices => service'.notices = listed[Notices]
      BY <1>14, <3>1 DEF ReadAsset, Notices
    <3> QED
      BY <3>1, <3>2, <3>3 DEF ReadInv
  <2>3. BuildInv' /\ ViewInv' /\ ServedIsOneBuild' /\ BuildIsStartable'
    BY <1>14 DEF ReadAsset, BuildInv, ViewInv, ServedIsOneBuild, BuildIsStartable
  <2> QED
    BY <2>1, <2>2, <2>3
<1>15. ASSUME Listen PROVE IInv'
  <2>1. TypeOK'
    <3>1. service.next = Files + 1 /\ service' \in Service
      <4>1. service \in Service /\ {} \in SUBSET Output
        BY DEF TypeOK
      <4>2. service' \in Service
        BY <1>15, <4>1 DEF Listen, Service
      <4>3. service.next = Files + 1
        BY <1>15, <4>1 DEF Listen, Service, Asset
      <4> QED
        BY <4>2, <4>3
    <3>2. PICK listed \in service.inventory : service.entry = listed[Entry] /\ service.notices = listed[Notices]
      BY <1>15, <3>1 DEF Listen, ReadInv, Entry, Notices
    <3>3. listed[Entry] \in Version /\ listed[Notices] \in Version
      BY DEF TypeOK, Service, Output, Asset, Entry, Notices
    <3>4. /\ service'.next = service.next /\ service'.entry = service.entry
          /\ service'.notices = service.notices
      BY <1>15 DEF Listen, TypeOK, Service
    <3> QED
      BY <1>15, <3>1, <3>2, <3>3, <3>4 DEF Listen, TypeOK
  <2>2. ServedIsOneBuild'
    BY <1>15 DEF Listen, TypeOK, Service, Asset, BuildInv, ReadInv, ServedIsOneBuild, Entry, Notices
  <2>3. BuildInv' /\ ReadInv' /\ ViewInv' /\ BuildIsStartable'
    BY <1>15 DEF Listen, BuildInv, ReadInv, ViewInv, BuildIsStartable
  <2> QED
    BY <2>1, <2>2, <2>3
<1>16. ASSUME Stop PROVE IInv'
  <2>1. TypeOK'
    BY <1>16 DEF Stop, Down, TypeOK, Content, Service
  <2>2. BuildInv' /\ ReadInv' /\ ViewInv' /\ ServedIsOneBuild' /\ BuildIsStartable'
    BY <1>16 DEF Stop, Down, BuildInv, ReadInv, ViewInv, ServedIsOneBuild, BuildIsStartable
  <2> QED
    BY <2>1, <2>2
<1>17. ASSUME OpenView PROVE IInv'
  <2>1. TypeOK'
    <3>1. PICK requested \in SUBSET Grant :
            view' = [Nothing EXCEPT !.at = "opened", !.requested = requested, !.host = hostPolicy,
                                    !.approved = Approve(requested, hostPolicy),
                                    !.outer = Approve(requested, hostPolicy) \cap Device]
      BY <1>17 DEF OpenView
    <3>2. hostPolicy \in SUBSET Grant /\ Approve(requested, hostPolicy) \in SUBSET Grant
      BY DEF TypeOK, Approve
    <3>3. view' \in View
      BY <3>1, <3>2, RecordsTyped DEF View
    <3> QED
      BY <1>17, <3>3 DEF OpenView, TypeOK
  <2>2. BuildInv' /\ ReadInv' /\ ViewInv' /\ ServedIsOneBuild' /\ BuildIsStartable'
    BY <1>17 DEF OpenView, Nothing, BuildInv, ReadInv, ViewInv, ServedIsOneBuild, BuildIsStartable
  <2> QED
    BY <2>1, <2>2
<1>18. ASSUME FetchPage PROVE IInv'
  <2>1. TypeOK'
    BY <1>18 DEF FetchPage, TypeOK, Service, View
  <2>2. BuildInv' /\ ReadInv' /\ ViewInv' /\ ServedIsOneBuild' /\ BuildIsStartable'
    BY <1>18 DEF FetchPage, BuildInv, ReadInv, ViewInv, ServedIsOneBuild, BuildIsStartable
  <2> QED
    BY <2>1, <2>2
<1>19. ASSUME FetchEntry PROVE IInv'
  <2>1. TypeOK'
    BY <1>19 DEF FetchEntry, TypeOK, View
  <2>2. BuildInv' /\ ReadInv' /\ ViewInv' /\ ServedIsOneBuild' /\ BuildIsStartable'
    BY <1>19 DEF FetchEntry, BuildInv, ReadInv, ViewInv, ServedIsOneBuild, BuildIsStartable
  <2> QED
    BY <2>1, <2>2
<1>20. ASSUME LoadResource PROVE IInv'
  <2>1. TypeOK'
    BY <1>20 DEF LoadResource, TypeOK, View
  <2>2. BuildInv' /\ ReadInv' /\ ViewInv' /\ ServedIsOneBuild' /\ BuildIsStartable'
    BY <1>20 DEF LoadResource, BuildInv, ReadInv, ViewInv, ServedIsOneBuild, BuildIsStartable
  <2> QED
    BY <2>1, <2>2
<1>21. ASSUME CloseView PROVE IInv'
  <2>1. TypeOK'
    BY <1>21 DEF CloseView, Nothing, TypeOK, View
  <2>2. ViewInv'
    BY <1>21 DEF CloseView, Nothing, ViewInv, Approve
  <2>3. BuildInv' /\ ReadInv' /\ ServedIsOneBuild' /\ BuildIsStartable'
    BY <1>21 DEF CloseView, BuildInv, ReadInv, ServedIsOneBuild, BuildIsStartable
  <2> QED
    BY <2>1, <2>2, <2>3
<1>22. CASE UNCHANGED vars
  BY <1>22 DEF vars, TypeOK, BuildInv, ReadInv, ViewInv, ServedIsOneBuild, BuildIsStartable
<1> QED
  BY <1>1, <1>2, <1>3, <1>4, <1>5, <1>6, <1>7, <1>8, <1>9, <1>10, <1>11, <1>12, <1>13, <1>14, <1>15, <1>16, <1>17, <1>18, <1>19, <1>20, <1>21, <1>22
  DEF Next, Build, Operate, Serve, Display
-----------------------------------------------------------------------------
\* Every state of the package, the service and the View satisfies it.
LEMMA Invariant == Spec => []IInv
  BY InitIInv, StepIInv, PTL DEF Spec

\* Types; and the service listens only with all of its files.
THEOREM TypeCorrect == Spec => []TypeOK
<1>1. IInv => TypeOK
  BY DEF IInv
<1> QED
  BY <1>1, Invariant, PTL

\* readVerifiedSandboxAssets: what is served was made by one build.
THEOREM ServedIsOneBuildHolds == Spec => []ServedIsOneBuild
<1>1. IInv => ServedIsOneBuild
  BY DEF IInv
<1> QED
  BY <1>1, Invariant, PTL

\* buildSandboxAssets: a build that ended left a manifest of the files as they are.
THEOREM BuildIsStartableHolds == Spec => []BuildIsStartable
<1>1. IInv => BuildIsStartable
  BY DEF IInv
<1> QED
  BY <1>1, Invariant, PTL

\* approveSandboxPolicy, three times: the browser enforces the intersection of what is
\* requested with the host's policy and the service's, for all sets of grants.
THEOREM GrantsAgreedHolds == Spec => []GrantsAgreed
<1>1. IInv => GrantsAgreed
  <2> SUFFICES ASSUME TypeOK, ViewInv, view.at = "shown"
               PROVE  Effective = view.requested \cap view.host \cap view.origin
    BY DEF IInv, GrantsAgreed
  <2>1. view.requested \subseteq Network \cup Device
    BY DEF TypeOK, View, Grant
  <2>2. /\ view.csp = (view.requested \cap view.host \cap view.origin) \cap Network
        /\ view.inner = (view.requested \cap view.host \cap view.origin) \cap Device
        /\ view.outer = (view.requested \cap view.host) \cap Device
        /\ view.header = view.origin \cap Device
    BY DEF ViewInv, Approve
  <2> QED
    BY <2>1, <2>2 DEF Effective
<1> QED
  BY <1>1, Invariant, PTL
===============================================================================
