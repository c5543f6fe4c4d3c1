---------------------------- MODULE SandboxService ----------------------------
(***************************************************************************)
(* The public sandbox of the Apps: the build that writes its packaged       *)
(* assets (build-assets.mjs), the service that verifies and serves them     *)
(* (sandbox-cli.js, sandbox-assets.js, sandbox-service.js,                  *)
(* sandbox-config.js), and the grants of a View, which pass through the     *)
(* host's policy, the service's policy and three layers of the browser      *)
(* (parent-view.js, sandbox-proxy.js).                                      *)
(*                                                                          *)
(* The build reads one source after the other, and writes one file after    *)
(* the other, with the manifest at the end; it may die between any two      *)
(* steps, while the service starts and sources are edited.  The operator    *)
(* edits the deployment file and restarts the service while pages that it   *)
(* served earlier are still displayed.  The file system, HTTP and the       *)
(* browser's enforcement are external.                                      *)
(***************************************************************************)
EXTENDS Integers

CONSTANTS
  Files,      \* the number of files in the manifest
  Network,    \* grants of origins
  Device,     \* grants of devices
  MaxEdits,   \* bound on edits of the sources
  MaxBuilds,  \* bound on builds
  MaxStarts,  \* bound on starts of the service
  MaxPolicies, \* bound on edits of the two policies
  Allowed     \* what both policies allow before any edit

ASSUME SandboxServiceAssumption ==
  /\ Files \in Nat /\ Files >= 2
  /\ Network \cap Device = {}
  /\ Allowed \subseteq Network \cup Device
  /\ MaxEdits \in Nat /\ MaxBuilds \in Nat /\ MaxStarts \in Nat /\ MaxPolicies \in Nat

VARIABLES
  source,    \* the edits of the sources so far: their content
  disk,      \* the packaged files
  manifest,  \* the packaged manifest: one, or none that can be read
  builder,   \* buildSandboxAssets
  built,     \* (bound) builds so far
  builds,    \* (history) the outputs of every build
  clean,     \* (history) the last build wrote all of its outputs
  deployed,  \* the policy of the deployment file
  hostPolicy, \* the host's policy of a connection
  policies,  \* (bound) edits of policies so far
  service,   \* the process: readVerifiedSandboxAssets, then createSandboxService
  starts,    \* (bound) starts so far
  view       \* one View: the page's approval, the proxy page, the View's document

package == <<source, disk, manifest, builder, built, builds, clean>>
policy == <<deployed, hostPolicy, policies>>
process == <<service, starts>>
vars == <<package, policy, process, view>>

Grant == Network \cup Device

\* The files in the order of the build's Map, in which it compiles and writes them.
\* The manifest lists them by name: the entry, the service and the notices, which
\* every manifest must name, have the same order there.
Asset == 1..Files
Entry == 1
Notices == Files
Version == 0..MaxEdits

\* A file that is missing, or half written, has the hash of no build.
Absent == -1
Torn == -2
Content == Version \cup {Absent, Torn}
Output == [Asset -> Version]

\* next: the file that is compiled, written or checked next.
Builder == [at: {"idle", "compiling", "writing"}, out: [Asset -> Version \cup {Absent}],
            next: 1..(Files + 1)]

Service == [at: {"down", "configured", "checking", "listening"}, policy: SUBSET Grant,
            inventory: SUBSET Output, next: 1..(Files + 1), entry: Content, notices: Content]

View == [at: {"none", "opened", "framed", "running", "shown"},
         requested: SUBSET Grant, host: SUBSET Grant, approved: SUBSET Grant,
         outer: SUBSET Device, origin: SUBSET Grant, header: SUBSET Device, page: SUBSET Grant,
         csp: SUBSET Network, inner: SUBSET Device]

\* The service only listens with all of the files that its manifest names.
TypeOK ==
  /\ source \in Version
  /\ disk \in [Asset -> Content]
  /\ manifest \subseteq Output
  /\ builder \in Builder /\ built \in Nat /\ builds \subseteq Output /\ clean \in BOOLEAN
  /\ deployed \subseteq Grant /\ hostPolicy \subseteq Grant /\ policies \in Nat
  /\ service \in Service /\ starts \in Nat
  /\ view \in View
  /\ service.at = "listening" => service.next > Files /\ {service.entry, service.notices} \subseteq Version

Nothing == [at |-> "none", requested |-> {}, host |-> {}, approved |-> {}, outer |-> {}, origin |-> {},
            header |-> {}, page |-> {}, csp |-> {}, inner |-> {}]

Idle == [at |-> "idle", out |-> [a \in Asset |-> Absent], next |-> 1]

Down == [at |-> "down", policy |-> {}, inventory |-> {}, next |-> 1, entry |-> Absent, notices |-> Absent]

\* The repository's packaged assets come from one build.
Init ==
  /\ source = 0
  /\ disk = [a \in Asset |-> 0]
  /\ manifest = {disk}
  /\ builder = Idle /\ built = 0
  /\ builds = {disk}
  /\ clean = TRUE
  /\ deployed = Allowed /\ hostPolicy = Allowed /\ policies = 0
  /\ service = Down /\ starts = 0
  /\ view = Nothing

-------------------------------------------------------------------------------
(* The build *)

EditSource ==
  /\ source < MaxEdits
  /\ source' = source + 1
  /\ UNCHANGED <<disk, manifest, builder, built, builds, clean, policy, process, view>>

\* The output directory is its own: a build with other files in it is refused.
BeginBuild ==
  /\ builder.at = "idle"
  /\ built < MaxBuilds
  /\ built' = built + 1
  /\ builder' = [Idle EXCEPT !.at = "compiling"]
  /\ UNCHANGED <<source, disk, manifest, builds, clean, policy, process, view>>

\* An output is compiled of the sources as they are by now.
Compile ==
  /\ builder.at = "compiling"
  /\ builder.next \in Asset
  /\ builder' = [builder EXCEPT !.out[builder.next] = source, !.next = @ + 1]
  /\ UNCHANGED <<source, disk, manifest, built, builds, clean, policy, process, view>>

\* All outputs are there, and the manifest with the hashes of these outputs.
Compiled ==
  /\ builder.at = "compiling"
  /\ builder.next \notin Asset
  /\ builder' = [builder EXCEPT !.at = "writing", !.next = 1]
  /\ builds' = builds \cup {builder.out}
  /\ clean' = FALSE
  /\ UNCHANGED <<source, disk, manifest, built, policy, process, view>>

\* fs.writeFile truncates the file, then fills it.
BeginWrite ==
  /\ builder.at = "writing"
  /\ builder.next \in Asset
  /\ disk[builder.next] # Torn
  /\ disk' = [disk EXCEPT ![builder.next] = Torn]
  /\ UNCHANGED <<source, manifest, builder, built, builds, clean, policy, process, view>>

EndWrite ==
  /\ builder.at = "writing"
  /\ builder.next \in Asset
  /\ disk[builder.next] = Torn
  /\ disk' = [disk EXCEPT ![builder.next] = builder.out[builder.next]]
  /\ builder' = [builder EXCEPT !.next = @ + 1]
  /\ UNCHANGED <<source, manifest, built, builds, clean, policy, process, view>>

\* The manifest is the last entry of the Map.
BeginManifest ==
  /\ builder.at = "writing"
  /\ builder.next \notin Asset
  /\ manifest # {}
  /\ manifest' = {}
  /\ UNCHANGED <<source, disk, builder, built, builds, clean, policy, process, view>>

\* (mutant) The hashes are taken again of the sources, which were edited since.
EndManifestRehashed ==
  /\ builder.at = "writing"
  /\ builder.next \notin Asset
  /\ manifest = {}
  /\ manifest' = {[a \in Asset |-> source]}
  /\ builder' = Idle
  /\ clean' = TRUE
  /\ UNCHANGED <<source, disk, built, builds, policy, process, view>>

EndManifest ==
  /\ builder.at = "writing"
  /\ builder.next \notin Asset
  /\ manifest = {}
  /\ manifest' = {builder.out}
  /\ builder' = Idle
  /\ clean' = TRUE
  /\ UNCHANGED <<source, disk, built, builds, policy, process, view>>

BuildDies ==
  /\ builder.at # "idle"
  /\ builder' = Idle
  /\ UNCHANGED <<source, disk, manifest, built, builds, clean, policy, process, view>>

-------------------------------------------------------------------------------
(* The operator, and the start of the service *)

EditDeployment ==
  /\ policies < MaxPolicies
  /\ policies' = policies + 1
  /\ deployed' \in SUBSET Grant
  /\ UNCHANGED <<package, hostPolicy, process, view>>

EditHostPolicy ==
  /\ policies < MaxPolicies
  /\ policies' = policies + 1
  /\ hostPolicy' \in SUBSET Grant
  /\ UNCHANGED <<package, deployed, process, view>>

\* main reads the deployment file once, and keeps a copy.
Start ==
  /\ service.at = "down"
  /\ starts < MaxStarts
  /\ starts' = starts + 1
  /\ service' = [Down EXCEPT !.at = "configured", !.policy = deployed]
  /\ UNCHANGED <<package, policy, view>>

ReadManifest ==
  /\ service.at = "configured"
  /\ manifest # {}
  /\ service' = [service EXCEPT !.at = "checking", !.inventory = manifest]
  /\ UNCHANGED <<package, policy, starts, view>>

\* (mutant) The hashes are not compared.
ReadAssetUnchecked ==
  /\ service.at = "checking"
  /\ service.next \in Asset
  /\ service' = [service EXCEPT !.next = @ + 1,
                                !.entry = IF service.next = Entry THEN disk[Entry] ELSE @,
                                !.notices = IF service.next = Notices THEN disk[Notices] ELSE @]
  /\ UNCHANGED <<package, policy, starts, view>>

\* Each file that the manifest names is read once, hashed, and kept if it is served.
ReadAsset ==
  /\ service.at = "checking"
  /\ service.next \in Asset
  /\ \A listed \in service.inventory : disk[service.next] = listed[service.next]
  /\ service' = [service EXCEPT !.next = @ + 1,
                                !.entry = IF service.next = Entry THEN disk[Entry] ELSE @,
                                !.notices = IF service.next = Notices THEN disk[Notices] ELSE @]
  /\ UNCHANGED <<package, policy, starts, view>>

Listen ==
  /\ service.at = "checking"
  /\ service.next \notin Asset
  /\ service' = [service EXCEPT !.at = "listening", !.inventory = {}]
  /\ UNCHANGED <<package, policy, starts, view>>

\* The start is refused, the port is taken, a signal arrives, or the process dies.
Stop ==
  /\ service.at # "down"
  /\ service' = Down
  /\ UNCHANGED <<package, policy, starts, view>>

-------------------------------------------------------------------------------
(* The grants of a View *)

\* approveSandboxPolicy: what is requested and allowed.
Approve(requested, allowed) == requested \cap allowed

\* mountMCPApp, with the host's policy of that moment.
OpenView ==
  /\ view.at = "none"
  /\ \E requested \in SUBSET Grant :
       view' = [Nothing EXCEPT !.at = "opened", !.requested = requested, !.host = hostPolicy,
                               !.approved = Approve(requested, hostPolicy),
                               !.outer = Approve(requested, hostPolicy) \cap Device]
  /\ UNCHANGED <<package, policy, process>>

\* (mutant) The page is made of the policy as it is now, not of the snapshot.
FetchPageLive ==
  /\ view.at = "opened"
  /\ service.at = "listening"
  /\ view' = [view EXCEPT !.at = "framed", !.origin = service.policy,
                          !.page = deployed, !.header = service.policy \cap Device]
  /\ UNCHANGED <<package, policy, process>>

\* GET /proxy: the page with its configuration, under the Permissions-Policy header.
FetchPage ==
  /\ view.at = "opened"
  /\ service.at = "listening"
  /\ view' = [view EXCEPT !.at = "framed", !.origin = service.policy,
                          !.page = service.policy, !.header = service.policy \cap Device]
  /\ UNCHANGED <<package, policy, process>>

\* GET /sandbox-entry.js, maybe of a service that was started since.
FetchEntry ==
  /\ view.at = "framed"
  /\ service.at = "listening"
  /\ view' = [view EXCEPT !.at = "running"]
  /\ UNCHANGED <<package, policy, process>>

\* loadResource: the proxy approves what the page asks for.
LoadResource ==
  /\ view.at = "running"
  /\ LET granted == Approve(view.approved, view.page)
     IN view' = [view EXCEPT !.at = "shown", !.csp = granted \cap Network, !.inner = granted \cap Device]
  /\ UNCHANGED <<package, policy, process>>

CloseView ==
  /\ view.at # "none"
  /\ view' = Nothing
  /\ UNCHANGED <<package, policy, process>>

\* What the browser lets the View do: origins by its own Content-Security-Policy, for
\* the page's adds none; devices by the header and both allow lists.
Effective == view.csp \cup (view.header \cap view.outer \cap view.inner)

-------------------------------------------------------------------------------
Build ==
  \/ BeginBuild \/ Compile \/ Compiled \/ BeginWrite \/ EndWrite \/ BeginManifest \/ EndManifest
  \/ BuildDies

Operate == EditSource \/ EditDeployment \/ EditHostPolicy

Serve == Start \/ ReadManifest \/ ReadAsset \/ Listen \/ Stop

Display == OpenView \/ FetchPage \/ FetchEntry \/ LoadResource \/ CloseView

Next == Build \/ Operate \/ Serve \/ Display

Spec == Init /\ [][Next]_vars

-------------------------------------------------------------------------------
(* Properties *)

\* What a service serves was made by one build, though a build may have written the
\* files, or died over them, while the service read them one by one.
ServedIsOneBuild ==
  service.at = "listening" =>
    \E out \in builds : service.entry = out[Entry] /\ service.notices = out[Notices]

\* After a build that ended the service can start: the manifest names the files as
\* they are, although earlier builds died and sources changed during this one.
BuildIsStartable == clean => manifest = {disk}

\* A View that is shown has exactly the grants that it requests, the host's policy
\* allowed when it was opened and the service's policy allowed when that process was
\* started: no layer widens them, and none revokes what the others agreed on.
GrantsAgreed ==
  view.at = "shown" => Effective = view.requested \cap view.host \cap view.origin
===============================================================================
