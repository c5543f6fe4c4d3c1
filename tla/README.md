# A verification project for kestrel-feature-mcp

The feature connects an agent to MCP servers: remote servers over Streamable
HTTP, local Docker containers and Docker's MCP gateway, with OAuth grants for
remote servers, MCP Apps views, and a web sandbox for them. This directory models the
parts whose correctness depends on the order of concurrent steps and on failures,
checks them with TLC and proves the main safety properties with TLAPS.

The models are written from `src/kestrel_feature_mcp/` (Python) and `src/web/`
(JavaScript). `PROJECT.json` maps every definition to the lines it stands for.

    tlc -workers 2 -config MCFeatureServers.cfg MCFeatureLifecycle
    tlapm AppViewProofs.tla

## Inventory

Everything in the Python package runs on one asyncio event loop, so a step is what one
task does between two awaits. The exceptions are the database behind the grant store,
which several processes may share, and the worker threads around Docker. The web side runs in
three kinds of processes: the console's page, the sandbox's frames, and the sandbox service.

| Component | State it keeps | Operations | Interacts with |
|---|---|---|---|
| OAuth grant store (`oauth_grants.py`) | one row per credential slot: state, revision, claim hash, encrypted tokens | read, begin_authorization, begin_exchange, complete, abandon, reject, begin_refresh, finish_refresh, reject_refresh, revoke_local; each a read, a compare-and-set and a reading back | acquisition, refresh, runtime |
| OAuth acquisition (`oauth_acquisition.py`, `oauth_policy.py`) | one operation: claim, callback future, withdrawn flag, task | begin, callback, exchange, commit, cancel, withdraw | store, the browser, the authorization server |
| OAuth refresh and credentials (`oauth_refresh.py`, `oauth_credentials.py`) | a refresh attempt; a live credential with its admission lock | run, retire; admit, dispatch_token, withdraw, retire | store, runtime, native HTTP requests |
| OAuth runtime (`oauth_runtime.py`) | operations, live credentials, a gate per connection | begin, callback, cancel, connect, disconnect, maintain, close_authorizations | all of the above, the feature |
| Feature lifecycle (`feature.py`, `host_configuration.py`, `apps_host.py`) | `_closing`, generation, transition lock, a record per remote name, mounted tools | initialize, shutdown, load, restore, unload, set_config | every owner of a connection, Core's registry and saved rows |
| Connection owner (`connection.py`, `_lifecycle.py`) | owner task, SDK client, incarnation, shutdown deadline | connect, list_tools, call_tool, read_resource, close; bound callers | the MCP server, the feature, containers and gateway |
| Container manager (`manager.py`) | an owned record per container, lifecycle gates | create, start, connect, drop, stop, remove | Docker, connections |
| Gateway (`gateway.py`, `manager.py`) | subprocess, drain thread, session-timeout task, requested servers | start, stop, restart, enable, disable | Docker, one connection |
| Apps execution (`apps_execution.py`) | a view's calls and deliveries, one invocation's facts | open_view, invoke, admit, capture, revoke, close | Core's hooks and audit |
| Apps publication (`apps_publication.py`, `apps_host.py`) | batches, private results, physical views, limits | register, retire, publish, open_view, close_view, drain | execution, connections |
| OAuth HTTP, tool contracts, discovery, Tasks schema (`oauth_http.py`, `http_limits.py`, `dynamic_tools.py`, `tool_contract.py`, `remote.py`, `images.py`, `apps_resources.py`, `official_registry.py`, `registry.py`, `tasks_protocol.py`) | next to none | validation, conversion, catalog searches | - |
| App view and sandbox proxy (`parent-entry.js`, `parent-view.js`, `origin-transport.js`, `sandbox-proxy.js`, `sandbox-entry.js`) | a part's view and its disposal, the opening, cleanup and greeting of a view, the proxy's phase, four queues of posted messages | open, close, unmount, bus events; offer, initialize, input, result, tool calls; load, forward, seal | Apps publication, the SDK's bridge, the View |
| OAuth panel (`oauth-panel.js`) | generation, busy buttons, cards, hints in the session storage | load, connect, refresh, disconnect, submit, cancel; reset and dispose | OAuth runtime (over HTTP), the console, the consent page |
| Sandbox service and build (`build-assets.mjs`, `sandbox-cli.js`, `sandbox-assets.js`, `sandbox-service.js`, `sandbox-config.js`) | packaged files and manifest, the verified assets and the policy of one process | build, verify, start, serve | the file system, the frames of Apps |

What is hard, and what makes each part correct:

- *Grant store.* Several workers and processes race for one row, and each may die between
  its commit and its acknowledgement. An unknown token outcome must stay visible, a
  disconnect must win, a refresh token must not be replayed.
- *Feature lifecycle.* Locks are taken in two orders, DNS and handshakes outlive a
  shutdown, and every cleanup may fail. No connection may be lost track of, no tool stay
  mounted without its owner, and every call has to settle.
- *Connection owner.* Calls take several rounds while the connection is closed and
  connected again; answers get lost. No request may move to another session or be
  replayed, no plain error may hide an execution, no owner task may be lost.
- *Credentials, containers, gateway.* Withdrawal races with dispatch; Docker operations
  fail half way, and what they leave behind is used by the next operation.
- *Apps.* Views are revoked while approvals, effects and audits are under way, also by the
  checks that their own calls make. A request may be told that nothing ran only if that is
  true; native results must be delivered after the audit or withheld; closing joins everything.
- *App view.* The user leaves the chat, closes or unmounts the part at every await of an
  opening whose answer may be lost; the View is untrusted and its messages cross the page's
  own. The resource may be offered once, private data must stay in its chat and behind the
  initialization, no server view may be forgotten, and an honest View must never be cut off.
- *OAuth panel.* Agent and account change under requests that are already sent. No answer
  may show somebody else's connections or enable buttons that wait for another request, and
  an authorization that is left pending must stay cancellable from its tab; where the code
  gives that up is part of the model.
- *Sandbox service and build.* Builds die over the packaged files while a service reads
  them, and grants pass through five layers that are fixed at different moments.

The `hazards` of `PROJECT.json` list these at their lines, with the properties that cover them.

## Plan

In the order of importance; all of these are written and checked.

1. `GrantCustody`, `OAuthGrants`, `OAuthGrantsProofs`: proved, with the refinement.
2. `FeatureLifecycle`, `FeatureLifecycleProofs`: proved.
3. `ConnectionOwner`, `ConnectionOwnerProofs`: proved.
4. `AppSession`, `AppView`, `AppViewProofs`: proved, with the refinement.
5. `OAuthPanel`, `OAuthPanelProofs`: proved.
6. `SandboxService`, `SandboxServiceProofs`: proved.
7. `Gateway`, `GatewayProofs`, `Containers`, `ContainersProofs`: proved.
8. `AppExecution`: proved, in `AppViewProofs`, which has both sides of an App.

The abstract specifications are `GrantCustody` (what the store promises) and `AppSession`
(what opening an App promises).

Proofs follow the runs: each inductive invariant is checked by TLC first, and recursion is
kept out of the modules that have theorems.

## The modules

### OAuthGrants and GrantCustody

One credential slot and any number of acquirers (`AuthorizationOperation`), refreshers
(`OAuthRefresher`), their cancellers, and disconnects. `slot` is the row; `seen` the
snapshot or claim a worker holds. An operation of the store is three steps, because the
code awaits between them: the read that checks the snapshot or claim, the
compare-and-set of `_replace`, and the reading back that acknowledges it. `Fail` may end
any worker between two steps, which covers errors, lost acknowledgements, cancellation and
dead processes; nothing is retried, as in the code. Random revisions are numbered, a claim
hash is its owner, a token is the worker that obtained it. Not modelled: the binding, the
encryption, the `reason` column, the discovery requests.

The types, with the table's CHECK constraints, are proved for any number of workers.

`GrantCustody` is the abstract specification, with every custody operation atomic.
`ImplementsCustody` is the refinement.

- `oauth_consent` (two consent attempts, one of which acknowledges an unknown outcome, a
  refresh and a disconnect): `UnknownOutcomeVisible`, `DisconnectIsFinal`,
  `TokensRemovedOnPurpose`.
- `oauth_refresh` (two refreshes, a consent attempt and a disconnect): `NoRefreshReplay`
  and `ImplementsCustody`.

Two workers of a kind suffice for every race between a winner and a loser of a
compare-and-set; the proofs need no bound.

### FeatureLifecycle

The tasks of one feature: loads, restores (`on_agent_ready`), OAuth connects and
disconnects, unloads, shutdown and initialize, over the transition lock, the gates per
remote name and the gates per OAuth connection. A lock is the queue of its holder and
waiters. `running` names the task that goes on because a lock it asked for was free, since
asyncio does not suspend then. Any await may end in an error. A load whose tools are mounted is over,
except for a connect whose request has lost its authority by then: it retires what it mounted
(`PublishRefused`). Names are independent except
for the locks that all of them share, so one server and one grant are enough for the runs; the
proofs need no bound.

External, and modelled from how the code uses them: Core's host (`close` awaits
`close_authorizations`), its saved rows, its check of the live request. Not modelled: the
containers, the gateway and Apps (separate owners that the same transition drives),
`set_config`, the retirements that `maintain()` starts itself, cancellation of a task that
still queues for a lock, hosts without persistence; capacity limits are refusals.

- `feature_servers` (a load, a restore, an unload, a shutdown and an initialize of one
  server): `NoConnectionLeaked`, `MountedIsOwned`, `NoStaleGeneration`,
  `QuietAfterShutdown`.
- `feature_settles` (two connects of one grant, which evict each other, a disconnect and a
  shutdown): `EverySettles`, and `NoConnectionLeaked` for grants. The shutdown and each connect
  take the transition lock and the gates in different orders.
- `feature_recovery` (a load, a connect and an initialize that finds a dead retention
  task): `EverySettles` is violated; see below.

Fairness: each task in progress takes its next step when it can (weak fairness per task).
The code justifies it by the deadlines on network and close calls, by asyncio's scheduler,
which runs every ready task, and by first-come locks. It assumes that the host's and the
database's calls return. The environment (a lost connection, the death of the retention
task, new calls) has no fairness.

### ConnectionOwner

One `MCPConnection` through several lives, its owner task, and invocations of bound
callers. An incarnation is numbered by the connect that drew it, and names that connect's
task, client and session too. `Dispatch`, `Return`, `Pause`, `Continue` and `GiveUp` are the steps of
`_complete` between its awaits; `Reject` and `Lose` the error handling of `call_tool` and
`read_resource`, which differ: a tool that was sent may have run, a read has no effects. The
peer performs a request late or never, and answers or not; `Perform` may even follow the
end of the call. `Close`, `Expire`, `Joined` and `Unjoined` are `_close_transport` with its
two budgets. Not modelled: the pages of `list_tools`, the `before_close` hook, two closes of
one object at the same time (the feature's gates exclude them), calls without a round
check, and authority checks that raise errors outside the documented families.

- `connection_calls` (a tool call and a resource read, two lives, one continuation):
  `ErrorsHaveNoEffects`, `SameSession`, `NoReplay`, `NoOwnerLost`, `ValuesAreCurrent`. A second
  life is what a stale call could be sent to; one continuation reaches the limit with an answer
  in hand.

### Gateway

Docker's MCP gateway as `gateway.py`, `MCPGatewayManager` and the gateway operations of
`feature.py` drive it: one process for several servers, one connection to it, the mounted
tools and the saved rows. `call` is the operation that holds `_docker_operations`; its phase
says which await it is in (`forgetting` rows, `unlinking` the connection, `stopping` and
`launching` the process, `linking`, `saving` rows). Gateway start replaces what runs, load
and unload restart it in place, and each phase has an action for success and one for the
errors and cancellations of its await. A process and its session may end at any time.
`restoring` holds the rows that `on_agent_ready` has read and not used yet: the gateway may be
stopped or a server unloaded before `RestoreGateway` starts what was read. An unload that finds
no connected gateway serving the name takes the container's path and only clears the row
(`UnloadUnserved`). Clearing may end after some rows, in an error or a cancellation
(`ForgetFails`).

`removed` is the history of cleared rows. `RemovedStaysRemoved` is about a connected gateway
between two operations, and excuses two cases (`excused`) that the code admits, both of which
TLC reaches when they are not excused: an operation that ended while it cleared rows leaves
their servers served, or has the next load serve them; and a restore asks again for a server
whose row it read before the removal. Every other end of a teardown or a start is covered,
whatever failed. Not modelled: the drain thread, the port, catalog checks, hosts without persistence, and the
session timeout, which no caller sets.

- `gateway_changes` (two servers, three launches): `MountedIsServed`,
  `RemovedStaysRemoved`, `EveryProcessTold`, `OwnersInCustody`. Two servers tell the set of a
  gateway from the server of a call; three launches are a first one, one that fails, and one
  that meets what both left.

Only safety: no fairness is assumed. The proofs need no bound.

### Containers

`MCPToolManager` and the container operations of `feature.py`: the records of
`owned_containers`, the Docker client, mounted tools, saved rows, and the daemon's containers.
`call.phase` says which await of `start_tool_container`, `connect_to_tool`, `stop_tool` or
`_remove_container` the operation is in. The containers that had a name are numbered; `box` is
the one that has it now. Docker is called in worker threads, and a cancelled await does not
stop its thread: `late` holds such commands, which take effect under a later operation or
never. Containers exit, vanish, or lose their name to somebody else's. Not modelled: image
pulls, ports, logs, the polling of the health check, and the manager's gates per name, since
`_docker_operations` admits one caller at a time.

- `containers` (two names, two containers each in turn, one late command at a time):
  `StartedIsOwned`, `ForeignUntouched`. Two names are needed for a shutdown that fails for one
  of them, a second container for what late commands do after a replacement. The proofs need no
  bound.

### AppView and AppSession

One App part of a chat. `entry` is the mounted part of `parent-entry.js` (its view, and the
disposal it awaits); `page` is `mountMCPApp` of the current view: how far its opening
coroutine is, whether it is retired, its cleanup, and what it has told the View; `proxy` is
the sandbox frame and the `phase` of `startSandboxProxy`; `app` is the View. The four queues
are the messages posted between page and proxy and between proxy and View: the browser keeps
their order for each pair and loses what is posted to a removed listener or frame. The
server's views are `served`; their routes, the bridge of the SDK, the console and the View
are external. The user may leave the chat, close or unmount at every await; an opening is
answered, refused or lost, also after the page gave up; the server may end a view on its own;
the View breaks the protocol by any message, at any time, or navigates away. JSON, origins
and sizes are outcomes of a message (`invalid`, `oversize`, refused resources). Not modelled:
size changes of the frame, the texts, and the contents of results.

`AppSession` is what the two ends may rely on, with the channels and the proxy gone: offer,
load, ask, answer, confirm, serve, in this order, with a View that may vanish at any time.
`SessionHost`, `SessionGuest` and `SessionHere` are the refinement mapping.

- `app_view` (two openings, one tool call, one breach): `OffersOnce`, `HonestNeverEnded`,
  `Released`, `PrivateStaysInChat`, `ImplementsSession`, `AppStarts`, `ButtonReturns`. A
  second opening is what a late answer of the first could be confused with; one breach at any
  moment meets every phase; the proofs need no bound.

Fairness: weak, for the delivery of bus events and posted messages, for answers of the server
or their failure (`fetch` settles), for the steps of the proxy and for a View that goes on
after it was answered. `BridgeStep`, `ProxyStep` and `OpeningStep` are each one event loop's,
which runs whatever is ready; a single condition for each says only that the loop does not
stop. Nobody has to open, close, call a tool or leave the chat.

### AppExecution

The server's side of Apps. `batch`, `stage` and `view` are the registrations of one native
connection, the private results and the physical Views; `held` is `_views`, which keeps a
revoked View until its tasks are joined. `call` is one operation of a View from its child task
to the end of the request: the phases between the awaits, the cancellation that asyncio has
still to deliver, and the facts of `_Invocation`. Every check of a View's authority
(`require_current`) is part of the step that makes it, with what it withdraws: an expired
result, or all that a registration published which is no longer current. `closer` is a task
that closes a View, the connection or the publisher, or the maintenance: `Drain` is all that
`drain_retired` and its callers do before their first await, `Join` takes the tasks there are,
`Joined` releases the View unless the join raised.

A native result reaches a request only after two more turns of the event loop (the audit, and
the resumption of the request), and any of them may follow a revocation; a revocation cancels a
child once, and Core turns the cancellation into an end of its own choice. External: Core's
binding (approval, hooks, policy, audit and what it raises), the native server, the clock, the
readers' authorization, the sends of the host. Not modelled: more than one publishing principal
or registration owner, sizes and locators, the names and arguments of tools, the first result
of a chat's tool before it is published.

- `app_execution` (one registration, result and View; a request that calls a tool or reads, a
  delivery, a closer of any kind, and the maintenance): `DefiniteMeansNothingRan`,
  `JoinedBeforeClosed`, `DeliveredInTime`, `PlacesReturn`. Two operations of a View are what a
  check made by one can do to the other; a closer beside the maintenance is two joins of one
  View, of which either may fail or be cancelled. The limits on results, Views and calls are not
  reached there; the proofs hold for any limits, registrations, results, Views and closers.

Fairness: weak, for a child that can go on, for the request that awaits it and for each closer,
which asyncio runs when they are ready; for the audit's end, which Core owes to a cancelled
call; and for the maintenance, which the Apps host repeats (`apps_host.py:73-80`) until
`_close_apps` cancels it and closes the publisher. The native
server, an approval, a send and a resource need not ever answer: `PlacesReturn` holds because a
revocation cancels them. It excepts a maintenance that ended with a failure, which is what the
code does with one, and after which `_require_apps_ready` refuses new connections; and a closed
publisher, whose close may be cancelled: what that leaves is joined again when the feature
retires the connections, which no fairness of this model promises.

### OAuthPanel

The panel of one browser tab. Each click is an operation, numbered in order: its coroutine
(`phase`), its last request (`wire`) and its owner (`by`, `fresh`: the agent and the
generation that `capture` takes). `busy`, `shown` and `offered` are what the panel displays;
`hints` is the session storage, which outlives the panel. The selected agent and the
signed-in account change at any time and an event follows later (`notice`); requests are
handled, also after the panel gave them up, refused, lost or aborted. An answered submission
ends by storing its hint and leaving the page (`Leave`), or in an error (`Refuse`): the
destination may be refused, and the storage may be too full for the hint although it took the
one character of the check before. `grant` is the server's side of each authorization;
`forsaken` are the submissions whose operation ended in such an error, or in any other one,
before the hint was stored: `NoOrphan` is about all others. Not modelled: the form's fields,
callback errors, texts.

- `oauth_panel` (two agents, two accounts, three operations, two changes, one new mount):
  `ShownIsOwn`, `OneAtATime`, `NoOrphan`, `BusyEnds`. Two operations race and a third
  observes; two changes lead away and back.

Fairness: weak, for the delivery of the event and for each coroutine to go on, since a
request is answered or its `AbortSignal` fires; the server need not handle it.

### SandboxService

`build-assets.mjs` compiles one output after the other from sources that may be edited
meanwhile, then writes the files one by one, the manifest last; a write truncates the file
first, and the build may die between any two steps. The service reads its policy, the
manifest and each file (`readVerifiedSandboxAssets`) in steps of its own and listens only if
all hashes agree. A View's grants are the intersection of what the host approves
(`parent-view.js`), the service's header and configuration, and what the proxy approves
(`sandbox-proxy.js`), each taken at another moment. Hashes do not collide: the content of a
file is the version of its sources. Not modelled: HTTP checks of single requests, licenses
and notices of the build.

- `sandbox_service` (three files, one edit of sources, two builds, two starts, one edit of a
  policy, one origin and one device): `ServedIsOneBuild`, `BuildIsStartable`, `GrantsAgreed`.
  Three files give a build a first, a middle and a last write; two builds leave one half
  done. The proofs hold for any number of files, builds, starts and grants.

## What is proved

For any number of workers, tasks, names, invocations, connects, rounds, openings, calls,
breaches, operations, files, grants, servers, launches, containers, late commands,
registrations, results, Views and closers. The assumptions are that the kinds of actors and
tasks are disjoint (`ActorsAssumption`, `TasksAssumption`, `AppExecutionAssumption`), that loads
are about servers and connects about grants (`TargetAssumption`), that bounds and limits are
natural numbers (`ConnectionAssumption`, `AppViewAssumption`, `AppExecutionAssumption`,
`OAuthPanelAssumption`, `SandboxServiceAssumption`, `GatewayAssumption`,
`ContainersAssumption`), that the panel starts with one of its agents and accounts, that a
package has at least two files, and that a grant is of an origin or of a device.

`OAuthGrantsProofs`: the invariant `IInv` has to say how far each worker has come
(`ProgressInv`), in what state its claim is (`PhaseInv`), that an unanswered intent is in
the row or was given up (`IntentInv`), where each refresh token can be (`TokenInv`), and that
a worker overtaken by a disconnect holds a revision of the past (`StaleInv`). None of the
properties is inductive alone: a compare-and-set is only harmless because of what the
worker's snapshot implies. The refinement of `GrantCustody` maps each commit to one
abstract step and everything else to a stutter.

`FeatureLifecycleProofs`: what a task may rely on follows from the locks it is in, which
depend on its phase. `TransitionInv`, `RemoteInv` and `GrantInv` say for each phase which
queues a task heads and in which it may wait; `Joined`, `Left` and the step lemma of each kind
of lock keep them, and `Exclusive` turns them into mutual exclusion. `PlaceInv` says which
record or credential a task retires: a drainer or an eviction works on another call's. The
rest says what the holders have done: a connected load is in the record (`RecordInv`), whoever
is to retire a record has unmounted it (`MountInv`), what is mounted is of a load that is over
or of a refused connect on its way to retire it (`Mounter`), a load past its last check is current
unless the feature is closing (`GenerationInv`), and a record that is left while records are
released is still to be released (`DrainInv`). A record changes under the gate of its name
only (`InGate`); most tasks only move (`Moves`), the others retire (`Retires`). `NoStaleGeneration` is about records as well as tools, since
`initialize` may open the feature only when none is left; it needs that a load with a record
is not admitted again (`Recorded`), and that the records of a clean release are all gone
(`DrainInv`).

`ConnectionOwnerProofs`: `IInv` joins `Lives` (the current incarnation is that of the
task in custody), `Sessions` (a call under way keeps the session of its binding), `Rounds`
(every request but the first continues an answered round) and `Effects` (what the peer can
have done, by the phase and answer of a call). Owner steps leave the calls alone and calls
leave the owner alone, which splits the step.

`AppViewProofs`, the page's side: `OffersOnce` needs that a frame announces itself once and that its
announcement is the first message of its queue (`OfferInv`), which needs that nothing is
posted around a frame that is not running (`FrameInv`). The refinement needs how far page,
proxy and View can be of each other (`StageInv`) and what each message under way says of that
(`MessageInv`): an answer in a queue means that the page answered, a confirmation that
reaches the page means that the proxy is past the initialization. `Released` needs what the
page knows of its server view at each stage of opening and cleanup (`ReleaseInv`). Steps that
fail, close or post are instances of a lemma each (`FailIInv`, `CloseIInv`, `BridgeIInv`).
`HonestNeverEnded` needs more: the proxy ends a View for a message that does not fit its phase,
so the phase must be known wherever such a message can be. `HonestInv` says that a View that
keeps to the protocol is at one of five stages (`Loading`, `Loaded`, `Asked`, `Told`,
`Confirmed`), each with what the four queues hold: at most one message of the initialization
is under way in all of them, and calls only follow its confirmation. `StepHonest` takes the
invariant over every step with `IInv`, which is why an answer under way belongs to the
question that is waiting for it. `PrivateStaysInChat` is an action property from the same
invariant, and `PageImplementsSession` maps every step to one of the session or to a stutter.

`AppViewProofs`, the server's side: `ServerInv` says which facts of an invocation fit each
phase, and which results those facts justify (`TasksInv`): a child that is told "conflict" sent
nothing or has the connection's own rejection. `HeldInv` says that an open View is held on a
result that is kept from a registration, and that a task keeps its View held. A closer joins
every task of its View, because nothing begins on a closed View (`JoinInv`), and whoever retires
the connection has the Views of all tasks still before it, because nothing is registered then
(`RetireInv`). A check is an action inside another; `CheckFacts` shows that it only
withdraws (`Tidy`), and `TaskStepInv` that a task which takes a step leaves the others as a
revocation may (`Like`). `DeliveredInTime` is an action property of the same proof (`Timely` in
`StepServer`): the request's last check and its end are one step.

`OAuthPanelProofs`: the invariant adds that the operation of the present owner keeps the
buttons disabled, that a hint's request was answered, and that a request which outlived its
coroutine, or was answered to one that then failed, is known as forsaken.

`SandboxServiceProofs`: the invariant says which files a build has written and a service has
checked by now, and of which build they are, and that each layer narrows the grants of the
one before.

`GatewayProofs`: every property is about what the next operation meets, so the invariant
follows an operation through its awaits. A process whose end is awaited was signalled
(`ProcessInv`), nothing is launched while a connection is in custody (`ConnectionInv`), and a
call works towards a set without the servers that were removed (`CallInv`). `CatalogInv` says
what is left when an operation ends early: one that only touched rows leaves the tools as
they were, every other one has unmounted them; and a gateway may serve a removed server that is not
excused (`Gone`) only if no open session can ask it.

`ContainersProofs`: each record names a container that is this agent's or has lost its name
(`RecordInv`), and so does each late command, whose container was marked when the command was
given (`LateInv`). Numbers only grow with each container that takes a name, hence whatever
outlives its container cannot touch the next one. The lemmas `Commanded`, `Created`,
`Dropped` and `Adopted` cover everything that is done to a container or a record; other
steps change neither (`Quiet`).

The type invariants of all components are proved with them (`TypeCorrect`, `ServerTypeCorrect`),
with what they say besides types: that no task waits for a lock it holds, that the SDK client
never outlives its task, that a gateway's manager is dropped only when nothing is left of it.

Every invariant and action property of a run is proved. Only model-checked: liveness
(`EverySettles`, `AppStarts`, `ButtonReturns`, `BusyEnds`, `PlacesReturn`), which the prover does not support.

## Not modelled

- *`OAuthConnectionCredential`* (`oauth_credentials.py`): the token of a live connection.
  `OAuthGrants` ends where a grant was read for a connection; the credential never writes the
  store, and its lock covers one read.
- *The parsing of Apps resources, the first result of a chat's tool before `publish`*: checks of
  one value.
- *`set_config`, the Apps host's construction, `maintain()`'s own retirements* of the feature: they run under
  the same locks as the operations that are modelled.
- *OAuth HTTP, tool contracts, discovery, Tasks schema*: functions of one request or one
  description, without state.
- *Build scripts' bundling, tests' drivers, and the bundles under `apps_sandbox/`*, which are
  generated from `src/web/`.

## Findings

`feature_recovery`: `initialize` sets `_closing` only when it holds the transition lock. A
connect that passed the last check (`feature.py:561`) while `initialize` was still waiting
for the lock queues behind it with its OAuth gate held. If the retention task has died, `initialize` then closes the
OAuth host, which waits for that gate: both wait for ever. The comment at
`feature.py:559-560` and the test at `tests/unit/test_oauth_runtime_http.py:438` cover the
same pair for `shutdown`, which closes admission before it queues.

## Observations

Met while modelling; the models describe what the code does.

- When the rows of a gateway start or a load cannot be confirmed (`feature.py:787-832`), its
  tools are unmounted but the gateway stays connected with the server in
  `requested_servers`. The next load of another server mounts the tools of both, whereas
  `README.md:78-79` asks for a confirmed row before publication in every connection mode.
- `MCPGatewayManager._connect` (`manager.py:538-551`) stores a connection only after
  `connect()` returned. If connecting fails and the cleanup outlasts both deadlines, the
  unfinished owner task is known to nobody (`stray` in `Gateway`), whereas `README.md:321`
  says that it is retained. Remote connections are recorded before they connect.
- The comment at `sandbox-entry.js:9` says that before initialization the host's loading
  deadline owns a failed startup. `parent-view.js` has no such deadline and no handler for a
  teardown request: after a failure of the frame the page stays at "Opening App" until the
  user closes it. `AppStarts` therefore excepts frames that are dead or closed.
- `on_agent_ready` reads the saved rows once and restores the remote servers before it starts
  the gateway with the names it read (`feature.py:1436-1487`). A `gateway_stop` or an unload
  made meanwhile clears its rows, and the restore then serves and saves the same servers again.
  The comment at `feature.py:1312-1315` says that the rows are cleared 'so auto-restore can be
  turned off even when the gateway isn't currently connected'. Remote restores read their row
  again before they publish.
- `gateway_stop` and unload clear rows before they touch the gateway. If that ends after some
  rows, in an error or a cancellation, the gateway keeps serving their servers, and a later
  load keeps them in its set (`feature.py:773-778`, `979-980`). When `gateway_stop` cannot read the
  rows, it stops the gateway, reports success and leaves them (`feature.py:379-383`).
- The comment at `oauth-panel.js:163` says 'Fail before Begin when this browser cannot retain
  its same-tab hint'. The check stores one character, the hint is longer, and the destination is
  checked after Begin (`oauth-panel.js:169-178`): either may fail with an authorization pending
  that this tab has no hint of, and hence no Cancel button.
