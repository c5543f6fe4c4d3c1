------------------------------ MODULE OAuthPanel ------------------------------
(***************************************************************************)
(* The console panel of OAuth connectors (oauth-panel.js).  Its state is    *)
(* that of one browser tab: the mounted panel, with the cards and the       *)
(* buttons it shows, and the hints of the session storage, which survive a  *)
(* navigation to the consent page.  Its operations are coroutines of one or *)
(* two requests.  Meanwhile the agent that the console selects and the      *)
(* account that it is signed in as change; an event of the console tells    *)
(* the panel, some time later.  The console, the browser and the server's   *)
(* routes are external.                                                     *)
(*                                                                          *)
(* An operation is a number, in the order of the clicks; the authorization  *)
(* that it begins, and the hint that it keeps, go by that number.           *)
(***************************************************************************)
EXTENDS Naturals

CONSTANTS
  Agent,       \* agents of the console
  Account,     \* accounts that sign in
  Home,        \* the agent and the account that the tab starts with
  MaxOps,      \* bound on operations
  MaxChanges,  \* bound on changes of the agent or the account
  MaxMounts    \* bound on the times the panel is mounted again

ASSUME OAuthPanelAssumption ==
  /\ MaxOps \in Nat /\ MaxChanges \in Nat /\ MaxMounts \in Nat
  /\ Home \in Agent \X Account

VARIABLES
  agent,       \* api.getHostAgent()
  account,     \* the account of the browser's session
  notice,      \* an event about a change is on its way
  changes,     \* (bound) changes so far
  mounted,     \* the panel is there: not disposed, its page not unloaded
  mounts,      \* (bound) mounts so far
  busy,        \* the buttons are disabled
  shown,       \* the actors whose connections the cards show: one, or none
  offered,     \* hints with a Cancel button
  ops,         \* operations so far
  kind,        \* of each operation
  target,      \* of each operation: the hint it cancels
  by,          \* owner: the agent of each operation
  fresh,       \* owner: the operations of the panel's present generation
  phase,       \* of the coroutine of each operation
  wire,        \* of the request each operation sent last
  seen,        \* the account for which the server handled it
  hints,       \* the authorizations with a hint in the session storage
  usable,      \* the session storage takes the short value of the check
  grant,       \* the server's side of each authorization
  forsaken     \* (history) authorizations whose beginning was not answered in time, or
               \* was answered with what could not be kept

console == <<agent, account, notice, changes>>
panel == <<mounted, mounts, busy, shown, offered>>
owner == <<ops, kind, target, by, fresh>>
work == <<phase, wire, seen>>
kept == <<hints, usable, forsaken>>
vars == <<console, panel, owner, work, kept, grant>>

Op == 1..MaxOps

\* A panel that is not there shows nothing and waits for nothing.
TypeOK ==
  /\ agent \in Agent /\ account \in Account /\ notice \in BOOLEAN /\ changes \in Nat
  /\ mounted \in BOOLEAN /\ mounts \in Nat /\ busy \in BOOLEAN
  /\ shown \subseteq Agent \X Account /\ offered \subseteq Op
  /\ ops \in 0..MaxOps
  /\ kind \in [Op -> {"load", "act", "cancel", "submit"}]
  /\ target \in [Op -> Op] /\ by \in [Op -> Agent] /\ fresh \subseteq Op
  /\ phase \in [Op -> {"none", "acting", "loading", "ended"}]
  /\ wire \in [Op -> {"idle", "sent", "handled"}]
  /\ seen \in [Op -> Account]
  /\ hints \subseteq Op /\ usable \in BOOLEAN
  /\ grant \in [Op -> {"none", "pending", "ended"}]
  /\ forsaken \subseteq Op
  /\ ~mounted => fresh = {} /\ ~busy /\ shown = {} /\ offered = {}

Init ==
  /\ agent = Home[1] /\ account = Home[2]
  /\ notice = FALSE /\ changes = 0
  /\ mounted = TRUE /\ mounts = 0 /\ busy = FALSE
  /\ shown = {} /\ offered = {}
  /\ ops = 0
  /\ kind = [o \in Op |-> "load"] /\ target = [o \in Op |-> o]
  /\ by = [o \in Op |-> agent] /\ fresh = {}
  /\ phase = [o \in Op |-> "none"] /\ wire = [o \in Op |-> "idle"]
  /\ seen = [o \in Op |-> account]
  /\ hints = {} /\ usable \in BOOLEAN
  /\ grant = [o \in Op |-> "none"]
  /\ forsaken = {}

UnderWay(o) == phase[o] \in {"acting", "loading"}

\* owner.current()
Current(o) == o \in fresh /\ by[o] = agent

-------------------------------------------------------------------------------
(* The console and the life of the panel *)

SwitchAgent ==
  /\ changes < MaxChanges
  /\ \E a \in Agent \ {agent} : agent' = a
  /\ notice' = TRUE
  /\ changes' = changes + 1
  /\ UNCHANGED <<account, panel, owner, work, kept, grant>>

SwitchAccount ==
  /\ changes < MaxChanges
  /\ \E a \in Account \ {account} : account' = a
  /\ notice' = TRUE
  /\ changes' = changes + 1
  /\ UNCHANGED <<agent, panel, owner, work, kept, grant>>

\* The buttons stay disabled until the operation under way ends.
ResetBusy ==
  /\ fresh' = {}
  /\ UNCHANGED busy
  /\ shown' = {} /\ offered' = {}

\* reset: what is shown goes, and what is under way belongs to a past generation.
Reset ==
  /\ fresh' = {}
  /\ busy' = FALSE
  /\ shown' = {} /\ offered' = {}

Noticed ==
  /\ notice
  /\ notice' = FALSE
  /\ IF mounted THEN Reset ELSE UNCHANGED <<fresh, busy, shown, offered>>
  /\ UNCHANGED <<agent, account, changes, mounted, mounts, ops, kind, target, by, work, kept, grant>>

\* The panel is taken out of the page, or the page is unloaded.
Dispose ==
  /\ mounted
  /\ mounted' = FALSE
  /\ Reset
  /\ UNCHANGED <<console, mounts, ops, kind, target, by, work, kept, grant>>

\* A new panel in the same tab; it starts with nothing but the stored hints.
Mount ==
  /\ ~mounted
  /\ mounts < MaxMounts
  /\ mounts' = mounts + 1
  /\ mounted' = TRUE
  /\ Reset
  /\ UNCHANGED <<console, ops, kind, target, by, work, kept, grant>>

-------------------------------------------------------------------------------
(* perform: a click captures its owner, disables the buttons and sends a request *)

Perform(k, t) ==
  /\ mounted /\ ~busy
  /\ ops < MaxOps
  /\ LET o == ops + 1 IN
       /\ ops' = o
       /\ kind' = [kind EXCEPT ![o] = k]
       /\ target' = [target EXCEPT ![o] = IF k = "cancel" THEN t ELSE o]
       /\ by' = [by EXCEPT ![o] = agent]
       /\ fresh' = fresh \cup {o}
       /\ phase' = [phase EXCEPT ![o] = IF k = "load" THEN "loading" ELSE "acting"]
       /\ wire' = [wire EXCEPT ![o] = "sent"]
  /\ busy' = TRUE
  /\ UNCHANGED <<console, mounted, mounts, shown, offered, seen, kept, grant>>

\* The Refresh button, or an event that shows the panel.
Reload == Perform("load", 1)

\* Connect, Refresh credentials or Disconnect of a card.
Act ==
  /\ shown # {}
  /\ Perform("act", 1)

CancelPending == \E t \in offered : Perform("cancel", t)

\* The storage is tried when the hint is there to be stored.
SubmitUntried == Perform("submit", 1)

\* A submission is refused before it begins when the storage takes nothing.
Submit ==
  /\ usable
  /\ Perform("submit", 1)

-------------------------------------------------------------------------------
(* The server handles a request, also after the panel gave it up.  What it would *)
(* refuse, and what is lost, is a failure of the coroutine.                       *)

Handle(o) ==
  /\ wire[o] = "sent"
  /\ wire' = [wire EXCEPT ![o] = "handled"]
  /\ UNCHANGED <<console, panel, owner, phase, kept>>

\* The connections of the account that is signed in by now.
ServerLists(o) ==
  /\ Handle(o)
  /\ phase[o] = "loading"
  /\ seen' = [seen EXCEPT ![o] = account]
  /\ UNCHANGED grant

ServerActs(o) ==
  /\ Handle(o)
  /\ phase[o] = "acting" /\ kind[o] = "act"
  /\ UNCHANGED <<seen, grant>>

ServerBegins(o) ==
  /\ Handle(o)
  /\ phase[o] # "loading" /\ kind[o] = "submit"
  /\ grant' = [grant EXCEPT ![o] = "pending"]
  /\ UNCHANGED seen

\* An authorization that is unknown by now is cancelled without further ado.
ServerCancels(o) ==
  /\ Handle(o)
  /\ phase[o] # "loading" /\ kind[o] = "cancel"
  /\ grant' = [grant EXCEPT ![target[o]] = "ended"]
  /\ UNCHANGED seen

\* The authorization expires, or is replaced.
ServerForgets(o) ==
  /\ grant[o] = "pending"
  /\ grant' = [grant EXCEPT ![o] = "ended"]
  /\ UNCHANGED <<console, panel, owner, work, kept>>

\* The console's page at the callback URL completes the authorization with its hint.
ConsentReturns(o) ==
  /\ ~mounted
  /\ grant[o] = "pending" /\ o \in hints
  /\ grant' = [grant EXCEPT ![o] = "ended"]
  /\ hints' = hints \ {o}
  /\ UNCHANGED <<console, panel, owner, work, usable, forsaken>>

-------------------------------------------------------------------------------
(* The coroutine goes on after its request *)

\* The owner is not checked again after the request.
AnsweredAnyone(o, p) ==
  /\ phase[o] = p
  /\ wire[o] = "handled"

Answered(o, p) ==
  /\ phase[o] = p
  /\ wire[o] = "handled"
  /\ Current(o)

End(o) == phase' = [phase EXCEPT ![o] = "ended"]

\* load, after the answer: cards for the listed connections, and a Cancel button
\* for each hint of this agent.
Show(o) ==
  /\ Answered(o, "loading")
  /\ shown' = {<<by[o], seen[o]>>}
  /\ offered' = {h \in hints : by[h] = by[o]}
  /\ busy' = FALSE
  /\ End(o)
  /\ UNCHANGED <<console, mounted, mounts, owner, wire, seen, kept, grant>>

\* What an action ends with: load(actor).
LoadNext(o) ==
  /\ phase' = [phase EXCEPT ![o] = "loading"]
  /\ wire' = [wire EXCEPT ![o] = "sent"]
  /\ UNCHANGED <<console, panel, owner, seen, usable, forsaken, grant>>

Acted(o) ==
  /\ kind[o] = "act"
  /\ Answered(o, "acting")
  /\ LoadNext(o)
  /\ UNCHANGED hints

Cancelled(o) ==
  /\ kind[o] = "cancel"
  /\ Answered(o, "acting")
  /\ hints' = hints \ {target[o]}
  /\ LoadNext(o)

\* The hint is stored and the browser sets out for the authorization server; the page
\* works until it is unloaded.
Leave(o) ==
  /\ kind[o] = "submit"
  /\ Answered(o, "acting")
  /\ usable
  /\ hints' = hints \cup {o}
  /\ busy' = FALSE
  /\ End(o)
  /\ UNCHANGED <<console, mounted, mounts, shown, offered, owner, wire, seen, usable, forsaken, grant>>

\* The answer to the present owner is not what it must be, or the storage refuses the
\* hint, which is longer than what it was tried with.
Refuse(o) ==
  /\ \/ Answered(o, "loading")
     \/ Answered(o, "acting") /\ kind[o] = "submit"
  /\ forsaken' = IF kind[o] = "submit" /\ usable THEN forsaken \cup {o} ELSE forsaken
  /\ busy' = FALSE
  /\ End(o)
  /\ UNCHANGED <<console, mounted, mounts, shown, offered, owner, wire, seen, hints, usable, grant>>

\* Every coroutine enables the buttons in the end.
FailEnabling(o) ==
  /\ UnderWay(o)
  /\ wire[o] = "sent" \/ ~Current(o)
  /\ busy' = FALSE
  /\ forsaken' = IF kind[o] = "submit" THEN forsaken \cup {o} ELSE forsaken
  /\ wire' = [wire EXCEPT ![o] = IF phase[o] = "acting" /\ kind[o] # "act" /\ @ = "sent" THEN @ ELSE "idle"]
  /\ End(o)
  /\ UNCHANGED <<console, mounted, mounts, shown, offered, owner, seen, hints, usable, grant>>

\* The end of a coroutine whose request was refused, lost or aborted, or whose owner
\* is not current any more: only a current owner enables the buttons again.  A request
\* to begin or to cancel an authorization may still be on its way.
Fail(o) ==
  /\ UnderWay(o)
  /\ wire[o] = "sent" \/ ~Current(o)
  /\ busy' = (busy /\ ~Current(o))
  /\ forsaken' = IF kind[o] = "submit" THEN forsaken \cup {o} ELSE forsaken
  /\ wire' = [wire EXCEPT ![o] = IF phase[o] = "acting" /\ kind[o] # "act" /\ @ = "sent" THEN @ ELSE "idle"]
  /\ End(o)
  /\ UNCHANGED <<console, mounted, mounts, shown, offered, owner, seen, hints, usable, grant>>

-------------------------------------------------------------------------------
Change == SwitchAgent \/ SwitchAccount

Click == Reload \/ Act \/ CancelPending \/ Submit

Server(o) ==
  ServerLists(o) \/ ServerActs(o) \/ ServerBegins(o) \/ ServerCancels(o) \/ ServerForgets(o) \/ ConsentReturns(o)

Settle(o) == Show(o) \/ Acted(o) \/ Cancelled(o) \/ Leave(o) \/ Refuse(o) \/ Fail(o)

Next ==
  \/ Change \/ Noticed \/ Dispose \/ Mount \/ Click
  \/ \E o \in Op : Server(o) \/ Settle(o)

Spec == Init /\ [][Next]_vars

\* Events are delivered, and every request is answered or fails; the server may fail
\* to handle it, and nobody has to click.
FairSpec == Spec /\ WF_vars(Noticed) /\ \A o \in Op : WF_vars(Settle(o))

-------------------------------------------------------------------------------
(* Properties *)

\* The cards show the connections of the selected agent and the signed-in account,
\* unless the event about a change has still to come: no answer to an earlier
\* request, however late, brings back what belongs to somebody else.
ShownIsOwn == notice \/ shown \subseteq {<<agent, account>>}

\* At most one operation of the present owner is under way: the late end of an
\* earlier one does not enable the buttons while another waits for its answer.
OneAtATime ==
  \A o, p \in Op : UnderWay(o) /\ UnderWay(p) /\ Current(o) /\ Current(p) => o = p

\* An authorization that the server keeps open can be cancelled from this tab: its
\* hint is stored until the server ended it, unless its beginning is still awaited;
\* was refused, lost or answered to somebody else; or was answered with what the panel
\* refuses, or with a hint too long for a storage that had taken the check.
NoOrphan ==
  \A o \in Op : grant[o] = "pending" => o \in hints \cup forsaken \/ UnderWay(o)

\* The panel becomes usable again, whatever happens to the request and its owner.
BusyEnds == busy ~> ~busy
===============================================================================
