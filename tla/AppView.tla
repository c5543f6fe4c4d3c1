------------------------------- MODULE AppView -------------------------------
(***************************************************************************)
(* One App part of a chat in the console: the mounted part with its two     *)
(* buttons (parent-entry.js), the view it opens (parent-view.js) over its   *)
(* transport (origin-transport.js), the proxy in the sandbox frame          *)
(* (sandbox-proxy.js, sandbox-entry.js), and the untrusted View inside it.  *)
(* The server's HTTP routes, the bridge of the Apps SDK and the browser are *)
(* external.                                                                *)
(*                                                                          *)
(* Frames post messages to each other, in order for each pair.  Everything  *)
(* else is a step of the page between two awaits: the requests, the end of  *)
(* the cleanup, the bus events of the console.  The View may follow the     *)
(* protocol or not.                                                         *)
(***************************************************************************)
EXTENDS Naturals, Sequences

CONSTANTS
  Call,        \* the tool calls a View may make
  MaxOpens,    \* bound on the times the part is opened
  MaxMisdeeds  \* bound on the Views' breaches of the protocol

ASSUME AppViewAssumption == MaxOpens \in Nat /\ MaxMisdeeds \in Nat

VARIABLES
  chat,      \* isCurrentChat()
  owed,      \* a bus event that closes the view is on its way
  entry,     \* the mounted part: listening, holds a view, awaits its disposal
  opens,     \* views opened so far; the last one is the current one
  page,      \* mountMCPApp: the opening coroutine, retirement, cleanup, greeting
  proxy,     \* the sandbox frame and startSandboxProxy in it
  app,       \* the View: how far it is, whether it kept to the protocol
  toHost, toProxy, fromView, toView,  \* posted messages
  calls,     \* tool calls of the current view
  served,    \* the server's side of each view
  lost,      \* (history) views whose opening request had no answer
  reported   \* (history) views whose cleanup was reported as unconfirmed

parent == <<chat, owed, entry, opens>>
channels == <<toHost, toProxy, fromView, toView>>
frame == <<proxy, app>>
server == <<served, lost, reported>>
vars == <<parent, page, frame, channels, calls, server>>

Opened == 1..MaxOpens

Entry == [mounted: BOOLEAN, view: BOOLEAN, closing: BOOLEAN]

Page == [opening: {"none", "requesting", "connecting", "open", "failed", "withdrawn"},
         retired: BOOLEAN, viewId: BOOLEAN,
         cleanup: {"none", "waiting", "deleting", "done", "failed"},
         offers: 0..2, answered: BOOLEAN, greeting: {"none", "input", "result", "ready"}]

Proxy == [frame: {"none", "blank", "loading", "running", "dead"},
          phase: {"empty", "loaded", "initializing", "responded", "initialized"},
          closed: {"no", "resource", "message", "navigation"}]

App == [at: {"none", "fresh", "asking", "answered", "confirmed"}, served: BOOLEAN,
        honest: BOOLEAN, misdeeds: 0..MaxMisdeeds]

Kind == {"proxy-ready", "resource-ready", "initialize", "malformed", "answer", "refusal", "initialized",
         "input", "result", "call", "reply", "error", "invalid", "oversize", "teardown"}

Message == [kind: Kind, of: SUBSET Call]

\* A view is held or being disposed of, never both; nothing is posted through a
\* bridge that is closed, or to a proxy that is.
TypeOK ==
  /\ chat \in BOOLEAN /\ owed \in BOOLEAN
  /\ entry \in Entry /\ opens \in 0..MaxOpens
  /\ page \in Page /\ proxy \in Proxy /\ app \in App
  /\ toHost \in Seq(Message) /\ toProxy \in Seq(Message)
  /\ fromView \in Seq(Message) /\ toView \in Seq(Message)
  /\ calls \in [Call -> {"idle", "sent", "requested", "answered"}]
  /\ served \in [Opened -> {"none", "refused", "open", "closed"}]
  /\ lost \subseteq Opened /\ reported \subseteq Opened
  /\ ~(entry.view /\ entry.closing)
  /\ page.retired => proxy.frame = "none" /\ <<toHost, toProxy, fromView, toView>> = <<<<>>, <<>>, <<>>, <<>>>>
  /\ proxy.closed # "no" => toProxy = <<>> /\ fromView = <<>> /\ toView = <<>>

-------------------------------------------------------------------------------
(* Messages *)

Plain(kind) == [kind |-> kind, of |-> {}]
About(kind, k) == [kind |-> kind, of |-> {k}]

NewPage == [opening |-> "requesting", retired |-> FALSE, viewId |-> FALSE, cleanup |-> "none",
            offers |-> 0, answered |-> FALSE, greeting |-> "none"]

NoPage == [NewPage EXCEPT !.opening = "none"]

NoProxy == [frame |-> "none", phase |-> "empty", closed |-> "no"]

\* The View's document, with the conduct of the views before it forgotten.
Document(at) == [app EXCEPT !.at = at, !.served = FALSE]

\* What is posted to a proxy that has removed its listener is lost.
PostToProxy(m) == toProxy' = IF proxy.closed = "no" THEN Append(toProxy, m) ELSE toProxy

Init ==
  /\ chat = TRUE /\ owed = FALSE
  /\ entry = [mounted |-> TRUE, view |-> FALSE, closing |-> FALSE]
  /\ opens = 0
  /\ page = NoPage
  /\ proxy = NoProxy
  /\ app = [at |-> "none", served |-> FALSE, honest |-> TRUE, misdeeds |-> 0]
  /\ toHost = <<>> /\ toProxy = <<>> /\ fromView = <<>> /\ toView = <<>>
  /\ calls = [k \in Call |-> "idle"]
  /\ served = [n \in Opened |-> "none"]
  /\ lost = {} /\ reported = {}

-------------------------------------------------------------------------------
(* Retirement of a view *)

\* dispose: once; closes the bridge, removes the frame with everything in it, and
\* leaves the cleanup waiting for the opening.
Disposed(p) == IF p.cleanup = "none" THEN [p EXCEPT !.retired = TRUE, !.cleanup = "waiting"] ELSE p

RemoveFrame ==
  /\ proxy' = NoProxy
  /\ app' = Document("none")
  /\ toHost' = <<>> /\ toProxy' = <<>> /\ fromView' = <<>> /\ toView' = <<>>

\* fail: an error of the bridge or of the opening.
Fail(p) ==
  /\ page' = Disposed(p)
  /\ RemoveFrame

\* close() of the mounted part gives the view up and awaits its disposal.
CloseView(mounted) ==
  /\ entry' = [mounted |-> mounted, view |-> FALSE, closing |-> entry.closing \/ entry.view]
  /\ IF entry.view THEN Fail(page) ELSE UNCHANGED <<page, frame, channels>>

-------------------------------------------------------------------------------
(* The mounted part *)

Open ==
  /\ entry.mounted /\ ~entry.view /\ ~entry.closing
  /\ chat
  /\ opens < MaxOpens
  /\ opens' = opens + 1
  /\ entry' = [entry EXCEPT !.view = TRUE]
  /\ page' = NewPage
  /\ proxy' = NoProxy
  /\ app' = [Document("none") EXCEPT !.honest = TRUE]
  /\ calls' = [k \in Call |-> "idle"]
  /\ UNCHANGED <<chat, owed, channels, server>>

\* The Close button, or an event of the bus that says nothing of the chat.
Close ==
  /\ entry.mounted /\ entry.view
  /\ CloseView(TRUE)
  /\ UNCHANGED <<chat, owed, opens, calls, server>>

\* agent:switch, session:change or auth:change after the user left the chat.
BusEvent ==
  /\ owed
  /\ owed' = FALSE
  /\ IF entry.mounted THEN CloseView(TRUE) ELSE UNCHANGED <<entry, page, frame, channels>>
  /\ UNCHANGED <<chat, opens, calls, server>>

Unmount ==
  /\ entry.mounted
  /\ CloseView(FALSE)
  /\ UNCHANGED <<chat, owed, opens, calls, server>>

\* The button is enabled by a cleanup that succeeds.
ClosingSucceeds ==
  /\ entry.closing
  /\ page.cleanup = "done"
  /\ entry' = [entry EXCEPT !.closing = FALSE]
  /\ UNCHANGED <<chat, owed, opens, page, frame, channels, calls, server>>

ClosingSettles ==
  /\ entry.closing
  /\ page.cleanup \in {"done", "failed"}
  /\ entry' = [entry EXCEPT !.closing = FALSE]
  /\ UNCHANGED <<chat, owed, opens, page, frame, channels, calls, server>>

LeaveChat ==
  /\ chat
  /\ chat' = FALSE
  /\ owed' = TRUE
  /\ UNCHANGED <<entry, opens, page, frame, channels, calls, server>>

ReturnToChat ==
  /\ ~chat
  /\ chat' = TRUE
  /\ UNCHANGED <<owed, entry, opens, page, frame, channels, calls, server>>

-------------------------------------------------------------------------------
(* The opening of a view, and its cleanup *)

\* The server handles the request; the view may end later without the page, by
\* expiry or by the retirement of its connection.
ServerOpens ==
  \E n \in Opened :
    /\ n \in lost \/ (n = opens /\ page.opening = "requesting")
    /\ served[n] = "none"
    /\ \E outcome \in {"open", "refused"} : served' = [served EXCEPT ![n] = outcome]
    /\ UNCHANGED <<parent, page, frame, channels, calls, lost, reported>>

ServerExpires ==
  \E n \in Opened :
    /\ served[n] = "open"
    /\ served' = [served EXCEPT ![n] = "closed"]
    /\ UNCHANGED <<parent, page, frame, channels, calls, lost, reported>>

\* The request fails, and the page cannot know whether the server opened a view.
OpeningLost ==
  /\ page.opening = "requesting"
  /\ lost' = IF served[opens] = "refused" THEN lost ELSE lost \cup {opens}
  /\ Fail([page EXCEPT !.opening = "failed"])
  /\ UNCHANGED <<parent, calls, served, reported>>

Acknowledged ==
  /\ page.opening = "requesting"
  /\ served[opens] \in {"open", "closed"}
  /\ UNCHANGED <<parent, calls, server>>

WithdrawOpening ==
  /\ Acknowledged
  /\ page.retired
  /\ page' = [page EXCEPT !.opening = "withdrawn", !.viewId = TRUE]
  /\ UNCHANGED <<frame, channels>>

StartBridge ==
  /\ Acknowledged
  /\ ~page.retired /\ chat
  /\ page' = [page EXCEPT !.opening = "connecting", !.viewId = TRUE]
  /\ proxy' = [NoProxy EXCEPT !.frame = "blank"]
  /\ UNCHANGED <<app, channels>>

\* The chat is gone, or an origin, a policy or a limit of the view is refused.
RefuseView ==
  /\ Acknowledged
  /\ ~page.retired
  /\ Fail([page EXCEPT !.opening = "failed", !.viewId = TRUE])

Navigate ==
  /\ page.opening = "connecting"
  /\ ~page.retired /\ chat
  /\ page' = [page EXCEPT !.opening = "open"]
  /\ proxy' = [proxy EXCEPT !.frame = "loading"]
  /\ UNCHANGED <<parent, app, channels, calls, server>>

NavigateTooLate ==
  /\ page.opening = "connecting"
  /\ page.retired \/ ~chat
  /\ Fail([page EXCEPT !.opening = "failed"])
  /\ UNCHANGED <<parent, calls, server>>

\* The cleanup does not wait for the opening.
OpeningAbandoned ==
  /\ page.cleanup = "waiting"
  /\ page' = [page EXCEPT !.cleanup = IF page.viewId THEN "deleting" ELSE "done"]
  /\ UNCHANGED <<parent, frame, channels, calls, server>>

\* openingSettled, then the DELETE of a view whose id is known.
OpeningSettled ==
  /\ page.cleanup = "waiting"
  /\ page.opening \in {"open", "failed", "withdrawn"}
  /\ page' = [page EXCEPT !.cleanup = IF page.viewId THEN "deleting" ELSE "done"]
  /\ UNCHANGED <<parent, frame, channels, calls, server>>

ServerCloses ==
  /\ page.cleanup = "deleting"
  /\ served[opens] = "open"
  /\ served' = [served EXCEPT ![opens] = "closed"]
  /\ UNCHANGED <<parent, page, frame, channels, calls, lost, reported>>

Deleted ==
  /\ page.cleanup = "deleting"
  /\ served[opens] = "closed"
  /\ page' = [page EXCEPT !.cleanup = "done", !.viewId = FALSE]
  /\ UNCHANGED <<parent, frame, channels, calls, server>>

DeleteFails ==
  /\ page.cleanup = "deleting"
  /\ page' = [page EXCEPT !.cleanup = "failed"]
  /\ reported' = reported \cup {opens}
  /\ UNCHANGED <<parent, frame, channels, calls, served, lost>>

-------------------------------------------------------------------------------
(* The handlers of the bridge *)

Listening == page.opening \in {"connecting", "open"} /\ ~page.retired

HostGets(kinds) ==
  /\ Listening
  /\ toHost # <<>>
  /\ Head(toHost).kind \in kinds

\* The bridge answers the message at the head of its queue.
HostReplies(m) ==
  /\ toHost' = Tail(toHost)
  /\ PostToProxy(m)
  /\ UNCHANGED <<fromView, toView>>

HostPosts(m) ==
  /\ PostToProxy(m)
  /\ UNCHANGED <<toHost, fromView, toView>>

HostIgnores ==
  /\ toHost' = Tail(toHost)
  /\ UNCHANGED <<page, frame, toProxy, fromView, toView>>

\* Every handler that finds the chat gone fails the view.
HostLeftChat ==
  /\ ~chat
  /\ \/ HostGets({"proxy-ready"})
     \/ HostGets({"initialized"}) /\ page.greeting = "none"
     \/ Listening /\ page.greeting \in {"input", "result"}
  /\ Fail(page)
  /\ UNCHANGED <<parent, calls, server>>

\* onsandboxready
OfferResource ==
  /\ HostGets({"proxy-ready"})
  /\ chat
  /\ page' = [page EXCEPT !.offers = @ + 1]
  /\ HostReplies(Plain("resource-ready"))
  /\ UNCHANGED <<parent, frame, calls, server>>

AnswerInitialize ==
  /\ HostGets({"initialize", "malformed"})
  /\ IF Head(toHost).kind = "initialize"
     THEN page' = [page EXCEPT !.answered = TRUE] /\ HostReplies(Plain("answer"))
     ELSE UNCHANGED page /\ HostReplies(Plain("refusal"))
  /\ UNCHANGED <<parent, frame, calls, server>>

\* oninitialized, once.
SendInput ==
  /\ HostGets({"initialized"})
  /\ page.greeting = "none" /\ chat
  /\ page' = [page EXCEPT !.greeting = "input"]
  /\ HostReplies(Plain("input"))
  /\ UNCHANGED <<parent, frame, calls, server>>

SendResult ==
  /\ Listening
  /\ page.greeting = "input" /\ chat
  /\ page' = [page EXCEPT !.greeting = "result"]
  /\ HostPosts(Plain("result"))
  /\ UNCHANGED <<parent, frame, calls, server>>

AppReady ==
  /\ Listening
  /\ page.greeting = "result" /\ chat
  /\ page' = [page EXCEPT !.greeting = "ready"]
  /\ UNCHANGED <<parent, frame, channels, calls, server>>

\* oncalltool and tools/list
RequestTool ==
  /\ HostGets({"call"})
  /\ \E k \in Head(toHost).of :
       IF chat
       THEN /\ calls' = [calls EXCEPT ![k] = "requested"]
            /\ HostIgnores
       ELSE /\ calls' = [calls EXCEPT ![k] = "answered"]
            /\ HostReplies(About("error", k))
            /\ UNCHANGED <<page, frame>>
  /\ UNCHANGED <<parent, server>>

\* The chat is not looked at again after the request.
ToolAnsweredAnywhere ==
  \E k \in Call, answer \in {"reply", "error"} :
    /\ Listening
    /\ calls[k] = "requested"
    /\ calls' = [calls EXCEPT ![k] = "answered"]
    /\ HostPosts(About(answer, k))
    /\ UNCHANGED <<parent, page, frame, server>>

ToolAnswered ==
  \E k \in Call, answer \in {"reply", "error"} :
    /\ Listening
    /\ calls[k] = "requested"
    /\ answer = "reply" => chat
    /\ calls' = [calls EXCEPT ![k] = "answered"]
    /\ HostPosts(About(answer, k))
    /\ UNCHANGED <<parent, page, frame, server>>

\* A message exceeds the transport's limit: one of the View, or one of the page's own.
TransportRefuses ==
  /\ \/ HostGets({"oversize", "proxy-ready"})
     \/ HostGets({"initialized"}) /\ page.greeting = "none"
     \/ Listening /\ (page.greeting = "input" \/ \E k \in Call : calls[k] = "requested")
  /\ Fail(page)
  /\ UNCHANGED <<parent, calls, server>>

\* A second confirmation, and a request for teardown, which has no handler.
HostDrops ==
  /\ HostGets({"teardown"}) \/ (HostGets({"initialized"}) /\ page.greeting # "none")
  /\ HostIgnores
  /\ UNCHANGED <<parent, calls, server>>

-------------------------------------------------------------------------------
(* The proxy in the sandbox frame *)

Running == proxy.frame = "running" /\ proxy.closed = "no"

ProxyStarts ==
  /\ proxy.frame = "loading"
  /\ proxy' = [proxy EXCEPT !.frame = "running"]
  /\ toHost' = Append(toHost, Plain("proxy-ready"))
  /\ UNCHANGED <<parent, page, app, toProxy, fromView, toView, calls, server>>

\* The frame cannot load, or its configuration is refused; nothing is posted.
ProxyDead ==
  /\ proxy.frame = "loading"
  /\ proxy' = [proxy EXCEPT !.frame = "dead"]
  /\ UNCHANGED <<parent, page, app, channels, calls, server>>

\* What the frame's error handler posts.
Teardown == Plain("teardown")

\* dispose and onerror: the listener and the View go, and a teardown is requested.
Seal(why) ==
  /\ proxy' = [proxy EXCEPT !.closed = why]
  /\ app' = [app EXCEPT !.at = "none"]
  /\ toHost' = Append(toHost, Teardown)
  /\ toProxy' = <<>> /\ fromView' = <<>> /\ toView' = <<>>

\* The proxy grants the resource its View, or finds it too large or its policy refused.
LoadResource ==
  IF proxy.phase # "empty" THEN Seal("message")
  ELSE \/ Seal("resource")
       \/ /\ proxy' = [proxy EXCEPT !.phase = "loaded"]
          /\ app' = Document("fresh")
          /\ toProxy' = Tail(toProxy)
          /\ UNCHANGED <<toHost, fromView, toView>>

\* The answer is forwarded, and the View's confirmation is not expected yet.
ViewPhaseKept(m) ==
  CASE proxy.phase = "initialized" -> "initialized"
    [] proxy.phase = "initializing" /\ m.kind = "answer" -> "initializing"
    [] OTHER -> "refused"

\* The phase a message of the host leads to; none when it may not be forwarded.
ViewPhase(m) ==
  CASE proxy.phase = "initialized" -> "initialized"
    [] proxy.phase = "initializing" /\ m.kind = "answer" -> "responded"
    [] OTHER -> "refused"

FromHost ==
  /\ Running
  /\ toProxy # <<>>
  /\ LET m == Head(toProxy) IN
       IF m.kind = "resource-ready" THEN LoadResource
       ELSE IF ViewPhase(m) = "refused" THEN Seal("message")
       ELSE /\ proxy' = [proxy EXCEPT !.phase = ViewPhase(m)]
            /\ toProxy' = Tail(toProxy)
            /\ toView' = Append(toView, m)
            /\ UNCHANGED <<app, toHost, fromView>>
  /\ UNCHANGED <<parent, page, calls, server>>

\* What the View sends after its first message is forwarded in every phase.
HostPhaseOnce(m) ==
  CASE m.kind = "invalid" -> "refused"
    [] proxy.phase = "initialized" -> "initialized"
    [] proxy.phase = "loaded" /\ m.kind \in {"initialize", "malformed"} -> "initializing"
    [] proxy.phase = "responded" /\ m.kind = "initialized" -> "initialized"
    [] proxy.phase \in {"initializing", "responded"} -> proxy.phase
    [] OTHER -> "refused"

\* The phase a message of the View leads to; none when it breaks the protocol.
HostPhase(m) ==
  CASE m.kind = "invalid" -> "refused"
    [] proxy.phase = "initialized" -> "initialized"
    [] proxy.phase = "loaded" /\ m.kind \in {"initialize", "malformed"} -> "initializing"
    [] proxy.phase = "responded" /\ m.kind = "initialized" -> "initialized"
    [] OTHER -> "refused"

\* A View's message is forwarded whatever its name is.
NeverReserved(m) == m.kind = "resource-ready"

\* The messages of the proxy itself are reserved: sent by a View they are dropped.
Reserved(m) == m.kind \in {"proxy-ready", "resource-ready"}

\* A message that completes the initialization is consumed by the proxy.
FromViewSwallowed ==
  /\ Running
  /\ fromView # <<>>
  /\ LET m == Head(fromView) IN
       IF Reserved(m)
       THEN /\ fromView' = Tail(fromView)
            /\ UNCHANGED <<proxy, app, toHost, toProxy, toView>>
       ELSE IF HostPhase(m) = "refused" THEN Seal("message")
       ELSE /\ proxy' = [proxy EXCEPT !.phase = HostPhase(m)]
            /\ fromView' = Tail(fromView)
            /\ toHost' = IF proxy.phase = "responded" THEN toHost ELSE Append(toHost, m)
            /\ UNCHANGED <<app, toProxy, toView>>
  /\ UNCHANGED <<parent, page, calls, server>>

FromView ==
  /\ Running
  /\ fromView # <<>>
  /\ LET m == Head(fromView) IN
       IF Reserved(m)
       THEN /\ fromView' = Tail(fromView)
            /\ UNCHANGED <<proxy, app, toHost, toProxy, toView>>
       ELSE IF HostPhase(m) = "refused" THEN Seal("message")
       ELSE /\ proxy' = [proxy EXCEPT !.phase = HostPhase(m)]
            /\ fromView' = Tail(fromView)
            /\ toHost' = Append(toHost, m)
            /\ UNCHANGED <<app, toProxy, toView>>
  /\ UNCHANGED <<parent, page, calls, server>>

-------------------------------------------------------------------------------
(* The View *)

AppPosts(m) ==
  /\ fromView' = Append(fromView, m)
  /\ UNCHANGED <<parent, page, proxy, toHost, toProxy, toView, server>>

AppAsks ==
  /\ app.at = "fresh"
  /\ app' = [app EXCEPT !.at = "asking"]
  /\ AppPosts(Plain("initialize"))
  /\ UNCHANGED calls

AppConfirms ==
  /\ app.at = "answered"
  /\ app' = [app EXCEPT !.at = "confirmed"]
  /\ AppPosts(Plain("initialized"))
  /\ UNCHANGED calls

AppCalls ==
  \E k \in Call :
    /\ app.at = "confirmed"
    /\ calls[k] = "idle"
    /\ calls' = [calls EXCEPT ![k] = "sent"]
    /\ AppPosts(About("call", k))
    /\ UNCHANGED app

Private == {"resource-ready", "input", "result", "reply"}

AppHears ==
  /\ app.at # "none"
  /\ toView # <<>>
  /\ toView' = Tail(toView)
  /\ LET heard == Head(toView).kind IN
       app' = [app EXCEPT !.at = IF heard = "answer" /\ @ = "asking" THEN "answered" ELSE @,
                          !.served = @ \/ heard \in Private]
  /\ UNCHANGED <<parent, page, proxy, toHost, toProxy, fromView, calls, server>>

\* A View that breaks the protocol: it sends what it should not, or navigates.
Misbehaves ==
  /\ app.at # "none"
  /\ app.misdeeds < MaxMisdeeds
  /\ \/ \E kind \in {"initialize", "malformed", "initialized", "proxy-ready", "invalid", "oversize"} :
          /\ AppPosts(Plain(kind))
          /\ app' = [app EXCEPT !.honest = FALSE, !.misdeeds = @ + 1]
          /\ UNCHANGED calls
     \/ \E k \in Call :
          /\ calls[k] = "idle"
          /\ calls' = [calls EXCEPT ![k] = "sent"]
          /\ AppPosts(About("call", k))
          /\ app' = [app EXCEPT !.honest = FALSE, !.misdeeds = @ + 1]
     \/ /\ proxy' = [proxy EXCEPT !.closed = "navigation"]
        /\ app' = [app EXCEPT !.at = "none", !.honest = FALSE, !.misdeeds = @ + 1]
        /\ toHost' = Append(toHost, Teardown)
        /\ toProxy' = <<>> /\ fromView' = <<>> /\ toView' = <<>>
        /\ UNCHANGED <<parent, page, calls, server>>

-------------------------------------------------------------------------------
EntryStep == Open \/ Close \/ Unmount \/ ClosingSettles

OpeningStep ==
  \/ OpeningLost \/ WithdrawOpening \/ StartBridge \/ RefuseView \/ Navigate \/ NavigateTooLate
  \/ OpeningSettled \/ Deleted \/ DeleteFails

BridgeStep ==
  \/ HostLeftChat \/ OfferResource \/ AnswerInitialize \/ SendInput \/ SendResult \/ AppReady
  \/ RequestTool \/ ToolAnswered \/ TransportRefuses \/ HostDrops

ProxyStep == ProxyStarts \/ ProxyDead \/ FromHost \/ FromView

ServerStep == ServerOpens \/ ServerCloses

HonestStep == AppAsks \/ AppConfirms \/ AppHears

Next ==
  \/ LeaveChat \/ ReturnToChat \/ BusEvent
  \/ EntryStep \/ OpeningStep \/ BridgeStep \/ ProxyStep
  \/ ServerStep \/ ServerExpires
  \/ HonestStep \/ AppCalls \/ Misbehaves

Spec == Init /\ [][Next]_vars

\* Events of the bus are delivered, requests are answered or fail, posted messages
\* are handled, and a View that asked and was answered goes on.  Nobody has to open
\* or close a view, to leave the chat, to call a tool or to break the protocol.
FairSpec ==
  /\ Spec
  /\ WF_vars(BusEvent) /\ WF_vars(ClosingSettles)
  /\ WF_vars(OpeningStep) /\ WF_vars(BridgeStep) /\ WF_vars(ProxyStep)
  /\ WF_vars(ServerStep) /\ WF_vars(HonestStep)

-------------------------------------------------------------------------------
(* Properties *)

\* The page offers the private resource once per view: whatever a View sends, and
\* however it races, no second document takes the place of the first.
OffersOnce == page.offers <= 1

\* A View that keeps to the protocol is never cut off by the proxy: no order of its
\* messages and the page's own trips the checks of the initialization.
HonestNeverEnded == proxy.closed = "message" => ~app.honest

\* No server view is forgotten: one that is still open when its page is done with
\* it had its opening request lost, or its failed cleanup was reported to the user,
\* even when the opening is acknowledged after the page was closed.
Released ==
  \A n \in Opened :
    served[n] = "open" /\ (n < opens \/ page.cleanup \in {"done", "failed"}) => n \in lost \cup reported

\* Private data leaves the page only while its chat is the current one, although
\* every answer is awaited and the chat may change meanwhile.
PrivateStaysInChat ==
  [][Len(toProxy') > Len(toProxy) /\ toProxy'[Len(toProxy')].kind \in Private => chat]_vars

\* The session as its two ends may rely on it, with the four channels and the proxy
\* between them gone: what the page has done, what the View has reached, and whether
\* it is there.
Serving == page.greeting # "none" \/ \E k \in Call : calls[k] \in {"requested", "answered"}

SessionHost ==
  IF page.opening = "none" \/ page.retired THEN "over"
  ELSE IF Serving THEN "serving"
  ELSE IF page.answered THEN "answered"
  ELSE IF page.offers > 0 THEN "offered" ELSE "idle"

SessionGuest ==
  IF app.served THEN "served"
  ELSE CASE proxy.phase = "empty" -> "absent"
         [] proxy.phase = "loaded" -> "loaded"
         [] proxy.phase = "initializing" -> "asked"
         [] proxy.phase = "responded" -> "told"
         [] OTHER -> "confirmed"

SessionHere == page.opening # "none" /\ ~page.retired /\ proxy.closed = "no"

Session == INSTANCE AppSession WITH
  host <- SessionHost, guest <- SessionGuest, here <- SessionHere

\* The protocol of the page, the proxy and any View implements that session: the
\* result and the tools are served only to a View that asked, was answered and
\* confirmed, in that order.
ImplementsSession == Session!Spec

\* An opened App starts: its View has the result, unless the view was closed, the
\* sandbox failed to load or refused the resource, or the View broke the protocol.
AppStarts ==
  page.opening = "requesting" ~>
    page.greeting = "ready" \/ page.retired \/ proxy.frame = "dead" \/ proxy.closed # "no" \/ ~app.honest

\* After an event that closes the view the part can be opened again: its cleanup
\* settles whatever state the opening was in.
ButtonReturns == owed /\ entry.mounted ~> ~entry.view /\ ~entry.closing
===============================================================================
