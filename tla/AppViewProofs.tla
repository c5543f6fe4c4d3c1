----------------------------- MODULE AppViewProofs -----------------------------
(* The session that AppSession promises, the privacy of the chat, the        *)
(* release of server views and that an honest View is never ended, for any   *)
(* number of openings, tool calls and breaches of the protocol; and, from    *)
(* AppExecution, what the server's side of an App promises to its calls.     *)
EXTENDS AppView, AppExecution, Functions, TLAPS

USE AppViewAssumption
-----------------------------------------------------------------------------
(* The inductive invariant.                                                  *)

Late == {"initializing", "responded", "initialized"}

\* There is no View without a running frame, and nothing is posted around it.
FrameInv ==
  /\ proxy.frame # "running" =>
       /\ proxy.phase = "empty" /\ proxy.closed = "no"
       /\ app.at = "none" /\ ~app.served
       /\ toHost = <<>> /\ toProxy = <<>> /\ fromView = <<>> /\ toView = <<>>
  /\ app.at # "none" => proxy.closed = "no"
  /\ page.opening \in {"none", "requesting"} => proxy.frame = "none"
  /\ page.opening = "connecting" /\ ~page.retired => proxy.frame = "blank"

\* A frame announces itself once, and the resource is offered for that.
OfferInv ==
  /\ page.offers <= 1
  /\ page.offers = 0 \/ page.retired \/ proxy.frame = "running"
  /\ toHost # <<>> /\ Head(toHost).kind = "proxy-ready" => page.offers = 0
  /\ \A i \in 2..Len(toHost) : toHost[i].kind # "proxy-ready"

\* How far the page, the proxy and the View are of each other.
StageInv ==
  ~page.retired =>
    /\ page.answered => proxy.phase \in Late
    /\ proxy.phase \in {"responded", "initialized"} => page.answered
    /\ proxy.phase # "empty" => page.offers > 0
    /\ Serving => proxy.phase = "initialized"
    /\ app.served => Serving

\* What each message that is under way says of that.
MessageInv ==
  /\ \A m \in Range(toHost) :
       \/ m.kind \in {"proxy-ready", "teardown"}
       \/ m.kind \in {"initialize", "malformed"} /\ proxy.phase \in Late
       \/ proxy.phase = "initialized"
  /\ \A m \in Range(toProxy) :
       /\ m.kind = "resource-ready" => page.offers > 0
       /\ m.kind = "answer" => page.answered
       /\ m.kind \in {"input", "result", "reply"} => Serving
  /\ \A m \in Range(toView) :
       /\ m.kind # "resource-ready"
       /\ m.kind \in {"input", "result", "reply"} => Serving

\* What the page knows of its server view, and how far its cleanup is.
ReleaseInv ==
  /\ opens = 0 <=> page.opening = "none"
  /\ page.opening \in {"none", "requesting"} => ~page.viewId
  /\ page.opening = "connecting" => page.viewId
  /\ page.viewId => served[opens] \in {"open", "closed"}
  /\ page.opening \notin {"none", "requesting"} /\ ~page.viewId =>
       opens \in lost \/ served[opens] \in {"refused", "closed"}
  /\ page.retired <=> page.cleanup # "none"
  /\ page.cleanup \in {"deleting", "done", "failed"} => page.opening \in {"open", "failed", "withdrawn"}
  /\ page.cleanup = "done" => ~page.viewId
  /\ page.cleanup = "failed" => opens \in reported
  /\ ~entry.view /\ ~entry.closing => opens = 0 \/ page.cleanup \in {"done", "failed"}
  /\ lost \subseteq 1..opens
  /\ \A n \in Opened : n > opens => served[n] = "none"
  /\ \A n \in Opened : n < opens /\ served[n] = "open" => n \in lost \cup reported

IInv == TypeOK /\ FrameInv /\ OfferInv /\ StageInv /\ MessageInv /\ ReleaseInv
-----------------------------------------------------------------------------
(* Records and queues.                                                       *)

\* The records that the parts start from.
LEMMA RecordsTyped == NewPage \in Page /\ NoPage \in Page /\ NoProxy \in Proxy
<1>1. NewPage \in Page
  BY DEF NewPage, Page
<1>2. NoPage \in Page
  BY <1>1 DEF NoPage, Page
<1>3. NoProxy \in Proxy
  BY DEF NoProxy, Proxy
<1> QED
  BY <1>1, <1>2, <1>3

\* Every message that is built is one.
LEMMA MessagesTyped ==
  /\ \A kind \in Kind : Plain(kind) \in Message /\ Plain(kind).kind = kind
  /\ \A kind \in Kind, k \in Call : About(kind, k) \in Message /\ About(kind, k).kind = kind
BY DEF Plain, About, Message

\* What a queue holds after a message is posted or taken.
LEMMA PostedFacts ==
  ASSUME NEW q \in Seq(Message)
  PROVE  /\ Range(q) \subseteq Message
         /\ \A m \in Message : Append(q, m) \in Seq(Message) /\ Range(Append(q, m)) = Range(q) \cup {m}
         /\ q # <<>> => /\ Head(q) \in Message /\ Head(q) \in Range(q)
                        /\ Tail(q) \in Seq(Message) /\ Range(Tail(q)) \subseteq Range(q)
<1>1. Range(q) \subseteq Message
  BY DEF Range
<1>2. ASSUME NEW m \in Message
      PROVE  Append(q, m) \in Seq(Message) /\ Range(Append(q, m)) = Range(q) \cup {m}
  <2>1. /\ Append(q, m) \in Seq(Message) /\ Len(Append(q, m)) = Len(q) + 1
        /\ Append(q, m)[Len(q) + 1] = m
        /\ \A i \in 1..Len(q) : Append(q, m)[i] = q[i]
    OBVIOUS
  <2>2. Len(q) \in Nat /\ DOMAIN q = 1..Len(q) /\ DOMAIN Append(q, m) = 1..(Len(q) + 1)
    BY <2>1
  <2>3. Range(Append(q, m)) \subseteq Range(q) \cup {m}
    BY <2>1, <2>2 DEF Range
  <2>4. Range(q) \cup {m} \subseteq Range(Append(q, m))
    BY <2>1, <2>2 DEF Range
  <2> QED
    BY <2>1, <2>3, <2>4
<1>3. ASSUME q # <<>>
      PROVE  /\ Head(q) \in Message /\ Head(q) \in Range(q)
             /\ Tail(q) \in Seq(Message) /\ Range(Tail(q)) \subseteq Range(q)
  <2>1. Len(q) \in Nat \ {0} /\ Head(q) = q[1] /\ DOMAIN q = 1..Len(q)
    BY <1>3
  <2>2. Head(q) \in Message /\ Head(q) \in Range(q)
    BY <2>1 DEF Range
  <2>3. /\ Tail(q) \in Seq(Message) /\ Len(Tail(q)) = Len(q) - 1
        /\ \A i \in 1..(Len(q) - 1) : Tail(q)[i] = q[i + 1]
    BY <1>3
  <2>4. Range(Tail(q)) \subseteq Range(q)
    BY <2>1, <2>3 DEF Range
  <2> QED
    BY <2>2, <2>3, <2>4
<1> QED
  BY <1>1, <1>2, <1>3

\* An empty queue.
LEMMA NothingPosted == <<>> \in Seq(Message) /\ Range(<<>>) = {}
BY DEF Range

\* An announcement that only comes first is not found again behind it.
LEMMA FrontFacts ==
  ASSUME NEW q \in Seq(Message), \A i \in 2..Len(q) : q[i].kind # "proxy-ready"
  PROVE  /\ q # <<>> => /\ Tail(q) # <<>> => Head(Tail(q)).kind # "proxy-ready"
                        /\ \A i \in 2..Len(Tail(q)) : Tail(q)[i].kind # "proxy-ready"
         /\ \A m \in Message : q = <<>> \/ m.kind # "proxy-ready" =>
              /\ Head(Append(q, m)) = IF q = <<>> THEN m ELSE Head(q)
              /\ \A i \in 2..Len(Append(q, m)) : Append(q, m)[i].kind # "proxy-ready"
<1>1. ASSUME q # <<>>
      PROVE  /\ Tail(q) # <<>> => Head(Tail(q)).kind # "proxy-ready"
             /\ \A i \in 2..Len(Tail(q)) : Tail(q)[i].kind # "proxy-ready"
  <2>1. /\ Tail(q) \in Seq(Message) /\ Len(Tail(q)) = Len(q) - 1 /\ Len(q) \in Nat \ {0}
        /\ \A i \in 1..(Len(q) - 1) : Tail(q)[i] = q[i + 1]
    BY <1>1
  <2>2. Tail(q) # <<>> => Head(Tail(q)) = q[2] /\ 2 \in 2..Len(q)
    BY <2>1
  <2> QED
    BY <2>1, <2>2
<1>2. ASSUME NEW m \in Message, q = <<>> \/ m.kind # "proxy-ready"
      PROVE  /\ Head(Append(q, m)) = IF q = <<>> THEN m ELSE Head(q)
             /\ \A i \in 2..Len(Append(q, m)) : Append(q, m)[i].kind # "proxy-ready"
  <2>1. /\ Len(Append(q, m)) = Len(q) + 1 /\ Len(q) \in Nat
        /\ Append(q, m)[Len(q) + 1] = m
        /\ \A i \in 1..Len(q) : Append(q, m)[i] = q[i]
    OBVIOUS
  <2>2. Head(Append(q, m)) = IF q = <<>> THEN m ELSE Head(q)
    OBVIOUS
  <2>3. ASSUME NEW i \in 2..Len(Append(q, m)) PROVE Append(q, m)[i].kind # "proxy-ready"
    <3>1. CASE i <= Len(q)
      BY <2>1, <3>1
    <3>2. CASE i = Len(q) + 1
      BY <1>2, <2>1, <3>2
    <3> QED
      BY <2>1, <3>1, <3>2
  <2> QED
    BY <2>2, <2>3
<1> QED
  BY <1>1, <1>2

\* A retired view has neither a frame nor messages, whatever the opening was doing.
LEMMA FailFacts ==
  ASSUME TypeOK, NEW p \in Page, p.offers <= 1, p.retired <=> p.cleanup # "none", Fail(p)
  PROVE  /\ page' \in Page /\ page'.retired
         /\ page'.opening = p.opening /\ page'.viewId = p.viewId
         /\ page'.cleanup = IF p.cleanup = "none" THEN "waiting" ELSE p.cleanup
         /\ proxy' \in Proxy /\ app' \in App
         /\ proxy'.frame = "none" /\ proxy'.closed = "no"
         /\ toHost' = <<>> /\ toProxy' = <<>> /\ fromView' = <<>> /\ toView' = <<>>
         /\ FrameInv' /\ OfferInv' /\ StageInv' /\ MessageInv'
<1>1. page' = Disposed(p) /\ RemoveFrame
  BY DEF Fail
<1>2. /\ page' \in Page /\ page'.retired /\ page'.offers <= 1
      /\ page'.opening = p.opening /\ page'.viewId = p.viewId
      /\ page'.cleanup = IF p.cleanup = "none" THEN "waiting" ELSE p.cleanup
  BY <1>1 DEF Disposed, Page
<1>3. proxy' \in Proxy /\ proxy' = NoProxy
  BY <1>1, RecordsTyped DEF RemoveFrame
<1>4. app' \in App /\ app'.at = "none" /\ ~app'.served
  BY <1>1 DEF RemoveFrame, Document, TypeOK, App
<1>5. toHost' = <<>> /\ toProxy' = <<>> /\ fromView' = <<>> /\ toView' = <<>>
  BY <1>1 DEF RemoveFrame
<1>6. FrameInv'
  BY <1>2, <1>3, <1>4, <1>5 DEF FrameInv, NoProxy
<1>7. OfferInv'
  BY <1>2, <1>5 DEF OfferInv
<1>8. StageInv'
  BY <1>2 DEF StageInv
<1>9. MessageInv'
  BY <1>5, NothingPosted DEF MessageInv
<1> QED
  BY <1>2, <1>3, <1>4, <1>5, <1>6, <1>7, <1>8, <1>9 DEF NoProxy

\* What is released does not depend on the frames and the messages.
LEMMA ReleaseKept ==
  ASSUME ReleaseInv, UNCHANGED <<entry, opens, served, lost, reported>>,
         page'.opening = page.opening, page'.viewId = page.viewId,
         page'.retired = page.retired, page'.cleanup = page.cleanup
  PROVE  ReleaseInv'
BY DEF ReleaseInv

\* Nothing is said of a view that is not opened, refused or ended by its server.
LEMMA FramesKept ==
  ASSUME FrameInv, OfferInv, StageInv, MessageInv,
         UNCHANGED <<page, frame, channels, calls>>
  PROVE  FrameInv' /\ OfferInv' /\ StageInv' /\ MessageInv'
BY DEF frame, channels, FrameInv, OfferInv, StageInv, MessageInv, Serving

\* A message is taken from the queue of the page.
LEMMA TakeFacts ==
  ASSUME TypeOK, OfferInv, toHost # <<>>, toHost' = Tail(toHost)
  PROVE  /\ Head(toHost) \in Message /\ Head(toHost) \in Range(toHost)
         /\ toHost' \in Seq(Message) /\ Range(toHost') \subseteq Range(toHost)
         /\ toHost' # <<>> => Head(toHost').kind # "proxy-ready"
         /\ \A i \in 2..Len(toHost') : toHost'[i].kind # "proxy-ready"
<1>1. toHost \in Seq(Message) /\ \A i \in 2..Len(toHost) : toHost[i].kind # "proxy-ready"
  BY DEF TypeOK, OfferInv
<1> QED
  BY <1>1, PostedFacts, FrontFacts

\* A message is put into the queue of the page, behind the announcement.
LEMMA PutFacts ==
  ASSUME TypeOK, OfferInv, NEW m \in Message, m.kind # "proxy-ready", toHost' = Append(toHost, m)
  PROVE  /\ toHost' \in Seq(Message) /\ Range(toHost') = Range(toHost) \cup {m}
         /\ toHost' # <<>> /\ Head(toHost').kind = "proxy-ready" => page.offers = 0
         /\ \A i \in 2..Len(toHost') : toHost'[i].kind # "proxy-ready"
<1>1. toHost \in Seq(Message) /\ \A i \in 2..Len(toHost) : toHost[i].kind # "proxy-ready"
  BY DEF TypeOK, OfferInv
<1>2. /\ toHost' \in Seq(Message) /\ Range(toHost') = Range(toHost) \cup {m}
      /\ Head(toHost') = IF toHost = <<>> THEN m ELSE Head(toHost)
      /\ \A i \in 2..Len(toHost') : toHost'[i].kind # "proxy-ready"
  BY <1>1, PostedFacts, FrontFacts
<1> QED
  BY <1>2 DEF OfferInv

\* A message of the page reaches a proxy that listens, and no other.
LEMMA PostFacts ==
  ASSUME TypeOK, NEW m \in Message, PostToProxy(m)
  PROVE  /\ toProxy' \in Seq(Message) /\ Range(toProxy') \subseteq Range(toProxy) \cup {m}
         /\ proxy.closed # "no" => toProxy' = toProxy
BY PostedFacts DEF PostToProxy, TypeOK

\* A proxy that ends its View has its frame still, and its page learns nothing new.
LEMMA SealIInv ==
  ASSUME IInv, NEW why \in {"resource", "message", "navigation"}, proxy.frame = "running",
         proxy' = [proxy EXCEPT !.closed = why], toHost' = Append(toHost, Teardown),
         app' \in App, app'.at = "none", app'.served = app.served,
         toProxy' = <<>>, fromView' = <<>>, toView' = <<>>, UNCHANGED <<parent, page, calls, server>>
  PROVE  IInv'
<1>1. TypeOK /\ FrameInv /\ OfferInv /\ StageInv /\ MessageInv /\ ReleaseInv
  BY DEF IInv
<1>2. proxy' \in Proxy /\ proxy'.frame = "running" /\ proxy'.phase = proxy.phase
  BY <1>1 DEF TypeOK, Proxy
<1>3. Teardown \in Message /\ Teardown.kind = "teardown"
  BY MessagesTyped DEF Teardown, Kind
<1>4. /\ toHost' \in Seq(Message) /\ Range(toHost') = Range(toHost) \cup {Teardown}
      /\ toHost' # <<>> /\ Head(toHost').kind = "proxy-ready" => page.offers = 0
      /\ \A i \in 2..Len(toHost') : toHost'[i].kind # "proxy-ready"
  BY <1>1, <1>3, PutFacts
<1>5. TypeOK'
  BY <1>1, <1>2, <1>4, NothingPosted DEF TypeOK, parent, server
<1>6. FrameInv'
  BY <1>1, <1>2 DEF FrameInv
<1>7. OfferInv'
  BY <1>1, <1>2, <1>4 DEF OfferInv
<1>8. StageInv'
  BY <1>1, <1>2 DEF StageInv, Serving
<1>9. MessageInv'
  BY <1>1, <1>2, <1>3, <1>4, NothingPosted DEF MessageInv, Serving
<1>10. ReleaseInv'
  BY <1>1, ReleaseKept DEF parent, server
<1> QED
  BY <1>5, <1>6, <1>7, <1>8, <1>9, <1>10 DEF IInv

\* A View may post what it likes: the invariant does not depend on it.
LEMMA AppPostsIInv ==
  ASSUME IInv, NEW m \in Message, AppPosts(m), app.at # "none", app' \in App, app'.served = app.served,
         calls' \in [Call -> {"idle", "sent", "requested", "answered"}], Serving' = Serving
  PROVE  IInv'
<1>1. TypeOK /\ FrameInv /\ OfferInv /\ StageInv /\ MessageInv /\ ReleaseInv
  BY DEF IInv
<1>2. fromView' \in Seq(Message) /\ UNCHANGED <<parent, page, proxy, toHost, toProxy, toView, server>>
  BY <1>1, PostedFacts DEF AppPosts, TypeOK
<1>3. proxy.frame = "running" /\ proxy.closed = "no"
  BY <1>1 DEF FrameInv
<1>4. TypeOK'
  BY <1>1, <1>2, <1>3 DEF TypeOK, parent, server
<1>5. FrameInv'
  BY <1>1, <1>2, <1>3 DEF FrameInv
<1>6. OfferInv'
  BY <1>1, <1>2 DEF OfferInv
<1>7. StageInv'
  BY <1>1, <1>2 DEF StageInv
<1>8. MessageInv'
  BY <1>1, <1>2 DEF MessageInv
<1>9. ReleaseInv'
  BY <1>1, <1>2, ReleaseKept DEF parent, server
<1> QED
  BY <1>4, <1>5, <1>6, <1>7, <1>8, <1>9 DEF IInv

\* A step of the bridge: it takes the message at the head of its queue or none, and
\* posts one message or none that says what the page has done.
LEMMA BridgeIInv ==
  ASSUME IInv, Listening, proxy.frame = "running", NEW m \in Message,
         UNCHANGED <<parent, frame, fromView, toView, server>>,
         toHost' = toHost \/ (toHost # <<>> /\ toHost' = Tail(toHost)),
         toProxy' = toProxy \/ PostToProxy(m),
         page' \in Page, page'.opening = page.opening, page'.viewId = page.viewId,
         page'.retired = page.retired, page'.cleanup = page.cleanup,
         \/ page'.offers = page.offers
         \/ /\ page.offers = 0 /\ page'.offers = 1
            /\ toHost # <<>> /\ Head(toHost).kind = "proxy-ready" /\ toHost' = Tail(toHost),
         page.answered => page'.answered,
         page'.answered => page.answered \/ proxy.phase \in Late,
         calls' \in [Call -> {"idle", "sent", "requested", "answered"}],
         Serving => Serving', Serving' => proxy.phase = "initialized",
         m.kind = "resource-ready" => page'.offers > 0,
         m.kind = "answer" => page'.answered,
         m.kind \in {"input", "result", "reply"} => Serving'
  PROVE  IInv'
<1>1. TypeOK /\ FrameInv /\ OfferInv /\ StageInv /\ MessageInv /\ ReleaseInv
  BY DEF IInv
<1>2. /\ toHost' \in Seq(Message) /\ Range(toHost') \subseteq Range(toHost)
      /\ toHost' # <<>> /\ Head(toHost').kind = "proxy-ready" => page'.offers = 0
      /\ \A i \in 2..Len(toHost') : toHost'[i].kind # "proxy-ready"
  <2>1. CASE toHost' = toHost
    <3>1. page'.offers = page.offers \/ (toHost # <<>> /\ Tail(toHost) = toHost)
      BY <2>1
    <3>2. toHost # <<>> => Tail(toHost) # toHost
      <4>1. ASSUME toHost # <<>> PROVE Len(Tail(toHost)) # Len(toHost)
        BY <1>1, <4>1 DEF TypeOK
      <4> QED
        BY <4>1
    <3> QED
      BY <1>1, <2>1, <3>1, <3>2 DEF TypeOK, OfferInv
  <2>2. CASE toHost # <<>> /\ toHost' = Tail(toHost)
    BY <1>1, <2>2, TakeFacts
  <2> QED
    BY <2>1, <2>2
<1>3. /\ toProxy' \in Seq(Message) /\ Range(toProxy') \subseteq Range(toProxy) \cup {m}
      /\ proxy.closed # "no" => toProxy' = toProxy
  BY <1>1, PostFacts DEF TypeOK
<1>4. ~page.retired /\ (toHost # <<>> => proxy.frame = "running")
  BY <1>1 DEF Listening, FrameInv
<1>5. page'.offers >= page.offers /\ page'.offers <= 1 /\ page.offers \in 0..2
  BY <1>1 DEF OfferInv, TypeOK, Page
<1>6. TypeOK'
  BY <1>1, <1>2, <1>3, <1>4 DEF TypeOK, parent, frame, server
<1>7. FrameInv'
  BY <1>1 DEF FrameInv, frame
<1>8. OfferInv'
  BY <1>1, <1>2, <1>4, <1>5 DEF OfferInv, frame
<1>9. StageInv'
  BY <1>1, <1>4, <1>5 DEF StageInv, frame
<1>10. MessageInv'
  <2>1. page.offers > 0 => page'.offers > 0
    BY <1>5
  <2> QED
    BY <1>1, <1>2, <1>3, <2>1 DEF MessageInv, frame
<1>11. ReleaseInv'
  BY <1>1, ReleaseKept DEF parent, server
<1> QED
  BY <1>6, <1>7, <1>8, <1>9, <1>10, <1>11 DEF IInv
-----------------------------------------------------------------------------
(* The invariant holds at first and is kept by every step.                   *)

\* A part that was just mounted.
THEOREM InitIInv == Init => IInv
<1> SUFFICES ASSUME Init PROVE IInv
  OBVIOUS
<1>1. TypeOK
  <2>1. entry \in Entry /\ app \in App /\ ~entry.view
    BY DEF Init, Entry, App
  <2>2. proxy = NoProxy /\ NoProxy.closed = "no" /\ NoProxy.frame = "none" /\ page = NoPage
    BY DEF Init, NoProxy
  <2>3. opens \in 0..MaxOpens /\ calls \in [Call -> {"idle", "sent", "requested", "answered"}]
    BY DEF Init
  <2> QED
    BY <2>1, <2>2, <2>3, RecordsTyped, NothingPosted DEF Init, TypeOK
<1>2. FrameInv /\ OfferInv /\ StageInv /\ MessageInv
  BY NothingPosted DEF Init, NoPage, NewPage, NoProxy, FrameInv, OfferInv, StageInv, MessageInv, Serving
<1>3. ReleaseInv
  BY DEF Init, NoPage, NewPage, ReleaseInv
<1> QED
  BY <1>1, <1>2, <1>3 DEF IInv

\* The end of a view, by any step that keeps the rest of the page's knowledge.
LEMMA FailIInv ==
  ASSUME IInv, NEW p \in Page, p.offers <= 1, Fail(p), p.retired = page.retired, p.cleanup = page.cleanup,
         UNCHANGED <<opens, calls, served, reported>>,
         chat' \in BOOLEAN, owed' \in BOOLEAN, entry' \in Entry, ~(entry'.view /\ entry'.closing),
         lost' \subseteq Opened
  PROVE  /\ TypeOK' /\ FrameInv' /\ OfferInv' /\ StageInv' /\ MessageInv'
         /\ page' \in Page /\ page'.retired /\ page'.opening = p.opening /\ page'.viewId = p.viewId
         /\ page'.cleanup = IF p.cleanup = "none" THEN "waiting" ELSE p.cleanup
<1>1. TypeOK /\ (p.retired <=> p.cleanup # "none")
  BY DEF IInv, ReleaseInv
<1>2. /\ page' \in Page /\ page'.retired /\ page'.opening = p.opening /\ page'.viewId = p.viewId
      /\ page'.cleanup = IF p.cleanup = "none" THEN "waiting" ELSE p.cleanup
      /\ proxy' \in Proxy /\ app' \in App /\ proxy'.frame = "none" /\ proxy'.closed = "no"
      /\ toHost' = <<>> /\ toProxy' = <<>> /\ fromView' = <<>> /\ toView' = <<>>
      /\ FrameInv' /\ OfferInv' /\ StageInv' /\ MessageInv'
  BY <1>1, FailFacts
<1>3. TypeOK'
  BY <1>1, <1>2, NothingPosted DEF TypeOK
<1> QED
  BY <1>2, <1>3

\* close() of the mounted part, whatever called it.
LEMMA CloseIInv ==
  ASSUME IInv, NEW mounted \in BOOLEAN, CloseView(mounted), UNCHANGED <<opens, calls, server>>,
         chat' \in BOOLEAN, owed' \in BOOLEAN
  PROVE  IInv'
<1>1. /\ TypeOK /\ page \in Page /\ page.offers <= 1
      /\ entry' \in Entry /\ ~(entry'.view /\ entry'.closing)
  BY DEF IInv, OfferInv, TypeOK, CloseView, Entry
<1>2. CASE entry.view
  <2>1. Fail(page)
    BY <1>2 DEF CloseView
  <2>2. /\ TypeOK' /\ FrameInv' /\ OfferInv' /\ StageInv' /\ MessageInv'
        /\ page' \in Page /\ page'.retired /\ page'.opening = page.opening /\ page'.viewId = page.viewId
        /\ page'.cleanup = IF page.cleanup = "none" THEN "waiting" ELSE page.cleanup
    BY <1>1, <2>1, FailIInv DEF server, TypeOK
  <2>3. ReleaseInv'
    BY <1>2, <2>2 DEF IInv, ReleaseInv, CloseView, server
  <2> QED
    BY <2>2, <2>3 DEF IInv
<1>3. CASE ~entry.view
  <2>1. UNCHANGED <<page, frame, channels>>
    BY <1>3 DEF CloseView
  <2>2. TypeOK'
    BY <1>1, <2>1 DEF TypeOK, frame, channels, server
  <2>3. FrameInv' /\ OfferInv' /\ StageInv' /\ MessageInv'
    BY <2>1, FramesKept DEF IInv
  <2>4. ReleaseInv'
    BY <1>3, <2>1 DEF IInv, ReleaseInv, CloseView, server
  <2> QED
    BY <2>2, <2>3, <2>4 DEF IInv
<1> QED
  BY <1>2, <1>3

\* Every step of the user, the page, the frames and the server keeps it.
THEOREM StepIInv == IInv /\ [Next]_vars => IInv'
<1> SUFFICES ASSUME IInv, [Next]_vars PROVE IInv'
  OBVIOUS
<1>a. /\ TypeOK /\ FrameInv /\ OfferInv /\ StageInv /\ MessageInv /\ ReleaseInv
      /\ page \in Page /\ page.offers <= 1
  BY DEF IInv, TypeOK, OfferInv

<1>1. ASSUME LeaveChat PROVE IInv'
  <2>1. TypeOK'
    BY <1>1, <1>a DEF LeaveChat, TypeOK, channels, frame, server
  <2>2. FrameInv' /\ OfferInv' /\ StageInv' /\ MessageInv'
    BY <1>1, <1>a, FramesKept DEF LeaveChat, frame
  <2>3. ReleaseInv'
    BY <1>1, <1>a DEF LeaveChat, ReleaseInv, server
  <2> QED
    BY <2>1, <2>2, <2>3 DEF IInv
<1>2. ASSUME ReturnToChat PROVE IInv'
  <2>1. TypeOK'
    BY <1>2, <1>a DEF ReturnToChat, TypeOK, channels, frame, server
  <2>2. FrameInv' /\ OfferInv' /\ StageInv' /\ MessageInv'
    BY <1>2, <1>a, FramesKept DEF ReturnToChat, frame
  <2>3. ReleaseInv'
    BY <1>2, <1>a DEF ReturnToChat, ReleaseInv, server
  <2> QED
    BY <2>1, <2>2, <2>3 DEF IInv
<1>3. ASSUME ClosingSettles PROVE IInv'
  <2>1. TypeOK'
    BY <1>3, <1>a DEF ClosingSettles, TypeOK, Entry, channels, frame, server
  <2>2. FrameInv' /\ OfferInv' /\ StageInv' /\ MessageInv'
    BY <1>3, <1>a, FramesKept DEF ClosingSettles, frame
  <2>3. ReleaseInv'
    BY <1>3, <1>a DEF ClosingSettles, ReleaseInv, server
  <2> QED
    BY <2>1, <2>2, <2>3 DEF IInv
<1>4. ASSUME ServerOpens PROVE IInv'
  <2>1. TypeOK'
    BY <1>4, <1>a DEF ServerOpens, TypeOK, parent, channels, frame
  <2>2. FrameInv' /\ OfferInv' /\ StageInv' /\ MessageInv'
    BY <1>4, <1>a, FramesKept DEF ServerOpens, frame
  <2>3. ReleaseInv'
    BY <1>4, <1>a DEF ServerOpens, ReleaseInv, TypeOK, parent
  <2> QED
    BY <2>1, <2>2, <2>3 DEF IInv
<1>5. ASSUME ServerExpires PROVE IInv'
  <2>1. TypeOK'
    BY <1>5, <1>a DEF ServerExpires, TypeOK, parent, channels, frame
  <2>2. FrameInv' /\ OfferInv' /\ StageInv' /\ MessageInv'
    BY <1>5, <1>a, FramesKept DEF ServerExpires, frame
  <2>3. ReleaseInv'
    BY <1>5, <1>a DEF ServerExpires, ReleaseInv, parent
  <2> QED
    BY <2>1, <2>2, <2>3 DEF IInv
<1>6. ASSUME ServerCloses PROVE IInv'
  <2>1. TypeOK'
    BY <1>6, <1>a DEF ServerCloses, TypeOK, parent, channels, frame
  <2>2. FrameInv' /\ OfferInv' /\ StageInv' /\ MessageInv'
    BY <1>6, <1>a, FramesKept DEF ServerCloses, frame
  <2>3. ReleaseInv'
    BY <1>6, <1>a DEF ServerCloses, ReleaseInv, parent
  <2> QED
    BY <2>1, <2>2, <2>3 DEF IInv
<1>7. ASSUME Close PROVE IInv'
  BY <1>7, <1>a, CloseIInv DEF Close, TypeOK
<1>8. ASSUME Unmount PROVE IInv'
  BY <1>8, <1>a, CloseIInv DEF Unmount, TypeOK
<1>9. ASSUME BusEvent PROVE IInv'
  <2>1. CASE entry.mounted
    BY <1>9, <1>a, <2>1, CloseIInv DEF BusEvent, TypeOK
  <2>2. CASE ~entry.mounted
    <3>1. TypeOK'
      BY <1>9, <1>a, <2>2 DEF BusEvent, TypeOK, channels, frame, server
    <3>2. FrameInv' /\ OfferInv' /\ StageInv' /\ MessageInv'
      BY <1>9, <1>a, <2>2, FramesKept DEF BusEvent, frame
    <3>3. ReleaseInv'
      BY <1>9, <1>a, <2>2 DEF BusEvent, ReleaseInv, server
    <3> QED
      BY <3>1, <3>2, <3>3 DEF IInv
  <2> QED
    BY <2>1, <2>2
<1>10. ASSUME Open PROVE IInv'
  <2>1. page.opening = "none" \/ page.retired
    BY <1>10, <1>a DEF Open, ReleaseInv
  <2>2. toHost = <<>> /\ toProxy = <<>> /\ fromView = <<>> /\ toView = <<>> /\ opens' \in Opened
    BY <1>10, <1>a, <2>1 DEF Open, TypeOK, FrameInv, Opened
  <2>3. TypeOK'
    <3>1. entry' \in Entry /\ app' \in App /\ entry'.view /\ ~entry'.closing
      BY <1>10, <1>a DEF Open, TypeOK, Entry, App, Document
    <3> QED
      BY <1>10, <1>a, <2>2, <3>1, RecordsTyped, NothingPosted
      DEF Open, TypeOK, NewPage, NoProxy, channels, frame, server
  <2>4. FrameInv' /\ OfferInv' /\ StageInv' /\ MessageInv'
    BY <1>10, <2>2, NothingPosted
    DEF Open, NewPage, NoProxy, Document, FrameInv, OfferInv, StageInv, MessageInv, Serving, channels, frame
  <2>5. ReleaseInv'
    BY <1>10, <1>a, <2>2 DEF Open, NewPage, ReleaseInv, Opened, TypeOK, Entry, server
  <2> QED
    BY <2>3, <2>4, <2>5 DEF IInv
<1>11. ASSUME OpeningLost PROVE IInv'
  <2> DEFINE p == [page EXCEPT !.opening = "failed"]
  <2>1. p \in Page /\ p.offers <= 1 /\ p.retired = page.retired /\ p.cleanup = page.cleanup
    BY <1>a DEF Page
  <2>2. Fail(p) /\ UNCHANGED <<opens, calls, served, reported>> /\ lost' \subseteq Opened
    BY <1>11, <1>a DEF OpeningLost, TypeOK, ReleaseInv, Opened, parent
  <2>3. chat' \in BOOLEAN /\ owed' \in BOOLEAN /\ entry' \in Entry /\ ~(entry'.view /\ entry'.closing)
    BY <1>11, <1>a DEF OpeningLost, TypeOK, parent
  <2>4. /\ TypeOK' /\ FrameInv' /\ OfferInv' /\ StageInv' /\ MessageInv'
        /\ page' \in Page /\ page'.retired /\ page'.opening = p.opening /\ page'.viewId = p.viewId
        /\ page'.cleanup = IF p.cleanup = "none" THEN "waiting" ELSE p.cleanup
    BY <2>1, <2>2, <2>3, FailIInv
  <2>5. ReleaseInv'
    BY <1>11, <1>a, <2>1, <2>2, <2>4 DEF OpeningLost, ReleaseInv, Opened, parent
  <2> QED
    BY <2>4, <2>5 DEF IInv
<1>12. ASSUME RefuseView PROVE IInv'
  <2> DEFINE p == [page EXCEPT !.opening = "failed", !.viewId = TRUE]
  <2>1. p \in Page /\ p.offers <= 1 /\ p.retired = page.retired /\ p.cleanup = page.cleanup
    BY <1>a DEF Page
  <2>2. Fail(p) /\ UNCHANGED <<opens, calls, served, reported>> /\ lost' \subseteq Opened
    BY <1>12, <1>a DEF RefuseView, Acknowledged, TypeOK, ReleaseInv, Opened, parent, server
  <2>3. chat' \in BOOLEAN /\ owed' \in BOOLEAN /\ entry' \in Entry /\ ~(entry'.view /\ entry'.closing)
    BY <1>12, <1>a DEF RefuseView, Acknowledged, TypeOK, parent, server
  <2>4. /\ TypeOK' /\ FrameInv' /\ OfferInv' /\ StageInv' /\ MessageInv'
        /\ page' \in Page /\ page'.retired /\ page'.opening = p.opening /\ page'.viewId = p.viewId
        /\ page'.cleanup = IF p.cleanup = "none" THEN "waiting" ELSE p.cleanup
    BY <2>1, <2>2, <2>3, FailIInv
  <2>5. ReleaseInv'
    BY <1>12, <1>a, <2>1, <2>2, <2>4 DEF RefuseView, Acknowledged, ReleaseInv, parent, server
  <2> QED
    BY <2>4, <2>5 DEF IInv
<1>13. ASSUME NavigateTooLate PROVE IInv'
  <2> DEFINE p == [page EXCEPT !.opening = "failed"]
  <2>1. p \in Page /\ p.offers <= 1 /\ p.retired = page.retired /\ p.cleanup = page.cleanup
    BY <1>a DEF Page
  <2>2. Fail(p) /\ UNCHANGED <<opens, calls, served, reported>> /\ lost' \subseteq Opened
    BY <1>13, <1>a DEF NavigateTooLate, TypeOK, ReleaseInv, Opened, parent, server
  <2>3. chat' \in BOOLEAN /\ owed' \in BOOLEAN /\ entry' \in Entry /\ ~(entry'.view /\ entry'.closing)
    BY <1>13, <1>a DEF NavigateTooLate, TypeOK, parent, server
  <2>4. /\ TypeOK' /\ FrameInv' /\ OfferInv' /\ StageInv' /\ MessageInv'
        /\ page' \in Page /\ page'.retired /\ page'.opening = p.opening /\ page'.viewId = p.viewId
        /\ page'.cleanup = IF p.cleanup = "none" THEN "waiting" ELSE p.cleanup
    BY <2>1, <2>2, <2>3, FailIInv
  <2>5. ReleaseInv'
    BY <1>13, <1>a, <2>1, <2>2, <2>4 DEF NavigateTooLate, ReleaseInv, parent, server
  <2> QED
    BY <2>4, <2>5 DEF IInv
<1>14. ASSUME HostLeftChat PROVE IInv'
  <2> DEFINE p == page
  <2>1. p \in Page /\ p.offers <= 1 /\ p.retired = page.retired /\ p.cleanup = page.cleanup
    BY <1>a DEF Page
  <2>2. Fail(p) /\ UNCHANGED <<opens, calls, served, reported>> /\ lost' \subseteq Opened
    BY <1>14, <1>a DEF HostLeftChat, TypeOK, ReleaseInv, Opened, parent, server
  <2>3. chat' \in BOOLEAN /\ owed' \in BOOLEAN /\ entry' \in Entry /\ ~(entry'.view /\ entry'.closing)
    BY <1>14, <1>a DEF HostLeftChat, TypeOK, parent, server
  <2>4. /\ TypeOK' /\ FrameInv' /\ OfferInv' /\ StageInv' /\ MessageInv'
        /\ page' \in Page /\ page'.retired /\ page'.opening = p.opening /\ page'.viewId = p.viewId
        /\ page'.cleanup = IF p.cleanup = "none" THEN "waiting" ELSE p.cleanup
    BY <2>1, <2>2, <2>3, FailIInv
  <2>5. ReleaseInv'
    BY <1>14, <1>a, <2>1, <2>2, <2>4 DEF HostLeftChat, ReleaseInv, parent, server
  <2> QED
    BY <2>4, <2>5 DEF IInv
<1>15. ASSUME TransportRefuses PROVE IInv'
  <2> DEFINE p == page
  <2>1. p \in Page /\ p.offers <= 1 /\ p.retired = page.retired /\ p.cleanup = page.cleanup
    BY <1>a DEF Page
  <2>2. Fail(p) /\ UNCHANGED <<opens, calls, served, reported>> /\ lost' \subseteq Opened
    BY <1>15, <1>a DEF TransportRefuses, TypeOK, ReleaseInv, Opened, parent, server
  <2>3. chat' \in BOOLEAN /\ owed' \in BOOLEAN /\ entry' \in Entry /\ ~(entry'.view /\ entry'.closing)
    BY <1>15, <1>a DEF TransportRefuses, TypeOK, parent, server
  <2>4. /\ TypeOK' /\ FrameInv' /\ OfferInv' /\ StageInv' /\ MessageInv'
        /\ page' \in Page /\ page'.retired /\ page'.opening = p.opening /\ page'.viewId = p.viewId
        /\ page'.cleanup = IF p.cleanup = "none" THEN "waiting" ELSE p.cleanup
    BY <2>1, <2>2, <2>3, FailIInv
  <2>5. ReleaseInv'
    BY <1>15, <1>a, <2>1, <2>2, <2>4 DEF TransportRefuses, ReleaseInv, parent, server
  <2> QED
    BY <2>4, <2>5 DEF IInv
<1>16. ASSUME WithdrawOpening PROVE IInv'
  <2>1. TypeOK'
    <3>1. page' \in Page /\ proxy' \in Proxy
      BY <1>16, <1>a DEF WithdrawOpening, Acknowledged, TypeOK, Page, Proxy, parent, channels, frame, server
    <3> QED
      BY <1>16, <1>a, <3>1 DEF WithdrawOpening, Acknowledged, TypeOK, FrameInv, ReleaseInv, Page, Proxy,
         Opened, parent, channels, frame, server
  <2>2. FrameInv'
    BY <1>16, <1>a DEF WithdrawOpening, FrameInv, channels, frame
  <2>3. OfferInv'
    BY <1>16, <1>a DEF WithdrawOpening, OfferInv, channels, frame
  <2>4. StageInv'
    BY <1>16, <1>a DEF WithdrawOpening, StageInv, Serving, frame
  <2>5. MessageInv'
    BY <1>16, <1>a, NothingPosted DEF WithdrawOpening, Acknowledged, MessageInv, Serving, channels, frame
  <2>6. ReleaseInv'
    BY <1>16, <1>a DEF WithdrawOpening, Acknowledged, ReleaseInv, parent, server
  <2> QED
    BY <2>1, <2>2, <2>3, <2>4, <2>5, <2>6 DEF IInv
<1>17. ASSUME StartBridge PROVE IInv'
  <2>1. TypeOK'
    <3>1. page' \in Page /\ proxy' \in Proxy
      BY <1>17, <1>a
      DEF StartBridge, Acknowledged, TypeOK, Page, Proxy, NoProxy, parent, channels, frame, server
    <3> QED
      BY <1>17, <1>a, <3>1 DEF StartBridge, Acknowledged, TypeOK, FrameInv, ReleaseInv, Page, Proxy,
         NoProxy, Opened, parent, channels, frame, server
  <2>2. FrameInv'
    BY <1>17, <1>a DEF StartBridge, Acknowledged, FrameInv, NoProxy, channels, frame
  <2>3. OfferInv'
    BY <1>17, <1>a DEF StartBridge, Acknowledged, FrameInv, OfferInv, channels, frame
  <2>4. StageInv'
    BY <1>17, <1>a DEF StartBridge, Acknowledged, FrameInv, StageInv, Serving, NoProxy, frame
  <2>5. MessageInv'
    BY <1>17, <1>a, NothingPosted
    DEF StartBridge, Acknowledged, FrameInv, MessageInv, Serving, channels, frame
  <2>6. ReleaseInv'
    BY <1>17, <1>a DEF StartBridge, Acknowledged, ReleaseInv, parent, server
  <2> QED
    BY <2>1, <2>2, <2>3, <2>4, <2>5, <2>6 DEF IInv
<1>18. ASSUME Navigate PROVE IInv'
  <2>1. TypeOK'
    <3>1. page' \in Page /\ proxy' \in Proxy
      BY <1>18, <1>a DEF Navigate, TypeOK, Page, Proxy, parent, channels, frame, server
    <3> QED
      BY <1>18, <1>a, <3>1
      DEF Navigate, TypeOK, FrameInv, ReleaseInv, Page, Proxy, Opened, parent, channels, frame, server
  <2>2. FrameInv'
    BY <1>18, <1>a DEF Navigate, FrameInv, channels, frame
  <2>3. OfferInv'
    BY <1>18, <1>a DEF Navigate, FrameInv, OfferInv, channels, frame
  <2>4. StageInv'
    BY <1>18, <1>a DEF Navigate, StageInv, Serving, frame
  <2>5. MessageInv'
    BY <1>18, <1>a, NothingPosted DEF Navigate, MessageInv, Serving, channels, frame
  <2>6. ReleaseInv'
    BY <1>18, <1>a DEF Navigate, ReleaseInv, parent, server
  <2> QED
    BY <2>1, <2>2, <2>3, <2>4, <2>5, <2>6 DEF IInv
<1>19. ASSUME OpeningSettled PROVE IInv'
  <2>1. TypeOK'
    <3>1. page' \in Page /\ proxy' \in Proxy
      BY <1>19, <1>a DEF OpeningSettled, TypeOK, Page, Proxy, parent, channels, frame, server
    <3> QED
      BY <1>19, <1>a, <3>1
      DEF OpeningSettled, TypeOK, FrameInv, ReleaseInv, Page, Proxy, Opened, parent, channels, frame, server
  <2>2. FrameInv'
    BY <1>19, <1>a DEF OpeningSettled, FrameInv, channels, frame
  <2>3. OfferInv'
    BY <1>19, <1>a DEF OpeningSettled, OfferInv, channels, frame
  <2>4. StageInv'
    BY <1>19, <1>a DEF OpeningSettled, StageInv, Serving, frame
  <2>5. MessageInv'
    BY <1>19, <1>a, NothingPosted DEF OpeningSettled, MessageInv, Serving, channels, frame
  <2>6. ReleaseInv'
    BY <1>19, <1>a DEF OpeningSettled, ReleaseInv, parent, server
  <2> QED
    BY <2>1, <2>2, <2>3, <2>4, <2>5, <2>6 DEF IInv
<1>20. ASSUME Deleted PROVE IInv'
  <2>1. TypeOK'
    <3>1. page' \in Page /\ proxy' \in Proxy
      BY <1>20, <1>a DEF Deleted, TypeOK, Page, Proxy, parent, channels, frame, server
    <3> QED
      BY <1>20, <1>a, <3>1
      DEF Deleted, TypeOK, FrameInv, ReleaseInv, Page, Proxy, Opened, parent, channels, frame, server
  <2>2. FrameInv'
    BY <1>20, <1>a DEF Deleted, FrameInv, channels, frame
  <2>3. OfferInv'
    BY <1>20, <1>a DEF Deleted, OfferInv, channels, frame
  <2>4. StageInv'
    BY <1>20, <1>a DEF Deleted, StageInv, Serving, frame
  <2>5. MessageInv'
    BY <1>20, <1>a, NothingPosted DEF Deleted, MessageInv, Serving, channels, frame
  <2>6. ReleaseInv'
    BY <1>20, <1>a DEF Deleted, ReleaseInv, parent, server
  <2> QED
    BY <2>1, <2>2, <2>3, <2>4, <2>5, <2>6 DEF IInv
<1>21. ASSUME DeleteFails PROVE IInv'
  <2>1. TypeOK'
    <3>1. page' \in Page /\ proxy' \in Proxy
      BY <1>21, <1>a DEF DeleteFails, TypeOK, Page, Proxy, parent, channels, frame
    <3> QED
      BY <1>21, <1>a, <3>1
      DEF DeleteFails, TypeOK, FrameInv, ReleaseInv, Page, Proxy, Opened, parent, channels, frame
  <2>2. FrameInv'
    BY <1>21, <1>a DEF DeleteFails, FrameInv, channels, frame
  <2>3. OfferInv'
    BY <1>21, <1>a DEF DeleteFails, OfferInv, channels, frame
  <2>4. StageInv'
    BY <1>21, <1>a DEF DeleteFails, StageInv, Serving, frame
  <2>5. MessageInv'
    BY <1>21, <1>a, NothingPosted DEF DeleteFails, MessageInv, Serving, channels, frame
  <2>6. ReleaseInv'
    BY <1>21, <1>a DEF DeleteFails, ReleaseInv, parent
  <2> QED
    BY <2>1, <2>2, <2>3, <2>4, <2>5, <2>6 DEF IInv
<1>22. ASSUME OfferResource PROVE IInv'
  <2> DEFINE m == Plain("resource-ready")
  <2>1. m \in Message /\ m.kind = "resource-ready"
    BY MessagesTyped DEF Kind
  <2>2. /\ Listening /\ toHost # <<>> /\ Head(toHost).kind = "proxy-ready" /\ toHost' = Tail(toHost)
        /\ PostToProxy(m) /\ page' = [page EXCEPT !.offers = @ + 1]
        /\ UNCHANGED <<parent, frame, fromView, toView, calls, server>>
    BY <1>22 DEF OfferResource, HostGets, HostReplies
  <2>3. proxy.frame = "running" /\ page.offers = 0 /\ (Serving => proxy.phase = "initialized")
    BY <1>a, <2>2 DEF FrameInv, OfferInv, StageInv, Listening
  <2>4. /\ page' \in Page /\ page'.opening = page.opening /\ page'.viewId = page.viewId
        /\ page'.retired = page.retired /\ page'.cleanup = page.cleanup
        /\ page'.offers = 1 /\ page'.answered = page.answered /\ page'.greeting = page.greeting
    BY <1>a, <2>2, <2>3 DEF Page
  <2>5. calls' \in [Call -> {"idle", "sent", "requested", "answered"}] /\ Serving' = Serving
    BY <1>a, <2>2, <2>4 DEF TypeOK, Serving
  <2> QED
    BY <2>1, <2>2, <2>3, <2>4, <2>5, BridgeIInv
<1>23. ASSUME AnswerInitialize PROVE IInv'
  <2>1. toHost # <<>> /\ Head(toHost) \in Range(toHost) /\ Listening /\ proxy.frame = "running"
    BY <1>23, <1>a, PostedFacts DEF AnswerInitialize, HostGets, TypeOK, FrameInv
  <2>2. /\ toHost' = Tail(toHost) /\ UNCHANGED <<parent, frame, fromView, toView, calls, server>>
        /\ Serving => proxy.phase = "initialized"
    BY <1>23, <1>a, <2>1 DEF AnswerInitialize, HostReplies, StageInv, Listening
  <2>3. CASE Head(toHost).kind = "initialize"
    <3> DEFINE m == Plain("answer")
    <3>1. m \in Message /\ m.kind = "answer"
      BY MessagesTyped DEF Kind
    <3>2. PostToProxy(m) /\ page' = [page EXCEPT !.answered = TRUE]
      BY <1>23, <2>3 DEF AnswerInitialize, HostReplies
    <3>3. /\ page' \in Page /\ page'.opening = page.opening /\ page'.viewId = page.viewId
          /\ page'.retired = page.retired /\ page'.cleanup = page.cleanup
          /\ page'.offers = page.offers /\ page'.answered /\ page'.greeting = page.greeting
      BY <1>a, <3>2 DEF Page
    <3>4. proxy.phase \in Late
      BY <1>a, <2>1, <2>3 DEF MessageInv, Late
    <3>5. calls' \in [Call -> {"idle", "sent", "requested", "answered"}] /\ Serving' = Serving
      BY <1>a, <2>2, <3>3 DEF TypeOK, Serving
    <3> QED
      BY <2>1, <2>2, <3>1, <3>2, <3>3, <3>4, <3>5, BridgeIInv
  <2>4. CASE Head(toHost).kind # "initialize"
    <3> DEFINE m == Plain("refusal")
    <3>1. m \in Message /\ m.kind = "refusal"
      BY MessagesTyped DEF Kind
    <3>2. PostToProxy(m) /\ page' = page
      BY <1>23, <2>4 DEF AnswerInitialize, HostReplies
    <3>3. calls' \in [Call -> {"idle", "sent", "requested", "answered"}] /\ Serving' = Serving
      BY <1>a, <2>2, <3>2 DEF TypeOK, Serving
    <3> QED
      BY <1>a, <2>1, <2>2, <3>1, <3>2, <3>3, BridgeIInv
  <2> QED
    BY <2>3, <2>4
<1>24. ASSUME SendInput PROVE IInv'
  <2> DEFINE m == Plain("input")
  <2>1. m \in Message /\ m.kind = "input"
    BY MessagesTyped DEF Kind
  <2>2. /\ Listening /\ page' = [page EXCEPT !.greeting = "input"]
        /\ UNCHANGED <<parent, frame, fromView, toView, calls, server>>
        /\ toHost' = toHost \/ (toHost # <<>> /\ toHost' = Tail(toHost))
        /\ toProxy' = toProxy \/ PostToProxy(m)
    BY <1>24 DEF SendInput, HostGets, HostReplies, Listening
  <2>3. /\ page' \in Page /\ page'.opening = page.opening /\ page'.viewId = page.viewId
        /\ page'.retired = page.retired /\ page'.cleanup = page.cleanup
        /\ page'.offers = page.offers /\ page'.answered = page.answered /\ page'.greeting = "input"
    BY <1>a, <2>2 DEF Page
  <2>4. proxy.phase = "initialized"
    <3>1. Head(toHost) \in Range(toHost) /\ Head(toHost).kind = "initialized"
      BY <1>24, <1>a, PostedFacts DEF SendInput, HostGets, TypeOK
    <3> QED
      BY <1>a, <3>1 DEF MessageInv
  <2>5. proxy.frame = "running"
    BY <1>a, <2>4 DEF FrameInv
  <2>6. calls' \in [Call -> {"idle", "sent", "requested", "answered"}] /\ Serving'
    BY <1>a, <2>2, <2>3 DEF TypeOK, Serving
  <2> QED
    BY <2>1, <2>2, <2>3, <2>4, <2>5, <2>6, BridgeIInv
<1>25. ASSUME SendResult PROVE IInv'
  <2> DEFINE m == Plain("result")
  <2>1. m \in Message /\ m.kind = "result"
    BY MessagesTyped DEF Kind
  <2>2. /\ Listening /\ page' = [page EXCEPT !.greeting = "result"]
        /\ UNCHANGED <<parent, frame, fromView, toView, calls, server>>
        /\ toHost' = toHost \/ (toHost # <<>> /\ toHost' = Tail(toHost))
        /\ toProxy' = toProxy \/ PostToProxy(m)
    BY <1>25 DEF SendResult, HostPosts, Listening
  <2>3. /\ page' \in Page /\ page'.opening = page.opening /\ page'.viewId = page.viewId
        /\ page'.retired = page.retired /\ page'.cleanup = page.cleanup
        /\ page'.offers = page.offers /\ page'.answered = page.answered /\ page'.greeting = "result"
    BY <1>a, <2>2 DEF Page
  <2>4. proxy.phase = "initialized"
    BY <1>25, <1>a DEF SendResult, Listening, StageInv, Serving
  <2>5. proxy.frame = "running"
    BY <1>a, <2>4 DEF FrameInv
  <2>6. calls' \in [Call -> {"idle", "sent", "requested", "answered"}] /\ Serving'
    BY <1>a, <2>2, <2>3 DEF TypeOK, Serving
  <2> QED
    BY <2>1, <2>2, <2>3, <2>4, <2>5, <2>6, BridgeIInv
<1>26. ASSUME AppReady PROVE IInv'
  <2> DEFINE m == Plain("result")
  <2>1. m \in Message /\ m.kind = "result"
    BY MessagesTyped DEF Kind
  <2>2. /\ Listening /\ page' = [page EXCEPT !.greeting = "ready"]
        /\ UNCHANGED <<parent, frame, fromView, toView, calls, server>>
        /\ toHost' = toHost \/ (toHost # <<>> /\ toHost' = Tail(toHost))
        /\ toProxy' = toProxy \/ PostToProxy(m)
    BY <1>26 DEF AppReady, Listening, channels
  <2>3. /\ page' \in Page /\ page'.opening = page.opening /\ page'.viewId = page.viewId
        /\ page'.retired = page.retired /\ page'.cleanup = page.cleanup
        /\ page'.offers = page.offers /\ page'.answered = page.answered /\ page'.greeting = "ready"
    BY <1>a, <2>2 DEF Page
  <2>4. proxy.phase = "initialized"
    BY <1>26, <1>a DEF AppReady, Listening, StageInv, Serving
  <2>5. proxy.frame = "running"
    BY <1>a, <2>4 DEF FrameInv
  <2>6. calls' \in [Call -> {"idle", "sent", "requested", "answered"}] /\ Serving'
    BY <1>a, <2>2, <2>3 DEF TypeOK, Serving
  <2> QED
    BY <2>1, <2>2, <2>3, <2>4, <2>5, <2>6, BridgeIInv
<1>27. ASSUME RequestTool PROVE IInv'
  <2>1. /\ toHost # <<>> /\ Head(toHost) \in Range(toHost) /\ Head(toHost) \in Message
        /\ Head(toHost).kind = "call" /\ Listening /\ UNCHANGED <<parent, page, frame, fromView, toView, server>>
    BY <1>27, <1>a, PostedFacts DEF RequestTool, HostGets, HostIgnores, HostReplies, TypeOK
  <2>2. PICK k \in Call : /\ calls' = [calls EXCEPT ![k] = "requested"] \/ calls' = [calls EXCEPT ![k] = "answered"]
                          /\ toHost' = Tail(toHost)
                          /\ toProxy' = toProxy \/ PostToProxy(About("error", k))
    BY <1>27, <2>1 DEF RequestTool, HostIgnores, HostReplies, Message
  <2> DEFINE m == About("error", k)
  <2>3. m \in Message /\ m.kind = "error"
    BY MessagesTyped DEF Kind
  <2>4. proxy.phase = "initialized" /\ proxy.frame = "running"
    BY <1>a, <2>1 DEF MessageInv, FrameInv
  <2>5. calls' \in [Call -> {"idle", "sent", "requested", "answered"}] /\ Serving'
    BY <1>a, <2>2 DEF TypeOK, Serving
  <2> QED
    BY <1>a, <2>1, <2>2, <2>3, <2>4, <2>5, BridgeIInv
<1>28. ASSUME ToolAnswered PROVE IInv'
  <2>1. PICK k \in Call, answer \in {"reply", "error"} :
          /\ Listening /\ calls[k] = "requested" /\ calls' = [calls EXCEPT ![k] = "answered"]
          /\ HostPosts(About(answer, k)) /\ UNCHANGED <<parent, page, frame, server>>
    BY <1>28 DEF ToolAnswered
  <2> DEFINE m == About(answer, k)
  <2>2. m \in Message /\ m.kind = answer
    BY MessagesTyped DEF Kind
  <2>3. PostToProxy(m) /\ UNCHANGED <<toHost, fromView, toView>>
    BY <2>1 DEF HostPosts
  <2>4. proxy.phase = "initialized" /\ proxy.frame = "running"
    BY <1>a, <2>1 DEF Listening, StageInv, Serving, FrameInv
  <2>5. calls' \in [Call -> {"idle", "sent", "requested", "answered"}] /\ Serving'
    BY <1>a, <2>1 DEF TypeOK, Serving
  <2> QED
    BY <1>a, <2>1, <2>2, <2>3, <2>4, <2>5, BridgeIInv
<1>29. ASSUME HostDrops PROVE IInv'
  <2> DEFINE m == Teardown
  <2>1. m \in Message /\ m.kind = "teardown"
    BY MessagesTyped DEF Kind, Teardown
  <2>2. /\ Listening /\ toHost # <<>> /\ toHost' = Tail(toHost)
        /\ UNCHANGED <<parent, page, frame, toProxy, fromView, toView, calls, server>>
    BY <1>29 DEF HostDrops, HostGets, HostIgnores, Listening
  <2>3. /\ calls' \in [Call -> {"idle", "sent", "requested", "answered"}] /\ Serving' = Serving
        /\ Serving => proxy.phase = "initialized"
        /\ proxy.frame = "running"
    BY <1>a, <2>2 DEF TypeOK, Serving, StageInv, FrameInv, Listening
  <2> QED
    BY <1>a, <2>1, <2>2, <2>3, BridgeIInv
<1>30. ASSUME ProxyStarts PROVE IInv'
  <2>1. /\ toHost = <<>> /\ toProxy = <<>> /\ fromView = <<>> /\ toView = <<>> /\ app.at = "none" /\ ~app.served
        /\ proxy.phase = "empty" /\ proxy.closed = "no"
        /\ UNCHANGED <<parent, page, app, toProxy, fromView, toView, calls, server>>
    BY <1>30, <1>a DEF ProxyStarts, FrameInv
  <2>2. proxy' \in Proxy /\ proxy'.frame = "running" /\ proxy'.phase = "empty" /\ proxy'.closed = "no"
    BY <1>30, <1>a, <2>1 DEF ProxyStarts, TypeOK, Proxy
  <2>3. ~page.retired /\ page.opening \notin {"none", "requesting", "connecting"} /\ page.offers = 0
    BY <1>30, <1>a DEF ProxyStarts, TypeOK, FrameInv, OfferInv, Page
  <2>4. /\ Plain("proxy-ready") \in Message /\ Plain("proxy-ready").kind = "proxy-ready"
        /\ toHost' = Append(<<>>, Plain("proxy-ready"))
    BY <1>30, <2>1, MessagesTyped DEF ProxyStarts, Kind
  <2>5. /\ toHost' \in Seq(Message) /\ Range(toHost') = {Plain("proxy-ready")} /\ Len(toHost') = 1
    <3>1. <<>> \in Seq(Message) /\ Range(<<>>) = {}
      BY NothingPosted
    <3>2. toHost' \in Seq(Message) /\ Range(toHost') = {Plain("proxy-ready")}
      <4>1. \A q \in Seq(Message), k \in Message :
              Append(q, k) \in Seq(Message) /\ Range(Append(q, k)) = Range(q) \cup {k}
        BY PostedFacts
      <4>2. Range(toHost') = Range(<<>>) \cup {Plain("proxy-ready")} /\ toHost' \in Seq(Message)
        BY <2>4, <3>1, <4>1
      <4> QED
        BY <3>1, <4>2
    <3>3. Len(toHost') = 1
      BY <2>4
    <3> QED
      BY <3>2, <3>3
  <2>6. TypeOK'
    BY <1>a, <2>1, <2>2, <2>3, <2>5 DEF TypeOK, parent, server
  <2>7. FrameInv' /\ OfferInv'
    BY <1>a, <2>1, <2>2, <2>3, <2>5 DEF FrameInv, OfferInv
  <2>8. StageInv' /\ MessageInv'
    BY <1>a, <2>1, <2>2, <2>4, <2>5, NothingPosted DEF StageInv, MessageInv, Serving
  <2>9. ReleaseInv'
    BY <1>a, <2>1, ReleaseKept DEF parent, server
  <2> QED
    BY <2>6, <2>7, <2>8, <2>9 DEF IInv
<1>31. ASSUME ProxyDead PROVE IInv'
  <2>1. /\ proxy' \in Proxy /\ proxy'.frame = "dead" /\ proxy'.phase = proxy.phase /\ proxy'.closed = proxy.closed
        /\ proxy.frame = "loading" /\ UNCHANGED <<parent, page, app, toHost, toProxy, fromView, toView, calls, server>>
    BY <1>31, <1>a DEF ProxyDead, TypeOK, Proxy, channels
  <2>2. TypeOK'
    BY <1>a, <2>1 DEF TypeOK, parent, server
  <2>3. FrameInv' /\ OfferInv'
    BY <1>a, <2>1 DEF FrameInv, OfferInv
  <2>4. StageInv' /\ MessageInv'
    BY <1>a, <2>1 DEF StageInv, MessageInv, Serving
  <2>5. ReleaseInv'
    BY <1>a, <2>1, ReleaseKept DEF parent, server
  <2> QED
    BY <2>2, <2>3, <2>4, <2>5 DEF IInv
<1>32. ASSUME FromHost PROVE IInv'
  <2> DEFINE m == Head(toProxy)
  <2>1. /\ proxy.frame = "running" /\ proxy.closed = "no" /\ toProxy # <<>>
        /\ UNCHANGED <<parent, page, calls, server>>
    BY <1>32 DEF FromHost, Running
  <2>2. /\ m \in Message /\ m \in Range(toProxy)
        /\ Tail(toProxy) \in Seq(Message) /\ Range(Tail(toProxy)) \subseteq Range(toProxy)
    BY <1>a, <2>1, PostedFacts DEF TypeOK
  <2>3. \/ Seal("resource") \/ Seal("message")
        \/ /\ m.kind = "resource-ready" /\ proxy.phase = "empty"
           /\ proxy' = [proxy EXCEPT !.phase = "loaded"] /\ app' = Document("fresh")
           /\ toProxy' = Tail(toProxy) /\ UNCHANGED <<toHost, fromView, toView>>
        \/ /\ m.kind # "resource-ready" /\ ViewPhase(m) # "refused"
           /\ proxy' = [proxy EXCEPT !.phase = ViewPhase(m)] /\ toProxy' = Tail(toProxy)
           /\ toView' = Append(toView, m) /\ UNCHANGED <<app, toHost, fromView>>
    BY <1>32 DEF FromHost, LoadResource
  <2>4. CASE Seal("resource") \/ Seal("message")
    <3>1. PICK why \in {"resource", "message"} : Seal(why)
      BY <2>4
    <3>2. app' \in App /\ app'.at = "none" /\ app'.served = app.served
      BY <1>a, <3>1 DEF Seal, TypeOK, App
    <3> QED
      BY <1>a, <2>1, <3>1, <3>2, SealIInv DEF IInv, Seal
  <2>5. CASE /\ m.kind = "resource-ready" /\ proxy.phase = "empty"
             /\ proxy' = [proxy EXCEPT !.phase = "loaded"] /\ app' = Document("fresh")
             /\ toProxy' = Tail(toProxy) /\ UNCHANGED <<toHost, fromView, toView>>
    <3>1. /\ proxy' \in Proxy /\ proxy'.frame = "running" /\ proxy'.closed = "no" /\ proxy'.phase = "loaded"
          /\ app' \in App /\ app'.at = "fresh" /\ ~app'.served
      BY <1>a, <2>1, <2>5 DEF TypeOK, Proxy, App, Document
    <3>2. TypeOK'
      BY <1>a, <2>1, <2>2, <2>5, <3>1 DEF TypeOK, parent, server
    <3>3. FrameInv' /\ OfferInv'
      BY <1>a, <2>1, <2>5, <3>1 DEF FrameInv, OfferInv
    <3>4. StageInv'
      BY <1>a, <2>1, <2>2, <2>5, <3>1 DEF StageInv, MessageInv, Serving, Late
    <3>5. MessageInv'
      BY <1>a, <2>1, <2>2, <2>5, <3>1 DEF MessageInv, Serving, Late
    <3>6. ReleaseInv'
      BY <1>a, <2>1, ReleaseKept DEF parent, server
    <3> QED
      BY <3>2, <3>3, <3>4, <3>5, <3>6 DEF IInv
  <2>6. CASE /\ m.kind # "resource-ready" /\ ViewPhase(m) # "refused"
             /\ proxy' = [proxy EXCEPT !.phase = ViewPhase(m)] /\ toProxy' = Tail(toProxy)
             /\ toView' = Append(toView, m) /\ UNCHANGED <<app, toHost, fromView>>
    <3>1. \/ ViewPhase(m) = "initialized" /\ proxy.phase = "initialized"
          \/ ViewPhase(m) = "responded" /\ proxy.phase = "initializing" /\ m.kind = "answer"
      BY <2>6 DEF ViewPhase
    <3>2. /\ proxy' \in Proxy /\ proxy'.frame = "running" /\ proxy'.closed = "no" /\ proxy'.phase = ViewPhase(m)
      BY <1>a, <2>1, <2>6, <3>1 DEF TypeOK, Proxy
    <3>3. toView' \in Seq(Message) /\ Range(toView') = Range(toView) \cup {m}
      BY <1>a, <2>2, <2>6, PostedFacts DEF TypeOK
    <3>4. TypeOK'
      BY <1>a, <2>1, <2>2, <2>6, <3>2, <3>3 DEF TypeOK, parent, server
    <3>5. FrameInv' /\ OfferInv'
      BY <1>a, <2>1, <2>6, <3>2 DEF FrameInv, OfferInv
    <3>6. StageInv'
      BY <1>a, <2>1, <2>2, <2>6, <3>1, <3>2 DEF StageInv, MessageInv, Serving, Late
    <3>7. MessageInv'
      BY <1>a, <2>1, <2>2, <2>6, <3>1, <3>2, <3>3 DEF MessageInv, Serving, Late
    <3>8. ReleaseInv'
      BY <1>a, <2>1, ReleaseKept DEF parent, server
    <3> QED
      BY <3>4, <3>5, <3>6, <3>7, <3>8 DEF IInv
  <2> QED
    BY <2>3, <2>4, <2>5, <2>6
<1>33. ASSUME FromView PROVE IInv'
  <2> DEFINE m == Head(fromView)
  <2>1. /\ proxy.frame = "running" /\ proxy.closed = "no" /\ fromView # <<>>
        /\ UNCHANGED <<parent, page, calls, server>>
    BY <1>33 DEF FromView, Running
  <2>2. m \in Message /\ Tail(fromView) \in Seq(Message)
    BY <1>a, <2>1, PostedFacts DEF TypeOK
  <2>3. \/ Seal("message")
        \/ fromView' = Tail(fromView) /\ UNCHANGED <<proxy, app, toHost, toProxy, toView>>
        \/ /\ m.kind # "proxy-ready" /\ HostPhase(m) # "refused"
           /\ proxy' = [proxy EXCEPT !.phase = HostPhase(m)] /\ fromView' = Tail(fromView)
           /\ toHost' = Append(toHost, m) /\ UNCHANGED <<app, toProxy, toView>>
    BY <1>33 DEF FromView, Reserved
  <2>4. CASE Seal("message")
    <3>1. PICK why \in {"resource", "message"} : Seal(why)
      BY <2>4
    <3>2. app' \in App /\ app'.at = "none" /\ app'.served = app.served
      BY <1>a, <3>1 DEF Seal, TypeOK, App
    <3> QED
      BY <1>a, <2>1, <3>1, <3>2, SealIInv DEF IInv, Seal
  <2>5. CASE fromView' = Tail(fromView) /\ UNCHANGED <<proxy, app, toHost, toProxy, toView>>
    <3>1. TypeOK'
      BY <1>a, <2>1, <2>2, <2>5 DEF TypeOK, parent, server
    <3>2. FrameInv' /\ OfferInv' /\ StageInv' /\ MessageInv'
      BY <1>a, <2>1, <2>5 DEF FrameInv, OfferInv, StageInv, MessageInv, Serving
    <3>3. ReleaseInv'
      BY <1>a, <2>1, ReleaseKept DEF parent, server
    <3> QED
      BY <3>1, <3>2, <3>3 DEF IInv
  <2>6. CASE /\ m.kind # "proxy-ready" /\ HostPhase(m) # "refused"
             /\ proxy' = [proxy EXCEPT !.phase = HostPhase(m)] /\ fromView' = Tail(fromView)
             /\ toHost' = Append(toHost, m) /\ UNCHANGED <<app, toProxy, toView>>
    <3>1. \/ HostPhase(m) = "initialized" /\ proxy.phase \in {"responded", "initialized"}
          \/ /\ HostPhase(m) = "initializing" /\ proxy.phase = "loaded" /\ m.kind \in {"initialize", "malformed"}
      BY <2>6 DEF HostPhase
    <3>2. /\ proxy' \in Proxy /\ proxy'.frame = "running" /\ proxy'.closed = "no" /\ proxy'.phase = HostPhase(m)
      BY <1>a, <2>1, <2>6, <3>1 DEF TypeOK, Proxy
    <3>3. /\ toHost' \in Seq(Message) /\ Range(toHost') = Range(toHost) \cup {m}
          /\ toHost' # <<>> /\ Head(toHost').kind = "proxy-ready" => page.offers = 0
          /\ \A i \in 2..Len(toHost') : toHost'[i].kind # "proxy-ready"
      BY <1>a, <2>2, <2>6, PutFacts
    <3>4. TypeOK'
      BY <1>a, <2>1, <2>2, <2>6, <3>2, <3>3 DEF TypeOK, parent, server
    <3>5. FrameInv' /\ OfferInv'
      BY <1>a, <2>1, <2>6, <3>2, <3>3 DEF FrameInv, OfferInv
    <3>6. StageInv'
      BY <1>a, <2>1, <2>6, <3>1, <3>2 DEF StageInv, Serving, Late
    <3>7. MessageInv'
      BY <1>a, <2>1, <2>6, <3>1, <3>2, <3>3 DEF MessageInv, Serving, Late
    <3>8. ReleaseInv'
      BY <1>a, <2>1, ReleaseKept DEF parent, server
    <3> QED
      BY <3>4, <3>5, <3>6, <3>7, <3>8 DEF IInv
  <2> QED
    BY <2>3, <2>4, <2>5, <2>6
<1>34. ASSUME AppAsks PROVE IInv'
  <2>1. Plain("initialize") \in Message
    BY MessagesTyped DEF Kind
  <2>2. app.at # "none" /\ app' \in App /\ app'.served = app.served
    BY <1>34, <1>a DEF AppAsks, TypeOK, App
  <2>3. AppPosts(Plain("initialize")) /\ UNCHANGED <<page, calls>>
    BY <1>34 DEF AppAsks, AppPosts
  <2>4. calls' \in [Call -> {"idle", "sent", "requested", "answered"}] /\ Serving' = Serving
    BY <1>a, <2>3 DEF TypeOK, Serving
  <2> QED
    BY <2>1, <2>2, <2>3, <2>4, AppPostsIInv
<1>35. ASSUME AppConfirms PROVE IInv'
  <2>1. Plain("initialized") \in Message
    BY MessagesTyped DEF Kind
  <2>2. app.at # "none" /\ app' \in App /\ app'.served = app.served
    BY <1>35, <1>a DEF AppConfirms, TypeOK, App
  <2>3. AppPosts(Plain("initialized")) /\ UNCHANGED <<page, calls>>
    BY <1>35 DEF AppConfirms, AppPosts
  <2>4. calls' \in [Call -> {"idle", "sent", "requested", "answered"}] /\ Serving' = Serving
    BY <1>a, <2>3 DEF TypeOK, Serving
  <2> QED
    BY <2>1, <2>2, <2>3, <2>4, AppPostsIInv
<1>36. ASSUME AppCalls PROVE IInv'
  <2>1. PICK k \in Call : /\ calls[k] = "idle" /\ calls' = [calls EXCEPT ![k] = "sent"]
                          /\ AppPosts(About("call", k))
    BY <1>36 DEF AppCalls
  <2>2. About("call", k) \in Message /\ UNCHANGED page
    BY <2>1, MessagesTyped DEF Kind, AppPosts
  <2>3. calls' \in [Call -> {"idle", "sent", "requested", "answered"}] /\ Serving' = Serving
    BY <1>a, <2>1, <2>2 DEF TypeOK, Serving
  <2>4. app.at # "none" /\ UNCHANGED app
    BY <1>36 DEF AppCalls
  <2> QED
    BY <1>a, <2>1, <2>2, <2>3, <2>4, AppPostsIInv DEF TypeOK
<1>37. ASSUME AppHears PROVE IInv'
  <2>1. /\ toView # <<>> /\ toView' = Tail(toView) /\ app.at # "none"
        /\ UNCHANGED <<parent, page, proxy, toHost, toProxy, fromView, calls, server>>
    BY <1>37 DEF AppHears
  <2>2. /\ Head(toView) \in Range(toView)
        /\ toView' \in Seq(Message) /\ Range(toView') \subseteq Range(toView)
    BY <1>a, <2>1, PostedFacts DEF TypeOK
  <2>3. /\ app' \in App /\ app'.at # "none"
        /\ app'.served <=> app.served \/ Head(toView).kind \in Private
    BY <1>37, <1>a DEF AppHears, TypeOK, App
  <2>4. proxy.frame = "running" /\ proxy.closed = "no"
    BY <1>a, <2>1 DEF FrameInv
  <2>5. TypeOK'
    BY <1>a, <2>1, <2>2, <2>3, <2>4 DEF TypeOK, parent, server
  <2>6. FrameInv' /\ OfferInv'
    BY <1>a, <2>1, <2>4 DEF FrameInv, OfferInv
  <2>7. StageInv'
    BY <1>a, <2>1, <2>2, <2>3 DEF StageInv, MessageInv, Serving, Private
  <2>8. MessageInv'
    BY <1>a, <2>1, <2>2 DEF MessageInv, Serving
  <2>9. ReleaseInv'
    BY <1>a, <2>1, ReleaseKept DEF parent, server
  <2> QED
    BY <2>5, <2>6, <2>7, <2>8, <2>9 DEF IInv
<1>38. ASSUME Misbehaves PROVE IInv'
  <2>1. app.at # "none" /\ app.misdeeds + 1 \in 0..MaxMisdeeds
    BY <1>38, <1>a DEF Misbehaves, TypeOK, App
  <2>2. CASE \E kind \in {"initialize", "malformed", "initialized", "proxy-ready", "invalid", "oversize"} :
               /\ AppPosts(Plain(kind))
               /\ app' = [app EXCEPT !.honest = FALSE, !.misdeeds = @ + 1]
               /\ UNCHANGED calls
    <3>1. PICK kind \in Kind : AppPosts(Plain(kind))
      BY <2>2 DEF Kind
    <3>2. Plain(kind) \in Message /\ UNCHANGED <<page, calls>>
      BY <2>2, <3>1, MessagesTyped DEF AppPosts
    <3>3. calls' \in [Call -> {"idle", "sent", "requested", "answered"}] /\ Serving' = Serving
      BY <1>a, <3>2 DEF TypeOK, Serving
    <3>4. app' \in App /\ app'.served = app.served
      BY <1>a, <2>1, <2>2 DEF TypeOK, App
    <3> QED
      BY <2>1, <3>1, <3>2, <3>3, <3>4, AppPostsIInv
  <2>3. CASE \E k \in Call :
               /\ calls[k] = "idle"
               /\ calls' = [calls EXCEPT ![k] = "sent"]
               /\ AppPosts(About("call", k))
               /\ app' = [app EXCEPT !.honest = FALSE, !.misdeeds = @ + 1]
    <3>1. PICK k \in Call : /\ calls[k] = "idle" /\ calls' = [calls EXCEPT ![k] = "sent"]
                            /\ AppPosts(About("call", k))
      BY <2>3
    <3>2. About("call", k) \in Message /\ UNCHANGED page
      BY <3>1, MessagesTyped DEF Kind, AppPosts
    <3>3. calls' \in [Call -> {"idle", "sent", "requested", "answered"}] /\ Serving' = Serving
      BY <1>a, <3>1, <3>2 DEF TypeOK, Serving
    <3>4. app' \in App /\ app'.served = app.served
      BY <1>a, <2>1, <2>3 DEF TypeOK, App
    <3> QED
      BY <2>1, <3>1, <3>2, <3>3, <3>4, AppPostsIInv
  <2>4. CASE /\ proxy' = [proxy EXCEPT !.closed = "navigation"]
             /\ app' = [app EXCEPT !.at = "none", !.honest = FALSE, !.misdeeds = @ + 1]
             /\ toHost' = Append(toHost, Teardown)
             /\ toProxy' = <<>> /\ fromView' = <<>> /\ toView' = <<>>
             /\ UNCHANGED <<parent, page, calls, server>>
    <3>1. app' \in App /\ app'.at = "none" /\ app'.served = app.served /\ proxy.frame = "running"
      BY <1>a, <2>1, <2>4 DEF TypeOK, App, FrameInv
    <3> QED
      BY <2>4, <3>1, SealIInv
  <2> QED
    BY <1>38, <2>2, <2>3, <2>4 DEF Misbehaves
<1>39. ASSUME UNCHANGED vars PROVE IInv'
  <2>1. TypeOK'
    BY <1>39, <1>a DEF vars, TypeOK, parent, channels, frame, server
  <2>2. FrameInv' /\ OfferInv' /\ StageInv' /\ MessageInv'
    BY <1>39, <1>a, FramesKept DEF vars, frame
  <2>3. ReleaseInv'
    BY <1>39, <1>a DEF vars, ReleaseInv, parent, server
  <2> QED
    BY <2>1, <2>2, <2>3 DEF IInv
<1> QED
  BY <1>1, <1>2, <1>3, <1>4, <1>5, <1>6, <1>7, <1>8, <1>9, <1>10, <1>11, <1>12, <1>13, <1>14, <1>15, <1>16,
     <1>17, <1>18, <1>19, <1>20, <1>21, <1>22, <1>23, <1>24, <1>25, <1>26, <1>27, <1>28, <1>29, <1>30,
     <1>31, <1>32, <1>33, <1>34, <1>35, <1>36, <1>37, <1>38, <1>39 DEF Next, EntryStep, OpeningStep,
     BridgeStep, ProxyStep, ServerStep, HonestStep
-----------------------------------------------------------------------------
(* The theorems.                                                             *)

\* Every state of the part, the page, the frames and the server satisfies it.
LEMMA Invariant == Spec => []IInv
BY InitIInv, StepIInv, PTL DEF Spec

\* Whatever the user, the Views and the server do, the parts of the page agree on
\* whether there is a view, a frame and a message, for any number of openings.
THEOREM TypeCorrect == Spec => []TypeOK
<1>1. IInv => TypeOK
  BY DEF IInv
<1> QED
  BY <1>1, Invariant, PTL

\* onsandboxready runs once per view: no View, and no race of it with the page,
\* brings the private resource a second time.
THEOREM OffersOnceHolds == Spec => []OffersOnce
<1>1. IInv => OffersOnce
  BY DEF IInv, OfferInv, OffersOnce
<1> QED
  BY <1>1, Invariant, PTL

\* The cleanup closes every server view whose id the page has heard of, or reports it.
THEOREM ReleasedHolds == Spec => []Released
<1>1. IInv => Released
  <2> SUFFICES ASSUME IInv, NEW n \in Opened, served[n] = "open",
                      n < opens \/ page.cleanup \in {"done", "failed"}
               PROVE  n \in lost \cup reported
    BY DEF Released
  <2>1. TypeOK /\ ReleaseInv
    BY DEF IInv
  <2>2. CASE n < opens
    BY <2>1, <2>2 DEF ReleaseInv
  <2>3. CASE n = opens
    BY <2>1, <2>3 DEF ReleaseInv, TypeOK, Page, Opened
  <2>4. CASE n > opens
    BY <2>1, <2>4 DEF ReleaseInv, TypeOK, Page, Opened
  <2> QED
    BY <2>1, <2>2, <2>3, <2>4 DEF TypeOK, Opened
<1> QED
  BY <1>1, Invariant, PTL

-----------------------------------------------------------------------------
(* Privacy.                                                                  *)

\* A message that is posted is the last of its queue.
LEMMA PostedLast ==
  ASSUME TypeOK, NEW m \in Message, PostToProxy(m), m.kind \in Private => chat
  PROVE  Len(toProxy') > Len(toProxy) /\ toProxy'[Len(toProxy')].kind \in Private => chat
<1>1. CASE proxy.closed = "no"
  <2>1. toProxy' = Append(toProxy, m) /\ toProxy \in Seq(Message)
    BY <1>1 DEF PostToProxy, TypeOK
  <2>2. toProxy'[Len(toProxy')] = m
    BY <2>1
  <2> QED
    BY <2>2
<1>2. CASE proxy.closed # "no"
  <2>1. toProxy' = toProxy /\ Len(toProxy) \in Nat
    BY <1>2 DEF PostToProxy, TypeOK
  <2> QED
    BY <2>1
<1> QED
  BY <1>1, <1>2

\* Every answer that brings private data finds the chat current when it is sent.
THEOREM PrivateStaysInChatHolds == Spec => PrivateStaysInChat
<1> DEFINE Kept == Len(toProxy') > Len(toProxy) /\ toProxy'[Len(toProxy')].kind \in Private => chat
<1>1. TypeOK /\ [Next]_vars => [Kept]_vars
  <2> SUFFICES ASSUME TypeOK, Next PROVE Kept
    OBVIOUS
  <2>1. ASSUME toProxy' = toProxy \/ toProxy' = <<>> PROVE Kept
    <3>1. toProxy \in Seq(Message) /\ Len(toProxy) \in Nat /\ Len(<<>>) = 0
      BY DEF TypeOK
    <3> QED
      BY <2>1, <3>1
  <2>2. ASSUME NEW kind \in Kind, PostToProxy(Plain(kind)), kind \in Private => chat PROVE Kept
    BY <2>2, MessagesTyped, PostedLast
  <2>3. ASSUME NEW kind \in {"reply", "error"}, NEW k \in Call, PostToProxy(About(kind, k)), kind = "reply" => chat
        PROVE  Kept
    <3>1. About(kind, k) \in Message /\ About(kind, k).kind = kind
      BY MessagesTyped DEF Kind
    <3>2. kind \in Private => chat
      BY <2>3 DEF Private
    <3> QED
      BY <2>3, <3>1, <3>2, PostedLast
  <2>4. ASSUME NEW p, Fail(p) PROVE Kept
    BY <2>1, <2>4 DEF Fail, RemoveFrame
  <2>5. ASSUME FromHost PROVE Kept
    <3>1. CASE toProxy' = Tail(toProxy) /\ toProxy # <<>>
      <4>1. toProxy \in Seq(Message) /\ Len(toProxy') = Len(toProxy) - 1 /\ Len(toProxy) \in Nat
        BY <3>1 DEF TypeOK
      <4> QED
        BY <4>1
    <3> QED
      BY <2>1, <2>5, <3>1 DEF FromHost, LoadResource, Seal
  <2>6. ASSUME BridgeStep PROVE Kept
    <3>1. CASE OfferResource
      BY <2>2, <3>1 DEF OfferResource, HostReplies, Kind
    <3>2. CASE AnswerInitialize
      BY <2>2, <3>2 DEF AnswerInitialize, HostReplies, Kind, Private
    <3>3. CASE SendInput
      BY <2>2, <3>3 DEF SendInput, HostReplies, Kind
    <3>4. CASE SendResult
      BY <2>2, <3>4 DEF SendResult, HostPosts, Kind
    <3>5. CASE RequestTool
      BY <2>1, <2>3, <3>5, PostedFacts DEF RequestTool, HostGets, HostReplies, HostIgnores, TypeOK, Message
    <3>6. CASE ToolAnswered
      BY <2>3, <3>6 DEF ToolAnswered, HostPosts
    <3>7. CASE HostLeftChat \/ TransportRefuses
      BY <2>4, <3>7 DEF HostLeftChat, TransportRefuses
    <3>8. CASE AppReady \/ HostDrops
      BY <2>1, <3>8 DEF AppReady, HostDrops, HostIgnores, channels
    <3> QED
      BY <2>6, <3>1, <3>2, <3>3, <3>4, <3>5, <3>6, <3>7, <3>8 DEF BridgeStep
  <2>7. ASSUME EntryStep \/ BusEvent PROVE Kept
    BY <2>1, <2>7
    DEF EntryStep, BusEvent, Open, Close, Unmount, ClosingSettles, CloseView, Fail, RemoveFrame, channels
  <2>8. ASSUME OpeningStep PROVE Kept
    BY <2>1, <2>4, <2>8 DEF OpeningStep, OpeningLost, WithdrawOpening, StartBridge, RefuseView, Navigate,
       NavigateTooLate, OpeningSettled, Deleted, DeleteFails, channels
  <2>9. ASSUME ProxyStarts \/ ProxyDead \/ FromView PROVE Kept
    BY <2>1, <2>9 DEF ProxyStarts, ProxyDead, FromView, Seal, channels
  <2>10. ASSUME HonestStep \/ AppCalls \/ Misbehaves PROVE Kept
    BY <2>1, <2>10 DEF HonestStep, AppAsks, AppConfirms, AppHears, AppCalls, Misbehaves, AppPosts
  <2>11. ASSUME LeaveChat \/ ReturnToChat \/ ServerStep \/ ServerExpires PROVE Kept
    BY <2>1, <2>11 DEF LeaveChat, ReturnToChat, ServerStep, ServerOpens, ServerCloses, ServerExpires, channels
  <2> QED
    BY <2>5, <2>6, <2>7, <2>8, <2>9, <2>10, <2>11 DEF Next, ProxyStep
<1> QED
  BY <1>1, TypeCorrect, PTL DEF Spec, PrivateStaysInChat

-----------------------------------------------------------------------------
(* The session.                                                              *)

\* A step that leaves these alone is none of the session.
LEMMA SessionKept ==
  ASSUME page'.opening = "none" <=> page.opening = "none", page'.retired = page.retired,
         page'.offers = page.offers, page'.answered = page.answered, Serving' = Serving,
         app'.served = app.served, proxy'.phase = proxy.phase, proxy'.closed = proxy.closed
  PROVE  UNCHANGED Session!vars
BY DEF Session!vars, SessionHost, SessionGuest, SessionHere

\* A view that fails ends the session.
LEMMA FailEnds ==
  ASSUME IInv, NEW p \in Page, p.offers <= 1, p.retired = page.retired, p.cleanup = page.cleanup, Fail(p)
  PROVE  Session!End
<1>1. TypeOK /\ (p.retired <=> p.cleanup # "none")
  BY DEF IInv, ReleaseInv
<1>2. page'.retired /\ proxy'.frame = "none" /\ FrameInv'
  BY <1>1, FailFacts
<1>3. proxy'.phase = "empty" /\ ~app'.served
  BY <1>2 DEF FrameInv
<1> QED
  BY <1>2, <1>3 DEF Session!End, SessionHost, SessionGuest, SessionHere

\* A proxy that ends its View lets it vanish.
LEMMA SealVanishes ==
  ASSUME IInv, NEW why \in {"resource", "message", "navigation"},
         proxy' = [proxy EXCEPT !.closed = why], app'.served = app.served, UNCHANGED <<page, calls>>
  PROVE  Session!Vanish
<1>1. proxy'.closed # "no" /\ proxy'.phase = proxy.phase /\ Serving' = Serving
  BY DEF IInv, TypeOK, Proxy, Serving
<1>2. ~SessionHere'
  BY <1>1 DEF SessionHere
<1>3. SessionHost' = SessionHost
  BY <1>1 DEF SessionHost
<1>4. SessionGuest' = SessionGuest
  BY <1>1 DEF SessionGuest
<1> QED
  BY <1>2, <1>3, <1>4 DEF Session!Vanish, SessionHere

\* Every step of the page, its frames and the View is one of the session, or none.
THEOREM StepImplementsSession == IInv /\ [Next]_vars => [Session!Next]_Session!vars
<1> SUFFICES ASSUME IInv, [Next]_vars PROVE Session!Next \/ UNCHANGED Session!vars
  OBVIOUS
<1>a. /\ TypeOK /\ FrameInv /\ OfferInv /\ StageInv /\ MessageInv /\ ReleaseInv
      /\ page \in Page /\ proxy \in Proxy /\ app \in App /\ page.offers <= 1
  BY DEF IInv, TypeOK, OfferInv
<1> DEFINE Goal == Session!Next \/ UNCHANGED Session!vars
<1>e. Session!End => Goal
  BY DEF Session!Next
<1>v. Session!Vanish => Goal
  BY DEF Session!Next

<1>1. ASSUME LeaveChat \/ ReturnToChat \/ ClosingSettles \/ ServerStep \/ ServerExpires \/ UNCHANGED vars PROVE Goal
  BY <1>1, SessionKept DEF LeaveChat, ReturnToChat, ClosingSettles, ServerStep, ServerOpens, ServerCloses,
     ServerExpires, vars, frame, Serving
<1>2. ASSUME Close \/ Unmount \/ BusEvent PROVE Goal
  <2>1. Fail(page) \/ UNCHANGED <<page, frame, calls>>
    BY <1>2 DEF Close, Unmount, BusEvent, CloseView
  <2> QED
    BY <1>a, <1>e, <2>1, FailEnds, SessionKept DEF frame, Serving
<1>3. ASSUME Open PROVE Goal
  <2>1. page.opening = "none" \/ page.retired
    BY <1>3, <1>a DEF Open, ReleaseInv
  <2>2. /\ page' = NewPage /\ proxy' = NoProxy /\ ~app'.served /\ calls' = [k \in Call |-> "idle"]
    BY <1>3, <1>a DEF Open, Document, App
  <2>3. ~Serving'
    BY <2>2 DEF NewPage, Serving
  <2>4. SessionHost = "over" /\ SessionHost' = "idle" /\ SessionGuest' = "absent" /\ SessionHere'
    BY <2>1, <2>2, <2>3 DEF NewPage, NoProxy, SessionHost, SessionGuest, SessionHere
  <2> QED
    BY <2>4 DEF Session!Open, Session!Next
<1>4. ASSUME OpeningLost PROVE Goal
  <2> DEFINE p == [page EXCEPT !.opening = "failed"]
  <2>1. p \in Page /\ p.offers <= 1 /\ p.retired = page.retired /\ p.cleanup = page.cleanup
    BY <1>a DEF Page
  <2>2. Fail(p)
    BY <1>4 DEF OpeningLost
  <2> QED
    BY <1>e, <2>1, <2>2, FailEnds
<1>5. ASSUME RefuseView PROVE Goal
  <2> DEFINE p == [page EXCEPT !.opening = "failed", !.viewId = TRUE]
  <2>1. p \in Page /\ p.offers <= 1 /\ p.retired = page.retired /\ p.cleanup = page.cleanup
    BY <1>a DEF Page
  <2>2. Fail(p)
    BY <1>5 DEF RefuseView
  <2> QED
    BY <1>e, <2>1, <2>2, FailEnds
<1>6. ASSUME NavigateTooLate PROVE Goal
  <2> DEFINE p == [page EXCEPT !.opening = "failed"]
  <2>1. p \in Page /\ p.offers <= 1 /\ p.retired = page.retired /\ p.cleanup = page.cleanup
    BY <1>a DEF Page
  <2>2. Fail(p)
    BY <1>6 DEF NavigateTooLate
  <2> QED
    BY <1>e, <2>1, <2>2, FailEnds
<1>7. ASSUME HostLeftChat \/ TransportRefuses PROVE Goal
  BY <1>7, <1>a, <1>e, FailEnds DEF HostLeftChat, TransportRefuses
<1>8. ASSUME WithdrawOpening \/ Navigate \/ OpeningSettled \/ Deleted \/ DeleteFails PROVE Goal
  <2>1. /\ page.opening # "none" /\ page'.opening # "none" /\ page'.retired = page.retired
        /\ page'.offers = page.offers /\ page'.answered = page.answered /\ page'.greeting = page.greeting
    BY <1>8, <1>a
    DEF WithdrawOpening, Acknowledged, Navigate, OpeningSettled, Deleted, DeleteFails, ReleaseInv, Page
  <2>2. UNCHANGED <<app, calls>> /\ proxy'.phase = proxy.phase /\ proxy'.closed = proxy.closed
    BY <1>8, <1>a
    DEF WithdrawOpening, Acknowledged, Navigate, OpeningSettled, Deleted, DeleteFails, Proxy, frame
  <2> QED
    BY <2>1, <2>2, SessionKept DEF Serving
<1>9. ASSUME StartBridge PROVE Goal
  <2>1. /\ page.opening # "none" /\ page'.opening # "none" /\ page'.retired = page.retired
        /\ page'.offers = page.offers /\ page'.answered = page.answered /\ page'.greeting = page.greeting
    BY <1>9, <1>a DEF StartBridge, Acknowledged, Page
  <2>2. proxy.phase = "empty" /\ proxy.closed = "no"
    BY <1>9, <1>a DEF StartBridge, Acknowledged, FrameInv
  <2>3. UNCHANGED <<app, calls>> /\ proxy'.phase = "empty" /\ proxy'.closed = "no"
    BY <1>9 DEF StartBridge, Acknowledged, NoProxy
  <2> QED
    BY <2>1, <2>2, <2>3, SessionKept DEF Serving
<1>10. ASSUME OfferResource PROVE Goal
  <2>1. /\ Listening /\ toHost # <<>> /\ page.offers = 0 /\ page' = [page EXCEPT !.offers = @ + 1]
        /\ UNCHANGED <<proxy, app, calls>>
    BY <1>10, <1>a DEF OfferResource, HostGets, OfferInv, frame
  <2>2. proxy.phase = "empty" /\ ~page.answered /\ ~Serving
    BY <1>a, <2>1 DEF StageInv, Listening, Late
  <2>3. page'.offers = 1 /\ ~page'.answered /\ page'.opening = page.opening /\ ~page'.retired /\ ~Serving'
    BY <1>a, <2>1, <2>2 DEF Page, Serving, Listening
  <2> QED
    BY <2>1, <2>2, <2>3 DEF Session!Offer, Session!Next, SessionHost, SessionGuest, SessionHere, Listening
<1>11. ASSUME AnswerInitialize PROVE Goal
  <2>1. /\ Listening /\ toHost # <<>> /\ Head(toHost) \in Range(toHost) /\ UNCHANGED <<proxy, app, calls>>
        /\ \/ UNCHANGED page
           \/ Head(toHost).kind = "initialize" /\ page' = [page EXCEPT !.answered = TRUE]
    BY <1>11, <1>a, PostedFacts DEF AnswerInitialize, HostGets, TypeOK, frame
  <2>2. CASE UNCHANGED page
    BY <2>1, <2>2, SessionKept DEF Serving
  <2>3. CASE Head(toHost).kind = "initialize" /\ page' = [page EXCEPT !.answered = TRUE]
    <3>1. proxy.phase \in Late /\ page.offers > 0
      BY <1>a, <2>1, <2>3 DEF MessageInv, StageInv, Listening, Late
    <3>2. /\ page'.answered /\ page'.offers = page.offers /\ page'.opening = page.opening
          /\ page'.retired = page.retired /\ Serving' = Serving
      BY <1>a, <2>1, <2>3 DEF Page, Serving
    <3>3. CASE page.answered \/ Serving
      BY <2>1, <3>2, <3>3 DEF Session!vars, SessionHost, SessionGuest, SessionHere
    <3>4. CASE ~page.answered /\ ~Serving
      <4>1. proxy.phase = "initializing" /\ ~app.served
        BY <1>a, <2>1, <3>1, <3>4 DEF StageInv, Listening, Late
      <4> QED
        BY <2>1, <3>1, <3>2, <3>4, <4>1
        DEF Session!Answer, Session!Next, SessionHost, SessionGuest, SessionHere, Listening
    <3> QED
      BY <3>3, <3>4
  <2> QED
    BY <2>1, <2>2, <2>3
<1>12. ASSUME SendInput \/ RequestTool PROVE Goal
  <2>1. /\ Listening /\ toHost # <<>> /\ Head(toHost) \in Range(toHost) /\ Head(toHost).kind \in {"initialized", "call"}
        /\ UNCHANGED <<proxy, app>>
    BY <1>12, <1>a, PostedFacts DEF SendInput, RequestTool, HostGets, HostIgnores, TypeOK, frame
  <2>2. proxy.phase = "initialized" /\ page.answered
    BY <1>a, <2>1 DEF MessageInv, StageInv, Listening
  <2>3. /\ page'.answered = page.answered /\ page'.offers = page.offers /\ page'.opening = page.opening
        /\ page'.retired = page.retired
    BY <1>12, <1>a DEF SendInput, RequestTool, HostIgnores, Page
  <2>4. Serving'
    <3>1. CASE SendInput
      BY <1>a, <3>1 DEF SendInput, Serving, Page
    <3>2. CASE RequestTool
      <4>1. Head(toHost) \in Message
        BY <1>a, <2>1, PostedFacts DEF TypeOK
      <4> QED
        BY <1>a, <3>2, <4>1 DEF RequestTool, Serving, Message, TypeOK
    <3> QED
      BY <1>12, <3>1, <3>2
  <2>5. CASE Serving
    BY <2>1, <2>3, <2>4, <2>5, SessionKept
  <2>6. CASE ~Serving
    <3>1. ~app.served
      BY <1>a, <2>1, <2>6 DEF StageInv, Listening
    <3> QED
      BY <2>1, <2>2, <2>3, <2>4, <2>6, <3>1
      DEF Session!Serve, Session!Next, SessionHost, SessionGuest, SessionHere, Listening
  <2> QED
    BY <2>5, <2>6
<1>13. ASSUME SendResult \/ AppReady \/ ToolAnswered \/ HostDrops PROVE Goal
  <2>1. /\ page'.answered = page.answered /\ page'.offers = page.offers /\ page'.opening = page.opening
        /\ page'.retired = page.retired /\ UNCHANGED <<proxy, app>>
    BY <1>13, <1>a DEF SendResult, AppReady, ToolAnswered, HostDrops, HostIgnores, frame, Page
  <2>2. Serving' = Serving
    <3>1. CASE SendResult \/ AppReady
      BY <1>a, <3>1 DEF SendResult, AppReady, Serving, Page
    <3>2. CASE ToolAnswered
      BY <1>a, <3>2 DEF ToolAnswered, Serving, TypeOK
    <3>3. CASE HostDrops
      BY <3>3 DEF HostDrops, HostIgnores, Serving
    <3> QED
      BY <1>13, <3>1, <3>2, <3>3
  <2> QED
    BY <2>1, <2>2, SessionKept
<1>14. ASSUME ProxyStarts \/ ProxyDead PROVE Goal
  <2>1. UNCHANGED <<page, app, calls>> /\ proxy'.phase = proxy.phase /\ proxy'.closed = proxy.closed
    BY <1>14, <1>a DEF ProxyStarts, ProxyDead, Proxy
  <2> QED
    BY <2>1, SessionKept DEF Serving
<1>15. ASSUME FromHost PROVE Goal
  <2> DEFINE m == Head(toProxy)
  <2>1. /\ proxy.frame = "running" /\ proxy.closed = "no" /\ toProxy # <<>> /\ m \in Range(toProxy)
        /\ UNCHANGED <<page, calls>>
    BY <1>15, <1>a, PostedFacts DEF FromHost, Running, TypeOK
  <2>2. \/ Seal("resource") \/ Seal("message")
        \/ /\ m.kind = "resource-ready" /\ proxy.phase = "empty"
           /\ proxy' = [proxy EXCEPT !.phase = "loaded"] /\ app' = Document("fresh")
        \/ /\ m.kind # "resource-ready" /\ ViewPhase(m) # "refused"
           /\ proxy' = [proxy EXCEPT !.phase = ViewPhase(m)] /\ UNCHANGED app
    BY <1>15 DEF FromHost, LoadResource
  <2>3. ~page.retired /\ page.opening # "none" /\ Serving' = Serving
    BY <1>a, <2>1 DEF TypeOK, FrameInv, Serving
  <2>4. CASE Seal("resource") \/ Seal("message")
    BY <1>a, <1>v, <2>1, <2>4, SealVanishes DEF Seal, App
  <2>5. CASE /\ m.kind = "resource-ready" /\ proxy.phase = "empty"
             /\ proxy' = [proxy EXCEPT !.phase = "loaded"] /\ app' = Document("fresh")
    <3>1. page.offers > 0 /\ ~page.answered /\ ~Serving /\ ~app.served
      BY <1>a, <2>1, <2>3, <2>5 DEF MessageInv, StageInv, Late
    <3>2. proxy'.phase = "loaded" /\ proxy'.closed = "no" /\ ~app'.served
      BY <1>a, <2>1, <2>5 DEF Proxy, Document, App
    <3> QED
      BY <2>1, <2>3, <2>5, <3>1, <3>2
      DEF Session!Advance, Session!Progress, Session!Next, SessionHost, SessionGuest, SessionHere
  <2>6. CASE /\ m.kind # "resource-ready" /\ ViewPhase(m) # "refused"
             /\ proxy' = [proxy EXCEPT !.phase = ViewPhase(m)] /\ UNCHANGED app
    <3>1. \/ ViewPhase(m) = proxy.phase
          \/ ViewPhase(m) = "responded" /\ proxy.phase = "initializing" /\ m.kind = "answer"
      BY <2>6 DEF ViewPhase
    <3>2. proxy'.phase = ViewPhase(m) /\ proxy'.closed = "no"
      BY <1>a, <2>1, <2>6 DEF Proxy
    <3>3. CASE ViewPhase(m) = proxy.phase
      BY <2>1, <2>3, <2>6, <3>2, <3>3, SessionKept
    <3>4. CASE ViewPhase(m) = "responded" /\ proxy.phase = "initializing" /\ m.kind = "answer"
      <4>1. page.answered /\ ~Serving /\ ~app.served
        BY <1>a, <2>1, <2>3, <3>4 DEF MessageInv, StageInv
      <4> QED
        BY <2>1, <2>3, <2>6, <3>2, <3>4, <4>1
        DEF Session!Advance, Session!Progress, Session!Next, SessionHost, SessionGuest, SessionHere
    <3> QED
      BY <3>1, <3>3, <3>4
  <2> QED
    BY <2>2, <2>4, <2>5, <2>6
<1>16. ASSUME FromView PROVE Goal
  <2> DEFINE m == Head(fromView)
  <2>1. proxy.frame = "running" /\ proxy.closed = "no" /\ UNCHANGED <<page, calls>>
    BY <1>16 DEF FromView, Running
  <2>2. \/ Seal("message") \/ UNCHANGED <<proxy, app>>
        \/ HostPhase(m) # "refused" /\ proxy' = [proxy EXCEPT !.phase = HostPhase(m)] /\ UNCHANGED app
    BY <1>16 DEF FromView
  <2>3. ~page.retired /\ page.opening # "none" /\ Serving' = Serving
    BY <1>a, <2>1 DEF TypeOK, FrameInv, Serving
  <2>4. CASE Seal("message")
    BY <1>a, <1>v, <2>1, <2>4, SealVanishes DEF Seal, App
  <2>5. CASE UNCHANGED <<proxy, app>>
    BY <2>1, <2>3, <2>5, SessionKept
  <2>6. CASE HostPhase(m) # "refused" /\ proxy' = [proxy EXCEPT !.phase = HostPhase(m)] /\ UNCHANGED app
    <3>1. \/ HostPhase(m) = proxy.phase
          \/ HostPhase(m) = "initializing" /\ proxy.phase = "loaded"
          \/ HostPhase(m) = "initialized" /\ proxy.phase = "responded"
      BY <2>6 DEF HostPhase
    <3>2. proxy'.phase = HostPhase(m) /\ proxy'.closed = "no"
      BY <1>a, <2>1, <2>6 DEF Proxy
    <3>3. CASE HostPhase(m) = proxy.phase
      BY <2>1, <2>3, <2>6, <3>2, <3>3, SessionKept
    <3>4. CASE HostPhase(m) = "initializing" /\ proxy.phase = "loaded"
      <4>1. page.offers > 0 /\ ~page.answered /\ ~Serving /\ ~app.served
        BY <1>a, <2>3, <3>4 DEF StageInv, Late
      <4> QED
        BY <2>1, <2>3, <2>6, <3>2, <3>4, <4>1
        DEF Session!Advance, Session!Progress, Session!Next, SessionHost, SessionGuest, SessionHere
    <3>5. CASE HostPhase(m) = "initialized" /\ proxy.phase = "responded"
      <4>1. page.answered /\ ~Serving /\ ~app.served
        BY <1>a, <2>3, <3>5 DEF StageInv
      <4> QED
        BY <2>1, <2>3, <2>6, <3>2, <3>5, <4>1
        DEF Session!Advance, Session!Progress, Session!Next, SessionHost, SessionGuest, SessionHere
    <3> QED
      BY <3>1, <3>3, <3>4, <3>5
  <2> QED
    BY <2>2, <2>4, <2>5, <2>6
<1>17. ASSUME AppAsks \/ AppConfirms \/ AppCalls PROVE Goal
  <2>1. UNCHANGED <<page, proxy>> /\ app'.served = app.served
    BY <1>17, <1>a DEF AppAsks, AppConfirms, AppCalls, AppPosts, App
  <2>2. Serving' = Serving
    BY <1>17, <1>a, <2>1 DEF AppAsks, AppConfirms, AppCalls, Serving, TypeOK
  <2> QED
    BY <2>1, <2>2, SessionKept
<1>18. ASSUME AppHears PROVE Goal
  <2>1. /\ toView # <<>> /\ Head(toView) \in Range(toView) /\ app.at # "none" /\ UNCHANGED <<page, proxy, calls>>
        /\ app'.served <=> app.served \/ Head(toView).kind \in Private
    BY <1>18, <1>a, PostedFacts DEF AppHears, TypeOK, App
  <2>2. proxy.frame = "running" /\ proxy.closed = "no" /\ ~page.retired /\ page.opening # "none" /\ Serving' = Serving
    BY <1>a, <2>1 DEF TypeOK, FrameInv, Serving
  <2>3. CASE app'.served = app.served
    BY <2>1, <2>2, <2>3, SessionKept
  <2>4. CASE ~app.served /\ app'.served
    <3>1. Serving /\ proxy.phase = "initialized"
      BY <1>a, <2>1, <2>2, <2>4 DEF MessageInv, StageInv, Private
    <3> QED
      BY <2>1, <2>2, <2>4, <3>1
      DEF Session!Advance, Session!Progress, Session!Next, SessionHost, SessionGuest, SessionHere
  <2>5. app.served \in BOOLEAN /\ app'.served \in BOOLEAN
    BY <1>18, <1>a DEF AppHears, App
  <2> QED
    BY <2>1, <2>3, <2>4, <2>5
<1>19. ASSUME Misbehaves PROVE Goal
  <2>1. app \in App /\ calls \in [Call -> {"idle", "sent", "requested", "answered"}]
    BY <1>a DEF TypeOK
  <2>2. \/ /\ UNCHANGED <<page, proxy>> /\ app' = [app EXCEPT !.honest = FALSE, !.misdeeds = @ + 1]
           /\ calls' = calls \/ \E k \in Call : calls[k] = "idle" /\ calls' = [calls EXCEPT ![k] = "sent"]
        \/ /\ proxy' = [proxy EXCEPT !.closed = "navigation"] /\ UNCHANGED <<page, calls>>
           /\ app' = [app EXCEPT !.at = "none", !.honest = FALSE, !.misdeeds = @ + 1]
    BY <1>19 DEF Misbehaves, AppPosts
  <2>3. app'.served = app.served
    BY <2>1, <2>2 DEF App
  <2>4. CASE UNCHANGED <<page, proxy, calls>>
    BY <2>3, <2>4, SessionKept DEF Serving
  <2>5. CASE UNCHANGED <<page, proxy>> /\ \E k \in Call : calls[k] = "idle" /\ calls' = [calls EXCEPT ![k] = "sent"]
    <3>1. Serving' = Serving
      BY <2>1, <2>5 DEF Serving
    <3> QED
      BY <2>3, <2>5, <3>1, SessionKept
  <2>6. CASE proxy' = [proxy EXCEPT !.closed = "navigation"] /\ UNCHANGED <<page, calls>>
    BY <1>v, <2>3, <2>6, SealVanishes
  <2> QED
    BY <2>2, <2>4, <2>5, <2>6
<1> QED
  BY <1>1, <1>2, <1>3, <1>4, <1>5, <1>6, <1>7, <1>8, <1>9, <1>10, <1>11, <1>12, <1>13, <1>14, <1>15, <1>16,
     <1>17, <1>18, <1>19 DEF Next, EntryStep, OpeningStep, BridgeStep, ProxyStep, HonestStep

\* The page, its frames and any View implement AppSession for any number of openings.
THEOREM PageImplementsSession == Spec => ImplementsSession
<1>1. Init => Session!Init
  BY DEF Init, NoPage, NewPage, NoProxy, Session!Init, SessionHost, SessionGuest, SessionHere
<1> QED
  BY <1>1, StepImplementsSession, Invariant, PTL DEF Spec, ImplementsSession, Session!Spec
-----------------------------------------------------------------------------
(* A View that keeps to the protocol.                                        *)

Only(q, kinds) == \A m \in Range(q) : m.kind \in kinds
One(q, kind) == Len(q) = 1 /\ Head(q).kind = kind

\* Nothing but the announcement and the resource that answers it is under way.
Loading ==
  /\ proxy.phase = "empty" /\ app.at = "none" /\ fromView = <<>> /\ toView = <<>>
  /\ Only(toHost, {"proxy-ready"})
  /\ toProxy = <<>> \/ One(toProxy, "resource-ready")

\* The View has its document, and at most asks.
Loaded ==
  /\ proxy.phase = "loaded" /\ toHost = <<>> /\ toProxy = <<>> /\ toView = <<>>
  /\ \/ app.at = "fresh" /\ fromView = <<>>
     \/ app.at = "asking" /\ One(fromView, "initialize")

\* Its question is with the page, or the answer is on its way to the proxy.
Asked ==
  /\ proxy.phase = "initializing" /\ app.at = "asking" /\ fromView = <<>> /\ toView = <<>>
  /\ \/ One(toHost, "initialize") /\ toProxy = <<>>
     \/ toHost = <<>> /\ One(toProxy, "answer")

\* The answer is on its way to the View, or there, or confirmed: calls come after.
Told ==
  /\ proxy.phase = "responded" /\ toHost = <<>> /\ toProxy = <<>>
  /\ \/ app.at = "asking" /\ One(toView, "answer") /\ fromView = <<>>
     \/ app.at = "answered" /\ toView = <<>> /\ fromView = <<>>
     \/ /\ app.at = "confirmed" /\ toView = <<>>
        /\ fromView # <<>> /\ Head(fromView).kind = "initialized" /\ Only(Tail(fromView), {"call"})

\* The View only calls, and nothing of the initialization is left.
Confirmed ==
  /\ proxy.phase = "initialized" /\ app.at = "confirmed"
  /\ Only(fromView, {"call"}) /\ Only(toHost, {"initialized", "call"})
  /\ Only(toProxy, {"input", "result", "reply", "error"})

\* How far the initialization of a View can be.
Staged == Loading \/ Loaded \/ Asked \/ Told \/ Confirmed

\* A View that keeps to the protocol is at one of these stages until its proxy ends.
HonestInv ==
  app.honest =>
    /\ proxy.closed # "message"
    /\ proxy.closed = "no" => Staged

\* What is said of every message of a queue, when one is posted or taken.
LEMMA OnlyFacts ==
  ASSUME NEW kinds
  PROVE  /\ Only(<<>>, kinds)
         /\ \A q \in Seq(Message), m \in Message :
              Only(q, kinds) /\ m.kind \in kinds => Only(Append(q, m), kinds)
         /\ \A q \in Seq(Message) :
              q # <<>> /\ Only(q, kinds) => Head(q).kind \in kinds /\ Only(Tail(q), kinds)
<1>1. Only(<<>>, kinds)
  BY NothingPosted DEF Only
<1>2. ASSUME NEW q \in Seq(Message), NEW m \in Message, Only(q, kinds), m.kind \in kinds
      PROVE  Only(Append(q, m), kinds)
  BY <1>2, PostedFacts DEF Only
<1>3. ASSUME NEW q \in Seq(Message), q # <<>>, Only(q, kinds)
      PROVE  Head(q).kind \in kinds /\ Only(Tail(q), kinds)
  BY <1>3, PostedFacts DEF Only
<1> QED
  BY <1>1, <1>2, <1>3

\* A message posted to an empty queue is alone in it, and taken from it leaves none.
LEMMA OneFacts ==
  ASSUME NEW kind
  PROVE  /\ \A m \in Message : m.kind = kind => One(Append(<<>>, m), kind)
         /\ \A q \in Seq(Message) : One(q, kind) => q # <<>> /\ Head(q).kind = kind /\ Tail(q) = <<>>
<1>1. ASSUME NEW m \in Message, m.kind = kind PROVE One(Append(<<>>, m), kind)
  <2>1. <<>> \in Seq(Message)
    BY NothingPosted
  <2>2. Len(Append(<<>>, m)) = 1 /\ Head(Append(<<>>, m)) = m
    BY <2>1
  <2> QED
    BY <1>1, <2>2 DEF One
<1>2. ASSUME NEW q \in Seq(Message), One(q, kind)
      PROVE  q # <<>> /\ Head(q).kind = kind /\ Tail(q) = <<>>
  <2>1. Len(q) = 1 /\ Head(q).kind = kind
    BY <1>2 DEF One
  <2>2. q # <<>>
    <3>1. q = <<>> => Len(q) = 0
      OBVIOUS
    <3> QED
      BY <2>1, <3>1
  <2>3. Tail(q) \in Seq(Message) /\ Len(Tail(q)) = 0
    BY <2>1, <2>2
  <2>4. Tail(q) = <<>>
    <3>1. ASSUME NEW t \in Seq(Message), t # <<>> PROVE Len(t) # 0
      BY <3>1
    <3> QED
      BY <2>3, <3>1
  <2> QED
    BY <2>1, <2>2, <2>4
<1> QED
  BY <1>1, <1>2

\* A message posted behind another does not change which one comes first.
LEMMA BehindFacts ==
  ASSUME NEW q \in Seq(Message), q # <<>>, NEW m \in Message
  PROVE  /\ Append(q, m) # <<>> /\ Head(Append(q, m)) = Head(q)
         /\ Tail(q) \in Seq(Message) /\ Tail(Append(q, m)) = Append(Tail(q), m)
<1>1. Len(q) \in Nat \ {0} /\ Tail(q) \in Seq(Message) /\ Len(Tail(q)) = Len(q) - 1
  OBVIOUS
<1>2. /\ Append(q, m) \in Seq(Message) /\ Len(Append(q, m)) = Len(q) + 1
      /\ \A i \in 1..Len(q) : Append(q, m)[i] = q[i]
      /\ Append(q, m)[Len(q) + 1] = m
  OBVIOUS
<1>3. Append(q, m) # <<>> /\ Head(Append(q, m)) = Head(q)
  BY <1>1, <1>2
<1>4. Tail(Append(q, m)) = Append(Tail(q), m)
  BY <1>1, <1>2
<1> QED
  BY <1>1, <1>3, <1>4

\* A step that touches neither the frame nor the messages.
LEMMA StagedKept ==
  ASSUME HonestInv, UNCHANGED <<frame, channels>>
  PROVE  HonestInv'
BY DEF HonestInv, Staged, Loading, Loaded, Asked, Told, Confirmed, frame, channels

\* A step that leaves the proxy and the View alone need only keep the stage.
LEMMA PageStaged ==
  ASSUME HonestInv, UNCHANGED <<proxy, app>>, app.honest /\ proxy.closed = "no" => Staged'
  PROVE  HonestInv'
BY DEF HonestInv

\* With the frame everything of the last View is gone.
LEMMA FailStaged ==
  ASSUME TypeOK, NEW p, Fail(p)
  PROVE  HonestInv'
<1>1. /\ proxy' = NoProxy /\ app' = Document("none")
      /\ toHost' = <<>> /\ toProxy' = <<>> /\ fromView' = <<>> /\ toView' = <<>>
  BY DEF Fail, RemoveFrame
<1>2. proxy'.phase = "empty" /\ proxy'.closed = "no" /\ app'.at = "none"
  BY <1>1 DEF NoProxy, Document, TypeOK, App
<1>3. Loading'
  BY <1>1, <1>2, OnlyFacts DEF Loading
<1> QED
  BY <1>2, <1>3 DEF HonestInv, Staged

\* close() of the mounted part.
LEMMA CloseStaged ==
  ASSUME TypeOK, HonestInv, NEW mounted, CloseView(mounted)
  PROVE  HonestInv'
BY FailStaged, StagedKept DEF CloseView

\* A part that was just mounted.
LEMMA InitHonest == Init => HonestInv
<1> SUFFICES ASSUME Init PROVE HonestInv
  OBVIOUS
<1>1. proxy.phase = "empty" /\ proxy.closed = "no" /\ app.at = "none"
  BY DEF Init, NoProxy
<1>2. Loading
  BY <1>1, OnlyFacts DEF Init, Loading
<1> QED
  BY <1>1, <1>2 DEF HonestInv, Staged

\* At most one stage, and the page serves in the last one only: what the page may find
\* at the head of its queue tells it the stage.
LEMMA HeadTells ==
  ASSUME IInv, Staged, toHost # <<>>
  PROVE  \/ Loading /\ Head(toHost).kind = "proxy-ready" /\ toProxy = <<>>
         \/ Asked /\ Head(toHost).kind = "initialize" /\ Tail(toHost) = <<>> /\ toProxy = <<>>
         \/ Confirmed /\ Head(toHost).kind \in {"initialized", "call"}
<1>1. toHost \in Seq(Message) /\ toProxy \in Seq(Message)
  BY DEF IInv, TypeOK
<1>2. CASE Loading
  <2>1. Head(toHost).kind = "proxy-ready"
    BY <1>1, <1>2, OnlyFacts DEF Loading
  <2>2. page.offers = 0
    BY <2>1 DEF IInv, OfferInv
  <2>3. ~One(toProxy, "resource-ready")
    <3>1. SUFFICES ASSUME One(toProxy, "resource-ready") PROVE FALSE
      OBVIOUS
    <3>2. toProxy # <<>> /\ Head(toProxy).kind = "resource-ready"
      BY <1>1, <3>1, OneFacts
    <3>3. Head(toProxy) \in Range(toProxy)
      BY <1>1, <3>2, PostedFacts
    <3> QED
      BY <2>2, <3>2, <3>3 DEF IInv, MessageInv
  <2> QED
    BY <1>2, <2>1, <2>3 DEF Loading
<1>3. CASE Loaded \/ Told
  BY <1>3 DEF Loaded, Told
<1>4. CASE Asked
  BY <1>1, <1>4, OneFacts DEF Asked
<1>5. CASE Confirmed
  BY <1>1, <1>5, OnlyFacts DEF Confirmed
<1> QED
  BY <1>2, <1>3, <1>4, <1>5 DEF Staged

\* A page that serves has a confirmed View.
LEMMA ServingConfirmed ==
  ASSUME IInv, Staged, ~page.retired, Serving
  PROVE  Confirmed
BY DEF IInv, StageInv, Staged, Loading, Loaded, Asked, Told

\* A confirmed View's page takes a message from it or none, and posts one or none.
LEMMA ConfirmedServed ==
  ASSUME TypeOK, Confirmed, UNCHANGED <<frame, fromView, toView>>,
         NEW m \in Message, m.kind \in {"input", "result", "reply", "error"},
         toHost' = toHost \/ (toHost # <<>> /\ toHost' = Tail(toHost)),
         toProxy' = toProxy \/ PostToProxy(m)
  PROVE  Confirmed'
<1>1. toHost \in Seq(Message) /\ toProxy \in Seq(Message)
  BY DEF TypeOK
<1>2. Only(toHost', {"initialized", "call"})
  BY <1>1, OnlyFacts DEF Confirmed
<1>3. Only(toProxy', {"input", "result", "reply", "error"})
  <2>1. Only(toProxy, {"input", "result", "reply", "error"})
    BY DEF Confirmed
  <2>2. Only(Append(toProxy, m), {"input", "result", "reply", "error"})
    BY <1>1, <2>1, OnlyFacts
  <2> QED
    BY <2>1, <2>2 DEF PostToProxy
<1> QED
  BY <1>2, <1>3 DEF Confirmed, frame

\* A View that keeps to the protocol stays at one of its stages, whatever the user, the
\* page and the server do, and its proxy does not end it.
THEOREM StepHonest == IInv /\ HonestInv /\ [Next]_vars => HonestInv'
<1> SUFFICES ASSUME IInv, HonestInv, [Next]_vars PROVE HonestInv'
  OBVIOUS
<1>a. /\ TypeOK /\ FrameInv /\ OfferInv /\ StageInv /\ MessageInv
      /\ toHost \in Seq(Message) /\ toProxy \in Seq(Message)
      /\ fromView \in Seq(Message) /\ toView \in Seq(Message)
      /\ page \in Page /\ proxy \in Proxy /\ app \in App
  BY DEF IInv, TypeOK
<1>m. /\ Plain("resource-ready") \in Message /\ Plain("resource-ready").kind = "resource-ready"
      /\ Plain("answer") \in Message /\ Plain("answer").kind = "answer"
      /\ Plain("input") \in Message /\ Plain("input").kind = "input"
      /\ Plain("result") \in Message /\ Plain("result").kind = "result"
      /\ Plain("initialize") \in Message /\ Plain("initialize").kind = "initialize"
      /\ Plain("initialized") \in Message /\ Plain("initialized").kind = "initialized"
      /\ Plain("proxy-ready") \in Message /\ Plain("proxy-ready").kind = "proxy-ready"
      /\ \A k \in Call, kind \in {"call", "reply", "error"} :
           About(kind, k) \in Message /\ About(kind, k).kind = kind
  BY MessagesTyped DEF Kind

<1>1. ASSUME \/ LeaveChat \/ ReturnToChat \/ ClosingSettles \/ WithdrawOpening \/ OpeningSettled
             \/ Deleted \/ DeleteFails \/ ServerOpens \/ ServerCloses \/ ServerExpires \/ AppReady
             \/ UNCHANGED vars
      PROVE HonestInv'
  <2>1. UNCHANGED <<frame, channels>>
    BY <1>1 DEF LeaveChat, ReturnToChat, ClosingSettles, WithdrawOpening, OpeningSettled,
                Deleted, DeleteFails, ServerOpens, ServerCloses, ServerExpires, AppReady, vars
  <2> QED
    BY <2>1, StagedKept
<1>2. ASSUME BusEvent \/ Close \/ Unmount PROVE HonestInv'
  <2>1. (\E mounted \in BOOLEAN : CloseView(mounted)) \/ UNCHANGED <<frame, channels>>
    BY <1>2 DEF BusEvent, Close, Unmount
  <2> QED
    BY <1>a, <2>1, CloseStaged, StagedKept
<1>3. ASSUME Open PROVE HonestInv'
  <2>1. page.retired \/ page.opening = "none"
    BY <1>3 DEF IInv, ReleaseInv, Open
  <2>2. proxy.frame # "running"
    BY <1>a, <2>1 DEF TypeOK, FrameInv
  <2>3. toHost' = <<>> /\ toProxy' = <<>> /\ fromView' = <<>> /\ toView' = <<>>
    BY <1>3, <1>a, <2>2 DEF FrameInv, Open, channels
  <2>4. proxy'.phase = "empty" /\ proxy'.closed = "no" /\ app'.at = "none"
    BY <1>3, <1>a DEF Open, NoProxy, Document, App
  <2>5. Loading'
    BY <2>3, <2>4, OnlyFacts DEF Loading
  <2> QED
    BY <2>4, <2>5 DEF HonestInv, Staged
<1>4. ASSUME OpeningLost \/ RefuseView \/ NavigateTooLate \/ HostLeftChat \/ TransportRefuses
      PROVE HonestInv'
  <2>1. \E p : Fail(p)
    BY <1>4 DEF OpeningLost, RefuseView, NavigateTooLate, HostLeftChat, TransportRefuses
  <2> QED
    BY <1>a, <2>1, FailStaged
<1>5. ASSUME StartBridge PROVE HonestInv'
  <2>1. proxy.frame # "running"
    BY <1>5, <1>a DEF FrameInv, StartBridge, Acknowledged
  <2>2. /\ proxy'.phase = "empty" /\ proxy'.closed = "no" /\ app'.at = "none"
        /\ toHost' = <<>> /\ toProxy' = <<>> /\ fromView' = <<>> /\ toView' = <<>>
    BY <1>5, <1>a, <2>1 DEF FrameInv, StartBridge, NoProxy, channels
  <2>3. Loading'
    BY <2>2, OnlyFacts DEF Loading
  <2> QED
    BY <2>2, <2>3 DEF HonestInv, Staged
<1>6. ASSUME Navigate \/ ProxyDead PROVE HonestInv'
  <2>1. /\ proxy'.phase = proxy.phase /\ proxy'.closed = proxy.closed /\ UNCHANGED <<app, channels>>
    BY <1>6, <1>a DEF Navigate, ProxyDead, Proxy
  <2> QED
    BY <2>1 DEF HonestInv, Staged, Loading, Loaded, Asked, Told, Confirmed, channels
<1>7. ASSUME OfferResource PROVE HonestInv'
  <2>1. /\ toHost # <<>> /\ Head(toHost).kind = "proxy-ready" /\ UNCHANGED <<frame, fromView, toView>>
        /\ toHost' = Tail(toHost) /\ PostToProxy(Plain("resource-ready"))
    BY <1>7 DEF OfferResource, HostGets, HostReplies
  <2>2. ASSUME Staged, proxy.closed = "no" PROVE Loading'
    <3>1. Loading /\ toProxy = <<>>
      BY <2>1, <2>2, HeadTells
    <3>2. One(toProxy', "resource-ready")
      BY <1>m, <2>1, <2>2, <3>1, OneFacts DEF PostToProxy
    <3>3. Only(toHost', {"proxy-ready"})
      BY <1>a, <2>1, <3>1, OnlyFacts DEF Loading
    <3> QED
      BY <2>1, <3>1, <3>2, <3>3 DEF Loading, frame
  <2> QED
    BY <2>1, <2>2, PageStaged DEF HonestInv, Staged, frame
<1>8. ASSUME AnswerInitialize PROVE HonestInv'
  <2>1. /\ toHost # <<>> /\ Head(toHost).kind \in {"initialize", "malformed"}
        /\ UNCHANGED <<frame, fromView, toView>> /\ toHost' = Tail(toHost)
        /\ Head(toHost).kind = "initialize" => PostToProxy(Plain("answer"))
    BY <1>8 DEF AnswerInitialize, HostGets, HostReplies
  <2>2. ASSUME Staged, proxy.closed = "no" PROVE Asked'
    <3>1. /\ Asked /\ Head(toHost).kind = "initialize" /\ toHost' = <<>> /\ toProxy = <<>>
      BY <2>1, <2>2, HeadTells
    <3>2. One(toProxy', "answer")
      BY <1>m, <2>1, <2>2, <3>1, OneFacts DEF PostToProxy
    <3> QED
      BY <2>1, <3>1, <3>2 DEF Asked, frame
  <2> QED
    BY <2>1, <2>2, PageStaged DEF HonestInv, Staged, frame
<1>9. ASSUME SendInput \/ RequestTool \/ HostDrops PROVE HonestInv'
  <2>1. /\ toHost # <<>> /\ Head(toHost).kind \in {"initialized", "call", "teardown"}
        /\ UNCHANGED <<frame, fromView, toView>> /\ toHost' = Tail(toHost)
        /\ \E m \in Message : /\ m.kind \in {"input", "error"}
                              /\ toProxy' = toProxy \/ PostToProxy(m)
    <3>1. CASE SendInput
      BY <1>m, <3>1 DEF SendInput, HostGets, HostReplies
    <3>2. CASE RequestTool
      BY <1>a, <1>m, <3>2, PostedFacts DEF RequestTool, HostGets, HostReplies, HostIgnores, Message, frame
    <3>3. CASE HostDrops
      BY <1>m, <3>3 DEF HostDrops, HostGets, HostIgnores
    <3> QED
      BY <1>9, <3>1, <3>2, <3>3
  <2>2. ASSUME Staged, proxy.closed = "no" PROVE Confirmed'
    <3>1. Confirmed
      BY <2>1, <2>2, HeadTells
    <3> QED
      BY <1>a, <2>1, <3>1, ConfirmedServed
  <2> QED
    BY <2>1, <2>2, PageStaged DEF HonestInv, Staged, frame
<1>10. ASSUME SendResult \/ ToolAnswered PROVE HonestInv'
  <2>1. /\ ~page.retired /\ Serving /\ UNCHANGED <<frame, toHost, fromView, toView>>
        /\ \E m \in Message : m.kind \in {"result", "reply", "error"} /\ PostToProxy(m)
    <3>1. CASE SendResult
      BY <1>m, <3>1 DEF SendResult, HostPosts, Listening, Serving
    <3>2. CASE ToolAnswered
      BY <1>m, <3>2 DEF ToolAnswered, HostPosts, Listening, Serving
    <3> QED
      BY <1>10, <3>1, <3>2
  <2>2. ASSUME Staged, proxy.closed = "no" PROVE Confirmed'
    <3>1. Confirmed
      BY <2>1, <2>2, ServingConfirmed
    <3> QED
      BY <1>a, <2>1, <3>1, ConfirmedServed
  <2> QED
    BY <2>1, <2>2, PageStaged DEF HonestInv, Staged, frame
<1>11. ASSUME ProxyStarts PROVE HonestInv'
  <2>1. /\ proxy.frame = "loading" /\ proxy' = [proxy EXCEPT !.frame = "running"]
        /\ toHost' = Append(toHost, Plain("proxy-ready"))
        /\ UNCHANGED <<app, toProxy, fromView, toView>>
    BY <1>11 DEF ProxyStarts
  <2>2. /\ proxy'.phase = "empty" /\ proxy'.closed = "no" /\ app'.at = "none" /\ toHost = <<>>
        /\ toProxy' = <<>> /\ fromView' = <<>> /\ toView' = <<>>
    BY <1>a, <2>1 DEF FrameInv, Proxy
  <2>3. Only(toHost', {"proxy-ready"})
    BY <1>a, <1>m, <2>1, <2>2, OnlyFacts
  <2> QED
    BY <2>2, <2>3 DEF HonestInv, Staged, Loading
<1>12. ASSUME FromHost PROVE HonestInv'
  <2> SUFFICES ASSUME app'.honest PROVE proxy'.closed # "message" /\ (proxy'.closed = "no" => Staged')
    BY DEF HonestInv
  <2>1. proxy.frame = "running" /\ proxy.closed = "no" /\ toProxy # <<>>
    BY <1>12 DEF FromHost, Running
  <2>2. app.honest /\ Staged
    <3>1. app'.honest = app.honest
      BY <1>12, <1>a DEF FromHost, LoadResource, Seal, Document, App
    <3> QED
      BY <2>1, <3>1 DEF HonestInv
  <2>3. CASE Loading
    <3>1. Head(toProxy).kind = "resource-ready" /\ Tail(toProxy) = <<>> /\ proxy.phase = "empty"
      BY <1>a, <2>1, <2>3, OneFacts DEF Loading
    <3>2. LoadResource
      BY <1>12, <3>1 DEF FromHost
    <3>3. CASE Seal("resource")
      BY <1>a, <3>3 DEF Seal, Proxy
    <3>4. CASE /\ proxy' = [proxy EXCEPT !.phase = "loaded"] /\ app' = Document("fresh")
               /\ toProxy' = Tail(toProxy) /\ UNCHANGED <<toHost, fromView, toView>>
      <4>1. toHost = <<>>
        <5>1. page.offers > 0
          BY <1>a, <2>1, <3>1, PostedFacts DEF MessageInv
        <5> QED
          BY <1>a, <2>3, <5>1, OnlyFacts DEF Loading, OfferInv
      <4>2. proxy'.phase = "loaded" /\ app'.at = "fresh"
        BY <1>a, <3>4 DEF Proxy, Document, App
      <4>3. proxy'.closed = "no" /\ Loaded'
        BY <1>a, <2>1, <2>3, <3>1, <3>4, <4>1, <4>2 DEF Loading, Loaded, Proxy
      <4> QED
        BY <4>3 DEF Staged
    <3> QED
      BY <3>1, <3>2, <3>3, <3>4 DEF LoadResource
  <2>4. CASE Loaded \/ Told
    BY <2>1, <2>4 DEF Loaded, Told
  <2>5. CASE Asked
    <3>1. Head(toProxy).kind = "answer" /\ Tail(toProxy) = <<>> /\ toHost = <<>>
      BY <1>a, <2>1, <2>5, OneFacts DEF Asked
    <3>2. ViewPhase(Head(toProxy)) = "responded"
      BY <2>5, <3>1 DEF ViewPhase, Asked
    <3>3. /\ proxy' = [proxy EXCEPT !.phase = "responded"] /\ toProxy' = Tail(toProxy)
          /\ toView' = Append(toView, Head(toProxy)) /\ UNCHANGED <<app, toHost, fromView>>
      BY <1>12, <3>1, <3>2 DEF FromHost
    <3>4. One(toView', "answer")
      BY <1>a, <2>1, <2>5, <3>1, <3>3, OneFacts, PostedFacts DEF Asked
    <3>5. proxy'.phase = "responded" /\ proxy'.closed = "no"
      BY <1>a, <2>1, <3>3 DEF Proxy
    <3> QED
      BY <2>5, <3>1, <3>3, <3>4, <3>5 DEF Asked, Told, Staged
  <2>6. CASE Confirmed
    <3>1. Head(toProxy).kind \in {"input", "result", "reply", "error"}
      BY <1>a, <2>1, <2>6, OnlyFacts DEF Confirmed
    <3>2. ViewPhase(Head(toProxy)) = "initialized"
      BY <2>6 DEF ViewPhase, Confirmed
    <3>3. /\ proxy' = [proxy EXCEPT !.phase = "initialized"] /\ toProxy' = Tail(toProxy)
          /\ UNCHANGED <<app, toHost, fromView>>
      BY <1>12, <3>1, <3>2 DEF FromHost
    <3>4. Only(toProxy', {"input", "result", "reply", "error"})
      BY <1>a, <2>1, <2>6, <3>3, OnlyFacts DEF Confirmed
    <3>5. proxy'.phase = "initialized" /\ proxy'.closed = "no"
      BY <1>a, <2>1, <3>3 DEF Proxy
    <3> QED
      BY <2>6, <3>3, <3>4, <3>5 DEF Confirmed, Staged
  <2> QED
    BY <2>2, <2>3, <2>4, <2>5, <2>6 DEF Staged
<1>13. ASSUME FromView PROVE HonestInv'
  <2> SUFFICES ASSUME app'.honest PROVE proxy'.closed # "message" /\ (proxy'.closed = "no" => Staged')
    BY DEF HonestInv
  <2>1. proxy.frame = "running" /\ proxy.closed = "no" /\ fromView # <<>>
    BY <1>13 DEF FromView, Running
  <2>2. app.honest /\ Staged
    <3>1. app'.honest = app.honest
      BY <1>13, <1>a DEF FromView, Seal, App
    <3> QED
      BY <2>1, <3>1 DEF HonestInv
  <2>3. ASSUME NEW phase, HostPhase(Head(fromView)) = phase, phase \in {"initializing", "initialized"},
               ~Reserved(Head(fromView))
        PROVE  /\ proxy'.phase = phase /\ proxy'.closed = "no" /\ fromView' = Tail(fromView)
               /\ toHost' = Append(toHost, Head(fromView)) /\ UNCHANGED <<app, toProxy, toView>>
    BY <1>13, <1>a, <2>1, <2>3 DEF FromView, Proxy
  <2>4. CASE Loading
    BY <2>1, <2>4 DEF Loading
  <2>5. CASE Loaded
    <3>1. app.at = "asking" /\ Head(fromView).kind = "initialize" /\ Tail(fromView) = <<>>
      BY <1>a, <2>1, <2>5, OneFacts DEF Loaded
    <3>2. HostPhase(Head(fromView)) = "initializing" /\ ~Reserved(Head(fromView))
      BY <2>5, <3>1 DEF HostPhase, Reserved, Loaded
    <3>3. /\ proxy'.phase = "initializing" /\ proxy'.closed = "no" /\ fromView' = Tail(fromView)
          /\ toHost' = Append(toHost, Head(fromView)) /\ UNCHANGED <<app, toProxy, toView>>
      BY <2>3, <3>2
    <3>4. One(toHost', "initialize")
      BY <1>a, <2>1, <2>5, <3>1, <3>3, OneFacts, PostedFacts DEF Loaded
    <3> QED
      BY <2>5, <3>1, <3>3, <3>4 DEF Loaded, Asked, Staged
  <2>6. CASE Asked
    BY <2>1, <2>6 DEF Asked
  <2>7. CASE Told
    <3>1. /\ app.at = "confirmed" /\ Head(fromView).kind = "initialized" /\ Only(Tail(fromView), {"call"})
      BY <2>1, <2>7 DEF Told
    <3>2. HostPhase(Head(fromView)) = "initialized" /\ ~Reserved(Head(fromView))
      BY <2>7, <3>1 DEF HostPhase, Reserved, Told
    <3>3. /\ proxy'.phase = "initialized" /\ proxy'.closed = "no" /\ fromView' = Tail(fromView)
          /\ toHost' = Append(toHost, Head(fromView)) /\ UNCHANGED <<app, toProxy, toView>>
      BY <2>3, <3>2
    <3>4. Only(toHost', {"initialized", "call"})
      <4>1. Head(fromView) \in Message /\ toHost = <<>> /\ Head(fromView).kind \in {"initialized", "call"}
        BY <1>a, <2>1, <2>7, <3>1, PostedFacts DEF Told
      <4>2. Only(toHost, {"initialized", "call"})
        BY <4>1, OnlyFacts
      <4> QED
        BY <1>a, <3>3, <4>1, <4>2, OnlyFacts
    <3>5. Only(toProxy', {"input", "result", "reply", "error"})
      BY <2>7, <3>3, OnlyFacts DEF Told
    <3> QED
      BY <3>1, <3>3, <3>4, <3>5 DEF Confirmed, Staged
  <2>8. CASE Confirmed
    <3>1. Head(fromView).kind = "call" /\ Only(Tail(fromView), {"call"})
      BY <1>a, <2>1, <2>8, OnlyFacts DEF Confirmed
    <3>2. HostPhase(Head(fromView)) = "initialized" /\ ~Reserved(Head(fromView))
      BY <2>8, <3>1 DEF HostPhase, Reserved, Confirmed
    <3>3. /\ proxy'.phase = "initialized" /\ proxy'.closed = "no" /\ fromView' = Tail(fromView)
          /\ toHost' = Append(toHost, Head(fromView)) /\ UNCHANGED <<app, toProxy, toView>>
      BY <2>3, <3>2
    <3>4. Only(toHost', {"initialized", "call"})
      <4>1. Head(fromView) \in Message /\ Head(fromView).kind \in {"initialized", "call"}
        BY <1>a, <2>1, <3>1, PostedFacts
      <4> QED
        BY <1>a, <2>8, <3>3, <4>1, OnlyFacts DEF Confirmed
    <3> QED
      BY <2>8, <3>1, <3>3, <3>4 DEF Confirmed, Staged
  <2> QED
    BY <2>2, <2>4, <2>5, <2>6, <2>7, <2>8 DEF Staged
<1>14. ASSUME AppAsks PROVE HonestInv'
  <2>1. /\ app.at = "fresh" /\ app'.at = "asking" /\ app'.honest = app.honest
        /\ fromView' = Append(fromView, Plain("initialize")) /\ UNCHANGED <<proxy, toHost, toProxy, toView>>
    BY <1>14, <1>a DEF AppAsks, AppPosts, App
  <2>2. ASSUME app.honest PROVE proxy.closed = "no" /\ Loaded /\ fromView = <<>>
    <3>1. proxy.closed = "no" /\ Staged
      BY <1>a, <2>1, <2>2 DEF FrameInv, HonestInv
    <3> QED
      BY <2>1, <3>1 DEF Staged, Loading, Loaded, Asked, Told, Confirmed
  <2>3. One(Append(<<>>, Plain("initialize")), "initialize")
    BY <1>m, OneFacts
  <2> QED
    BY <2>1, <2>2, <2>3 DEF HonestInv, Staged, Loaded
<1>15. ASSUME AppConfirms PROVE HonestInv'
  <2>1. /\ app.at = "answered" /\ app'.at = "confirmed" /\ app'.honest = app.honest
        /\ fromView' = Append(fromView, Plain("initialized")) /\ UNCHANGED <<proxy, toHost, toProxy, toView>>
    BY <1>15, <1>a DEF AppConfirms, AppPosts, App
  <2>2. ASSUME app.honest PROVE proxy.closed = "no" /\ Told /\ fromView = <<>> /\ toView = <<>>
    <3>1. proxy.closed = "no" /\ Staged
      BY <1>a, <2>1, <2>2 DEF FrameInv, HonestInv
    <3> QED
      BY <2>1, <3>1 DEF Staged, Loading, Loaded, Asked, Told, Confirmed
  <2>3. One(Append(<<>>, Plain("initialized")), "initialized")
    BY <1>m, OneFacts
  <2>4. ASSUME app.honest PROVE Told'
    <3>1. fromView' \in Seq(Message) /\ One(fromView', "initialized")
      BY <1>a, <1>m, <2>1, <2>2, <2>3, <2>4, PostedFacts
    <3>2. fromView' # <<>> /\ Head(fromView').kind = "initialized" /\ Tail(fromView') = <<>>
      BY <3>1, OneFacts
    <3> QED
      BY <2>1, <2>2, <2>4, <3>2, OnlyFacts DEF Told
  <2> QED
    BY <2>1, <2>2, <2>4 DEF HonestInv, Staged
<1>16. ASSUME AppCalls PROVE HonestInv'
  <2>1. PICK k \in Call : AppPosts(About("call", k))
    BY <1>16 DEF AppCalls
  <2>2. /\ app.at = "confirmed" /\ fromView' = Append(fromView, About("call", k))
        /\ UNCHANGED <<app, proxy, toHost, toProxy, toView>>
    BY <1>16, <2>1 DEF AppCalls, AppPosts
  <2>3. About("call", k) \in Message /\ About("call", k).kind = "call"
    BY <1>m
  <2>4. ASSUME app.honest PROVE proxy.closed = "no" /\ (Told \/ Confirmed)
    <3>1. proxy.closed = "no" /\ Staged
      BY <1>a, <2>2, <2>4 DEF FrameInv, HonestInv
    <3> QED
      BY <2>2, <3>1 DEF Staged, Loading, Loaded, Asked
  <2>5. ASSUME Told PROVE Told'
    <3>1. fromView # <<>> /\ Head(fromView).kind = "initialized" /\ Only(Tail(fromView), {"call"})
      BY <2>2, <2>5 DEF Told
    <3>2. /\ fromView' # <<>> /\ Head(fromView').kind = "initialized"
          /\ Tail(fromView) \in Seq(Message) /\ Tail(fromView') = Append(Tail(fromView), About("call", k))
      BY <1>a, <2>2, <2>3, <3>1, BehindFacts
    <3>3. Only(Append(Tail(fromView), About("call", k)), {"call"})
      BY <2>3, <3>1, <3>2, OnlyFacts
    <3> QED
      BY <2>2, <2>5, <3>2, <3>3 DEF Told
  <2>6. ASSUME Confirmed PROVE Confirmed'
    <3>1. Only(fromView', {"call"})
      BY <1>a, <2>2, <2>3, <2>6, OnlyFacts DEF Confirmed
    <3> QED
      BY <2>2, <2>6, <3>1 DEF Confirmed
  <2> QED
    BY <2>2, <2>4, <2>5, <2>6 DEF HonestInv, Staged
<1>17. ASSUME AppHears PROVE HonestInv'
  <2>1. /\ app.at # "none" /\ toView # <<>> /\ toView' = Tail(toView) /\ app'.honest = app.honest
        /\ app'.at = IF Head(toView).kind = "answer" /\ app.at = "asking" THEN "answered" ELSE app.at
        /\ UNCHANGED <<proxy, toHost, toProxy, fromView>>
    BY <1>17, <1>a DEF AppHears, App
  <2>2. ASSUME app.honest PROVE proxy.closed = "no" /\ (Told \/ Confirmed)
    <3>1. proxy.closed = "no" /\ Staged
      BY <1>a, <2>1, <2>2 DEF FrameInv, HonestInv
    <3> QED
      BY <2>1, <3>1 DEF Staged, Loading, Loaded, Asked
  <2>3. ASSUME Told PROVE Told'
    <3>1. app.at = "asking" /\ Head(toView).kind = "answer" /\ Tail(toView) = <<>> /\ fromView = <<>>
      BY <1>a, <2>1, <2>3, OneFacts DEF Told
    <3> QED
      BY <2>1, <2>3, <3>1 DEF Told
  <2>4. ASSUME Confirmed PROVE Confirmed'
    BY <2>1, <2>4 DEF Confirmed
  <2> QED
    BY <2>1, <2>2, <2>3, <2>4 DEF HonestInv, Staged
<1>18. ASSUME Misbehaves PROVE HonestInv'
  <2>1. ~app'.honest
    BY <1>18, <1>a DEF Misbehaves, App
  <2> QED
    BY <2>1 DEF HonestInv
<1> QED
  BY <1>1, <1>2, <1>3, <1>4, <1>5, <1>6, <1>7, <1>8, <1>9, <1>10, <1>11, <1>12, <1>13, <1>14, <1>15, <1>16,
     <1>17, <1>18 DEF Next, EntryStep, OpeningStep, BridgeStep, ProxyStep, ServerStep, HonestStep

\* validateSequence never ends a View that keeps to the protocol, however its messages
\* and those of the page cross, for any number of openings, tool calls and breaches.
THEOREM HonestNeverEndedHolds == Spec => []HonestNeverEnded
<1>1. Spec => []HonestInv
  BY InitHonest, StepHonest, Invariant, PTL DEF Spec
<1>2. HonestInv => HonestNeverEnded
  BY DEF HonestInv, HonestNeverEnded
<1> QED
  BY <1>1, <1>2, PTL

-----------------------------------------------------------------------------
(* The server's side of Apps: its inductive invariant.                       *)

USE AppExecutionAssumption

\* What a task of a View has done fits its phase, and its result what it has done.
Sound(k, ran) ==
  /\ k.on = None <=> k.phase \in {"none", "ended"}
  /\ k.started => k.phase \in {"calling", "policy", "auditing", "returned"}
  /\ k.phase = "calling" => k.started
  /\ k.phase = "policy" => k.started /\ k.native
  /\ k.sent /\ k.phase # "ended" => k.started
  /\ k.native => ran
  /\ k.approved => k.native
  /\ ran => k.sent /\ ~k.refusal
  /\ k.phase = "returned" => /\ k.result # "none"
                             /\ k.result = "native" => k.approved
  /\ k.phase \in {"returned", "ended"} /\ k.result \in {"conflict", "refused"} => ~k.sent \/ k.refusal

TasksInv == \A c \in Operation : Sound(call[c], c \in executed)

\* An open View is held, on a result that is kept from a registration; a task of a
\* View keeps the View held.
HeldInv ==
  /\ \A p \in Publication : stage[p] = "kept" => source[p] \in Batch /\ Registered(source[p])
  /\ \A v \in View : view[v] = "open" => /\ v \in held
                                         /\ shows[v] \in Publication /\ stage[shows[v]] = "kept"
  /\ \A v \in held : view[v] # "none"
  /\ \A c \in Operation : Underway(c) => call[c].on \in held

\* A closer joins Views that are closed, with every task that they have.
JoinInv ==
  \A d \in Tasks :
    /\ closer[d].phase # "joining" => closer[d].at = None /\ closer[d].todo = {}
    /\ \A v \in View : v \in closer[d].todo \/ v = closer[d].at => view[v] = "closed"
    /\ \A c \in Operation : Underway(c) /\ call[c].on = closer[d].at => c \in closer[d].joins

\* While the connection retires nothing is registered, and its closer has yet to join
\* every task there is; afterwards there is none.
RetireInv ==
  /\ \A d \in Tasks : closer[d].phase = "joining" /\ closer[d].kind = "retire" =>
       /\ \A b \in Batch : ~Registered(b)
       /\ \A c \in Operation : Underway(c) => call[c].on \in closer[d].todo \cup {closer[d].at}
  /\ ~transport =>
       /\ \A b \in Batch : ~Registered(b)
       /\ \A c \in Operation : ~Underway(c)

ServerInv == ServerTypeOK /\ TasksInv /\ HeldInv /\ JoinInv /\ RetireInv

\* A registration that is still there after the step, and when one may be added.
Remains(b) == batch'[b] \in {"live", "fenced"}
Admitting == transport /\ \A d \in Tasks : closer[d].phase = "joining" => closer[d].kind # "retire"

\* What a step that neither opens nor joins a View may do to registrations, results
\* and Views.
Tidy ==
  /\ batch' \in [Batch -> {"unborn", "live", "fenced", "retired"}]
  /\ stage' \in [Publication -> {"none", "kept", "gone"}]
  /\ source' \in [Publication -> Batch \cup {None}]
  /\ view' \in [View -> {"none", "open", "closed"}]
  /\ shows' = shows
  /\ \A b \in Batch : Remains(b) => Registered(b) \/ Admitting
  /\ \A p \in Publication : stage'[p] = "kept" => source'[p] \in Batch /\ Remains(source'[p])
  /\ \A v \in View : /\ view'[v] = view[v] \/ (view[v] # "none" /\ view'[v] = "closed")
                     /\ view'[v] = "open" => stage'[shows[v]] = "kept"

-----------------------------------------------------------------------------
(* Revocations and withdrawals.                                             *)

\* The fields of a task that a revocation leaves alone.
Like(k, l) ==
  /\ k.on = l.on /\ k.phase = l.phase /\ k.started = l.started /\ k.sent = l.sent
  /\ k.native = l.native /\ k.approved = l.approved /\ k.refusal = l.refusal /\ k.result = l.result

\* A revocation cancels tasks and changes nothing else of them.
LEMMA StruckFacts ==
  ASSUME ServerTypeOK, NEW V
  PROVE  /\ Struck(V) \in [Operation -> Task]
         /\ \A c \in Operation : Like(Struck(V)[c], call[c])
<1>1. ASSUME NEW c \in Operation PROVE Struck(V)[c] \in Task /\ Like(Struck(V)[c], call[c])
  <2>1. call[c] \in Task
    BY DEF ServerTypeOK
  <2>2. [call[c] EXCEPT !.cancel = TRUE, !.struck = TRUE] \in Task
    BY <2>1 DEF Task
  <2>3. Like([call[c] EXCEPT !.cancel = TRUE, !.struck = TRUE], call[c]) /\ Like(call[c], call[c])
    BY <2>1 DEF Task, Like
  <2> QED
    BY <2>1, <2>2, <2>3 DEF Struck
<1> QED
  BY <1>1 DEF Struck

\* A discarded result leaves no View of its own open.
LEMMA DiscardFacts ==
  ASSUME ServerTypeOK, HeldInv, NEW P,
         batch' \in [Batch -> {"unborn", "live", "fenced", "retired"}],
         stage' = Discarded(P), view' = Revoked(OpenOn(P)), UNCHANGED <<source, shows>>,
         \A b \in Batch : Remains(b) => Registered(b) \/ Admitting,
         \A p \in Publication : stage[p] = "kept" /\ p \notin P => Remains(source[p])
  PROVE  Tidy
<1>1. stage' \in [Publication -> {"none", "kept", "gone"}] /\ view' \in [View -> {"none", "open", "closed"}]
  BY DEF ServerTypeOK, Discarded, Revoked
<1>2. \A p \in Publication : stage'[p] = "kept" => stage[p] = "kept" /\ p \notin P /\ Remains(source[p])
  BY DEF ServerTypeOK, Discarded
<1>3. ASSUME NEW v \in View
      PROVE  /\ view'[v] = view[v] \/ (view[v] # "none" /\ view'[v] = "closed")
             /\ view'[v] = "open" => stage'[shows[v]] = "kept"
  <2>1. view'[v] = view[v] \/ (view[v] = "open" /\ view'[v] = "closed")
    BY DEF ServerTypeOK, Revoked, OpenOn
  <2>2. view'[v] = "open" => view[v] = "open" /\ shows[v] \notin P
    BY DEF ServerTypeOK, Revoked, OpenOn
  <2> QED
    BY <2>1, <2>2 DEF HeldInv, Discarded
<1>4. \A p \in Publication : stage'[p] = "kept" => source'[p] \in Batch /\ Remains(source'[p])
  BY <1>2 DEF HeldInv
<1>5. source' \in [Publication -> Batch \cup {None}]
  BY DEF ServerTypeOK
<1> QED
  BY <1>1, <1>3, <1>4, <1>5 DEF Tidy

\* A check of a View's authority withdraws what has lapsed, and no more.
LEMMA CheckFacts ==
  ASSUME ServerInv, NEW gone, Withdraw(gone), UNCHANGED <<source, shows>>
  PROVE  Tidy
<1>1. ServerTypeOK /\ HeldInv
  BY DEF ServerInv
<1>2. batch' \in [Batch -> {"unborn", "live", "fenced", "retired"}]
  BY <1>1 DEF Withdraw, Fenced, ServerTypeOK
<1>3. \A b \in Batch : Remains(b) <=> Registered(b)
  BY <1>1 DEF Withdraw, Fenced, Registered, Remains, ServerTypeOK
<1>4. \A p \in Publication : stage[p] = "kept" /\ p \notin gone => Remains(source[p])
  BY <1>1, <1>3 DEF HeldInv
<1> QED
  BY <1>1, <1>2, <1>3, <1>4, DiscardFacts DEF Withdraw

\* Nothing is withdrawn.
LEMMA SameTidy ==
  ASSUME ServerInv, UNCHANGED <<batch, stage, view, source, shows>>
  PROVE  Tidy
BY DEF ServerInv, ServerTypeOK, HeldInv, Tidy, Registered, Remains

\* Closed Views stay closed, and the others stay held on results that are kept, while
\* tasks only end or go on.
LEMMA TidyHeld ==
  ASSUME ServerInv, Tidy, UNCHANGED held,
         \A c \in Operation : Underway(c)' => Underway(c) /\ call'[c].on = call[c].on
  PROVE  /\ HeldInv'
         /\ \A v \in View : view[v] = "closed" => view'[v] = "closed"
<1>1. ServerTypeOK /\ HeldInv
  BY DEF ServerInv
<1>2. \A v \in View : view'[v] = "open" =>
        v \in held' /\ shows'[v] \in Publication /\ stage'[shows'[v]] = "kept"
  BY <1>1 DEF Tidy, HeldInv
<1>3. \A v \in held' : view'[v] # "none"
  BY <1>1 DEF Tidy, HeldInv, ServerTypeOK
<1>4. \A c \in Operation : Underway(c)' => call'[c].on \in held'
  BY <1>1 DEF HeldInv
<1>5. \A p \in Publication : stage'[p] = "kept" => source'[p] \in Batch /\ Remains(source'[p])
  BY DEF Tidy
<1> QED
  BY <1>2, <1>3, <1>4, <1>5 DEF HeldInv, Tidy, Registered, Remains, Underway

\* While closers stand still, nothing is lost that they have to join.
LEMMA TidyInv ==
  ASSUME ServerInv, Tidy, UNCHANGED <<held, closer, transport>>,
         call' \in [Operation -> Task], valid' \subseteq Batch, expired' \subseteq Publication,
         accepting' \in BOOLEAN, executed' \subseteq Operation,
         \A c \in Operation : Underway(c)' => Underway(c) /\ call'[c].on = call[c].on,
         TasksInv'
  PROVE  ServerInv'
<1>1. ServerTypeOK /\ JoinInv /\ RetireInv
  BY DEF ServerInv
<1>2. ServerTypeOK'
  BY <1>1 DEF ServerTypeOK, Tidy
<1>3. HeldInv' /\ \A v \in View : view[v] = "closed" => view'[v] = "closed"
  BY TidyHeld
<1>4. JoinInv'
  BY <1>1, <1>3 DEF JoinInv, ServerTypeOK
<1>5. RetireInv'
  BY <1>1 DEF RetireInv, Tidy, Admitting, Registered, Remains, Underway
<1> QED
  BY <1>2, <1>3, <1>4, <1>5 DEF ServerInv

\* Tasks are cancelled, and none takes a step.
LEMMA NoneSteps ==
  ASSUME ServerInv, NEW V, call' = Struck(V), UNCHANGED executed
  PROVE  /\ call' \in [Operation -> Task] /\ TasksInv'
         /\ \A c \in Operation : Like(call'[c], call[c])
         /\ \A c \in Operation : Underway(c)' => Underway(c) /\ call'[c].on = call[c].on
<1>1. ServerTypeOK /\ TasksInv
  BY DEF ServerInv
<1>2. call' \in [Operation -> Task] /\ \A o \in Operation : Like(call'[o], call[o])
  BY <1>1, StruckFacts
<1>3. TasksInv'
  BY <1>1, <1>2 DEF TasksInv, Sound, Like
<1> QED
  BY <1>2, <1>3 DEF Underway, Like

\* What a native result that reaches its request now may rely on.
Given(c, result) ==
  /\ view[call[c].on] = "open" /\ stage[shows[call[c].on]] = "kept"
  /\ shows[call[c].on] \notin expired /\ source[shows[call[c].on]] \in valid
  /\ result = "native" => call[c].approved /\ c \in executed

\* One task takes a step; the others are cancelled at most.
TaskStep(c) ==
  /\ Tidy /\ UNCHANGED <<valid, source, expired, shows, held, accepting, executed, closer, transport>>
  /\ \E V \in SUBSET View, k \in Task :
       /\ call' = [Struck(V) EXCEPT ![c] = k]
       /\ Sound(k, c \in executed)
       /\ k.phase \notin {"none", "returned", "ended"} => Underway(c) /\ k.on = call[c].on
       /\ k.phase = "ended" /\ k.result \in {"native", "html"} => Given(c, k.result)

\* A result reaches a request only then.
Timely == \A c \in Operation :
  call'[c].phase = "ended" /\ call[c].phase # "ended" /\ call'[c].result \in {"native", "html"} => Given(c, call'[c].result)

\* Such a step keeps the invariant, and gives no result too early.
LEMMA TaskStepInv ==
  ASSUME ServerInv, NEW c \in Operation, TaskStep(c)
  PROVE  ServerInv' /\ Timely
<1>1. ServerTypeOK /\ TasksInv
  BY DEF ServerInv
<1>2. PICK V \in SUBSET View, k \in Task :
        /\ call' = [Struck(V) EXCEPT ![c] = k]
        /\ Sound(k, c \in executed)
        /\ k.phase \notin {"none", "returned", "ended"} => Underway(c) /\ k.on = call[c].on
        /\ k.phase = "ended" /\ k.result \in {"native", "html"} => Given(c, k.result)
  BY DEF TaskStep
<1>3. Struck(V) \in [Operation -> Task] /\ \A o \in Operation : Like(Struck(V)[o], call[o])
  BY <1>1, StruckFacts
<1>4. call' \in [Operation -> Task] /\ call'[c] = k /\ \A o \in Operation \ {c} : Like(call'[o], call[o])
  BY <1>2, <1>3
<1>5. TasksInv'
  <2>1. ASSUME NEW o \in Operation \ {c} PROVE Sound(call'[o], o \in executed)
    BY <1>1, <1>4 DEF TasksInv, Sound, Like
  <2> QED
    BY <1>2, <1>4, <2>1 DEF TasksInv, TaskStep
<1>6. \A o \in Operation : Underway(o)' => Underway(o) /\ call'[o].on = call[o].on
  BY <1>2, <1>4 DEF Underway, Like
<1>7. ServerInv'
  BY <1>1, <1>4, <1>5, <1>6, TidyInv DEF ServerTypeOK, TaskStep
<1>8. Timely
  BY <1>2, <1>4 DEF Timely, Like
<1> QED
  BY <1>7, <1>8

-----------------------------------------------------------------------------
(* The steps of calls, reads and deliveries.                                *)

\* Without a revocation the tasks are as they were.
LEMMA NoneStruck == ASSUME ServerTypeOK PROVE Struck({}) = call
BY DEF Struck, ServerTypeOK

Results == {"native", "refused", "html", "sent", "error", "conflict", "unknown", "withheld", "cancelled"}

\* The end of a child keeps what it has done.
LEMMA SettledFacts ==
  ASSUME NEW k \in Task, NEW value \in Results
  PROVE  /\ Settled(k, value) \in Task /\ Settled(k, value).phase = "returned"
         /\ Settled(k, value).on = k.on /\ Settled(k, value).started = k.started
         /\ Settled(k, value).sent = k.sent /\ Settled(k, value).native = k.native
         /\ Settled(k, value).approved = k.approved /\ Settled(k, value).refusal = k.refusal
         /\ Settled(k, value).result \in {value, "cancelled"}
<1> DEFINE E(r, f) == [k EXCEPT !.phase = "returned", !.result = r, !.failed = f,
                               !.cancel = FALSE, !.struck = FALSE, !.raised = "none"]
<1>1. ASSUME NEW r \in Results, NEW f \in BOOLEAN
      PROVE  /\ E(r, f) \in Task /\ E(r, f).phase = "returned"
             /\ E(r, f).on = k.on /\ E(r, f).started = k.started
             /\ E(r, f).sent = k.sent /\ E(r, f).native = k.native
             /\ E(r, f).approved = k.approved /\ E(r, f).refusal = k.refusal
             /\ E(r, f).result = r
  <2> DEFINE F == [k EXCEPT !.phase = "returned", !.result = r, !.failed = f]
             G == [F EXCEPT !.cancel = FALSE, !.struck = FALSE, !.raised = "none"]
  <2>1. /\ F \in Task /\ F.phase = "returned" /\ F.on = k.on /\ F.started = k.started
        /\ F.sent = k.sent /\ F.native = k.native /\ F.approved = k.approved
        /\ F.refusal = k.refusal /\ F.result = r
    BY DEF Task, Results
  <2> HIDE DEF F
  <2>2. /\ G \in Task /\ G.phase = F.phase /\ G.on = F.on /\ G.started = F.started
        /\ G.sent = F.sent /\ G.native = F.native /\ G.approved = F.approved
        /\ G.refusal = F.refusal /\ G.result = F.result
    BY <2>1 DEF Task
  <2>3. E(r, f) = G
    BY DEF F
  <2> HIDE DEF E, G
  <2> QED
    BY <2>1, <2>2, <2>3
<1>2. \E r \in {value, "cancelled"}, f \in BOOLEAN : Settled(k, value) = E(r, f)
  BY DEF Settled
<1>3. "cancelled" \in Results
  BY DEF Results
<1> HIDE DEF E
<1> QED
  BY <1>1, <1>2, <1>3

\* The end of a request keeps what its child's closers look at.
LEMMA OverFacts ==
  ASSUME NEW k \in Task, NEW value \in Results
  PROVE  /\ Over(k, value) \in Task /\ Over(k, value).phase = "ended" /\ Over(k, value).on = None
         /\ ~Over(k, value).started /\ Over(k, value).sent = k.sent
         /\ ~Over(k, value).native /\ ~Over(k, value).approved /\ Over(k, value).refusal = k.refusal
         /\ Over(k, value).result = value
<1>1. Fresh \in Task /\ Fresh.on = None /\ ~Fresh.started /\ ~Fresh.native /\ ~Fresh.approved
  BY DEF Fresh, Task
<1> HIDE DEF Fresh
<1> QED
  BY <1>1 DEF Over, Task, Results

\* A task that checks nothing.
LEMMA AloneStep ==
  ASSUME ServerInv, NEW c \in Operation, NEW k \in Task, call' = [call EXCEPT ![c] = k],
         UNCHANGED context, Sound(k, c \in executed),
         k.phase \notin {"none", "returned", "ended"} => Underway(c) /\ k.on = call[c].on,
         k.phase = "ended" => k.result \notin {"native", "html"}
  PROVE  TaskStep(c)
<1>1. Struck({}) = call
  BY NoneStruck DEF ServerInv
<1>2. Tidy
  BY SameTidy DEF context, results, views
<1> QED
  BY <1>1, <1>2 DEF TaskStep, context, results, views

\* A task that checks its View.
LEMMA CheckStep ==
  ASSUME ServerInv, NEW c \in Operation, NEW reader, NEW k \in Task, Check(call[c].on, reader),
         call' = [Checked(call[c].on, reader) EXCEPT ![c] = k],
         Sound(k, c \in executed),
         k.phase \notin {"none", "returned", "ended"} => Underway(c) /\ k.on = call[c].on,
         k.phase = "ended" /\ k.result \in {"native", "html"} => Given(c, k.result)
  PROVE  TaskStep(c)
<1>1. Tidy
  BY CheckFacts DEF Check
<1>2. OpenOn(Dropped(call[c].on, reader)) \in SUBSET View
  BY DEF OpenOn
<1> QED
  BY <1>1, <1>2 DEF TaskStep, Check, Checked

\* The task that takes a step, as a revocation in that step may have left it.
LEMMA TaskFacts ==
  ASSUME ServerInv, NEW c \in Operation, NEW V
  PROVE  /\ call \in [Operation -> Task] /\ Struck(V) \in [Operation -> Task]
         /\ call[c] \in Task /\ Struck(V)[c] \in Task
         /\ Like(Struck(V)[c], call[c]) /\ Sound(call[c], c \in executed)
BY StruckFacts DEF ServerInv, ServerTypeOK, TasksInv

\* A child ends, with a value that what it has done justifies.
Justified(c, value) ==
  /\ value = "native" => call[c].approved
  /\ value \in {"conflict", "refused"} => ~call[c].sent \/ call[c].refusal

\* What a child returned then fits what it has done.
LEMMA SettledSound ==
  ASSUME NEW c \in Operation, NEW k \in Task, Like(k, call[c]), Sound(call[c], c \in executed),
         call[c].phase \notin {"none", "ended"}, NEW value \in Results, Justified(c, value)
  PROVE  Sound(Settled(k, value), c \in executed)
BY SettledFacts DEF Like, Sound, Justified, Results

\* A child ends with a check of its View.
LEMMA SettleStep ==
  ASSUME ServerInv, NEW c \in Operation, call[c].phase \notin {"none", "ended"},
         NEW value \in Results, Justified(c, value), NEW reader, Check(call[c].on, reader),
         call' = [Checked(call[c].on, reader) EXCEPT ![c] = Settled(@, value)]
  PROVE  TaskStep(c)
<1> DEFINE s == Checked(call[c].on, reader)[c]
           k == Settled(s, value)
<1>1. s \in Task /\ Like(s, call[c]) /\ Sound(call[c], c \in executed)
  BY TaskFacts DEF Checked
<1>2. k \in Task /\ k.phase = "returned" /\ Sound(k, c \in executed)
  BY <1>1, SettledFacts, SettledSound
<1>3. call' = [Checked(call[c].on, reader) EXCEPT ![c] = k]
  OBVIOUS
<1> HIDE DEF k
<1> QED
  BY <1>2, <1>3, CheckStep

\* A child ends without a check.
LEMMA SettleAlone ==
  ASSUME ServerInv, NEW c \in Operation, call[c].phase \notin {"none", "ended"},
         NEW value \in Results, Justified(c, value), UNCHANGED context,
         call' = [call EXCEPT ![c] = Settled(@, value)]
  PROVE  TaskStep(c)
<1> DEFINE k == Settled(call[c], value)
<1>1. call[c] \in Task /\ Like(call[c], call[c]) /\ Sound(call[c], c \in executed)
  BY TaskFacts DEF Like
<1>2. k \in Task /\ k.phase = "returned" /\ Sound(k, c \in executed)
  BY <1>1, SettledFacts, SettledSound
<1>3. call' = [call EXCEPT ![c] = k]
  OBVIOUS
<1> HIDE DEF k
<1> QED
  BY <1>2, <1>3, AloneStep

\* A request ends.
LEMMA OverSound ==
  ASSUME NEW c \in Operation, NEW k \in Task, k.sent = call[c].sent, k.refusal = call[c].refusal,
         Sound(call[c], c \in executed), NEW value \in Results,
         value \in {"conflict", "refused"} => ~call[c].sent \/ call[c].refusal
  PROVE  Sound(Over(k, value), c \in executed)
BY OverFacts DEF Sound

\* A child starts, or was cancelled before.
LEMMA StartStep ==
  ASSUME ServerInv, NEW c \in Operation, Start(c)
  PROVE  TaskStep(c)
<1>1. call[c] \in Task /\ Sound(call[c], c \in executed)
  BY TaskFacts
<1>2. CASE call[c].cancel
  BY <1>2, SettleAlone DEF Start, Results, Justified
<1>3. CASE ~call[c].cancel
  <2>1. ASSUME NEW phase \in {"approving", "reading"},
               call' = [call EXCEPT ![c] = [call[c] EXCEPT !.phase = phase]]
        PROVE  TaskStep(c)
    <3> DEFINE k == [call[c] EXCEPT !.phase = phase]
    <3>1. k \in Task /\ Sound(k, c \in executed) /\ k.phase \notin {"ended"} /\ k.on = call[c].on
      BY <1>1, <2>1 DEF Start, Sound, Task
    <3> QED
      BY <2>1, <3>1, AloneStep DEF Start, Underway
  <2> QED
    BY <1>3, <2>1 DEF Start
<1> QED
  BY <1>2, <1>3

\* The steps of a child, or of Core for it, that check nothing.
LEMMA PlainSteps ==
  ASSUME ServerInv, NEW c \in Operation,
         Deny(c) \/ Disapprove(c) \/ Interrupt(c) \/ Refuse(c) \/ Break(c)
  PROVE  TaskStep(c)
<1>1. call[c] \in Task /\ call \in [Operation -> Task] /\ Sound(call[c], c \in executed)
  BY TaskFacts
<1>2. CASE Deny(c) \/ Disapprove(c)
  <2> DEFINE k == [call[c] EXCEPT !.phase = "auditing"]
  <2>1. call' = [call EXCEPT ![c] = k] /\ UNCHANGED context
    BY <1>2 DEF Deny, Disapprove
  <2>2. k \in Task /\ Sound(k, c \in executed) /\ k.phase # "ended" /\ Underway(c) /\ k.on = call[c].on
    BY <1>1, <1>2 DEF Deny, Disapprove, Sound, Task, Underway
  <2> HIDE DEF k
  <2> QED
    BY <2>1, <2>2, AloneStep
<1>3. CASE Interrupt(c)
  <2>1. PICK raised \in {"cancelled", "conflict"} :
          call' = [call EXCEPT ![c].phase = "auditing", ![c].raised = raised, ![c].cancel = FALSE]
    BY <1>3 DEF Interrupt
  <2> DEFINE k == [call[c] EXCEPT !.phase = "auditing", !.raised = raised, !.cancel = FALSE]
  <2>2. call' = [call EXCEPT ![c] = k] /\ UNCHANGED context
    BY <1>1, <1>3, <2>1 DEF Interrupt
  <2>3. k \in Task /\ Sound(k, c \in executed) /\ k.phase # "ended" /\ Underway(c) /\ k.on = call[c].on
    BY <1>1, <1>3 DEF Interrupt, Sound, Task, Underway
  <2> HIDE DEF k
  <2> QED
    BY <2>2, <2>3, AloneStep
<1>4. CASE Refuse(c)
  <2> DEFINE k == [call[c] EXCEPT !.phase = "auditing", !.refusal = TRUE]
  <2>1. call' = [call EXCEPT ![c] = k] /\ UNCHANGED context
    BY <1>1, <1>4 DEF Refuse
  <2>2. k \in Task /\ Sound(k, c \in executed) /\ k.phase # "ended" /\ Underway(c) /\ k.on = call[c].on
    BY <1>1, <1>4 DEF Refuse, Sound, Task, Underway
  <2> HIDE DEF k
  <2> QED
    BY <2>1, <2>2, AloneStep
<1>5. CASE Break(c)
  <2> DEFINE k == [call[c] EXCEPT !.phase = "auditing", !.raised = "unknown"]
  <2>1. call' = [call EXCEPT ![c] = k] /\ UNCHANGED context
    BY <1>1, <1>5 DEF Break
  <2>2. k \in Task /\ Sound(k, c \in executed) /\ k.phase # "ended" /\ Underway(c) /\ k.on = call[c].on
    BY <1>1, <1>5 DEF Break, Sound, Task, Underway
  <2> HIDE DEF k
  <2> QED
    BY <2>1, <2>2, AloneStep
<1> QED
  BY <1>2, <1>3, <1>4, <1>5

\* A child that ends without a check.
LEMMA EndSteps ==
  ASSUME ServerInv, NEW c \in Operation, NotAudited(c) \/ ReadCancelled(c)
  PROVE  TaskStep(c)
<1>1. PICK value \in {"unknown", "cancelled"} : call' = [call EXCEPT ![c] = Settled(@, value)]
  BY DEF NotAudited, ReadCancelled
<1> QED
  BY <1>1, SettleAlone DEF NotAudited, ReadCancelled, Results, Justified

\* A cancellation of the caller, of the transport or of the delivery itself.
LEMMA StopSteps ==
  ASSUME ServerInv, NEW c \in Operation, Stop(c) \/ CancelDelivery(c) \/ DeliveryCancelled(c)
  PROVE  TaskStep(c)
<1>1. call[c] \in Task /\ call \in [Operation -> Task] /\ Sound(call[c], c \in executed)
  BY TaskFacts
<1>2. "cancelled" \in Results
  BY DEF Results
<1>3. ASSUME NEW s \in Task, s.sent = call[c].sent, s.refusal = call[c].refusal,
             call' = [call EXCEPT ![c] = Over(s, "cancelled")], UNCHANGED context
      PROVE  TaskStep(c)
  <2> DEFINE k == Over(s, "cancelled")
  <2>1. k \in Task /\ k.phase = "ended" /\ k.result = "cancelled" /\ Sound(k, c \in executed)
    BY <1>1, <1>2, <1>3, OverFacts, OverSound
  <2> HIDE DEF k
  <2>2. call' = [call EXCEPT ![c] = k]
    BY <1>3 DEF k
  <2> QED
    BY <1>3, <2>1, <2>2, AloneStep
<1>4. CASE Stop(c)
  <2>1. CASE Underway(c)
    <3> DEFINE k == [call[c] EXCEPT !.cancel = TRUE, !.stopped = TRUE]
    <3>1. call' = [call EXCEPT ![c] = k] /\ UNCHANGED context /\ call[c].phase # "ended"
      BY <1>4, <2>1 DEF Stop
    <3>2. k \in Task /\ Like(k, call[c])
      BY <1>1 DEF Task, Like
    <3>3. Sound(k, c \in executed) /\ k.phase # "ended" /\ k.on = call[c].on
      BY <1>1, <3>1, <3>2 DEF Sound, Like
    <3> HIDE DEF k
    <3> QED
      BY <2>1, <3>1, <3>2, <3>3, AloneStep
  <2>2. CASE ~Underway(c)
    BY <1>1, <1>3, <1>4, <2>2 DEF Stop
  <2> QED
    BY <2>1, <2>2
<1>5. CASE CancelDelivery(c)
  <2> DEFINE k == [call[c] EXCEPT !.cancel = TRUE, !.struck = TRUE]
  <2>1. call' = [call EXCEPT ![c] = k] /\ UNCHANGED context
    BY <1>1, <1>5 DEF CancelDelivery
  <2>2. k \in Task /\ Sound(k, c \in executed) /\ k.phase # "ended" /\ Underway(c) /\ k.on = call[c].on
    BY <1>1, <1>5 DEF CancelDelivery, Sound, Task, Underway
  <2> HIDE DEF k
  <2> QED
    BY <2>1, <2>2, AloneStep
<1>6. CASE DeliveryCancelled(c)
  BY <1>1, <1>2, <1>3, <1>6, SettledFacts DEF DeliveryCancelled
<1> QED
  BY <1>4, <1>5, <1>6

\* A child whose View is current goes on, and one whose View is not goes to its audit.
LEMMA CheckedSteps ==
  ASSUME ServerInv, NEW c \in Operation, NEW reader \in BOOLEAN,
         Admit(c, reader) \/ Send(c, reader) \/ Answer(c, reader) \/ Approve(c, reader)
  PROVE  TaskStep(c)
<1> DEFINE s == Checked(call[c].on, reader)[c]
<1>1. /\ s \in Task /\ Like(s, call[c]) /\ Sound(call[c], c \in executed)
      /\ Checked(call[c].on, reader) \in [Operation -> Task]
  BY TaskFacts DEF Checked
<1>2. ASSUME NEW k \in Task, call' = [Checked(call[c].on, reader) EXCEPT ![c] = k], Check(call[c].on, reader),
             call[c].phase \in {"approving", "calling", "policy"}, k.phase \in {"calling", "policy", "auditing"},
             Sound(k, c \in executed), k.on = call[c].on
      PROVE  TaskStep(c)
  BY <1>2, CheckStep DEF Underway
<1>3. ASSUME NEW raised \in {"none", "conflict"}, Check(call[c].on, reader),
             call' = [Checked(call[c].on, reader) EXCEPT ![c] = [@ EXCEPT !.phase = "auditing", !.raised = raised]],
             call[c].phase \in {"approving", "calling", "policy"}
      PROVE  TaskStep(c)
  <2> DEFINE k == [s EXCEPT !.phase = "auditing", !.raised = raised]
  <2>1. k \in Task /\ Sound(k, c \in executed) /\ k.phase = "auditing" /\ k.on = call[c].on
    BY <1>1, <1>3 DEF Sound, Task, Like
  <2>2. call' = [Checked(call[c].on, reader) EXCEPT ![c] = k]
    BY <1>3
  <2> HIDE DEF k
  <2> QED
    BY <1>2, <1>3, <2>1, <2>2
<1>4. CASE Admit(c, reader)
  <2>1. CASE Current(call[c].on, reader)
    <3> DEFINE k == [s EXCEPT !.phase = "calling", !.started = TRUE]
    <3>1. call' = [Checked(call[c].on, reader) EXCEPT ![c] = k] /\ Check(call[c].on, reader) /\ call[c].phase = "approving"
      BY <1>4, <2>1 DEF Admit
    <3>2. k \in Task /\ Sound(k, c \in executed) /\ k.phase = "calling" /\ k.on = call[c].on
      BY <1>1, <3>1 DEF Sound, Task, Like
    <3> HIDE DEF k
    <3> QED
      BY <1>2, <3>1, <3>2
  <2> QED
    BY <1>3, <1>4, <2>1 DEF Admit
<1>5. CASE Send(c, reader)
  <2>1. CASE Current(call[c].on, reader)
    <3> DEFINE k == [s EXCEPT !.sent = TRUE]
    <3>1. call' = [Checked(call[c].on, reader) EXCEPT ![c] = k] /\ Check(call[c].on, reader) /\ call[c].phase = "calling"
      BY <1>5, <2>1 DEF Send
    <3>2. k \in Task /\ Sound(k, c \in executed) /\ k.phase = "calling" /\ k.on = call[c].on
      BY <1>1, <3>1 DEF Sound, Task, Like
    <3> HIDE DEF k
    <3> QED
      BY <1>2, <3>1, <3>2
  <2> QED
    BY <1>3, <1>5, <2>1 DEF Send
<1>6. CASE Answer(c, reader)
  <2>1. CASE Current(call[c].on, reader)
    <3> DEFINE k == [s EXCEPT !.phase = "policy", !.native = TRUE]
    <3>1. /\ call' = [Checked(call[c].on, reader) EXCEPT ![c] = k] /\ Check(call[c].on, reader)
          /\ call[c].phase = "calling" /\ c \in executed
      BY <1>6, <2>1 DEF Answer
    <3>2. k \in Task /\ Sound(k, c \in executed) /\ k.phase = "policy" /\ k.on = call[c].on
      BY <1>1, <3>1 DEF Sound, Task, Like
    <3> HIDE DEF k
    <3> QED
      BY <1>2, <3>1, <3>2
  <2> QED
    BY <1>3, <1>6, <2>1 DEF Answer
<1>7. CASE Approve(c, reader)
  <2>1. CASE Current(call[c].on, reader)
    <3> DEFINE k == [s EXCEPT !.phase = "auditing", !.approved = TRUE]
    <3>1. /\ call' = [Checked(call[c].on, reader) EXCEPT ![c] = k] /\ Check(call[c].on, reader)
          /\ call[c].phase = "policy"
      BY <1>7, <2>1 DEF Approve
    <3>2. k \in Task /\ Sound(k, c \in executed) /\ k.phase = "auditing" /\ k.on = call[c].on
      BY <1>1, <3>1 DEF Sound, Task, Like
    <3> HIDE DEF k
    <3> QED
      BY <1>2, <3>1, <3>2
  <2> QED
    BY <1>3, <1>7, <2>1 DEF Approve
<1> QED
  BY <1>4, <1>5, <1>6, <1>7

\* A child that checks its View before it ends.
LEMMA EndingSteps ==
  ASSUME ServerInv, NEW c \in Operation, NEW reader \in BOOLEAN, Audited(c, reader) \/ Read(c, reader)
  PROVE  TaskStep(c)
<1>1. call[c] \in Task /\ Sound(call[c], c \in executed)
  BY TaskFacts
<1>2. CASE Audited(c, reader)
  <2>1. ASSUME NEW current \in BOOLEAN
        PROVE  Outcome(c, current) \in Results /\ Justified(c, Outcome(c, current))
    BY <1>1, <1>2 DEF Audited, Outcome, Results, Justified, Sound, Task
  <2>2. CASE Rechecks(c)
    <3>1. Current(call[c].on, reader) \in BOOLEAN
      BY DEF Current, Found
    <3> QED
      BY <1>2, <2>1, <2>2, <3>1, SettleStep DEF Audited
  <2>3. CASE ~Rechecks(c)
    BY <1>2, <2>1, <2>3, SettleAlone DEF Audited, context, results, views
  <2> QED
    BY <2>2, <2>3
<1>3. CASE Read(c, reader)
  <2>1. PICK value \in {"html", "error", "conflict"} :
          call' = [Checked(call[c].on, reader) EXCEPT ![c] = Settled(@, value)]
    BY <1>3 DEF Read
  <2>2. value \in Results /\ Justified(c, value)
    BY <1>1, <1>3, <2>1 DEF Read, Results, Justified, Sound
  <2> QED
    BY <1>3, <2>1, <2>2, SettleStep DEF Read
<1> QED
  BY <1>2, <1>3

\* A request ends with a value after a check.
LEMMA OverStep ==
  ASSUME ServerInv, NEW c \in Operation, NEW reader, Check(call[c].on, reader),
         NEW value \in Results, value \in {"conflict", "refused"} => ~call[c].sent \/ call[c].refusal,
         value \in {"native", "html"} => Given(c, value),
         NEW s \in Task, s.sent = call[c].sent, s.refusal = call[c].refusal,
         call' = [Checked(call[c].on, reader) EXCEPT ![c] = Over(s, value)]
  PROVE  TaskStep(c)
<1> DEFINE k == Over(s, value)
<1>1. Sound(call[c], c \in executed)
  BY TaskFacts
<1>2. k \in Task /\ k.phase = "ended" /\ k.result = value /\ Sound(k, c \in executed)
  BY <1>1, OverFacts, OverSound
<1>3. call' = [Checked(call[c].on, reader) EXCEPT ![c] = k]
  OBVIOUS
<1> HIDE DEF k
<1> QED
  BY <1>2, <1>3, CheckStep

\* A current View is open on a result that is kept and not expired, of a valid source.
LEMMA CurrentFacts ==
  ASSUME ServerInv, NEW c \in Operation, NEW reader, Current(call[c].on, reader),
         call[c].phase = "returned", call[c].result \in {"native", "html"}
  PROVE  Given(c, call[c].result)
<1>1. call[c] \in Task /\ Sound(call[c], c \in executed)
  BY TaskFacts
<1>2. call[c].on \in View
  BY <1>1 DEF Sound, Task
<1>3. shows[call[c].on] \in Publication
  BY <1>2 DEF ServerInv, HeldInv, Current
<1>4. /\ view[call[c].on] = "open" /\ stage[shows[call[c].on]] = "kept"
      /\ shows[call[c].on] \notin expired /\ source[shows[call[c].on]] \in valid
  BY <1>3 DEF Current, Found, Lapsed, Live
<1>5. call[c].result = "native" => call[c].approved /\ c \in executed
  BY <1>1 DEF Sound
<1> QED
  BY <1>4, <1>5 DEF Given

\* The request resumes: with the value of its child only if the View is current now.
LEMMA ResumeStep ==
  ASSUME ServerInv, NEW c \in Operation, NEW reader \in BOOLEAN, Resume(c, reader)
  PROVE  TaskStep(c)
<1> DEFINE s == Checked(call[c].on, reader)[c]
<1>1. /\ s \in Task /\ Like(s, call[c]) /\ Sound(call[c], c \in executed)
      /\ call[c] \in Task /\ call[c].phase = "returned"
  BY TaskFacts DEF Checked, Resume
<1>2. RevokedOutcome(c) \in Results \ {"native", "html"} /\ (RevokedOutcome(c) \in {"conflict", "refused"} => ~call[c].sent)
  BY <1>1 DEF RevokedOutcome, Results, Sound
<1>3. CASE call[c].result \in Values
  <2>1. Check(call[c].on, reader)
    BY <1>3 DEF Resume
  <2>2. CASE Current(call[c].on, reader)
    <3>1. call' = [Checked(call[c].on, reader) EXCEPT ![c] = Over(s, s.result)]
      BY <1>3, <2>2 DEF Resume
    <3>2. s.result = call[c].result /\ s.sent = call[c].sent /\ s.refusal = call[c].refusal
      BY <1>1 DEF Like
    <3>3. s.result \in Results /\ (s.result \in {"conflict", "refused"} => ~call[c].sent \/ call[c].refusal)
      BY <1>1, <1>3, <3>2 DEF Values, Results, Sound
    <3>4. s.result \in {"native", "html"} => Given(c, s.result)
      BY <1>1, <2>2, <3>2, CurrentFacts
    <3> HIDE DEF s
    <3> QED
      BY <1>1, <2>1, <3>1, <3>2, <3>3, <3>4, OverStep
  <2>3. CASE ~Current(call[c].on, reader)
    <3>1. call' = [Checked(call[c].on, reader) EXCEPT ![c] = Over(s, RevokedOutcome(c))]
      BY <1>3, <2>3 DEF Resume
    <3>2. s.sent = call[c].sent /\ s.refusal = call[c].refusal
      BY <1>1 DEF Like
    <3> HIDE DEF s
    <3> QED
      BY <1>1, <1>2, <2>1, <3>1, <3>2, OverStep
  <2> QED
    BY <2>2, <2>3
<1>4. CASE call[c].result \notin Values
  <2>1. UNCHANGED context
    BY <1>4 DEF Resume, context, results, views
  <2>2. call[c].result \in Results \ {"native", "html"}
    BY <1>1, <1>4 DEF Task, Results, Values, Sound
  <2>3. ASSUME NEW value \in Results \ {"native", "html"}, call' = [call EXCEPT ![c] = Over(call[c], value)],
               value \in {"conflict", "refused"} => ~call[c].sent \/ call[c].refusal
        PROVE  TaskStep(c)
    <3> DEFINE k == Over(call[c], value)
    <3>1. k \in Task /\ k.phase = "ended" /\ k.result = value /\ Sound(k, c \in executed)
      BY <1>1, <2>3, OverFacts, OverSound
    <3>2. call' = [call EXCEPT ![c] = k]
      BY <2>3
    <3> HIDE DEF k
    <3> QED
      BY <2>1, <2>3, <3>1, <3>2, AloneStep
  <2>4. call[c].result \in {"conflict", "refused"} => ~call[c].sent \/ call[c].refusal
    BY <1>1 DEF Sound
  <2> QED
    BY <1>1, <1>2, <1>4, <2>2, <2>3, <2>4 DEF Resume
<1> QED
  BY <1>3, <1>4

\* A send ends; a delivery has no native result of its own.
LEMMA DeliveredStep ==
  ASSUME ServerInv, NEW c \in Operation, NEW reader \in BOOLEAN, Delivered(c, reader)
  PROVE  TaskStep(c)
<1> DEFINE s == Checked(call[c].on, reader)[c]
<1>1. s \in Task /\ Like(s, call[c]) /\ Sound(call[c], c \in executed)
  BY TaskFacts DEF Checked
<1>2. PICK value \in {"sent", "error", "conflict"} :
        call' = [Checked(call[c].on, reader) EXCEPT ![c] = Over(Settled(s, value), Settled(s, value).result)]
  BY DEF Delivered
<1> DEFINE e == Settled(s, value)
<1>3. value \in Results /\ "cancelled" \in Results
  BY DEF Results
<1>4. e \in Task /\ e.sent = s.sent /\ e.refusal = s.refusal /\ e.result \in {value, "cancelled"}
  BY <1>1, <1>3, SettledFacts
<1>5. e.sent = call[c].sent /\ e.refusal = call[c].refusal /\ ~call[c].sent
  BY <1>1, <1>4 DEF Like, Sound, Delivered
<1>6. e.result \in Results /\ e.result \notin {"native", "html"}
  BY <1>3, <1>4
<1> HIDE DEF e, s
<1>7. call' = [Checked(call[c].on, reader) EXCEPT ![c] = Over(e, e.result)] /\ Check(call[c].on, reader)
  BY <1>2 DEF e, s, Delivered
<1> QED
  BY <1>4, <1>5, <1>6, <1>7, OverStep

\* A step in which tasks are at most cancelled, and no closer moves.
LEMMA RevokeStep ==
  ASSUME ServerInv, Tidy, NEW V, call' = Struck(V), UNCHANGED <<held, closer, transport, executed>>,
         valid' \subseteq valid, expired' \subseteq Publication, UNCHANGED accepting
  PROVE  ServerInv' /\ Timely
<1>1. /\ call' \in [Operation -> Task] /\ TasksInv'
      /\ \A c \in Operation : Like(call'[c], call[c])
      /\ \A c \in Operation : Underway(c)' => Underway(c) /\ call'[c].on = call[c].on
  BY NoneSteps
<1>2. accepting' \in BOOLEAN /\ executed' \subseteq Operation /\ valid' \subseteq Batch
  BY DEF ServerInv, ServerTypeOK
<1>3. ServerInv'
  BY <1>1, <1>2, TidyInv
<1>4. Timely
  BY <1>1 DEF Timely, Like
<1> QED
  BY <1>3, <1>4

-----------------------------------------------------------------------------
(* Registrations, results and Views.                                        *)

\* The sources of results that are kept are registered.
LEMMA KeptFacts ==
  ASSUME ServerInv, NEW p \in Publication, stage[p] = "kept"
  PROVE  source[p] \in Batch /\ Registered(source[p])
BY DEF ServerInv, HeldInv

\* A registration takes the place of another, while nothing retires the connection.
LEMMA RegisterStep ==
  ASSUME ServerInv, NEW b \in Batch, Register(b)
  PROVE  ServerInv' /\ Timely
<1> DEFINE old == {o \in Batch : Registered(o)}
<1>1. /\ batch' = [o \in Batch |-> IF o = b THEN "live" ELSE IF o \in old THEN "retired" ELSE batch[o]]
      /\ stage' = Discarded(PublishedFrom(old)) /\ view' = Revoked(OpenOn(PublishedFrom(old)))
      /\ call' = Struck(OpenOn(PublishedFrom(old))) /\ Admitting
      /\ UNCHANGED <<valid, source, expired, shows, held, accepting, executed, closer, transport>>
  BY DEF Register, Admitting
<1>2. ServerTypeOK /\ HeldInv
  BY DEF ServerInv
<1>3. batch' \in [Batch -> {"unborn", "live", "fenced", "retired"}]
  BY <1>1, <1>2 DEF ServerTypeOK
<1>4. \A p \in Publication : ~(stage[p] = "kept" /\ p \notin PublishedFrom(old))
  BY KeptFacts DEF PublishedFrom
<1>5. Tidy
  BY <1>1, <1>2, <1>3, <1>4, DiscardFacts
<1> QED
  BY <1>1, <1>2, <1>5, RevokeStep DEF ServerTypeOK

\* The tools of a registration are unmounted.
LEMMA RetireStep ==
  ASSUME ServerInv, NEW b \in Batch, Retire(b)
  PROVE  ServerInv' /\ Timely
<1>1. ServerTypeOK /\ HeldInv
  BY DEF ServerInv
<1>2. batch' \in [Batch -> {"unborn", "live", "fenced", "retired"}]
  BY <1>1 DEF Retire, ServerTypeOK
<1>3. \A o \in Batch : Remains(o) <=> Registered(o) /\ o # b
  BY <1>1 DEF Retire, Remains, Registered, ServerTypeOK
<1>4. \A p \in Publication : stage[p] = "kept" /\ p \notin PublishedFrom({b}) => Remains(source[p])
  BY <1>3, KeptFacts DEF PublishedFrom
<1>5. Tidy
  BY <1>1, <1>2, <1>3, <1>4, DiscardFacts DEF Retire
<1> QED
  BY <1>1, <1>5, RevokeStep DEF Retire, ServerTypeOK

\* What goes without the call of anybody: the currency of a source, or time.
LEMMA LapseStep ==
  ASSUME ServerInv,
         \/ \E b \in Batch : LoseSource(b)
         \/ \E p \in Publication : Expire(p)
         \/ UNCHANGED serverVars
  PROVE  ServerInv' /\ Timely
<1>1. call' = Struck({})
  BY NoneStruck DEF LoseSource, Expire, serverVars, ServerInv
<1>2. Tidy
  BY SameTidy DEF LoseSource, Expire, serverVars, context, results, views
<1>3. valid' \subseteq valid /\ expired' \subseteq Publication
      /\ UNCHANGED <<held, closer, transport, executed, accepting>>
  BY DEF LoseSource, Expire, serverVars, context, results, views, ServerInv, ServerTypeOK
<1> QED
  BY <1>1, <1>2, <1>3, RevokeStep

\* A locator is read.
LEMMA ProbeStep ==
  ASSUME ServerInv, NEW p \in Publication, NEW reader \in BOOLEAN, Probe(p, reader)
  PROVE  ServerInv' /\ Timely
<1>1. Tidy
  BY CheckFacts DEF Probe
<1> QED
  BY <1>1, RevokeStep DEF Probe, ServerInv, ServerTypeOK

\* A policy change withdraws all results.
LEMMA WithdrawStep ==
  ASSUME ServerInv, WithdrawPublications
  PROVE  ServerInv' /\ Timely
<1>1. ServerTypeOK /\ HeldInv
  BY DEF ServerInv
<1>2. \A p \in Publication : stage'[p] # "kept"
  BY <1>1, KeptFacts DEF WithdrawPublications, Discarded, PublishedFrom, ServerTypeOK
<1>3. \A v \in View : view'[v] # "open" /\ (view'[v] = view[v] \/ (view[v] # "none" /\ view'[v] = "closed"))
  BY <1>1 DEF WithdrawPublications, Revoked, HeldInv, ServerTypeOK
<1>4. Tidy
  BY <1>1, <1>2, <1>3 DEF WithdrawPublications, Tidy, Discarded, Revoked, ServerTypeOK, Registered, Remains
<1> QED
  BY <1>1, <1>4, RevokeStep DEF WithdrawPublications, ServerTypeOK

\* A result is published from a registration that is live, or withdraws those of one that is not.
LEMMA PublishStep ==
  ASSUME ServerInv, NEW p \in Publication, NEW b \in Batch, Publish(p, b)
  PROVE  ServerInv' /\ Timely
<1>1. ServerTypeOK /\ HeldInv
  BY DEF ServerInv
<1> DEFINE gone == IF Live(b) THEN Lapsed ELSE PublishedFrom({b})
<1> DEFINE kept == IF Live(b) /\ Cardinality(PublishedFrom(Batch) \ gone) < MaxPublications THEN {p} ELSE {}
<1>2. /\ stage' = [q \in Publication |-> IF q \in kept THEN "kept" ELSE Discarded(gone)[q]]
      /\ source' = [q \in Publication |-> IF q \in kept THEN b ELSE source[q]]
      /\ batch' = Fenced(IF Live(b) THEN {} ELSE {b})
      /\ view' = Revoked(OpenOn(gone)) /\ call' = Struck(OpenOn(gone))
  BY Zenon DEF Publish
<1> HIDE DEF kept
<1>3. Registered(b) /\ stage[p] = "none" /\ UNCHANGED <<valid, expired, shows, held, accepting, executed, closer, transport>>
  BY DEF Publish
<1>4. batch' \in [Batch -> {"unborn", "live", "fenced", "retired"}]
  BY <1>1, <1>2 DEF ServerTypeOK, Fenced
<1>5. \A o \in Batch : Remains(o) <=> Registered(o)
  BY <1>1, <1>2, <1>3 DEF Remains, Registered, Fenced, ServerTypeOK
<1>6. stage' \in [Publication -> {"none", "kept", "gone"}] /\ source' \in [Publication -> Batch \cup {None}]
      /\ view' \in [View -> {"none", "open", "closed"}]
  BY <1>1, <1>2 DEF ServerTypeOK, Discarded, Revoked
<1>7. ASSUME NEW q \in Publication, stage'[q] = "kept" PROVE source'[q] \in Batch /\ Remains(source'[q])
  <2>1. CASE q \in kept
    BY <1>2, <1>3, <1>5, <2>1
  <2>2. CASE q \notin kept
    <3>1. stage[q] = "kept" /\ source'[q] = source[q]
      BY <1>1, <1>2, <1>7, <2>2 DEF Discarded, ServerTypeOK
    <3> QED
      BY <1>5, <3>1, KeptFacts
  <2> QED
    BY <2>1, <2>2
<1>8. ASSUME NEW v \in View
      PROVE  /\ view'[v] = view[v] \/ (view[v] # "none" /\ view'[v] = "closed")
             /\ view'[v] = "open" => stage'[shows[v]] = "kept"
  <2>1. view'[v] = view[v] \/ (view[v] = "open" /\ view'[v] = "closed")
    BY <1>1, <1>2 DEF ServerTypeOK, Revoked, OpenOn
  <2>2. view'[v] = "open" => view[v] = "open" /\ shows[v] \notin gone
    BY <1>1, <1>2 DEF ServerTypeOK, Revoked, OpenOn
  <2>3. view[v] = "open" => shows[v] \in Publication /\ stage[shows[v]] = "kept"
    BY <1>1 DEF HeldInv
  <2> HIDE DEF gone
  <2> QED
    BY <1>2, <2>1, <2>2, <2>3 DEF Discarded
<1>9. Tidy
  BY <1>3, <1>4, <1>5, <1>6, <1>7, <1>8 DEF Tidy
<1> HIDE DEF gone
<1> QED
  BY <1>1, <1>2, <1>3, <1>9, RevokeStep DEF ServerTypeOK

\* The native server runs a tool that was sent and not refused.
LEMMA ExecuteStep ==
  ASSUME ServerInv, NEW c \in Operation, Execute(c)
  PROVE  ServerInv' /\ Timely
<1>1. UNCHANGED <<batch, valid, results, views, accepting, call, closer, transport>> /\ executed' = executed \cup {c}
      /\ call[c].sent /\ ~call[c].refusal
  BY DEF Execute
<1>2. ServerTypeOK /\ TasksInv
  BY DEF ServerInv
<1>3. TasksInv'
  BY <1>1, <1>2 DEF TasksInv, Sound
<1>4. Tidy
  BY <1>1, SameTidy DEF results, views
<1>5. ServerInv'
  BY <1>1, <1>2, <1>3, <1>4, TidyInv DEF ServerTypeOK, results, views, Underway
<1> QED
  BY <1>1, <1>5 DEF Timely

\* An operation of an open View begins: no closer is to join that View, and the
\* connection neither retires nor is closed.
LEMMA BeginStep ==
  ASSUME ServerInv, NEW c \in Operation, NEW v \in View, Begin(c, v)
  PROVE  ServerInv' /\ Timely
<1>1. ServerTypeOK /\ TasksInv /\ HeldInv /\ JoinInv /\ RetireInv
  BY DEF ServerInv
<1>2. PICK phase \in {"sending", "queued"} :
        call' = [call EXCEPT ![c] = [call[c] EXCEPT !.on = v, !.phase = phase]]
  <2>1. CASE c \in Delivery
    BY <1>1, <2>1 DEF Begin, ServerTypeOK
  <2>2. CASE c \notin Delivery
    BY <1>1, <2>2 DEF Begin, ServerTypeOK
  <2> QED
    BY <2>1, <2>2
<1> DEFINE k == [call[c] EXCEPT !.on = v, !.phase = phase]
<1>3. view[v] = "open" /\ stage[shows[v]] = "kept"
  BY DEF Begin, Current, Found
<1>4. call[c].phase = "none" /\ UNCHANGED context
  BY DEF Begin
<1>5. /\ k \in Task /\ k.on = v /\ k.phase = phase /\ k.started = call[c].started /\ k.sent = call[c].sent
      /\ k.native = call[c].native /\ k.approved = call[c].approved /\ k.refusal = call[c].refusal
  <2>1. call[c] \in Task
    BY <1>1 DEF ServerTypeOK
  <2> QED
    BY <2>1 DEF Task
<1> HIDE DEF k
<1>6. Sound(k, c \in executed)
  BY <1>1, <1>2, <1>4, <1>5 DEF TasksInv, Sound
<1>14. call' = [call EXCEPT ![c] = k]
  BY <1>2 DEF k
<1>7. call' \in [Operation -> Task] /\ \A o \in Operation \ {c} : call'[o] = call[o]
  BY <1>1, <1>14, <1>5 DEF ServerTypeOK
<1>8. ServerTypeOK' /\ TasksInv'
  BY <1>1, <1>14, <1>4, <1>6, <1>7 DEF ServerTypeOK, TasksInv, context, results, views
<1>9. \A o \in Operation :
        Underway(o)' => (Underway(o) /\ call'[o].on = call[o].on) \/ (o = c /\ call'[o].on = v)
  <2>1. call'[c] = k
    BY <1>1, <1>14 DEF ServerTypeOK
  <2> QED
    BY <1>5, <1>7, <2>1 DEF Underway
<1>10. HeldInv'
  <2>1. v \in held
    BY <1>1, <1>3 DEF HeldInv
  <2>2. \A o \in Operation : Underway(o)' => call'[o].on \in held'
    BY <1>1, <1>4, <1>9, <2>1 DEF HeldInv, context, views
  <2> QED
    BY <1>1, <1>4, <2>2 DEF HeldInv, context, results, views, Registered, Underway
<1>11. JoinInv'
  <2>1. \A d \in Tasks : v # closer[d].at
    BY <1>1, <1>3 DEF JoinInv
  <2> QED
    BY <1>1, <1>4, <1>9, <2>1 DEF JoinInv, context, views, Underway
<1>12. RetireInv'
  <2>1. source[shows[v]] \in Batch /\ Registered(source[shows[v]])
    BY <1>1, <1>3 DEF HeldInv
  <2>2. transport /\ \A d \in Tasks : ~(closer[d].phase = "joining" /\ closer[d].kind = "retire")
    BY <1>1, <2>1 DEF RetireInv
  <2> QED
    BY <1>4, <2>2 DEF RetireInv, context
<1>13. Timely
  BY <1>2, <1>14, <1>4, <1>5, <1>7 DEF Timely, ServerTypeOK
<1> QED
  BY <1>8, <1>10, <1>11, <1>12, <1>13 DEF ServerInv

\* A View opens on a result that is kept, and nothing joins it yet.
LEMMA OpenViewStep ==
  ASSUME ServerInv, NEW v \in View, NEW p \in Publication, OpenView(v, p)
  PROVE  ServerInv' /\ Timely
<1>1. ServerTypeOK /\ TasksInv /\ HeldInv /\ JoinInv /\ RetireInv
  BY DEF ServerInv
<1>2. /\ view[v] = "none" /\ stage[p] = "kept"
      /\ view' = [view EXCEPT ![v] = "open"] /\ shows' = [shows EXCEPT ![v] = p] /\ held' = held \cup {v}
      /\ UNCHANGED <<batch, valid, results, accepting, call, executed, closer, transport>>
  BY DEF OpenView, Found
<1>3. ServerTypeOK' /\ TasksInv' /\ RetireInv'
  BY <1>1, <1>2 DEF ServerTypeOK, TasksInv, RetireInv, results, Registered, Underway
<1>4. HeldInv'
  BY <1>1, <1>2 DEF HeldInv, ServerTypeOK, results, Registered, Underway
<1>5. JoinInv'
  BY <1>1, <1>2 DEF JoinInv, ServerTypeOK, Underway
<1>6. Timely
  BY <1>2 DEF Timely
<1> QED
  BY <1>1, <1>3, <1>4, <1>5, <1>6 DEF ServerInv

\* A closer takes the Views that it is to join: every held View that is closed by then.
LEMMA DrainStep ==
  ASSUME ServerInv, NEW d \in Tasks, NEW kind \in {"drain", "retire"}, NEW retired \in SUBSET Batch,
         Drain(d, kind, retired), kind = "retire" => \A b \in Batch : Registered(b) => b \in retired,
         accepting' \in BOOLEAN
  PROVE  ServerInv' /\ Timely
<1>1. ServerTypeOK /\ TasksInv /\ HeldInv /\ JoinInv /\ RetireInv
  BY DEF ServerInv
<1> DEFINE stale == {b \in Batch \ retired : batch[b] = "live" /\ b \notin valid}
           gone == Lapsed \cup PublishedFrom(retired \cup stale)
<1>2. /\ closer[d].phase = "idle"
      /\ batch' = [b \in Batch |-> IF b \in retired THEN "retired" ELSE Fenced(stale)[b]]
      /\ stage' = Discarded(gone) /\ view' = Revoked(OpenOn(gone)) /\ call' = Struck(OpenOn(gone))
      /\ closer' = [closer EXCEPT ![d].phase = "joining", ![d].kind = kind, ![d].failed = FALSE,
                                  ![d].todo = {v \in held : Revoked(OpenOn(gone))[v] = "closed"}]
      /\ UNCHANGED <<valid, source, expired, shows, held, executed, transport>>
  BY DEF Drain
<1>3. \A b \in Batch : Remains(b) => Registered(b) /\ b \notin retired
  BY <1>1, <1>2 DEF Remains, Registered, Fenced, ServerTypeOK
<1>4. Tidy
  <2>1. batch' \in [Batch -> {"unborn", "live", "fenced", "retired"}]
    BY <1>1, <1>2 DEF ServerTypeOK, Fenced
  <2>2. ASSUME NEW p \in Publication, stage[p] = "kept", p \notin gone PROVE Remains(source[p])
    <3>1. source[p] \in Batch /\ Registered(source[p]) /\ source[p] \notin retired \cup stale
      BY <2>2, KeptFacts DEF PublishedFrom
    <3> HIDE DEF stale
    <3> QED
      BY <1>2, <3>1 DEF Remains, Registered, Fenced
  <2> HIDE DEF gone
  <2> QED
    BY <1>1, <1>2, <1>3, <2>1, <2>2, DiscardFacts
<1>5. /\ call' \in [Operation -> Task] /\ TasksInv'
      /\ \A c \in Operation : Like(call'[c], call[c])
      /\ \A c \in Operation : Underway(c)' => Underway(c) /\ call'[c].on = call[c].on
  BY <1>2, NoneSteps
<1>6. HeldInv' /\ \A v \in View : view[v] = "closed" => view'[v] = "closed"
  BY <1>2, <1>4, <1>5, TidyHeld
<1> HIDE DEF gone
<1>7. /\ closer'[d] = [closer[d] EXCEPT !.phase = "joining", !.kind = kind, !.failed = FALSE,
                                        !.todo = {v \in held : view'[v] = "closed"}]
      /\ closer' \in [Tasks -> Owner] /\ \A o \in Tasks \ {d} : closer'[o] = closer[o]
  <2>1. closer[d] \in Owner /\ {v \in held : view'[v] = "closed"} \in SUBSET View
    BY <1>1 DEF ServerTypeOK
  <2>2. closer' = [closer EXCEPT ![d] = [closer[d] EXCEPT !.phase = "joining", !.kind = kind, !.failed = FALSE,
                                        !.todo = {v \in held : view'[v] = "closed"}]]
    BY <1>1, <1>2 DEF ServerTypeOK
  <2>3. [closer[d] EXCEPT !.phase = "joining", !.kind = kind, !.failed = FALSE,
                          !.todo = {v \in held : view'[v] = "closed"}] \in Owner
    BY <2>1 DEF Owner
  <2> QED
    BY <1>1, <2>2, <2>3 DEF ServerTypeOK
<1>8. closer'[d].phase = "joining" /\ closer'[d].kind = kind /\ closer'[d].todo = {v \in held : view'[v] = "closed"}
      /\ closer'[d].at = None
  <2>1. closer[d] \in Owner /\ closer[d].at = None
    BY <1>1, <1>2 DEF ServerTypeOK, JoinInv
  <2> QED
    BY <1>7, <2>1 DEF Owner
<1>9. ServerTypeOK'
  BY <1>1, <1>2, <1>4, <1>5, <1>7 DEF ServerTypeOK, Tidy
<1>10. JoinInv'
  <2>1. \A c \in Operation : Underway(c)' => call'[c].on # None
    BY <1>5 DEF TasksInv, Sound, Underway
  <2>2. ASSUME NEW o \in Tasks \ {d}
        PROVE  /\ closer'[o].phase # "joining" => closer'[o].at = None /\ closer'[o].todo = {}
               /\ \A v \in View : v \in closer'[o].todo \/ v = closer'[o].at => view'[v] = "closed"
               /\ \A c \in Operation : Underway(c)' /\ call'[c].on = closer'[o].at => c \in closer'[o].joins
    BY <1>1, <1>5, <1>6, <1>7 DEF JoinInv
  <2>3. /\ closer'[d].phase # "joining" => closer'[d].at = None /\ closer'[d].todo = {}
        /\ \A v \in View : v \in closer'[d].todo \/ v = closer'[d].at => view'[v] = "closed"
        /\ \A c \in Operation : Underway(c)' /\ call'[c].on = closer'[d].at => c \in closer'[d].joins
    BY <1>8, <2>1
  <2> QED
    BY <2>2, <2>3 DEF JoinInv, Underway
<1>11. RetireInv'
  <2>1. ASSUME NEW o \in Tasks, closer'[o].phase = "joining", closer'[o].kind = "retire"
        PROVE  /\ \A b \in Batch : ~Remains(b)
               /\ \A c \in Operation : Underway(c)' => call'[c].on \in closer'[o].todo \cup {closer'[o].at}
    <3>1. CASE o = d
      <4>1. \A b \in Batch : ~Remains(b)
        BY <1>3, <1>8, <2>1, <3>1
      <4>2. \A v \in View : view'[v] # "open"
        BY <4>1, <1>4, <1>1 DEF Tidy, HeldInv, ServerTypeOK
      <4>3. ASSUME NEW c \in Operation, Underway(c)' PROVE call'[c].on \in closer'[d].todo
        <5>1. call'[c].on \in held
          BY <1>2, <1>6, <4>3 DEF HeldInv
        <5> QED
          BY <1>1, <1>2, <1>6, <1>8, <1>9, <4>2, <5>1 DEF HeldInv, ServerTypeOK
      <4> QED
        BY <3>1, <4>1, <4>3
    <3>2. CASE o # d
      <4>1. closer'[o] = closer[o]
        BY <1>7, <3>2
      <4> QED
        BY <1>1, <1>3, <1>5, <2>1, <4>1 DEF RetireInv
    <3> QED
      BY <3>1, <3>2
  <2>2. ~transport' => (\A b \in Batch : ~Remains(b)) /\ \A c \in Operation : ~Underway(c)'
    BY <1>1, <1>2, <1>3, <1>5 DEF RetireInv
  <2> QED
    BY <2>1, <2>2 DEF RetireInv, Remains, Registered, Underway
<1>12. Timely
  BY <1>5 DEF Timely, Like
<1> QED
  BY <1>5, <1>6, <1>9, <1>10, <1>11, <1>12 DEF ServerInv

-----------------------------------------------------------------------------
(* Closers.                                                                 *)

\* A View is closed by its user, and its tasks are still to be joined.
LEMMA CloseOneViewStep ==
  ASSUME ServerInv, NEW d \in Tasks, NEW v \in View, CloseOneView(d, v)
  PROVE  ServerInv' /\ Timely
<1>1. ServerTypeOK /\ TasksInv /\ HeldInv /\ JoinInv /\ RetireInv
  BY DEF ServerInv
<1>2. /\ closer[d].phase = "idle" /\ v \in held
      /\ view' = Revoked({v}) /\ call' = Struck({v})
      /\ closer' = [closer EXCEPT ![d].phase = "joining", ![d].kind = "view", ![d].todo = {v}]
      /\ UNCHANGED <<batch, valid, results, shows, held, accepting, executed, transport>>
  BY DEF CloseOneView
<1>3. Tidy
  BY <1>1, <1>2 DEF Tidy, HeldInv, ServerTypeOK, Revoked, results, Registered, Remains
<1>4. /\ call' \in [Operation -> Task] /\ TasksInv'
      /\ \A c \in Operation : Like(call'[c], call[c])
      /\ \A c \in Operation : Underway(c)' => Underway(c) /\ call'[c].on = call[c].on
  BY <1>2, NoneSteps
<1>5. HeldInv' /\ \A u \in View : view[u] = "closed" => view'[u] = "closed"
  BY <1>2, <1>3, <1>4, TidyHeld
<1>6. closer[d] \in Owner /\ closer[d].at = None
  BY <1>1, <1>2 DEF ServerTypeOK, JoinInv
<1>7. /\ closer'[d] \in Owner /\ closer'[d].phase = "joining" /\ closer'[d].kind = "view"
      /\ closer'[d].todo = {v} /\ closer'[d].at = None
  BY <1>1, <1>2, <1>6 DEF ServerTypeOK, Owner
<1>8. closer' \in [Tasks -> Owner] /\ \A o \in Tasks \ {d} : closer'[o] = closer[o]
  BY <1>1, <1>2, <1>7 DEF ServerTypeOK
<1>9. ServerTypeOK'
  <2>1. UNCHANGED <<valid, expired, shows, held, accepting, executed, transport>>
    BY <1>2 DEF results
  <2> QED
    BY <1>1, <1>3, <1>4, <1>8, <2>1 DEF ServerTypeOK, Tidy
<1>10. JoinInv'
  <2>1. \A c \in Operation : Underway(c)' => call'[c].on # None
    BY <1>4 DEF TasksInv, Sound, Underway
  <2>2. view'[v] = "closed"
    BY <1>2 DEF Revoked
  <2>3. ASSUME NEW o \in Tasks \ {d}
        PROVE  /\ closer'[o].phase # "joining" => closer'[o].at = None /\ closer'[o].todo = {}
               /\ \A u \in View : u \in closer'[o].todo \/ u = closer'[o].at => view'[u] = "closed"
               /\ \A c \in Operation : Underway(c)' /\ call'[c].on = closer'[o].at => c \in closer'[o].joins
    BY <1>1, <1>4, <1>5, <1>8 DEF JoinInv
  <2>4. /\ closer'[d].phase # "joining" => closer'[d].at = None /\ closer'[d].todo = {}
        /\ \A u \in View : u \in closer'[d].todo \/ u = closer'[d].at => view'[u] = "closed"
        /\ \A c \in Operation : Underway(c)' /\ call'[c].on = closer'[d].at => c \in closer'[d].joins
    BY <1>7, <2>1, <2>2
  <2> QED
    BY <2>3, <2>4 DEF JoinInv, Underway
<1>11. RetireInv'
  <2>1. ASSUME NEW o \in Tasks, closer'[o].phase = "joining", closer'[o].kind = "retire"
        PROVE  closer'[o] = closer[o]
    BY <1>7, <1>8, <2>1
  <2> QED
    BY <1>1, <1>2, <1>4, <2>1 DEF RetireInv, Registered, Underway
<1>12. Timely
  BY <1>4 DEF Timely, Like
<1> QED
  BY <1>4, <1>5, <1>9, <1>10, <1>11, <1>12 DEF ServerInv

\* A closer moves, and nothing else does but custody of the View that it has joined.
LEMMA CloserMoves ==
  ASSUME ServerInv, NEW d \in Tasks, NEW k \in Owner, closer' = [closer EXCEPT ![d] = k],
         UNCHANGED <<batch, results, view, shows, accepting, call, executed>>,
         valid' \subseteq valid, held' \subseteq held, transport' \in BOOLEAN, transport' => transport,
         \A v \in held : v \notin held' =>
           view[v] # "open" /\ \A c \in Operation : Underway(c) => call[c].on # v,
         k.phase # "joining" => k.at = None /\ k.todo = {},
         \A v \in View : v \in k.todo \/ v = k.at => view[v] = "closed",
         \A c \in Operation : Underway(c) /\ call[c].on = k.at => c \in k.joins,
         k.phase = "joining" /\ k.kind = "retire" =>
           /\ closer[d].phase = "joining" /\ closer[d].kind = "retire"
           /\ \A c \in Operation : Underway(c) /\ call[c].on \in closer[d].todo \cup {closer[d].at} =>
                call[c].on \in k.todo \cup {k.at},
         transport /\ ~transport' =>
           (\A b \in Batch : ~Registered(b)) /\ \A c \in Operation : ~Underway(c)
  PROVE  ServerInv' /\ Timely
<1>1. ServerTypeOK /\ TasksInv /\ HeldInv /\ JoinInv /\ RetireInv
  BY DEF ServerInv
<1>2. closer'[d] = k /\ closer' \in [Tasks -> Owner] /\ \A o \in Tasks \ {d} : closer'[o] = closer[o]
  BY <1>1 DEF ServerTypeOK
<1>3. ServerTypeOK' /\ TasksInv'
  BY <1>1, <1>2 DEF ServerTypeOK, TasksInv, results
<1>4. HeldInv'
  BY <1>1 DEF HeldInv, results, Registered, Underway
<1>5. JoinInv'
  BY <1>1, <1>2 DEF JoinInv, Underway
<1>6. RetireInv'
  BY <1>1, <1>2 DEF RetireInv, Registered, Underway, ServerTypeOK
<1>7. Timely
  BY DEF Timely
<1> QED
  BY <1>3, <1>4, <1>5, <1>6, <1>7 DEF ServerInv

\* A closer takes the tasks of its next View: all that are under way.
LEMMA JoinStep ==
  ASSUME ServerInv, NEW d \in Tasks, NEW v \in View, Join(d, v)
  PROVE  ServerInv' /\ Timely
<1>1. ServerTypeOK /\ JoinInv
  BY DEF ServerInv
<1> DEFINE k == [closer[d] EXCEPT !.at = v, !.joins = OwnedBy(v), !.cancelled = FALSE, !.todo = @ \ {v}]
<1>2. /\ closer' = [closer EXCEPT ![d] = k] /\ closer[d].phase = "joining" /\ v \in closer[d].todo /\ closer[d].at = None
      /\ UNCHANGED <<batch, valid, results, views, accepting, call, executed, transport>>
  BY <1>1 DEF Join, ServerTypeOK
<1>3. closer[d] \in Owner /\ OwnedBy(v) \in SUBSET Operation
  BY <1>1 DEF ServerTypeOK, OwnedBy
<1>4. /\ k \in Owner /\ k.phase = closer[d].phase /\ k.kind = closer[d].kind /\ k.at = v
      /\ k.joins = OwnedBy(v) /\ k.todo = closer[d].todo \ {v}
  BY <1>3 DEF Owner
<1> HIDE DEF k
<1>5. \A u \in View : u \in k.todo \/ u = k.at => view[u] = "closed"
  BY <1>1, <1>2, <1>4 DEF JoinInv
<1>6. \A c \in Operation : Underway(c) /\ call[c].on = k.at => c \in k.joins
  BY <1>4 DEF OwnedBy, Underway
<1>7. \A c \in Operation : Underway(c) /\ call[c].on \in closer[d].todo \cup {closer[d].at} =>
        call[c].on \in k.todo \cup {k.at}
  <2>1. \A c \in Operation : Underway(c) => call[c].on # None
    BY DEF ServerInv, TasksInv, Sound, Underway
  <2> QED
    BY <1>2, <1>4, <2>1
<1>8. transport \in BOOLEAN
  BY <1>1 DEF ServerTypeOK
<1> QED
  BY <1>2, <1>4, <1>5, <1>6, <1>7, <1>8, CloserMoves DEF views

\* A closer that is cancelled joins what it had to join.
LEMMA CancelCloserStep ==
  ASSUME ServerInv, NEW d \in Tasks, CancelCloser(d)
  PROVE  ServerInv' /\ Timely
<1>1. ServerTypeOK /\ JoinInv
  BY DEF ServerInv
<1> DEFINE k == [closer[d] EXCEPT !.cancelled = TRUE]
<1>2. /\ closer' = [closer EXCEPT ![d] = k]
      /\ UNCHANGED <<batch, valid, results, views, accepting, call, executed, transport>>
  BY <1>1 DEF CancelCloser, ServerTypeOK
<1>3. closer[d] \in Owner
  BY <1>1 DEF ServerTypeOK
<1>4. /\ k \in Owner /\ k.phase = closer[d].phase /\ k.kind = closer[d].kind /\ k.at = closer[d].at
      /\ k.joins = closer[d].joins /\ k.todo = closer[d].todo
  BY <1>3 DEF Owner
<1> HIDE DEF k
<1>5. /\ k.phase # "joining" => k.at = None /\ k.todo = {}
      /\ \A u \in View : u \in k.todo \/ u = k.at => view[u] = "closed"
      /\ \A c \in Operation : Underway(c) /\ call[c].on = k.at => c \in k.joins
  BY <1>1, <1>4 DEF JoinInv
<1>6. transport \in BOOLEAN
  BY <1>1 DEF ServerTypeOK
<1> QED
  BY <1>2, <1>4, <1>5, <1>6, CloserMoves DEF views

\* A View that was joined has no task left, and may leave the custody of the publisher.
LEMMA JoinedStep ==
  ASSUME ServerInv, NEW d \in Tasks, Joined(d)
  PROVE  ServerInv' /\ Timely
<1>1. ServerTypeOK /\ JoinInv
  BY DEF ServerInv
<1>2. PICK f \in BOOLEAN :
        /\ closer' = [closer EXCEPT ![d].at = None, ![d].joins = {}, ![d].failed = @ \/ f]
        /\ held' = IF f THEN held ELSE held \ {closer[d].at}
  BY DEF Joined
<1>3. /\ closer[d].at # None /\ \A c \in closer[d].joins : ~Underway(c)
      /\ UNCHANGED <<batch, valid, results, view, shows, accepting, call, executed, transport>>
  BY DEF Joined
<1> DEFINE k == [closer[d] EXCEPT !.at = None, !.joins = {}, !.failed = @ \/ f]
<1>4. closer[d] \in Owner /\ closer' = [closer EXCEPT ![d] = k]
  BY <1>1, <1>2 DEF ServerTypeOK
<1>5. /\ k \in Owner /\ k.phase = closer[d].phase /\ k.kind = closer[d].kind /\ k.at = None
      /\ k.joins = {} /\ k.todo = closer[d].todo
  BY <1>4 DEF Owner
<1> HIDE DEF k
<1>6. \A c \in Operation : Underway(c) => call[c].on \notin {None, closer[d].at}
  BY <1>1, <1>3 DEF ServerInv, JoinInv, TasksInv, Sound, Underway
<1>7. held' \subseteq held /\ \A v \in held : v \notin held' => v = closer[d].at
  BY <1>2
<1>8. \A v \in View : v \in closer[d].todo \/ v = closer[d].at => view[v] = "closed"
  BY <1>1 DEF JoinInv
<1>9. \A v \in held : v \notin held' =>
        view[v] # "open" /\ \A c \in Operation : Underway(c) => call[c].on # v
  BY <1>1, <1>6, <1>7, <1>8 DEF ServerTypeOK
<1>10. closer[d].phase # "joining" => closer[d].todo = {}
  BY <1>1 DEF JoinInv
<1>11. transport \in BOOLEAN /\ None \notin View
  BY <1>1 DEF ServerTypeOK
<1> QED
  BY <1>3, <1>4, <1>5, <1>6, <1>7, <1>8, <1>9, <1>10, <1>11, CloserMoves

\* The connection is closed when its closer has joined every task.
LEMMA FinishStep ==
  ASSUME ServerInv, NEW d \in Tasks, Finish(d)
  PROVE  ServerInv' /\ Timely
<1>1. ServerTypeOK /\ JoinInv /\ RetireInv
  BY DEF ServerInv
<1>2. PICK phase \in {"idle", "ended"} : closer' = [closer EXCEPT ![d] = [Resting EXCEPT !.phase = phase]]
  BY DEF Finish
<1>3. /\ closer[d].phase = "joining" /\ closer[d].at = None /\ closer[d].todo = {}
      /\ transport' = (transport /\ closer[d].kind # "retire")
      /\ UNCHANGED <<batch, results, views, accepting, call, executed>>
  BY DEF Finish
<1>4. valid' \subseteq valid
  BY DEF Finish
<1> DEFINE k == [Resting EXCEPT !.phase = phase]
<1>5. k \in Owner /\ k.phase # "joining" /\ k.at = None /\ k.todo = {}
  BY DEF Resting, Owner
<1> HIDE DEF k
<1>6. \A c \in Operation : Underway(c) => call[c].on # None
  BY DEF ServerInv, TasksInv, Sound, Underway
<1>7. closer[d].kind = "retire" => (\A b \in Batch : ~Registered(b)) /\ \A c \in Operation : ~Underway(c)
  BY <1>1, <1>3, <1>6 DEF RetireInv
<1>8. closer' = [closer EXCEPT ![d] = k] /\ transport' \in BOOLEAN /\ None \notin View
  BY <1>2, <1>3 DEF k
<1> QED
  BY <1>3, <1>4, <1>5, <1>6, <1>7, <1>8, CloserMoves DEF views

-----------------------------------------------------------------------------
(* The theorems about the server.                                           *)

\* At first there is nothing.
LEMMA InitServer == ServerInit => ServerInv
<1> SUFFICES ASSUME ServerInit PROVE ServerInv
  OBVIOUS
<1>1. Fresh \in Task /\ Fresh.on = None /\ Fresh.phase = "none" /\ ~Fresh.started /\ ~Fresh.sent /\ ~Fresh.native
      /\ ~Fresh.approved /\ Fresh.result = "none"
  BY DEF Fresh, Task
<1>2. Resting \in Owner /\ Resting.phase = "idle" /\ Resting.at = None /\ Resting.todo = {}
  BY DEF Resting, Owner
<1>3. ServerTypeOK
  BY <1>1, <1>2 DEF ServerInit, ServerTypeOK
<1>4. \A c \in Operation : call[c] = Fresh /\ c \notin executed /\ ~Underway(c)
  BY <1>1 DEF ServerInit, Underway
<1>5. TasksInv
  BY <1>1, <1>4 DEF TasksInv, Sound
<1>6. HeldInv
  BY <1>4 DEF ServerInit, HeldInv
<1>7. \A d \in Tasks : closer[d] = Resting
  BY DEF ServerInit
<1>8. JoinInv
  BY <1>2, <1>4, <1>7 DEF JoinInv
<1>9. RetireInv
  BY <1>2, <1>7 DEF ServerInit, RetireInv
<1> QED
  BY <1>3, <1>5, <1>6, <1>8, <1>9 DEF ServerInv

\* The invariant of the server's side of Apps is inductive, and every step of it gives a
\* native result only when it may.
THEOREM StepServer == ServerInv /\ [ServerNext]_serverVars => ServerInv' /\ Timely
<1> SUFFICES ASSUME ServerInv, [ServerNext]_serverVars PROVE ServerInv' /\ Timely
  OBVIOUS
<1>1. ASSUME NEW b \in Batch, Register(b) PROVE ServerInv' /\ Timely
  BY <1>1, RegisterStep
<1>2. ASSUME NEW b \in Batch, Retire(b) PROVE ServerInv' /\ Timely
  BY <1>2, RetireStep
<1>3. CASE (\E b \in Batch : LoseSource(b)) \/ (\E p \in Publication : Expire(p)) \/ UNCHANGED serverVars
  BY <1>3, LapseStep
<1>4. ASSUME NEW b \in Batch, NEW p \in Publication, Publish(p, b) PROVE ServerInv' /\ Timely
  BY <1>4, PublishStep
<1>5. ASSUME NEW p \in Publication, NEW reader \in BOOLEAN, Probe(p, reader) PROVE ServerInv' /\ Timely
  BY <1>5, ProbeStep
<1>6. CASE WithdrawPublications
  BY <1>6, WithdrawStep
<1>7. ASSUME NEW v \in View, NEW p \in Publication, OpenView(v, p) PROVE ServerInv' /\ Timely
  BY <1>7, OpenViewStep
<1>8. ASSUME NEW c \in Operation, Child(c) PROVE ServerInv' /\ Timely
  <2>1. TaskStep(c)
    BY <1>8, StartStep, PlainSteps, EndSteps, StopSteps, EndingSteps, ResumeStep DEF Child
  <2> QED
    BY <2>1, TaskStepInv
<1>9. ASSUME NEW c \in Operation, External(c) PROVE ServerInv' /\ Timely
  <2>1. CASE Execute(c)
    BY <2>1, ExecuteStep
  <2>2. CASE \E v \in View : Begin(c, v)
    BY <2>2, BeginStep
  <2>3. CASE Deny(c) \/ Refuse(c) \/ Break(c) \/ Disapprove(c) \/ NotAudited(c) \/ Stop(c) \/ CancelDelivery(c)
    <3>1. TaskStep(c)
      BY <2>3, PlainSteps, EndSteps, StopSteps
    <3> QED
      BY <3>1, TaskStepInv
  <2>4. ASSUME NEW reader \in BOOLEAN,
               \/ Admit(c, reader) \/ Send(c, reader) \/ Answer(c, reader)
               \/ Approve(c, reader) \/ Read(c, reader) \/ Delivered(c, reader)
        PROVE  ServerInv' /\ Timely
    <3>1. TaskStep(c)
      BY <2>4, CheckedSteps, EndingSteps, DeliveredStep
    <3> QED
      BY <3>1, TaskStepInv
  <2> QED
    BY <1>9, <2>1, <2>2, <2>3, <2>4 DEF External
<1>10. CASE Maintain
  BY <1>10, DrainStep DEF Maintain, Tasks, ServerInv, ServerTypeOK
<1>11. ASSUME NEW d \in Closer, RetireConnection(d) PROVE ServerInv' /\ Timely
  <2>1. {b \in Batch : Registered(b)} \in SUBSET Batch /\ d \in Tasks /\ accepting' \in BOOLEAN
    BY <1>11 DEF RetireConnection, Tasks, ServerInv, ServerTypeOK
  <2> QED
    BY <1>11, <2>1, DrainStep DEF RetireConnection
<1>12. ASSUME NEW d \in Closer, ClosePublisher(d) PROVE ServerInv' /\ Timely
  <2>1. {b \in Batch : Registered(b)} \in SUBSET Batch /\ d \in Tasks /\ accepting' \in BOOLEAN
    BY <1>12 DEF ClosePublisher, Tasks
  <2> QED
    BY <1>12, <2>1, DrainStep DEF ClosePublisher
<1>13. ASSUME NEW d \in Closer, CancelCloser(d) PROVE ServerInv' /\ Timely
  BY <1>13, CancelCloserStep DEF Tasks
<1>14. ASSUME NEW d \in Closer, NEW v \in View, CloseOneView(d, v) PROVE ServerInv' /\ Timely
  BY <1>14, CloseOneViewStep DEF Tasks
<1>15. ASSUME NEW d \in Tasks, Proceed(d) PROVE ServerInv' /\ Timely
  BY <1>15, JoinStep, JoinedStep, FinishStep DEF Proceed
<1> QED
  BY <1>1, <1>2, <1>3, <1>4, <1>5, <1>6, <1>7, <1>8, <1>9, <1>10, <1>11, <1>12, <1>13, <1>14, <1>15 DEF ServerNext

\* The invariant holds in every state.
LEMMA ServerInvariant == ServerSpec => []ServerInv
<1>1. ServerInv /\ [ServerNext]_serverVars => ServerInv'
  BY StepServer
<1> QED
  BY <1>1, InitServer, PTL DEF ServerSpec

\* Batches, results, Views, tasks and closers have their types, for any number of them.
THEOREM ServerTypeCorrect == ServerSpec => []ServerTypeOK
<1>1. ServerInv => ServerTypeOK
  BY DEF ServerInv
<1> QED
  BY <1>1, ServerInvariant, PTL

\* Who is told that nothing ran is told the truth: the native server never runs that tool.
THEOREM DefiniteHolds == ServerSpec => []DefiniteMeansNothingRan
<1>1. ServerInv => DefiniteMeansNothingRan
  BY DEF ServerInv, TasksInv, Sound, DefiniteMeansNothingRan
<1> QED
  BY <1>1, ServerInvariant, PTL

\* The publisher keeps every View that has a task, and the connection outlives them all.
THEOREM JoinedHolds == ServerSpec => []JoinedBeforeClosed
<1>1. ServerInv => JoinedBeforeClosed
  BY DEF ServerInv, ServerTypeOK, HeldInv, RetireInv, JoinedBeforeClosed
<1> QED
  BY <1>1, ServerInvariant, PTL

\* A native result or a resource reaches a request only of an open View with a current
\* result, and a tool's only after its execution and with the approval of the policy.
THEOREM DeliveredHolds == ServerSpec => DeliveredInTime
<1>1. ServerInv /\ [ServerNext]_serverVars =>
        [\A c \in Operation :
           call'[c].phase = "ended" /\ call[c].phase # "ended" /\ call'[c].result \in {"native", "html"} =>
             /\ view[call[c].on] = "open" /\ stage[shows[call[c].on]] = "kept"
             /\ shows[call[c].on] \notin expired /\ source[shows[call[c].on]] \in valid
             /\ call'[c].result = "native" => call[c].approved /\ c \in executed]_serverVars
  BY StepServer DEF Timely, Given
<1> QED
  BY <1>1, ServerInvariant, PTL DEF ServerSpec, DeliveredInTime
=============================================================================
