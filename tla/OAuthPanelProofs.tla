--------------------------- MODULE OAuthPanelProofs ---------------------------
(* The panel shows its owner's connections, has one operation at a time and *)
(* loses no authorization, for any number of operations, agents, accounts   *)
(* and mounts.                                                              *)
EXTENDS OAuthPanel, TLAPS

USE OAuthPanelAssumption
-----------------------------------------------------------------------------
(* The inductive invariant.                                                 *)

\* An operation that has not been clicked has sent nothing and opened nothing; only a
\* submission has an authorization, and it never loads.
OpInv ==
  \A o \in Op :
    /\ o > ops => phase[o] = "none" /\ grant[o] # "pending"
    /\ phase[o] = "none" => wire[o] # "sent"
    /\ grant[o] = "pending" => kind[o] = "submit"
    /\ kind[o] = "submit" => phase[o] # "loading"
    /\ kind[o] = "submit" /\ UnderWay(o) => usable

\* The beginning of an authorization with a hint was answered: no request is left that
\* could open it again.
Settled(h) == phase[h] = "ended" /\ wire[h] # "sent"

HintInv ==
  /\ \A h \in hints \cup offered : Settled(h)
  /\ \A o \in Op : kind[o] = "cancel" /\ o <= ops => Settled(target[o])

\* A request to begin that outlives its coroutine was forsaken, and a cancellation
\* that was handled leaves nothing open.
RequestInv ==
  \A o \in Op :
    /\ kind[o] = "submit" /\ wire[o] = "sent" /\ phase[o] = "ended" => o \in forsaken
    /\ kind[o] = "cancel" /\ phase[o] = "acting" /\ wire[o] = "handled" => grant[target[o]] # "pending"

\* The operation of the present generation keeps the buttons disabled, and its list is
\* of the present account unless an event has still to come.
OwnerInv ==
  /\ \A o \in fresh : UnderWay(o) => busy
  /\ \A o, p \in fresh : UnderWay(o) /\ UnderWay(p) => o = p
  /\ \A o \in fresh : phase[o] = "loading" /\ wire[o] = "handled" => notice \/ seen[o] = account

IInv == TypeOK /\ OpInv /\ HintInv /\ RequestInv /\ OwnerInv /\ ShownIsOwn /\ NoOrphan
-----------------------------------------------------------------------------
\* A panel that is just there has no operation and shows nothing.
THEOREM InitIInv == Init => IInv
<1> SUFFICES ASSUME Init PROVE IInv
  OBVIOUS
<1> USE DEF Init, Op
<1>1. TypeOK
  <2>1. agent \in Agent /\ account \in Account
    OBVIOUS
  <2>2. by \in [Op -> Agent] /\ seen \in [Op -> Account]
    BY <2>1
  <2> QED
    <3>1. /\ notice \in BOOLEAN /\ mounted /\ mounted \in BOOLEAN /\ busy \in BOOLEAN
      BY Zenon
    <3>4. /\ changes \in Nat /\ mounts \in Nat /\ ops \in 0..MaxOps
          /\ shown \subseteq Agent \X Account /\ offered \subseteq Op
      OBVIOUS
    <3>2. /\ kind \in [Op -> {"load", "act", "cancel", "submit"}]
          /\ target \in [Op -> Op] /\ fresh \subseteq Op
          /\ phase \in [Op -> {"none", "acting", "loading", "ended"}]
          /\ wire \in [Op -> {"idle", "sent", "handled"}]
      OBVIOUS
    <3>3. /\ hints \subseteq Op /\ usable \in BOOLEAN
          /\ grant \in [Op -> {"none", "pending", "ended"}] /\ forsaken \subseteq Op
      OBVIOUS
    <3> QED
      BY ONLY <2>1, <2>2, <3>1, <3>2, <3>3, <3>4 DEF TypeOK
<1>2. OpInv
  BY DEF TypeOK, OpInv, HintInv, UnderWay
<1>3. HintInv
  BY DEF TypeOK, HintInv
<1>4. RequestInv
  BY DEF TypeOK, RequestInv
<1>5. OwnerInv
  BY DEF TypeOK, OpInv, OwnerInv, UnderWay
<1>6. ShownIsOwn
  BY DEF TypeOK, OwnerInv, ShownIsOwn
<1>7. NoOrphan
  BY DEF TypeOK, NoOrphan
<1> QED
  BY <1>1, <1>2, <1>3, <1>4, <1>5, <1>6, <1>7 DEF IInv

\* A click takes the next number: nothing of that number happened yet, and nothing
\* else of the present generation is under way.
LEMMA PerformIInv ==
  ASSUME IInv, NEW k \in {"load", "act", "cancel", "submit"}, NEW t, Perform(k, t),
         k = "cancel" => t \in offered, k = "submit" => usable
  PROVE  IInv'
<1> DEFINE n == ops + 1
<1> USE DEF IInv, Op, console, panel, owner, work, kept
<1>1. n \in Op /\ ops' = n /\ phase[n] = "none" /\ grant[n] # "pending" /\ mounted /\ ~busy /\ busy'
  BY DEF Perform, TypeOK, OpInv
<1>2. UNCHANGED <<agent, account, notice, changes, mounted, mounts, shown, offered, seen, hints, usable, forsaken, grant>>
  BY DEF Perform
<1>3. /\ kind' = [kind EXCEPT ![n] = k] /\ target' = [target EXCEPT ![n] = IF k = "cancel" THEN t ELSE n]
      /\ by' = [by EXCEPT ![n] = agent] /\ fresh' = fresh \cup {n}
      /\ phase' = [phase EXCEPT ![n] = IF k = "load" THEN "loading" ELSE "acting"]
      /\ wire' = [wire EXCEPT ![n] = "sent"]
  BY DEF Perform
<1>4. target'[n] \in Op /\ (k = "cancel" => target'[n] \in offered)
  BY <1>1, <1>3 DEF TypeOK
<1>5. \A o \in Op : o # n => /\ kind'[o] = kind[o] /\ target'[o] = target[o]
                             /\ phase'[o] = phase[o] /\ wire'[o] = wire[o]
  BY <1>1, <1>3 DEF TypeOK
<1>6. kind'[n] = k /\ wire'[n] = "sent" /\ phase'[n] \in {"loading", "acting"}
      /\ (phase'[n] = "loading" <=> k = "load")
  BY <1>1, <1>3 DEF TypeOK
<1>7. TypeOK'
  <2>1. /\ kind' \in [Op -> {"load", "act", "cancel", "submit"}] /\ by' \in [Op -> Agent]
        /\ phase' \in [Op -> {"none", "acting", "loading", "ended"}]
        /\ wire' \in [Op -> {"idle", "sent", "handled"}]
    BY <1>1, <1>3 DEF TypeOK
  <2>2. target' \in [Op -> Op]
    BY <1>1, <1>3, <1>4 DEF TypeOK
  <2> QED
    <3>1. ops' \in 0..MaxOps /\ fresh' \subseteq Op /\ mounted' /\ busy' \in BOOLEAN
      BY <1>1, <1>2, <1>3 DEF TypeOK
    <3> QED
      BY <3>1, <1>2, <2>1, <2>2 DEF TypeOK
<1>8. OpInv'
  <2> SUFFICES ASSUME NEW o \in Op
               PROVE  /\ o > n => phase'[o] = "none" /\ grant[o] # "pending"
                      /\ phase'[o] = "none" => wire'[o] # "sent"
                      /\ grant[o] = "pending" => kind'[o] = "submit"
                      /\ kind'[o] = "submit" => phase'[o] # "loading"
                      /\ kind'[o] = "submit" /\ phase'[o] \in {"acting", "loading"} => usable
    BY <1>1, <1>2 DEF OpInv, UnderWay
  <2>1. CASE o = n
    BY <2>1, <1>1, <1>6
  <2>2. CASE o # n
    <3>1. o > n => o > ops
      BY <1>1 DEF TypeOK
    <3>2. kind'[o] = kind[o] /\ phase'[o] = phase[o] /\ wire'[o] = wire[o]
      BY <2>2, <1>5
    <3> QED
      BY <3>1, <3>2 DEF OpInv, UnderWay
  <2> QED
    BY <2>1, <2>2
<1>9. HintInv'
  <2>1. \A h \in Op : Settled(h) => h # n /\ phase'[h] = "ended" /\ wire'[h] # "sent"
    BY <1>1, <1>5 DEF Settled
  <2>2. \A h \in hints \cup offered : phase'[h] = "ended" /\ wire'[h] # "sent"
    BY <2>1 DEF HintInv, TypeOK
  <2>3. ASSUME NEW o \in Op, kind'[o] = "cancel", o <= n
        PROVE  phase'[target'[o]] = "ended" /\ wire'[target'[o]] # "sent"
    <3>1. CASE o = n
      BY <3>1, <2>3, <2>2, <1>4, <1>6
    <3>2. CASE o # n
      <4>1. kind[o] = "cancel" /\ o <= ops /\ target'[o] = target[o] /\ target[o] \in Op
        BY SMTT(30), <3>2, <2>3, <1>1, <1>5 DEF TypeOK
      <4> QED
        BY <4>1, <2>1 DEF HintInv
    <3> QED
      BY <3>1, <3>2
  <2> QED
    BY <1>1, <1>2, <2>2, <2>3 DEF HintInv, Settled
<1>10. RequestInv'
  <2> SUFFICES ASSUME NEW o \in Op
               PROVE  /\ kind'[o] = "submit" /\ wire'[o] = "sent" /\ phase'[o] = "ended" => o \in forsaken
                      /\ kind'[o] = "cancel" /\ phase'[o] = "acting" /\ wire'[o] = "handled" =>
                           grant[target'[o]] # "pending"
    BY <1>2 DEF RequestInv
  <2>1. CASE o = n
    BY <2>1, <1>6
  <2>2. CASE o # n
    BY <2>2, <1>5 DEF RequestInv
  <2> QED
    BY <2>1, <2>2
<1>11. OwnerInv'
  <2>1. \A o \in fresh : o \in Op /\ ~UnderWay(o)
    BY <1>1 DEF TypeOK, OwnerInv
  <2>2. \A o \in fresh' : o = n \/ o \in fresh
    BY <1>3
  <2>3. \A o \in fresh' : phase'[o] \in {"acting", "loading"} => o = n
    BY <2>1, <2>2, <1>5 DEF UnderWay
  <2>4. \A o \in fresh' : ~(phase'[o] = "loading" /\ wire'[o] = "handled")
    BY <2>3, <1>6
  <2> QED
    BY <1>1, <2>3, <2>4 DEF OwnerInv, UnderWay
<1>12. ShownIsOwn' /\ NoOrphan'
  BY <1>1, <1>2, <1>5 DEF TypeOK, ShownIsOwn, NoOrphan, UnderWay
<1> QED
  BY <1>7, <1>8, <1>9, <1>10, <1>11, <1>12

\* Every step of the console, the panel, its coroutines and the server keeps it.
THEOREM StepIInv == IInv /\ [Next]_vars => IInv'
<1> SUFFICES ASSUME IInv, [Next]_vars PROVE IInv'
  OBVIOUS
<1> USE DEF IInv, Op, console, panel, owner, work, kept
<1>1. ASSUME SwitchAgent PROVE IInv'
  <2>1. TypeOK'
    BY SMTT(30), <1>1 DEF SwitchAgent, TypeOK
  <2>2. OpInv'
    BY <1>1 DEF SwitchAgent, OpInv, UnderWay
  <2>3. HintInv'
    BY <1>1 DEF SwitchAgent, HintInv, Settled
  <2>4. RequestInv'
    BY <1>1 DEF SwitchAgent, RequestInv
  <2>5. OwnerInv'
    BY <1>1 DEF SwitchAgent, OwnerInv, UnderWay
  <2>6. ShownIsOwn'
    BY <1>1 DEF SwitchAgent, TypeOK, OwnerInv, ShownIsOwn
  <2>7. NoOrphan'
    BY <1>1 DEF SwitchAgent, NoOrphan, UnderWay
  <2> QED
    BY <2>1, <2>2, <2>3, <2>4, <2>5, <2>6, <2>7
<1>2. ASSUME SwitchAccount PROVE IInv'
  <2>1. TypeOK'
    BY SMTT(30), <1>2 DEF SwitchAccount, TypeOK
  <2>2. OpInv'
    BY <1>2 DEF SwitchAccount, OpInv, UnderWay
  <2>3. HintInv'
    BY <1>2 DEF SwitchAccount, HintInv, Settled
  <2>4. RequestInv'
    BY <1>2 DEF SwitchAccount, RequestInv
  <2>5. OwnerInv'
    BY <1>2 DEF SwitchAccount, OwnerInv, UnderWay
  <2>6. ShownIsOwn'
    BY <1>2 DEF SwitchAccount, TypeOK, OwnerInv, ShownIsOwn
  <2>7. NoOrphan'
    BY <1>2 DEF SwitchAccount, NoOrphan, UnderWay
  <2> QED
    BY <2>1, <2>2, <2>3, <2>4, <2>5, <2>6, <2>7
<1>3. ASSUME Noticed PROVE IInv'
  <2>1. TypeOK'
    BY <1>3 DEF Noticed, Reset, TypeOK
  <2>2. OpInv'
    BY <1>3 DEF Noticed, OpInv, UnderWay
  <2>3. HintInv'
    BY <1>3 DEF Noticed, Reset, HintInv, Settled
  <2>4. RequestInv'
    BY <1>3 DEF Noticed, RequestInv
  <2>5. OwnerInv'
    BY <1>3 DEF Noticed, Reset, TypeOK, OwnerInv
  <2>6. ShownIsOwn'
    BY <1>3 DEF Noticed, Reset, TypeOK, ShownIsOwn
  <2>7. NoOrphan'
    BY <1>3 DEF Noticed, NoOrphan, UnderWay
  <2> QED
    BY <2>1, <2>2, <2>3, <2>4, <2>5, <2>6, <2>7
<1>4. ASSUME Dispose PROVE IInv'
  <2>1. TypeOK'
    BY <1>4 DEF Dispose, Reset, TypeOK
  <2>2. OpInv'
    BY <1>4 DEF Dispose, OpInv, UnderWay
  <2>3. HintInv'
    BY <1>4 DEF Dispose, Reset, HintInv, Settled
  <2>4. RequestInv'
    BY <1>4 DEF Dispose, RequestInv
  <2>5. OwnerInv'
    BY <1>4 DEF Dispose, Reset, OwnerInv
  <2>6. ShownIsOwn'
    BY <1>4 DEF Dispose, Reset, ShownIsOwn
  <2>7. NoOrphan'
    BY <1>4 DEF Dispose, NoOrphan, UnderWay
  <2> QED
    BY <2>1, <2>2, <2>3, <2>4, <2>5, <2>6, <2>7
<1>5. ASSUME Mount PROVE IInv'
  <2>1. TypeOK'
    <3>1. mounts' \in Nat
      BY <1>5 DEF Mount, TypeOK
    <3>2. UNCHANGED <<console, ops, kind, target, by, work, kept, grant>> /\ mounted' /\ Reset
      BY <1>5 DEF Mount
    <3> QED
      BY <3>1, <3>2 DEF Reset, TypeOK
  <2>2. OpInv'
    BY <1>5 DEF Mount, OpInv, UnderWay
  <2>3. HintInv'
    BY <1>5 DEF Mount, Reset, HintInv, Settled
  <2>4. RequestInv'
    BY <1>5 DEF Mount, RequestInv
  <2>5. OwnerInv'
    BY <1>5 DEF Mount, Reset, OwnerInv
  <2>6. ShownIsOwn'
    BY <1>5 DEF Mount, Reset, ShownIsOwn
  <2>7. NoOrphan'
    BY <1>5 DEF Mount, NoOrphan, UnderWay
  <2> QED
    BY <2>1, <2>2, <2>3, <2>4, <2>5, <2>6, <2>7
<1>6. ASSUME Reload PROVE IInv'
  BY <1>6, PerformIInv DEF Reload
<1>7. ASSUME Act PROVE IInv'
  BY <1>7, PerformIInv DEF Act
<1>8. ASSUME CancelPending PROVE IInv'
  BY <1>8, PerformIInv DEF CancelPending, TypeOK
<1>9. ASSUME Submit PROVE IInv'
  BY <1>9, PerformIInv DEF Submit
<1>10. ASSUME NEW o \in Op, ServerLists(o) PROVE IInv'
  <2>1. TypeOK'
    BY <1>10 DEF ServerLists, Handle, TypeOK
  <2>2. OpInv'
    BY <1>10 DEF ServerLists, Handle, OpInv, UnderWay
  <2>3. HintInv'
    BY <1>10 DEF ServerLists, Handle, HintInv, Settled
  <2>4. RequestInv'
    BY <1>10 DEF ServerLists, Handle, RequestInv
  <2>5. OwnerInv'
    BY <1>10 DEF ServerLists, Handle, TypeOK, OwnerInv, UnderWay
  <2>6. ShownIsOwn'
    BY <1>10 DEF ServerLists, Handle, ShownIsOwn
  <2>7. NoOrphan'
    BY <1>10 DEF ServerLists, Handle, NoOrphan, UnderWay
  <2> QED
    BY <2>1, <2>2, <2>3, <2>4, <2>5, <2>6, <2>7
<1>11. ASSUME NEW o \in Op, ServerActs(o) PROVE IInv'
  <2>1. TypeOK'
    BY <1>11 DEF ServerActs, Handle, TypeOK
  <2>2. OpInv'
    BY <1>11 DEF ServerActs, Handle, OpInv, UnderWay
  <2>3. HintInv'
    BY <1>11 DEF ServerActs, Handle, HintInv, Settled
  <2>4. RequestInv'
    BY <1>11 DEF ServerActs, Handle, RequestInv
  <2>5. OwnerInv'
    BY <1>11 DEF ServerActs, Handle, OwnerInv, UnderWay
  <2>6. ShownIsOwn'
    BY <1>11 DEF ServerActs, Handle, ShownIsOwn
  <2>7. NoOrphan'
    BY <1>11 DEF ServerActs, Handle, NoOrphan, UnderWay
  <2> QED
    BY <2>1, <2>2, <2>3, <2>4, <2>5, <2>6, <2>7
<1>12. ASSUME NEW o \in Op, ServerBegins(o) PROVE IInv'
  <2>1. TypeOK'
    BY <1>12 DEF ServerBegins, Handle, TypeOK
  <2>2. OpInv'
    BY <1>12 DEF ServerBegins, Handle, OpInv, UnderWay
  <2>3. HintInv'
    BY <1>12 DEF ServerBegins, Handle, HintInv, Settled
  <2>4. RequestInv'
    BY <1>12 DEF ServerBegins, Handle, TypeOK, OpInv, HintInv, RequestInv, Settled
  <2>5. OwnerInv'
    BY <1>12 DEF ServerBegins, Handle, OwnerInv, UnderWay
  <2>6. ShownIsOwn'
    BY <1>12 DEF ServerBegins, Handle, ShownIsOwn
  <2>7. NoOrphan'
    BY <1>12 DEF ServerBegins, Handle, TypeOK, OpInv, RequestInv, NoOrphan, UnderWay
  <2> QED
    BY <2>1, <2>2, <2>3, <2>4, <2>5, <2>6, <2>7
<1>13. ASSUME NEW o \in Op, ServerCancels(o) PROVE IInv'
  <2>1. TypeOK'
    BY <1>13 DEF ServerCancels, Handle, TypeOK
  <2>2. OpInv'
    BY <1>13 DEF ServerCancels, Handle, OpInv, UnderWay
  <2>3. HintInv'
    BY <1>13 DEF ServerCancels, Handle, HintInv, Settled
  <2>4. RequestInv'
    BY <1>13 DEF ServerCancels, Handle, TypeOK, RequestInv
  <2>5. OwnerInv'
    BY <1>13 DEF ServerCancels, Handle, OwnerInv, UnderWay
  <2>6. ShownIsOwn'
    BY <1>13 DEF ServerCancels, Handle, ShownIsOwn
  <2>7. NoOrphan'
    BY <1>13 DEF ServerCancels, Handle, NoOrphan, UnderWay
  <2> QED
    BY <2>1, <2>2, <2>3, <2>4, <2>5, <2>6, <2>7
<1>14. ASSUME NEW o \in Op, ServerForgets(o) PROVE IInv'
  <2>1. TypeOK'
    BY <1>14 DEF ServerForgets, TypeOK
  <2>2. OpInv'
    BY <1>14 DEF ServerForgets, OpInv, UnderWay
  <2>3. HintInv'
    BY <1>14 DEF ServerForgets, HintInv, Settled
  <2>4. RequestInv'
    BY <1>14 DEF ServerForgets, RequestInv
  <2>5. OwnerInv'
    BY <1>14 DEF ServerForgets, OwnerInv, UnderWay
  <2>6. ShownIsOwn'
    BY <1>14 DEF ServerForgets, TypeOK, OwnerInv, ShownIsOwn
  <2>7. NoOrphan'
    BY <1>14 DEF ServerForgets, NoOrphan, UnderWay
  <2> QED
    BY <2>1, <2>2, <2>3, <2>4, <2>5, <2>6, <2>7
<1>15. ASSUME NEW o \in Op, ConsentReturns(o) PROVE IInv'
  <2>1. TypeOK'
    BY <1>15 DEF ConsentReturns, TypeOK
  <2>2. OpInv'
    BY <1>15 DEF ConsentReturns, OpInv, UnderWay
  <2>3. HintInv'
    BY <1>15 DEF ConsentReturns, HintInv, Settled
  <2>4. RequestInv'
    BY <1>15 DEF ConsentReturns, RequestInv
  <2>5. OwnerInv'
    BY <1>15 DEF ConsentReturns, TypeOK, OwnerInv
  <2>6. ShownIsOwn'
    BY <1>15 DEF ConsentReturns, TypeOK, OwnerInv, ShownIsOwn
  <2>7. NoOrphan'
    BY <1>15 DEF ConsentReturns, TypeOK, NoOrphan, UnderWay
  <2> QED
    BY <2>1, <2>2, <2>3, <2>4, <2>5, <2>6, <2>7
<1>16. ASSUME NEW o \in Op, Show(o) PROVE IInv'
  <2>1. TypeOK'
    <3>1. <<by[o], seen[o]>> \in Agent \X Account
      BY DEF TypeOK
    <3>2. offered' \subseteq Op
      BY <1>16 DEF Show, TypeOK
    <3>3. phase' \in [Op -> {"none", "acting", "loading", "ended"}]
      BY <1>16 DEF Show, End, TypeOK
    <3>4. mounted
      BY <1>16 DEF Show, Answered, Current, TypeOK
    <3> QED
      BY <1>16, <3>1, <3>2, <3>3, <3>4 DEF Show, TypeOK
  <2>2. OpInv'
    BY <1>16 DEF Show, Answered, End, OpInv, UnderWay
  <2>3. HintInv'
    BY <1>16 DEF Show, End, HintInv, Settled
  <2>4. RequestInv'
    BY <1>16 DEF Show, Answered, End, RequestInv
  <2>5. OwnerInv'
    BY <1>16 DEF Show, Answered, Current, End, TypeOK, OwnerInv, UnderWay
  <2>6. ShownIsOwn'
    BY <1>16 DEF Show, Answered, Current, OwnerInv, ShownIsOwn
  <2>7. NoOrphan'
    BY <1>16 DEF Show, Answered, End, OpInv, NoOrphan, UnderWay
  <2> QED
    BY <2>1, <2>2, <2>3, <2>4, <2>5, <2>6, <2>7
<1>17. ASSUME NEW o \in Op, Acted(o) PROVE IInv'
  <2>1. TypeOK'
    BY <1>17 DEF Acted, LoadNext, TypeOK
  <2>2. OpInv'
    BY <1>17 DEF Acted, Answered, LoadNext, OpInv, UnderWay
  <2>3. HintInv'
    BY <1>17 DEF Acted, Answered, LoadNext, HintInv, Settled
  <2>4. RequestInv'
    BY <1>17 DEF Acted, LoadNext, RequestInv
  <2>5. OwnerInv'
    <3>1. /\ phase'[o] = "loading" /\ wire'[o] = "sent" /\ UnderWay(o)
          /\ \A p \in Op \ {o} : phase'[p] = phase[p] /\ wire'[p] = wire[p]
      BY <1>17 DEF Acted, Answered, LoadNext, TypeOK, UnderWay
    <3>2. UNCHANGED <<busy, fresh, notice, seen, account>>
      BY <1>17 DEF Acted, LoadNext
    <3> QED
      BY <3>1, <3>2 DEF OwnerInv, TypeOK, UnderWay
  <2>6. ShownIsOwn'
    BY <1>17 DEF Acted, LoadNext, ShownIsOwn
  <2>7. NoOrphan'
    BY <1>17 DEF Acted, LoadNext, NoOrphan, UnderWay
  <2> QED
    BY <2>1, <2>2, <2>3, <2>4, <2>5, <2>6, <2>7
<1>18. ASSUME NEW o \in Op, Cancelled(o) PROVE IInv'
  <2>1. TypeOK'
    BY <1>18 DEF Cancelled, LoadNext, TypeOK
  <2>2. OpInv'
    BY <1>18 DEF Cancelled, Answered, LoadNext, OpInv, UnderWay
  <2>3. HintInv'
    BY <1>18 DEF Cancelled, Answered, LoadNext, HintInv, Settled
  <2>4. RequestInv'
    BY <1>18 DEF Cancelled, LoadNext, RequestInv
  <2>5. OwnerInv'
    <3>1. /\ phase'[o] = "loading" /\ wire'[o] = "sent" /\ UnderWay(o)
          /\ \A p \in Op \ {o} : phase'[p] = phase[p] /\ wire'[p] = wire[p]
      BY <1>18 DEF Cancelled, Answered, LoadNext, TypeOK, UnderWay
    <3>2. UNCHANGED <<busy, fresh, notice, seen, account>>
      BY <1>18 DEF Cancelled, LoadNext
    <3> QED
      BY <3>1, <3>2 DEF OwnerInv, TypeOK, UnderWay
  <2>6. ShownIsOwn'
    BY <1>18 DEF Cancelled, LoadNext, ShownIsOwn
  <2>7. NoOrphan'
    BY <1>18 DEF Cancelled, Answered, LoadNext, RequestInv, NoOrphan, UnderWay
  <2> QED
    BY <2>1, <2>2, <2>3, <2>4, <2>5, <2>6, <2>7
<1>19. ASSUME NEW o \in Op, Leave(o) PROVE IInv'
  <2>1. TypeOK'
    BY <1>19 DEF Leave, End, TypeOK
  <2>2. OpInv'
    BY <1>19 DEF Leave, Answered, End, OpInv, UnderWay
  <2>3. HintInv'
    BY <1>19 DEF Leave, Answered, End, TypeOK, HintInv, Settled
  <2>4. RequestInv'
    BY <1>19 DEF Leave, Answered, End, RequestInv
  <2>5. OwnerInv'
    BY <1>19 DEF Leave, Answered, Current, End, TypeOK, OwnerInv, UnderWay
  <2>6. ShownIsOwn'
    BY <1>19 DEF Leave, ShownIsOwn
  <2>7. NoOrphan'
    BY <1>19 DEF Leave, End, OpInv, NoOrphan, UnderWay
  <2> QED
    BY <2>1, <2>2, <2>3, <2>4, <2>5, <2>6, <2>7
<1>20. ASSUME NEW o \in Op, Fail(o) PROVE IInv'
  <2>1. TypeOK'
    BY <1>20 DEF Fail, Current, End, TypeOK
  <2>2. OpInv'
    BY <1>20 DEF Fail, End, OpInv, UnderWay
  <2>3. HintInv'
    BY <1>20 DEF Fail, End, HintInv, Settled
  <2>4. RequestInv'
    BY <1>20 DEF Fail, End, RequestInv
  <2>5. OwnerInv'
    BY <1>20 DEF Fail, Current, End, TypeOK, OwnerInv, UnderWay
  <2>6. ShownIsOwn'
    BY <1>20 DEF Fail, ShownIsOwn
  <2>7. NoOrphan'
    BY <1>20 DEF Fail, End, OpInv, NoOrphan, UnderWay
  <2> QED
    BY <2>1, <2>2, <2>3, <2>4, <2>5, <2>6, <2>7
<1>21. ASSUME NEW o \in Op, Refuse(o) PROVE IInv'
  <2>0. UnderWay(o) /\ wire[o] = "handled"
    BY <1>21 DEF Refuse, Answered, UnderWay
  <2>1. TypeOK'
    BY <1>21 DEF Refuse, Answered, Current, End, TypeOK
  <2>2. OpInv'
    BY <1>21 DEF Refuse, Answered, End, OpInv, UnderWay
  <2>3. HintInv'
    BY <1>21 DEF Refuse, Answered, End, HintInv, Settled
  <2>4. RequestInv'
    BY <1>21 DEF Refuse, Answered, End, RequestInv
  <2>5. OwnerInv'
    BY <1>21, <2>0 DEF Refuse, Answered, Current, End, TypeOK, OwnerInv, UnderWay
  <2>6. ShownIsOwn'
    BY <1>21 DEF Refuse, ShownIsOwn
  <2>7. NoOrphan'
    BY <1>21, <2>0 DEF Refuse, Answered, End, OpInv, NoOrphan, UnderWay
  <2> QED
    BY <2>1, <2>2, <2>3, <2>4, <2>5, <2>6, <2>7
<1>22. CASE UNCHANGED vars
  <2>1. TypeOK'
    BY <1>22 DEF vars, TypeOK
  <2>2. OpInv'
    BY <1>22 DEF vars, OpInv, UnderWay
  <2>3. HintInv'
    BY <1>22 DEF vars, HintInv, Settled
  <2>4. RequestInv'
    BY <1>22 DEF vars, RequestInv
  <2>5. OwnerInv'
    BY <1>22 DEF vars, OwnerInv, UnderWay
  <2>6. ShownIsOwn'
    BY <1>22 DEF vars, TypeOK, OwnerInv, ShownIsOwn
  <2>7. NoOrphan'
    BY <1>22 DEF vars, NoOrphan, UnderWay
  <2> QED
    BY <2>1, <2>2, <2>3, <2>4, <2>5, <2>6, <2>7
<1> QED
  BY <1>1, <1>2, <1>3, <1>4, <1>5, <1>6, <1>7, <1>8, <1>9, <1>10, <1>11, <1>12, <1>13, <1>14, <1>15, <1>16, <1>17, <1>18, <1>19, <1>20, <1>21, <1>22
  DEF Next, Change, Click, Server, Settle
-----------------------------------------------------------------------------
\* Every state of the panel and its operations satisfies it.
LEMMA Invariant == Spec => []IInv
  BY InitIInv, StepIInv, PTL DEF Spec

\* A panel that is not there shows nothing and waits for nothing.
THEOREM TypeCorrect == Spec => []TypeOK
<1>1. IInv => TypeOK
  BY DEF IInv
<1> QED
  BY <1>1, Invariant, PTL

\* owner.check: no late answer shows the connections of another agent or account.
THEOREM ShownIsOwnHolds == Spec => []ShownIsOwn
<1>1. IInv => ShownIsOwn
  BY DEF IInv
<1> QED
  BY <1>1, Invariant, PTL

\* The finally of perform enables the buttons for its own owner only.
THEOREM OneAtATimeHolds == Spec => []OneAtATime
<1>1. IInv => OneAtATime
  BY DEF IInv, OwnerInv, OneAtATime, Current
<1> QED
  BY <1>1, Invariant, PTL

\* Submit keeps a hint of every authorization that is answered as it must be and whose
\* hint the storage takes, and only a cancellation that the server handled removes one.
THEOREM NoOrphanHolds == Spec => []NoOrphan
<1>1. IInv => NoOrphan
  BY DEF IInv
<1> QED
  BY <1>1, Invariant, PTL
===============================================================================
