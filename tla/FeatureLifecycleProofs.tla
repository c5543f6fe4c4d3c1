------------------------ MODULE FeatureLifecycleProofs ------------------------
(* No remote connection is lost, and no tool mounted without its owner, for  *)
(* any calls of any number of servers and grants.                           *)
EXTENDS FeatureLifecycle, TLAPS

USE TargetAssumption, TasksAssumption
-----------------------------------------------------------------------------
(* Where a task is with respect to the locks.                               *)

Waits(p, queue) == \E i \in DOMAIN queue : queue[i] = p

InTransition(p) ==
  \/ p \in Opener /\ pc[p] \in {"gating", "replacing", "connecting", "saving", "confirming",
                                "retiring"}
  \/ p \in Drainer /\ pc[p] \in {"draining", "granting", "reaching", "parting", "releasing",
                                 "gating", "retiring", "starting"}
AtTransition(p) == InTransition(p) \/ pc[p] = "queued"

\* The name whose gate a task is about.
Place(p) == IF p \in Drainer THEN Target[at[p]] ELSE Target[p]

InRemote(p) ==
  \/ pc[p] \in {"replacing", "connecting", "saving", "confirming", "retiring", "parting"}
  \/ p \in Unloader /\ pc[p] \in {"reading", "forgetting"}
AtRemote(p) == InRemote(p) \/ pc[p] \in {"gating", "reaching"}

InGrant(p) ==
  \/ p \in Connector /\ pc[p] \notin {"idle", "reading", "granting", "done", "failed"}
  \/ p \in Disconnector /\ pc[p] \in {"forgetting", "reaching", "parting"}
  \/ p \in Drainer /\ pc[p] \in {"reaching", "parting"}
AtGrant(p) == InGrant(p) \/ pc[p] = "granting"
-----------------------------------------------------------------------------
(* The inductive invariant.                                                 *)

\* A task is in the queues of the locks it is about, and at the head of those it is in.
TransitionInv ==
  \A p \in Task :
    /\ InTransition(p) => Holds(p, transition)
    /\ Waits(p, transition) => AtTransition(p)

RemoteInv ==
  \A p \in Task :
    /\ InRemote(p) => Place(p) \in Name /\ Holds(p, remoteGate[Place(p)])
    /\ \A n \in Name : Waits(p, remoteGate[n]) => AtRemote(p) /\ Place(p) = n

GrantInv ==
  \A p \in Task :
    /\ InGrant(p) => Place(p) \in Grant /\ Holds(p, grantGate[Place(p)])
    /\ \A g \in Grant : Waits(p, grantGate[g]) => AtGrant(p) /\ Place(p) = g

\* Which record or credential a task is retiring.
PlaceInv ==
  /\ \A g \in Grant : credential[g] # Nobody => Target[credential[g]] = g
  /\ \A p \in Connector \cup Disconnector :
       pc[p] \in {"reaching", "parting"} => at[p] \in Opener /\ Target[at[p]] = Target[p]
  /\ \A d \in Disconnector :
       pc[d] = "forgetting" /\ at[d] # Nobody => Target[at[d]] = Target[d]
  /\ \A d \in Drainer :
       /\ pc[d] \in {"draining", "granting", "reaching", "parting"} => todo[d] \subseteq Connector
       /\ pc[d] \in {"granting", "reaching", "parting"} => at[d] \in Connector
       /\ pc[d] \in {"gating", "retiring"} => at[d] \in Opener

\* A load that has a record was admitted before, and is not admitted again.
Recorded(p) ==
  /\ pc[p] \notin {"idle", "reading", "granting", "admitting"}
  /\ pc[p] \in {"reaching", "parting"} => at[p] = p

\* A load that has connected is in the record; whoever is to retire a record has
\* unmounted its tools, and a disconnect those of its grant.
RecordInv ==
  /\ \A p \in Opener : pc[p] \in {"connecting", "saving", "confirming"} => record[Target[p]] = p
  /\ \A n \in Name : record[n] # Nobody => Recorded(record[n])

\* A load that mounted its tools is over, or it is a connect that was then refused
\* and has still to retire them.
Mounter(p) == pc[p] = "done" \/ (pc[p] = "reaching" /\ at[p] = p)

MountInv ==
  /\ MountedIsOwned
  /\ \A n \in Name : mounted[n] # Nobody => Mounter(mounted[n])
  /\ \A p \in Opener :
       pc[p] \in {"replacing", "connecting", "saving", "confirming", "retiring"} =>
         mounted[Target[p]] = Nobody
  /\ \A p \in Unloader \cup Disconnector :
       pc[p] \in {"forgetting", "retiring"} => mounted[Target[p]] = Nobody
  /\ \A p \in Connector \cup Disconnector \cup Drainer :
       pc[p] = "parting" /\ record[Place(p)] = at[p] => mounted[Place(p)] = Nobody

\* A load that passed its last check is current, or the feature is closing.
GenerationInv ==
  /\ NoStaleGeneration
  /\ \A p \in Opener :
       pc[p] \in {"replacing", "connecting", "saving", "confirming"} /\ ~closing =>
         admitted[p] = generation

\* While records are released, those that remain are still to be released.
DrainInv ==
  /\ QuietAfterShutdown
  /\ quiet => closing
  /\ \A d \in Drainer :
       /\ pc[d] \in {"draining", "granting", "reaching", "parting", "releasing", "gating",
                     "retiring"} => closing
       /\ pc[d] \in {"releasing", "gating", "retiring"} /\ clean[d] =>
            \A n \in Name : record[n] # Nobody => record[n] \in todo[d]

IInv ==
  /\ TypeOK
  /\ TransitionInv /\ RemoteInv /\ GrantInv /\ PlaceInv
  /\ NoConnectionLeaked /\ RecordInv /\ MountInv /\ GenerationInv /\ DrainInv
-----------------------------------------------------------------------------
(* Locks.                                                                   *)

\* A task joins a queue at its end.
LEMMA Joined ==
  ASSUME NEW S, NEW queue \in Seq(S), NEW p \in S, WaitsOnce(queue), ~Waits(p, queue)
  PROVE  /\ Append(queue, p) \in Seq(S) /\ WaitsOnce(Append(queue, p))
         /\ \A x : Waits(x, Append(queue, p)) => Waits(x, queue) \/ x = p
         /\ \A x : Holds(x, queue) => Holds(x, Append(queue, p))
<1> DEFINE new == Append(queue, p)
<1>1. /\ new \in Seq(S) /\ Len(new) = Len(queue) + 1 /\ Len(queue) \in Nat
      /\ DOMAIN new = 1..(Len(queue) + 1) /\ DOMAIN queue = 1..Len(queue)
      /\ \A i \in 1..Len(queue) : new[i] = queue[i]
      /\ new[Len(queue) + 1] = p
  OBVIOUS
<1>2. WaitsOnce(new)
  BY <1>1 DEF WaitsOnce, Waits
<1>3. \A x : Waits(x, new) => Waits(x, queue) \/ x = p
  BY <1>1 DEF Waits
<1>4. ASSUME NEW x, Holds(x, queue) PROVE Holds(x, new)
  <2>1. Len(queue) >= 1 /\ queue[1] = x
    BY <1>4 DEF Holds
  <2> QED
    BY <2>1, <1>1 DEF Holds
<1> QED
  BY <1>1, <1>2, <1>3, <1>4

\* The holder leaves a queue.
LEMMA Left ==
  ASSUME NEW S, NEW queue \in Seq(S), NEW p, WaitsOnce(queue), Holds(p, queue)
  PROVE  /\ Tail(queue) \in Seq(S) /\ WaitsOnce(Tail(queue))
         /\ \A x : Waits(x, Tail(queue)) => Waits(x, queue) /\ x # p
<1> DEFINE new == Tail(queue)
<1>1. /\ new \in Seq(S) /\ Len(queue) \in Nat \ {0}
      /\ DOMAIN new = 1..(Len(queue) - 1) /\ DOMAIN queue = 1..Len(queue)
      /\ \A i \in 1..(Len(queue) - 1) : new[i] = queue[i + 1]
      /\ queue[1] = p
  BY DEF Holds
<1>2. WaitsOnce(new)
  BY <1>1 DEF WaitsOnce
<1>3. ASSUME NEW x, Waits(x, new) PROVE Waits(x, queue) /\ x # p
  <2>1. PICK i \in 1..(Len(queue) - 1) : queue[i + 1] = x
    BY <1>1, <1>3 DEF Waits
  <2>2. i + 1 \in DOMAIN queue /\ 1 \in DOMAIN queue /\ i + 1 # 1
    BY <1>1
  <2> QED
    BY <1>1, <2>1, <2>2 DEF Waits, WaitsOnce
<1> QED
  BY <1>1, <1>2, <1>3

\* A lock has one holder, who is in its queue.
LEMMA Held ==
  ASSUME NEW S, NEW queue \in Seq(S), NEW p, NEW q, Holds(p, queue)
  PROVE  Waits(p, queue) /\ (Holds(q, queue) => p = q)
<1>1. 1 \in DOMAIN queue /\ queue[1] = p
  BY DEF Holds
<1> QED
  BY <1>1 DEF Holds, Waits

\* Every other task stays where it is.
Others(p) == \A q \in Task \ {p} : pc'[q] = pc[q] /\ at'[q] = at[q]

\* The transition lock is not touched, or queued for, or released.
LEMMA TransitionStep ==
  ASSUME TypeOK, TransitionInv, NEW p \in Task, Others(p),
         \/ /\ transition' = transition
            /\ InTransition(p)' => Holds(p, transition)
            /\ AtTransition(p) => AtTransition(p)'
         \/ /\ transition' = Append(transition, p)
            /\ p \in Opener \cup Drainer
            /\ ~AtTransition(p) /\ AtTransition(p)' /\ ~InTransition(p)'
         \/ /\ transition' = Tail(transition)
            /\ Holds(p, transition)
            /\ ~InTransition(p)'
  PROVE  /\ transition' \in Seq(Opener \cup Drainer) /\ WaitsOnce(transition')
         /\ TransitionInv'
<1> USE DEF TypeOK
<1>1. \A q \in Task \ {p} : (InTransition(q)' <=> InTransition(q))
                            /\ (AtTransition(q)' <=> AtTransition(q))
  BY DEF Others, InTransition, AtTransition
<1>2. CASE /\ transition' = transition
           /\ InTransition(p)' => Holds(p, transition)
           /\ AtTransition(p) => AtTransition(p)'
  BY <1>1, <1>2 DEF TransitionInv
<1>3. CASE /\ transition' = Append(transition, p)
           /\ p \in Opener \cup Drainer
           /\ ~AtTransition(p) /\ AtTransition(p)' /\ ~InTransition(p)'
  <2>1. ~Waits(p, transition)
    BY <1>3 DEF TransitionInv
  <2>2. /\ transition' \in Seq(Opener \cup Drainer) /\ WaitsOnce(transition')
        /\ \A x : Waits(x, transition') => Waits(x, transition) \/ x = p
        /\ \A x : Holds(x, transition) => Holds(x, transition')
    BY <1>3, <2>1, Joined
  <2> QED
    BY <1>1, <1>3, <2>2 DEF TransitionInv
<1>4. CASE /\ transition' = Tail(transition)
           /\ Holds(p, transition)
           /\ ~InTransition(p)'
  <2>1. /\ transition' \in Seq(Opener \cup Drainer) /\ WaitsOnce(transition')
        /\ \A x : Waits(x, transition') => Waits(x, transition) /\ x # p
    BY <1>4, Left
  <2>2. \A q \in Task \ {p} : ~InTransition(q)
    BY <1>4, Held DEF TransitionInv
  <2> QED
    BY <1>1, <1>4, <2>1, <2>2, Zenon DEF TransitionInv
<1> QED
  BY <1>2, <1>3, <1>4

\* The gate of a name is not touched, or queued for, or left, or left and queued for.
LEMMA RemoteStep ==
  ASSUME TypeOK, RemoteInv, NEW p \in Task, Others(p),
         \/ /\ remoteGate' = remoteGate
            /\ InRemote(p)' =>
                 /\ Place(p)' = Place(p) /\ Place(p) \in Name
                 /\ Holds(p, remoteGate[Place(p)])
            /\ AtRemote(p) => AtRemote(p)' /\ Place(p)' = Place(p)
         \/ /\ Place(p)' \in Name
            /\ remoteGate' = [remoteGate EXCEPT ![Place(p)'] = Append(@, p)]
            /\ ~AtRemote(p) /\ AtRemote(p)' /\ ~InRemote(p)'
         \/ /\ Place(p) \in Name /\ Holds(p, remoteGate[Place(p)])
            /\ remoteGate' = [remoteGate EXCEPT ![Place(p)] = Tail(@)]
            /\ ~AtRemote(p)'
         \/ /\ Place(p) \in Name /\ Holds(p, remoteGate[Place(p)]) /\ Place(p)' = Place(p)
            /\ remoteGate' = [remoteGate EXCEPT ![Place(p)] = Append(Tail(@), p)]
            /\ AtRemote(p)' /\ ~InRemote(p)'
  PROVE  /\ remoteGate' \in [Name -> Seq(Task)] /\ \A n \in Name : WaitsOnce(remoteGate'[n])
         /\ RemoteInv'
<1> DEFINE here == Place(p)
           there == Place(p)'
<1> USE DEF TypeOK
<1>1. \A q \in Task \ {p} : /\ Place(q)' = Place(q)
                            /\ InRemote(q)' <=> InRemote(q)
                            /\ AtRemote(q)' <=> AtRemote(q)
  BY DEF Others, Place, InRemote, AtRemote
<1>2. \A n \in Name : remoteGate[n] \in Seq(Task) /\ WaitsOnce(remoteGate[n])
  OBVIOUS
<1>3. CASE /\ remoteGate' = remoteGate
           /\ InRemote(p)' =>
                /\ there = here /\ here \in Name
                /\ Holds(p, remoteGate[here])
           /\ AtRemote(p) => AtRemote(p)' /\ there = here
  BY <1>1, <1>3 DEF RemoteInv
<1>4. CASE /\ there \in Name
           /\ remoteGate' = [remoteGate EXCEPT ![there] = Append(@, p)]
           /\ ~AtRemote(p) /\ AtRemote(p)' /\ ~InRemote(p)'
  <2>1. \A n \in Name : ~Waits(p, remoteGate[n])
    BY <1>4 DEF RemoteInv
  <2> HIDE DEF there, here
  <2> DEFINE new == remoteGate'[there]
  <2>2. new = Append(remoteGate[there], p)
    BY <1>4
  <2>3. /\ new \in Seq(Task) /\ WaitsOnce(new)
        /\ \A x : Waits(x, new) => Waits(x, remoteGate[there]) \/ x = p
        /\ \A x : Holds(x, remoteGate[there]) => Holds(x, new)
    BY <1>2, <1>4, <2>1, <2>2, Joined
  <2>4. \A n \in Name \ {there} : remoteGate'[n] = remoteGate[n]
    BY <1>4
  <2>5. remoteGate' \in [Name -> Seq(Task)] /\ \A n \in Name : WaitsOnce(remoteGate'[n])
    BY <1>4, <2>2, <2>3, <2>4
  <2>6. ASSUME NEW q \in Task, InRemote(q)'
        PROVE  Place(q)' \in Name /\ Holds(q, remoteGate'[Place(q)'])
    <3>1. /\ q # p /\ Place(q)' = Place(q)
          /\ Place(q) \in Name /\ Holds(q, remoteGate[Place(q)])
      BY <1>1, <1>4, <2>6 DEF RemoteInv
    <3> QED
      BY <3>1, <2>3, <2>4
  <2>7. ASSUME NEW q \in Task, NEW n \in Name, Waits(q, remoteGate'[n])
        PROVE  AtRemote(q)' /\ Place(q)' = n
    <3>1. Waits(q, remoteGate[n]) \/ (q = p /\ n = there)
      BY <2>3, <2>4, <2>7
    <3>2. CASE Waits(q, remoteGate[n])
      <4>1. q # p
        BY <2>1, <3>2
      <4> QED
        BY <1>1, <3>2, <4>1 DEF RemoteInv
    <3>3. CASE q = p /\ n = there
      BY <1>4, <3>3 DEF there
    <3> QED
      BY <3>1, <3>2, <3>3
  <2> QED
    BY <2>5, <2>6, <2>7 DEF RemoteInv
<1>5. CASE /\ here \in Name /\ Holds(p, remoteGate[here])
           /\ remoteGate' = [remoteGate EXCEPT ![here] = Tail(@)]
           /\ ~AtRemote(p)'
  <2>1. \A q \in Task \ {p} : ~(InRemote(q) /\ Place(q) = here)
    BY <1>2, <1>5, Held DEF RemoteInv
  <2> HIDE DEF here, there
  <2> DEFINE new == remoteGate'[here]
  <2>2. new = Tail(remoteGate[here])
    BY <1>5
  <2>3. /\ new \in Seq(Task) /\ WaitsOnce(new)
        /\ \A x : Waits(x, new) => Waits(x, remoteGate[here]) /\ x # p
    BY <1>2, <1>5, <2>2, Left
  <2>4. \A n \in Name \ {here} : remoteGate'[n] = remoteGate[n]
    BY <1>5
  <2>5. remoteGate' \in [Name -> Seq(Task)] /\ \A n \in Name : WaitsOnce(remoteGate'[n])
    BY <1>5, <2>2, <2>3, <2>4
  <2>6. \A n \in Name : Waits(p, remoteGate[n]) => n = here
    BY <1>5 DEF RemoteInv, here
  <2>7. ASSUME NEW q \in Task, InRemote(q)'
        PROVE  Place(q)' \in Name /\ Holds(q, remoteGate'[Place(q)'])
    <3>1. /\ q # p /\ Place(q)' = Place(q) /\ InRemote(q)
          /\ Place(q) \in Name /\ Holds(q, remoteGate[Place(q)])
      BY <1>1, <1>5, <2>7 DEF RemoteInv, AtRemote
    <3> QED
      BY <3>1, <2>1, <2>4
  <2>8. \A q \in Task, n \in Name : Waits(q, remoteGate'[n]) => AtRemote(q)' /\ Place(q)' = n
    BY <1>1, <1>5, <2>3, <2>4, <2>6 DEF RemoteInv
  <2> QED
    BY <2>5, <2>7, <2>8 DEF RemoteInv
<1>6. CASE /\ here \in Name /\ Holds(p, remoteGate[here]) /\ there = here
           /\ remoteGate' = [remoteGate EXCEPT ![here] = Append(Tail(@), p)]
           /\ AtRemote(p)' /\ ~InRemote(p)'
  <2>1. \A q \in Task \ {p} : ~(InRemote(q) /\ Place(q) = here)
    BY <1>2, <1>6, Held DEF RemoteInv
  <2>2. \A n \in Name : Waits(p, remoteGate[n]) => n = here
    BY <1>6 DEF RemoteInv
  <2> HIDE DEF here, there
  <2> DEFINE left == Tail(remoteGate[here])
             new == remoteGate'[here]
  <2>3. /\ left \in Seq(Task) /\ WaitsOnce(left)
        /\ \A x : Waits(x, left) => Waits(x, remoteGate[here]) /\ x # p
    BY <1>2, <1>6, Left
  <2>4. new = Append(left, p) /\ p \in Task
    BY <1>6
  <2> HIDE DEF left, new
  <2>5. /\ new \in Seq(Task) /\ WaitsOnce(new)
        /\ \A x : Waits(x, new) => Waits(x, left) \/ x = p
    <3>1. ~Waits(p, left)
      BY <2>3
    <3> QED
      BY <2>3, <2>4, <3>1, Joined
  <2>6. \A n \in Name \ {here} : remoteGate'[n] = remoteGate[n]
    BY <1>6
  <2>7. remoteGate' \in [Name -> Seq(Task)] /\ \A n \in Name : WaitsOnce(remoteGate'[n])
    BY <1>6, <2>5, <2>6 DEF new
  <2>8. ASSUME NEW q \in Task, InRemote(q)'
        PROVE  Place(q)' \in Name /\ Holds(q, remoteGate'[Place(q)'])
    <3>1. /\ q # p /\ Place(q)' = Place(q)
          /\ Place(q) \in Name /\ Holds(q, remoteGate[Place(q)])
      BY <1>1, <1>6, <2>8 DEF RemoteInv
    <3> QED
      BY <3>1, <2>1, <2>6, <2>8, <1>1
  <2>9. ASSUME NEW q \in Task, NEW n \in Name, Waits(q, remoteGate'[n])
        PROVE  AtRemote(q)' /\ Place(q)' = n
    <3>1. (q # p /\ Waits(q, remoteGate[n])) \/ (q = p /\ n = here)
      BY <2>2, <2>3, <2>5, <2>6, <2>9 DEF new
    <3>2. CASE q # p /\ Waits(q, remoteGate[n])
      BY <1>1, <3>2 DEF RemoteInv
    <3>3. CASE q = p /\ n = here
      BY <1>6, <3>3 DEF there
    <3> QED
      BY <3>1, <3>2, <3>3
  <2> QED
    BY <2>7, <2>8, <2>9 DEF RemoteInv
<1> QED
  BY <1>3, <1>4, <1>5, <1>6

\* The gate of an OAuth connection is not touched, or queued for, or left.
LEMMA GrantStep ==
  ASSUME TypeOK, GrantInv, NEW p \in Task, Others(p),
         \/ /\ grantGate' = grantGate
            /\ InGrant(p)' =>
                 /\ Place(p)' = Place(p) /\ Place(p) \in Grant
                 /\ Holds(p, grantGate[Place(p)])
            /\ AtGrant(p) => AtGrant(p)' /\ Place(p)' = Place(p)
         \/ /\ Place(p)' \in Grant
            /\ grantGate' = [grantGate EXCEPT ![Place(p)'] = Append(@, p)]
            /\ ~AtGrant(p) /\ AtGrant(p)' /\ ~InGrant(p)'
         \/ /\ Place(p) \in Grant /\ Holds(p, grantGate[Place(p)])
            /\ grantGate' = [grantGate EXCEPT ![Place(p)] = Tail(@)]
            /\ ~AtGrant(p)'
  PROVE  /\ grantGate' \in [Grant -> Seq(Task)] /\ \A n \in Grant : WaitsOnce(grantGate'[n])
         /\ GrantInv'
<1> DEFINE here == Place(p)
           there == Place(p)'
<1> USE DEF TypeOK
<1>1. \A q \in Task \ {p} : /\ Place(q)' = Place(q)
                            /\ InGrant(q)' <=> InGrant(q)
                            /\ AtGrant(q)' <=> AtGrant(q)
  BY DEF Others, Place, InGrant, AtGrant
<1>2. \A n \in Grant : grantGate[n] \in Seq(Task) /\ WaitsOnce(grantGate[n])
  OBVIOUS
<1>3. CASE /\ grantGate' = grantGate
           /\ InGrant(p)' =>
                /\ there = here /\ here \in Grant
                /\ Holds(p, grantGate[here])
           /\ AtGrant(p) => AtGrant(p)' /\ there = here
  BY <1>1, <1>3 DEF GrantInv
<1>4. CASE /\ there \in Grant
           /\ grantGate' = [grantGate EXCEPT ![there] = Append(@, p)]
           /\ ~AtGrant(p) /\ AtGrant(p)' /\ ~InGrant(p)'
  <2>1. \A n \in Grant : ~Waits(p, grantGate[n])
    BY <1>4 DEF GrantInv
  <2> HIDE DEF there, here
  <2> DEFINE new == grantGate'[there]
  <2>2. new = Append(grantGate[there], p)
    BY <1>4
  <2>3. /\ new \in Seq(Task) /\ WaitsOnce(new)
        /\ \A x : Waits(x, new) => Waits(x, grantGate[there]) \/ x = p
        /\ \A x : Holds(x, grantGate[there]) => Holds(x, new)
    BY <1>2, <1>4, <2>1, <2>2, Joined
  <2>4. \A n \in Grant \ {there} : grantGate'[n] = grantGate[n]
    BY <1>4
  <2>5. grantGate' \in [Grant -> Seq(Task)] /\ \A n \in Grant : WaitsOnce(grantGate'[n])
    BY <1>4, <2>2, <2>3, <2>4
  <2>6. ASSUME NEW q \in Task, InGrant(q)'
        PROVE  Place(q)' \in Grant /\ Holds(q, grantGate'[Place(q)'])
    <3>1. /\ q # p /\ Place(q)' = Place(q)
          /\ Place(q) \in Grant /\ Holds(q, grantGate[Place(q)])
      BY <1>1, <1>4, <2>6 DEF GrantInv
    <3> QED
      BY <3>1, <2>3, <2>4
  <2>7. ASSUME NEW q \in Task, NEW n \in Grant, Waits(q, grantGate'[n])
        PROVE  AtGrant(q)' /\ Place(q)' = n
    <3>1. Waits(q, grantGate[n]) \/ (q = p /\ n = there)
      BY <2>3, <2>4, <2>7
    <3>2. CASE Waits(q, grantGate[n])
      <4>1. q # p
        BY <2>1, <3>2
      <4> QED
        BY <1>1, <3>2, <4>1 DEF GrantInv
    <3>3. CASE q = p /\ n = there
      BY <1>4, <3>3 DEF there
    <3> QED
      BY <3>1, <3>2, <3>3
  <2> QED
    BY <2>5, <2>6, <2>7 DEF GrantInv
<1>5. CASE /\ here \in Grant /\ Holds(p, grantGate[here])
           /\ grantGate' = [grantGate EXCEPT ![here] = Tail(@)]
           /\ ~AtGrant(p)'
  <2>1. \A q \in Task \ {p} : ~(InGrant(q) /\ Place(q) = here)
    BY <1>2, <1>5, Held DEF GrantInv
  <2> HIDE DEF here, there
  <2> DEFINE new == grantGate'[here]
  <2>2. new = Tail(grantGate[here])
    BY <1>5
  <2>3. /\ new \in Seq(Task) /\ WaitsOnce(new)
        /\ \A x : Waits(x, new) => Waits(x, grantGate[here]) /\ x # p
    BY <1>2, <1>5, <2>2, Left
  <2>4. \A n \in Grant \ {here} : grantGate'[n] = grantGate[n]
    BY <1>5
  <2>5. grantGate' \in [Grant -> Seq(Task)] /\ \A n \in Grant : WaitsOnce(grantGate'[n])
    BY <1>5, <2>2, <2>3, <2>4
  <2>6. \A n \in Grant : Waits(p, grantGate[n]) => n = here
    BY <1>5 DEF GrantInv, here
  <2>7. ASSUME NEW q \in Task, InGrant(q)'
        PROVE  Place(q)' \in Grant /\ Holds(q, grantGate'[Place(q)'])
    <3>1. /\ q # p /\ Place(q)' = Place(q) /\ InGrant(q)
          /\ Place(q) \in Grant /\ Holds(q, grantGate[Place(q)])
      BY <1>1, <1>5, <2>7 DEF GrantInv, AtGrant
    <3> QED
      BY <3>1, <2>1, <2>4
  <2>8. \A q \in Task, n \in Grant : Waits(q, grantGate'[n]) => AtGrant(q)' /\ Place(q)' = n
    BY <1>1, <1>5, <2>3, <2>4, <2>6 DEF GrantInv
  <2> QED
    BY <2>5, <2>7, <2>8 DEF GrantInv
<1> QED
  BY <1>3, <1>4, <1>5
-----------------------------------------------------------------------------
(* Steps.                                                                   *)

\* Tasks are of one kind each, and their targets are names of that kind.
LEMMA Kinds ==
  /\ Connector \subseteq Opener /\ Loader \subseteq Opener /\ Restorer \subseteq Opener
  /\ Stopper \subseteq Drainer /\ Starter \subseteq Drainer
  /\ Opener \subseteq Task /\ Unloader \subseteq Task /\ Disconnector \subseteq Task
  /\ Drainer \subseteq Task
  /\ \A p \in Opener : p \notin Unloader /\ p \notin Disconnector /\ p \notin Drainer
  /\ \A p \in Unloader : p \notin Disconnector /\ p \notin Drainer
  /\ \A p \in Disconnector : p \notin Drainer
  /\ \A p \in Loader \cup Restorer : p \notin Connector
  /\ \A p \in Opener \cup Unloader \cup Disconnector : Target[p] \in Name
  /\ \A p \in Connector \cup Disconnector : Target[p] \in Grant
  /\ \A p \in Opener : Target[p] \in Grant => p \in Connector
  /\ Grant \subseteq Name
  /\ Nobody \notin Task
<1>1. /\ Connector \subseteq Opener /\ Loader \subseteq Opener /\ Restorer \subseteq Opener
      /\ Stopper \subseteq Drainer /\ Starter \subseteq Drainer
      /\ Opener \subseteq Task /\ Unloader \subseteq Task /\ Disconnector \subseteq Task
      /\ Drainer \subseteq Task /\ Grant \subseteq Name
  BY DEF Opener, Drainer, Task, Name
<1>2. \A p \in Opener : p \notin Unloader /\ p \notin Disconnector /\ p \notin Drainer
  OBVIOUS
<1>3. /\ \A p \in Unloader : p \notin Disconnector /\ p \notin Drainer
      /\ \A p \in Disconnector : p \notin Drainer
  OBVIOUS
<1>4. \A p \in Loader \cup Restorer : p \notin Connector
  OBVIOUS
<1>5. \A p \in Opener : Target[p] \in Grant => p \in Connector
  BY DEF Opener
<1> QED
  BY <1>1, <1>2, <1>3, <1>4, <1>5

\* A task goes to its next phase, and may take note of a record.
LEMMA Goes ==
  ASSUME TypeOK, NEW p \in Task, NEW phase \in Phase, Goto(p, phase),
         at' = at \/ \E r \in Opener \cup {Nobody} : at' = [at EXCEPT ![p] = r]
  PROVE  /\ Others(p)
         /\ pc' \in [Task -> Phase] /\ pc'[p] = phase
         /\ at' \in [Task -> Opener \cup {Nobody}]
  BY DEF TypeOK, Goto, Others

\* A load that fails leaves its gate, and waits there once more if it has a grant.
LEMMA GivesUp ==
  ASSUME TypeOK, RemoteInv, NEW p \in Opener,
         \/ GiveUp(p, remoteGate[Target[p]]) /\ ~AtRemote(p)
         \/ GiveUp(p, Tail(remoteGate[Target[p]])) /\ Holds(p, remoteGate[Target[p]])
  PROVE  /\ Others(p)
         /\ pc' \in [Task -> Phase] /\ at' \in [Task -> Opener \cup {Nobody}]
         /\ running' \in Task \cup {Nobody}
         /\ p \in Connector => pc'[p] = "reaching" /\ at'[p] = p
         /\ p \notin Connector => pc'[p] = "failed" /\ at' = at
         /\ remoteGate' \in [Name -> Seq(Task)] /\ \A n \in Name : WaitsOnce(remoteGate'[n])
         /\ RemoteInv'
<1> USE Kinds
<1>1. /\ Others(p)
      /\ pc' \in [Task -> Phase] /\ at' \in [Task -> Opener \cup {Nobody}]
      /\ p \in Connector => pc'[p] = "reaching" /\ at'[p] = p
      /\ p \notin Connector => pc'[p] = "failed" /\ at' = at
  <2>1. "reaching" \in Phase /\ "failed" \in Phase
    BY DEF Phase
  <2> QED
    BY <2>1, Goes DEF GiveUp, TypeOK
<1>2. Place(p) = Target[p] /\ Place(p)' = Target[p] /\ Place(p) \in Name
  BY DEF Place
<1>3. /\ remoteGate' \in [Name -> Seq(Task)] /\ \A n \in Name : WaitsOnce(remoteGate'[n])
      /\ RemoteInv'
  <2>1. CASE GiveUp(p, remoteGate[Target[p]]) /\ ~AtRemote(p)
    <3>1. CASE p \in Connector
      <4>1. AtRemote(p)' /\ ~InRemote(p)'
        BY <1>1, <3>1 DEF AtRemote, InRemote
      <4>2. remoteGate' = [remoteGate EXCEPT ![Place(p)'] = Append(@, p)]
        BY <1>2, <2>1, <3>1 DEF GiveUp
      <4> QED
        BY <1>1, <1>2, <2>1, <4>1, <4>2, RemoteStep, Zenon
    <3>2. CASE p \notin Connector
      <4>1. ~AtRemote(p)' /\ ~InRemote(p)'
        BY <1>1, <3>2 DEF AtRemote, InRemote
      <4>2. remoteGate' = remoteGate
        BY <1>2, <2>1, <3>2 DEF GiveUp, TypeOK
      <4> QED
        BY <1>1, <2>1, <4>1, <4>2, RemoteStep
    <3> QED
      BY <3>1, <3>2
  <2>2. CASE GiveUp(p, Tail(remoteGate[Target[p]])) /\ Holds(p, remoteGate[Target[p]])
    <3>1. CASE p \in Connector
      <4>1. AtRemote(p)' /\ ~InRemote(p)'
        BY <1>1, <3>1 DEF AtRemote, InRemote
      <4>2. remoteGate' = [remoteGate EXCEPT ![Place(p)] = Append(Tail(@), p)]
        BY <1>2, <2>2, <3>1 DEF GiveUp
      <4> QED
        BY <1>1, <1>2, <2>2, <4>1, <4>2, RemoteStep, Zenon
    <3>2. CASE p \notin Connector
      <4>1. ~AtRemote(p)' /\ ~InRemote(p)'
        BY <1>1, <3>2 DEF AtRemote, InRemote
      <4>2. remoteGate' = [remoteGate EXCEPT ![Place(p)] = Tail(@)]
        BY <1>2, <2>2, <3>2 DEF GiveUp
      <4> QED
        BY <1>1, <1>2, <2>2, <4>1, <4>2, RemoteStep, Zenon
    <3> QED
      BY <3>1, <3>2
  <2> QED
    BY <2>1, <2>2
<1>4. running' \in Task \cup {Nobody}
  BY DEF GiveUp
<1> QED
  BY <1>1, <1>3, <1>4

\* The locks exclude each other's holders.
LEMMA Exclusive ==
  ASSUME TypeOK, TransitionInv, RemoteInv, GrantInv, NEW p \in Task, NEW q \in Task
  PROVE  /\ InTransition(p) /\ InTransition(q) => p = q
         /\ InRemote(p) /\ InRemote(q) /\ Place(p) = Place(q) => p = q
         /\ InGrant(p) /\ InGrant(q) /\ Place(p) = Place(q) => p = q
<1>1. InTransition(p) /\ InTransition(q) => p = q
  BY DEF TransitionInv, Holds
<1>2. InRemote(p) /\ InRemote(q) /\ Place(p) = Place(q) => p = q
  BY DEF RemoteInv, Holds
<1>3. InGrant(p) /\ InGrant(q) /\ Place(p) = Place(q) => p = q
  BY DEF GrantInv, Holds
<1> QED
  BY <1>1, <1>2, <1>3

\* Where the others are retiring does not change.
LEMMA PlaceStep ==
  ASSUME PlaceInv, NEW p \in Task, Others(p),
         \A g \in Grant : credential'[g] # Nobody => Target[credential'[g]] = g,
         \A d \in Drainer \ {p} : todo'[d] = todo[d],
         p \in Connector \cup Disconnector /\ pc'[p] \in {"reaching", "parting"} =>
           at'[p] \in Opener /\ Target[at'[p]] = Target[p],
         p \in Disconnector /\ pc'[p] = "forgetting" /\ at'[p] # Nobody =>
           Target[at'[p]] = Target[p],
         p \in Drainer =>
           /\ pc'[p] \in {"draining", "granting", "reaching", "parting"} =>
                todo'[p] \subseteq Connector
           /\ pc'[p] \in {"granting", "reaching", "parting"} => at'[p] \in Connector
           /\ pc'[p] \in {"gating", "retiring"} => at'[p] \in Opener
  PROVE  PlaceInv'
<1> USE Kinds
<1>1. \A g \in Grant : credential'[g] # Nobody => Target[credential'[g]] = g
  OBVIOUS
<1>2. \A q \in Connector \cup Disconnector :
        pc'[q] \in {"reaching", "parting"} => at'[q] \in Opener /\ Target[at'[q]] = Target[q]
  BY DEF Others, PlaceInv
<1>3. \A d \in Disconnector :
        pc'[d] = "forgetting" /\ at'[d] # Nobody => Target[at'[d]] = Target[d]
  BY DEF Others, PlaceInv
<1>4. \A d \in Drainer :
        /\ pc'[d] \in {"draining", "granting", "reaching", "parting"} => todo'[d] \subseteq Connector
        /\ pc'[d] \in {"granting", "reaching", "parting"} => at'[d] \in Connector
        /\ pc'[d] \in {"gating", "retiring"} => at'[d] \in Opener
  <2> TAKE d \in Drainer
  <2>1. CASE d = p
    BY <2>1
  <2>2. CASE d # p
    BY <2>2 DEF Others, PlaceInv
  <2> QED
    BY <2>1, <2>2
<1> QED
  BY <1>1, <1>2, <1>3, <1>4 DEF PlaceInv

\* A record changes in the gate of its name only.
InGate(p) == \A n \in Name : record'[n] # record[n] => InRemote(p) /\ n = Place(p)

\* The records that loads under way rely on stay.
LEMMA RecordStep ==
  ASSUME TypeOK, TransitionInv, RemoteInv, GrantInv, RecordInv, NEW p \in Task, Others(p),
         InGate(p),
         p \in Opener /\ pc'[p] \in {"connecting", "saving", "confirming"} =>
           record'[Target[p]] = p,
         \A n \in Name : record'[n] \in {record[n], p, Nobody},
         Recorded(p)' \/ \A n \in Name : record'[n] # p
  PROVE  RecordInv'
<1>0. ASSUME NEW n \in Name, record'[n] # Nobody PROVE Recorded(record[n])'
  <2>1. CASE record'[n] = p
    BY <2>1 DEF Recorded
  <2>2. CASE record'[n] # p
    <3>1. record'[n] = record[n] /\ record[n] \in Task \ {p} /\ Recorded(record[n])
      BY <1>0, <2>2, Kinds DEF RecordInv, TypeOK
    <3> QED
      BY <3>1 DEF Recorded, Others
  <2> QED
    BY <2>1, <2>2
<1> SUFFICES ASSUME NEW q \in Opener, q # p,
                    pc'[q] \in {"connecting", "saving", "confirming"}
             PROVE  record'[Target[q]] = q
  BY <1>0 DEF RecordInv
<1>1. pc[q] = pc'[q] /\ Place(q) = Target[q] /\ Target[q] \in Name /\ InRemote(q)
  BY Kinds DEF Others, Place, InRemote
<1>2. record[Target[q]] = q
  BY <1>1 DEF RecordInv
<1>3. ~(InRemote(p) /\ Target[q] = Place(p))
  BY <1>1, Kinds, Exclusive
<1> QED
  BY <1>1, <1>2, <1>3 DEF InGate

\* Tools are unmounted, or stay with their record and its enablement.
LEMMA MountStep ==
  ASSUME TypeOK, TransitionInv, RemoteInv, GrantInv, PlaceInv, MountInv,
         NEW p \in Task, Others(p), InGate(p),
         \A n \in Name :
           \/ mounted'[n] = Nobody
           \/ mounted'[n] = mounted[n] /\ record'[n] = record[n] /\ (saved[n] => saved'[n]),
         pc[p] \notin {"done", "reaching"} \/ (\A n \in Name : mounted'[n] # p),
         p \in Opener /\ pc'[p] \in {"replacing", "connecting", "saving", "confirming",
                                     "retiring"} => mounted'[Target[p]] = Nobody,
         p \in Unloader \cup Disconnector /\ pc'[p] \in {"forgetting", "retiring"} =>
           mounted'[Target[p]] = Nobody,
         pc'[p] = "parting" /\ record'[Place(p)'] = at'[p] => mounted'[Place(p)'] = Nobody
  PROVE  MountInv'
<1> USE Kinds
<1>1. MountedIsOwned'
  BY DEF MountInv, MountedIsOwned
<1>2. ASSUME NEW n \in Name, mounted'[n] # Nobody PROVE Mounter(mounted[n])'
  <2>1. mounted'[n] = mounted[n] /\ mounted[n] \in Task /\ Mounter(mounted[n])
    BY <1>2 DEF MountInv, TypeOK
  <2>2. mounted[n] # p
    BY <2>1 DEF Mounter
  <2> QED
    BY <2>1, <2>2 DEF Others, Mounter
<1>3. \A q \in Opener :
        pc'[q] \in {"replacing", "connecting", "saving", "confirming", "retiring"} =>
          mounted'[Target[q]] = Nobody
  BY DEF Others, MountInv
<1>4. \A q \in Unloader \cup Disconnector :
        pc'[q] \in {"forgetting", "retiring"} => mounted'[Target[q]] = Nobody
  BY DEF Others, MountInv
<1>5. ASSUME NEW q \in Connector \cup Disconnector \cup Drainer,
             pc'[q] = "parting", record'[Place(q)'] = at'[q]
      PROVE  mounted'[Place(q)'] = Nobody
  <2>1. CASE q = p
    BY <1>5, <2>1
  <2>2. CASE q # p
    <3>1. q \in Task /\ pc[q] = "parting" /\ at'[q] = at[q] /\ Place(q)' = Place(q)
      BY <1>5, <2>2 DEF Others, Place
    <3>2. InRemote(q) /\ Place(q) \in Name
      BY <3>1 DEF InRemote, RemoteInv
    <3>3. record'[Place(q)] = record[Place(q)]
      BY <2>2, <3>1, <3>2, Exclusive DEF InGate
    <3>4. mounted[Place(q)] = Nobody
      BY <1>5, <3>1, <3>3 DEF MountInv
    <3> QED
      BY <3>1, <3>2, <3>4
  <2> QED
    BY <2>1, <2>2
<1> QED
  BY <1>1, <1>2, <1>3, <1>4, <1>5 DEF MountInv

\* A record is retired in its gate, and forgotten only with its connection.
LEMMA Retires ==
  ASSUME TypeOK, RemoteInv, NoConnectionLeaked, NEW p \in Task, InRemote(p),
         NEW acknowledged \in BOOLEAN, Retired(Place(p), acknowledged)
  PROVE  /\ InGate(p)
         /\ record' \in [Name -> Opener \cup {Nobody}]
         /\ connection' \in [Opener -> {"none", "open", "lost", "closed"}]
         /\ \A n \in Name : record'[n] \in {record[n], Nobody}
         /\ \A n \in Name : record'[n] # Nobody => Target[record'[n]] = n
         /\ acknowledged => record'[Place(p)] = Nobody
         /\ \A q \in Opener : connection'[q] \in {connection[q], "closed"}
         /\ NoConnectionLeaked'
<1> DEFINE here == Place(p)
<1>1. here \in Name
  BY DEF RemoteInv
<1> HIDE DEF here
<1>2. Retired(here, acknowledged)
  BY DEF here
<1>3. /\ record' \in [Name -> Opener \cup {Nobody}]
      /\ \A n \in Name \ {here} : record'[n] = record[n]
      /\ record'[here] = IF acknowledged THEN Nobody ELSE record[here]
  <2>1. record' = [record EXCEPT ![here] = IF acknowledged THEN Nobody ELSE record[here]]
    BY <1>2, Zenon DEF Retired
  <2> QED
    BY <1>1, <2>1 DEF TypeOK
<1>4. PICK ended \in BOOLEAN :
        /\ acknowledged => ended
        /\ connection' = [q \in Opener |->
             IF ended /\ record[here] = q THEN "closed" ELSE connection[q]]
  BY <1>2 DEF Retired, Closed
<1>5. /\ connection' \in [Opener -> {"none", "open", "lost", "closed"}]
      /\ \A q \in Opener : connection'[q] \in {connection[q], "closed"}
  BY <1>4 DEF TypeOK
<1>6. \A n \in Name : record'[n] # Nobody => Target[record'[n]] = n
  BY <1>3, Zenon DEF TypeOK
<1>7. ASSUME NEW q \in Opener, connection'[q] \in {"open", "lost"}
      PROVE  record'[Target[q]] = q
  <2>1. connection[q] \in {"open", "lost"} /\ ~(ended /\ record[here] = q)
    BY <1>4, <1>7
  <2>2. record[Target[q]] = q /\ Target[q] \in Name
    BY <2>1, Kinds DEF NoConnectionLeaked
  <2> QED
    BY <1>3, <1>4, <2>1, <2>2
<1>8. InGate(p)
  BY <1>3 DEF InGate, here
<1> QED
  BY <1>1, <1>3, <1>5, <1>6, <1>7, <1>8 DEF NoConnectionLeaked, here

\* Nothing comes back while records are released.
LEMMA DrainStep ==
  ASSUME TypeOK, DrainInv, NEW p \in Task, Others(p),
         quiet' = quiet, closing' = closing \/ closing' = TRUE,
         \A n \in Name :
           /\ record'[n] \in {record[n], Nobody}
           /\ mounted'[n] \in {mounted[n], Nobody},
         \A q \in Opener : connection'[q] \in {connection[q], "closed"},
         \A d \in Drainer \ {p} : todo'[d] = todo[d] /\ clean'[d] = clean[d],
         p \in Drainer =>
           /\ pc'[p] \in {"draining", "granting", "reaching", "parting", "releasing", "gating",
                          "retiring"} => closing'
           /\ pc'[p] \in {"releasing", "gating", "retiring"} /\ clean'[p] =>
                \A n \in Name : record'[n] # Nobody => record'[n] \in todo'[p]
  PROVE  DrainInv'
<1> USE Kinds
<1>1. QuietAfterShutdown'
  BY DEF DrainInv, QuietAfterShutdown
<1>2. quiet' => closing'
  BY Zenon DEF DrainInv
<1>3. ASSUME NEW d \in Drainer
      PROVE  /\ pc'[d] \in {"draining", "granting", "reaching", "parting", "releasing", "gating",
                            "retiring"} => closing'
             /\ pc'[d] \in {"releasing", "gating", "retiring"} /\ clean'[d] =>
                  \A n \in Name : record'[n] # Nobody => record'[n] \in todo'[d]
  <2>1. CASE d = p
    BY <2>1
  <2>2. CASE d # p
    BY <2>2 DEF Others, DrainInv
  <2> QED
    BY <2>1, <2>2
<1> QED
  BY <1>1, <1>2, <1>3 DEF DrainInv

\* Once the tools of a name are unmounted its record may go.
LEMMA RetiredMounts ==
  ASSUME TypeOK, TransitionInv, RemoteInv, GrantInv, PlaceInv, MountInv,
         NEW p \in Task, Others(p), InGate(p),
         saved' = saved,
         mounted' = mounted \/ mounted' = [mounted EXCEPT ![Place(p)] = Nobody],
         record' = record \/ mounted'[Place(p)] = Nobody,
         pc[p] \notin {"done", "reaching"},
         pc'[p] \notin {"replacing", "connecting", "saving", "confirming", "retiring",
                        "forgetting", "parting"}
  PROVE  MountInv'
<1>1. \A n \in Name :
        \/ mounted'[n] = Nobody
        \/ mounted'[n] = mounted[n] /\ record'[n] = record[n] /\ (saved[n] => saved'[n])
  BY DEF InGate, TypeOK
<1> QED
  BY <1>1, MountStep

\* A task goes on without touching a record, a tool or the admission.
LEMMA Moves ==
  ASSUME IInv, NEW p \in Task, Others(p),
         UNCHANGED <<closing, generation, quiet, record, connection, mounted, todo, clean>>,
         \A n \in Name : saved[n] => saved'[n],
         \/ credential' = credential
         \/ \A g \in Grant : credential'[g] # Nobody => Target[credential'[g]] = g,
         \A q \in Opener \ {p} : admitted'[q] = admitted[q],
         pc[p] \notin {"done", "reaching"}, pc'[p] # "parting",
         \/ p \notin Opener
         \/ pc[p] \in {"idle", "reading", "granting", "admitting"}
         \/ /\ pc'[p] \notin {"idle", "reading", "granting", "admitting"}
            /\ pc'[p] = "reaching" => at'[p] = p
            /\ admitted'[p] = admitted[p],
         p \in Opener => pc'[p] # "retiring" /\ pc'[p] # "replacing",
         p \in Opener /\ pc'[p] \in {"connecting", "saving", "confirming"} =>
           pc[p] \in {"connecting", "saving", "confirming"} /\ admitted'[p] = admitted[p],
         p \in Unloader \cup Disconnector => pc'[p] \notin {"forgetting", "retiring"},
         p \in Connector \cup Disconnector /\ pc'[p] = "reaching" =>
           at'[p] \in Opener /\ Target[at'[p]] = Target[p],
         p \in Drainer =>
           /\ pc'[p] \in {"granting", "reaching"} =>
                pc[p] \in {"draining", "granting"} /\ at'[p] \in Connector
           /\ pc'[p] \in {"gating", "retiring"} =>
                pc[p] \in {"releasing", "gating"} /\ at'[p] \in Opener
           /\ pc'[p] \notin {"draining", "releasing"}
  PROVE  PlaceInv' /\ NoConnectionLeaked' /\ RecordInv' /\ MountInv' /\ GenerationInv' /\ DrainInv'
<1> USE Kinds
<1>1. TypeOK /\ TransitionInv /\ RemoteInv /\ GrantInv /\ PlaceInv /\ DrainInv
  BY DEF IInv
<1>2. PlaceInv'
  BY <1>1, PlaceStep DEF PlaceInv
<1>3. NoConnectionLeaked'
  BY DEF IInv, NoConnectionLeaked
<1>4. InGate(p)
  BY DEF InGate
<1>5. RecordInv'
  <2>1. p \in Opener /\ pc'[p] \in {"connecting", "saving", "confirming"} =>
          record'[Target[p]] = p
    BY DEF IInv, RecordInv
  <2>2. Recorded(p)' \/ \A n \in Name : record'[n] # p
    BY DEF IInv, RecordInv, Recorded, TypeOK
  <2> QED
    BY <1>1, <1>4, <2>1, <2>2, RecordStep DEF IInv
<1>6. MountInv'
  <2>1. MountInv
    BY DEF IInv
  <2>2. p \in Opener /\ pc'[p] \in {"replacing", "connecting", "saving", "confirming",
                                    "retiring"} => mounted'[Target[p]] = Nobody
    BY <2>1 DEF MountInv
  <2> QED
    BY <1>1, <1>4, <2>1, <2>2, MountStep
<1>7. GenerationInv'
  <2>1. ASSUME NEW n \in Name, NEW q \in {record[n], mounted[n]} \ {Nobody}
        PROVE  admitted'[q] = admitted[q]
    <3>1. q \in Opener /\ q = record[n]
      BY <1>1 DEF IInv, MountInv, MountedIsOwned, TypeOK
    <3>2. Recorded(q)
      BY <3>1 DEF IInv, RecordInv
    <3> QED
      BY <3>1, <3>2 DEF Recorded
  <2>2. NoStaleGeneration'
    BY <2>1 DEF IInv, GenerationInv, NoStaleGeneration
  <2>3. ASSUME NEW q \in Opener, ~closing,
               pc'[q] \in {"replacing", "connecting", "saving", "confirming"}
        PROVE  admitted'[q] = generation
    BY <2>3 DEF IInv, GenerationInv, Others
  <2> QED
    BY <2>2, <2>3 DEF GenerationInv
<1>8. DrainInv'
  BY <1>1, DrainStep DEF DrainInv
<1> QED
  BY <1>2, <1>3, <1>5, <1>6, <1>7, <1>8

\* The tools of a load are mounted: it has passed its last check, its record is
\* current and nobody else is in the gate of its name.
LEMMA Announces ==
  ASSUME IInv, NEW p \in Opener, Announce(p), Others(p), Mounter(p)'
  PROVE  NoConnectionLeaked' /\ RecordInv' /\ MountInv' /\ GenerationInv' /\ DrainInv'
<1> USE Kinds DEF IInv
<1>1. /\ pc'[p] \in {"done", "reaching"} /\ pc[p] = "confirming" /\ ~closing
      /\ UNCHANGED <<status, record, connection, saved, admitted, todo, clean>>
      /\ mounted' = [mounted EXCEPT ![Target[p]] = p]
  BY DEF Announce, Mounter
<1>2. NoConnectionLeaked' /\ RecordInv'
  <2>1. NoConnectionLeaked' /\ InGate(p)
    BY <1>1 DEF NoConnectionLeaked, InGate
  <2>2. Recorded(p)'
    BY <1>1 DEF Mounter, Recorded
  <2> QED
    BY <1>1, <2>1, <2>2, RecordStep
<1>3. MountInv'
  <2> DEFINE n == Target[p]
  <2>1. /\ n \in Name /\ pc[p] = "confirming" /\ saved' = saved /\ saved[n]
        /\ record' = record /\ mounted' = [mounted EXCEPT ![n] = p]
    BY <1>1 DEF Announce
  <2>2. InRemote(p) /\ Place(p) = n /\ record[n] = p
    BY <2>1 DEF InRemote, Place, RecordInv
  <2> HIDE DEF n
  <2>3. mounted'[n] = p /\ \A m \in Name \ {n} : mounted'[m] = mounted[m]
    BY <2>1 DEF TypeOK
  <2>4. MountedIsOwned'
    BY <2>1, <2>2, <2>3 DEF MountInv, MountedIsOwned
  <2>5. ASSUME NEW m \in Name, mounted'[m] # Nobody PROVE Mounter(mounted[m])'
    <3>1. CASE m = n
      BY <2>3, <3>1 DEF Mounter
    <3>2. CASE m # n
      <4>1. mounted'[m] = mounted[m] /\ mounted[m] \in Task \ {p} /\ Mounter(mounted[m])
        BY <2>1, <2>3, <2>5, <3>2 DEF MountInv, Mounter, TypeOK
      <4> QED
        BY <4>1 DEF Others, Mounter
    <3> QED
      BY <3>1, <3>2
  <2>6. \A q \in Task \ {p} : pc'[q] = pc[q] /\ Place(q)' = Place(q)
    BY <1>1, <2>1 DEF Others, Place
  <2>7. \A q \in Task \ {p} : ~(InRemote(q) /\ Place(q) = n)
    BY <2>2, Exclusive
  <2>8. \A q \in Opener :
          pc'[q] \in {"replacing", "connecting", "saving", "confirming", "retiring"} =>
            mounted'[Target[q]] = Nobody
    BY <1>1, <2>3, <2>6, <2>7 DEF MountInv, InRemote, Place
  <2>9. \A q \in Unloader \cup Disconnector :
          pc'[q] \in {"forgetting", "retiring"} => mounted'[Target[q]] = Nobody
    <3>1. ASSUME NEW q \in Disconnector, pc[q] = "forgetting" PROVE Target[q] # n
      <4>1. CASE p \in Connector
        <5>1. InGrant(p) /\ InGrant(q) /\ Place(q) = Target[q] /\ p # q
          BY <2>1, <3>1, <4>1 DEF InGrant, Place
        <5> QED
          BY <2>2, <5>1, Exclusive
      <4>2. CASE p \notin Connector
        BY <4>2 DEF n
      <4> QED
        BY <4>1, <4>2
    <3> QED
      BY <1>1, <2>3, <2>6, <2>7, <3>1 DEF MountInv, InRemote, Place
  <2>10. \A q \in Connector \cup Disconnector \cup Drainer :
           pc'[q] = "parting" /\ record'[Place(q)'] = at'[q] => mounted'[Place(q)'] = Nobody
    <3> SUFFICES ASSUME NEW q \in Connector \cup Disconnector \cup Drainer,
                        pc'[q] = "parting", record'[Place(q)'] = at'[q]
                 PROVE  mounted'[Place(q)'] = Nobody
      OBVIOUS
    <3>1. q \in Task \ {p}
      BY <1>1
    <3>2. InRemote(q) /\ Place(q) \in Name
      BY <2>6, <3>1 DEF InRemote, RemoteInv
    <3>3. mounted[Place(q)] = Nobody
      BY <2>1, <2>6, <3>1 DEF MountInv, Others
    <3> QED
      BY <2>3, <2>6, <2>7, <3>1, <3>2, <3>3
  <2> QED
    BY <2>4, <2>5, <2>8, <2>9, <2>10 DEF MountInv
<1>4. GenerationInv'
  BY <1>1 DEF Others, status, TypeOK, GenerationInv, NoStaleGeneration
<1>5. DrainInv'
  BY <1>1 DEF Others, status, TypeOK, DrainInv, QuietAfterShutdown
<1> QED
  BY <1>2, <1>3, <1>4, <1>5

\* The steps of _load_remote_connection keep the invariant.
LEMMA OpenerSteps ==
  ASSUME IInv, NEW p \in Opener,
         Load(p) \/ ReadSaved(p) \/ OpenerStep(p)
  PROVE  IInv'
<1> USE Kinds DEF IInv
<1>1. ASSUME Load(p) PROVE IInv'
  <2> USE <1>1
  <2>1. /\ Others(p)
        /\ pc' \in [Task -> Phase] /\ pc'[p] = "resolving"
        /\ at' \in [Task -> Opener \cup {Nobody}]
    BY Goes DEF Load, Phase, TypeOK, cleanup
  <2>2. transition' \in Seq(Opener \cup Drainer) /\ WaitsOnce(transition') /\ TransitionInv'
    BY <2>1, TransitionStep DEF Load, InTransition, AtTransition, TransitionInv
  <2>3. /\ remoteGate' \in [Name -> Seq(Task)] /\ \A n \in Name : WaitsOnce(remoteGate'[n])
        /\ RemoteInv'
    BY <2>1, RemoteStep DEF Load, InRemote, AtRemote, Place, RemoteInv
  <2>4. /\ grantGate' \in [Grant -> Seq(Task)] /\ \A g \in Grant : WaitsOnce(grantGate'[g])
        /\ GrantInv'
    BY <2>1, GrantStep DEF Load, InGrant, AtGrant, Place, GrantInv
  <2>5. TypeOK'
    BY <2>1, <2>2, <2>3, <2>4 DEF Load, Suspend, status, owned, cleanup, TypeOK
  <2>6. PlaceInv' /\ NoConnectionLeaked' /\ RecordInv' /\ MountInv' /\ GenerationInv' /\ DrainInv'
    <3>1. /\ UNCHANGED <<closing, generation, quiet, record, connection, mounted, todo, clean>>
          /\ pc[p] = "idle" /\ saved' = saved
          /\ credential' = credential /\ (\A q \in Opener \ {p} : admitted'[q] = admitted[q])
      BY <2>1 DEF Load, status, owned, cleanup, TypeOK, PlaceInv
    <3> QED
      BY <2>1, <3>1, Moves
  <2> QED
    BY <2>2, <2>3, <2>4, <2>5, <2>6
<1>2. ASSUME ReadSaved(p) PROVE IInv'
  <2> USE <1>2
  <2>1. /\ Others(p)
        /\ pc' \in [Task -> Phase] /\ pc'[p] = "reading"
        /\ at' \in [Task -> Opener \cup {Nobody}]
    BY Goes DEF ReadSaved, Phase, TypeOK, cleanup
  <2>2. transition' \in Seq(Opener \cup Drainer) /\ WaitsOnce(transition') /\ TransitionInv'
    BY <2>1, TransitionStep DEF ReadSaved, InTransition, AtTransition, TransitionInv
  <2>3. /\ remoteGate' \in [Name -> Seq(Task)] /\ \A n \in Name : WaitsOnce(remoteGate'[n])
        /\ RemoteInv'
    BY <2>1, RemoteStep DEF ReadSaved, InRemote, AtRemote, Place, RemoteInv
  <2>4. /\ grantGate' \in [Grant -> Seq(Task)] /\ \A g \in Grant : WaitsOnce(grantGate'[g])
        /\ GrantInv'
    BY <2>1, GrantStep DEF ReadSaved, InGrant, AtGrant, Place, GrantInv
  <2>5. TypeOK'
    BY <2>1, <2>2, <2>3, <2>4 DEF ReadSaved, Suspend, status, owned, cleanup, TypeOK
  <2>6. PlaceInv' /\ NoConnectionLeaked' /\ RecordInv' /\ MountInv' /\ GenerationInv' /\ DrainInv'
    <3>1. /\ UNCHANGED <<closing, generation, quiet, record, connection, mounted, todo, clean>>
          /\ pc[p] = "idle" /\ saved' = saved
          /\ credential' = credential /\ admitted' = admitted
      BY <2>1 DEF ReadSaved, status, owned, cleanup, TypeOK, PlaceInv
    <3> QED
      BY <2>1, <3>1, Moves
  <2> QED
    BY <2>2, <2>3, <2>4, <2>5, <2>6
<1>3. ASSUME Restore(p) PROVE IInv'
  <2> USE <1>3
  <2>1. /\ Others(p)
        /\ pc' \in [Task -> Phase] /\ pc'[p] \in {"failed", "resolving"}
        /\ at' \in [Task -> Opener \cup {Nobody}]
    BY Goes DEF Restore, Phase, TypeOK, cleanup
  <2>2. transition' \in Seq(Opener \cup Drainer) /\ WaitsOnce(transition') /\ TransitionInv'
    BY <2>1, TransitionStep DEF Restore, InTransition, AtTransition, TransitionInv
  <2>3. /\ remoteGate' \in [Name -> Seq(Task)] /\ \A n \in Name : WaitsOnce(remoteGate'[n])
        /\ RemoteInv'
    BY <2>1, RemoteStep DEF Restore, InRemote, AtRemote, Place, RemoteInv
  <2>4. /\ grantGate' \in [Grant -> Seq(Task)] /\ \A g \in Grant : WaitsOnce(grantGate'[g])
        /\ GrantInv'
    BY <2>1, GrantStep DEF Restore, InGrant, AtGrant, Place, GrantInv
  <2>5. TypeOK'
    BY <2>1, <2>2, <2>3, <2>4 DEF Restore, Suspend, status, owned, cleanup, TypeOK
  <2>6. PlaceInv' /\ NoConnectionLeaked' /\ RecordInv' /\ MountInv' /\ GenerationInv' /\ DrainInv'
    <3>1. /\ UNCHANGED <<closing, generation, quiet, record, connection, mounted, todo, clean>>
          /\ pc[p] = "reading" /\ saved' = saved
          /\ credential' = credential /\ (\A q \in Opener \ {p} : admitted'[q] = admitted[q])
      BY <2>1 DEF Restore, status, owned, cleanup, TypeOK, PlaceInv
    <3> QED
      BY <2>1, <3>1, Moves
  <2> QED
    BY <2>2, <2>3, <2>4, <2>5, <2>6
<1>4. ASSUME Resolve(p) PROVE IInv'
  <2> USE <1>4
  <2>1. /\ Others(p)
        /\ pc' \in [Task -> Phase] /\ pc'[p] = "queued"
        /\ at' \in [Task -> Opener \cup {Nobody}]
    BY Goes DEF Resolve, Phase, TypeOK, cleanup
  <2>2. transition' \in Seq(Opener \cup Drainer) /\ WaitsOnce(transition') /\ TransitionInv'
    BY <2>1, TransitionStep DEF Resolve, InTransition, AtTransition, TransitionInv,
           JoinTransition
  <2>3. /\ remoteGate' \in [Name -> Seq(Task)] /\ \A n \in Name : WaitsOnce(remoteGate'[n])
        /\ RemoteInv'
    BY <2>1, RemoteStep DEF Resolve, InRemote, AtRemote, Place, RemoteInv
  <2>4. /\ grantGate' \in [Grant -> Seq(Task)] /\ \A g \in Grant : WaitsOnce(grantGate'[g])
        /\ GrantInv'
    BY <2>1, GrantStep DEF Resolve, InGrant, AtGrant, Place, GrantInv
  <2>5. TypeOK'
    BY <2>1, <2>2, <2>3, <2>4 DEF Resolve, SuspendUnlessFree, JoinTransition, status, owned,
           cleanup, TypeOK
  <2>6. PlaceInv' /\ NoConnectionLeaked' /\ RecordInv' /\ MountInv' /\ GenerationInv' /\ DrainInv'
    <3>1. /\ UNCHANGED <<closing, generation, quiet, record, connection, mounted, todo, clean>>
          /\ pc[p] = "resolving" /\ saved' = saved
          /\ credential' = credential /\ admitted' = admitted
      BY <2>1 DEF Resolve, status, owned, cleanup, TypeOK, PlaceInv
    <3> QED
      BY <2>1, <3>1, Moves
  <2> QED
    BY <2>2, <2>3, <2>4, <2>5, <2>6
<1>5. ASSUME Unresolved(p) PROVE IInv'
  <2> USE <1>5
  <2>1. \/ GiveUp(p, remoteGate[Target[p]]) /\ ~AtRemote(p)
        \/ GiveUp(p, Tail(remoteGate[Target[p]])) /\ Holds(p, remoteGate[Target[p]])
    BY DEF Unresolved, AtRemote, InRemote, RemoteInv, Place
  <2>2. /\ Others(p)
        /\ pc' \in [Task -> Phase] /\ at' \in [Task -> Opener \cup {Nobody}]
        /\ running' \in Task \cup {Nobody}
        /\ p \in Connector => pc'[p] = "reaching" /\ at'[p] = p
        /\ p \notin Connector => pc'[p] = "failed" /\ at' = at
        /\ remoteGate' \in [Name -> Seq(Task)] /\ \A n \in Name : WaitsOnce(remoteGate'[n])
        /\ RemoteInv'
    BY <2>1, GivesUp
  <2>3. transition' \in Seq(Opener \cup Drainer) /\ WaitsOnce(transition') /\ TransitionInv'
    BY <2>2, TransitionStep, Zenon DEF Unresolved, InTransition, AtTransition, TransitionInv
  <2>4. /\ grantGate' \in [Grant -> Seq(Task)] /\ \A g \in Grant : WaitsOnce(grantGate'[g])
        /\ GrantInv'
    BY <2>2, GrantStep, Zenon DEF Unresolved, InGrant, AtGrant, Place, GrantInv
  <2>5. TypeOK'
    BY <2>2, <2>3, <2>4 DEF Unresolved, status, owned, TypeOK
  <2>6. PlaceInv' /\ NoConnectionLeaked' /\ RecordInv' /\ MountInv' /\ GenerationInv' /\ DrainInv'
    <3>1. /\ UNCHANGED <<closing, generation, quiet, record, connection, mounted, todo, clean>>
          /\ pc[p] = "resolving" /\ saved' = saved
          /\ credential' = credential /\ admitted' = admitted
      BY <2>2 DEF Unresolved, status, owned, TypeOK, PlaceInv, GiveUp
    <3> QED
      BY <2>2, <3>1, Moves
  <2> QED
    BY <2>2, <2>3, <2>4, <2>5, <2>6
<1>6. ASSUME EnterTransition(p) PROVE IInv'
  <2> USE <1>6
  <2>1. /\ Others(p)
        /\ pc' \in [Task -> Phase] /\ pc'[p] = "gating"
        /\ at' \in [Task -> Opener \cup {Nobody}]
    BY Goes DEF EnterTransition, Phase, TypeOK, cleanup
  <2>2. transition' \in Seq(Opener \cup Drainer) /\ WaitsOnce(transition') /\ TransitionInv'
    BY <2>1, TransitionStep DEF EnterTransition, InTransition, AtTransition, TransitionInv
  <2>3. /\ remoteGate' \in [Name -> Seq(Task)] /\ \A n \in Name : WaitsOnce(remoteGate'[n])
        /\ RemoteInv'
    BY <2>1, RemoteStep, Zenon DEF EnterTransition, InRemote, AtRemote, Place, RemoteInv,
           JoinRemote
  <2>4. /\ grantGate' \in [Grant -> Seq(Task)] /\ \A g \in Grant : WaitsOnce(grantGate'[g])
        /\ GrantInv'
    BY <2>1, GrantStep DEF EnterTransition, InGrant, AtGrant, Place, GrantInv
  <2>5. TypeOK'
    BY <2>1, <2>2, <2>3, <2>4 DEF EnterTransition, SuspendUnlessFree, JoinRemote, status,
           owned, cleanup, TypeOK
  <2>6. PlaceInv' /\ NoConnectionLeaked' /\ RecordInv' /\ MountInv' /\ GenerationInv' /\ DrainInv'
    <3>1. /\ UNCHANGED <<closing, generation, quiet, record, connection, mounted, todo, clean>>
          /\ pc[p] = "queued" /\ saved' = saved
          /\ credential' = credential /\ admitted' = admitted
      BY <2>1 DEF EnterTransition, status, owned, cleanup, TypeOK, PlaceInv
    <3> QED
      BY <2>1, <3>1, Moves
  <2> QED
    BY <2>2, <2>3, <2>4, <2>5, <2>6
<1>7. ASSUME Replace(p) PROVE IInv'
  <2> USE <1>7
  <2>1. /\ Others(p)
        /\ pc' \in [Task -> Phase] /\ pc'[p] = "replacing"
        /\ at' \in [Task -> Opener \cup {Nobody}]
    BY Goes DEF Replace, Phase, Unmount, Withdraw, Admissible, TypeOK, cleanup
  <2>2. transition' \in Seq(Opener \cup Drainer) /\ WaitsOnce(transition') /\ TransitionInv'
    BY <2>1, TransitionStep DEF Replace, InTransition, AtTransition, TransitionInv, Unmount,
           Withdraw, Admissible
  <2>3. /\ remoteGate' \in [Name -> Seq(Task)] /\ \A n \in Name : WaitsOnce(remoteGate'[n])
        /\ RemoteInv'
    BY <2>1, RemoteStep DEF Replace, InRemote, AtRemote, Place, RemoteInv, Unmount, Withdraw,
           Admissible
  <2>4. /\ grantGate' \in [Grant -> Seq(Task)] /\ \A g \in Grant : WaitsOnce(grantGate'[g])
        /\ GrantInv'
    BY <2>1, GrantStep DEF Replace, InGrant, AtGrant, Place, GrantInv, Unmount, Withdraw,
           Admissible
  <2>5. TypeOK'
    BY <2>1, <2>2, <2>3, <2>4 DEF Replace, Unmount, Withdraw, Admissible, Suspend, status,
           cleanup, TypeOK
  <2>6. PlaceInv'
    BY <2>1 DEF Replace, Unmount, Withdraw, Admissible, Others, status, cleanup, TypeOK,
           PlaceInv
  <2>7. NoConnectionLeaked' /\ RecordInv'
    BY <2>1 DEF Replace, Unmount, Withdraw, Admissible, Others, status, cleanup, TypeOK,
           NoConnectionLeaked, RecordInv, Recorded
  <2>8. MountInv'
    BY <2>1 DEF Replace, Unmount, Withdraw, Admissible, Others, status, cleanup, TypeOK,
           MountInv, MountedIsOwned, Mounter, Place
  <2>9. GenerationInv'
    BY <2>1 DEF Replace, Unmount, Withdraw, Admissible, Others, status, cleanup, TypeOK,
           GenerationInv, NoStaleGeneration
  <2>10. DrainInv'
    BY <2>1 DEF Replace, Unmount, Withdraw, Admissible, Others, status, cleanup, TypeOK,
           DrainInv, QuietAfterShutdown
  <2> QED
    BY <2>2, <2>3, <2>4, <2>5, <2>6, <2>7, <2>8, <2>9, <2>10
<1>8. ASSUME Inadmissible(p) PROVE IInv'
  <2> USE <1>8
  <2>1. \/ GiveUp(p, remoteGate[Target[p]]) /\ ~AtRemote(p)
        \/ GiveUp(p, Tail(remoteGate[Target[p]])) /\ Holds(p, remoteGate[Target[p]])
    BY DEF Inadmissible, AtRemote, InRemote, RemoteInv, Place
  <2>2. /\ Others(p)
        /\ pc' \in [Task -> Phase] /\ at' \in [Task -> Opener \cup {Nobody}]
        /\ running' \in Task \cup {Nobody}
        /\ p \in Connector => pc'[p] = "reaching" /\ at'[p] = p
        /\ p \notin Connector => pc'[p] = "failed" /\ at' = at
        /\ remoteGate' \in [Name -> Seq(Task)] /\ \A n \in Name : WaitsOnce(remoteGate'[n])
        /\ RemoteInv'
    BY <2>1, GivesUp
  <2>3. transition' \in Seq(Opener \cup Drainer) /\ WaitsOnce(transition') /\ TransitionInv'
    BY <2>2, TransitionStep DEF Inadmissible, InTransition, AtTransition, TransitionInv,
           LeaveTransition
  <2>4. /\ grantGate' \in [Grant -> Seq(Task)] /\ \A g \in Grant : WaitsOnce(grantGate'[g])
        /\ GrantInv'
    BY <2>2, GrantStep DEF Inadmissible, InGrant, AtGrant, Place, GrantInv
  <2>5. TypeOK'
    BY <2>2, <2>3, <2>4 DEF Inadmissible, status, owned, TypeOK
  <2>6. PlaceInv' /\ NoConnectionLeaked' /\ RecordInv' /\ MountInv' /\ GenerationInv' /\ DrainInv'
    <3>1. /\ UNCHANGED <<closing, generation, quiet, record, connection, mounted, todo, clean>>
          /\ pc[p] = "gating" /\ saved' = saved
          /\ credential' = credential /\ admitted' = admitted
      BY <2>2 DEF Inadmissible, status, owned, TypeOK, PlaceInv, GiveUp
    <3> QED
      BY <2>2, <3>1, Moves
  <2> QED
    BY <2>2, <2>3, <2>4, <2>5, <2>6
<1>9. ASSUME StartConnection(p) PROVE IInv'
  <2> USE <1>9
  <2>1. /\ Others(p)
        /\ pc' \in [Task -> Phase] /\ pc'[p] = "connecting"
        /\ at' \in [Task -> Opener \cup {Nobody}]
    BY Goes DEF StartConnection, Phase, TypeOK, cleanup
  <2>2. transition' \in Seq(Opener \cup Drainer) /\ WaitsOnce(transition') /\ TransitionInv'
    BY <2>1, TransitionStep DEF StartConnection, InTransition, AtTransition, TransitionInv
  <2>3. /\ remoteGate' \in [Name -> Seq(Task)] /\ \A n \in Name : WaitsOnce(remoteGate'[n])
        /\ RemoteInv'
    BY <2>1, RemoteStep DEF StartConnection, InRemote, AtRemote, Place, RemoteInv
  <2>4. /\ grantGate' \in [Grant -> Seq(Task)] /\ \A g \in Grant : WaitsOnce(grantGate'[g])
        /\ GrantInv'
    BY <2>1, GrantStep DEF StartConnection, InGrant, AtGrant, Place, GrantInv
  <2>5. TypeOK'
    BY <2>1, <2>2, <2>3, <2>4 DEF StartConnection, Suspend, status, cleanup, TypeOK
  <2>6. PlaceInv'
    BY <2>1 DEF StartConnection, Others, status, cleanup, TypeOK, PlaceInv
  <2>7. NoConnectionLeaked' /\ RecordInv'
    <3>1. InGate(p) /\ record'[Target[p]] = p
      BY DEF StartConnection, InGate, InRemote, Place, TypeOK
    <3>2. NoConnectionLeaked'
      BY DEF StartConnection, NoConnectionLeaked, TypeOK
    <3>3. Recorded(p)' /\ \A n \in Name : record'[n] \in {record[n], p, Nobody}
      BY <2>1 DEF StartConnection, Recorded, TypeOK
    <3> QED
      BY <2>1, <3>1, <3>2, <3>3, RecordStep
  <2>8. MountInv'
    <3>1. InGate(p) /\ record' = [record EXCEPT ![Target[p]] = p] /\ pc[p] = "replacing"
      BY DEF StartConnection, InGate, InRemote, Place, TypeOK
    <3>2. mounted' = mounted /\ saved' = saved
      BY DEF StartConnection
    <3>3. mounted[Target[p]] = Nobody
      BY <3>1 DEF MountInv
    <3> QED
      BY <2>1, <3>1, <3>2, <3>3, MountStep, Zenon DEF TypeOK
  <2>9. GenerationInv'
    BY <2>1 DEF StartConnection, Others, status, cleanup, TypeOK, GenerationInv,
           NoStaleGeneration
  <2>10. DrainInv'
    BY <2>1 DEF StartConnection, Others, status, cleanup, TypeOK, DrainInv, QuietAfterShutdown
  <2> QED
    BY <2>2, <2>3, <2>4, <2>5, <2>6, <2>7, <2>8, <2>9, <2>10
<1>10. ASSUME ReplaceFails(p) PROVE IInv'
  <2> USE <1>10
  <2>1. \/ GiveUp(p, remoteGate[Target[p]]) /\ ~AtRemote(p)
        \/ GiveUp(p, Tail(remoteGate[Target[p]])) /\ Holds(p, remoteGate[Target[p]])
    BY DEF ReplaceFails, AtRemote, InRemote, RemoteInv, Place
  <2>2. /\ Others(p)
        /\ pc' \in [Task -> Phase] /\ at' \in [Task -> Opener \cup {Nobody}]
        /\ running' \in Task \cup {Nobody}
        /\ p \in Connector => pc'[p] = "reaching" /\ at'[p] = p
        /\ p \notin Connector => pc'[p] = "failed" /\ at' = at
        /\ remoteGate' \in [Name -> Seq(Task)] /\ \A n \in Name : WaitsOnce(remoteGate'[n])
        /\ RemoteInv'
    BY <2>1, GivesUp
  <2>3. transition' \in Seq(Opener \cup Drainer) /\ WaitsOnce(transition') /\ TransitionInv'
    BY <2>2, TransitionStep, Zenon DEF ReplaceFails, InTransition, AtTransition,
           TransitionInv, LeaveTransition, Retired, Closed
  <2>4. /\ grantGate' \in [Grant -> Seq(Task)] /\ \A g \in Grant : WaitsOnce(grantGate'[g])
        /\ GrantInv'
    BY <2>2, GrantStep, Zenon DEF ReplaceFails, InGrant, AtGrant, Place, GrantInv, Retired,
           Closed
  <2>5. /\ InGate(p)
        /\ record' \in [Name -> Opener \cup {Nobody}]
        /\ connection' \in [Opener -> {"none", "open", "lost", "closed"}]
        /\ \A n \in Name : record'[n] \in {record[n], Nobody}
        /\ \A n \in Name : record'[n] # Nobody => Target[record'[n]] = n
        /\ \A q \in Opener : connection'[q] \in {connection[q], "closed"}
        /\ NoConnectionLeaked'
    <3>1. /\ InRemote(p) /\ Place(p) = Target[p]
          /\ \E acknowledged \in BOOLEAN : Retired(Place(p), acknowledged)
      BY DEF ReplaceFails, InRemote, Place
    <3> QED
      BY <3>1, Retires
  <2>6. TypeOK'
    BY <2>2, <2>3, <2>4, <2>5 DEF ReplaceFails, Retired, Closed, status, TypeOK
  <2>7. PlaceInv'
    <3>1. credential' = credential /\ todo' = todo
      BY DEF ReplaceFails
    <3>2. p \notin Disconnector /\ p \notin Drainer
      OBVIOUS
    <3>3. p \in Connector \cup Disconnector /\ pc'[p] \in {"reaching", "parting"} =>
            at'[p] \in Opener /\ Target[at'[p]] = Target[p]
      BY <2>2, <3>2
    <3> QED
      BY <2>2, <3>1, <3>2, <3>3, PlaceStep DEF PlaceInv
  <2>8. NoConnectionLeaked' /\ RecordInv'
    BY <2>2, <2>5, RecordStep, Zenon DEF RecordInv, Recorded
  <2>9. MountInv'
    <3>1. Place(p) = Target[p] /\ mounted' = mounted /\ saved' = saved
      BY DEF ReplaceFails, Place
    <3>2. mounted[Place(p)] = Nobody /\ pc[p] \notin {"done", "reaching"}
      BY <3>1 DEF ReplaceFails, MountInv
    <3> QED
      BY <2>2, <2>5, <3>1, <3>2, RetiredMounts, Zenon
  <2>10. GenerationInv'
    BY <2>2, <2>5 DEF ReplaceFails, Retired, Closed, Others, status, TypeOK, GenerationInv,
           NoStaleGeneration
  <2>11. DrainInv'
    BY <2>2, <2>5, DrainStep DEF ReplaceFails, Retired, Closed, status, TypeOK, DrainInv
  <2> QED
    BY <2>2, <2>3, <2>4, <2>6, <2>7, <2>8, <2>9, <2>10, <2>11
<1>11. ASSUME Discover(p) PROVE IInv'
  <2> USE <1>11
  <2>1. /\ Others(p)
        /\ pc' \in [Task -> Phase] /\ pc'[p] \in {"confirming", "saving"}
        /\ at' \in [Task -> Opener \cup {Nobody}]
    BY Goes DEF Discover, Phase, TypeOK, cleanup
  <2>2. transition' \in Seq(Opener \cup Drainer) /\ WaitsOnce(transition') /\ TransitionInv'
    BY <2>1, TransitionStep DEF Discover, InTransition, AtTransition, TransitionInv
  <2>3. /\ remoteGate' \in [Name -> Seq(Task)] /\ \A n \in Name : WaitsOnce(remoteGate'[n])
        /\ RemoteInv'
    BY <2>1, RemoteStep DEF Discover, InRemote, AtRemote, Place, RemoteInv
  <2>4. /\ grantGate' \in [Grant -> Seq(Task)] /\ \A g \in Grant : WaitsOnce(grantGate'[g])
        /\ GrantInv'
    BY <2>1, GrantStep DEF Discover, InGrant, AtGrant, Place, GrantInv
  <2>5. TypeOK'
    BY <2>1, <2>2, <2>3, <2>4 DEF Discover, Suspend, status, owned, cleanup, TypeOK
  <2>6. PlaceInv' /\ NoConnectionLeaked' /\ RecordInv' /\ MountInv' /\ GenerationInv' /\ DrainInv'
    <3>1. /\ UNCHANGED <<closing, generation, quiet, record, connection, mounted, todo, clean>>
          /\ pc[p] = "connecting" /\ saved' = saved
          /\ credential' = credential /\ admitted' = admitted
      BY <2>1 DEF Discover, status, owned, cleanup, TypeOK, PlaceInv
    <3> QED
      BY <2>1, <3>1, Moves
  <2> QED
    BY <2>2, <2>3, <2>4, <2>5, <2>6
<1>12. ASSUME Persist(p) PROVE IInv'
  <2> USE <1>12
  <2>1. /\ Others(p)
        /\ pc' \in [Task -> Phase] /\ pc'[p] = "confirming"
        /\ at' \in [Task -> Opener \cup {Nobody}]
    BY Goes DEF Persist, Phase, TypeOK, cleanup
  <2>2. transition' \in Seq(Opener \cup Drainer) /\ WaitsOnce(transition') /\ TransitionInv'
    BY <2>1, TransitionStep DEF Persist, InTransition, AtTransition, TransitionInv
  <2>3. /\ remoteGate' \in [Name -> Seq(Task)] /\ \A n \in Name : WaitsOnce(remoteGate'[n])
        /\ RemoteInv'
    BY <2>1, RemoteStep DEF Persist, InRemote, AtRemote, Place, RemoteInv
  <2>4. /\ grantGate' \in [Grant -> Seq(Task)] /\ \A g \in Grant : WaitsOnce(grantGate'[g])
        /\ GrantInv'
    BY <2>1, GrantStep DEF Persist, InGrant, AtGrant, Place, GrantInv
  <2>5. TypeOK'
    BY <2>1, <2>2, <2>3, <2>4 DEF Persist, Suspend, status, owned, cleanup, TypeOK
  <2>6. PlaceInv' /\ NoConnectionLeaked' /\ RecordInv' /\ MountInv' /\ GenerationInv' /\ DrainInv'
    <3>1. /\ UNCHANGED <<closing, generation, quiet, record, connection, mounted, todo, clean>>
          /\ pc[p] = "saving" /\ (\A n \in Name : saved[n] => saved'[n])
          /\ credential' = credential /\ admitted' = admitted
      BY <2>1 DEF Persist, status, owned, cleanup, TypeOK, PlaceInv
    <3> QED
      BY <2>1, <3>1, Moves
  <2> QED
    BY <2>2, <2>3, <2>4, <2>5, <2>6
<1>13. ASSUME Publish(p) PROVE IInv'
  <2> USE <1>13
  <2>1. /\ Others(p)
        /\ pc' \in [Task -> Phase] /\ pc'[p] = "done"
        /\ at' \in [Task -> Opener \cup {Nobody}]
    BY Goes DEF Publish, Announce, Phase, TypeOK, cleanup
  <2>2. transition' \in Seq(Opener \cup Drainer) /\ WaitsOnce(transition') /\ TransitionInv'
    BY <2>1, TransitionStep DEF Publish, Announce, InTransition, AtTransition, TransitionInv,
           LeaveTransition
  <2>3. /\ remoteGate' \in [Name -> Seq(Task)] /\ \A n \in Name : WaitsOnce(remoteGate'[n])
        /\ RemoteInv'
    BY <2>1, RemoteStep, Zenon DEF Publish, Announce, InRemote, AtRemote, Place, RemoteInv,
           LeaveRemote
  <2>4. /\ grantGate' \in [Grant -> Seq(Task)] /\ \A g \in Grant : WaitsOnce(grantGate'[g])
        /\ GrantInv'
    BY <2>1, GrantStep, Zenon DEF Publish, Announce, InGrant, AtGrant, Place, GrantInv, LeaveGrant
  <2>5. TypeOK'
    BY <2>1, <2>2, <2>3, <2>4, Zenon DEF Publish, Announce, Suspend, status, cleanup, TypeOK
  <2>6. PlaceInv'
    BY <2>1 DEF Publish, Announce, Others, status, cleanup, TypeOK, PlaceInv
  <2>7. NoConnectionLeaked' /\ RecordInv' /\ MountInv' /\ GenerationInv' /\ DrainInv'
    BY <2>1, Announces, Zenon DEF Publish, Mounter
  <2> QED
    BY <2>2, <2>3, <2>4, <2>5, <2>6, <2>7
<1>14. ASSUME LoadFails(p) PROVE IInv'
  <2> USE <1>14
  <2>1. /\ Others(p)
        /\ pc' \in [Task -> Phase] /\ pc'[p] = "retiring"
        /\ at' \in [Task -> Opener \cup {Nobody}]
    BY Goes DEF LoadFails, Phase, Unmount, Withdraw, TypeOK, cleanup
  <2>2. transition' \in Seq(Opener \cup Drainer) /\ WaitsOnce(transition') /\ TransitionInv'
    BY <2>1, TransitionStep DEF LoadFails, InTransition, AtTransition, TransitionInv,
           Unmount, Withdraw
  <2>3. /\ remoteGate' \in [Name -> Seq(Task)] /\ \A n \in Name : WaitsOnce(remoteGate'[n])
        /\ RemoteInv'
    BY <2>1, RemoteStep DEF LoadFails, InRemote, AtRemote, Place, RemoteInv, Unmount, Withdraw
  <2>4. /\ grantGate' \in [Grant -> Seq(Task)] /\ \A g \in Grant : WaitsOnce(grantGate'[g])
        /\ GrantInv'
    BY <2>1, GrantStep DEF LoadFails, InGrant, AtGrant, Place, GrantInv, Unmount, Withdraw
  <2>5. TypeOK'
    BY <2>1, <2>2, <2>3, <2>4 DEF LoadFails, Unmount, Withdraw, Suspend, status, cleanup,
           TypeOK
  <2>6. PlaceInv'
    BY <2>1 DEF LoadFails, Unmount, Withdraw, Others, status, cleanup, TypeOK, PlaceInv
  <2>7. NoConnectionLeaked' /\ RecordInv'
    BY <2>1 DEF LoadFails, Unmount, Withdraw, Others, status, cleanup, TypeOK,
           NoConnectionLeaked, RecordInv, Recorded
  <2>8. MountInv'
    <3>1. /\ pc[p] \notin {"done", "reaching"} /\ saved' = saved /\ record' = record
          /\ mounted' = [mounted EXCEPT ![Target[p]] = Nobody]
      BY DEF LoadFails, Unmount
    <3>2. InGate(p) /\ Target[p] \in Name
      BY <3>1 DEF InGate
    <3>3. mounted'[Target[p]] = Nobody /\ \A n \in Name : mounted'[n] \in {mounted[n], Nobody}
      BY <3>1, <3>2 DEF TypeOK
    <3> QED
      BY <2>1, <3>1, <3>2, <3>3, MountStep
  <2>9. GenerationInv'
    BY <2>1 DEF LoadFails, Unmount, Withdraw, Others, status, cleanup, TypeOK, GenerationInv,
           NoStaleGeneration
  <2>10. DrainInv'
    BY <2>1 DEF LoadFails, Unmount, Withdraw, Others, status, cleanup, TypeOK, DrainInv,
           QuietAfterShutdown
  <2> QED
    BY <2>2, <2>3, <2>4, <2>5, <2>6, <2>7, <2>8, <2>9, <2>10
<1>15. ASSUME RetireFailedLoad(p) PROVE IInv'
  <2> USE <1>15
  <2>1. \/ GiveUp(p, remoteGate[Target[p]]) /\ ~AtRemote(p)
        \/ GiveUp(p, Tail(remoteGate[Target[p]])) /\ Holds(p, remoteGate[Target[p]])
    BY DEF RetireFailedLoad, AtRemote, InRemote, RemoteInv, Place
  <2>2. /\ Others(p)
        /\ pc' \in [Task -> Phase] /\ at' \in [Task -> Opener \cup {Nobody}]
        /\ running' \in Task \cup {Nobody}
        /\ p \in Connector => pc'[p] = "reaching" /\ at'[p] = p
        /\ p \notin Connector => pc'[p] = "failed" /\ at' = at
        /\ remoteGate' \in [Name -> Seq(Task)] /\ \A n \in Name : WaitsOnce(remoteGate'[n])
        /\ RemoteInv'
    BY <2>1, GivesUp
  <2>3. transition' \in Seq(Opener \cup Drainer) /\ WaitsOnce(transition') /\ TransitionInv'
    BY <2>2, TransitionStep, Zenon DEF RetireFailedLoad, InTransition, AtTransition,
           TransitionInv, LeaveTransition, Retired, Closed
  <2>4. /\ grantGate' \in [Grant -> Seq(Task)] /\ \A g \in Grant : WaitsOnce(grantGate'[g])
        /\ GrantInv'
    BY <2>2, GrantStep, Zenon DEF RetireFailedLoad, InGrant, AtGrant, Place, GrantInv,
           Retired, Closed
  <2>5. /\ InGate(p)
        /\ record' \in [Name -> Opener \cup {Nobody}]
        /\ connection' \in [Opener -> {"none", "open", "lost", "closed"}]
        /\ \A n \in Name : record'[n] \in {record[n], Nobody}
        /\ \A n \in Name : record'[n] # Nobody => Target[record'[n]] = n
        /\ \A q \in Opener : connection'[q] \in {connection[q], "closed"}
        /\ NoConnectionLeaked'
    <3>1. /\ InRemote(p) /\ Place(p) = Target[p]
          /\ \E acknowledged \in BOOLEAN : Retired(Place(p), acknowledged)
      BY DEF RetireFailedLoad, InRemote, Place
    <3> QED
      BY <3>1, Retires
  <2>6. TypeOK'
    BY <2>2, <2>3, <2>4, <2>5 DEF RetireFailedLoad, Retired, Closed, status, TypeOK
  <2>7. PlaceInv'
    <3>1. credential' = credential /\ todo' = todo
      BY DEF RetireFailedLoad
    <3>2. p \notin Disconnector /\ p \notin Drainer
      OBVIOUS
    <3>3. p \in Connector \cup Disconnector /\ pc'[p] \in {"reaching", "parting"} =>
            at'[p] \in Opener /\ Target[at'[p]] = Target[p]
      BY <2>2, <3>2
    <3> QED
      BY <2>2, <3>1, <3>2, <3>3, PlaceStep DEF PlaceInv
  <2>8. NoConnectionLeaked' /\ RecordInv'
    BY <2>2, <2>5, RecordStep, Zenon DEF RecordInv, Recorded
  <2>9. MountInv'
    <3>1. Place(p) = Target[p] /\ mounted' = mounted /\ saved' = saved
      BY DEF RetireFailedLoad, Place
    <3>2. mounted[Place(p)] = Nobody /\ pc[p] \notin {"done", "reaching"}
      BY <3>1 DEF RetireFailedLoad, MountInv
    <3> QED
      BY <2>2, <2>5, <3>1, <3>2, RetiredMounts, Zenon
  <2>10. GenerationInv'
    BY <2>2, <2>5 DEF RetireFailedLoad, Retired, Closed, Others, status, TypeOK,
           GenerationInv, NoStaleGeneration
  <2>11. DrainInv'
    BY <2>2, <2>5, DrainStep DEF RetireFailedLoad, Retired, Closed, status, TypeOK, DrainInv
  <2> QED
    BY <2>2, <2>3, <2>4, <2>6, <2>7, <2>8, <2>9, <2>10, <2>11
<1>16. ASSUME PublishRefused(p) PROVE IInv'
  <2> USE <1>16
  <2>1. GiveUp(p, Tail(remoteGate[Target[p]])) /\ Holds(p, remoteGate[Target[p]])
    BY DEF PublishRefused, Announce, InRemote, RemoteInv, Place
  <2>2. /\ Others(p)
        /\ pc' \in [Task -> Phase] /\ at' \in [Task -> Opener \cup {Nobody}]
        /\ running' \in Task \cup {Nobody}
        /\ pc'[p] = "reaching" /\ at'[p] = p
        /\ remoteGate' \in [Name -> Seq(Task)] /\ \A n \in Name : WaitsOnce(remoteGate'[n])
        /\ RemoteInv'
    BY <2>1, GivesUp DEF PublishRefused
  <2>3. transition' \in Seq(Opener \cup Drainer) /\ WaitsOnce(transition') /\ TransitionInv'
    BY <2>2, TransitionStep, Zenon DEF PublishRefused, Announce, InTransition, AtTransition,
           TransitionInv, LeaveTransition
  <2>4. /\ grantGate' \in [Grant -> Seq(Task)] /\ \A g \in Grant : WaitsOnce(grantGate'[g])
        /\ GrantInv'
    BY <2>2, GrantStep, Zenon DEF PublishRefused, Announce, InGrant, AtGrant, Place, GrantInv
  <2>5. TypeOK'
    BY <2>2, <2>3, <2>4, Zenon DEF PublishRefused, Announce, status, TypeOK
  <2>6. PlaceInv'
    <3>1. credential' = credential /\ todo' = todo /\ p \notin Disconnector /\ p \notin Drainer
      BY DEF PublishRefused, Announce
    <3>2. at'[p] \in Opener /\ Target[at'[p]] = Target[p]
      BY <2>2
    <3> QED
      BY <2>2, <3>1, <3>2, PlaceStep DEF PlaceInv
  <2>7. NoConnectionLeaked' /\ RecordInv' /\ MountInv' /\ GenerationInv' /\ DrainInv'
    BY <2>2, Announces, Zenon DEF PublishRefused, Mounter
  <2> QED
    BY <2>2, <2>3, <2>4, <2>5, <2>6, <2>7
<1> QED
  BY <1>1, <1>2, <1>3, <1>4, <1>5, <1>6, <1>7, <1>8, <1>9, <1>10, <1>11, <1>12, <1>13, <1>14, <1>15,
     <1>16 DEF OpenerStep

\* Those of OAuthRuntime.connect.
LEMMA ConnectorSteps ==
  ASSUME IInv, NEW p \in Connector,
         \/ Evict(p) \/ Register(p) \/ GateRefused(p)
         \/ Admit(p) \/ NotAdmitted(p) \/ Evicted(p)
  PROVE  IInv'
<1> USE Kinds DEF IInv
<1>1. ASSUME Evict(p) PROVE IInv'
  <2> USE <1>1
  <2>1. /\ Others(p)
        /\ pc' \in [Task -> Phase] /\ pc'[p] = "reaching"
        /\ at' \in [Task -> Opener \cup {Nobody}]
    BY Goes, Zenon DEF Evict, Phase, TypeOK
  <2>2. transition' \in Seq(Opener \cup Drainer) /\ WaitsOnce(transition') /\ TransitionInv'
    BY <2>1, TransitionStep DEF Evict, InTransition, AtTransition, TransitionInv
  <2>3. /\ remoteGate' \in [Name -> Seq(Task)] /\ \A n \in Name : WaitsOnce(remoteGate'[n])
        /\ RemoteInv'
    BY <2>1, RemoteStep, Zenon DEF Evict, InRemote, AtRemote, Place, RemoteInv, JoinRemote
  <2>4. /\ grantGate' \in [Grant -> Seq(Task)] /\ \A g \in Grant : WaitsOnce(grantGate'[g])
        /\ GrantInv'
    BY <2>1, GrantStep, Zenon DEF Evict, InGrant, AtGrant, Place, GrantInv
  <2>5. TypeOK'
    BY <2>1, <2>2, <2>3, <2>4 DEF Evict, SuspendUnlessFree, JoinRemote, status, owned, TypeOK
  <2>6. PlaceInv' /\ NoConnectionLeaked' /\ RecordInv' /\ MountInv' /\ GenerationInv' /\ DrainInv'
    <3>1. /\ UNCHANGED <<closing, generation, quiet, record, connection, mounted, todo, clean>>
          /\ pc[p] = "granting" /\ saved' = saved
          /\ credential' = credential /\ admitted' = admitted
          /\ at'[p] \in Opener /\ Target[at'[p]] = Target[p]
      BY <2>1 DEF Evict, status, owned, TypeOK, PlaceInv
    <3> QED
      BY <2>1, <3>1, Moves
  <2> QED
    BY <2>2, <2>3, <2>4, <2>5, <2>6
<1>2. ASSUME Register(p) PROVE IInv'
  <2> USE <1>2
  <2>1. /\ Others(p)
        /\ pc' \in [Task -> Phase] /\ pc'[p] = "admitting"
        /\ at' \in [Task -> Opener \cup {Nobody}]
    BY Goes DEF Register, Phase, TypeOK, cleanup
  <2>2. transition' \in Seq(Opener \cup Drainer) /\ WaitsOnce(transition') /\ TransitionInv'
    BY <2>1, TransitionStep DEF Register, InTransition, AtTransition, TransitionInv
  <2>3. /\ remoteGate' \in [Name -> Seq(Task)] /\ \A n \in Name : WaitsOnce(remoteGate'[n])
        /\ RemoteInv'
    BY <2>1, RemoteStep DEF Register, InRemote, AtRemote, Place, RemoteInv
  <2>4. /\ grantGate' \in [Grant -> Seq(Task)] /\ \A g \in Grant : WaitsOnce(grantGate'[g])
        /\ GrantInv'
    BY <2>1, GrantStep DEF Register, InGrant, AtGrant, Place, GrantInv
  <2>5. TypeOK'
    BY <2>1, <2>2, <2>3, <2>4 DEF Register, Suspend, status, owned, cleanup, TypeOK
  <2>6. PlaceInv' /\ NoConnectionLeaked' /\ RecordInv' /\ MountInv' /\ GenerationInv' /\ DrainInv'
    <3>1. /\ UNCHANGED <<closing, generation, quiet, record, connection, mounted, todo, clean>>
          /\ pc[p] = "granting" /\ saved' = saved
          /\ (\A g \in Grant : credential'[g] # Nobody => Target[credential'[g]] = g) /\ admitted' = admitted
      BY <2>1 DEF Register, status, owned, cleanup, TypeOK, PlaceInv
    <3> QED
      BY <2>1, <3>1, Moves
  <2> QED
    BY <2>2, <2>3, <2>4, <2>5, <2>6
<1>3. ASSUME GateRefused(p) PROVE IInv'
  <2> USE <1>3
  <2>1. /\ Others(p)
        /\ pc' \in [Task -> Phase] /\ pc'[p] = "failed"
        /\ at' \in [Task -> Opener \cup {Nobody}]
    BY Goes DEF GateRefused, Phase, TypeOK, cleanup
  <2>2. transition' \in Seq(Opener \cup Drainer) /\ WaitsOnce(transition') /\ TransitionInv'
    BY <2>1, TransitionStep DEF GateRefused, InTransition, AtTransition, TransitionInv
  <2>3. /\ remoteGate' \in [Name -> Seq(Task)] /\ \A n \in Name : WaitsOnce(remoteGate'[n])
        /\ RemoteInv'
    BY <2>1, RemoteStep DEF GateRefused, InRemote, AtRemote, Place, RemoteInv
  <2>4. /\ grantGate' \in [Grant -> Seq(Task)] /\ \A g \in Grant : WaitsOnce(grantGate'[g])
        /\ GrantInv'
    BY <2>1, GrantStep, Zenon DEF GateRefused, InGrant, AtGrant, Place, GrantInv, LeaveGrant
  <2>5. TypeOK'
    BY <2>1, <2>2, <2>3, <2>4 DEF GateRefused, Suspend, status, owned, cleanup, TypeOK
  <2>6. PlaceInv' /\ NoConnectionLeaked' /\ RecordInv' /\ MountInv' /\ GenerationInv' /\ DrainInv'
    <3>1. /\ UNCHANGED <<closing, generation, quiet, record, connection, mounted, todo, clean>>
          /\ pc[p] = "granting" /\ saved' = saved
          /\ credential' = credential /\ admitted' = admitted
      BY <2>1 DEF GateRefused, status, owned, cleanup, TypeOK, PlaceInv
    <3> QED
      BY <2>1, <3>1, Moves
  <2> QED
    BY <2>2, <2>3, <2>4, <2>5, <2>6
<1>4. ASSUME Admit(p) PROVE IInv'
  <2> USE <1>4
  <2>1. /\ Others(p)
        /\ pc' \in [Task -> Phase] /\ pc'[p] = "resolving"
        /\ at' \in [Task -> Opener \cup {Nobody}]
    BY Goes DEF Admit, Phase, TypeOK, cleanup
  <2>2. transition' \in Seq(Opener \cup Drainer) /\ WaitsOnce(transition') /\ TransitionInv'
    BY <2>1, TransitionStep DEF Admit, InTransition, AtTransition, TransitionInv
  <2>3. /\ remoteGate' \in [Name -> Seq(Task)] /\ \A n \in Name : WaitsOnce(remoteGate'[n])
        /\ RemoteInv'
    BY <2>1, RemoteStep DEF Admit, InRemote, AtRemote, Place, RemoteInv
  <2>4. /\ grantGate' \in [Grant -> Seq(Task)] /\ \A g \in Grant : WaitsOnce(grantGate'[g])
        /\ GrantInv'
    BY <2>1, GrantStep DEF Admit, InGrant, AtGrant, Place, GrantInv
  <2>5. TypeOK'
    BY <2>1, <2>2, <2>3, <2>4 DEF Admit, Suspend, status, owned, cleanup, TypeOK
  <2>6. PlaceInv' /\ NoConnectionLeaked' /\ RecordInv' /\ MountInv' /\ GenerationInv' /\ DrainInv'
    <3>1. /\ UNCHANGED <<closing, generation, quiet, record, connection, mounted, todo, clean>>
          /\ pc[p] = "admitting" /\ saved' = saved
          /\ credential' = credential /\ (\A q \in Opener \ {p} : admitted'[q] = admitted[q])
      BY <2>1 DEF Admit, status, owned, cleanup, TypeOK, PlaceInv
    <3> QED
      BY <2>1, <3>1, Moves
  <2> QED
    BY <2>2, <2>3, <2>4, <2>5, <2>6
<1>5. ASSUME NotAdmitted(p) PROVE IInv'
  <2> USE <1>5
  <2>1. \/ GiveUp(p, remoteGate[Target[p]]) /\ ~AtRemote(p)
        \/ GiveUp(p, Tail(remoteGate[Target[p]])) /\ Holds(p, remoteGate[Target[p]])
    BY DEF NotAdmitted, AtRemote, InRemote, RemoteInv, Place
  <2>2. /\ Others(p)
        /\ pc' \in [Task -> Phase] /\ at' \in [Task -> Opener \cup {Nobody}]
        /\ running' \in Task \cup {Nobody}
        /\ p \in Connector => pc'[p] = "reaching" /\ at'[p] = p
        /\ p \notin Connector => pc'[p] = "failed" /\ at' = at
        /\ remoteGate' \in [Name -> Seq(Task)] /\ \A n \in Name : WaitsOnce(remoteGate'[n])
        /\ RemoteInv'
    BY <2>1, GivesUp
  <2>3. transition' \in Seq(Opener \cup Drainer) /\ WaitsOnce(transition') /\ TransitionInv'
    BY <2>2, TransitionStep, Zenon DEF NotAdmitted, InTransition, AtTransition, TransitionInv
  <2>4. /\ grantGate' \in [Grant -> Seq(Task)] /\ \A g \in Grant : WaitsOnce(grantGate'[g])
        /\ GrantInv'
    BY <2>2, GrantStep, Zenon DEF NotAdmitted, InGrant, AtGrant, Place, GrantInv
  <2>5. TypeOK'
    BY <2>2, <2>3, <2>4 DEF NotAdmitted, status, owned, TypeOK
  <2>6. PlaceInv' /\ NoConnectionLeaked' /\ RecordInv' /\ MountInv' /\ GenerationInv' /\ DrainInv'
    <3>1. /\ UNCHANGED <<closing, generation, quiet, record, connection, mounted, todo, clean>>
          /\ pc[p] = "admitting" /\ saved' = saved
          /\ credential' = credential /\ admitted' = admitted
      BY <2>2 DEF NotAdmitted, status, owned, TypeOK, PlaceInv, GiveUp
    <3> QED
      BY <2>2, <3>1, Moves
  <2> QED
    BY <2>2, <2>3, <2>4, <2>5, <2>6
<1>6. ASSUME Evicted(p) PROVE IInv'
  <2> USE <1>6
  <2>1. /\ InRemote(p) /\ Place(p) = Target[at[p]] /\ Place(p) \in Name /\ Place(p)' = Place(p)
        /\ Place(p) \in Grant
    BY DEF Evicted, Parted, InRemote, PlaceInv, Place, cleanup
  <2>2. /\ Others(p)
        /\ pc' \in [Task -> Phase] /\ pc'[p] = "admitting"
        /\ at' \in [Task -> Opener \cup {Nobody}]
    BY <2>1, Goes DEF Evicted, Phase, Parted, Retired, Closed, TypeOK, cleanup
  <2>3. transition' \in Seq(Opener \cup Drainer) /\ WaitsOnce(transition') /\ TransitionInv'
    BY <2>1, <2>2, TransitionStep DEF Evicted, InTransition, AtTransition, TransitionInv,
           Parted, Retired, Closed
  <2>4. /\ remoteGate' \in [Name -> Seq(Task)] /\ \A n \in Name : WaitsOnce(remoteGate'[n])
        /\ RemoteInv'
    BY <2>1, <2>2, RemoteStep, Zenon DEF Evicted, InRemote, AtRemote, Place, RemoteInv,
           LeaveRemote, Parted, Retired, Closed
  <2>5. /\ grantGate' \in [Grant -> Seq(Task)] /\ \A g \in Grant : WaitsOnce(grantGate'[g])
        /\ GrantInv'
    BY <2>1, <2>2, GrantStep DEF Evicted, InGrant, AtGrant, Place, GrantInv, Parted, Retired,
           Closed
  <2>6. /\ InGate(p)
        /\ record' \in [Name -> Opener \cup {Nobody}]
        /\ connection' \in [Opener -> {"none", "open", "lost", "closed"}]
        /\ \A n \in Name : record'[n] \in {record[n], Nobody}
        /\ \A n \in Name : record'[n] # Nobody => Target[record'[n]] = n
        /\ \A q \in Opener : connection'[q] \in {connection[q], "closed"}
        /\ NoConnectionLeaked'
    <3>1. CASE record[Place(p)] = at[p]
      <4>1. Parted(p, TRUE)
        BY DEF Evicted
      <4>2. Retired(Place(p), TRUE)
        BY <2>1, <3>1, <4>1, Zenon DEF Parted
      <4> QED
        BY <2>1, <4>2, Retires, Zenon
    <3>2. CASE record[Place(p)] # at[p]
      BY <2>1, <3>2 DEF Evicted, Parted, InGate, NoConnectionLeaked, TypeOK
    <3> QED
      BY <3>1, <3>2
  <2>7. TypeOK'
    <3>1. credential' \in [Grant -> Connector \cup {Nobody}]
      BY DEF Evicted, TypeOK
    <3>2. /\ UNCHANGED <<status, maintenance, transition, mounted, published, saved, admitted>>
          /\ running' = Nobody
      BY DEF Evicted, Parted, Suspend
    <3>3. todo' \in [Drainer -> SUBSET Opener] /\ clean' \in [Drainer -> BOOLEAN]
      BY DEF Evicted, cleanup, TypeOK
    <3> QED
      BY <2>2, <2>3, <2>4, <2>5, <2>6, <3>1, <3>2, <3>3 DEF status, TypeOK
  <2>8. PlaceInv'
    BY <2>1, <2>2, <2>6, PlaceStep DEF Evicted, Parted, Retired, Closed, status, cleanup,
           TypeOK, PlaceInv
  <2>9. NoConnectionLeaked' /\ RecordInv'
    <3>1. pc[p] = "parting" /\ at[p] # p
      BY DEF Evicted, Parted
    <3>2. \A n \in Name : record[n] # p
      BY <3>1 DEF RecordInv, Recorded
    <3>3. \A n \in Name : record'[n] # p
      BY <2>6, <3>2
    <3> QED
      BY <2>1, <2>2, <2>6, <3>3, RecordStep
  <2>10. MountInv'
    <3>1. /\ mounted' = mounted /\ saved' = saved /\ pc[p] = "parting"
          /\ record' = record \/ record[Place(p)] = at[p]
      BY <2>1, Zenon DEF Evicted, Parted
    <3>2. record' = record \/ mounted[Place(p)] = Nobody
      BY <3>1 DEF MountInv
    <3> QED
      BY <2>2, <2>6, <3>1, <3>2, RetiredMounts
  <2>11. GenerationInv'
    BY <2>1, <2>2, <2>6 DEF Evicted, Parted, Retired, Closed, Others, status, cleanup,
           TypeOK, GenerationInv, NoStaleGeneration
  <2>12. DrainInv'
    BY <2>1, <2>2, <2>6, DrainStep DEF Evicted, Parted, Retired, Closed, status, cleanup,
           TypeOK, DrainInv
  <2> QED
    BY <2>3, <2>4, <2>5, <2>7, <2>8, <2>9, <2>10, <2>11, <2>12
<1> QED
  BY <1>1, <1>2, <1>3, <1>4, <1>5, <1>6

\* Those that a connect shares with a disconnect.
LEMMA GrantSteps ==
  ASSUME IInv, NEW p \in Connector \cup Disconnector,
         ReadSlot(p) \/ JoinConnection(p) \/ SlotRefused(p) \/ Part(p)
  PROVE  IInv'
<1> USE Kinds DEF IInv
<1>1. ASSUME ReadSlot(p) PROVE IInv'
  <2> USE <1>1
  <2>1. /\ Others(p)
        /\ pc' \in [Task -> Phase] /\ pc'[p] = "reading"
        /\ at' \in [Task -> Opener \cup {Nobody}]
    BY Goes DEF ReadSlot, Phase, TypeOK, cleanup
  <2>2. transition' \in Seq(Opener \cup Drainer) /\ WaitsOnce(transition') /\ TransitionInv'
    BY <2>1, TransitionStep DEF ReadSlot, InTransition, AtTransition, TransitionInv
  <2>3. /\ remoteGate' \in [Name -> Seq(Task)] /\ \A n \in Name : WaitsOnce(remoteGate'[n])
        /\ RemoteInv'
    BY <2>1, RemoteStep DEF ReadSlot, InRemote, AtRemote, Place, RemoteInv
  <2>4. /\ grantGate' \in [Grant -> Seq(Task)] /\ \A g \in Grant : WaitsOnce(grantGate'[g])
        /\ GrantInv'
    BY <2>1, GrantStep DEF ReadSlot, InGrant, AtGrant, Place, GrantInv
  <2>5. TypeOK'
    BY <2>1, <2>2, <2>3, <2>4 DEF ReadSlot, Suspend, status, owned, cleanup, TypeOK
  <2>6. PlaceInv' /\ NoConnectionLeaked' /\ RecordInv' /\ MountInv' /\ GenerationInv' /\ DrainInv'
    <3>1. /\ UNCHANGED <<closing, generation, quiet, record, connection, mounted, todo, clean>>
          /\ pc[p] = "idle" /\ saved' = saved
          /\ credential' = credential /\ admitted' = admitted
      BY <2>1 DEF ReadSlot, status, owned, cleanup, TypeOK, PlaceInv
    <3> QED
      BY <2>1, <3>1, Moves
  <2> QED
    BY <2>2, <2>3, <2>4, <2>5, <2>6
<1>2. ASSUME JoinConnection(p) PROVE IInv'
  <2> USE <1>2
  <2>1. /\ Others(p)
        /\ pc' \in [Task -> Phase] /\ pc'[p] = "granting"
        /\ at' \in [Task -> Opener \cup {Nobody}]
    BY Goes DEF JoinConnection, Phase, TypeOK, cleanup
  <2>2. transition' \in Seq(Opener \cup Drainer) /\ WaitsOnce(transition') /\ TransitionInv'
    BY <2>1, TransitionStep DEF JoinConnection, InTransition, AtTransition, TransitionInv
  <2>3. /\ remoteGate' \in [Name -> Seq(Task)] /\ \A n \in Name : WaitsOnce(remoteGate'[n])
        /\ RemoteInv'
    BY <2>1, RemoteStep DEF JoinConnection, InRemote, AtRemote, Place, RemoteInv
  <2>4. /\ grantGate' \in [Grant -> Seq(Task)] /\ \A g \in Grant : WaitsOnce(grantGate'[g])
        /\ GrantInv'
    BY <2>1, GrantStep, Zenon DEF JoinConnection, InGrant, AtGrant, Place, GrantInv, JoinGrant
  <2>5. TypeOK'
    BY <2>1, <2>2, <2>3, <2>4 DEF JoinConnection, SuspendUnlessFree, JoinGrant, status,
           owned, cleanup, TypeOK
  <2>6. PlaceInv' /\ NoConnectionLeaked' /\ RecordInv' /\ MountInv' /\ GenerationInv' /\ DrainInv'
    <3>1. /\ UNCHANGED <<closing, generation, quiet, record, connection, mounted, todo, clean>>
          /\ pc[p] = "reading" /\ saved' = saved
          /\ credential' = credential /\ admitted' = admitted
      BY <2>1 DEF JoinConnection, status, owned, cleanup, TypeOK, PlaceInv
    <3> QED
      BY <2>1, <3>1, Moves
  <2> QED
    BY <2>2, <2>3, <2>4, <2>5, <2>6
<1>3. ASSUME SlotRefused(p) PROVE IInv'
  <2> USE <1>3
  <2>1. /\ Others(p)
        /\ pc' \in [Task -> Phase] /\ pc'[p] = "failed"
        /\ at' \in [Task -> Opener \cup {Nobody}]
    BY Goes DEF SlotRefused, Phase, TypeOK, cleanup
  <2>2. transition' \in Seq(Opener \cup Drainer) /\ WaitsOnce(transition') /\ TransitionInv'
    BY <2>1, TransitionStep DEF SlotRefused, InTransition, AtTransition, TransitionInv
  <2>3. /\ remoteGate' \in [Name -> Seq(Task)] /\ \A n \in Name : WaitsOnce(remoteGate'[n])
        /\ RemoteInv'
    BY <2>1, RemoteStep DEF SlotRefused, InRemote, AtRemote, Place, RemoteInv
  <2>4. /\ grantGate' \in [Grant -> Seq(Task)] /\ \A g \in Grant : WaitsOnce(grantGate'[g])
        /\ GrantInv'
    BY <2>1, GrantStep DEF SlotRefused, InGrant, AtGrant, Place, GrantInv
  <2>5. TypeOK'
    BY <2>1, <2>2, <2>3, <2>4 DEF SlotRefused, Suspend, status, owned, cleanup, TypeOK
  <2>6. PlaceInv' /\ NoConnectionLeaked' /\ RecordInv' /\ MountInv' /\ GenerationInv' /\ DrainInv'
    <3>1. /\ UNCHANGED <<closing, generation, quiet, record, connection, mounted, todo, clean>>
          /\ pc[p] = "reading" /\ saved' = saved
          /\ credential' = credential /\ admitted' = admitted
      BY <2>1 DEF SlotRefused, status, owned, cleanup, TypeOK, PlaceInv
    <3> QED
      BY <2>1, <3>1, Moves
  <2> QED
    BY <2>2, <2>3, <2>4, <2>5, <2>6
<1>4. ASSUME Part(p) PROVE IInv'
  <2> USE <1>4
  <2>1. /\ InRemote(p) /\ Place(p) = Target[at[p]] /\ Place(p) \in Name /\ Place(p)' = Place(p)
        /\ Place(p) \in Grant
    BY DEF Part, Parted, InRemote, PlaceInv, Place, cleanup
  <2>2. /\ Others(p)
        /\ pc' \in [Task -> Phase] /\ pc'[p] \in {"done", "failed"}
        /\ at' \in [Task -> Opener \cup {Nobody}]
    BY <2>1, Goes DEF Part, Phase, Parted, Retired, Closed, Forgotten, TypeOK, cleanup
  <2>3. transition' \in Seq(Opener \cup Drainer) /\ WaitsOnce(transition') /\ TransitionInv'
    BY <2>1, <2>2, TransitionStep DEF Part, InTransition, AtTransition, TransitionInv,
           Parted, Retired, Closed, Forgotten
  <2>4. /\ remoteGate' \in [Name -> Seq(Task)] /\ \A n \in Name : WaitsOnce(remoteGate'[n])
        /\ RemoteInv'
    BY <2>1, <2>2, RemoteStep, Zenon DEF Part, InRemote, AtRemote, Place, RemoteInv,
           LeaveRemote, Parted, Retired, Closed, Forgotten
  <2>5. /\ grantGate' \in [Grant -> Seq(Task)] /\ \A g \in Grant : WaitsOnce(grantGate'[g])
        /\ GrantInv'
    BY <2>1, <2>2, GrantStep, Zenon DEF Part, InGrant, AtGrant, Place, GrantInv, LeaveGrant,
           Parted, Retired, Closed, Forgotten
  <2>6. /\ InGate(p)
        /\ record' \in [Name -> Opener \cup {Nobody}]
        /\ connection' \in [Opener -> {"none", "open", "lost", "closed"}]
        /\ \A n \in Name : record'[n] \in {record[n], Nobody}
        /\ \A n \in Name : record'[n] # Nobody => Target[record'[n]] = n
        /\ \A q \in Opener : connection'[q] \in {connection[q], "closed"}
        /\ NoConnectionLeaked'
    <3>1. CASE record[Place(p)] = at[p]
      <4>1. PICK acknowledged \in BOOLEAN : Retired(Place(p), acknowledged)
        BY <2>1, <3>1 DEF Part, Parted
      <4> QED
        BY <2>1, <4>1, Retires
    <3>2. CASE record[Place(p)] # at[p]
      BY <2>1, <3>2 DEF Part, Parted, InGate, NoConnectionLeaked, TypeOK
    <3> QED
      BY <3>1, <3>2
  <2>7. TypeOK'
    <3>1. credential' \in [Grant -> Connector \cup {Nobody}]
      BY DEF Part, Forgotten, TypeOK
    <3>2. /\ UNCHANGED <<status, maintenance, transition, mounted, published, saved, admitted>>
          /\ running' = Nobody
      BY DEF Part, Parted, Suspend
    <3>3. todo' \in [Drainer -> SUBSET Opener] /\ clean' \in [Drainer -> BOOLEAN]
      BY DEF Part, cleanup, TypeOK
    <3> QED
      BY <2>2, <2>3, <2>4, <2>5, <2>6, <3>1, <3>2, <3>3 DEF status, TypeOK
  <2>8. PlaceInv'
    BY <2>1, <2>2, <2>6, PlaceStep DEF Part, Parted, Retired, Closed, Forgotten, status,
           cleanup, TypeOK, PlaceInv
  <2>9. NoConnectionLeaked' /\ RecordInv'
    BY <2>1, <2>2, <2>6, RecordStep DEF RecordInv, Recorded
  <2>10. MountInv'
    <3>1. /\ mounted' = mounted /\ saved' = saved /\ pc[p] = "parting"
          /\ record' = record \/ record[Place(p)] = at[p]
      BY <2>1 DEF Part, Parted
    <3>2. record' = record \/ mounted[Place(p)] = Nobody
      BY <3>1 DEF MountInv
    <3> QED
      BY <2>2, <2>6, <3>1, <3>2, RetiredMounts
  <2>11. GenerationInv'
    BY <2>1, <2>2, <2>6 DEF Part, Parted, Retired, Closed, Forgotten, Others, status,
           cleanup, TypeOK, GenerationInv, NoStaleGeneration
  <2>12. DrainInv'
    BY <2>1, <2>2, <2>6, DrainStep DEF Part, Parted, Retired, Closed, Forgotten, status,
           cleanup, TypeOK, DrainInv
  <2> QED
    BY <2>3, <2>4, <2>5, <2>7, <2>8, <2>9, <2>10, <2>11, <2>12
<1> QED
  BY <1>1, <1>2, <1>3, <1>4

\* Those of OAuthRuntime.disconnect.
LEMMA DisconnectorSteps ==
  ASSUME IInv, NEW p \in Disconnector,
         Disconnect(p) \/ ForgetGrant(p)
  PROVE  IInv'
<1> USE Kinds DEF IInv
<1>1. ASSUME Disconnect(p) PROVE IInv'
  <2> USE <1>1
  <2>1. /\ Others(p)
        /\ pc' \in [Task -> Phase] /\ pc'[p] = "forgetting"
        /\ at' \in [Task -> Opener \cup {Nobody}]
    BY Goes, Zenon DEF Disconnect, Phase, Unmount, TypeOK
  <2>2. transition' \in Seq(Opener \cup Drainer) /\ WaitsOnce(transition') /\ TransitionInv'
    BY <2>1, TransitionStep DEF Disconnect, InTransition, AtTransition, TransitionInv, Unmount
  <2>3. /\ remoteGate' \in [Name -> Seq(Task)] /\ \A n \in Name : WaitsOnce(remoteGate'[n])
        /\ RemoteInv'
    BY <2>1, RemoteStep, Zenon DEF Disconnect, InRemote, AtRemote, Place, RemoteInv, Unmount
  <2>4. /\ grantGate' \in [Grant -> Seq(Task)] /\ \A g \in Grant : WaitsOnce(grantGate'[g])
        /\ GrantInv'
    BY <2>1, GrantStep, Zenon DEF Disconnect, InGrant, AtGrant, Place, GrantInv, Unmount
  <2>5. TypeOK'
    BY <2>1, <2>2, <2>3, <2>4 DEF Disconnect, Unmount, Suspend, status, TypeOK
  <2>6. PlaceInv'
    BY <2>1 DEF Disconnect, Unmount, Others, status, TypeOK, PlaceInv
  <2>7. NoConnectionLeaked' /\ RecordInv'
    BY <2>1 DEF Disconnect, Unmount, Others, status, TypeOK, NoConnectionLeaked, RecordInv, Recorded
  <2>8. MountInv'
    <3>1. /\ pc[p] = "granting" /\ record' = record /\ saved' = saved
          /\ mounted' = [mounted EXCEPT ![Target[p]] = Nobody]
      BY DEF Disconnect, Unmount
    <3>2. /\ InGate(p) /\ mounted'[Target[p]] = Nobody
          /\ \A n \in Name : mounted'[n] \in {mounted[n], Nobody}
      BY <3>1 DEF InGate, TypeOK
    <3> QED
      BY <2>1, <3>1, <3>2, MountStep
  <2>9. GenerationInv'
    BY <2>1 DEF Disconnect, Unmount, Others, status, TypeOK, GenerationInv, NoStaleGeneration
  <2>10. DrainInv'
    BY <2>1 DEF Disconnect, Unmount, Others, status, TypeOK, DrainInv, QuietAfterShutdown
  <2> QED
    BY <2>2, <2>3, <2>4, <2>5, <2>6, <2>7, <2>8, <2>9, <2>10
<1>2. ASSUME ForgetGrant(p) PROVE IInv'
  <2> USE <1>2
  <2>1. /\ Place(p) = Target[p] /\ Place(p) \in Grant /\ Place(p)' = Place(p)
        /\ pc[p] = "forgetting" /\ Holds(p, grantGate[Place(p)]) /\ ~AtRemote(p)
        /\ at'[p] # Nobody => Target[at'[p]] = Target[p]
        /\ mounted[Target[p]] = Nobody
    BY DEF ForgetGrant, GrantInv, InGrant, PlaceInv, Place, AtRemote, InRemote, MountInv,
           cleanup
  <2>2. /\ Others(p)
        /\ pc' \in [Task -> Phase] /\ pc'[p] \in {"reaching", "failed", "done"}
        /\ at' \in [Task -> Opener \cup {Nobody}]
    BY <2>1, Goes DEF ForgetGrant, Phase, TypeOK, cleanup
  <2>3. transition' \in Seq(Opener \cup Drainer) /\ WaitsOnce(transition') /\ TransitionInv'
    BY <2>1, <2>2, TransitionStep DEF ForgetGrant, InTransition, AtTransition, TransitionInv
  <2>4. /\ remoteGate' \in [Name -> Seq(Task)] /\ \A n \in Name : WaitsOnce(remoteGate'[n])
        /\ RemoteInv'
    <3>1. CASE at[p] # Nobody
      <4>1. pc'[p] = "reaching" /\ remoteGate' = [remoteGate EXCEPT ![Place(p)'] = Append(@, p)]
        BY <2>1, <3>1 DEF ForgetGrant, Goto, JoinRemote, TypeOK
      <4> QED
        BY <2>1, <2>2, <4>1, RemoteStep, Zenon DEF InRemote, AtRemote
    <3>2. CASE at[p] = Nobody
      <4>1. pc'[p] \in {"failed", "done"} /\ remoteGate' = remoteGate
        BY <3>2 DEF ForgetGrant, Goto, TypeOK
      <4> QED
        BY <2>1, <2>2, <4>1, RemoteStep DEF InRemote, AtRemote
    <3> QED
      BY <3>1, <3>2
  <2>5. /\ grantGate' \in [Grant -> Seq(Task)] /\ \A g \in Grant : WaitsOnce(grantGate'[g])
        /\ GrantInv'
    <3>1. InGrant(p)
      BY <2>1 DEF InGrant
    <3>2. CASE at[p] # Nobody
      <4>1. pc'[p] = "reaching" /\ grantGate' = grantGate
        BY <3>2 DEF ForgetGrant, Goto, TypeOK
      <4> QED
        BY <2>1, <2>2, <3>1, <4>1, GrantStep DEF InGrant, AtGrant
    <3>3. CASE at[p] = Nobody
      <4>1. /\ pc'[p] \in {"failed", "done"}
            /\ grantGate' = [grantGate EXCEPT ![Place(p)] = Tail(@)]
        BY <2>1, <3>3 DEF ForgetGrant, Goto, LeaveGrant, TypeOK
      <4> QED
        BY <2>1, <2>2, <4>1, GrantStep, Zenon DEF InGrant, AtGrant
    <3> QED
      BY <3>2, <3>3
  <2>6. TypeOK'
    <3>1. saved' \in [Name -> BOOLEAN] /\ running' \in Task \cup {Nobody}
      BY DEF ForgetGrant, JoinRemote, Suspend, SuspendUnlessFree, TypeOK
    <3>2. UNCHANGED <<status, maintenance, transition, owned, credential, admitted, cleanup>>
      BY DEF ForgetGrant
    <3> QED
      BY <2>2, <2>3, <2>4, <2>5, <3>1, <3>2 DEF status, owned, cleanup, TypeOK
  <2>7. PlaceInv'
    <3>1. credential' = credential /\ todo' = todo /\ at' = at /\ p \notin Drainer
      BY DEF ForgetGrant, cleanup
    <3>2. pc'[p] = "reaching" => at'[p] # Nobody
      BY <2>1, <2>2 DEF ForgetGrant, Goto, TypeOK, cleanup
    <3>3. pc'[p] \in {"reaching", "parting"} => at'[p] \in Opener /\ Target[at'[p]] = Target[p]
      BY <2>1, <2>2, <3>2 DEF TypeOK
    <3> QED
      BY <2>1, <2>2, <3>1, <3>3, PlaceStep DEF PlaceInv
  <2>8. NoConnectionLeaked' /\ RecordInv'
    BY <2>1, <2>2 DEF ForgetGrant, Others, status, owned, cleanup, TypeOK,
           NoConnectionLeaked, RecordInv, Recorded
  <2>9. MountInv'
    BY <2>1, <2>2, MountStep, Zenon DEF ForgetGrant, status, owned, cleanup, TypeOK,
           MountInv, PlaceInv, InGate, Place
  <2>10. GenerationInv'
    BY <2>1, <2>2 DEF ForgetGrant, Others, status, owned, cleanup, TypeOK, GenerationInv,
           NoStaleGeneration
  <2>11. DrainInv'
    BY <2>1, <2>2 DEF ForgetGrant, Others, status, owned, cleanup, TypeOK, DrainInv,
           QuietAfterShutdown
  <2> QED
    BY <2>3, <2>4, <2>5, <2>6, <2>7, <2>8, <2>9, <2>10, <2>11
<1> QED
  BY <1>1, <1>2

\* _retire_connection has the gate of the name.
LEMMA ReachSteps ==
  ASSUME IInv, NEW p \in Connector \cup Disconnector \cup Drainer,
         Reach(p)
  PROVE  IInv'
<1> USE Kinds DEF IInv
<1>1. ASSUME Reach(p) PROVE IInv'
  <2> USE <1>1
  <2>1. /\ pc[p] = "reaching" /\ Place(p) = Target[at[p]] /\ Place(p) \in Name
        /\ Place(p) \in Grant /\ Place(p)' = Place(p)
        /\ p \notin Opener \/ Holds(p, transition) \/ p \in Connector
    BY DEF Reach, PlaceInv, Place, cleanup
  <2>2. /\ Others(p)
        /\ pc' \in [Task -> Phase] /\ pc'[p] = "parting"
        /\ at' \in [Task -> Opener \cup {Nobody}]
    BY <2>1, Goes DEF Reach, Phase, Unmount, Withdraw, TypeOK, cleanup
  <2>3. transition' \in Seq(Opener \cup Drainer) /\ WaitsOnce(transition') /\ TransitionInv'
    BY <2>1, <2>2, TransitionStep DEF Reach, InTransition, AtTransition, TransitionInv,
           Unmount, Withdraw
  <2>4. /\ remoteGate' \in [Name -> Seq(Task)] /\ \A n \in Name : WaitsOnce(remoteGate'[n])
        /\ RemoteInv'
    BY <2>1, <2>2, RemoteStep DEF Reach, InRemote, AtRemote, Place, RemoteInv, Unmount,
           Withdraw
  <2>5. /\ grantGate' \in [Grant -> Seq(Task)] /\ \A g \in Grant : WaitsOnce(grantGate'[g])
        /\ GrantInv'
    BY <2>1, <2>2, GrantStep DEF Reach, InGrant, AtGrant, Place, GrantInv, Unmount, Withdraw
  <2>6. TypeOK'
    <3>1. mounted' \in [Name -> Opener \cup {Nobody}] /\ published' \in [Opener -> BOOLEAN]
      <4>1. CASE record[Place(p)] = at[p]
        <5>1. Unmount(Place(p)) /\ Withdraw(Place(p))
          BY <2>1, <4>1 DEF Reach
        <5>2. mounted' \in [Name -> Opener \cup {Nobody}]
          BY <2>1, <5>1 DEF Unmount, TypeOK
        <5>3. published' \in [Opener -> BOOLEAN]
          BY <5>1 DEF Withdraw, TypeOK
        <5> QED
          BY <5>2, <5>3
      <4>2. CASE record[Place(p)] # at[p]
        BY <2>1, <4>2 DEF Reach, TypeOK
      <4> QED
        BY <4>1, <4>2
    <3>2. /\ UNCHANGED <<status, maintenance, record, connection, saved, credential, admitted,
                         cleanup>>
          /\ running' = Nobody
      BY DEF Reach, Suspend
    <3> QED
      BY <2>2, <2>3, <2>4, <2>5, <3>1, <3>2 DEF status, cleanup, TypeOK
  <2>7. PlaceInv'
    BY <2>1, <2>2, PlaceStep DEF Reach, Unmount, Withdraw, status, cleanup, TypeOK, PlaceInv
  <2>8. NoConnectionLeaked' /\ RecordInv'
    BY <2>1, <2>2 DEF Reach, Unmount, Withdraw, Others, status, cleanup, TypeOK,
           NoConnectionLeaked, RecordInv, Recorded
  <2>9. MountInv'
    <3>1. saved' = saved /\ record' = record /\ at' = at
      BY DEF Reach, cleanup
    <3>2. InGate(p) /\ (record[Place(p)] = at[p] => mounted'[Place(p)] = Nobody)
          /\ \A n \in Name : mounted'[n] \in {mounted[n], Nobody}
      BY <2>1, <3>1 DEF Reach, InGate, Unmount, TypeOK
    <3>3. ASSUME NEW n \in Name, mounted'[n] = p PROVE FALSE
      <4>1. p # Nobody /\ mounted[n] = p
        BY <3>2, <3>3
      <4>2. record[n] = p /\ at[p] = p
        BY <2>1, <4>1 DEF MountInv, MountedIsOwned, Mounter
      <4>3. Target[p] = n
        BY <4>1, <4>2 DEF TypeOK
      <4> QED
        BY <2>1, <3>2, <3>3, <4>1, <4>2, <4>3
    <3> QED
      BY <2>1, <2>2, <3>1, <3>2, <3>3, MountStep
  <2>10. GenerationInv'
    <3>1. /\ closing' = closing /\ generation' = generation /\ admitted' = admitted
          /\ record' = record /\ \A n \in Name : mounted'[n] \in {mounted[n], Nobody}
      BY <2>1 DEF Reach, Unmount, status, TypeOK
    <3> QED
      BY <2>2, <3>1 DEF Others, GenerationInv, NoStaleGeneration
  <2>11. DrainInv'
    <3>1. /\ quiet' = quiet /\ closing' = closing /\ record' = record /\ connection' = connection
          /\ todo' = todo /\ clean' = clean /\ pc[p] = "reaching"
          /\ \A n \in Name : mounted'[n] \in {mounted[n], Nobody}
      BY <2>1 DEF Reach, Unmount, status, cleanup, TypeOK
    <3> QED
      BY <2>2, <3>1, DrainStep DEF DrainInv
  <2> QED
    BY <2>3, <2>4, <2>5, <2>6, <2>7, <2>8, <2>9, <2>10, <2>11
<1> QED
  BY <1>1

\* Those of _unload_remote.
LEMMA UnloaderSteps ==
  ASSUME IInv, NEW p \in Unloader,
         Unload(p) \/ UnloaderStep(p)
  PROVE  IInv'
<1> USE Kinds DEF IInv
<1>1. ASSUME Unload(p) PROVE IInv'
  <2> USE <1>1
  <2>1. /\ Others(p)
        /\ pc' \in [Task -> Phase] /\ pc'[p] = "gating"
        /\ at' \in [Task -> Opener \cup {Nobody}]
    BY Goes DEF Unload, Phase, TypeOK, cleanup
  <2>2. transition' \in Seq(Opener \cup Drainer) /\ WaitsOnce(transition') /\ TransitionInv'
    BY <2>1, TransitionStep DEF Unload, InTransition, AtTransition, TransitionInv
  <2>3. /\ remoteGate' \in [Name -> Seq(Task)] /\ \A n \in Name : WaitsOnce(remoteGate'[n])
        /\ RemoteInv'
    BY <2>1, RemoteStep, Zenon DEF Unload, InRemote, AtRemote, Place, RemoteInv, JoinRemote
  <2>4. /\ grantGate' \in [Grant -> Seq(Task)] /\ \A g \in Grant : WaitsOnce(grantGate'[g])
        /\ GrantInv'
    BY <2>1, GrantStep DEF Unload, InGrant, AtGrant, Place, GrantInv
  <2>5. TypeOK'
    BY <2>1, <2>2, <2>3, <2>4 DEF Unload, SuspendUnlessFree, JoinRemote, status, owned,
           cleanup, TypeOK
  <2>6. PlaceInv' /\ NoConnectionLeaked' /\ RecordInv' /\ MountInv' /\ GenerationInv' /\ DrainInv'
    <3>1. /\ UNCHANGED <<closing, generation, quiet, record, connection, mounted, todo, clean>>
          /\ pc[p] = "idle" /\ saved' = saved
          /\ credential' = credential /\ admitted' = admitted
      BY <2>1 DEF Unload, status, owned, cleanup, TypeOK, PlaceInv
    <3> QED
      BY <2>1, <3>1, Moves
  <2> QED
    BY <2>2, <2>3, <2>4, <2>5, <2>6
<1>2. ASSUME EnterUnload(p) PROVE IInv'
  <2> USE <1>2
  <2>1. /\ Others(p)
        /\ pc' \in [Task -> Phase] /\ pc'[p] = "reading"
        /\ at' \in [Task -> Opener \cup {Nobody}]
    BY Goes DEF EnterUnload, Phase, TypeOK, cleanup
  <2>2. transition' \in Seq(Opener \cup Drainer) /\ WaitsOnce(transition') /\ TransitionInv'
    BY <2>1, TransitionStep DEF EnterUnload, InTransition, AtTransition, TransitionInv
  <2>3. /\ remoteGate' \in [Name -> Seq(Task)] /\ \A n \in Name : WaitsOnce(remoteGate'[n])
        /\ RemoteInv'
    BY <2>1, RemoteStep DEF EnterUnload, InRemote, AtRemote, Place, RemoteInv
  <2>4. /\ grantGate' \in [Grant -> Seq(Task)] /\ \A g \in Grant : WaitsOnce(grantGate'[g])
        /\ GrantInv'
    BY <2>1, GrantStep DEF EnterUnload, InGrant, AtGrant, Place, GrantInv
  <2>5. TypeOK'
    BY <2>1, <2>2, <2>3, <2>4 DEF EnterUnload, Suspend, status, owned, cleanup, TypeOK
  <2>6. PlaceInv' /\ NoConnectionLeaked' /\ RecordInv' /\ MountInv' /\ GenerationInv' /\ DrainInv'
    <3>1. /\ UNCHANGED <<closing, generation, quiet, record, connection, mounted, todo, clean>>
          /\ pc[p] = "gating" /\ saved' = saved
          /\ credential' = credential /\ admitted' = admitted
      BY <2>1 DEF EnterUnload, status, owned, cleanup, TypeOK, PlaceInv
    <3> QED
      BY <2>1, <3>1, Moves
  <2> QED
    BY <2>2, <2>3, <2>4, <2>5, <2>6
<1>3. ASSUME UnloadRefused(p) PROVE IInv'
  <2> USE <1>3
  <2>1. /\ Others(p)
        /\ pc' \in [Task -> Phase] /\ pc'[p] = "failed"
        /\ at' \in [Task -> Opener \cup {Nobody}]
    BY Goes DEF UnloadRefused, Phase, TypeOK, cleanup
  <2>2. transition' \in Seq(Opener \cup Drainer) /\ WaitsOnce(transition') /\ TransitionInv'
    BY <2>1, TransitionStep DEF UnloadRefused, InTransition, AtTransition, TransitionInv
  <2>3. /\ remoteGate' \in [Name -> Seq(Task)] /\ \A n \in Name : WaitsOnce(remoteGate'[n])
        /\ RemoteInv'
    BY <2>1, RemoteStep, Zenon DEF UnloadRefused, InRemote, AtRemote, Place, RemoteInv,
           LeaveRemote
  <2>4. /\ grantGate' \in [Grant -> Seq(Task)] /\ \A g \in Grant : WaitsOnce(grantGate'[g])
        /\ GrantInv'
    BY <2>1, GrantStep DEF UnloadRefused, InGrant, AtGrant, Place, GrantInv
  <2>5. TypeOK'
    BY <2>1, <2>2, <2>3, <2>4 DEF UnloadRefused, Suspend, status, owned, cleanup, TypeOK
  <2>6. PlaceInv' /\ NoConnectionLeaked' /\ RecordInv' /\ MountInv' /\ GenerationInv' /\ DrainInv'
    <3>1. /\ UNCHANGED <<closing, generation, quiet, record, connection, mounted, todo, clean>>
          /\ pc[p] = "reading" /\ saved' = saved
          /\ credential' = credential /\ admitted' = admitted
      BY <2>1 DEF UnloadRefused, status, owned, cleanup, TypeOK, PlaceInv
    <3> QED
      BY <2>1, <3>1, Moves
  <2> QED
    BY <2>2, <2>3, <2>4, <2>5, <2>6
<1>4. ASSUME WithdrawUnloaded(p) PROVE IInv'
  <2> USE <1>4
  <2>1. /\ Others(p)
        /\ pc' \in [Task -> Phase] /\ pc'[p] = "forgetting"
        /\ at' \in [Task -> Opener \cup {Nobody}]
    BY Goes DEF WithdrawUnloaded, Phase, Unmount, Withdraw, TypeOK, cleanup
  <2>2. transition' \in Seq(Opener \cup Drainer) /\ WaitsOnce(transition') /\ TransitionInv'
    BY <2>1, TransitionStep DEF WithdrawUnloaded, InTransition, AtTransition, TransitionInv,
           Unmount, Withdraw
  <2>3. /\ remoteGate' \in [Name -> Seq(Task)] /\ \A n \in Name : WaitsOnce(remoteGate'[n])
        /\ RemoteInv'
    BY <2>1, RemoteStep DEF WithdrawUnloaded, InRemote, AtRemote, Place, RemoteInv, Unmount,
           Withdraw
  <2>4. /\ grantGate' \in [Grant -> Seq(Task)] /\ \A g \in Grant : WaitsOnce(grantGate'[g])
        /\ GrantInv'
    BY <2>1, GrantStep DEF WithdrawUnloaded, InGrant, AtGrant, Place, GrantInv, Unmount,
           Withdraw
  <2>5. TypeOK'
    BY <2>1, <2>2, <2>3, <2>4 DEF WithdrawUnloaded, Unmount, Withdraw, Suspend, status,
           cleanup, TypeOK
  <2>6. PlaceInv'
    BY <2>1 DEF WithdrawUnloaded, Unmount, Withdraw, Others, status, cleanup, TypeOK, PlaceInv
  <2>7. NoConnectionLeaked' /\ RecordInv'
    BY <2>1 DEF WithdrawUnloaded, Unmount, Withdraw, Others, status, cleanup, TypeOK,
           NoConnectionLeaked, RecordInv, Recorded
  <2>8. MountInv'
    BY <2>1 DEF WithdrawUnloaded, Unmount, Withdraw, Others, status, cleanup, TypeOK,
           MountInv, MountedIsOwned, Mounter, Place
  <2>9. GenerationInv'
    BY <2>1 DEF WithdrawUnloaded, Unmount, Withdraw, Others, status, cleanup, TypeOK,
           GenerationInv, NoStaleGeneration
  <2>10. DrainInv'
    BY <2>1 DEF WithdrawUnloaded, Unmount, Withdraw, Others, status, cleanup, TypeOK,
           DrainInv, QuietAfterShutdown
  <2> QED
    BY <2>2, <2>3, <2>4, <2>5, <2>6, <2>7, <2>8, <2>9, <2>10
<1>5. ASSUME ForgetUnloaded(p) PROVE IInv'
  <2> USE <1>5
  <2>1. /\ Others(p)
        /\ pc' \in [Task -> Phase] /\ pc'[p] = "retiring"
        /\ at' \in [Task -> Opener \cup {Nobody}]
    BY Goes DEF ForgetUnloaded, Phase, TypeOK, cleanup
  <2>2. transition' \in Seq(Opener \cup Drainer) /\ WaitsOnce(transition') /\ TransitionInv'
    BY <2>1, TransitionStep DEF ForgetUnloaded, InTransition, AtTransition, TransitionInv
  <2>3. /\ remoteGate' \in [Name -> Seq(Task)] /\ \A n \in Name : WaitsOnce(remoteGate'[n])
        /\ RemoteInv'
    BY <2>1, RemoteStep DEF ForgetUnloaded, InRemote, AtRemote, Place, RemoteInv
  <2>4. /\ grantGate' \in [Grant -> Seq(Task)] /\ \A g \in Grant : WaitsOnce(grantGate'[g])
        /\ GrantInv'
    BY <2>1, GrantStep DEF ForgetUnloaded, InGrant, AtGrant, Place, GrantInv
  <2>5. TypeOK'
    BY <2>1, <2>2, <2>3, <2>4 DEF ForgetUnloaded, Suspend, status, owned, cleanup, TypeOK
  <2>6. PlaceInv'
    BY <2>1 DEF ForgetUnloaded, Others, status, owned, cleanup, TypeOK, PlaceInv
  <2>7. NoConnectionLeaked' /\ RecordInv'
    BY <2>1 DEF ForgetUnloaded, Others, status, owned, cleanup, TypeOK, NoConnectionLeaked,
           RecordInv, Recorded
  <2>8. MountInv'
    <3>1. /\ pc[p] = "forgetting" /\ record' = record /\ mounted' = mounted
          /\ \A n \in Name : n # Target[p] => saved'[n] = saved[n]
      BY DEF ForgetUnloaded, owned, TypeOK
    <3>2. InGate(p) /\ mounted[Target[p]] = Nobody
      BY <3>1 DEF InGate, MountInv
    <3> QED
      BY <2>1, <3>1, <3>2, MountStep
  <2>9. GenerationInv'
    BY <2>1 DEF ForgetUnloaded, Others, status, owned, cleanup, TypeOK, GenerationInv,
           NoStaleGeneration
  <2>10. DrainInv'
    BY <2>1 DEF ForgetUnloaded, Others, status, owned, cleanup, TypeOK, DrainInv,
           QuietAfterShutdown
  <2> QED
    BY <2>2, <2>3, <2>4, <2>5, <2>6, <2>7, <2>8, <2>9, <2>10
<1>6. ASSUME FinishUnload(p) PROVE IInv'
  <2> USE <1>6
  <2>1. /\ Others(p)
        /\ pc' \in [Task -> Phase] /\ pc'[p] \in {"done", "failed"}
        /\ at' \in [Task -> Opener \cup {Nobody}]
    BY Goes DEF FinishUnload, Phase, Retired, Closed, TypeOK, cleanup
  <2>2. transition' \in Seq(Opener \cup Drainer) /\ WaitsOnce(transition') /\ TransitionInv'
    BY <2>1, TransitionStep DEF FinishUnload, InTransition, AtTransition, TransitionInv,
           Retired, Closed
  <2>3. /\ remoteGate' \in [Name -> Seq(Task)] /\ \A n \in Name : WaitsOnce(remoteGate'[n])
        /\ RemoteInv'
    BY <2>1, RemoteStep, Zenon DEF FinishUnload, InRemote, AtRemote, Place, RemoteInv,
           LeaveRemote, Retired, Closed
  <2>4. /\ grantGate' \in [Grant -> Seq(Task)] /\ \A g \in Grant : WaitsOnce(grantGate'[g])
        /\ GrantInv'
    BY <2>1, GrantStep DEF FinishUnload, InGrant, AtGrant, Place, GrantInv, Retired, Closed
  <2>5. /\ InGate(p)
        /\ record' \in [Name -> Opener \cup {Nobody}]
        /\ connection' \in [Opener -> {"none", "open", "lost", "closed"}]
        /\ \A n \in Name : record'[n] \in {record[n], Nobody}
        /\ \A n \in Name : record'[n] # Nobody => Target[record'[n]] = n
        /\ \A q \in Opener : connection'[q] \in {connection[q], "closed"}
        /\ NoConnectionLeaked'
    <3>1. /\ InRemote(p) /\ Place(p) = Target[p]
          /\ \E acknowledged \in BOOLEAN : Retired(Place(p), acknowledged)
      BY DEF FinishUnload, InRemote, Place
    <3> QED
      BY <3>1, Retires
  <2>6. TypeOK'
    BY <2>1, <2>2, <2>3, <2>4, <2>5 DEF FinishUnload, Retired, Closed, Suspend, status,
           cleanup, TypeOK
  <2>7. PlaceInv'
    BY <2>1, <2>5, PlaceStep DEF FinishUnload, Retired, Closed, status, cleanup, TypeOK,
           PlaceInv
  <2>8. NoConnectionLeaked' /\ RecordInv'
    BY <2>1, <2>5, RecordStep DEF RecordInv, Recorded
  <2>9. MountInv'
    <3>1. Place(p) = Target[p] /\ mounted' = mounted /\ saved' = saved
      BY DEF FinishUnload, Place
    <3>2. mounted[Place(p)] = Nobody /\ pc[p] \notin {"done", "reaching"}
      BY <3>1 DEF FinishUnload, MountInv
    <3> QED
      BY <2>1, <2>5, <3>1, <3>2, RetiredMounts
  <2>10. GenerationInv'
    BY <2>1, <2>5 DEF FinishUnload, Retired, Closed, Others, status, cleanup, TypeOK,
           GenerationInv, NoStaleGeneration
  <2>11. DrainInv'
    BY <2>1, <2>5, DrainStep DEF FinishUnload, Retired, Closed, status, cleanup, TypeOK,
           DrainInv
  <2> QED
    BY <2>2, <2>3, <2>4, <2>6, <2>7, <2>8, <2>9, <2>10, <2>11
<1> QED
  BY <1>1, <1>2, <1>3, <1>4, <1>5, <1>6 DEF UnloaderStep

\* Those of shutdown and initialize.
LEMMA DrainerSteps ==
  ASSUME IInv, NEW p \in Drainer,
         \/ DrainGrant(p) \/ JoinIdleConnection(p) \/ DrainedGrant(p) \/ BeginRelease(p)
         \/ ReleaseRemote(p) \/ EnterRelease(p) \/ ReleasedRemote(p)
         \/ Stop(p) \/ EnterStop(p) \/ Stopped(p)
         \/ Initialize(p) \/ EnterInitialize(p) \/ InitializeLive(p)
         \/ Reopen(p) \/ NotReopened(p) \/ StartHosts(p)
  PROVE  IInv'
<1> USE Kinds DEF IInv
<1>1. ASSUME DrainGrant(p) PROVE IInv'
  <2> USE <1>1
  <2>1. Place(p)' = Target[at'[p]] /\ at'[p] \in Connector /\ at'[p] \in todo[p]
    BY DEF DrainGrant, PlaceInv, Place, TypeOK
  <2>2. /\ Others(p)
        /\ pc' \in [Task -> Phase] /\ pc'[p] = "granting"
        /\ at' \in [Task -> Opener \cup {Nobody}]
    BY <2>1, Goes, Zenon DEF DrainGrant, Phase, TypeOK
  <2>3. transition' \in Seq(Opener \cup Drainer) /\ WaitsOnce(transition') /\ TransitionInv'
    BY <2>1, <2>2, TransitionStep DEF DrainGrant, InTransition, AtTransition, TransitionInv
  <2>4. /\ remoteGate' \in [Name -> Seq(Task)] /\ \A n \in Name : WaitsOnce(remoteGate'[n])
        /\ RemoteInv'
    BY <2>1, <2>2, RemoteStep DEF DrainGrant, InRemote, AtRemote, Place, RemoteInv
  <2>5. /\ grantGate' \in [Grant -> Seq(Task)] /\ \A g \in Grant : WaitsOnce(grantGate'[g])
        /\ GrantInv'
    BY <2>1, <2>2, GrantStep, Zenon DEF DrainGrant, InGrant, AtGrant, Place, GrantInv,
           JoinGrant
  <2>6. TypeOK'
    BY <2>1, <2>2, <2>3, <2>4, <2>5 DEF DrainGrant, SuspendUnlessFree, JoinGrant, status,
           owned, TypeOK
  <2>7. PlaceInv' /\ NoConnectionLeaked' /\ RecordInv' /\ MountInv' /\ GenerationInv' /\ DrainInv'
    <3>1. /\ UNCHANGED <<closing, generation, quiet, record, connection, mounted, todo, clean>>
          /\ pc[p] = "draining" /\ saved' = saved
          /\ credential' = credential /\ admitted' = admitted
      BY <2>1, <2>2 DEF DrainGrant, status, owned, TypeOK, PlaceInv
    <3> QED
      BY <2>1, <2>2, <3>1, Moves
  <2> QED
    BY <2>3, <2>4, <2>5, <2>6, <2>7
<1>2. ASSUME JoinIdleConnection(p) PROVE IInv'
  <2> USE <1>2
  <2>1. /\ Place(p) = Target[at[p]] /\ Place(p) \in Grant /\ Place(p)' = Place(p)
        /\ at[p] \in Connector /\ at'[p] = at[p]
    BY DEF JoinIdleConnection, PlaceInv, Place, cleanup
  <2>2. /\ Others(p)
        /\ pc' \in [Task -> Phase] /\ pc'[p] = "reaching"
        /\ at' \in [Task -> Opener \cup {Nobody}]
    BY <2>1, Goes DEF JoinIdleConnection, Phase, TypeOK, cleanup
  <2>3. transition' \in Seq(Opener \cup Drainer) /\ WaitsOnce(transition') /\ TransitionInv'
    BY <2>1, <2>2, TransitionStep DEF JoinIdleConnection, InTransition, AtTransition,
           TransitionInv
  <2>4. /\ remoteGate' \in [Name -> Seq(Task)] /\ \A n \in Name : WaitsOnce(remoteGate'[n])
        /\ RemoteInv'
    BY <2>1, <2>2, RemoteStep, Zenon DEF JoinIdleConnection, InRemote, AtRemote, Place,
           RemoteInv, JoinRemote
  <2>5. /\ grantGate' \in [Grant -> Seq(Task)] /\ \A g \in Grant : WaitsOnce(grantGate'[g])
        /\ GrantInv'
    BY <2>1, <2>2, GrantStep DEF JoinIdleConnection, InGrant, AtGrant, Place, GrantInv
  <2>6. TypeOK'
    BY <2>1, <2>2, <2>3, <2>4, <2>5 DEF JoinIdleConnection, SuspendUnlessFree, JoinRemote,
           status, owned, cleanup, TypeOK
  <2>7. PlaceInv' /\ NoConnectionLeaked' /\ RecordInv' /\ MountInv' /\ GenerationInv' /\ DrainInv'
    <3>1. /\ UNCHANGED <<closing, generation, quiet, record, connection, mounted, todo, clean>>
          /\ pc[p] = "granting" /\ saved' = saved
          /\ credential' = credential /\ admitted' = admitted
      BY <2>1, <2>2 DEF JoinIdleConnection, status, owned, cleanup, TypeOK, PlaceInv
    <3> QED
      BY <2>1, <2>2, <3>1, Moves
  <2> QED
    BY <2>3, <2>4, <2>5, <2>6, <2>7
<1>3. ASSUME DrainedGrant(p) PROVE IInv'
  <2> USE <1>3
  <2>1. /\ InRemote(p) /\ Place(p) = Target[at[p]] /\ Place(p) \in Name /\ Place(p)' = Place(p)
        /\ Place(p) \in Grant
    BY DEF DrainedGrant, Parted, InRemote, PlaceInv, Place
  <2>2. /\ Others(p)
        /\ pc' \in [Task -> Phase] /\ pc'[p] = "draining"
        /\ at' \in [Task -> Opener \cup {Nobody}]
    BY <2>1, Goes DEF DrainedGrant, Phase, Parted, Retired, Closed, Forgotten, TypeOK
  <2>3. transition' \in Seq(Opener \cup Drainer) /\ WaitsOnce(transition') /\ TransitionInv'
    BY <2>1, <2>2, TransitionStep DEF DrainedGrant, InTransition, AtTransition,
           TransitionInv, Parted, Retired, Closed, Forgotten
  <2>4. /\ remoteGate' \in [Name -> Seq(Task)] /\ \A n \in Name : WaitsOnce(remoteGate'[n])
        /\ RemoteInv'
    BY <2>1, <2>2, RemoteStep, Zenon DEF DrainedGrant, InRemote, AtRemote, Place, RemoteInv,
           LeaveRemote, Parted, Retired, Closed, Forgotten
  <2>5. /\ grantGate' \in [Grant -> Seq(Task)] /\ \A g \in Grant : WaitsOnce(grantGate'[g])
        /\ GrantInv'
    BY <2>1, <2>2, GrantStep, Zenon DEF DrainedGrant, InGrant, AtGrant, Place, GrantInv,
           LeaveGrant, Parted, Retired, Closed, Forgotten
  <2>6. /\ InGate(p)
        /\ record' \in [Name -> Opener \cup {Nobody}]
        /\ connection' \in [Opener -> {"none", "open", "lost", "closed"}]
        /\ \A n \in Name : record'[n] \in {record[n], Nobody}
        /\ \A n \in Name : record'[n] # Nobody => Target[record'[n]] = n
        /\ \A q \in Opener : connection'[q] \in {connection[q], "closed"}
        /\ NoConnectionLeaked'
    <3>1. CASE record[Place(p)] = at[p]
      <4>1. PICK acknowledged \in BOOLEAN : Retired(Place(p), acknowledged)
        BY <2>1, <3>1 DEF DrainedGrant, Parted
      <4> QED
        BY <2>1, <4>1, Retires
    <3>2. CASE record[Place(p)] # at[p]
      BY <2>1, <3>2 DEF DrainedGrant, Parted, InGate, NoConnectionLeaked, TypeOK
    <3> QED
      BY <3>1, <3>2
  <2>7. TypeOK'
    <3>1. credential' \in [Grant -> Connector \cup {Nobody}]
      BY DEF DrainedGrant, Forgotten, TypeOK
    <3>2. /\ UNCHANGED <<status, maintenance, transition, mounted, published, saved, admitted>>
          /\ running' = Nobody
      BY DEF DrainedGrant, Parted, Suspend
    <3>3. todo' \in [Drainer -> SUBSET Opener] /\ clean' \in [Drainer -> BOOLEAN]
      BY DEF DrainedGrant, TypeOK
    <3> QED
      BY <2>2, <2>3, <2>4, <2>5, <2>6, <3>1, <3>2, <3>3 DEF status, TypeOK
  <2>8. PlaceInv'
    <3>1. /\ pc[p] = "parting" /\ todo'[p] \subseteq todo[p]
          /\ \A d \in Drainer \ {p} : todo'[d] = todo[d]
      BY DEF DrainedGrant, Parted, TypeOK
    <3>2. \A g \in Grant : credential'[g] \in {credential[g], Nobody}
      BY DEF DrainedGrant, Forgotten, TypeOK
    <3> QED
      BY <2>2, <3>1, <3>2, PlaceStep DEF PlaceInv
  <2>9. NoConnectionLeaked' /\ RecordInv'
    BY <2>1, <2>2, <2>6, RecordStep DEF RecordInv, Recorded
  <2>10. MountInv'
    <3>1. /\ mounted' = mounted /\ saved' = saved /\ pc[p] = "parting"
          /\ record' = record \/ record[Place(p)] = at[p]
      BY <2>1 DEF DrainedGrant, Parted
    <3>2. record' = record \/ mounted[Place(p)] = Nobody
      BY <3>1 DEF MountInv
    <3> QED
      BY <2>2, <2>6, <3>1, <3>2, RetiredMounts
  <2>11. GenerationInv'
    BY <2>1, <2>2, <2>6 DEF DrainedGrant, Parted, Retired, Closed, Forgotten, Others, status,
           TypeOK, GenerationInv, NoStaleGeneration
  <2>12. DrainInv'
    <3>1. /\ quiet' = quiet /\ closing' = closing /\ mounted' = mounted /\ pc[p] = "parting"
          /\ \A d \in Drainer \ {p} : todo'[d] = todo[d] /\ clean'[d] = clean[d]
      BY DEF DrainedGrant, Parted, status, TypeOK
    <3> QED
      BY <2>2, <2>6, <3>1, DrainStep DEF DrainInv
  <2> QED
    BY <2>3, <2>4, <2>5, <2>7, <2>8, <2>9, <2>10, <2>11, <2>12
<1>4. ASSUME BeginRelease(p) PROVE IInv'
  <2> USE <1>4
  <2>1. /\ Others(p)
        /\ pc' \in [Task -> Phase] /\ pc'[p] = "releasing"
        /\ at' \in [Task -> Opener \cup {Nobody}]
    BY Goes DEF BeginRelease, Phase, TypeOK
  <2>2. transition' \in Seq(Opener \cup Drainer) /\ WaitsOnce(transition') /\ TransitionInv'
    BY <2>1, TransitionStep DEF BeginRelease, InTransition, AtTransition, TransitionInv
  <2>3. /\ remoteGate' \in [Name -> Seq(Task)] /\ \A n \in Name : WaitsOnce(remoteGate'[n])
        /\ RemoteInv'
    BY <2>1, RemoteStep DEF BeginRelease, InRemote, AtRemote, Place, RemoteInv
  <2>4. /\ grantGate' \in [Grant -> Seq(Task)] /\ \A g \in Grant : WaitsOnce(grantGate'[g])
        /\ GrantInv'
    BY <2>1, GrantStep DEF BeginRelease, InGrant, AtGrant, Place, GrantInv
  <2>5. TypeOK'
    BY <2>1, <2>2, <2>3, <2>4 DEF BeginRelease, Suspend, status, owned, TypeOK
  <2>6. PlaceInv'
    BY <2>1 DEF BeginRelease, Others, status, owned, TypeOK, PlaceInv
  <2>7. NoConnectionLeaked' /\ RecordInv'
    BY <2>1 DEF BeginRelease, Others, status, owned, TypeOK, NoConnectionLeaked, RecordInv, Recorded
  <2>8. MountInv'
    <3>1. pc[p] = "draining" /\ record' = record /\ mounted' = mounted /\ saved' = saved
      BY DEF BeginRelease, owned
    <3>2. InGate(p)
      BY <3>1 DEF InGate
    <3> QED
      BY <2>1, <3>1, <3>2, RetiredMounts
  <2>9. GenerationInv'
    BY <2>1 DEF BeginRelease, Others, status, owned, TypeOK, GenerationInv, NoStaleGeneration
  <2>10. DrainInv'
    BY <2>1 DEF BeginRelease, Others, status, owned, TypeOK, DrainInv, QuietAfterShutdown
  <2> QED
    BY <2>2, <2>3, <2>4, <2>5, <2>6, <2>7, <2>8, <2>9, <2>10
<1>5. ASSUME ReleaseRemote(p) PROVE IInv'
  <2> USE <1>5
  <2>1. Place(p)' = Target[at'[p]] /\ at'[p] \in Opener /\ at'[p] \in todo[p]
    BY DEF ReleaseRemote, Place, TypeOK
  <2>2. /\ Others(p)
        /\ pc' \in [Task -> Phase] /\ pc'[p] = "gating"
        /\ at' \in [Task -> Opener \cup {Nobody}]
    BY <2>1, Goes, Zenon DEF ReleaseRemote, Phase, TypeOK
  <2>3. transition' \in Seq(Opener \cup Drainer) /\ WaitsOnce(transition') /\ TransitionInv'
    BY <2>1, <2>2, TransitionStep DEF ReleaseRemote, InTransition, AtTransition, TransitionInv
  <2>4. /\ remoteGate' \in [Name -> Seq(Task)] /\ \A n \in Name : WaitsOnce(remoteGate'[n])
        /\ RemoteInv'
    BY <2>1, <2>2, RemoteStep, Zenon DEF ReleaseRemote, InRemote, AtRemote, Place, RemoteInv,
           JoinRemote
  <2>5. /\ grantGate' \in [Grant -> Seq(Task)] /\ \A g \in Grant : WaitsOnce(grantGate'[g])
        /\ GrantInv'
    BY <2>1, <2>2, GrantStep DEF ReleaseRemote, InGrant, AtGrant, Place, GrantInv
  <2>6. TypeOK'
    BY <2>1, <2>2, <2>3, <2>4, <2>5 DEF ReleaseRemote, SuspendUnlessFree, JoinRemote, status,
           owned, TypeOK
  <2>7. PlaceInv' /\ NoConnectionLeaked' /\ RecordInv' /\ MountInv' /\ GenerationInv' /\ DrainInv'
    <3>1. /\ UNCHANGED <<closing, generation, quiet, record, connection, mounted, todo, clean>>
          /\ pc[p] = "releasing" /\ saved' = saved
          /\ credential' = credential /\ admitted' = admitted
      BY <2>1, <2>2 DEF ReleaseRemote, status, owned, TypeOK, PlaceInv
    <3> QED
      BY <2>1, <2>2, <3>1, Moves
  <2> QED
    BY <2>3, <2>4, <2>5, <2>6, <2>7
<1>6. ASSUME EnterRelease(p) PROVE IInv'
  <2> USE <1>6
  <2>1. /\ Place(p) = Target[at[p]] /\ at[p] \in Opener /\ Place(p) \in Name
        /\ Place(p)' = Place(p) /\ at'[p] = at[p]
    BY DEF EnterRelease, PlaceInv, Place, cleanup
  <2>2. /\ Others(p)
        /\ pc' \in [Task -> Phase] /\ pc'[p] = "retiring"
        /\ at' \in [Task -> Opener \cup {Nobody}]
    BY <2>1, Goes DEF EnterRelease, Phase, Withdraw, TypeOK, cleanup
  <2>3. transition' \in Seq(Opener \cup Drainer) /\ WaitsOnce(transition') /\ TransitionInv'
    BY <2>1, <2>2, TransitionStep DEF EnterRelease, InTransition, AtTransition,
           TransitionInv, Withdraw
  <2>4. /\ remoteGate' \in [Name -> Seq(Task)] /\ \A n \in Name : WaitsOnce(remoteGate'[n])
        /\ RemoteInv'
    BY <2>1, <2>2, RemoteStep DEF EnterRelease, InRemote, AtRemote, Place, RemoteInv, Withdraw
  <2>5. /\ grantGate' \in [Grant -> Seq(Task)] /\ \A g \in Grant : WaitsOnce(grantGate'[g])
        /\ GrantInv'
    BY <2>1, <2>2, GrantStep DEF EnterRelease, InGrant, AtGrant, Place, GrantInv, Withdraw
  <2>6. TypeOK'
    BY <2>1, <2>2, <2>3, <2>4, <2>5 DEF EnterRelease, Withdraw, Suspend, status, cleanup,
           TypeOK
  <2>7. PlaceInv' /\ NoConnectionLeaked' /\ RecordInv' /\ MountInv' /\ GenerationInv' /\ DrainInv'
    <3>1. /\ UNCHANGED <<closing, generation, quiet, record, connection, mounted, todo, clean>>
          /\ pc[p] = "gating" /\ saved' = saved
          /\ credential' = credential /\ admitted' = admitted
      BY <2>1, <2>2 DEF EnterRelease, Withdraw, status, cleanup, TypeOK, PlaceInv
    <3> QED
      BY <2>1, <2>2, <3>1, Moves
  <2> QED
    BY <2>3, <2>4, <2>5, <2>6, <2>7
<1>7. ASSUME ReleasedRemote(p) PROVE IInv'
  <2> USE <1>7
  <2>1. Place(p) = Target[at[p]] /\ at[p] \in Opener /\ Place(p) \in Name /\ Place(p)' = Place(p)
    BY DEF ReleasedRemote, PlaceInv, Place
  <2>2. /\ Others(p)
        /\ pc' \in [Task -> Phase] /\ pc'[p] = "releasing"
        /\ at' \in [Task -> Opener \cup {Nobody}]
    BY <2>1, Goes DEF ReleasedRemote, Phase, Retired, Closed, Unmount, TypeOK
  <2>3. transition' \in Seq(Opener \cup Drainer) /\ WaitsOnce(transition') /\ TransitionInv'
    BY <2>1, <2>2, TransitionStep DEF ReleasedRemote, InTransition, AtTransition,
           TransitionInv, Retired, Closed, Unmount
  <2>4. /\ remoteGate' \in [Name -> Seq(Task)] /\ \A n \in Name : WaitsOnce(remoteGate'[n])
        /\ RemoteInv'
    BY <2>1, <2>2, RemoteStep, Zenon DEF ReleasedRemote, InRemote, AtRemote, Place,
           RemoteInv, LeaveRemote, Retired, Closed, Unmount
  <2>5. /\ grantGate' \in [Grant -> Seq(Task)] /\ \A g \in Grant : WaitsOnce(grantGate'[g])
        /\ GrantInv'
    BY <2>1, <2>2, GrantStep DEF ReleasedRemote, InGrant, AtGrant, Place, GrantInv, Retired,
           Closed, Unmount
  <2>6. /\ InGate(p)
        /\ record' \in [Name -> Opener \cup {Nobody}]
        /\ connection' \in [Opener -> {"none", "open", "lost", "closed"}]
        /\ \A n \in Name : record'[n] \in {record[n], Nobody}
        /\ \A n \in Name : record'[n] # Nobody => Target[record'[n]] = n
        /\ \A q \in Opener : connection'[q] \in {connection[q], "closed"}
        /\ NoConnectionLeaked'
    <3>1. /\ InRemote(p) /\ Place(p) = Target[at[p]]
          /\ \E acknowledged \in BOOLEAN : Retired(Place(p), acknowledged)
      BY DEF ReleasedRemote, InRemote, Place
    <3> QED
      BY <3>1, Retires
  <2>7. TypeOK'
    BY <2>1, <2>2, <2>3, <2>4, <2>5, <2>6 DEF ReleasedRemote, Retired, Closed, Unmount,
           Suspend, status, TypeOK
  <2>8. PlaceInv'
    <3>1. credential' = credential /\ \A d \in Drainer \ {p} : todo'[d] = todo[d]
      BY DEF ReleasedRemote, TypeOK
    <3> QED
      BY <2>2, <3>1, PlaceStep DEF PlaceInv
  <2>9. NoConnectionLeaked' /\ RecordInv'
    BY <2>2, <2>6, RecordStep DEF RecordInv, Recorded
  <2>10. MountInv'
    <3>1. /\ mounted' = [mounted EXCEPT ![Place(p)] = Nobody] /\ saved' = saved
          /\ pc[p] = "retiring"
      BY <2>1 DEF ReleasedRemote, Unmount
    <3>2. mounted'[Place(p)] = Nobody
      BY <2>1, <3>1 DEF TypeOK
    <3> QED
      BY <2>2, <2>6, <3>1, <3>2, RetiredMounts, Zenon
  <2>11. GenerationInv'
    BY <2>1, <2>2, <2>6 DEF ReleasedRemote, Retired, Closed, Unmount, Others, status, TypeOK,
           GenerationInv, NoStaleGeneration
  <2>12. DrainInv'
    <3>1. PICK acknowledged \in BOOLEAN :
            /\ Retired(Place(p), acknowledged)
            /\ clean' = [clean EXCEPT ![p] = @ /\ acknowledged]
      BY <2>1, Zenon DEF ReleasedRemote
    <3>2. clean'[p] => clean[p] /\ record'[Place(p)] = Nobody
      BY <2>1, <3>1 DEF Retired, TypeOK
    <3>3. /\ quiet' = quiet /\ closing' = closing /\ pc[p] = "retiring"
          /\ todo' = [todo EXCEPT ![p] = @ \ {at[p]}]
          /\ mounted' = [mounted EXCEPT ![Place(p)] = Nobody]
      BY <2>1 DEF ReleasedRemote, Unmount, status
    <3>4. ASSUME clean'[p], NEW n \in Name, record'[n] # Nobody PROVE record'[n] \in todo'[p]
      <4>1. record'[n] = record[n] /\ Target[record'[n]] = n
        BY <2>6, <3>4
      <4>2. record[n] \in todo[p] /\ record[n] # at[p]
        BY <2>1, <3>2, <3>3, <3>4, <4>1 DEF DrainInv
      <4> QED
        BY <3>3, <4>1, <4>2 DEF TypeOK
    <3>5. /\ \A n \in Name : mounted'[n] \in {mounted[n], Nobody}
          /\ \A d \in Drainer \ {p} : todo'[d] = todo[d] /\ clean'[d] = clean[d]
      BY <3>1, <3>3 DEF TypeOK
    <3> QED
      BY <2>2, <2>6, <3>3, <3>4, <3>5, DrainStep DEF DrainInv
  <2> QED
    BY <2>3, <2>4, <2>5, <2>7, <2>8, <2>9, <2>10, <2>11, <2>12
<1>8. ASSUME EnterStop(p) PROVE IInv'
  <2> USE <1>8
  <2>1. /\ Others(p)
        /\ pc' \in [Task -> Phase] /\ pc'[p] = "draining"
        /\ at' \in [Task -> Opener \cup {Nobody}]
    BY Goes DEF EnterStop, Phase, BeginDrain, TypeOK
  <2>2. transition' \in Seq(Opener \cup Drainer) /\ WaitsOnce(transition') /\ TransitionInv'
    BY <2>1, TransitionStep DEF EnterStop, InTransition, AtTransition, TransitionInv,
           BeginDrain
  <2>3. /\ remoteGate' \in [Name -> Seq(Task)] /\ \A n \in Name : WaitsOnce(remoteGate'[n])
        /\ RemoteInv'
    BY <2>1, RemoteStep DEF EnterStop, InRemote, AtRemote, Place, RemoteInv, BeginDrain
  <2>4. /\ grantGate' \in [Grant -> Seq(Task)] /\ \A g \in Grant : WaitsOnce(grantGate'[g])
        /\ GrantInv'
    BY <2>1, GrantStep DEF EnterStop, InGrant, AtGrant, Place, GrantInv, BeginDrain
  <2>5. TypeOK'
    BY <2>1, <2>2, <2>3, <2>4 DEF EnterStop, BeginDrain, Suspend, TypeOK
  <2>6. PlaceInv'
    BY <2>1 DEF EnterStop, BeginDrain, Others, TypeOK, PlaceInv
  <2>7. NoConnectionLeaked' /\ RecordInv'
    BY <2>1 DEF EnterStop, BeginDrain, Others, TypeOK, NoConnectionLeaked, RecordInv, Recorded
  <2>8. MountInv'
    BY <2>1, MountStep, Zenon DEF EnterStop, BeginDrain, TypeOK, MountInv, PlaceInv, InGate,
           Place
  <2>9. GenerationInv'
    BY <2>1 DEF EnterStop, BeginDrain, Others, TypeOK, GenerationInv, NoStaleGeneration
  <2>10. DrainInv'
    BY <2>1 DEF EnterStop, BeginDrain, Others, TypeOK, DrainInv, QuietAfterShutdown
  <2> QED
    BY <2>2, <2>3, <2>4, <2>5, <2>6, <2>7, <2>8, <2>9, <2>10
<1>9. ASSUME Stopped(p) PROVE IInv'
  <2> USE <1>9
  <2>1. /\ Others(p)
        /\ pc' \in [Task -> Phase] /\ pc'[p] \in {"done", "failed"}
        /\ at' \in [Task -> Opener \cup {Nobody}]
    BY Goes DEF Stopped, Phase, TypeOK, cleanup
  <2>2. transition' \in Seq(Opener \cup Drainer) /\ WaitsOnce(transition') /\ TransitionInv'
    BY <2>1, TransitionStep DEF Stopped, InTransition, AtTransition, TransitionInv,
           LeaveTransition
  <2>3. /\ remoteGate' \in [Name -> Seq(Task)] /\ \A n \in Name : WaitsOnce(remoteGate'[n])
        /\ RemoteInv'
    BY <2>1, RemoteStep DEF Stopped, InRemote, AtRemote, Place, RemoteInv
  <2>4. /\ grantGate' \in [Grant -> Seq(Task)] /\ \A g \in Grant : WaitsOnce(grantGate'[g])
        /\ GrantInv'
    BY <2>1, GrantStep DEF Stopped, InGrant, AtGrant, Place, GrantInv
  <2>5. TypeOK'
    BY <2>1, <2>2, <2>3, <2>4 DEF Stopped, Suspend, owned, cleanup, TypeOK
  <2>6. PlaceInv'
    BY <2>1 DEF Stopped, Others, owned, cleanup, TypeOK, PlaceInv
  <2>7. NoConnectionLeaked' /\ RecordInv'
    BY <2>1 DEF Stopped, Others, owned, cleanup, TypeOK, NoConnectionLeaked, RecordInv, Recorded
  <2>8. MountInv'
    BY <2>1 DEF Stopped, Others, owned, cleanup, TypeOK, MountInv, MountedIsOwned, Mounter, Place
  <2>9. GenerationInv'
    BY <2>1 DEF Stopped, Others, owned, cleanup, TypeOK, GenerationInv, NoStaleGeneration
  <2>10. DrainInv'
    <3>1. /\ closing' = closing /\ record' = record /\ mounted' = mounted /\ todo' = todo
          /\ connection' = connection /\ clean' = clean /\ pc[p] = "releasing" /\ todo[p] = {}
          /\ quiet' = (quiet \/ clean[p])
      BY DEF Stopped, owned, cleanup
    <3>2. clean[p] => \A n \in Name : record[n] = Nobody
      BY <3>1 DEF DrainInv
    <3>3. clean[p] => QuietAfterShutdown'
      <4>1. ASSUME clean[p] PROVE \A n \in Name : mounted[n] = Nobody
        BY <3>2, <4>1 DEF MountInv, MountedIsOwned, TypeOK
      <4>2. ASSUME clean[p] PROVE \A q \in Opener : connection[q] \in {"none", "closed"}
        <5>1. \A q \in Opener : record[Target[q]] # q
          BY <3>2, <4>2
        <5> QED
          BY <5>1 DEF NoConnectionLeaked, TypeOK
      <4> QED
        BY <3>1, <3>2, <4>1, <4>2 DEF QuietAfterShutdown
    <3>4. QuietAfterShutdown' /\ (quiet' => closing')
      BY <3>1, <3>3, Zenon DEF DrainInv, QuietAfterShutdown
    <3> QED
      BY <2>1, <3>1, <3>4 DEF DrainInv, Others
  <2> QED
    BY <2>2, <2>3, <2>4, <2>5, <2>6, <2>7, <2>8, <2>9, <2>10
<1>10. ASSUME Stop(p) PROVE IInv'
  <2> USE <1>10
  <2>1. /\ Others(p)
        /\ pc' \in [Task -> Phase] /\ pc'[p] = "queued"
        /\ at' \in [Task -> Opener \cup {Nobody}]
    BY Goes DEF Stop, Phase, TypeOK, cleanup
  <2>2. transition' \in Seq(Opener \cup Drainer) /\ WaitsOnce(transition') /\ TransitionInv'
    BY <2>1, TransitionStep DEF Stop, InTransition, AtTransition, TransitionInv, JoinTransition
  <2>3. /\ remoteGate' \in [Name -> Seq(Task)] /\ \A n \in Name : WaitsOnce(remoteGate'[n])
        /\ RemoteInv'
    BY <2>1, RemoteStep DEF Stop, InRemote, AtRemote, Place, RemoteInv
  <2>4. /\ grantGate' \in [Grant -> Seq(Task)] /\ \A g \in Grant : WaitsOnce(grantGate'[g])
        /\ GrantInv'
    BY <2>1, GrantStep DEF Stop, InGrant, AtGrant, Place, GrantInv
  <2>5. TypeOK'
    BY <2>1, <2>2, <2>3, <2>4 DEF Stop, SuspendUnlessFree, JoinTransition, owned, cleanup,
           TypeOK
  <2>6. PlaceInv'
    BY <2>1 DEF Stop, Others, owned, cleanup, TypeOK, PlaceInv
  <2>7. NoConnectionLeaked' /\ RecordInv'
    BY <2>1 DEF Stop, Others, owned, cleanup, TypeOK, NoConnectionLeaked, RecordInv, Recorded
  <2>8. MountInv'
    BY <2>1 DEF Stop, Others, owned, cleanup, TypeOK, MountInv, MountedIsOwned, Mounter, Place
  <2>9. GenerationInv'
    BY <2>1 DEF Stop, Others, owned, cleanup, TypeOK, GenerationInv, NoStaleGeneration
  <2>10. DrainInv'
    BY <2>1 DEF Stop, Others, owned, cleanup, TypeOK, DrainInv, QuietAfterShutdown
  <2> QED
    BY <2>2, <2>3, <2>4, <2>5, <2>6, <2>7, <2>8, <2>9, <2>10
<1>11. ASSUME Initialize(p) PROVE IInv'
  <2> USE <1>11
  <2>1. /\ Others(p)
        /\ pc' \in [Task -> Phase] /\ pc'[p] = "queued"
        /\ at' \in [Task -> Opener \cup {Nobody}]
    BY Goes DEF Initialize, Phase, TypeOK, cleanup
  <2>2. transition' \in Seq(Opener \cup Drainer) /\ WaitsOnce(transition') /\ TransitionInv'
    BY <2>1, TransitionStep DEF Initialize, InTransition, AtTransition, TransitionInv,
           JoinTransition
  <2>3. /\ remoteGate' \in [Name -> Seq(Task)] /\ \A n \in Name : WaitsOnce(remoteGate'[n])
        /\ RemoteInv'
    BY <2>1, RemoteStep DEF Initialize, InRemote, AtRemote, Place, RemoteInv
  <2>4. /\ grantGate' \in [Grant -> Seq(Task)] /\ \A g \in Grant : WaitsOnce(grantGate'[g])
        /\ GrantInv'
    BY <2>1, GrantStep DEF Initialize, InGrant, AtGrant, Place, GrantInv
  <2>5. TypeOK'
    BY <2>1, <2>2, <2>3, <2>4 DEF Initialize, SuspendUnlessFree, JoinTransition, status,
           owned, cleanup, TypeOK
  <2>6. PlaceInv' /\ NoConnectionLeaked' /\ RecordInv' /\ MountInv' /\ GenerationInv' /\ DrainInv'
    <3>1. /\ UNCHANGED <<closing, generation, quiet, record, connection, mounted, todo, clean>>
          /\ pc[p] = "idle" /\ saved' = saved
          /\ credential' = credential /\ admitted' = admitted
      BY <2>1 DEF Initialize, status, owned, cleanup, TypeOK, PlaceInv
    <3> QED
      BY <2>1, <3>1, Moves
  <2> QED
    BY <2>2, <2>3, <2>4, <2>5, <2>6
<1>12. ASSUME EnterInitialize(p) PROVE IInv'
  <2> USE <1>12
  <2>1. /\ Others(p)
        /\ pc' \in [Task -> Phase] /\ pc'[p] = "draining"
        /\ at' \in [Task -> Opener \cup {Nobody}]
    BY Goes DEF EnterInitialize, Phase, BeginDrain, TypeOK
  <2>2. transition' \in Seq(Opener \cup Drainer) /\ WaitsOnce(transition') /\ TransitionInv'
    BY <2>1, TransitionStep DEF EnterInitialize, InTransition, AtTransition, TransitionInv,
           BeginDrain
  <2>3. /\ remoteGate' \in [Name -> Seq(Task)] /\ \A n \in Name : WaitsOnce(remoteGate'[n])
        /\ RemoteInv'
    BY <2>1, RemoteStep DEF EnterInitialize, InRemote, AtRemote, Place, RemoteInv, BeginDrain
  <2>4. /\ grantGate' \in [Grant -> Seq(Task)] /\ \A g \in Grant : WaitsOnce(grantGate'[g])
        /\ GrantInv'
    BY <2>1, GrantStep DEF EnterInitialize, InGrant, AtGrant, Place, GrantInv, BeginDrain
  <2>5. TypeOK'
    BY <2>1, <2>2, <2>3, <2>4 DEF EnterInitialize, BeginDrain, Suspend, TypeOK
  <2>6. PlaceInv'
    BY <2>1 DEF EnterInitialize, BeginDrain, Others, TypeOK, PlaceInv
  <2>7. NoConnectionLeaked' /\ RecordInv'
    BY <2>1 DEF EnterInitialize, BeginDrain, Others, TypeOK, NoConnectionLeaked, RecordInv, Recorded
  <2>8. MountInv'
    BY <2>1, MountStep, Zenon DEF EnterInitialize, BeginDrain, TypeOK, MountInv, PlaceInv,
           InGate, Place
  <2>9. GenerationInv'
    BY <2>1 DEF EnterInitialize, BeginDrain, Others, TypeOK, GenerationInv, NoStaleGeneration
  <2>10. DrainInv'
    BY <2>1 DEF EnterInitialize, BeginDrain, Others, TypeOK, DrainInv, QuietAfterShutdown
  <2> QED
    BY <2>2, <2>3, <2>4, <2>5, <2>6, <2>7, <2>8, <2>9, <2>10
<1>13. ASSUME InitializeLive(p) PROVE IInv'
  <2> USE <1>13
  <2>1. /\ Others(p)
        /\ pc' \in [Task -> Phase] /\ pc'[p] = "starting"
        /\ at' \in [Task -> Opener \cup {Nobody}]
    BY Goes DEF InitializeLive, Phase, TypeOK, cleanup
  <2>2. transition' \in Seq(Opener \cup Drainer) /\ WaitsOnce(transition') /\ TransitionInv'
    BY <2>1, TransitionStep DEF InitializeLive, InTransition, AtTransition, TransitionInv
  <2>3. /\ remoteGate' \in [Name -> Seq(Task)] /\ \A n \in Name : WaitsOnce(remoteGate'[n])
        /\ RemoteInv'
    BY <2>1, RemoteStep DEF InitializeLive, InRemote, AtRemote, Place, RemoteInv
  <2>4. /\ grantGate' \in [Grant -> Seq(Task)] /\ \A g \in Grant : WaitsOnce(grantGate'[g])
        /\ GrantInv'
    BY <2>1, GrantStep DEF InitializeLive, InGrant, AtGrant, Place, GrantInv
  <2>5. TypeOK'
    BY <2>1, <2>2, <2>3, <2>4 DEF InitializeLive, Suspend, status, owned, cleanup, TypeOK
  <2>6. PlaceInv' /\ NoConnectionLeaked' /\ RecordInv' /\ MountInv' /\ GenerationInv' /\ DrainInv'
    <3>1. /\ UNCHANGED <<closing, generation, quiet, record, connection, mounted, todo, clean>>
          /\ pc[p] = "queued" /\ saved' = saved
          /\ credential' = credential /\ admitted' = admitted
      BY <2>1 DEF InitializeLive, status, owned, cleanup, TypeOK, PlaceInv
    <3> QED
      BY <2>1, <3>1, Moves
  <2> QED
    BY <2>2, <2>3, <2>4, <2>5, <2>6
<1>14. ASSUME Reopen(p) PROVE IInv'
  <2> USE <1>14
  <2>1. /\ Others(p)
        /\ pc' \in [Task -> Phase] /\ pc'[p] = "starting"
        /\ at' \in [Task -> Opener \cup {Nobody}]
    BY Goes DEF Reopen, Phase, TypeOK, cleanup
  <2>2. transition' \in Seq(Opener \cup Drainer) /\ WaitsOnce(transition') /\ TransitionInv'
    BY <2>1, TransitionStep DEF Reopen, InTransition, AtTransition, TransitionInv
  <2>3. /\ remoteGate' \in [Name -> Seq(Task)] /\ \A n \in Name : WaitsOnce(remoteGate'[n])
        /\ RemoteInv'
    BY <2>1, RemoteStep DEF Reopen, InRemote, AtRemote, Place, RemoteInv
  <2>4. /\ grantGate' \in [Grant -> Seq(Task)] /\ \A g \in Grant : WaitsOnce(grantGate'[g])
        /\ GrantInv'
    BY <2>1, GrantStep DEF Reopen, InGrant, AtGrant, Place, GrantInv
  <2>5. TypeOK'
    BY <2>1, <2>2, <2>3, <2>4, Zenon DEF Reopen, Suspend, owned, cleanup, TypeOK
  <2>6. PlaceInv'
    BY <2>1 DEF Reopen, Others, owned, cleanup, TypeOK, PlaceInv
  <2>7. NoConnectionLeaked' /\ RecordInv'
    BY <2>1 DEF Reopen, Others, owned, cleanup, TypeOK, NoConnectionLeaked, RecordInv, Recorded
  <2>8. MountInv'
    BY <2>1 DEF Reopen, Others, owned, cleanup, TypeOK, MountInv, MountedIsOwned, Mounter, Place
  <2>9. GenerationInv'
    <3>1. /\ record' = record /\ mounted' = mounted /\ clean[p] /\ pc[p] = "releasing"
          /\ todo[p] = {}
      BY DEF Reopen, owned
    <3>2. \A n \in Name : record'[n] = Nobody /\ mounted'[n] = Nobody
      BY <3>1 DEF DrainInv, MountInv, MountedIsOwned
    <3>3. InTransition(p) /\ \A q \in Opener : ~InTransition(q)
      <4>1. InTransition(p)
        BY <3>1 DEF InTransition
      <4> QED
        BY <4>1, Exclusive
    <3> QED
      BY <2>1, <3>2, <3>3 DEF GenerationInv, NoStaleGeneration, Others, InTransition
  <2>10. DrainInv'
    <3>1. ~quiet' /\ pc[p] = "releasing"
      BY DEF Reopen
    <3>2. InTransition(p) /\ \A d \in Drainer \ {p} : ~InTransition(d)
      <4>1. InTransition(p)
        BY <3>1 DEF InTransition
      <4> QED
        BY <4>1, Exclusive
    <3> QED
      BY <2>1, <3>1, <3>2 DEF DrainInv, QuietAfterShutdown, Others, InTransition
  <2> QED
    BY <2>2, <2>3, <2>4, <2>5, <2>6, <2>7, <2>8, <2>9, <2>10
<1>15. ASSUME NotReopened(p) PROVE IInv'
  <2> USE <1>15
  <2>1. /\ Others(p)
        /\ pc' \in [Task -> Phase] /\ pc'[p] = "failed"
        /\ at' \in [Task -> Opener \cup {Nobody}]
    BY Goes DEF NotReopened, Phase, TypeOK, cleanup
  <2>2. transition' \in Seq(Opener \cup Drainer) /\ WaitsOnce(transition') /\ TransitionInv'
    BY <2>1, TransitionStep DEF NotReopened, InTransition, AtTransition, TransitionInv,
           LeaveTransition
  <2>3. /\ remoteGate' \in [Name -> Seq(Task)] /\ \A n \in Name : WaitsOnce(remoteGate'[n])
        /\ RemoteInv'
    BY <2>1, RemoteStep DEF NotReopened, InRemote, AtRemote, Place, RemoteInv
  <2>4. /\ grantGate' \in [Grant -> Seq(Task)] /\ \A g \in Grant : WaitsOnce(grantGate'[g])
        /\ GrantInv'
    BY <2>1, GrantStep DEF NotReopened, InGrant, AtGrant, Place, GrantInv
  <2>5. TypeOK'
    BY <2>1, <2>2, <2>3, <2>4 DEF NotReopened, Suspend, status, owned, cleanup, TypeOK
  <2>6. PlaceInv' /\ NoConnectionLeaked' /\ RecordInv' /\ MountInv' /\ GenerationInv' /\ DrainInv'
    <3>1. /\ UNCHANGED <<closing, generation, quiet, record, connection, mounted, todo, clean>>
          /\ pc[p] = "releasing" /\ saved' = saved
          /\ credential' = credential /\ admitted' = admitted
      BY <2>1 DEF NotReopened, status, owned, cleanup, TypeOK, PlaceInv
    <3> QED
      BY <2>1, <3>1, Moves
  <2> QED
    BY <2>2, <2>3, <2>4, <2>5, <2>6
<1>16. ASSUME StartHosts(p) PROVE IInv'
  <2> USE <1>16
  <2>1. /\ Others(p)
        /\ pc' \in [Task -> Phase] /\ pc'[p] \in {"done", "failed"}
        /\ at' \in [Task -> Opener \cup {Nobody}]
    BY Goes DEF StartHosts, Phase, TypeOK, cleanup
  <2>2. transition' \in Seq(Opener \cup Drainer) /\ WaitsOnce(transition') /\ TransitionInv'
    BY <2>1, TransitionStep DEF StartHosts, InTransition, AtTransition, TransitionInv,
           LeaveTransition
  <2>3. /\ remoteGate' \in [Name -> Seq(Task)] /\ \A n \in Name : WaitsOnce(remoteGate'[n])
        /\ RemoteInv'
    BY <2>1, RemoteStep DEF StartHosts, InRemote, AtRemote, Place, RemoteInv
  <2>4. /\ grantGate' \in [Grant -> Seq(Task)] /\ \A g \in Grant : WaitsOnce(grantGate'[g])
        /\ GrantInv'
    BY <2>1, GrantStep DEF StartHosts, InGrant, AtGrant, Place, GrantInv
  <2>5. TypeOK'
    BY <2>1, <2>2, <2>3, <2>4 DEF StartHosts, Suspend, status, owned, cleanup, TypeOK
  <2>6. PlaceInv' /\ NoConnectionLeaked' /\ RecordInv' /\ MountInv' /\ GenerationInv' /\ DrainInv'
    <3>1. /\ UNCHANGED <<closing, generation, quiet, record, connection, mounted, todo, clean>>
          /\ pc[p] = "starting" /\ saved' = saved
          /\ credential' = credential /\ admitted' = admitted
      BY <2>1 DEF StartHosts, status, owned, cleanup, TypeOK, PlaceInv
    <3> QED
      BY <2>1, <3>1, Moves
  <2> QED
    BY <2>2, <2>3, <2>4, <2>5, <2>6
<1> QED
  BY <1>1, <1>2, <1>3, <1>4, <1>5, <1>6, <1>7, <1>8, <1>9, <1>10, <1>11, <1>12, <1>13, <1>14,
     <1>15, <1>16
-----------------------------------------------------------------------------
(* The theorems.                                                            *)

\* The feature starts with free locks, and nothing recorded or mounted.
THEOREM InitIInv == Init => IInv
<1> SUFFICES ASSUME Init PROVE IInv
  OBVIOUS
<1> USE Kinds DEF Init
<1>1. TypeOK
  <2>1. "idle" \in Phase
    BY DEF Phase
  <2>2. WaitsOnce(<<>>) /\ <<>> \in Seq(Task) /\ <<>> \in Seq(Opener \cup Drainer)
    BY DEF WaitsOnce
  <2>3. /\ transition \in Seq(Opener \cup Drainer) /\ WaitsOnce(transition)
        /\ remoteGate \in [Name -> Seq(Task)] /\ \A n \in Name : WaitsOnce(remoteGate[n])
        /\ grantGate \in [Grant -> Seq(Task)] /\ \A g \in Grant : WaitsOnce(grantGate[g])
    BY <2>2
  <2>4. /\ pc \in [Task -> Phase] /\ saved \in [Name -> BOOLEAN]
        /\ record \in [Name -> Opener \cup {Nobody}]
        /\ mounted \in [Name -> Opener \cup {Nobody}]
        /\ credential \in [Grant -> Connector \cup {Nobody}]
        /\ at \in [Task -> Opener \cup {Nobody}]
    BY <2>1
  <2>5. /\ published \in [Opener -> BOOLEAN] /\ admitted \in [Opener -> Nat]
        /\ connection \in [Opener -> {"none", "open", "lost", "closed"}]
        /\ todo \in [Drainer -> SUBSET Opener] /\ clean \in [Drainer -> BOOLEAN]
    OBVIOUS
  <2> QED
    BY <2>3, <2>4, <2>5, Zenon DEF TypeOK
<1>2. \A x : ~Waits(x, <<>>)
  BY DEF Waits
<1>3. TransitionInv /\ RemoteInv /\ GrantInv
  BY <1>2 DEF TransitionInv, RemoteInv, GrantInv, InTransition, InRemote, InGrant
<1>4. PlaceInv /\ NoConnectionLeaked /\ RecordInv
  BY DEF PlaceInv, NoConnectionLeaked, RecordInv, Recorded
<1>5. MountInv /\ GenerationInv /\ DrainInv
  BY DEF MountInv, MountedIsOwned, GenerationInv, NoStaleGeneration, DrainInv,
         QuietAfterShutdown
<1> QED
  BY <1>1, <1>3, <1>4, <1>5 DEF IInv

\* The locks and phases stand still.
LEMMA Still ==
  ASSUME IInv, UNCHANGED <<transition, remoteGate, grantGate, pc, at, todo, clean, credential,
                           record, mounted, saved, closing, generation, admitted, quiet>>
  PROVE  /\ TransitionInv' /\ RemoteInv' /\ GrantInv' /\ PlaceInv'
         /\ RecordInv' /\ MountInv' /\ GenerationInv'
<1>1. TransitionInv' /\ RemoteInv' /\ GrantInv'
  BY DEF IInv, TransitionInv, RemoteInv, GrantInv, InTransition, AtTransition, InRemote,
         AtRemote, InGrant, AtGrant, Place
<1>2. PlaceInv' /\ RecordInv'
  BY DEF IInv, PlaceInv, RecordInv, Recorded
<1>3. MountInv' /\ GenerationInv'
  BY DEF IInv, MountInv, MountedIsOwned, Mounter, GenerationInv, NoStaleGeneration, Place
<1> QED
  BY <1>1, <1>2, <1>3

\* Every step keeps the invariant.
THEOREM StepIInv == IInv /\ [Next]_vars => IInv'
<1> SUFFICES ASSUME IInv, [Next]_vars PROVE IInv'
  OBVIOUS
<1> USE Kinds
<1>1. CASE Call
  BY <1>1, OpenerSteps, GrantSteps, UnloaderSteps, DrainerSteps DEF Call
<1>2. CASE Proceed
  <2>1. ASSUME NEW p \in Opener, OpenerStep(p) PROVE IInv'
    BY <2>1, OpenerSteps
  <2>2. ASSUME NEW p \in Connector, ConnectorStep(p) PROVE IInv'
    BY <2>2, ConnectorSteps, GrantSteps, ReachSteps DEF ConnectorStep
  <2>3. ASSUME NEW p \in Disconnector, DisconnectorStep(p) PROVE IInv'
    BY <2>3, DisconnectorSteps, GrantSteps, ReachSteps DEF DisconnectorStep
  <2>4. ASSUME NEW p \in Unloader, UnloaderStep(p) PROVE IInv'
    BY <2>4, UnloaderSteps
  <2>5. ASSUME NEW p \in Drainer, DrainerStep(p) PROVE IInv'
    BY <2>5, DrainerSteps, ReachSteps DEF DrainerStep
  <2>6. ASSUME NEW p \in Stopper, StopperStep(p) PROVE IInv'
    BY <2>5, <2>6, DrainerSteps DEF StopperStep
  <2>7. ASSUME NEW p \in Starter, StarterStep(p) PROVE IInv'
    BY <2>5, <2>7, DrainerSteps DEF StarterStep
  <2> QED
    BY <1>2, <2>1, <2>2, <2>3, <2>4, <2>6, <2>7 DEF Proceed
<1>3. ASSUME NEW p \in Opener, LoseConnection(p) PROVE IInv'
  <2>1. /\ connection[p] = "open" /\ connection' = [connection EXCEPT ![p] = "lost"]
        /\ UNCHANGED <<closing, generation, quiet, maintenance, transition, remoteGate,
                       grantGate, record, published, mounted, saved, credential, pc, admitted,
                       at, todo, clean, running>>
    BY <1>3 DEF LoseConnection, status, cleanup
  <2>2. connection' \in [Opener -> {"none", "open", "lost", "closed"}]
    BY <2>1 DEF IInv, TypeOK
  <2>3. TypeOK'
    BY <2>1, <2>2 DEF IInv, TypeOK
  <2>4. NoConnectionLeaked'
    BY <2>1 DEF IInv, NoConnectionLeaked, TypeOK
  <2>5. DrainInv'
    <3>1. ~quiet
      BY <2>1 DEF IInv, DrainInv, QuietAfterShutdown
    <3> QED
      BY <2>1, <3>1 DEF IInv, DrainInv, QuietAfterShutdown
  <2> QED
    BY <2>1, <2>3, <2>4, <2>5, Still DEF IInv
<1>4. CASE MaintenanceDies
  <2>1. /\ maintenance' = "dead"
        /\ UNCHANGED <<closing, generation, quiet, transition, remoteGate, grantGate, record,
                       published, connection, mounted, saved, credential, pc, admitted, at,
                       todo, clean, running>>
    BY <1>4 DEF MaintenanceDies, status, owned, cleanup
  <2>2. TypeOK' /\ NoConnectionLeaked' /\ DrainInv'
    BY <2>1 DEF IInv, TypeOK, NoConnectionLeaked, DrainInv, QuietAfterShutdown
  <2> QED
    BY <2>1, <2>2, Still DEF IInv
<1>5. CASE UNCHANGED vars
  <2>1. TypeOK' /\ NoConnectionLeaked' /\ DrainInv'
    BY <1>5 DEF IInv, vars, TypeOK, NoConnectionLeaked, DrainInv, QuietAfterShutdown
  <2> QED
    BY <1>5, <2>1, Still DEF IInv, vars
<1> QED
  BY <1>1, <1>2, <1>3, <1>4, <1>5 DEF Next

\* The invariant holds in every behaviour of the feature.
THEOREM Invariant == Spec => []IInv
<1> QED
  BY InitIInv, StepIInv, PTL DEF Spec

\* No task queues twice for a lock, and each name's record is of its own call.
THEOREM TypeCorrect == Spec => []TypeOK
<1>1. IInv => TypeOK
  BY DEF IInv
<1> QED
  BY Invariant, <1>1, PTL

\* No live connection is without the record that shutdown would close.
THEOREM ConnectionsAreKept == Spec => []NoConnectionLeaked
<1>1. IInv => NoConnectionLeaked
  BY DEF IInv
<1> QED
  BY Invariant, <1>1, PTL

\* A mounted tool never outlives its record or the enablement of its name.
THEOREM MountedToolsAreOwned == Spec => []MountedIsOwned
<1>1. IInv => MountedIsOwned
  BY DEF IInv, MountInv
<1> QED
  BY Invariant, <1>1, PTL

\* No load that outlives a shutdown and a reopening publishes.
THEOREM GenerationsAreCurrent == Spec => []NoStaleGeneration
<1>1. IInv => NoStaleGeneration
  BY DEF IInv, GenerationInv
<1> QED
  BY Invariant, <1>1, PTL

\* A shutdown that reported success left nothing behind, and nothing comes back.
THEOREM ShutdownsAreQuiet == Spec => []QuietAfterShutdown
<1>1. IInv => QuietAfterShutdown
  BY DEF IInv, DrainInv
<1> QED
  BY Invariant, <1>1, PTL
===============================================================================
