------------------------------ MODULE AppSession ------------------------------
(***************************************************************************)
(* What opening an App promises its two ends: the console page that has the *)
(* private result of a tool, and the untrusted View that displays it.  Each *)
(* knows the other only by messages, yet the page offers its resource once, *)
(* answers only a View that asked, and hands out the result and serves tool *)
(* calls only when that View has confirmed the answer.  The View may vanish *)
(* at any time, and the page may end the session; a new session starts from *)
(* the beginning.  AppView implements this with four message channels and a *)
(* proxy between the ends.                                                  *)
(***************************************************************************)
VARIABLES
  host,   \* how far the page went in this session
  guest,  \* how far the View came
  here    \* the View has not vanished

vars == <<host, guest, here>>

Init ==
  /\ host = "over"
  /\ guest = "absent"
  /\ here = FALSE

Open ==
  /\ host = "over"
  /\ host' = "idle"
  /\ guest' = "absent"
  /\ here' = TRUE

Offer ==
  /\ host = "idle"
  /\ host' = "offered"
  /\ UNCHANGED <<guest, here>>

Answer ==
  /\ host = "offered"
  /\ guest = "asked"
  /\ host' = "answered"
  /\ UNCHANGED <<guest, here>>

\* The View may have vanished since it confirmed; the page learns nothing of it.
Serve ==
  /\ host = "answered"
  /\ guest = "confirmed"
  /\ host' = "serving"
  /\ UNCHANGED <<guest, here>>

Advance(from, to, reached) ==
  /\ here
  /\ guest = from
  /\ host \in reached
  /\ guest' = to
  /\ UNCHANGED <<host, here>>

Progress ==
  \/ Advance("absent", "loaded", {"offered"})
  \/ Advance("loaded", "asked", {"offered"})
  \/ Advance("asked", "told", {"answered"})
  \/ Advance("told", "confirmed", {"answered"})
  \/ Advance("confirmed", "served", {"serving"})

Vanish ==
  /\ here' = FALSE
  /\ UNCHANGED <<host, guest>>

End ==
  /\ host' = "over"
  /\ guest' = "absent"
  /\ here' = FALSE

Next == Open \/ Offer \/ Answer \/ Serve \/ Progress \/ Vanish \/ End

Spec == Init /\ [][Next]_vars
===============================================================================
