--------------------------- MODULE DeliveryContract ---------------------------
(***************************************************************************)
(* What the event queue promises its callers, with no store, no            *)
(* transactions and no callers in it: an event is scheduled once, claimed  *)
(* with others by one call when its session's clock has reached it, and    *)
(* then handed out or lost with the process that claimed it.  Nothing      *)
(* comes back from any of these.  docs/runtime-event-queue.md, "Delivery   *)
(* Semantics", is the prose form.                                          *)
(***************************************************************************)
EXTENDS Integers

CONSTANTS EventIds, Sessions, Destroyable, NoSession, Time, NoTime

VARIABLES
  phase, \* how far each event has come
  home,  \* its session
  due,   \* the time it is due
  now    \* the simulation time of each session, NoTime before it has one

vars == <<phase, home, due, now>>

Phases == {"unissued", "pending", "claimed", "handed", "lost", "dropped"}

Init ==
  /\ phase = [e \in EventIds |-> "unissued"]
  /\ home  = [e \in EventIds |-> NoSession]
  /\ due   = [e \in EventIds |-> NoTime]
  /\ now   = [s \in Sessions |-> NoTime]

All(batch, p) == \A e \in batch : phase[e] = p

Become(batch, p) == phase' = [e \in EventIds |-> IF e \in batch THEN p ELSE phase[e]]

Put(e, s, t) ==
  /\ phase[e] = "unissued"
  /\ phase' = [phase EXCEPT ![e] = "pending"]
  /\ home'  = [home EXCEPT ![e] = s]
  /\ due'   = [due EXCEPT ![e] = t]
  /\ UNCHANGED now

(* Time only moves forward while the session lives.                         *)
Advance(s, t) ==
  /\ t > now[s]
  /\ now' = [now EXCEPT ![s] = t]
  /\ UNCHANGED <<phase, home, due>>

(* A batch is claimed whole, for one session, and only what is due.  A call *)
(* that overlaps the destruction of its session is let off the last part:   *)
(* its clock value is that of the session destroyed.                        *)
Claim(s, batch) ==
  /\ All(batch, "pending")
  /\ \A e \in batch : home[e] = s /\ (due[e] <= now[s] \/ s \in Destroyable)
  /\ Become(batch, "claimed")
  /\ UNCHANGED <<home, due, now>>

HandOut(batch) ==
  /\ All(batch, "claimed")
  /\ Become(batch, "handed")
  /\ UNCHANGED <<home, due, now>>

Lose(batch) ==
  /\ All(batch, "claimed")
  /\ Become(batch, "lost")
  /\ UNCHANGED <<home, due, now>>

(* Destroying a session drops what was never claimed and ends its clock.    *)
Destroy(s) ==
  /\ s \in Destroyable
  /\ Become({e \in EventIds : home[e] = s /\ phase[e] = "pending"}, "dropped")
  /\ now' = [now EXCEPT ![s] = NoTime]
  /\ UNCHANGED <<home, due>>

Next ==
  \/ \E e \in EventIds, s \in Sessions, t \in Time : Put(e, s, t)
  \/ \E s \in Sessions, t \in Time : Advance(s, t)
  \/ \E s \in Sessions : Destroy(s)
  \/ \E batch \in SUBSET EventIds :
       \/ \E s \in Sessions : Claim(s, batch)
       \/ HandOut(batch)
       \/ Lose(batch)

Spec == Init /\ [][Next]_vars
=============================================================================
