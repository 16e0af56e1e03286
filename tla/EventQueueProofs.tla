---------------------------- MODULE EventQueueProofs ----------------------------
(***************************************************************************)
(* What holds of the event queue for any sessions, callers, events and     *)
(* bounds.                                                                 *)
(***************************************************************************)
EXTENDS EventQueue, TLAPS

(* The types, one lemma for the steps.                                      *)

(* The initial state is well typed.                                        *)
LEMMA InitTypeOK == Init => TypeOK
BY QueueAssumption DEF Init, TypeOK, Time, NoTime, NoRow, Row, Statuses, Modes,
   NoCall, Call, Ops, Points

(* A call that moves to a point with typed locals keeps pc and call typed.  *)
LEMMA GotoType ==
  ASSUME pc \in [Clients -> Points], call \in [Clients -> Call],
         NEW c \in Clients, NEW point \in Points, NEW locals \in Call,
         Goto(c, point, locals)
  PROVE  pc' \in [Clients -> Points] /\ call' \in [Clients -> Call]
BY DEF Goto

(* Ending a call keeps pc and call typed.                                   *)
LEMMA DoneType ==
  ASSUME pc \in [Clients -> Points], call \in [Clients -> Call],
         NEW c \in Clients, Done(c)
  PROVE  pc' \in [Clients -> Points] /\ call' \in [Clients -> Call]
<1>1. NoCall \in Call /\ "idle" \in Points
  BY DEF NoCall, Call, Ops, Modes, Points
<1> QED
  BY <1>1, GotoType DEF Done

(* Every step keeps the state well typed.                                   *)
LEMMA NextTypeOK == TypeOK /\ [Next]_vars => TypeOK'
<1> SUFFICES ASSUME TypeOK, [Next]_vars PROVE TypeOK'
  OBVIOUS
<1> USE QueueAssumption
<1>a. /\ pc \in [Clients -> Points] /\ call \in [Clients -> Call]
      /\ event \in [EventIds -> Row]
  BY DEF TypeOK
<1>1. CASE Tick
  BY <1>1 DEF TypeOK, Tick, history, Time
<1>2. ASSUME NEW s \in Sessions, CreateSession(s)
      PROVE  TypeOK'
  BY <1>2 DEF TypeOK, CreateSession, history
<1>3. ASSUME NEW s \in Sessions, DeleteSession(s)
      PROVE  TypeOK'
  <2>1. event' \in [EventIds -> Row]
    BY <1>3, <1>a DEF DeleteSession, Row, Statuses
  <2> QED
    BY <1>3, <2>1 DEF TypeOK, DeleteSession, history
<1>4. ASSUME NEW c \in Clients, NEW s \in Sessions, Schedule(c, s)
      PROVE  TypeOK'
  <2>1. [NoCall EXCEPT !.op = "schedule", !.session = s] \in Call /\ "insert" \in Points
    BY DEF NoCall, Call, Ops, Modes, Points
  <2>2. pc' \in [Clients -> Points] /\ call' \in [Clients -> Call]
    BY <1>4, <1>a, <2>1, GotoType DEF Schedule
  <2> QED
    BY <1>4, <2>2 DEF TypeOK, Schedule, store, history
<1>5. ASSUME NEW c \in Clients, NEW s \in Sessions, ReadClock(c, s)
      PROVE  TypeOK'
  <2>1. clock[s] \in Time
    BY <1>5 DEF TypeOK, ReadClock
  <2>2. /\ [NoCall EXCEPT !.op = "pull", !.session = s,
                          !.mode = "pull", !.bound = clock[s]] \in Call
        /\ "list" \in Points
    BY <2>1 DEF NoCall, Call, Ops, Modes, Points
  <2>3. pc' \in [Clients -> Points] /\ call' \in [Clients -> Call]
    BY <1>5, <1>a, <2>2, GotoType DEF ReadClock
  <2> QED
    BY <1>5, <2>3 DEF TypeOK, ReadClock, store, history
<1>6. ASSUME NEW c \in Clients, NEW s \in Sessions, NEW op \in {"now", "pull"},
             MissClock(c, s, op)
      PROVE  TypeOK'
  <2>1. /\ [NoCall EXCEPT !.op = op, !.session = s, !.mode = "pull"] \in Call
        /\ "ensure" \in Points
    BY DEF NoCall, Call, Ops, Modes, Points
  <2>2. pc' \in [Clients -> Points] /\ call' \in [Clients -> Call]
    BY <1>6, <1>a, <2>1, GotoType DEF MissClock
  <2> QED
    BY <1>6, <2>2 DEF TypeOK, MissClock, store, history
<1>7. ASSUME NEW c \in Clients, NEW s \in Sessions, NEW by \in Durations,
             AdvanceClock(c, s, by)
      PROVE  TypeOK'
  <2> DEFINE advanced == ClockOr(s, wall) + by
  <2>1. by \in Int
    OBVIOUS
  <2>2. ClockOr(s, wall) \in Time
    BY DEF TypeOK, ClockOr
  <2>3. advanced \in Time
    BY <1>7, <2>1, <2>2 DEF AdvanceClock, Time
  <2>4. /\ [NoCall EXCEPT !.op = "advance", !.session = s,
                          !.mode = "push", !.bound = advanced] \in Call
        /\ "list" \in Points
    BY <2>3 DEF NoCall, Call, Ops, Modes, Points
  <2>5. pc' \in [Clients -> Points] /\ call' \in [Clients -> Call]
    BY <1>7, <1>a, <2>4, GotoType DEF AdvanceClock
  <2>6. clock' \in [Sessions -> Time \cup {NoTime}]
    BY <1>7, <2>3 DEF TypeOK, AdvanceClock
  <2> QED
    BY <1>7, <2>5, <2>6 DEF TypeOK, AdvanceClock, history
<1>8. ASSUME NEW c \in Clients, NEW e \in EventIds, NEW mode \in Modes, NEW due \in Time,
             InsertEvent(c, e, mode, due)
      PROVE  TypeOK'
  <2>1. pc' \in [Clients -> Points] /\ call' \in [Clients -> Call]
    BY <1>8, <1>a, DoneType DEF InsertEvent
  <2>2. call[c].session \in Sessions \cup {NoSession}
    BY <1>a DEF Call
  <2>3. event' \in [EventIds -> Row]
    BY <1>8, <1>a, <2>2 DEF InsertEvent, Row, Statuses
  <2> QED
    BY <1>8, <2>1, <2>3 DEF TypeOK, InsertEvent, history
<1>9. ASSUME NEW c \in Clients, EnsureClock(c)
      PROVE  TypeOK'
  <2> DEFINE s == call[c].session
  <2>1. s \in Sessions
    BY <1>9 DEF TypeOK, EnsureClock
  <2>2. ClockOr(s, wall) \in Time
    BY <2>1 DEF TypeOK, ClockOr
  <2>3. clock' \in [Sessions -> Time \cup {NoTime}]
    BY <1>9, <2>2 DEF TypeOK, EnsureClock
  <2>4. [call[c] EXCEPT !.bound = ClockOr(s, wall)] \in Call /\ "list" \in Points
    BY <1>a, <2>2 DEF Call, Points
  <2>5. pc' \in [Clients -> Points] /\ call' \in [Clients -> Call]
    BY <1>9, <1>a, <2>4, GotoType, DoneType DEF EnsureClock
  <2> QED
    BY <1>9, <2>3, <2>5 DEF TypeOK, EnsureClock, history
<1>10. ASSUME NEW c \in Clients, ListDue(c)
       PROVE  TypeOK'
  <2> DEFINE due == DueAt(call[c].session, call[c].mode, call[c].bound)
  <2>1. due \subseteq EventIds
    BY DEF DueAt
  <2>2. [call[c] EXCEPT !.batch = due] \in Call /\ "mark" \in Points
    BY <1>a, <2>1 DEF Call, Points
  <2>3. pc' \in [Clients -> Points] /\ call' \in [Clients -> Call]
    BY <1>10, <1>a, <2>2, GotoType, DoneType DEF ListDue
  <2> QED
    BY <1>10, <2>3 DEF TypeOK, ListDue, store, history
<1>11. ASSUME NEW c \in Clients, MarkDelivered(c)
       PROVE  TypeOK'
  <2>1. call[c] \in Call /\ "return" \in Points
    BY <1>a DEF Points
  <2>2. pc' \in [Clients -> Points] /\ call' \in [Clients -> Call]
    BY <1>11, <1>a, <2>1, GotoType DEF MarkDelivered
  <2>3. call[c].bound \in Time \cup {NoTime}
    BY <2>1 DEF Call
  <2>4. ASSUME NEW e \in EventIds
        PROVE  [event[e] EXCEPT !.status = "delivered", !.at = call[c].bound] \in Row
    BY <1>a, <2>3 DEF Row, Statuses
  <2>5. event' \in [EventIds -> Row]
    BY <1>11, <1>a, <2>4 DEF MarkDelivered
  <2> QED
    BY <1>11, <2>2, <2>5 DEF TypeOK, MarkDelivered, history
<1>12. ASSUME NEW c \in Clients, MarkConflict(c)
       PROVE  TypeOK'
  <2>1. pc' \in [Clients -> Points] /\ call' \in [Clients -> Call]
    BY <1>12, <1>a, DoneType DEF MarkConflict
  <2> QED
    BY <1>12, <2>1 DEF TypeOK, MarkConflict, store, history
<1>13. ASSUME NEW c \in Clients, Return(c)
       PROVE  TypeOK'
  <2>1. pc' \in [Clients -> Points] /\ call' \in [Clients -> Call]
    BY <1>13, <1>a, DoneType DEF Return
  <2>2. handed' \in [EventIds -> Nat]
    BY <1>13 DEF TypeOK, Return
  <2> QED
    BY <1>13, <2>1, <2>2 DEF TypeOK, Return, store
<1>14. ASSUME NEW c \in Clients, Fail(c)
       PROVE  TypeOK'
  <2>1. pc' \in [Clients -> Points] /\ call' \in [Clients -> Call]
    BY <1>14, <1>a, DoneType DEF Fail
  <2> QED
    BY <1>14, <2>1 DEF TypeOK, Fail, store, history
<1>15. ASSUME NEW c \in Clients, Crash(c)
       PROVE  TypeOK'
  <2>1. pc' \in [Clients -> Points] /\ call' \in [Clients -> Call]
    BY <1>15, <1>a, DoneType DEF Crash
  <2>2. lost' \subseteq EventIds
    BY <1>15, <1>a DEF TypeOK, Crash, Call
  <2> QED
    BY <1>15, <2>1, <2>2 DEF TypeOK, Crash, store
<1>16. CASE UNCHANGED vars
  BY <1>16 DEF TypeOK, vars
<1> QED
  BY <1>1, <1>2, <1>3, <1>4, <1>5, <1>6, <1>7, <1>8, <1>9, <1>10, <1>11, <1>12,
     <1>13, <1>14, <1>15, <1>16 DEF Next

(* The state stays well typed.                                              *)
THEOREM TypeCorrect == Spec => []TypeOK
BY InitTypeOK, NextTypeOK, PTL DEF Spec

-----------------------------------------------------------------------------
(* Who has an event.  AtMostOnce and NoSilentDelivery are not inductive by  *)
(* themselves: that a claimed event no longer looks pending keeps a second  *)
(* call from claiming it.                                                   *)

Claimed(e) == handed[e] > 0 \/ e \in lost \/ \E c \in Clients : InFlight(c, e)

ClaimedNotPending ==
  \A e \in EventIds : Claimed(e) => event[e].status \in {"delivered", "deleted"}

DeliveryInv == AtMostOnce /\ NoSilentDelivery /\ ClaimedNotPending

(* Steps that leave rows and histories alone, and no call in or out of      *)
(* "return".                                                                *)
Quiet ==
  /\ UNCHANGED <<event, handed, lost>>
  /\ \A c \in Clients, e \in EventIds : InFlight(c, e)' <=> InFlight(c, e)

(* Steps that touch no delivery keep the delivery invariant.                *)
LEMMA QuietKeeps == DeliveryInv /\ Quiet => DeliveryInv'
BY DEF DeliveryInv, Quiet, AtMostOnce, NoSilentDelivery, ClaimedNotPending, Claimed

(* A call that moves between two points other than "return".                *)
LEMMA GotoQuiet ==
  ASSUME pc \in [Clients -> Points], call \in [Clients -> Call],
         NEW c \in Clients, NEW point, NEW locals,
         Goto(c, point, locals), pc[c] # "return", point # "return"
  PROVE  \A d \in Clients, e \in EventIds : InFlight(d, e)' <=> InFlight(d, e)
BY DEF Goto, InFlight, At

(* Every step but the ones named here is quiet.                             *)
LEMMA QuietSteps ==
  ASSUME TypeOK, [Next]_vars
  PROVE  \/ Quiet
         \/ \E s \in Sessions : DeleteSession(s)
         \/ \E c \in Clients :
              \/ \E e \in EventIds, mode \in Modes, due \in Time : InsertEvent(c, e, mode, due)
              \/ MarkDelivered(c) \/ Return(c) \/ Crash(c)
<1>a. pc \in [Clients -> Points] /\ call \in [Clients -> Call]
  BY DEF TypeOK
<1>1. ASSUME Tick \/ (\E s \in Sessions : CreateSession(s)) \/ UNCHANGED vars
      PROVE  Quiet
  BY <1>1 DEF Tick, CreateSession, vars, history, Quiet, InFlight, At
<1>2. ASSUME NEW c \in Clients, NEW s \in Sessions,
             \/ Schedule(c, s)
             \/ ReadClock(c, s)
             \/ \E op \in {"now", "pull"} : MissClock(c, s, op)
             \/ \E by \in Durations : AdvanceClock(c, s, by)
      PROVE  Quiet
  <2>1. UNCHANGED <<event, handed, lost>> /\ pc[c] = "idle"
    BY <1>2 DEF Schedule, ReadClock, MissClock, AdvanceClock, store, history, At
  <2>2. \E point \in {"insert", "list", "ensure"} : \E locals : Goto(c, point, locals)
    BY <1>2 DEF Schedule, ReadClock, MissClock, AdvanceClock
  <2> QED
    BY <1>a, <2>1, <2>2, GotoQuiet DEF Quiet
<1>3. ASSUME NEW c \in Clients,
             EnsureClock(c) \/ ListDue(c) \/ MarkConflict(c) \/ Fail(c)
      PROVE  Quiet
  <2>1. UNCHANGED <<event, handed, lost>> /\ pc[c] \in {"insert", "ensure", "list", "mark"}
    BY <1>3 DEF EnsureClock, ListDue, MarkConflict, Fail, store, history, At
  <2>2. \E point \in {"idle", "list", "mark"} : \E locals : Goto(c, point, locals)
    BY <1>3 DEF EnsureClock, ListDue, MarkConflict, Fail, Done
  <2> QED
    BY <1>a, <2>1, <2>2, GotoQuiet DEF Quiet
<1> QED
  BY <1>1, <1>2, <1>3 DEF Next

(* Every step keeps the delivery invariant.                                 *)
LEMMA NextDeliveryInv == TypeOK /\ DeliveryInv /\ [Next]_vars => DeliveryInv'
<1> SUFFICES ASSUME TypeOK, DeliveryInv, [Next]_vars PROVE DeliveryInv'
  OBVIOUS
<1>a. /\ pc \in [Clients -> Points] /\ call \in [Clients -> Call]
      /\ event \in [EventIds -> Row] /\ handed \in [EventIds -> Nat]
  BY DEF TypeOK
<1>b. AtMostOnce /\ NoSilentDelivery /\ ClaimedNotPending
  BY DEF DeliveryInv
<1>1. CASE Quiet
  BY <1>1, QuietKeeps
<1>2. ASSUME NEW s \in Sessions, DeleteSession(s)
      PROVE  DeliveryInv'
  <2>1. /\ UNCHANGED <<pc, call, handed, lost>>
        /\ \A c \in Clients, e \in EventIds : InFlight(c, e)' <=> InFlight(c, e)
    BY <1>2 DEF DeleteSession, history, InFlight, At
  <2>2. \A e \in EventIds : event'[e] = event[e] \/ event'[e].status = "deleted"
    BY <1>2, <1>a DEF DeleteSession, Row
  <2> QED
    BY <1>b, <2>1, <2>2 DEF DeliveryInv, AtMostOnce, NoSilentDelivery, ClaimedNotPending, Claimed
<1>3. ASSUME NEW c \in Clients, NEW e \in EventIds, NEW mode \in Modes, NEW due \in Time,
             InsertEvent(c, e, mode, due)
      PROVE  DeliveryInv'
  <2>1. \A d \in Clients, f \in EventIds : InFlight(d, f)' <=> InFlight(d, f)
    BY <1>3, <1>a, GotoQuiet DEF InsertEvent, Done, At
  <2>2. UNCHANGED <<handed, lost>>
    BY <1>3 DEF InsertEvent, history
  <2>3. /\ event[e].status = "unissued" /\ event'[e].status = "pending"
        /\ \A f \in EventIds \ {e} : event'[f] = event[f]
    BY <1>3, <1>a DEF InsertEvent
  <2>4. ~Claimed(e)
    BY <1>b, <2>3 DEF ClaimedNotPending
  <2> QED
    BY <1>b, <2>1, <2>2, <2>3, <2>4
    DEF DeliveryInv, AtMostOnce, NoSilentDelivery, ClaimedNotPending, Claimed
<1>4. ASSUME NEW c \in Clients, MarkDelivered(c)
      PROVE  DeliveryInv'
  <2> DEFINE batch == call[c].batch
  <2>1. batch \subseteq EventIds /\ UNCHANGED <<handed, lost>>
    BY <1>4, <1>a DEF MarkDelivered, Call, history
  <2>2. \A e \in batch : ~Claimed(e)
    BY <1>4, <1>b, <2>1 DEF MarkDelivered, StillPending, ClaimedNotPending
  <2>3. \A e \in EventIds : IF e \in batch THEN event'[e].status = "delivered"
                                         ELSE event'[e] = event[e]
    BY <1>4, <1>a DEF MarkDelivered, Row
  <2>4. \A d \in Clients, e \in EventIds :
          InFlight(d, e)' <=> InFlight(d, e) \/ (d = c /\ e \in batch)
    BY <1>4, <1>a DEF MarkDelivered, Goto, InFlight, At
  <2> QED
    BY <1>a, <1>b, <2>1, <2>2, <2>3, <2>4
    DEF DeliveryInv, AtMostOnce, NoSilentDelivery, ClaimedNotPending, Claimed
<1>5. ASSUME NEW c \in Clients, Return(c)
      PROVE  DeliveryInv'
  <2> DEFINE batch == call[c].batch
  <2>1. \A e \in EventIds : InFlight(c, e) <=> e \in batch
    BY <1>5 DEF Return, InFlight, At
  <2>2. UNCHANGED <<event, lost>>
    BY <1>5 DEF Return, store
  <2>3. \A d \in Clients, e \in EventIds : InFlight(d, e)' <=> InFlight(d, e) /\ d # c
    BY <1>5, <1>a DEF Return, Done, Goto, InFlight, At
  <2>4. \A e \in EventIds : IF e \in batch THEN handed[e] = 0 /\ handed'[e] = 1
                                         ELSE handed'[e] = handed[e]
    BY <1>5, <1>a, <1>b, <2>1 DEF Return, AtMostOnce
  <2> QED
    BY <1>a, <1>b, <2>1, <2>2, <2>3, <2>4
    DEF DeliveryInv, AtMostOnce, NoSilentDelivery, ClaimedNotPending, Claimed
<1>6. ASSUME NEW c \in Clients, Crash(c)
      PROVE  DeliveryInv'
  <2> DEFINE batch == call[c].batch
  <2>1. \A e \in EventIds : InFlight(c, e) <=> e \in batch
    BY <1>6 DEF Crash, InFlight, At
  <2>2. UNCHANGED <<event, handed>> /\ lost' = lost \cup batch
    BY <1>6 DEF Crash, store
  <2>3. \A d \in Clients, e \in EventIds : InFlight(d, e)' <=> InFlight(d, e) /\ d # c
    BY <1>6, <1>a DEF Crash, Done, Goto, InFlight, At
  <2> QED
    BY <1>a, <1>b, <2>1, <2>2, <2>3
    DEF DeliveryInv, AtMostOnce, NoSilentDelivery, ClaimedNotPending, Claimed
<1> QED
  BY <1>1, <1>2, <1>3, <1>4, <1>5, <1>6, QuietSteps

(* It holds at the start.                                                   *)
LEMMA InitDeliveryInv == Init => DeliveryInv
BY DEF Init, DeliveryInv, AtMostOnce, NoSilentDelivery, ClaimedNotPending, Claimed,
   InFlight, At, NoRow

(* And so in every reachable state.                                         *)
LEMMA DeliveryInvariant == Spec => []DeliveryInv
<1>1. TypeOK /\ DeliveryInv /\ [Next]_vars => DeliveryInv'
  BY NextDeliveryInv
<1> QED
  BY <1>1, InitDeliveryInv, TypeCorrect, PTL DEF Spec

(* Whatever the number of callers and the interleaving of their             *)
(* transactions, no event is returned by two calls.                         *)
THEOREM DeliveredAtMostOnce == Spec => []AtMostOnce
<1>1. DeliveryInv => AtMostOnce
  BY DEF DeliveryInv
<1> QED
  BY <1>1, DeliveryInvariant, PTL

(* A row marked delivered is accounted for: returned, about to be, or lost  *)
(* with the process that marked it.                                         *)
THEOREM NeverDeliveredSilently == Spec => []NoSilentDelivery
<1>1. DeliveryInv => NoSilentDelivery
  BY DEF DeliveryInv
<1> QED
  BY <1>1, DeliveryInvariant, PTL

-----------------------------------------------------------------------------
(* What one step does to a clock and to a row.                              *)

(* No step moves the clock of a live session back.                          *)
LEMMA ClockStep ==
  ASSUME TypeOK, [Next]_vars, NEW s \in Sessions
  PROVE  clock'[s] >= clock[s] \/ (s \in Destroyable /\ s \in sessions /\ s \notin sessions')
<1> USE QueueAssumption
<1>a. clock[s] \in Int /\ clock[s] >= NoTime /\ wall \in Time
  BY DEF TypeOK, Time, NoTime
<1>1. CASE clock' = clock
  BY <1>1, <1>a
<1>2. ASSUME NEW t \in Sessions, DeleteSession(t)
      PROVE  clock'[s] >= clock[s] \/ (s \in Destroyable /\ s \in sessions /\ s \notin sessions')
  BY <1>2, <1>a DEF DeleteSession, TypeOK
<1>3. ASSUME NEW c \in Clients, NEW t \in Sessions, NEW by \in Durations,
             AdvanceClock(c, t, by)
      PROVE  clock'[s] >= clock[s]
  BY <1>3, <1>a DEF AdvanceClock, ClockOr, TypeOK, Time, NoTime
<1>4. ASSUME NEW c \in Clients, EnsureClock(c)
      PROVE  clock'[s] >= clock[s]
  BY <1>4, <1>a DEF EnsureClock, ClockOr, TypeOK, Time, NoTime
<1>5. \/ clock' = clock
      \/ \E t \in Sessions : DeleteSession(t)
      \/ \E c \in Clients, t \in Sessions, by \in Durations : AdvanceClock(c, t, by)
      \/ \E c \in Clients : EnsureClock(c)
  BY DEF Next, vars, store, history, Tick, CreateSession, Schedule, InsertEvent, ReadClock,
     MissClock, ListDue, MarkDelivered, MarkConflict, Return, Fail, Crash
<1> QED
  BY <1>1, <1>2, <1>3, <1>4, <1>5

(* A row keeps its session, mode and due time once it is issued, never      *)
(* becomes unissued again, and leaves delivered only for deleted.           *)
RowKept(e) ==
  /\ event'[e].status # "unissued"
  /\ event'[e].session = event[e].session
  /\ event'[e].due = event[e].due
  /\ event[e].status = "delivered" => event'[e].status = "deleted" \/ event'[e] = event[e]

(* No step changes a delivered row other than by deleting it.               *)
LEMMA RowStep ==
  ASSUME TypeOK, [Next]_vars, NEW e \in EventIds, event[e].status # "unissued"
  PROVE  RowKept(e)
<1>a. event \in [EventIds -> Row] /\ call \in [Clients -> Call]
  BY DEF TypeOK
<1>1. CASE event' = event
  BY <1>1 DEF RowKept
<1>2. ASSUME NEW s \in Sessions, DeleteSession(s)
      PROVE  RowKept(e)
  BY <1>2, <1>a DEF DeleteSession, Row, RowKept
<1>3. ASSUME NEW c \in Clients, NEW f \in EventIds, NEW mode \in Modes, NEW due \in Time,
             InsertEvent(c, f, mode, due)
      PROVE  RowKept(e)
  BY <1>3, <1>a DEF InsertEvent, RowKept
<1>4. ASSUME NEW c \in Clients, MarkDelivered(c)
      PROVE  RowKept(e)
  <2>1. CASE e \in call[c].batch
    BY <1>4, <1>a, <2>1 DEF MarkDelivered, StillPending, Row, RowKept
  <2>2. CASE e \notin call[c].batch
    BY <1>4, <1>a, <2>2 DEF MarkDelivered, RowKept
  <2> QED
    BY <2>1, <2>2
<1>5. \/ event' = event
      \/ \E s \in Sessions : DeleteSession(s)
      \/ \E c \in Clients, f \in EventIds, mode \in Modes, due \in Time :
           InsertEvent(c, f, mode, due)
      \/ \E c \in Clients : MarkDelivered(c)
  BY DEF Next, vars, store, history, Tick, CreateSession, Schedule, AdvanceClock, EnsureClock,
     ReadClock, MissClock, ListDue, MarkConflict, Return, Fail, Crash
<1> QED
  BY <1>1, <1>2, <1>3, <1>4, <1>5

(* No session's clock goes back while the session exists, whoever creates   *)
(* and advances it at the same time.                                        *)
THEOREM ClockNeverBack == Spec => ClockForward
<1>1. TypeOK /\ [Next]_vars =>
        [\A s \in Sessions : s \in sessions /\ s \in sessions' => clock'[s] >= clock[s]]_vars
  BY ClockStep
<1> QED
  BY <1>1, TypeCorrect, PTL DEF Spec, ClockForward

(* A delivered row never becomes pending again and keeps its delivery time  *)
(* until it is deleted with its session.                                    *)
THEOREM DeliveredStaysDelivered == Spec => DeliveredIsFinal
<1>1. ASSUME TypeOK, [Next]_vars, NEW e \in EventIds, event[e].status = "delivered"
      PROVE  event'[e].status = "deleted" \/ event'[e] = event[e]
  BY <1>1, RowStep DEF RowKept
<1>2. TypeOK /\ [Next]_vars =>
        [\A e \in EventIds : event[e].status = "delivered" =>
            event'[e].status = "deleted" \/ event'[e] = event[e]]_vars
  BY <1>1
<1> QED
  BY <1>2, TypeCorrect, PTL DEF Spec, DeliveredIsFinal

-----------------------------------------------------------------------------
(* When it is delivered.  A call works with the clock value of its first    *)
(* transaction: the value stays at or behind the clock of a session that is *)
(* not destroyed, and everything the call listed was due at it.             *)

Working(c) == pc[c] \in {"list", "mark", "return"}

CallInv ==
  \A c \in Clients :
    /\ Working(c) =>
         /\ call[c].session \in Sessions
         /\ call[c].bound \in Time
         /\ call[c].session \notin Destroyable => call[c].bound <= clock[call[c].session]
    /\ At(c, "mark") =>
         \A e \in call[c].batch : event[e].status # "unissued" /\ event[e].due <= call[c].bound

DeliveredHasSession ==
  \A e \in EventIds : event[e].status = "delivered" => event[e].session \in Sessions

DueInv == CallInv /\ DeliveredHasSession /\ DeliveredWhenDue

(* The invariant of due times holds at the start.                           *)
LEMMA InitDueInv == Init => DueInv
BY DEF Init, DueInv, CallInv, Working, At, DeliveredHasSession, DeliveredWhenDue, NoRow

(* Every step keeps it.                                                     *)
LEMMA NextDueInv == TypeOK /\ DueInv /\ [Next]_vars => DueInv'
<1> SUFFICES ASSUME TypeOK, DueInv, [Next]_vars PROVE DueInv'
  OBVIOUS
<1> USE QueueAssumption
<1>a. /\ pc \in [Clients -> Points] /\ call \in [Clients -> Call]
      /\ event \in [EventIds -> Row] /\ clock \in [Sessions -> Time \cup {NoTime}]
      /\ wall \in Time
  BY DEF TypeOK
<1>b. TypeOK'
  BY NextTypeOK
<1>c. CallInv /\ DeliveredHasSession /\ DeliveredWhenDue
  BY DEF DueInv
<1>d. \A s \in Sessions \ Destroyable : clock'[s] >= clock[s]
  BY ClockStep
<1>e. \A e \in EventIds : event[e].status # "unissued" => RowKept(e)
  BY RowStep
(* A call that stays where it is keeps its part of CallInv.                 *)
<1>1. ASSUME NEW c \in Clients, pc'[c] = pc[c], call'[c] = call[c]
      PROVE  /\ Working(c)' =>
                  /\ call'[c].session \in Sessions
                  /\ call'[c].bound \in Time
                  /\ call'[c].session \notin Destroyable => call'[c].bound <= clock'[call'[c].session]
             /\ At(c, "mark")' =>
                  \A e \in call'[c].batch :
                    event'[e].status # "unissued" /\ event'[e].due <= call'[c].bound
  <2>1. ASSUME Working(c)', call'[c].session \notin Destroyable
        PROVE  call'[c].bound <= clock'[call'[c].session]
    <3>1. /\ call[c].session \in Sessions \ Destroyable /\ call[c].bound \in Time
          /\ call[c].bound <= clock[call[c].session]
      BY <1>1, <1>c, <2>1 DEF CallInv, Working
    <3> QED
      BY <1>1, <1>a, <1>b, <1>d, <3>1 DEF TypeOK, Time, NoTime
  <2>2. ASSUME At(c, "mark")', NEW e \in call'[c].batch
        PROVE  event'[e].status # "unissued" /\ event'[e].due <= call'[c].bound
    <3>1. /\ e \in EventIds
          /\ event[e].status # "unissued" /\ event[e].due <= call[c].bound
      BY <1>1, <1>a, <1>c, <2>2 DEF CallInv, At, Call
    <3> QED
      BY <1>1, <1>e, <3>1 DEF RowKept
  <2> QED
    BY <1>1, <1>c, <2>1, <2>2 DEF CallInv, Working
(* A call that ends has no part of CallInv to keep.                         *)
<1>2. ASSUME NEW c \in Clients, pc'[c] \in {"idle", "insert", "ensure"}
      PROVE  ~Working(c)' /\ ~At(c, "mark")'
  BY <1>2 DEF Working, At
<1>3. CallInv'
  <2> SUFFICES ASSUME NEW c \in Clients
               PROVE  /\ Working(c)' =>
                           /\ call'[c].session \in Sessions
                           /\ call'[c].bound \in Time
                           /\ call'[c].session \notin Destroyable =>
                                call'[c].bound <= clock'[call'[c].session]
                      /\ At(c, "mark")' =>
                           \A e \in call'[c].batch :
                             event'[e].status # "unissued" /\ event'[e].due <= call'[c].bound
    BY DEF CallInv, Working, At
  <2>1. CASE pc'[c] = pc[c] /\ call'[c] = call[c]
    BY <1>1, <2>1
  <2>2. CASE pc'[c] \in {"idle", "insert", "ensure"}
    BY <1>2, <2>2
  <2>3. ASSUME NEW s \in Sessions, ReadClock(c, s)
        PROVE  /\ pc'[c] = "list" /\ call'[c].session = s /\ call'[c].bound = clock'[s]
               /\ clock'[s] \in Time
    BY <2>3, <1>a DEF ReadClock, Goto, store, NoCall
  <2>4. ASSUME NEW s \in Sessions, NEW by \in Durations, AdvanceClock(c, s, by)
        PROVE  /\ pc'[c] = "list" /\ call'[c].session = s /\ call'[c].bound = clock'[s]
               /\ clock'[s] \in Time
    BY <2>4, <1>a DEF AdvanceClock, Goto, NoCall, ClockOr, Time, NoTime
  <2>5. ASSUME EnsureClock(c), pc'[c] # "idle"
        PROVE  /\ pc'[c] = "list" /\ call'[c].session \in Sessions
               /\ call'[c].bound = clock'[call'[c].session] /\ call'[c].bound \in Time
    <3>1. call[c].session \in Sessions /\ call[c] \in Call
      BY <2>5, <1>a DEF EnsureClock, TypeOK
    <3>2. /\ pc' = [pc EXCEPT ![c] = "list"]
          /\ call' = [call EXCEPT ![c] = [call[c] EXCEPT !.bound = ClockOr(call[c].session, wall)]]
      BY <2>5, <1>a DEF EnsureClock, Goto, Done
    <3>3. ClockOr(call[c].session, wall) \in Time
      BY <1>a, <3>1 DEF ClockOr
    <3> QED
      BY <2>5, <1>a, <3>1, <3>2, <3>3 DEF EnsureClock, Call
  <2>6. ASSUME ListDue(c), pc'[c] # "idle"
        PROVE  /\ pc'[c] = "mark" /\ pc[c] = "list" /\ UNCHANGED <<clock, event>>
               /\ call'[c] = [call[c] EXCEPT !.batch =
                                DueAt(call[c].session, call[c].mode, call[c].bound)]
    BY <2>6, <1>a DEF ListDue, Goto, Done, At, store
  <2>7. ASSUME MarkDelivered(c)
        PROVE  pc[c] = "mark" /\ pc'[c] = "return" /\ call'[c] = call[c] /\ clock' = clock
    BY <2>7, <1>a DEF MarkDelivered, Goto, At
  <2>8. \/ pc'[c] = pc[c] /\ call'[c] = call[c]
        \/ pc'[c] \in {"idle", "insert", "ensure"}
        \/ \E s \in Sessions : ReadClock(c, s)
        \/ \E s \in Sessions, by \in Durations : AdvanceClock(c, s, by)
        \/ EnsureClock(c) /\ pc'[c] # "idle"
        \/ ListDue(c) /\ pc'[c] # "idle"
        \/ MarkDelivered(c)
    <3>1. ASSUME NEW d \in Clients, NEW point, NEW locals, Goto(d, point, locals), d # c
          PROVE  pc'[c] = pc[c] /\ call'[c] = call[c]
      BY <3>1, <1>a DEF Goto
    <3>2. ASSUME NEW point \in {"idle", "insert", "ensure"}, NEW locals, Goto(c, point, locals)
          PROVE  pc'[c] \in {"idle", "insert", "ensure"}
      BY <3>2, <1>a DEF Goto
    <3>3. ASSUME \/ Tick
                 \/ \E s \in Sessions : CreateSession(s) \/ DeleteSession(s)
                 \/ UNCHANGED vars
          PROVE  pc'[c] = pc[c] /\ call'[c] = call[c]
      BY <3>3 DEF Tick, CreateSession, DeleteSession, vars
    <3>4. ASSUME NEW d \in Clients, NEW s \in Sessions,
                 \/ Schedule(d, s) \/ ReadClock(d, s)
                 \/ \E op \in {"now", "pull"} : MissClock(d, s, op)
                 \/ \E by \in Durations : AdvanceClock(d, s, by)
          PROVE  \/ pc'[c] = pc[c] /\ call'[c] = call[c]
                 \/ pc'[c] \in {"idle", "insert", "ensure"}
                 \/ d = c /\ (ReadClock(c, s) \/ \E by \in Durations : AdvanceClock(c, s, by))
      BY <3>1, <3>2, <3>4 DEF Schedule, ReadClock, MissClock, AdvanceClock
    <3>5. ASSUME NEW d \in Clients,
                 \/ \E e \in EventIds, mode \in Modes, due \in Time : InsertEvent(d, e, mode, due)
                 \/ EnsureClock(d) \/ ListDue(d) \/ MarkDelivered(d) \/ MarkConflict(d)
                 \/ Return(d) \/ Fail(d) \/ Crash(d)
          PROVE  \/ pc'[c] = pc[c] /\ call'[c] = call[c]
                 \/ pc'[c] \in {"idle", "insert", "ensure"}
                 \/ EnsureClock(c) /\ pc'[c] # "idle"
                 \/ ListDue(c) /\ pc'[c] # "idle"
                 \/ MarkDelivered(c)
      BY <3>1, <3>2, <3>5 DEF InsertEvent, EnsureClock, ListDue, MarkDelivered,
         MarkConflict, Return, Fail, Crash, Done
    <3> QED
      BY <3>3, <3>4, <3>5 DEF Next
  <2>9. CASE \/ \E s \in Sessions : ReadClock(c, s)
             \/ \E s \in Sessions, by \in Durations : AdvanceClock(c, s, by)
             \/ EnsureClock(c) /\ pc'[c] # "idle"
    BY <2>3, <2>4, <2>5, <2>9 DEF Working, At, Time
  <2>10. CASE ListDue(c) /\ pc'[c] # "idle"
    <3>1. Working(c)
      BY <2>6, <2>10 DEF Working
    <3>2. /\ call'[c].session = call[c].session /\ call'[c].bound = call[c].bound
          /\ call'[c].batch = DueAt(call[c].session, call[c].mode, call[c].bound)
      BY <1>a, <2>6, <2>10 DEF Call
    <3> QED
      BY <1>c, <2>6, <2>10, <3>1, <3>2 DEF CallInv, Working, DueAt
  <2>11. CASE MarkDelivered(c)
    BY <1>c, <2>7, <2>11 DEF CallInv, Working, At
  <2> QED
    BY <2>1, <2>2, <2>8, <2>9, <2>10, <2>11
<1>4. DeliveredHasSession' /\ DeliveredWhenDue'
  <2> SUFFICES ASSUME NEW e \in EventIds, event'[e].status = "delivered"
               PROVE  /\ event'[e].session \in Sessions
                      /\ event'[e].due <= event'[e].at
                      /\ event'[e].session \notin Destroyable =>
                           event'[e].at <= clock'[event'[e].session]
    BY DEF DeliveredHasSession, DeliveredWhenDue
  <2>1. CASE event'[e] = event[e]
    <3>1. event[e].session \in Sessions
      BY <1>c, <2>1 DEF DeliveredHasSession
    <3> QED
      BY <1>a, <1>b, <1>c, <1>d, <2>1, <3>1 DEF DeliveredWhenDue, Row, Time, NoTime, TypeOK
  <2>2. ASSUME NEW c \in Clients, MarkDelivered(c), e \in call[c].batch
        PROVE  /\ event'[e].session \in Sessions
               /\ event'[e].due <= event'[e].at
               /\ event'[e].session \notin Destroyable =>
                    event'[e].at <= clock'[event'[e].session]
    <3>1. /\ event'[e].due = event[e].due /\ event'[e].at = call[c].bound
          /\ event'[e].session = event[e].session /\ event[e].session = call[c].session
          /\ clock' = clock
      BY <2>2, <1>a DEF MarkDelivered, StillPending, Row
    <3> QED
      BY <1>c, <2>2, <3>1 DEF CallInv, Working, MarkDelivered, At
  <2>3. event'[e] = event[e] \/ \E c \in Clients : MarkDelivered(c) /\ e \in call[c].batch
    <3>1. ASSUME NEW s \in Sessions, DeleteSession(s)
          PROVE  event'[e] = event[e]
      BY <3>1, <1>a DEF DeleteSession, Row
    <3>2. ASSUME NEW c \in Clients, NEW f \in EventIds, NEW mode \in Modes, NEW due \in Time,
                 InsertEvent(c, f, mode, due)
          PROVE  event'[e] = event[e]
      BY <3>2, <1>a DEF InsertEvent
    <3>3. ASSUME NEW c \in Clients, MarkDelivered(c), e \notin call[c].batch
          PROVE  event'[e] = event[e]
      BY <3>3, <1>a DEF MarkDelivered
    <3>4. \/ event' = event
          \/ \E s \in Sessions : DeleteSession(s)
          \/ \E c \in Clients, f \in EventIds, mode \in Modes, due \in Time :
               InsertEvent(c, f, mode, due)
          \/ \E c \in Clients : MarkDelivered(c)
      BY DEF Next, vars, store, history, Tick, CreateSession, Schedule, AdvanceClock, EnsureClock,
         ReadClock, MissClock, ListDue, MarkConflict, Return, Fail, Crash
    <3> QED
      BY <3>1, <3>2, <3>3, <3>4
  <2> QED
    BY <2>1, <2>2, <2>3
<1> QED
  BY <1>3, <1>4 DEF DueInv

(* Nothing is delivered before it is due, and in a session that is not      *)
(* destroyed nothing is delivered ahead of its clock, however stale the     *)
(* clock value is by the time a call uses it.                               *)
THEOREM NeverDeliveredEarly == Spec => []DeliveredWhenDue
<1>1. TypeOK /\ DueInv /\ [Next]_vars => DueInv'
  BY NextDueInv
<1>2. DueInv => DeliveredWhenDue
  BY DEF DueInv
<1> QED
  BY <1>1, <1>2, InitDueInv, TypeCorrect, PTL DEF Spec
-----------------------------------------------------------------------------
(* The queue implements its contract.  An event's phase is read off its row *)
(* and the history of calls; each transaction that matters to a caller is a *)
(* step of the contract, and every other one changes nothing in it.         *)

(* An event id that was never issued has no session, and so no session's    *)
(* destruction touches it.                                                  *)
UnissuedHasNoRow == \A e \in EventIds : event[e].status = "unissued" => event[e] = NoRow

(* Every step keeps unissued ids without a row.                             *)
LEMMA NextUnissued == TypeOK /\ UnissuedHasNoRow /\ [Next]_vars => UnissuedHasNoRow'
<1> SUFFICES ASSUME TypeOK, UnissuedHasNoRow, [Next]_vars,
                    NEW e \in EventIds, event'[e].status = "unissued"
             PROVE  event'[e] = NoRow
  BY DEF UnissuedHasNoRow
<1>a. event \in [EventIds -> Row]
  BY DEF TypeOK
<1>1. event[e] = NoRow
  BY RowStep DEF UnissuedHasNoRow, RowKept
<1>2. ASSUME NEW s \in Sessions, DeleteSession(s)
      PROVE  event'[e] = event[e]
  BY <1>1, <1>2, QueueAssumption DEF DeleteSession, NoRow
<1>3. ASSUME NEW c \in Clients, NEW f \in EventIds, NEW mode \in Modes, NEW due \in Time,
             InsertEvent(c, f, mode, due)
      PROVE  event'[e] = event[e]
  BY <1>3, <1>a DEF InsertEvent
<1>4. ASSUME NEW c \in Clients, MarkDelivered(c)
      PROVE  event'[e] = event[e]
  BY <1>1, <1>4, <1>a DEF MarkDelivered, StillPending, NoRow
<1>5. \/ event' = event
      \/ \E s \in Sessions : DeleteSession(s)
      \/ \E c \in Clients, f \in EventIds, mode \in Modes, due \in Time :
           InsertEvent(c, f, mode, due)
      \/ \E c \in Clients : MarkDelivered(c)
  BY DEF Next, vars, store, history, Tick, CreateSession, Schedule, AdvanceClock, EnsureClock,
     ReadClock, MissClock, ListDue, MarkConflict, Return, Fail, Crash
<1> QED
  BY <1>1, <1>2, <1>3, <1>4, <1>5

(* What a step of the contract may rely on.                                 *)
QueueInv == TypeOK /\ DeliveryInv /\ DueInv /\ UnissuedHasNoRow

(* All of it holds in every reachable state.                                *)
LEMMA QueueInvariant == Spec => []QueueInv
<1>1. Init => UnissuedHasNoRow
  BY DEF Init, UnissuedHasNoRow
<1>2. TypeOK /\ DueInv /\ [Next]_vars => DueInv'
  BY NextDueInv
<1> QED
  BY <1>1, <1>2, InitDueInv, NextUnissued, DeliveryInvariant, TypeCorrect, PTL
  DEF Spec, QueueInv

(* The phase of an event that no call has claimed is told by its row ...    *)
LEMMA PhaseOfUnclaimed ==
  ASSUME NEW e \in EventIds, QueueInv, ~Claimed(e)
  PROVE  /\ event[e].status = "unissued" => Phase(e) = "unissued"
         /\ event[e].status = "pending" => Phase(e) = "pending"
         /\ event[e].status = "deleted" => Phase(e) = "dropped"
         /\ event[e].status \in {"unissued", "pending", "deleted"}
<1>1. event[e].status \in Statuses
  BY DEF QueueInv, TypeOK, Row
<1>2. event[e].status # "delivered"
  BY DEF QueueInv, DeliveryInv, NoSilentDelivery, Claimed
<1> QED
  BY <1>1, <1>2 DEF Phase, Claimed, Statuses

(* ... and that of a claimed one by the histories and the calls.            *)
LEMMA PhaseOfClaimed ==
  ASSUME NEW e \in EventIds, Claimed(e)
  PROVE  Phase(e) = IF handed[e] > 0 THEN "handed" ELSE IF e \in lost THEN "lost" ELSE "claimed"
BY DEF Phase, Claimed

(* An event whose row status, history and callers stay keeps its phase.     *)
LEMMA PhaseKept ==
  ASSUME NEW e \in EventIds,
         event'[e].status = event[e].status, handed'[e] = handed[e],
         e \in lost' <=> e \in lost,
         (\E c \in Clients : InFlight(c, e)') <=> (\E c \in Clients : InFlight(c, e))
  PROVE  Phase(e)' = Phase(e)
BY DEF Phase

Phases == [e \in EventIds |-> Phase(e)]

Homes == [e \in EventIds |-> event[e].session]

DueTimes == [e \in EventIds |-> event[e].due]

(* Scheduling an event puts it.                                             *)
LEMMA InsertMaps ==
  ASSUME QueueInv, NEW c \in Clients, NEW e \in EventIds, NEW mode \in Modes,
         NEW due \in Time, InsertEvent(c, e, mode, due)
  PROVE  \E s \in Sessions :
           /\ Phases[e] = "unissued"
           /\ Phases' = [Phases EXCEPT ![e] = "pending"]
           /\ Homes' = [Homes EXCEPT ![e] = s]
           /\ DueTimes' = [DueTimes EXCEPT ![e] = due]
           /\ clock' = clock
<1>a. /\ pc \in [Clients -> Points] /\ call \in [Clients -> Call]
      /\ event \in [EventIds -> Row] /\ sessions \subseteq Sessions
      /\ ClaimedNotPending
  BY DEF QueueInv, TypeOK, DeliveryInv
<1> DEFINE s == call[c].session
<1>1. /\ s \in Sessions /\ event[e].status = "unissued"
      /\ event' = [event EXCEPT ![e] = [status |-> "pending", session |-> s,
                                        mode |-> mode, due |-> due, at |-> NoTime]]
      /\ UNCHANGED <<clock, handed, lost>>
  BY <1>a DEF InsertEvent, history
<1>2. \A d \in Clients, f \in EventIds : InFlight(d, f)' <=> InFlight(d, f)
  BY <1>a, GotoQuiet DEF InsertEvent, Done, At
<1>3. ~Claimed(e)
  BY <1>1, <1>a DEF ClaimedNotPending
<1>4. Phase(e) = "unissued" /\ Phase(e)' = "pending"
  BY <1>1, <1>2, <1>3, <1>a, PhaseOfUnclaimed DEF Phase, Claimed
<1>5. \A f \in EventIds \ {e} : Phase(f)' = Phase(f) /\ event'[f] = event[f]
  BY <1>1, <1>2, <1>a, PhaseKept
<1>6. event'[e].session = s /\ event'[e].due = due
  BY <1>1, <1>a
<1>7. /\ Phases[e] = "unissued" /\ Phases' = [Phases EXCEPT ![e] = "pending"]
      /\ Homes' = [Homes EXCEPT ![e] = s] /\ DueTimes' = [DueTimes EXCEPT ![e] = due]
  BY <1>4, <1>5, <1>6 DEF Phases, Homes, DueTimes
<1> QED
  BY <1>1, <1>7

(* Destroying a session drops what nobody has claimed.                      *)
LEMMA DeleteMaps ==
  ASSUME QueueInv, NEW s \in Sessions, DeleteSession(s)
  PROVE  /\ s \in Destroyable
         /\ Phases' = [e \in EventIds |->
                         IF e \in {f \in EventIds : Homes[f] = s /\ Phases[f] = "pending"}
                           THEN "dropped" ELSE Phases[e]]
         /\ clock' = [clock EXCEPT ![s] = NoTime]
         /\ Homes' = Homes /\ DueTimes' = DueTimes
<1>a. event \in [EventIds -> Row]
  BY DEF QueueInv, TypeOK
<1>1. /\ UNCHANGED <<handed, lost>>
      /\ \A c \in Clients, e \in EventIds : InFlight(c, e)' <=> InFlight(c, e)
  BY DEF DeleteSession, history, InFlight, At
<1>2. \A e \in EventIds :
        /\ event'[e].session = event[e].session /\ event'[e].due = event[e].due
        /\ IF event[e].session = s THEN event'[e].status = "deleted"
                                   ELSE event'[e].status = event[e].status
  BY <1>a DEF DeleteSession, Row
<1>3. ASSUME NEW e \in EventIds
      PROVE  Phase(e)' = IF event[e].session = s /\ Phase(e) = "pending"
                           THEN "dropped" ELSE Phase(e)
  <2>1. CASE event[e].session # s
    BY <1>1, <1>2, <2>1, PhaseKept
  <2>2. CASE event[e].session = s /\ Claimed(e)
    <3>1. Claimed(e)' /\ Phase(e)' = Phase(e)
      BY <1>1, <2>2, PhaseOfClaimed DEF Claimed, Phase
    <3> QED
      BY <3>1, <2>2, PhaseOfClaimed
  <2>3. CASE event[e].session = s /\ ~Claimed(e)
    <3>1. Phase(e)' = "dropped"
      BY <1>1, <1>2, <2>3 DEF Claimed, Phase
    <3>2. event[e].status # "unissued"
      BY <2>3, QueueAssumption DEF QueueInv, UnissuedHasNoRow, NoRow
    <3> QED
      BY <2>3, <3>1, <3>2, PhaseOfUnclaimed
  <2> QED
    BY <2>1, <2>2, <2>3
<1> QED
  BY <1>2, <1>3, Zenon DEF DeleteSession, Phases, Homes, DueTimes

(* A call that marks its batch claims it, and every event of it is due in   *)
(* the call's session.                                                      *)
LEMMA MarkMaps ==
  ASSUME QueueInv, NEW c \in Clients, MarkDelivered(c)
  PROVE  \E s \in Sessions, batch \in SUBSET EventIds :
           /\ \A e \in batch : /\ Phases[e] = "pending" /\ Homes[e] = s
                               /\ DueTimes[e] <= clock[s] \/ s \in Destroyable
           /\ Phases' = [e \in EventIds |-> IF e \in batch THEN "claimed" ELSE Phases[e]]
           /\ Homes' = Homes /\ DueTimes' = DueTimes /\ clock' = clock
<1>a. /\ pc \in [Clients -> Points] /\ call \in [Clients -> Call]
      /\ event \in [EventIds -> Row] /\ clock \in [Sessions -> Time \cup {NoTime}]
      /\ ClaimedNotPending /\ CallInv
  BY DEF QueueInv, TypeOK, DeliveryInv, DueInv
<1> DEFINE s == call[c].session
           batch == call[c].batch
<1>1. /\ s \in Sessions /\ batch \subseteq EventIds /\ call[c].bound \in Time
      /\ s \notin Destroyable => call[c].bound <= clock[s]
      /\ \A e \in batch : event[e].due <= call[c].bound
  BY <1>a DEF MarkDelivered, At, CallInv, Working, Call
<1>2. /\ \A e \in batch : event[e].status = "pending" /\ event[e].session = s
      /\ UNCHANGED <<clock, handed, lost>>
  BY DEF MarkDelivered, StillPending, history
<1>3. \A d \in Clients, e \in EventIds :
        InFlight(d, e)' <=> InFlight(d, e) \/ (d = c /\ e \in batch)
  BY <1>a DEF MarkDelivered, Goto, InFlight, At
<1>4. \A e \in EventIds :
        /\ event'[e].session = event[e].session /\ event'[e].due = event[e].due
        /\ e \notin batch => event'[e] = event[e]
  BY <1>a DEF MarkDelivered, Row
<1>5. ASSUME NEW e \in batch
      PROVE  /\ Phase(e) = "pending" /\ Phase(e)' = "claimed"
             /\ event[e].due <= clock[s] \/ s \in Destroyable
  <2>1. ~Claimed(e)
    BY <1>1, <1>2, <1>a DEF ClaimedNotPending
  <2>2. Phase(e)' = "claimed"
    BY <1>1, <1>2, <1>3, <2>1 DEF Phase, Claimed
  <2>3. event[e].due \in Int /\ clock[s] \in Int
    BY <1>1, <1>a DEF Row, Time, NoTime
  <2> QED
    BY <1>1, <1>2, <2>1, <2>2, <2>3, PhaseOfUnclaimed DEF Time
<1>6. ASSUME NEW e \in EventIds, e \notin batch
      PROVE  Phase(e)' = Phase(e)
  BY <1>2, <1>3, <1>4, <1>6, PhaseKept
<1>7. /\ \A e \in batch : /\ Phases[e] = "pending" /\ Homes[e] = s
                          /\ DueTimes[e] <= clock[s] \/ s \in Destroyable
      /\ Phases' = [e \in EventIds |-> IF e \in batch THEN "claimed" ELSE Phases[e]]
  <2> HIDE DEF s, batch
  <2> QED
    BY <1>1, <1>2, <1>5, <1>6 DEF Phases, Homes, DueTimes
<1>8. Homes' = Homes /\ DueTimes' = DueTimes
  BY <1>4 DEF Homes, DueTimes
<1> HIDE DEF s, batch
<1> QED
  BY <1>1, <1>2, <1>7, <1>8

(* A call that returns, or dies, ends the claim on its batch: it is handed  *)
(* out, or lost.                                                            *)
LEMMA EndMaps ==
  ASSUME QueueInv, NEW c \in Clients, Return(c) \/ Crash(c)
  PROVE  \E batch \in SUBSET EventIds, p \in {"handed", "lost"} :
           /\ \A e \in batch : Phases[e] = "claimed"
           /\ Phases' = [e \in EventIds |-> IF e \in batch THEN p ELSE Phases[e]]
           /\ Homes' = Homes /\ DueTimes' = DueTimes /\ clock' = clock
<1>a. /\ pc \in [Clients -> Points] /\ call \in [Clients -> Call]
      /\ handed \in [EventIds -> Nat] /\ AtMostOnce
  BY DEF QueueInv, TypeOK, DeliveryInv
<1> DEFINE batch == call[c].batch
           p     == IF Return(c) THEN "handed" ELSE "lost"
<1>1. batch \in SUBSET EventIds /\ \A e \in batch : InFlight(c, e)
  BY <1>a DEF Return, Crash, Call, InFlight, At
<1>2. UNCHANGED <<event, clock>>
  BY DEF Return, Crash, store
<1>3. \A d \in Clients, e \in EventIds : InFlight(d, e)' <=> InFlight(d, e) /\ d # c
  BY <1>a DEF Return, Crash, Done, Goto, InFlight, At
<1>4. \A e \in batch : handed[e] = 0 /\ e \notin lost
  BY <1>1, <1>a DEF AtMostOnce
<1>5. \A e \in batch : Phase(e) = "claimed"
  BY <1>1, <1>4 DEF Phase
<1>6. \A e \in batch : Phase(e)' = p
  <2>1. CASE Return(c)
    BY <1>1, <1>4, <1>a, <2>1 DEF Return, Phase
  <2>2. CASE ~Return(c)
    BY <1>1, <1>4, <1>a, <2>2 DEF Crash, Phase
  <2> QED
    BY <2>1, <2>2
<1>7. ASSUME NEW e \in EventIds, e \notin batch
      PROVE  Phase(e)' = Phase(e)
  <2>1. handed'[e] = handed[e] /\ (e \in lost' <=> e \in lost)
    BY <1>7, <1>a DEF Return, Crash
  <2>2. ~InFlight(c, e)
    BY <1>7 DEF InFlight
  <2> QED
    BY <1>2, <1>3, <2>1, <2>2, PhaseKept
<1>8. /\ \A e \in batch : Phases[e] = "claimed"
      /\ Phases' = [e \in EventIds |-> IF e \in batch THEN p ELSE Phases[e]]
      /\ Homes' = Homes /\ DueTimes' = DueTimes
  <2> HIDE DEF batch, p
  <2> QED
    BY <1>1, <1>2, <1>5, <1>6, <1>7 DEF Phases, Homes, DueTimes
<1>9. p \in {"handed", "lost"}
  OBVIOUS
<1> HIDE DEF batch, p
<1> QED
  BY <1>1, <1>2, <1>8, <1>9

(* A quiet step moves at most one clock, and that one forward.              *)
LEMMA QuietClock ==
  ASSUME QueueInv, [Next]_vars, Quiet,
         ~\E s \in Sessions : DeleteSession(s)
  PROVE  \/ clock' = clock
         \/ \E s \in Sessions, t \in Time : t > clock[s] /\ clock' = [clock EXCEPT ![s] = t]
<1>a. /\ clock \in [Sessions -> Time \cup {NoTime}] /\ wall \in Time
      /\ sessions \subseteq Sessions /\ MaxTime \in Nat
  BY QueueAssumption DEF QueueInv, TypeOK
<1>1. ASSUME NEW c \in Clients, NEW s \in Sessions, NEW by \in Durations,
             AdvanceClock(c, s, by)
      PROVE  \/ clock' = clock
             \/ \E t \in Time : t > clock[s] /\ clock' = [clock EXCEPT ![s] = t]
  <2> DEFINE t == ClockOr(s, wall) + by
  <2>1. by \in Nat /\ ClockOr(s, wall) \in Time /\ t <= MaxTime
    BY <1>1, <1>a, QueueAssumption DEF AdvanceClock, ClockOr
  <2>2. t \in Time /\ clock[s] <= t
    BY <1>a, <2>1 DEF ClockOr, Time, NoTime
  <2>3. clock' = [clock EXCEPT ![s] = t]
    BY <1>1 DEF AdvanceClock
  <2>4. clock[s] \in Int /\ t \in Int
    BY <1>a, <2>2 DEF Time, NoTime
  <2> HIDE DEF t
  <2>5. CASE t = clock[s]
    BY <1>a, <2>3, <2>5
  <2>6. CASE t # clock[s]
    <3>1. t > clock[s]
      BY <2>2, <2>4, <2>6
    <3> QED
      BY <2>2, <2>3, <3>1
  <2> QED
    BY <2>5, <2>6
<1>2. ASSUME NEW c \in Clients, EnsureClock(c)
      PROVE  \/ clock' = clock
             \/ \E s \in Sessions, t \in Time : t > clock[s] /\ clock' = [clock EXCEPT ![s] = t]
  <2> DEFINE s == call[c].session
             t == ClockOr(s, wall)
  <2>1. s \in Sessions /\ clock' = [clock EXCEPT ![s] = t]
    BY <1>2, <1>a DEF EnsureClock
  <2>2. CASE clock[s] = NoTime
    <3>1. t \in Time /\ t > clock[s]
      BY <1>a, <2>2 DEF ClockOr, Time, NoTime
    <3> HIDE DEF s, t
    <3> QED
      BY <2>1, <3>1
  <2>3. CASE clock[s] # NoTime
    BY <1>a, <2>1, <2>3 DEF ClockOr
  <2> QED
    BY <2>2, <2>3
<1>3. \/ clock' = clock
      \/ \E c \in Clients, s \in Sessions, by \in Durations : AdvanceClock(c, s, by)
      \/ \E c \in Clients : EnsureClock(c)
  BY DEF Next, vars, store, history, Tick, CreateSession, Schedule, InsertEvent, ReadClock,
     MissClock, ListDue, MarkDelivered, MarkConflict, Return, Fail, Crash
<1> QED
  BY <1>1, <1>2, <1>3

(* Every step of the queue is a step of the contract or changes nothing in  *)
(* it.                                                                      *)
LEMMA StepRefines == QueueInv /\ [Next]_vars => [Contract!Next]_(Contract!vars)
<1> SUFFICES ASSUME QueueInv, [Next]_vars
             PROVE  Contract!Next \/ UNCHANGED Contract!vars
  OBVIOUS
<1> USE DEF Phases, Homes, DueTimes
<1>1. ASSUME NEW s \in Sessions, DeleteSession(s)
      PROVE  Contract!Destroy(s)
  BY <1>1, DeleteMaps DEF Contract!Destroy, Contract!Become
<1>2. ASSUME NEW c \in Clients, NEW e \in EventIds, NEW mode \in Modes, NEW due \in Time,
             InsertEvent(c, e, mode, due)
      PROVE  \E s \in Sessions : Contract!Put(e, s, due)
  BY <1>2, InsertMaps DEF Contract!Put
<1>3. ASSUME NEW c \in Clients, MarkDelivered(c)
      PROVE  \E s \in Sessions, batch \in SUBSET EventIds : Contract!Claim(s, batch)
  <2>1. PICK s \in Sessions, batch \in SUBSET EventIds :
          /\ \A e \in batch : /\ Phases[e] = "pending" /\ Homes[e] = s
                              /\ DueTimes[e] <= clock[s] \/ s \in Destroyable
          /\ Phases' = [e \in EventIds |-> IF e \in batch THEN "claimed" ELSE Phases[e]]
          /\ Homes' = Homes /\ DueTimes' = DueTimes /\ clock' = clock
    BY <1>3, MarkMaps
  <2>2. Contract!Claim(s, batch)
    BY <2>1 DEF Contract!Claim, Contract!All, Contract!Become
  <2> QED
    BY <2>2
<1>4. ASSUME NEW c \in Clients, Return(c) \/ Crash(c)
      PROVE  \E batch \in SUBSET EventIds : Contract!HandOut(batch) \/ Contract!Lose(batch)
  BY <1>4, EndMaps DEF Contract!HandOut, Contract!Lose, Contract!All, Contract!Become
<1>5. ASSUME Quiet, ~\E s \in Sessions : DeleteSession(s)
      PROVE  (\E s \in Sessions, t \in Time : Contract!Advance(s, t)) \/ UNCHANGED Contract!vars
  <2>1. /\ UNCHANGED <<Homes, DueTimes>>
        /\ \A e \in EventIds : Phase(e)' = Phase(e)
    BY <1>5, PhaseKept DEF Quiet
  <2>2. Phases' = Phases
    BY <2>1
  <2> QED
    BY <1>5, <2>1, <2>2, QuietClock DEF Contract!Advance, Contract!vars
<1> QED
  BY <1>1, <1>2, <1>3, <1>4, <1>5, QuietSteps DEF Contract!Next, QueueInv

(* The queue keeps its contract, whoever calls it, dies in a call or        *)
(* destroys a session under it: an event is scheduled once, claimed by one  *)
(* call when it is due, and handed out or lost with that call.              *)
THEOREM QueueImplementsContract == Spec => ImplementsContract
<1>1. Init => Contract!Init
  <2> SUFFICES ASSUME Init, NEW e \in EventIds
               PROVE  /\ Phase(e) = "unissued"
                      /\ event[e].session = NoSession /\ event[e].due = NoTime
    BY DEF Init, Contract!Init
  <2> QED
    BY DEF Init, Phase, InFlight, At, NoRow
<1> QED
  BY <1>1, StepRefines, QueueInvariant, PTL DEF Spec, ImplementsContract, Contract!Spec
=============================================================================
