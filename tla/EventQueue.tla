------------------------------ MODULE EventQueue ------------------------------
(***************************************************************************)
(* The runtime event queue (internal/runtime/queue/manager.go) on the      *)
(* SQLite store (internal/store/sqlite/store.go).                          *)
(*                                                                         *)
(* A call of the manager is a sequence of store transactions.  Each        *)
(* transaction is atomic (one write connection, migrate.go:40), but the    *)
(* calls of several managers or processes interleave between them.  Every  *)
(* action below is one transaction, or the return of a call, of one        *)
(* client.  Queue state belongs to a runtime session: destroying the       *)
(* session deletes its clock and its events, and its name may be created   *)
(* again.                                                                  *)
(***************************************************************************)
EXTENDS Integers

CONSTANTS
  Sessions,    \* session names
  Destroyable, \* the sessions that DeleteSession is called on
  Clients,     \* callers of a queue manager: goroutines, managers, processes
  EventIds,    \* event ids, random in the code and so never issued twice
  Durations,   \* arguments of AdvanceTime, the negative ones it rejects included
  NoSession,   \* the session of an event id not issued yet
  MaxTime      \* bound: wall time, clocks and due times stop here

ASSUME QueueAssumption ==
  /\ Destroyable \subseteq Sessions
  /\ NoSession \notin Sessions
  /\ Durations \subseteq Int
  /\ MaxTime \in Nat

Time   == 0..MaxTime
NoTime == -1                        \* no row, no due time, no delivery time

Modes    == {"push", "pull"}
Statuses == {"unissued", "pending", "delivered", "deleted"}
Ops      == {"none", "schedule", "now", "advance", "pull"}
Points   == {"idle", "insert", "ensure", "list", "mark", "return"}

(* A row of scheduled_events.  "unissued" and "deleted" say that the table  *)
(* has no such row: not yet, or no longer.                                  *)
Row == [status  : Statuses,
        session : Sessions \cup {NoSession},
        mode    : Modes,
        due     : Time \cup {NoTime},
        at      : Time \cup {NoTime}]       \* delivered_at

NoRow == [status |-> "unissued", session |-> NoSession, mode |-> "push",
          due |-> NoTime, at |-> NoTime]

(* The local variables of the call a client is in: bound is the clock value *)
(* the call works with, batch the events it listed, id, mode and due the    *)
(* event it schedules.                                                      *)
Call == [op      : Ops,
         session : Sessions \cup {NoSession},
         mode    : Modes,
         bound   : Time \cup {NoTime},
         batch   : SUBSET EventIds]

NoCall == [op |-> "none", session |-> NoSession, mode |-> "push",
           bound |-> NoTime, batch |-> {}]

VARIABLES
  sessions, \* the rows of sessions: the sessions that exist
  clock,    \* session_clocks: sim_time of each session, NoTime without a row
  wall,     \* the wall clock, m.now()
  event,    \* scheduled_events
  pc,       \* where each client's call stands
  call,     \* each client's local variables
  handed,   \* history: how many calls have returned each event
  lost      \* history: events whose process died before the call returned them

vars == <<sessions, clock, wall, event, pc, call, handed, lost>>

store == <<sessions, clock, wall, event>>
history == <<handed, lost>>

-----------------------------------------------------------------------------
Init ==
  /\ sessions = {}
  /\ clock  = [s \in Sessions |-> NoTime]
  /\ wall   = 0
  /\ event  = [e \in EventIds |-> NoRow]
  /\ pc     = [c \in Clients |-> "idle"]
  /\ call   = [c \in Clients |-> NoCall]
  /\ handed = [e \in EventIds |-> 0]
  /\ lost   = {}

At(c, point) == pc[c] = point

(* The call goes on at another point with new local variables ...          *)
Goto(c, point, locals) ==
  /\ pc'   = [pc EXCEPT ![c] = point]
  /\ call' = [call EXCEPT ![c] = locals]

(* ... or ends, with a result or with an error.                             *)
Done(c) == Goto(c, "idle", NoCall)

-----------------------------------------------------------------------------
(* The world around the queue: wall time passes and sessions come and go.   *)

Tick ==
  /\ wall < MaxTime
  /\ wall' = wall + 1
  /\ UNCHANGED <<sessions, clock, event, pc, call, history>>

CreateSession(s) ==
  /\ s \notin sessions
  /\ sessions' = sessions \cup {s}
  /\ UNCHANGED <<clock, wall, event, pc, call, history>>

(* One transaction removes the session with its clock and its events.       *)
DeleteSession(s) ==
  /\ s \in Destroyable \cap sessions
  /\ sessions' = sessions \ {s}
  /\ clock' = [clock EXCEPT ![s] = NoTime]
  /\ event' = [e \in EventIds |->
                 IF event[e].session = s
                   THEN [event[e] EXCEPT !.status = "deleted"]
                   ELSE event[e]]
  /\ UNCHANGED <<wall, pc, call, history>>

-----------------------------------------------------------------------------
(* Schedule: PutScheduledEvent reads the session, then inserts the row in a *)
(* statement of its own.                                                    *)

Schedule(c, s) ==
  /\ At(c, "idle")
  /\ s \in sessions
  /\ Goto(c, "insert", [NoCall EXCEPT !.op = "schedule", !.session = s])
  /\ UNCHANGED <<store, history>>

(* The insert succeeds only while the session row is there (foreign key).   *)
InsertEvent(c, e, mode, due) ==
  LET s == call[c].session IN
  /\ At(c, "insert")
  /\ s \in sessions
  /\ event[e].status = "unissued"
  /\ event' = [event EXCEPT ![e] = [status |-> "pending", session |-> s,
                                    mode |-> mode, due |-> due, at |-> NoTime]]
  /\ Done(c)
  /\ UNCHANGED <<sessions, clock, wall, history>>

-----------------------------------------------------------------------------
(* AdvanceTime: one transaction moves the clock, or starts it at wall time. *)

ClockOr(s, initial) == IF clock[s] = NoTime THEN initial ELSE clock[s]

(* Mutation: a negative duration is let through.                            *)
AdvanceClockBack(c, s, by) ==
  LET advanced == ClockOr(s, wall) + by IN
  /\ At(c, "idle")
  /\ s \in sessions
  /\ advanced <= MaxTime
  /\ clock' = [clock EXCEPT ![s] = advanced]
  /\ Goto(c, "list", [NoCall EXCEPT !.op = "advance", !.session = s,
                                    !.mode = "push", !.bound = advanced])
  /\ UNCHANGED <<sessions, wall, event, history>>

AdvanceClock(c, s, by) ==
  LET advanced == ClockOr(s, wall) + by IN
  /\ At(c, "idle")
  /\ by >= 0
  /\ s \in sessions
  /\ advanced <= MaxTime
  /\ clock' = [clock EXCEPT ![s] = advanced]
  /\ Goto(c, "list", [NoCall EXCEPT !.op = "advance", !.session = s,
                                    !.mode = "push", !.bound = advanced])
  /\ UNCHANGED <<sessions, wall, event, history>>

(* Now and PullDue read the clock (ensureClock); Now then only returns it.  *)
ReadClock(c, s) ==
  /\ At(c, "idle")
  /\ clock[s] # NoTime
  /\ Goto(c, "list", [NoCall EXCEPT !.op = "pull", !.session = s,
                                    !.mode = "pull", !.bound = clock[s]])
  /\ UNCHANGED <<store, history>>

(* Without a clock they go on to create it: the session may not even exist. *)
MissClock(c, s, op) ==
  /\ At(c, "idle")
  /\ clock[s] = NoTime
  /\ Goto(c, "ensure", [NoCall EXCEPT !.op = op, !.session = s, !.mode = "pull"])
  /\ UNCHANGED <<store, history>>

(* Mutation: the clock is set to wall time even where another call made one. *)
EnsureClockOverwrites(c) ==
  LET s == call[c].session IN
  /\ At(c, "ensure")
  /\ s \in sessions
  /\ clock' = [clock EXCEPT ![s] = wall]
  /\ IF call[c].op = "pull"
       THEN Goto(c, "list", [call[c] EXCEPT !.bound = wall])
       ELSE Done(c)
  /\ UNCHANGED <<sessions, wall, event, history>>

(* EnsureSessionClock keeps a clock that another call created meanwhile.    *)
EnsureClock(c) ==
  LET s       == call[c].session
      ensured == ClockOr(s, wall) IN
  /\ At(c, "ensure")
  /\ s \in sessions
  /\ clock' = [clock EXCEPT ![s] = ensured]
  /\ IF call[c].op = "pull"
       THEN Goto(c, "list", [call[c] EXCEPT !.bound = ensured])
       ELSE Done(c)
  /\ UNCHANGED <<sessions, wall, event, history>>

-----------------------------------------------------------------------------
(* AdvanceTime and PullDue, second transaction: what is due at the clock    *)
(* value the call got.  With nothing due the call returns at once.          *)

(* Mutation: everything pending is listed.                                  *)
PendingAt(s, mode, bound) ==
  {e \in EventIds : /\ event[e].status = "pending"
                    /\ event[e].session = s
                    /\ event[e].mode = mode}

(* Mutation: rows already delivered are listed again.                       *)
DueWhateverStatus(s, mode, bound) ==
  {e \in EventIds : /\ event[e].session = s
                    /\ event[e].mode = mode
                    /\ event[e].due <= bound}

DueAt(s, mode, bound) ==
  {e \in EventIds : /\ event[e].status = "pending"
                    /\ event[e].session = s
                    /\ event[e].mode = mode
                    /\ event[e].due <= bound}

ListDue(c) ==
  LET due == DueAt(call[c].session, call[c].mode, call[c].bound) IN
  /\ At(c, "list")
  /\ IF due = {}
       THEN Done(c)
       ELSE Goto(c, "mark", [call[c] EXCEPT !.batch = due])
  /\ UNCHANGED <<store, history>>

(* Mutation: the UPDATE does not look at the status.                        *)
StillThere(c, e) == event[e].status # "deleted" /\ event[e].session = call[c].session

(* Third transaction: every listed event is still pending, and all are      *)
(* marked delivered ...                                                     *)
StillPending(c, e) == event[e].status = "pending" /\ event[e].session = call[c].session

MarkDelivered(c) ==
  /\ At(c, "mark")
  /\ \A e \in call[c].batch : StillPending(c, e)
  /\ event' = [e \in EventIds |->
                 IF e \in call[c].batch
                   THEN [event[e] EXCEPT !.status = "delivered", !.at = call[c].bound]
                   ELSE event[e]]
  /\ Goto(c, "return", call[c])
  /\ UNCHANGED <<sessions, clock, wall, history>>

(* Mutation: the rows updated before the failure stay.                      *)
MarkConflictKeepsRows(c) ==
  /\ At(c, "mark")
  /\ \E e \in call[c].batch : ~StillPending(c, e)
  /\ event' = [e \in EventIds |->
                 IF e \in call[c].batch /\ StillPending(c, e)
                   THEN [event[e] EXCEPT !.status = "delivered", !.at = call[c].bound]
                   ELSE event[e]]
  /\ Done(c)
  /\ UNCHANGED <<sessions, clock, wall, history>>

(* ... or one of them is not, and the whole transaction rolls back.         *)
MarkConflict(c) ==
  /\ At(c, "mark")
  /\ \E e \in call[c].batch : ~StillPending(c, e)
  /\ Done(c)
  /\ UNCHANGED <<store, history>>

(* The caller receives the batch.                                           *)
Return(c) ==
  /\ At(c, "return")
  /\ handed' = [e \in EventIds |->
                  handed[e] + (IF e \in call[c].batch THEN 1 ELSE 0)]
  /\ Done(c)
  /\ UNCHANGED <<store, lost>>

-----------------------------------------------------------------------------
(* A store call that fails (busy, cancelled, the session gone) ends the     *)
(* call with an error; a process that dies there leaves the same state.     *)
Fail(c) ==
  /\ pc[c] \in {"insert", "ensure", "list", "mark"}
  /\ Done(c)
  /\ UNCHANGED <<store, history>>

(* A process that dies after the commit takes the batch with it.            *)
Crash(c) ==
  /\ At(c, "return")
  /\ lost' = lost \cup call[c].batch
  /\ Done(c)
  /\ UNCHANGED <<store, handed>>

-----------------------------------------------------------------------------
Next ==
  \/ Tick
  \/ \E s \in Sessions : CreateSession(s) \/ DeleteSession(s)
  \/ \E c \in Clients, s \in Sessions :
       \/ Schedule(c, s)
       \/ ReadClock(c, s)
       \/ \E op \in {"now", "pull"} : MissClock(c, s, op)
       \/ \E by \in Durations : AdvanceClock(c, s, by)
  \/ \E c \in Clients :
       \/ \E e \in EventIds, mode \in Modes, due \in Time : InsertEvent(c, e, mode, due)
       \/ EnsureClock(c)
       \/ ListDue(c)
       \/ MarkDelivered(c)
       \/ MarkConflict(c)
       \/ Return(c)
       \/ Fail(c)
       \/ Crash(c)

Spec == Init /\ [][Next]_vars

(* A call at insert or ensure, whether the transaction succeeds or fails.   *)
LeaveInsert(c) ==
  \/ \E e \in EventIds, mode \in Modes, due \in Time : InsertEvent(c, e, mode, due)
  \/ At(c, "insert") /\ Fail(c)

LeaveEnsure(c) == EnsureClock(c) \/ (At(c, "ensure") /\ Fail(c))

(* Scheduling.  A call goes on until it ends (WF), and store calls do not   *)
(* fail for ever, so a client that comes to the same transaction again and  *)
(* again, delivering in the same mode, gets through it (SF).  Nothing       *)
(* polls: an application has to keep calling AdvanceTime and PullDue on its *)
(* sessions, which the last two conjuncts assume.                           *)
Fairness ==
  /\ \A c \in Clients :
       /\ WF_vars(LeaveInsert(c))
       /\ WF_vars(LeaveEnsure(c))
       /\ WF_vars(MarkConflict(c))
       /\ WF_vars(Return(c))
       /\ \A mode \in Modes :
            /\ SF_vars(call[c].mode = mode /\ ListDue(c))
            /\ SF_vars(call[c].mode = mode /\ MarkDelivered(c))
  /\ \A s \in Sessions : SF_vars(\E c \in Clients : AdvanceClock(c, s, 0))
  /\ \A s \in Sessions : SF_vars(\E c \in Clients : ReadClock(c, s))

FairSpec == Spec /\ Fairness

-----------------------------------------------------------------------------
(* Properties.                                                              *)

InFlight(c, e) == At(c, "return") /\ e \in call[c].batch

TypeOK ==
  /\ sessions \subseteq Sessions
  /\ clock \in [Sessions -> Time \cup {NoTime}]
  /\ wall \in Time
  /\ event \in [EventIds -> Row]
  /\ pc \in [Clients -> Points]
  /\ call \in [Clients -> Call]
  /\ handed \in [EventIds -> Nat]
  /\ lost \subseteq EventIds

(* However many callers race on one session, an event comes back from at    *)
(* most one call, and one that was lost with its process from none: the     *)
(* status guard of MarkScheduledEventsDelivered decides the race.           *)
AtMostOnce ==
  \A e \in EventIds :
    /\ handed[e] <= 1
    /\ e \in lost => handed[e] = 0
    /\ \A c, d \in Clients : InFlight(c, e) /\ InFlight(d, e) => c = d
    /\ \A c \in Clients : InFlight(c, e) => handed[e] = 0 /\ e \notin lost

(* No event is delivered silently: a row says delivered only if a call has  *)
(* returned the event, is about to, or died after its commit.  A call that  *)
(* reports an error to its caller has marked nothing.                       *)
NoSilentDelivery ==
  \A e \in EventIds :
    event[e].status = "delivered" =>
      \/ handed[e] = 1
      \/ e \in lost
      \/ \E c \in Clients : InFlight(c, e)

(* An event is delivered no earlier than it is due, at a time its session's *)
(* clock has reached, in a session that nobody destroys meanwhile.          *)
DeliveredWhenDue ==
  \A e \in EventIds :
    LET row == event[e] IN
    row.status = "delivered" =>
      /\ row.due <= row.at
      /\ row.session \notin Destroyable => row.at <= clock[row.session]

(* The simulation clock of a session never goes back: no interleaving of    *)
(* AdvanceTime with the lazy creation of the clock loses an advance.        *)
ClockForward ==
  [][\A s \in Sessions :
       s \in sessions /\ s \in sessions' => clock'[s] >= clock[s]]_vars

(* Delivered is final: a row leaves pending once, and keeps the delivery    *)
(* time of the call that marked it until its session is destroyed.          *)
DeliveredIsFinal ==
  [][\A e \in EventIds :
       event[e].status = "delivered" =>
         event'[e].status = "deleted" \/ event'[e] = event[e]]_vars

(* A due event does not stay pending, whatever calls fail on the way or     *)
(* conflict over another event of their batch: the next calls find it again. *)
Overdue(e) ==
  /\ event[e].status = "pending"
  /\ event[e].due <= clock[event[e].session]

EventuallyDelivered == \A e \in EventIds : Overdue(e) ~> event[e].status # "pending"

(* The queue implements its contract.                                       *)
Phase(e) ==
  IF handed[e] > 0 THEN "handed"
  ELSE IF e \in lost THEN "lost"
  ELSE IF \E c \in Clients : InFlight(c, e) THEN "claimed"
  ELSE IF event[e].status = "pending" THEN "pending"
  ELSE IF event[e].status = "deleted" THEN "dropped"
  ELSE "unissued"

Contract == INSTANCE DeliveryContract WITH
  phase <- [e \in EventIds |-> Phase(e)],
  home  <- [e \in EventIds |-> event[e].session],
  due   <- [e \in EventIds |-> event[e].due],
  now   <- clock

ImplementsContract == Contract!Spec
=============================================================================
