------------------------ MODULE SessionLifecycleProofs ------------------------
(***************************************************************************)
(* What holds of runtime sessions for any names, callers, snapshots and    *)
(* states.                                                                 *)
(***************************************************************************)
EXTENDS SessionLifecycle, TLAPS

(* The local variables a call needs at each point.                          *)
CallOK ==
  \A c \in Clients :
    /\ ~At(c, "idle") => call[c].session \in Sessions
    /\ At(c, "copy") => call[c].from \in SnapshotIds
    /\ At(c, "create") => call[c].op = "fork"
    /\ pc[c] \in {"check", "update"} => call[c].to \in SnapshotIds

Typed == TypeOK /\ CallOK

(* A call with its locals that moves to a point, or ends, stays typed.      *)
LEMMA GotoTyped ==
  ASSUME Typed, NEW c \in Clients, NEW point \in Points, NEW locals \in Call,
         Goto(c, point, locals),
         point # "idle" => locals.session \in Sessions,
         point = "copy" => locals.from \in SnapshotIds,
         point = "create" => locals.op = "fork",
         point \in {"check", "update"} => locals.to \in SnapshotIds
  PROVE  pc' \in [Clients -> Points] /\ call' \in [Clients -> Call] /\ CallOK'
BY DEF Typed, TypeOK, CallOK, Goto, At

(* The locals of no call are typed.                                         *)
LEMMA NoCallType == NoCall \in Call
BY DEF NoCall, Call, OrNone

(* Ending a call keeps the calls typed.                                     *)
LEMMA DoneTyped ==
  ASSUME Typed, NEW c \in Clients, Done(c)
  PROVE  pc' \in [Clients -> Points] /\ call' \in [Clients -> Call] /\ CallOK'
<1>1. "idle" \in Points
  BY DEF Points
<1> QED
  BY <1>1, NoCallType, GotoTyped DEF Done

(* So does an error, which ends the call or leads to the undo.              *)
LEMMA ErrorTyped ==
  ASSUME Typed, NEW c \in Clients, ~At(c, "idle"), Error(c)
  PROVE  pc' \in [Clients -> Points] /\ call' \in [Clients -> Call] /\ CallOK'
<1>1. "undo" \in Points /\ call[c] \in Call /\ call[c].session \in Sessions
  BY DEF Points, Typed, TypeOK, CallOK
<1>2. CASE Done(c)
  BY <1>2, DoneTyped
<1>3. CASE Goto(c, "undo", call[c])
  BY <1>1, <1>3, GotoTyped
<1> QED
  BY <1>2, <1>3 DEF Error

(* Steps that leave every call where it is keep the calls typed.            *)
LEMMA SameCallsTyped ==
  ASSUME Typed, UNCHANGED <<pc, call>>
  PROVE  pc' \in [Clients -> Points] /\ call' \in [Clients -> Call] /\ CallOK'
BY DEF Typed, TypeOK, CallOK, At

(* Deleting the rows of a session keeps the tables typed.                   *)
LEMMA DeleteRowsTyped ==
  ASSUME Typed, NEW s \in Sessions, DeleteRows(s)
  PROVE  /\ sessions' \subseteq Sessions
         /\ parent' \in [Sessions -> OrNone(Sessions)]
         /\ current' \in [Sessions -> OrNone(SnapshotIds)]
         /\ snapshot' \in [SnapshotIds -> Row]
         /\ issued' \subseteq SnapshotIds
         /\ recorded' \subseteq Sessions
         /\ retired' \subseteq Sessions
         /\ half' \subseteq Sessions
<1>1. NoRow \in Row
  BY DEF NoRow, Row, OrNone
<1>2. ASSUME NEW r \in Row PROVE [r EXCEPT !.parent = None] \in Row
  BY DEF Row, OrNone
<1>3. snapshot' \in [SnapshotIds -> Row]
  BY <1>1, <1>2 DEF Typed, TypeOK, DeleteRows
<1>4. parent' \in [Sessions -> OrNone(Sessions)] /\ current' \in [Sessions -> OrNone(SnapshotIds)]
  BY DEF Typed, TypeOK, DeleteRows, OrNone
<1> QED
  BY <1>3, <1>4 DEF Typed, TypeOK, DeleteRows

(* So does inserting one.                                                   *)
LEMMA InsertTyped ==
  ASSUME Typed, NEW s \in Sessions, NEW p \in OrNone(Sessions), Insert(s, p)
  PROVE  /\ sessions' \subseteq Sessions
         /\ parent' \in [Sessions -> OrNone(Sessions)]
         /\ current' \in [Sessions -> OrNone(SnapshotIds)]
BY DEF Typed, TypeOK, Insert, OrNone

(* The initial state is typed.                                              *)
LEMMA InitTyped == Init => Typed
BY NoCallType DEF Init, Typed, TypeOK, CallOK, At, NoRow, Row, OrNone, Points

(* Every step keeps the state typed.                                        *)
LEMMA NextTyped == Typed /\ [Next]_vars => Typed'
<1> SUFFICES ASSUME Typed, [Next]_vars PROVE Typed'
  OBVIOUS
<1>1. ASSUME NEW s \in Sessions, Record(s)
      PROVE  Typed'
  BY <1>1, SameCallsTyped DEF Record, Typed, TypeOK
<1>2. ASSUME NEW s \in Sessions, Create(s)
      PROVE  Typed'
  <2>1. None \in OrNone(Sessions)
    BY DEF OrNone
  <2> QED
    BY <1>2, <2>1, InsertTyped, SameCallsTyped DEF Create, Typed, TypeOK
<1>3. ASSUME NEW s \in Sessions, Destroy(s)
      PROVE  Typed'
  BY <1>3, DeleteRowsTyped, SameCallsTyped DEF Destroy, Typed, TypeOK
<1>4. ASSUME NEW s \in Sessions, NEW x \in SnapshotIds, NEW state \in States,
             Snapshot(s, x, state)
      PROVE  Typed'
  <2>1. [session |-> s, parent |-> current[s], state |-> state] \in Row
    BY DEF Row, OrNone, Typed, TypeOK
  <2>2. snapshot' \in [SnapshotIds -> Row] /\ current' \in [Sessions -> OrNone(SnapshotIds)]
    BY <1>4, <2>1 DEF Snapshot, Typed, TypeOK, OrNone
  <2> QED
    BY <1>4, <2>2, SameCallsTyped DEF Snapshot, Typed, TypeOK
<1>5. ASSUME NEW c \in Clients, NEW s \in Sessions, NEW x \in SnapshotIds, RestoreRead(c, s, x)
      PROVE  Typed'
  <2> DEFINE locals == [op |-> "restore", session |-> s, parent |-> parent[s],
                        from |-> None, to |-> x]
  <2>1. locals \in Call /\ "check" \in Points
    BY DEF Call, OrNone, Points, Typed, TypeOK
  <2>2. pc' \in [Clients -> Points] /\ call' \in [Clients -> Call] /\ CallOK'
    BY <1>5, <2>1, GotoTyped DEF RestoreRead
  <2> QED
    BY <1>5, <2>2 DEF RestoreRead, Typed, TypeOK, rows
<1>6. ASSUME NEW c \in Clients, NEW p \in Sessions, NEW s \in Sessions, ForkRead(c, p, s)
      PROVE  Typed'
  <2> DEFINE locals == [op |-> "fork", session |-> s, parent |-> p,
                        from |-> current[p], to |-> None]
  <2>1. locals \in Call /\ "create" \in Points
    BY DEF Call, OrNone, Points, Typed, TypeOK
  <2>2. pc' \in [Clients -> Points] /\ call' \in [Clients -> Call] /\ CallOK'
    BY <1>6, <2>1, GotoTyped DEF ForkRead
  <2> QED
    BY <1>6, <2>2 DEF ForkRead, Typed, TypeOK, rows
<1>7. ASSUME NEW c \in Clients, ForkCreate(c)
      PROVE  Typed'
  <2>1. /\ call[c] \in Call
        /\ call[c].session \in Sessions
        /\ call[c].parent \in OrNone(Sessions)
        /\ call[c].from \in OrNone(SnapshotIds)
        /\ "copy" \in Points
    BY <1>7 DEF ForkCreate, Typed, TypeOK, CallOK, At, Call, OrNone, Points
  <2>2. pc' \in [Clients -> Points] /\ call' \in [Clients -> Call] /\ CallOK'
    <3>1. CASE call[c].from = None
      BY <1>7, <3>1, DoneTyped DEF ForkCreate
    <3>2. CASE call[c].from # None
      <4>1. call[c].from \in SnapshotIds
        BY <2>1, <3>2 DEF OrNone
      <4> QED
        BY <1>7, <2>1, <3>2, <4>1, GotoTyped DEF ForkCreate
    <3> QED
      BY <3>1, <3>2
  <2>3. half' \subseteq Sessions
    BY <1>7, <2>1 DEF ForkCreate, Typed, TypeOK
  <2> QED
    BY <1>7, <2>1, <2>2, <2>3, InsertTyped DEF ForkCreate, Typed, TypeOK
<1>8. ASSUME NEW c \in Clients, NEW x \in SnapshotIds, ForkCopy(c, x)
      PROVE  Typed'
  <2>1. call[c] \in Call /\ call[c].session \in Sessions /\ call[c].from \in SnapshotIds
    BY <1>8 DEF ForkCopy, Typed, TypeOK, CallOK, At
  <2>2. [session |-> call[c].session, parent |-> call[c].from,
         state |-> snapshot[call[c].from].state] \in Row
    BY <2>1 DEF Row, OrNone, Typed, TypeOK
  <2>3. snapshot' \in [SnapshotIds -> Row]
    BY <1>8, <2>2 DEF ForkCopy, Typed, TypeOK
  <2>4. /\ [call[c] EXCEPT !.to = x] \in Call
        /\ [call[c] EXCEPT !.to = x].session \in Sessions
        /\ [call[c] EXCEPT !.to = x].to \in SnapshotIds
        /\ "check" \in Points
    BY <2>1 DEF Call, OrNone, Points
  <2>5. pc' \in [Clients -> Points] /\ call' \in [Clients -> Call] /\ CallOK'
    BY <1>8, <2>4, GotoTyped DEF ForkCopy
  <2> QED
    BY <1>8, <2>3, <2>5 DEF ForkCopy, Typed, TypeOK
<1>9. ASSUME NEW c \in Clients, UpdateCheck(c)
      PROVE  Typed'
  <2>1. /\ call[c] \in Call /\ "update" \in Points
        /\ call[c].session \in Sessions /\ call[c].to \in SnapshotIds
    BY <1>9 DEF UpdateCheck, Typed, TypeOK, CallOK, At, Points
  <2>2. pc' \in [Clients -> Points] /\ call' \in [Clients -> Call] /\ CallOK'
    BY <1>9, <2>1, GotoTyped DEF UpdateCheck
  <2> QED
    BY <1>9, <2>2 DEF UpdateCheck, Typed, TypeOK, rows
<1>10. ASSUME NEW c \in Clients, UpdateRow(c)
       PROVE  Typed'
  <2>1. call[c].to \in OrNone(SnapshotIds) /\ call[c].parent \in OrNone(Sessions)
    BY DEF Typed, TypeOK, Call
  <2>2. /\ current' \in [Sessions -> OrNone(SnapshotIds)]
        /\ parent' \in [Sessions -> OrNone(Sessions)]
        /\ half' \subseteq Sessions
    BY <1>10, <2>1 DEF UpdateRow, Typed, TypeOK
  <2> QED
    BY <1>10, <2>2, DoneTyped DEF UpdateRow, Typed, TypeOK
<1>11. ASSUME NEW c \in Clients, Fail(c)
       PROVE  Typed'
  <2>1. ~At(c, "idle")
    BY <1>11 DEF Fail, At
  <2> QED
    BY <1>11, <2>1, ErrorTyped DEF Fail, Typed, TypeOK, rows
<1>12. ASSUME NEW c \in Clients, Undo(c)
       PROVE  Typed'
  <2>1. call[c].session \in Sessions
    BY <1>12 DEF Undo, Typed, CallOK, At
  <2> QED
    BY <1>12, <2>1, DeleteRowsTyped, DoneTyped DEF Undo, Typed, TypeOK
<1>13. ASSUME NEW c \in Clients, Crash(c)
       PROVE  Typed'
  BY <1>13, DoneTyped DEF Crash, Typed, TypeOK
<1>14. CASE UNCHANGED vars
  BY <1>14, SameCallsTyped DEF vars, rows, Typed, TypeOK
<1> QED
  BY <1>1, <1>2, <1>3, <1>4, <1>5, <1>6, <1>7, <1>8, <1>9, <1>10, <1>11, <1>12, <1>13, <1>14
     DEF Next

(* The types hold in every reachable state.                                 *)
LEMMA AlwaysTyped == Spec => []Typed
BY InitTyped, NextTyped, PTL DEF Spec

(* The state of every table and of every call is of its type.               *)
THEOREM TypeCorrect == Spec => []TypeOK
<1>1. Typed => TypeOK
  BY DEF Typed
<1> QED
  BY <1>1, AlwaysTyped, PTL

-----------------------------------------------------------------------------
(* A session points at a snapshot of its own.  Inductive with what holds of *)
(* the rows (a snapshot has an id that was issued, and its session exists)  *)
(* and of calls under way: their session exists, or did, and past the check *)
(* the snapshot is still its own unless the name may be used again.         *)

RowsOK ==
  \A x \in SnapshotIds :
    snapshot[x].session # None => x \in issued /\ snapshot[x].session \in sessions

WorkOK ==
  \A c \in Clients :
    LET s == call[c].session IN
    /\ pc[c] \in {"copy", "check", "update"} => s \in sessions \cup retired
    /\ At(c, "update") /\ s \in sessions \ Reusable => Owns(s, call[c].to)

PointerInv == RowsOK /\ WorkOK /\ PointerOwned

(* What the steps of a session's calls are made of keeps all three: a row   *)
(* is added under a new id ...                                              *)
LEMMA AddedSnapshot ==
  ASSUME Typed, PointerInv, NEW s \in sessions, NEW x \in SnapshotIds, NEW row \in Row,
         x \notin issued, row.session = s,
         snapshot' = [snapshot EXCEPT ![x] = row], issued' = issued \cup {x},
         UNCHANGED <<sessions, retired>>
  PROVE  /\ RowsOK'
         /\ \A y \in SnapshotIds : y \in issued => snapshot'[y] = snapshot[y]
         /\ \A t \in Sessions, y \in SnapshotIds : Owns(t, y) => Owns(t, y)'
         /\ Owns(s, x)'
BY SessionAssumption DEF Typed, TypeOK, PointerInv, RowsOK, Owns

(* ... or the rows of a session go, and the others keep theirs.             *)
LEMMA DeletedRows ==
  ASSUME Typed, PointerInv, NEW s \in Sessions, DeleteRows(s)
  PROVE  /\ RowsOK'
         /\ \A t \in Sessions \ {s}, y \in SnapshotIds : Owns(t, y) => Owns(t, y)'
         /\ sessions \cup retired \subseteq sessions' \cup retired'
<1>1. ASSUME NEW y \in SnapshotIds
      PROVE  snapshot'[y].session = IF Owns(s, y) THEN None ELSE snapshot[y].session
  BY <1>1 DEF Typed, TypeOK, DeleteRows, NoRow, Row
<1> QED
  BY <1>1, SessionAssumption DEF Typed, TypeOK, PointerInv, RowsOK, Owns, DeleteRows

(* One call moves on; no other does.                                        *)
LEMMA OneMoves ==
  ASSUME Typed, NEW c \in Clients, NEW point, NEW locals, Goto(c, point, locals)
  PROVE  /\ pc'[c] = point /\ call'[c] = locals
         /\ \A d \in Clients \ {c} : pc'[d] = pc[d] /\ call'[d] = call[d]
BY DEF Typed, TypeOK, Goto

(* An error moves a call to no point of its work.                           *)
LEMMA ErrorMoves ==
  ASSUME Typed, NEW c \in Clients, Error(c)
  PROVE  /\ pc'[c] \in {"idle", "undo"}
         /\ \A d \in Clients \ {c} : pc'[d] = pc[d] /\ call'[d] = call[d]
<1>1. CASE Done(c)
  BY <1>1, OneMoves DEF Done
<1>2. CASE Goto(c, "undo", call[c])
  BY <1>2, OneMoves
<1> QED
  BY <1>1, <1>2 DEF Error

(* Every step keeps the pointers sound.                                     *)
LEMMA NextPointerInv == Typed /\ PointerInv /\ [Next]_vars => PointerInv'
<1> SUFFICES ASSUME Typed, PointerInv, [Next]_vars PROVE PointerInv'
  OBVIOUS
<1> USE SessionAssumption
<1>a. /\ \A c \in Clients : call[c] \in Call /\ pc[c] \in Points
      /\ \A c \in Clients : ~At(c, "idle") => call[c].session \in Sessions
  BY DEF Typed, TypeOK, CallOK
<1>1. ASSUME NEW s \in Sessions, Record(s)
      PROVE  PointerInv'
  BY <1>1 DEF Record, PointerInv, RowsOK, WorkOK, PointerOwned, PointsAtOwn, Owns, At
<1>2. ASSUME NEW s \in Sessions, NEW p, Insert(s, p),
             UNCHANGED <<snapshot, issued, retired, pc, call>>
      PROVE  PointerInv'
  <2>1. RowsOK'
    BY <1>2 DEF Insert, PointerInv, RowsOK
  <2>2. WorkOK'
    BY <1>2 DEF Insert, CanInsert, PointerInv, WorkOK, Owns, At
  <2>3. PointerOwned'
    BY <1>2 DEF Insert, PointerInv, PointerOwned, PointsAtOwn, Owns, Typed, TypeOK
  <2> QED
    BY <2>1, <2>2, <2>3 DEF PointerInv
<1>3. ASSUME NEW s \in Sessions, Destroy(s)
      PROVE  PointerInv'
  <2>1. DeleteRows(s) /\ UNCHANGED <<pc, call>>
    BY <1>3 DEF Destroy
  <2>2. WorkOK'
    BY <2>1, <1>a, DeletedRows DEF PointerInv, WorkOK, At, Owns, DeleteRows, Typed, CallOK
  <2>3. PointerOwned'
    BY <2>1, DeletedRows DEF PointerInv, PointerOwned, PointsAtOwn, DeleteRows, Typed, TypeOK, OrNone
  <2> QED
    BY <2>1, <2>2, <2>3, DeletedRows DEF PointerInv
<1>4. ASSUME NEW s \in Sessions, NEW x \in SnapshotIds, NEW state \in States,
             Snapshot(s, x, state)
      PROVE  PointerInv'
  <2> DEFINE row == [session |-> s, parent |-> current[s], state |-> state]
  <2>1. row \in Row /\ row.session = s
    BY DEF Row, OrNone, Typed, TypeOK
  <2>2. /\ RowsOK'
        /\ \A t \in Sessions, y \in SnapshotIds : Owns(t, y) => Owns(t, y)'
        /\ Owns(s, x)'
    BY <1>4, <2>1, AddedSnapshot DEF Snapshot
  <2>3. WorkOK'
    BY <1>4, <2>2 DEF Snapshot, PointerInv, WorkOK, At, Typed, CallOK
  <2>4. PointerOwned'
    BY <1>4, <2>2 DEF Snapshot, PointerInv, PointerOwned, PointsAtOwn, Typed, TypeOK, OrNone
  <2> QED
    BY <2>2, <2>3, <2>4 DEF PointerInv
<1>5. ASSUME NEW c \in Clients, UNCHANGED rows,
             \A d \in Clients \ {c} : pc'[d] = pc[d] /\ call'[d] = call[d],
             /\ pc'[c] \in {"copy", "check", "update"} => call'[c].session \in sessions \cup retired
             /\ pc'[c] = "update" => Owns(call'[c].session, call'[c].to)
      PROVE  PointerInv'
  BY <1>5 DEF rows, PointerInv, RowsOK, WorkOK, PointerOwned, PointsAtOwn, Owns, At
<1>6. ASSUME NEW c \in Clients, NEW s \in Sessions, NEW x \in SnapshotIds, RestoreRead(c, s, x)
      PROVE  PointerInv'
  BY <1>5, <1>6, OneMoves DEF RestoreRead
<1>7. ASSUME NEW c \in Clients, NEW p \in Sessions, NEW s \in Sessions, ForkRead(c, p, s)
      PROVE  PointerInv'
  BY <1>5, <1>7, OneMoves DEF ForkRead
<1>8. ASSUME NEW c \in Clients, UpdateCheck(c)
      PROVE  PointerInv'
  <2>1. call[c].session \in sessions \cup retired
    BY <1>8 DEF UpdateCheck, PointerInv, WorkOK, At
  <2> QED
    BY <1>5, <1>8, <2>1, OneMoves DEF UpdateCheck
<1>9. ASSUME NEW c \in Clients, Fail(c)
      PROVE  PointerInv'
  BY <1>5, <1>9, ErrorMoves DEF Fail
<1>10. ASSUME NEW c \in Clients, Crash(c)
       PROVE  PointerInv'
  BY <1>10, OneMoves DEF Crash, Done, PointerInv, RowsOK, WorkOK, PointerOwned, PointsAtOwn, Owns, At
<1>11. ASSUME NEW c \in Clients, ForkCreate(c)
       PROVE  PointerInv'
  <2> DEFINE s == call[c].session
  <2>1. /\ s \in Sessions /\ Insert(s, call[c].parent)
        /\ UNCHANGED <<snapshot, issued, retired>>
    BY <1>11, <1>a DEF ForkCreate, At
  <2>2. /\ \A d \in Clients \ {c} : pc'[d] = pc[d] /\ call'[d] = call[d]
        /\ pc'[c] \in {"idle", "copy"}
        /\ pc'[c] = "copy" => call'[c].session = s
    BY <1>11, OneMoves DEF ForkCreate, Done
  <2>3. RowsOK'
    BY <2>1 DEF Insert, PointerInv, RowsOK
  <2>4. WorkOK'
    BY <2>1, <2>2 DEF Insert, CanInsert, PointerInv, WorkOK, Owns, At
  <2>5. PointerOwned'
    BY <2>1 DEF Insert, PointerInv, PointerOwned, PointsAtOwn, Owns, Typed, TypeOK
  <2> QED
    BY <2>3, <2>4, <2>5 DEF PointerInv
<1>12. ASSUME NEW c \in Clients, NEW x \in SnapshotIds, ForkCopy(c, x)
       PROVE  PointerInv'
  <2> DEFINE s == call[c].session
             row == [session |-> s, parent |-> call[c].from,
                     state |-> snapshot[call[c].from].state]
  <2>1. s \in sessions /\ s \in Sessions /\ call[c].from \in SnapshotIds
    BY <1>12, <1>a DEF ForkCopy, At, Typed, CallOK
  <2>2. row \in Row /\ row.session = s
    BY <2>1 DEF Row, OrNone, Typed, TypeOK
  <2>3. /\ RowsOK'
        /\ \A t \in Sessions, y \in SnapshotIds : Owns(t, y) => Owns(t, y)'
    BY <1>12, <2>1, <2>2, AddedSnapshot DEF ForkCopy
  <2>4. /\ \A d \in Clients \ {c} : pc'[d] = pc[d] /\ call'[d] = call[d]
        /\ pc'[c] = "check" /\ call'[c].session = s
    BY <1>12, <1>a, OneMoves DEF ForkCopy, Call
  <2>5. WorkOK'
    BY <1>12, <2>1, <2>3, <2>4 DEF ForkCopy, PointerInv, WorkOK, At, Typed, CallOK
  <2>6. PointerOwned'
    BY <1>12, <2>3 DEF ForkCopy, PointerInv, PointerOwned, PointsAtOwn, Typed, TypeOK, OrNone
  <2> QED
    BY <2>3, <2>5, <2>6 DEF PointerInv
<1>13. ASSUME NEW c \in Clients, UpdateRow(c)
       PROVE  PointerInv'
  <2> DEFINE s == call[c].session
  <2>1. s \in Sessions /\ (s \in sessions \ Reusable => Owns(s, call[c].to))
    BY <1>13, <1>a DEF UpdateRow, At, PointerInv, WorkOK
  <2>2. /\ \A d \in Clients \ {c} : pc'[d] = pc[d] /\ call'[d] = call[d]
        /\ pc'[c] = "idle"
    BY <1>13, OneMoves DEF UpdateRow, Done
  <2>3. RowsOK'
    BY <1>13 DEF UpdateRow, PointerInv, RowsOK
  <2>4. WorkOK'
    BY <1>13, <2>2 DEF UpdateRow, PointerInv, WorkOK, Owns, At
  <2>5. PointerOwned'
    BY <1>13, <2>1 DEF UpdateRow, PointerInv, PointerOwned, PointsAtOwn, Owns, Typed, TypeOK
  <2> QED
    BY <2>3, <2>4, <2>5 DEF PointerInv
<1>14. ASSUME NEW c \in Clients, Undo(c)
       PROVE  PointerInv'
  <2> DEFINE s == call[c].session
  <2>1. s \in Sessions /\ DeleteRows(s)
    BY <1>14, <1>a DEF Undo, At
  <2>2. /\ \A d \in Clients \ {c} : pc'[d] = pc[d] /\ call'[d] = call[d]
        /\ pc'[c] = "idle"
    BY <1>14, OneMoves DEF Undo, Done
  <2>3. WorkOK'
    BY <2>1, <2>2, <1>a, DeletedRows DEF PointerInv, WorkOK, At, Owns, DeleteRows, Typed, CallOK
  <2>4. PointerOwned'
    BY <2>1, DeletedRows DEF PointerInv, PointerOwned, PointsAtOwn, DeleteRows, Typed, TypeOK, OrNone
  <2> QED
    BY <2>1, <2>3, <2>4, DeletedRows DEF PointerInv
<1>15. CASE UNCHANGED vars
  BY <1>15 DEF vars, rows, PointerInv, RowsOK, WorkOK, PointerOwned, PointsAtOwn, Owns, At
<1>16. ASSUME NEW s \in Sessions, Create(s)
       PROVE  PointerInv'
  BY <1>2, <1>16 DEF Create
<1> QED
  BY <1>1, <1>3, <1>4, <1>6, <1>7, <1>8, <1>9, <1>10, <1>11, <1>12, <1>13, <1>14, <1>15, <1>16
     DEF Next

(* The pointers are sound at the start.                                     *)
LEMMA InitPointerInv == Init => PointerInv
BY SessionAssumption DEF Init, PointerInv, RowsOK, WorkOK, PointerOwned, PointsAtOwn, NoRow, At

(* And so in every reachable state.                                         *)
LEMMA PointerInvariant == Spec => []PointerInv
BY InitPointerInv, NextPointerInv, AlwaysTyped, PTL DEF Spec

(* However Restore and Fork interleave with Snapshot and Destroy, a session *)
(* whose name is not used again points at an existing snapshot of its own,  *)
(* although UpdateSession checks and writes in two statements.              *)
THEOREM SessionPointsAtOwnSnapshot == Spec => []PointerOwned
<1>1. PointerInv => PointerOwned
  BY DEF PointerInv
<1> QED
  BY <1>1, PointerInvariant, PTL

-----------------------------------------------------------------------------
(* A fork copies what its parent held.  A snapshot follows one that exists, *)
(* so a new row is never the parent of an older one.                        *)

ParentExists ==
  \A x \in SnapshotIds :
    snapshot[x].session # None /\ snapshot[x].parent # None =>
      snapshot[snapshot[x].parent].session # None

CopyInv == ParentExists /\ ForkCopiesState

(* A new row that follows a row there is, of the same session or with the   *)
(* same state, keeps the copies right.                                      *)
LEMMA AddedCopy ==
  ASSUME Typed, PointerInv, CopyInv, NEW x \in SnapshotIds, NEW row \in Row, x \notin issued,
         snapshot' = [snapshot EXCEPT ![x] = row],
         row.parent # None =>
           /\ snapshot[row.parent].session # None
           /\ \/ snapshot[row.parent].session = row.session
              \/ snapshot[row.parent].state = row.state
  PROVE  CopyInv'
<1>1. snapshot[x].session = None
  BY DEF PointerInv, RowsOK
<1>2. row.parent \in SnapshotIds \cup {None}
  BY DEF Row, OrNone
<1>3. \A y \in SnapshotIds : snapshot'[y] = IF y = x THEN row ELSE snapshot[y]
  BY DEF Typed, TypeOK
<1>4. \A y \in SnapshotIds : snapshot[y].parent \in SnapshotIds \cup {None}
  BY DEF Typed, TypeOK, Row, OrNone
<1>5. row.parent # x
  BY <1>1, <1>2, SessionAssumption
<1>6. ParentExists'
  <2> SUFFICES ASSUME NEW y \in SnapshotIds,
                      snapshot'[y].session # None, snapshot'[y].parent # None
               PROVE  snapshot'[snapshot'[y].parent].session # None
    BY DEF ParentExists
  <2>1. CASE y = x
    BY <2>1, <1>2, <1>3, <1>5
  <2>2. CASE y # x
    BY <2>2, <1>1, <1>3, <1>4 DEF CopyInv, ParentExists
  <2> QED
    BY <2>1, <2>2
<1>7. ForkCopiesState'
  <2> SUFFICES ASSUME NEW y \in SnapshotIds, NEW z \in SnapshotIds,
                      snapshot'[y].session # None, snapshot'[y].parent = z,
                      snapshot'[z].session # snapshot'[y].session
               PROVE  snapshot'[y].state = snapshot'[z].state
    BY DEF ForkCopiesState
  <2>0. z # None
    BY SessionAssumption
  <2>1. CASE y = x
    BY <2>0, <2>1, <1>2, <1>3, <1>5
  <2>2. CASE y # x
    <3>1. z # x
      BY <2>0, <2>2, <1>1, <1>3, <1>4 DEF CopyInv, ParentExists
    <3> QED
      BY <2>2, <3>1, <1>3 DEF CopyInv, ForkCopiesState
  <2> QED
    BY <2>1, <2>2
<1> QED
  BY <1>6, <1>7 DEF CopyInv

(* Deleting a session clears the links to its snapshots with them.          *)
LEMMA DeletedCopy ==
  ASSUME Typed, CopyInv, NEW s \in Sessions, DeleteRows(s)
  PROVE  CopyInv'
<1>1. ASSUME NEW y \in SnapshotIds
      PROVE  /\ snapshot'[y].session = IF Owns(s, y) THEN None ELSE snapshot[y].session
             /\ snapshot'[y].session # None =>
                  /\ snapshot'[y].state = snapshot[y].state
                  /\ snapshot'[y].parent \in {None, snapshot[y].parent}
                  /\ snapshot'[y].parent # None => ~Owns(s, snapshot[y].parent)
  <2>1. snapshot[y] \in Row
    BY DEF Typed, TypeOK
  <2>2. snapshot'[y] = IF Owns(s, y) THEN NoRow
                       ELSE IF snapshot[y].parent # None /\ Owns(s, snapshot[y].parent)
                              THEN [snapshot[y] EXCEPT !.parent = None]
                              ELSE snapshot[y]
    BY DEF DeleteRows
  <2> QED
    BY <2>1, <2>2 DEF NoRow, Row
<1>2. \A y \in SnapshotIds : snapshot[y].parent \in SnapshotIds \cup {None}
  BY DEF Typed, TypeOK, Row, OrNone
<1>3. ParentExists'
  BY <1>1, <1>2, SessionAssumption DEF CopyInv, ParentExists, Owns
<1>4. ForkCopiesState'
  <2> SUFFICES ASSUME NEW y \in SnapshotIds, NEW z \in SnapshotIds,
                      snapshot'[y].session # None, snapshot'[y].parent = z,
                      snapshot'[z].session # snapshot'[y].session
               PROVE  snapshot'[y].state = snapshot'[z].state
    BY DEF ForkCopiesState
  <2>1. z # None /\ snapshot[y].parent = z /\ ~Owns(s, z) /\ ~Owns(s, y)
    BY <1>1, SessionAssumption DEF Owns
  <2>2. /\ snapshot'[z].session = snapshot[z].session
        /\ snapshot'[y].session = snapshot[y].session
    BY <1>1, <2>1
  <2>3. snapshot[z].session # None
    BY <2>1, <2>2 DEF CopyInv, ParentExists
  <2>4. snapshot'[z].state = snapshot[z].state /\ snapshot'[y].state = snapshot[y].state
    BY <1>1, <2>2, <2>3
  <2> QED
    BY <2>1, <2>2, <2>4 DEF CopyInv, ForkCopiesState
<1> QED
  BY <1>3, <1>4 DEF CopyInv

(* Every step keeps the copies right.                                       *)
LEMMA NextCopyInv == Typed /\ PointerInv /\ CopyInv /\ [Next]_vars => CopyInv'
<1> SUFFICES ASSUME Typed, PointerInv, CopyInv, [Next]_vars PROVE CopyInv'
  OBVIOUS
<1>1. ASSUME UNCHANGED snapshot PROVE CopyInv'
  BY <1>1 DEF CopyInv, ParentExists, ForkCopiesState
<1>2. ASSUME NEW s \in Sessions, NEW x \in SnapshotIds, NEW state \in States,
             Snapshot(s, x, state)
      PROVE  CopyInv'
  <2> DEFINE row == [session |-> s, parent |-> current[s], state |-> state]
  <2>1. row \in Row
    BY DEF Row, OrNone, Typed, TypeOK
  <2>2. row.parent # None => snapshot[row.parent].session = row.session /\ row.session # None
    BY <1>2, SessionAssumption DEF Snapshot, Owns
  <2> HIDE DEF row
  <2> QED
    BY <1>2, <2>1, <2>2, AddedCopy DEF Snapshot, row
<1>3. ASSUME NEW c \in Clients, NEW x \in SnapshotIds, ForkCopy(c, x)
      PROVE  CopyInv'
  <2> DEFINE row == [session |-> call[c].session, parent |-> call[c].from,
                     state |-> snapshot[call[c].from].state]
  <2>1. call[c].session \in Sessions /\ call[c].from \in SnapshotIds
    BY <1>3 DEF ForkCopy, At, Typed, CallOK
  <2>2. row \in Row
    BY <2>1 DEF Row, OrNone, Typed, TypeOK
  <2>3. snapshot[row.parent].session # None /\ snapshot[row.parent].state = row.state
    BY <1>3 DEF ForkCopy
  <2> HIDE DEF row
  <2> QED
    BY <1>3, <2>2, <2>3, AddedCopy DEF ForkCopy, row
<1>4. ASSUME NEW s \in Sessions, Destroy(s) PROVE CopyInv'
  BY <1>4, DeletedCopy DEF Destroy
<1>5. ASSUME NEW c \in Clients, Undo(c) PROVE CopyInv'
  BY <1>5, DeletedCopy DEF Undo, Typed, CallOK, At
<1>6. ASSUME NEW s \in Sessions, Record(s) \/ Create(s) PROVE UNCHANGED snapshot
  BY <1>6 DEF Record, Create
<1>7. ASSUME NEW c \in Clients,
             \/ \E s \in Sessions, x \in SnapshotIds : RestoreRead(c, s, x)
             \/ \E p \in Sessions, s \in Sessions : ForkRead(c, p, s)
             \/ ForkCreate(c) \/ UpdateCheck(c) \/ UpdateRow(c) \/ Fail(c) \/ Crash(c)
      PROVE  UNCHANGED snapshot
  BY <1>7 DEF RestoreRead, ForkRead, ForkCreate, UpdateCheck, UpdateRow, Fail, Crash, rows
<1>8. CASE UNCHANGED vars
  BY <1>1, <1>8 DEF vars, rows
<1> QED
  BY <1>1, <1>2, <1>3, <1>4, <1>5, <1>6, <1>7, <1>8 DEF Next

(* A forked child holds what its parent held: a snapshot that follows one   *)
(* of another session has its state, whatever the parent does meanwhile.    *)
THEOREM ForkIsACopy == Spec => []ForkCopiesState
<1>1. Init => CopyInv
  BY SessionAssumption DEF Init, CopyInv, ParentExists, ForkCopiesState, NoRow
<1>2. CopyInv => ForkCopiesState
  BY DEF CopyInv
<1> QED
  BY <1>1, <1>2, NextCopyInv, AlwaysTyped, PointerInvariant, PTL DEF Spec

-----------------------------------------------------------------------------
(* The lineage of snapshots.                                                *)

(* A new row has no child yet, so it closes no circle: among any snapshots  *)
(* the oldest of the others is the oldest with it.                          *)
LEMMA AddedLineage ==
  ASSUME Typed, PointerInv, LineageSound, NEW x \in SnapshotIds, NEW row \in Row, x \notin issued,
         snapshot' = [snapshot EXCEPT ![x] = row],
         row.session # None,
         row.parent # None => snapshot[row.parent].session # None
  PROVE  LineageSound'
<1>1. snapshot[x].session = None
  BY DEF PointerInv, RowsOK
<1>2. \A y \in SnapshotIds : snapshot'[y] = IF y = x THEN row ELSE snapshot[y]
  BY DEF Typed, TypeOK
<1>3. row.parent # x /\ \A y \in SnapshotIds : snapshot[y].parent # x
  BY <1>1, SessionAssumption DEF LineageSound
<1>4. /\ row.parent \in SnapshotIds \cup {None}
      /\ \A y \in SnapshotIds : snapshot[y].parent \in SnapshotIds \cup {None}
  BY DEF Typed, TypeOK, Row, OrNone
<1>5. ASSUME NEW y \in SnapshotIds, snapshot'[y].parent # None
      PROVE  snapshot'[snapshot'[y].parent].session # None
  BY <1>2, <1>3, <1>4, <1>5 DEF LineageSound
<1>6. ASSUME NEW some \in (SUBSET SnapshotIds) \ {{}}
      PROVE  \E y \in some : snapshot'[y].parent \notin some
  <2>1. CASE some = {x}
    BY <1>2, <1>3, <2>1
  <2>2. CASE some # {x}
    <3>1. some \ {x} \in (SUBSET SnapshotIds) \ {{}}
      BY <2>2
    <3>2. PICK y \in some \ {x} : snapshot[y].parent \notin some \ {x}
      BY <3>1 DEF LineageSound
    <3> QED
      BY <1>2, <1>3, <3>2
  <2> QED
    BY <2>1, <2>2
<1> QED
  BY <1>5, <1>6 DEF LineageSound

(* Deleting a session's snapshots takes links away and adds none.           *)
LEMMA DeletedLineage ==
  ASSUME Typed, LineageSound, NEW s \in Sessions, DeleteRows(s)
  PROVE  LineageSound'
<1>1. ASSUME NEW y \in SnapshotIds
      PROVE  /\ snapshot'[y].session = IF Owns(s, y) THEN None ELSE snapshot[y].session
             /\ snapshot'[y].parent \in {None, snapshot[y].parent}
             /\ snapshot'[y].parent # None => ~Owns(s, snapshot[y].parent)
  <2>1. snapshot[y] \in Row
    BY DEF Typed, TypeOK
  <2>2. snapshot'[y] = IF Owns(s, y) THEN NoRow
                       ELSE IF snapshot[y].parent # None /\ Owns(s, snapshot[y].parent)
                              THEN [snapshot[y] EXCEPT !.parent = None]
                              ELSE snapshot[y]
    BY DEF DeleteRows
  <2> QED
    BY <2>1, <2>2 DEF NoRow, Row
<1>2. \A y \in SnapshotIds : snapshot[y].parent \in SnapshotIds \cup {None}
  BY DEF Typed, TypeOK, Row, OrNone
<1>3. ASSUME NEW y \in SnapshotIds, snapshot'[y].parent # None
      PROVE  snapshot'[snapshot'[y].parent].session # None
  BY <1>1, <1>2, <1>3, SessionAssumption DEF LineageSound
<1>4. ASSUME NEW some \in (SUBSET SnapshotIds) \ {{}}
      PROVE  \E y \in some : snapshot'[y].parent \notin some
  <2>1. PICK y \in some : snapshot[y].parent \notin some
    BY DEF LineageSound
  <2> QED
    BY <1>1, <2>1, SessionAssumption
<1> QED
  BY <1>3, <1>4 DEF LineageSound

(* Every step keeps the lineage.                                            *)
LEMMA NextLineage == Typed /\ PointerInv /\ LineageSound /\ [Next]_vars => LineageSound'
<1> SUFFICES ASSUME Typed, PointerInv, LineageSound, [Next]_vars PROVE LineageSound'
  OBVIOUS
<1>1. ASSUME UNCHANGED snapshot PROVE LineageSound'
  BY <1>1 DEF LineageSound
<1>2. ASSUME NEW s \in Sessions, NEW x \in SnapshotIds, NEW state \in States,
             Snapshot(s, x, state)
      PROVE  LineageSound'
  <2> DEFINE row == [session |-> s, parent |-> current[s], state |-> state]
  <2>1. row \in Row
    BY DEF Row, OrNone, Typed, TypeOK
  <2>2. row.session # None /\ (row.parent # None => snapshot[row.parent].session # None)
    BY <1>2, SessionAssumption DEF Snapshot, Owns
  <2> HIDE DEF row
  <2> QED
    BY <1>2, <2>1, <2>2, AddedLineage DEF Snapshot, row
<1>3. ASSUME NEW c \in Clients, NEW x \in SnapshotIds, ForkCopy(c, x)
      PROVE  LineageSound'
  <2> DEFINE row == [session |-> call[c].session, parent |-> call[c].from,
                     state |-> snapshot[call[c].from].state]
  <2>1. call[c].session \in Sessions /\ call[c].from \in SnapshotIds
    BY <1>3 DEF ForkCopy, At, Typed, CallOK
  <2>2. row \in Row
    BY <2>1 DEF Row, OrNone, Typed, TypeOK
  <2>3. row.session # None /\ snapshot[row.parent].session # None
    BY <1>3, <2>1, SessionAssumption DEF ForkCopy
  <2> HIDE DEF row
  <2> QED
    BY <1>3, <2>2, <2>3, AddedLineage DEF ForkCopy, row
<1>4. ASSUME NEW s \in Sessions, Destroy(s) PROVE LineageSound'
  BY <1>4, DeletedLineage DEF Destroy
<1>5. ASSUME NEW c \in Clients, Undo(c) PROVE LineageSound'
  BY <1>5, DeletedLineage DEF Undo, Typed, CallOK, At
<1>6. ASSUME NEW s \in Sessions, Record(s) \/ Create(s) PROVE UNCHANGED snapshot
  BY <1>6 DEF Record, Create
<1>7. ASSUME NEW c \in Clients,
             \/ \E s \in Sessions, x \in SnapshotIds : RestoreRead(c, s, x)
             \/ \E p \in Sessions, s \in Sessions : ForkRead(c, p, s)
             \/ ForkCreate(c) \/ UpdateCheck(c) \/ UpdateRow(c) \/ Fail(c) \/ Crash(c)
      PROVE  UNCHANGED snapshot
  BY <1>7 DEF RestoreRead, ForkRead, ForkCreate, UpdateCheck, UpdateRow, Fail, Crash, rows
<1>8. CASE UNCHANGED vars
  BY <1>1, <1>8 DEF vars, rows
<1> QED
  BY <1>1, <1>2, <1>3, <1>4, <1>5, <1>6, <1>7, <1>8 DEF Next

(* SessionLifecycle.LineageSound: the parents of snapshots exist and the    *)
(* chain of them ends, whatever is restored, forked and destroyed.          *)
THEOREM SnapshotsHaveALineage == Spec => []LineageSound
<1>1. Init => LineageSound
  <2> SUFFICES ASSUME Init PROVE LineageSound
    OBVIOUS
  <2>1. \A x \in SnapshotIds : snapshot[x].parent = None
    BY DEF Init, NoRow
  <2>2. ASSUME NEW some \in (SUBSET SnapshotIds) \ {{}}
        PROVE  \E x \in some : snapshot[x].parent \notin some
    BY <2>1, <2>2, SessionAssumption
  <2> QED
    BY <2>1, <2>2 DEF LineageSound
<1> QED
  BY <1>1, NextLineage, AlwaysTyped, PointerInvariant, PTL DEF Spec

-----------------------------------------------------------------------------
(* Half-made children.                                                      *)

Forking(c, s) ==
  /\ call[c].op = "fork"
  /\ call[c].session = s
  /\ pc[c] \in {"copy", "check", "update", "undo"}

(* A fork that goes on, or fails, still answers for its child.              *)
LEMMA ForkGoesOn ==
  ASSUME Typed, NEW c \in Clients, NEW s \in Sessions, Forking(c, s),
         \/ \E x \in SnapshotIds : ForkCopy(c, x)
         \/ UpdateCheck(c)
         \/ Fail(c)
  PROVE  Forking(c, s)'
<1>1. ASSUME NEW x \in SnapshotIds, ForkCopy(c, x) PROVE Forking(c, s)'
  <2>1. call[c] \in Call
    BY DEF Typed, TypeOK
  <2> QED
    BY <1>1, <2>1, OneMoves DEF ForkCopy, Forking, Call
<1>2. CASE UpdateCheck(c)
  BY <1>2, OneMoves DEF UpdateCheck, Forking
<1>3. CASE Fail(c)
  <2>1. Goto(c, "undo", call[c])
    BY <1>3 DEF Fail, Error, Forking, At
  <2> QED
    BY <2>1, OneMoves DEF Forking
<1> QED
  BY <1>1, <1>2, <1>3

(* Every half-made child has a live fork, before and after each step.       *)
LEMMA NextCleansUp == Typed /\ FailedForkCleansUp /\ [Next]_vars => FailedForkCleansUp'
<1> SUFFICES ASSUME Typed, FailedForkCleansUp, [Next]_vars,
                    NEW s \in half'
             PROVE  \E c \in Clients : Forking(c, s)'
  BY DEF FailedForkCleansUp, Forking
<1>b. s \in Sessions
  <2>1. Typed'
    BY NextTyped
  <2> QED
    BY <2>1 DEF Typed, TypeOK
<1>0. s \in half => \E c \in Clients : Forking(c, s)
  BY DEF FailedForkCleansUp, Forking
<1>a. ASSUME UNCHANGED <<pc, call>>, s \in half PROVE \E c \in Clients : Forking(c, s)'
  BY <1>a, <1>0 DEF Forking
<1>1. ASSUME NEW t \in Sessions, Record(t) \/ Create(t) PROVE \E c \in Clients : Forking(c, s)'
  BY <1>1, <1>a DEF Record, Create
<1>2. ASSUME NEW t \in Sessions, NEW x \in SnapshotIds, NEW state \in States,
             Snapshot(t, x, state)
      PROVE  \E c \in Clients : Forking(c, s)'
  BY <1>2, <1>a DEF Snapshot
<1>3. ASSUME NEW t \in Sessions, Destroy(t) PROVE \E c \in Clients : Forking(c, s)'
  BY <1>3, <1>a DEF Destroy, DeleteRows
<1>4. ASSUME NEW d \in Clients, NEW t \in Sessions, NEW x \in SnapshotIds, RestoreRead(d, t, x)
      PROVE  \E c \in Clients : Forking(c, s)'
  BY <1>4, <1>0, OneMoves DEF RestoreRead, Forking, At, rows
<1>5. ASSUME NEW d \in Clients, NEW p \in Sessions, NEW t \in Sessions, ForkRead(d, p, t)
      PROVE  \E c \in Clients : Forking(c, s)'
  BY <1>5, <1>0, OneMoves DEF ForkRead, Forking, At, rows
<1>6. ASSUME NEW d \in Clients, ForkCreate(d)
      PROVE  \E c \in Clients : Forking(c, s)'
  <2>1. CASE call[d].from = None
    BY <1>6, <2>1, <1>0, OneMoves DEF ForkCreate, Forking, At, Done
  <2>2. CASE call[d].from # None /\ s \in half
    BY <1>6, <2>2, <1>0, OneMoves DEF ForkCreate, Forking, At
  <2>3. CASE call[d].from # None /\ s \notin half
    <3>1. s = call[d].session /\ Goto(d, "copy", call[d])
      BY <1>6, <2>3 DEF ForkCreate
    <3>2. call[d].op = "fork"
      BY <1>6 DEF ForkCreate, Typed, CallOK
    <3> QED
      BY <3>1, <3>2, OneMoves DEF Forking
  <2> QED
    BY <2>1, <2>2, <2>3
<1>7. ASSUME NEW d \in Clients,
             \/ \E x \in SnapshotIds : ForkCopy(d, x)
             \/ UpdateCheck(d)
             \/ Fail(d)
      PROVE  \E c \in Clients : Forking(c, s)'
  <2>1. s \in half
    BY <1>7 DEF ForkCopy, UpdateCheck, Fail, rows
  <2>2. PICK c \in Clients : Forking(c, s)
    BY <2>1, <1>0
  <2>3. \A e \in Clients \ {d} : pc'[e] = pc[e] /\ call'[e] = call[e]
    BY <1>7, OneMoves, ErrorMoves DEF ForkCopy, UpdateCheck, Fail
  <2>4. CASE c = d
    BY <1>b, <1>7, <2>2, <2>4, ForkGoesOn
  <2>5. CASE c # d
    BY <2>2, <2>3, <2>5 DEF Forking
  <2> QED
    BY <2>4, <2>5
<1>8. ASSUME NEW d \in Clients, UpdateRow(d) \/ Undo(d) \/ Crash(d)
      PROVE  \E c \in Clients : Forking(c, s)'
  <2>1. s \in half /\ (call[d].op = "fork" => call[d].session # s)
    BY <1>8 DEF UpdateRow, Undo, Crash, DeleteRows
  <2>2. PICK c \in Clients : Forking(c, s)
    BY <2>1, <1>0
  <2>3. c # d
    BY <2>1, <2>2 DEF Forking
  <2>4. \A e \in Clients \ {d} : pc'[e] = pc[e] /\ call'[e] = call[e]
    BY <1>8, OneMoves DEF UpdateRow, Undo, Crash, Done
  <2> QED
    BY <2>2, <2>3, <2>4 DEF Forking
<1>9. CASE UNCHANGED vars
  BY <1>9, <1>a DEF vars, rows
<1> QED
  BY <1>1, <1>2, <1>3, <1>4, <1>5, <1>6, <1>7, <1>8, <1>9 DEF Next

(* No failure of a fork leaves its child behind while the process lives and *)
(* the undo goes through.                                                   *)
THEOREM ForkCleansUp == Spec => []FailedForkCleansUp
<1>1. Init => FailedForkCleansUp
  BY DEF Init, FailedForkCleansUp
<1> QED
  BY <1>1, NextCleansUp, AlwaysTyped, PTL DEF Spec

-----------------------------------------------------------------------------
(* Sessions are isolated: a step that moves one session's pointer leaves    *)
(* the pointers and the snapshots of the others alone.                      *)
THEOREM SessionsIsolated == Spec => Isolation
<1> DEFINE Apart == \A s, t \in Sessions :
                      s # t /\ Touched(s) =>
                        /\ current'[t] = current[t]
                        /\ \A x \in SnapshotIds :
                             Owns(t, x) => /\ snapshot'[x].session = t
                                           /\ snapshot'[x].state = snapshot[x].state
<1>1. Typed /\ PointerInv /\ [Next]_vars => [Apart]_vars
  <2> SUFFICES ASSUME Typed, PointerInv, Next, NEW s \in Sessions, NEW t \in Sessions, s # t,
                      Touched(s)
               PROVE  /\ current'[t] = current[t]
                      /\ \A x \in SnapshotIds :
                           Owns(t, x) => /\ snapshot'[x].session = t
                                         /\ snapshot'[x].state = snapshot[x].state
    OBVIOUS
  <2> USE SessionAssumption
  <2>1. ASSUME NEW u \in Sessions, DeleteRows(u)
        PROVE  /\ current'[t] = current[t]
               /\ \A x \in SnapshotIds :
                    Owns(t, x) => /\ snapshot'[x].session = t
                                  /\ snapshot'[x].state = snapshot[x].state
    <3>1. u = s
      BY <2>1 DEF DeleteRows, Typed, TypeOK, Touched
    <3>2. ASSUME NEW x \in SnapshotIds, Owns(t, x)
          PROVE  snapshot'[x].session = t /\ snapshot'[x].state = snapshot[x].state
      <4>1. ~Owns(s, x) /\ snapshot[x] \in Row
        BY <3>2 DEF Owns, Typed, TypeOK
      <4>2. snapshot'[x] \in {[snapshot[x] EXCEPT !.parent = None], snapshot[x]}
        BY <2>1, <3>1, <4>1 DEF DeleteRows
      <4> QED
        BY <3>2, <4>1, <4>2 DEF Row, Owns
    <3> QED
      BY <2>1, <3>1, <3>2 DEF DeleteRows, Typed, TypeOK
  <2>2. ASSUME NEW u \in Sessions, NEW p, Insert(u, p), UNCHANGED snapshot
        PROVE  /\ current'[t] = current[t]
               /\ \A x \in SnapshotIds :
                    Owns(t, x) => /\ snapshot'[x].session = t
                                  /\ snapshot'[x].state = snapshot[x].state
    BY <2>2 DEF Insert, Owns, Typed, TypeOK, Touched
  <2>3. ASSUME NEW u \in Sessions, NEW x \in SnapshotIds, NEW state \in States,
               Snapshot(u, x, state)
        PROVE  /\ current'[t] = current[t]
               /\ \A y \in SnapshotIds :
                    Owns(t, y) => /\ snapshot'[y].session = t
                                  /\ snapshot'[y].state = snapshot[y].state
    BY <2>3 DEF Snapshot, Owns, Typed, TypeOK, PointerInv, RowsOK, Touched
  <2>4. ASSUME NEW c \in Clients, UpdateRow(c)
        PROVE  /\ current'[t] = current[t]
               /\ \A x \in SnapshotIds :
                    Owns(t, x) => /\ snapshot'[x].session = t
                                  /\ snapshot'[x].state = snapshot[x].state
    BY <2>4 DEF UpdateRow, Owns, Typed, TypeOK, Touched
  <2>5. ASSUME NEW c \in Clients, ForkCreate(c) \/ Undo(c)
        PROVE  call[c].session \in Sessions
    BY <2>5 DEF ForkCreate, Undo, At, Typed, CallOK
  <2>6. ASSUME UNCHANGED <<sessions, current>> PROVE FALSE
    BY <2>6 DEF Touched
  <2>7. CASE \E u \in Sessions : Record(u) \/ Create(u) \/ Destroy(u)
    BY <2>1, <2>2, <2>6, <2>7 DEF Record, Create, Destroy
  <2>8. CASE \E c \in Clients : ForkCreate(c) \/ Undo(c)
    BY <2>1, <2>2, <2>5, <2>8 DEF ForkCreate, Undo
  <2>9. CASE \E c \in Clients :
               \/ \E u \in Sessions, x \in SnapshotIds : RestoreRead(c, u, x)
               \/ \E p \in Sessions, u \in Sessions : ForkRead(c, p, u)
               \/ \E x \in SnapshotIds : ForkCopy(c, x)
               \/ UpdateCheck(c) \/ Fail(c) \/ Crash(c)
    BY <2>6, <2>9 DEF RestoreRead, ForkRead, ForkCopy, UpdateCheck, Fail, Crash, rows
  <2> QED
    BY <2>3, <2>4, <2>7, <2>8, <2>9 DEF Next
<1> QED
  BY <1>1, AlwaysTyped, PointerInvariant, PTL DEF Spec, Isolation
=============================================================================
