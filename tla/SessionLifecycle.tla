--------------------------- MODULE SessionLifecycle ---------------------------
(***************************************************************************)
(* Runtime sessions and their snapshots: internal/runtime/session on the   *)
(* SQLite store.  Create, Snapshot and Destroy are one transaction each.   *)
(* Restore and Fork are several statements, and the steps of other calls,  *)
(* in this process or another, fall between them: a Destroy, or a Destroy  *)
(* and a new session of the same name.                                     *)
(*                                                                         *)
(* Statements that only read a snapshot again are folded into the next     *)
(* step that depends on it: a snapshot row never changes its session or    *)
(* state, so a second read can only differ by not finding it, and a failed *)
(* read is the action Fail.                                                *)
(***************************************************************************)
EXTENDS Integers

CONSTANTS
  Sessions,    \* session names
  Reusable,    \* the names created again after their session was destroyed
  Recording,   \* the names that runs are recorded under
  Clients,     \* callers of a session manager
  SnapshotIds, \* snapshot ids, random in the code and so never issued twice
  States,      \* what a snapshot holds: the simulators' state
  None         \* SQL NULL, or no row

ASSUME SessionAssumption ==
  /\ Reusable \subseteq Sessions
  /\ Recording \subseteq Sessions
  /\ None \notin Sessions \cup SnapshotIds \cup States

VARIABLES
  sessions,  \* the names that have a row in the table sessions
  parent,    \* parent_session_name
  current,   \* current_snapshot_id
  snapshot,  \* the table session_snapshots
  issued,    \* the snapshot ids generated so far
  recorded,  \* the names with recorded runs, salts or baselines of their own
  retired,   \* history: the names whose session was destroyed
  half,      \* history: sessions a Fork has created and not finished
  pc, call   \* where each client's call stands, and its local variables

rows == <<sessions, parent, current, snapshot, issued, recorded, retired, half>>
vars == <<rows, pc, call>>

OrNone(S) == S \cup {None}

Row == [session : OrNone(Sessions), parent : OrNone(SnapshotIds), state : OrNone(States)]
NoRow == [session |-> None, parent |-> None, state |-> None]

Points == {"idle", "create", "copy", "check", "update", "undo"}

(* op, the session written, the parent column to write, the snapshot read   *)
(* (Fork) and the snapshot to point at.                                     *)
Call == [op : {"none", "restore", "fork"}, session : OrNone(Sessions),
         parent : OrNone(Sessions), from : OrNone(SnapshotIds), to : OrNone(SnapshotIds)]
NoCall == [op |-> "none", session |-> None, parent |-> None, from |-> None, to |-> None]

Init ==
  /\ sessions = {} /\ recorded = {} /\ retired = {} /\ half = {} /\ issued = {}
  /\ parent   = [s \in Sessions |-> None]
  /\ current  = [s \in Sessions |-> None]
  /\ snapshot = [x \in SnapshotIds |-> NoRow]
  /\ pc       = [c \in Clients |-> "idle"]
  /\ call     = [c \in Clients |-> NoCall]

At(c, point) == pc[c] = point

Goto(c, point, locals) ==
  /\ pc'   = [pc EXCEPT ![c] = point]
  /\ call' = [call EXCEPT ![c] = locals]

Done(c) == Goto(c, "idle", NoCall)

(* Mutation: an error ends a Fork like any other call.                      *)
ErrorWithoutUndo(c) == Done(c)

(* An error of a Fork that has created its child leads to the undo.         *)
Error(c) == IF call[c].op = "fork" /\ ~At(c, "create")
              THEN Goto(c, "undo", call[c])
              ELSE Done(c)

Owns(s, x) == snapshot[x].session = s

-----------------------------------------------------------------------------
(* Calls of one transaction.                                                *)

(* A recording command stores runs under a name, with or without a session. *)
Record(s) ==
  /\ s \in Recording \ recorded
  /\ recorded' = recorded \cup {s}
  /\ UNCHANGED <<sessions, parent, current, snapshot, issued, retired, half, pc, call>>

CanInsert(s) == s \notin sessions /\ (s \in retired => s \in Reusable)

(* Mutation: the parent's name goes to the wrong column.                    *)
InsertSwapsColumns(s, p) ==
  /\ CanInsert(s)
  /\ sessions' = sessions \cup {s}
  /\ parent'   = [parent EXCEPT ![s] = None]
  /\ current'  = [current EXCEPT ![s] = p]

Insert(s, p) ==
  /\ CanInsert(s)
  /\ sessions' = sessions \cup {s}
  /\ parent'   = [parent EXCEPT ![s] = p]
  /\ current'  = [current EXCEPT ![s] = None]

Create(s) ==
  /\ Insert(s, None)
  /\ UNCHANGED <<snapshot, issued, recorded, retired, half, pc, call>>

(* AppendSessionSnapshot: the new snapshot follows the current one and      *)
(* becomes current, in one immediate transaction.  A pointer to a snapshot  *)
(* that is gone, or of another session, is an error.                        *)
Snapshot(s, x, state) ==
  /\ s \in sessions
  /\ x \notin issued
  /\ current[s] # None => Owns(s, current[s])
  /\ snapshot' = [snapshot EXCEPT ![x] = [session |-> s, parent |-> current[s], state |-> state]]
  /\ current'  = [current EXCEPT ![s] = x]
  /\ issued'   = issued \cup {x}
  /\ UNCHANGED <<sessions, parent, recorded, retired, half, pc, call>>

(* Mutation: snapshots that follow a deleted one keep the link to it.       *)
DeleteRowsKeepsLinks(s) ==
  /\ sessions' = sessions \ {s}
  /\ parent'   = [t \in Sessions |-> IF t = s \/ parent[t] = s THEN None ELSE parent[t]]
  /\ current'  = [current EXCEPT ![s] = None]
  /\ snapshot' = [x \in SnapshotIds |-> IF Owns(s, x) THEN NoRow ELSE snapshot[x]]
  /\ recorded' = recorded \ {s}
  /\ retired'  = IF s \in sessions THEN retired \cup {s} ELSE retired
  /\ half'     = half \ {s}
  /\ UNCHANGED issued

(* Mutation: the snapshots that follow a deleted one are deleted with it.   *)
DeleteRowsCascades(s) ==
  /\ sessions' = sessions \ {s}
  /\ parent'   = [t \in Sessions |-> IF t = s \/ parent[t] = s THEN None ELSE parent[t]]
  /\ current'  = [current EXCEPT ![s] = None]
  /\ snapshot' = [x \in SnapshotIds |->
                    IF \/ Owns(s, x)
                       \/ snapshot[x].parent # None /\ Owns(s, snapshot[x].parent)
                      THEN NoRow
                      ELSE snapshot[x]]
  /\ recorded' = recorded \ {s}
  /\ retired'  = IF s \in sessions THEN retired \cup {s} ELSE retired
  /\ half'     = half \ {s}
  /\ UNCHANGED issued

(* DeleteSession: every row under the name, the cascade to its snapshots,   *)
(* and SET NULL where another session or snapshot named one of them parent. *)
DeleteRows(s) ==
  /\ sessions' = sessions \ {s}
  /\ parent'   = [t \in Sessions |-> IF t = s \/ parent[t] = s THEN None ELSE parent[t]]
  /\ current'  = [current EXCEPT ![s] = None]
  /\ snapshot' = [x \in SnapshotIds |->
                    IF Owns(s, x) THEN NoRow
                    ELSE IF snapshot[x].parent # None /\ Owns(s, snapshot[x].parent)
                           THEN [snapshot[x] EXCEPT !.parent = None]
                           ELSE snapshot[x]]
  /\ recorded' = recorded \ {s}
  /\ retired'  = IF s \in sessions THEN retired \cup {s} ELSE retired
  /\ half'     = half \ {s}
  /\ UNCHANGED issued

Destroy(s) ==
  /\ s \in sessions \cup recorded
  /\ DeleteRows(s)
  /\ UNCHANGED <<pc, call>>

-----------------------------------------------------------------------------
(* Restore: read the session, check whose snapshot it is, write the row.    *)
(* The snapshot of another session is refused and nothing happens.          *)

RestoreRead(c, s, x) ==
  /\ At(c, "idle")
  /\ s \in sessions
  /\ Owns(s, x)
  /\ Goto(c, "check", [op |-> "restore", session |-> s, parent |-> parent[s],
                       from |-> None, to |-> x])
  /\ UNCHANGED rows

(* Fork: read the parent's row ...                                          *)
ForkRead(c, p, s) ==
  /\ At(c, "idle")
  /\ p \in sessions
  /\ Goto(c, "create", [op |-> "fork", session |-> s, parent |-> p,
                        from |-> current[p], to |-> None])
  /\ UNCHANGED rows

(* ... create the child; the foreign key wants the parent's row, or its own *)
(* when a session is forked to its own name after it was destroyed.  With   *)
(* no snapshot to copy the fork is done.                                    *)
ForkCreate(c) ==
  LET s == call[c].session IN
  /\ At(c, "create")
  /\ call[c].parent \in sessions \cup {s}
  /\ Insert(s, call[c].parent)
  /\ IF call[c].from = None
       THEN Done(c) /\ UNCHANGED half
       ELSE Goto(c, "copy", call[c]) /\ half' = half \cup {s}
  /\ UNCHANGED <<snapshot, issued, recorded, retired>>

(* Mutation: the state is read from what the parent points at by now.       *)
ForkCopyLatest(c, x) ==
  LET s == call[c].session
      latest == current[call[c].parent] IN
  /\ At(c, "copy")
  /\ s \in sessions
  /\ snapshot[call[c].from].session # None
  /\ latest # None
  /\ x \notin issued
  /\ snapshot' = [snapshot EXCEPT ![x] = [session |-> s, parent |-> call[c].from,
                                          state |-> snapshot[latest].state]]
  /\ issued' = issued \cup {x}
  /\ Goto(c, "check", [call[c] EXCEPT !.to = x])
  /\ UNCHANGED <<sessions, parent, current, recorded, retired, half>>

(* ... copy the snapshot read at the start, which must still be there.      *)
ForkCopy(c, x) ==
  LET s == call[c].session
      from == call[c].from IN
  /\ At(c, "copy")
  /\ s \in sessions
  /\ snapshot[from].session # None
  /\ x \notin issued
  /\ snapshot' = [snapshot EXCEPT ![x] = [session |-> s, parent |-> from,
                                          state |-> snapshot[from].state]]
  /\ issued' = issued \cup {x}
  /\ Goto(c, "check", [call[c] EXCEPT !.to = x])
  /\ UNCHANGED <<sessions, parent, current, recorded, retired, half>>

(* UpdateSession, for both: the snapshot is the session's own ...           *)
UpdateCheck(c) ==
  /\ At(c, "check")
  /\ Owns(call[c].session, call[c].to)
  /\ Goto(c, "update", call[c])
  /\ UNCHANGED rows

(* Mutation: a forked child shares the snapshot of its parent.              *)
UpdateRowShares(c) ==
  LET s == call[c].session IN
  /\ At(c, "update")
  /\ s \in sessions
  /\ call[c].parent \in sessions \cup {None}
  /\ current' = [current EXCEPT ![s] = IF call[c].op = "fork" THEN call[c].from ELSE call[c].to]
  /\ parent'  = [parent EXCEPT ![s] = call[c].parent]
  /\ half'    = IF call[c].op = "fork" THEN half \ {s} ELSE half
  /\ Done(c)
  /\ UNCHANGED <<sessions, snapshot, issued, recorded, retired>>

(* ... and in a second statement the whole row is written, the parent as it *)
(* was read at the start.                                                   *)
UpdateRow(c) ==
  LET s == call[c].session IN
  /\ At(c, "update")
  /\ s \in sessions
  /\ call[c].parent \in sessions \cup {None}
  /\ current' = [current EXCEPT ![s] = call[c].to]
  /\ parent'  = [parent EXCEPT ![s] = call[c].parent]
  /\ half'    = IF call[c].op = "fork" THEN half \ {s} ELSE half
  /\ Done(c)
  /\ UNCHANGED <<sessions, snapshot, issued, recorded, retired>>

(* A statement fails: the row is gone, the snapshot is gone or is not the   *)
(* session's own, a foreign key, a busy database.                           *)
Fail(c) ==
  /\ pc[c] \in {"create", "copy", "check", "update"}
  /\ Error(c)
  /\ UNCHANGED rows

(* A failed Fork deletes the child it created, by name.                     *)
Undo(c) ==
  /\ At(c, "undo")
  /\ DeleteRows(call[c].session)
  /\ Done(c)

(* The process dies, or the undo fails and its error is dropped.            *)
Crash(c) ==
  /\ pc[c] # "idle"
  /\ half' = IF call[c].op = "fork" THEN half \ {call[c].session} ELSE half
  /\ Done(c)
  /\ UNCHANGED <<sessions, parent, current, snapshot, issued, recorded, retired>>

-----------------------------------------------------------------------------
Next ==
  \/ \E s \in Sessions :
       \/ Record(s)
       \/ Create(s)
       \/ Destroy(s)
       \/ \E x \in SnapshotIds, state \in States : Snapshot(s, x, state)
  \/ \E c \in Clients :
       \/ \E s \in Sessions, x \in SnapshotIds : RestoreRead(c, s, x)
       \/ \E p \in Sessions, s \in Sessions : ForkRead(c, p, s)
       \/ ForkCreate(c)
       \/ \E x \in SnapshotIds : ForkCopy(c, x)
       \/ UpdateCheck(c)
       \/ UpdateRow(c)
       \/ Fail(c)
       \/ Undo(c)
       \/ Crash(c)

Spec == Init /\ [][Next]_vars

-----------------------------------------------------------------------------
(* Properties.                                                              *)

TypeOK ==
  /\ sessions \subseteq Sessions
  /\ parent \in [Sessions -> OrNone(Sessions)]
  /\ current \in [Sessions -> OrNone(SnapshotIds)]
  /\ snapshot \in [SnapshotIds -> Row]
  /\ issued \subseteq SnapshotIds
  /\ recorded \subseteq Sessions
  /\ retired \subseteq Sessions
  /\ half \subseteq Sessions
  /\ pc \in [Clients -> Points]
  /\ call \in [Clients -> Call]

PointsAtOwn(s) == s \in sessions /\ current[s] # None => Owns(s, current[s])

(* A session points at a snapshot of its own that exists, although it is    *)
(* checked in one statement and written in another: as long as its name is  *)
(* not used again after a Destroy.  (A Restore across which its session is  *)
(* destroyed and created again leaves the new one with the old pointer.)    *)
PointerOwned == \A s \in Sessions \ Reusable : PointsAtOwn(s)

(* A fork starts from what its parent held: a snapshot that follows one of  *)
(* another session is a copy of it, also when the parent moves on or is     *)
(* restored while the fork runs.                                            *)
ForkCopiesState ==
  \A x, y \in SnapshotIds :
    /\ snapshot[x].session # None
    /\ snapshot[x].parent = y
    /\ snapshot[y].session # snapshot[x].session
    => snapshot[x].state = snapshot[y].state

(* A fork that fails leaves no half-made child behind, unless its process   *)
(* dies or the undo fails too: a session a fork has created and not         *)
(* finished is one a live fork still works on.                              *)
FailedForkCleansUp ==
  \A s \in half :
    \E c \in Clients : /\ call[c].op = "fork" /\ call[c].session = s
                       /\ pc[c] \in {"copy", "check", "update", "undo"}

(* Parent links go from snapshots to snapshots that exist, and never round  *)
(* in a circle: of any snapshots one has no parent among them, the oldest,  *)
(* whatever restores, forks and destroys happened in between.               *)
LineageSound ==
  /\ \A x \in SnapshotIds :
       snapshot[x].parent # None => snapshot[snapshot[x].parent].session # None
  /\ \A some \in (SUBSET SnapshotIds) \ {{}} : \E x \in some : snapshot[x].parent \notin some

(* A call on one session, which moves its pointer, creates or destroys it,  *)
(* leaves the pointer and the snapshot states of the others alone; only     *)
(* links to what a Destroy removed are cleared.                             *)
Touched(s) == current'[s] # current[s] \/ (s \in sessions /\ s \notin sessions')
                                       \/ (s \notin sessions /\ s \in sessions')

Isolation ==
  [][\A s, t \in Sessions :
       s # t /\ Touched(s) =>
         /\ current'[t] = current[t]
         /\ \A x \in SnapshotIds :
              Owns(t, x) => /\ snapshot'[x].session = t
                            /\ snapshot'[x].state = snapshot[x].state]_vars
=============================================================================
