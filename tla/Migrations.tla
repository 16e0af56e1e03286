------------------------------ MODULE Migrations ------------------------------
(***************************************************************************)
(* Opening a local database: internal/store/sqlite/migrate.go.  Every      *)
(* command opens the database for itself and brings it up to date: it      *)
(* makes sure the table of applied versions exists, reads it, and applies  *)
(* each migration it knows and did not read, one transaction each.         *)
(* Between the read and the transactions other processes, of this build    *)
(* or an older one, do the same to the same file.                          *)
(***************************************************************************)
EXTENDS Integers, FiniteSets

CONSTANTS
  Processes,  \* commands that open the database
  Count,      \* the number of migrations, in the order of their file names
  Knows,      \* how many of them the build of each process embeds
  Needs,      \* the migrations whose tables a migration alters
  MaxFaults   \* bound: lock timeouts, write errors and killed processes

ASSUME MigrationAssumption ==
  /\ Count \in Nat
  /\ Knows \in [Processes -> 0 .. Count]
  /\ Needs \in [1 .. Count -> SUBSET (1 .. Count)]
  /\ \A m \in 1 .. Count : Needs[m] \subseteq 1 .. (m - 1)
  /\ MaxFaults \in Nat

VARIABLES
  table,     \* whether schema_migrations exists
  versions,  \* the rows of schema_migrations
  schema,    \* the migrations whose tables and columns the database has
  pc,        \* where each process stands
  done,      \* the versions each process has read, and those it has applied
  faults     \* faults so far

database == <<table, versions, schema>>
vars == <<database, pc, done, faults>>

Points == {"start", "load", "apply", "ready", "failed"}

Init ==
  /\ table = FALSE /\ versions = {} /\ schema = {}
  /\ pc = [p \in Processes |-> "start"]
  /\ done = [p \in Processes |-> {}]
  /\ faults = 0

Goto(p, point) == pc' = [pc EXCEPT ![p] = point]

EnsureTable(p) ==
  /\ pc[p] = "start"
  /\ table' = TRUE
  /\ Goto(p, "load")
  /\ UNCHANGED <<versions, schema, done, faults>>

(* Mutation: after a fault the table is taken to be empty.                  *)
LoadAppliedLate(p) ==
  /\ pc[p] = "load"
  /\ done' = [done EXCEPT ![p] = IF faults > 0 THEN {} ELSE versions]
  /\ Goto(p, "apply")
  /\ UNCHANGED <<database, faults>>

LoadApplied(p) ==
  /\ pc[p] = "load"
  /\ done' = [done EXCEPT ![p] = versions]
  /\ Goto(p, "apply")
  /\ UNCHANGED <<database, faults>>

(* Mutation: one version too many is taken to be applied.                   *)
MissingAfter(p) == {m \in 1 .. Knows[p] : \A k \in done[p] : m > k + 1}

(* The loop of Migrate has reached m, the first one that is not done.       *)
Missing(p) == 1 .. Knows[p] \ done[p]
(* Mutation: the migrations are taken in any order.                         *)
TurnAny(p, m) == pc[p] = "apply" /\ m \in Missing(p)

Turn(p, m) ==
  /\ pc[p] = "apply" /\ m \in Missing(p)
  /\ \A k \in Missing(p) : m <= k

(* CREATE TABLE and ADD COLUMN refuse what is there, ALTER TABLE needs its  *)
(* table, and the version is a primary key.                                 *)
Applicable(m) == m \notin schema /\ Needs[m] \subseteq schema /\ m \notin versions

(* Mutation: the version is inserted outside the transaction, and is lost.  *)
ApplyUnrecorded(p, m) ==
  /\ Turn(p, m) /\ Applicable(m)
  /\ schema' = schema \cup {m}
  /\ UNCHANGED <<table, versions, faults>>
  /\ \/ done' = [done EXCEPT ![p] = @ \cup {m}] /\ UNCHANGED pc
     \/ Goto(p, "failed") /\ UNCHANGED done

Apply(p, m) ==
  /\ Turn(p, m) /\ Applicable(m)
  /\ schema' = schema \cup {m}
  /\ versions' = versions \cup {m}
  /\ done' = [done EXCEPT ![p] = @ \cup {m}]
  /\ UNCHANGED <<table, pc, faults>>

Refused(p, m) ==
  /\ Turn(p, m) /\ ~Applicable(m)
  /\ Goto(p, "failed")
  /\ done' = [done EXCEPT ![p] = {}]
  /\ UNCHANGED <<database, faults>>

Opened(p) ==
  /\ pc[p] = "apply" /\ Missing(p) = {}
  /\ Goto(p, "ready")
  /\ done' = [done EXCEPT ![p] = {}]
  /\ UNCHANGED <<database, faults>>

(* A statement fails, or the process is killed inside its transaction: the  *)
(* transaction is rolled back, here or by the next process to open the file.*)
Fault(p) ==
  /\ pc[p] \in {"start", "load", "apply"} /\ faults < MaxFaults
  /\ faults' = faults + 1
  /\ Goto(p, "failed")
  /\ done' = [done EXCEPT ![p] = {}]
  /\ UNCHANGED database

(* The command is run again, after it failed or after it is done.           *)
Again(p) ==
  /\ pc[p] \in {"ready", "failed"}
  /\ Goto(p, "start")
  /\ UNCHANGED <<database, done, faults>>

Step(p) ==
  \/ EnsureTable(p) \/ LoadApplied(p) \/ Opened(p)
  \/ \E m \in 1 .. Knows[p] : Apply(p, m) \/ Refused(p, m)

Next == \E p \in Processes : Step(p) \/ Fault(p) \/ Again(p)

Spec == Init /\ [][Next]_vars

(* A process that runs is scheduled, and a command that failed is run again. *)
FairSpec == Spec /\ \A p \in Processes : WF_vars(Step(p)) /\ WF_vars(pc[p] = "failed" /\ Again(p))

(* The tables and the processes keep their types, and a process has done    *)
(* only what the database lists.                                            *)
TypeOK ==
  /\ table \in BOOLEAN
  /\ versions \subseteq 1 .. Count /\ schema \subseteq 1 .. Count
  /\ pc \in [Processes -> Points]
  /\ done \in [Processes -> SUBSET versions]
  /\ faults \in 0 .. MaxFaults

(* What schema_migrations lists is what the schema has, without a gap, at   *)
(* every moment: applyMigration runs the SQL and the insert in one          *)
(* transaction, and a process that has read old versions is refused.        *)
SchemaAsListed ==
  /\ versions = schema
  /\ \A m \in schema : 1 .. m \subseteq schema

(* A process whose Open has returned finds every table its build uses.      *)
ReadyIsCurrent == \A p \in Processes : pc[p] = "ready" => 1 .. Knows[p] \subseteq schema

(* A command that loses the race for a migration fails, but it does not     *)
(* fail for good: the processes that keep trying all get the database open. *)
EventuallyOpen == \A p \in Processes : pc[p] = "start" ~> pc[p] = "ready"
===============================================================================
