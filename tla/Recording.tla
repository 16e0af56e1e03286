------------------------------ MODULE Recording ------------------------------
(***************************************************************************)
(* Recording, replaying, promoting and deleting runs: the commands record, *)
(* replay, baseline promote, delete-run and delete-session of              *)
(* cmd/stagehand, the recording writer, the session salts and the tables   *)
(* runs, interactions, scrub_salts and baselines.  record-baseline is a    *)
(* record and a promote, test a replay of a baseline's run.                *)
(*                                                                         *)
(* Commands are processes that share the storage directory: the database,  *)
(* where every statement is atomic and record and replay are many of them, *)
(* and the file of the master key.  Statements that only read what the     *)
(* next one reads or enforces again are folded into it.                    *)
(*                                                                         *)
(* A salt stands for its bytes and its id; an interaction for the salt it  *)
(* was scrubbed with.  Salts and keys are random in the code; here they    *)
(* are named after the run (and interaction) they were generated for.      *)
(***************************************************************************)
EXTENDS Integers, Sequences

CONSTANTS
  Commands,   \* processes that run one command after another
  Sessions,   \* session names
  Baselines,  \* baseline ids
  Faults,     \* whether processes die and files and statements fail
  MaxRuns,    \* bound on the runs ever created
  MaxCapture  \* bound on the interactions a managed command captures

ASSUME RecordingAssumption ==
  Faults \in BOOLEAN /\ MaxRuns \in Nat /\ MaxCapture \in Nat

VARIABLES
  runs,          \* the table runs
  interactions,  \* the interactions of each run, by their sequence
  salts,         \* the table scrub_salts
  baselines,     \* the table baselines: the source run of each, 0 for no row
  keyFile,       \* the local master key
  created,       \* the runs ever created; their ids are not used again
  captured,      \* history: how many interactions the capture of a run had
  pc, cmd        \* where each command stands, and its local variables

tables == <<runs, interactions, salts, baselines>>
vars == <<tables, keyFile, created, captured, pc, cmd>>

Runs == 1..MaxRuns
Statuses == {"running", "complete", "incomplete", "corrupted"}
Row == [session : Sessions, status : Statuses]
NoRow == [session |-> "none", status |-> "none"]

NoKey == 0         \* there is no key file
EmptyKey == -1     \* it is there and empty: being written

SaltId == Runs \X (1..MaxCapture)
Salt == [id : SaltId, key : Runs]        \* encrypted with this key
NoSalt == [id |-> <<0, 0>>, key |-> NoKey]

Points == {"idle", "list", "create", "key", "newkey", "writekey", "seed", "child",
           "persist", "salt", "newsalt", "readsalt", "write", "finalize", "again", "promote"}

(* mode, session, the run recorded or promoted, the run replayed, how many  *)
(* interactions there are to replay, how many to persist and how many are,  *)
(* the master key, the salt in use and how the run has failed.              *)
Cmd == [mode : {"none", "record", "replay", "promote"}, session : Sessions \cup {"none"},
        run : Runs \cup {0}, source : Runs \cup {0}, seeds : Nat,
        count : 0..MaxCapture, done : 0..MaxCapture, key : Runs \cup {NoKey},
        salt : SaltId \cup {<<0, 0>>}, failure : {"none", "incomplete", "corrupted"}]
NoCmd == [mode |-> "none", session |-> "none", run |-> 0, source |-> 0, seeds |-> 0,
          count |-> 0, done |-> 0, key |-> NoKey, salt |-> <<0, 0>>, failure |-> "none"]

Init ==
  /\ runs         = [r \in Runs |-> NoRow]
  /\ interactions = [r \in Runs |-> <<>>]
  /\ salts        = [s \in Sessions |-> NoSalt]
  /\ baselines    = [b \in Baselines |-> 0]
  /\ keyFile = NoKey /\ created = 0
  /\ captured = [r \in Runs |-> 0]
  /\ pc  = [p \in Commands |-> "idle"]
  /\ cmd = [p \in Commands |-> NoCmd]

Exists(r) == runs[r] # NoRow

(* The command goes on at this point with these local variables ...         *)
Goto(p, point, locals) ==
  /\ pc'  = [pc EXCEPT ![p] = point]
  /\ cmd' = [cmd EXCEPT ![p] = locals]

(* ... and has returned.                                                    *)
Return(p) == Goto(p, "idle", NoCmd)

(* The import fails: a failure met before stays the failure of the run.     *)
FailImport(p) ==
  Goto(p, "finalize", [cmd[p] EXCEPT !.failure = IF @ = "none" THEN "corrupted" ELSE @])

-----------------------------------------------------------------------------
(* record and replay create a run ...                                       *)

CreateRun(p, session, locals) ==
  /\ created < MaxRuns
  /\ created' = created + 1
  /\ runs' = [runs EXCEPT ![created + 1] = [session |-> session, status |-> "running"]]
  /\ Goto(p, "key", [locals EXCEPT !.session = session, !.run = created + 1])
  /\ UNCHANGED <<interactions, salts, baselines, keyFile, captured>>

Record(p, session) ==
  /\ pc[p] = "idle"
  /\ CreateRun(p, session, [NoCmd EXCEPT !.mode = "record"])

(* Mutation: a run is replayed whatever its status.                         *)
ReplaysAny(r) == Exists(r)

(* ReplayEligible; GetLatestRun looks for no other runs either.             *)
Replayable(r) == runs[r].status = "complete"

(* replay --run-id, or --session with r the latest complete run ...         *)
Select(p, r) ==
  /\ pc[p] = "idle"
  /\ Replayable(r)
  /\ Goto(p, "list", [NoCmd EXCEPT !.mode = "replay", !.session = runs[r].session, !.source = r])
  /\ UNCHANGED <<tables, keyFile, created, captured>>

(* ... reads its interactions, which may be gone by now ...                 *)
List(p) ==
  /\ pc[p] = "list"
  /\ Goto(p, "create", [cmd[p] EXCEPT !.seeds = Len(interactions[cmd[p].source])])
  /\ UNCHANGED <<tables, keyFile, created, captured>>

(* ... or have gone without their events, which makes the run invalid ...   *)
ListTorn(p) ==
  /\ pc[p] = "list"
  /\ ~Exists(cmd[p].source)
  /\ Return(p)
  /\ UNCHANGED <<tables, keyFile, created, captured>>

CreateReplay(p) ==
  /\ pc[p] = "create"
  /\ CreateRun(p, cmd[p].session, cmd[p])

(* ... take the master key from its file, which one of them writes when     *)
(* there is none (loadOrCreateMasterKey; os.WriteFile truncates first) ...  *)
ReadKey(p) ==
  /\ pc[p] = "key"
  /\ \/ /\ keyFile \in Runs
        /\ Goto(p, "seed", [cmd[p] EXCEPT !.key = keyFile])
     \/ /\ keyFile = NoKey
        /\ Goto(p, "newkey", [cmd[p] EXCEPT !.key = cmd[p].run])
     \/ keyFile = EmptyKey /\ Return(p)
  /\ UNCHANGED <<tables, keyFile, created, captured>>

TruncateKey(p) ==
  /\ pc[p] = "newkey"
  /\ keyFile' = EmptyKey
  /\ Goto(p, "writekey", cmd[p])
  /\ UNCHANGED <<tables, created, captured>>

WriteKey(p) ==
  /\ pc[p] = "writekey"
  /\ keyFile' = cmd[p].key
  /\ Goto(p, "seed", cmd[p])
  /\ UNCHANGED <<tables, created, captured>>

(* writeInteractionBundle refuses a bundle of no interactions.              *)
HasSeed(p) == cmd[p].mode = "record" \/ cmd[p].seeds > 0

(* ... and prepare files for the managed command.  An error up to here is   *)
(* returned without finalizeRun.                                            *)
Seed(p) ==
  /\ pc[p] = "seed"
  /\ IF HasSeed(p) THEN Goto(p, "child", cmd[p]) ELSE Return(p)
  /\ UNCHANGED <<tables, keyFile, created, captured>>

SetupFails(p) ==
  /\ Faults
  /\ pc[p] \in {"key", "newkey", "writekey", "seed"}
  /\ Return(p)
  /\ UNCHANGED <<tables, keyFile, created, captured>>

(* The managed command exits, well or not, and has left a capture of n      *)
(* interactions or (n = -1) none that can be read and validated.  What      *)
(* there is of it is imported also when the command failed.                 *)
Child(p, n, exit) ==
  LET failure == IF exit = "failed" THEN "incomplete"
                 ELSE IF n = -1 \/ (n = 0 /\ cmd[p].mode = "replay") THEN "corrupted"
                 ELSE "none" IN
  /\ pc[p] = "child"
  /\ IF n > 0
       THEN Goto(p, "persist", [cmd[p] EXCEPT !.failure = failure, !.count = n])
       ELSE Goto(p, "finalize", [cmd[p] EXCEPT !.failure = failure])
  /\ captured' = [captured EXCEPT ![cmd[p].run] = IF n > 0 THEN n ELSE 0]
  /\ UNCHANGED <<tables, keyFile, created>>

-----------------------------------------------------------------------------
(* Writer.PersistInteraction, for one interaction after another.            *)

LoadRun(p) ==
  /\ pc[p] = "persist"
  /\ IF Exists(cmd[p].run) THEN Goto(p, "salt", cmd[p]) ELSE FailImport(p)
  /\ UNCHANGED <<tables, keyFile, created, captured>>

(* Manager.decrypt: the salt was encrypted with the key at hand, or there   *)
(* is an error.                                                             *)
UseSalt(p) ==
  LET salt == salts[cmd[p].session] IN
  IF salt.key = cmd[p].key THEN Goto(p, "write", [cmd[p] EXCEPT !.salt = salt.id])
                           ELSE FailImport(p)

(* GetOrCreate: the session's salt, ...                                     *)
GetSalt(p) ==
  /\ pc[p] = "salt"
  /\ IF salts[cmd[p].session] # NoSalt THEN UseSalt(p) ELSE Goto(p, "newsalt", cmd[p])
  /\ UNCHANGED <<tables, keyFile, created, captured>>

(* Mutation: the call that comes second uses the salt it generated.         *)
CreateSaltBlindly(p) ==
  LET id == <<cmd[p].run, cmd[p].done + 1>> IN
  /\ pc[p] = "newsalt"
  /\ salts' = [salts EXCEPT ![cmd[p].session] =
                 IF @ = NoSalt THEN [id |-> id, key |-> cmd[p].key] ELSE @]
  /\ Goto(p, "write", [cmd[p] EXCEPT !.salt = id])
  /\ UNCHANGED <<runs, interactions, baselines, keyFile, created, captured>>

(* ... or a new one, if still there is none (CreateScrubSaltIfAbsent), ...  *)
CreateSalt(p) ==
  LET id == <<cmd[p].run, cmd[p].done + 1>> IN
  /\ pc[p] = "newsalt"
  /\ IF salts[cmd[p].session] = NoSalt
       THEN /\ salts' = [salts EXCEPT ![cmd[p].session] = [id |-> id, key |-> cmd[p].key]]
            /\ Goto(p, "write", [cmd[p] EXCEPT !.salt = id])
       ELSE /\ Goto(p, "readsalt", cmd[p])
            /\ UNCHANGED salts
  /\ UNCHANGED <<runs, interactions, baselines, keyFile, created, captured>>

(* ... else the one that another command has created meanwhile.             *)
ReadSalt(p) ==
  /\ pc[p] = "readsalt"
  /\ UseSalt(p)
  /\ UNCHANGED <<tables, keyFile, created, captured>>

(* WriteInteraction, whose foreign key needs the run.                       *)
Write(p) ==
  /\ pc[p] = "write"
  /\ IF Exists(cmd[p].run)
       THEN /\ interactions' = [interactions EXCEPT ![cmd[p].run] = Append(@, cmd[p].salt)]
            /\ Goto(p, IF cmd[p].done + 1 = cmd[p].count THEN "finalize" ELSE "persist",
                    [cmd[p] EXCEPT !.done = @ + 1, !.salt = <<0, 0>>])
       ELSE FailImport(p) /\ UNCHANGED interactions
  /\ UNCHANGED <<runs, salts, baselines, keyFile, created, captured>>

(* A statement fails, or a parent interaction comes after its child.        *)
ImportFails(p) ==
  /\ Faults
  /\ pc[p] \in {"persist", "salt", "newsalt", "readsalt", "write"}
  /\ FailImport(p)
  /\ UNCHANGED <<tables, keyFile, created, captured>>

-----------------------------------------------------------------------------
(* finalizeRun                                                              *)

(* Mutation: a run is complete if its capture could be read.                *)
StatusIgnoringImport(p) == IF cmd[p].failure = "incomplete" THEN "incomplete" ELSE "complete"

(* Mutation: the status of a run that has not failed is not set.            *)
StatusOnlyOnFailure(p) == cmd[p].failure

FinalStatus(p) == IF cmd[p].failure = "none" THEN "complete" ELSE cmd[p].failure

(* Mutation: the row is written whether it is there or not.                 *)
UpsertRun(r, status, session) ==
  runs' = [runs EXCEPT ![r] = [session |-> session, status |-> status]]

(* UpdateRun: an UPDATE, which changes nothing when the run is gone.        *)
UpdateRun(r, status, session) ==
  runs' = IF Exists(r) THEN [runs EXCEPT ![r].status = status] ELSE runs

(* record tries once more, in its deferred function, when it returns an     *)
(* error of finalizeRun, and by then that is the error of the run.          *)
AfterError(p) == IF cmd[p].mode = "record" THEN Goto(p, "again", cmd[p]) ELSE Return(p)

Finalize(p) ==
  /\ pc[p] = "finalize"
  /\ UpdateRun(cmd[p].run, FinalStatus(p), cmd[p].session)
  /\ IF Exists(cmd[p].run) THEN Return(p) ELSE AfterError(p)
  /\ UNCHANGED <<interactions, salts, baselines, keyFile, created, captured>>

FinalizeFails(p) ==
  /\ Faults
  /\ pc[p] = "finalize"
  /\ AfterError(p)
  /\ UNCHANGED <<tables, keyFile, created, captured>>

FinalizeAgain(p) ==
  /\ pc[p] = "again"
  /\ Return(p)
  /\ \/ UpdateRun(cmd[p].run, "corrupted", cmd[p].session)
     \/ Faults /\ UNCHANGED runs
  /\ UNCHANGED <<interactions, salts, baselines, keyFile, created, captured>>

(* The process dies.                                                        *)
Crash(p) ==
  /\ Faults
  /\ pc[p] # "idle"
  /\ Return(p)
  /\ UNCHANGED <<tables, keyFile, created, captured>>

-----------------------------------------------------------------------------
(* baseline promote: PutBaseline checks the run, then inserts the row or    *)
(* moves the one with this id.                                              *)
PromoteCheck(p, r) ==
  /\ pc[p] = "idle"
  /\ runs[r].status = "complete"
  /\ Goto(p, "promote", [NoCmd EXCEPT !.mode = "promote", !.run = r])
  /\ UNCHANGED <<tables, keyFile, created, captured>>

(* Mutation: the row refers to a run without a foreign key.                 *)
PromoteDangling(p, b) ==
  /\ pc[p] = "promote"
  /\ baselines' = [baselines EXCEPT ![b] = cmd[p].run]
  /\ Return(p)
  /\ UNCHANGED <<runs, interactions, salts, keyFile, created, captured>>

PromoteInsert(p, b) ==
  /\ pc[p] = "promote"
  /\ baselines' = IF Exists(cmd[p].run) THEN [baselines EXCEPT ![b] = cmd[p].run] ELSE baselines
  /\ Return(p)
  /\ UNCHANGED <<runs, interactions, salts, keyFile, created, captured>>

(* The rows of these runs and, ON DELETE CASCADE, what refers to them.      *)
DeleteRuns(gone) ==
  /\ runs' = [r \in Runs |-> IF r \in gone THEN NoRow ELSE runs[r]]
  /\ interactions' = [r \in Runs |-> IF r \in gone THEN <<>> ELSE interactions[r]]
  /\ baselines' = [b \in Baselines |-> IF baselines[b] \in gone THEN 0 ELSE baselines[b]]

DeleteRun(r) ==
  /\ Exists(r)
  /\ DeleteRuns({r})
  /\ UNCHANGED <<salts, keyFile, created, captured, pc, cmd>>

(* One transaction, which also deletes the salt.                            *)
DeleteSession(s) ==
  LET gone == {r \in Runs : runs[r].session = s} IN
  /\ gone # {} \/ salts[s] # NoSalt
  /\ DeleteRuns(gone)
  /\ salts' = [salts EXCEPT ![s] = NoSalt]
  /\ UNCHANGED <<keyFile, created, captured, pc, cmd>>

-----------------------------------------------------------------------------
Step(p) ==
  \/ List(p) \/ ListTorn(p) \/ CreateReplay(p)
  \/ ReadKey(p) \/ TruncateKey(p) \/ WriteKey(p) \/ Seed(p) \/ SetupFails(p)
  \/ \E n \in -1..MaxCapture, exit \in {"ok", "failed"} : Child(p, n, exit)
  \/ LoadRun(p) \/ GetSalt(p) \/ CreateSalt(p) \/ ReadSalt(p) \/ Write(p) \/ ImportFails(p)
  \/ Finalize(p) \/ FinalizeFails(p) \/ FinalizeAgain(p)
  \/ \E b \in Baselines : PromoteInsert(p, b)
  \/ Crash(p)

Next ==
  \/ \E p \in Commands, s \in Sessions : Record(p, s)
  \/ \E p \in Commands, r \in Runs : Select(p, r) \/ PromoteCheck(p, r)
  \/ \E p \in Commands : Step(p)
  \/ \E r \in Runs : DeleteRun(r)
  \/ \E s \in Sessions : DeleteSession(s)

Spec == Init /\ [][Next]_vars

-----------------------------------------------------------------------------
(* Properties.                                                              *)

TypeOK ==
  /\ runs \in [Runs -> Row \cup {NoRow}]
  /\ interactions \in [Runs -> Seq(SaltId)]
  /\ salts \in [Sessions -> Salt \cup {NoSalt}]
  /\ baselines \in [Baselines -> Runs \cup {0}]
  /\ keyFile \in Runs \cup {NoKey, EmptyKey}
  /\ created \in 0..MaxRuns
  /\ captured \in [Runs -> 0..MaxCapture]
  /\ pc \in [Commands -> Points]
  /\ cmd \in [Commands -> Cmd]

(* Replacements stay joinable inside a session: every stored interaction of *)
(* its runs was scrubbed with the salt the session has now, however many    *)
(* commands create the first one and whoever deletes the session while a    *)
(* command holds its salt in memory.                                        *)
OneSalt ==
  \A r \in Runs : Exists(r) =>
    \A i \in 1..Len(interactions[r]) :
      /\ salts[runs[r].session] # NoSalt
      /\ interactions[r][i] = salts[runs[r].session].id

(* A run is complete only with every interaction of its capture: no failure *)
(* or deletion while they are written one by one ends in a complete run     *)
(* that lacks some.                                                         *)
CompleteIsWhole ==
  \A r \in Runs : runs[r].status = "complete" => Len(interactions[r]) = captured[r]

(* A managed command is replayed against all that its source run recorded,  *)
(* or not at all, also when the source is deleted while it is read.         *)
ReplaysWholeRun ==
  \A p \in Commands :
    pc[p] = "child" /\ cmd[p].mode = "replay" =>
      cmd[p].seeds = captured[cmd[p].source] /\ cmd[p].seeds > 0

(* A baseline stands for a complete run that is still stored, although its  *)
(* check and its insertion are two statements.                              *)
BaselineComplete ==
  \A b \in Baselines : baselines[b] # 0 =>
    Exists(baselines[b]) /\ runs[baselines[b]].status = "complete"

(* Runs go one way: a deleted run stays deleted though its command goes on  *)
(* importing and finalizing it; a complete run stays complete, with its     *)
(* interactions, until it is deleted.                                       *)
OneWay ==
  [][\A r \in Runs :
       /\ r <= created /\ ~Exists(r) => runs'[r] = NoRow
       /\ runs[r].status = "complete" =>
            \/ runs'[r] = NoRow
            \/ runs'[r] = runs[r] /\ interactions'[r] = interactions[r]]_vars

(* "finalizeRun always moves a running run to a terminal lifecycle status"  *)
(* (docs/runtime-resilience.md): no run is left running by a command that   *)
(* has returned.  Stated without faults: nothing dies or fails.             *)
NoRunLeftRunning ==
  \A r \in Runs : runs[r].status = "running" => \E p \in Commands : cmd[p].run = r
=============================================================================
