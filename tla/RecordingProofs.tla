---------------------------- MODULE RecordingProofs ----------------------------
(***************************************************************************)
(* What holds of runs, salts and baselines for any commands, sessions and  *)
(* captures, whatever dies or fails.                                       *)
(***************************************************************************)
EXTENDS Recording, TLAPS

(* Where a command has a run of its own, where it has not yet imported      *)
(* anything, where it imports, and where it knows the master key.           *)
Early == {"key", "newkey", "writekey", "seed", "child"}
Importing == {"persist", "salt", "newsalt", "readsalt", "write"}
RunPoints == Early \cup Importing \cup {"finalize", "again"}
KeyPoints == {"newkey", "writekey", "seed", "child"} \cup Importing

-----------------------------------------------------------------------------
(* Typing.                                                                  *)

(* What a command's local variables are at each point, n runs having been   *)
(* created.                                                                 *)
LocalsOK(point, l, n) ==
  /\ point \in RunPoints =>
       l.run \in 1..n /\ l.session \in Sessions /\ l.mode \in {"record", "replay"}
  /\ point \in {"list", "create"} => l.mode = "replay" /\ l.session \in Sessions
  /\ point \in RunPoints \cup {"list", "create"} /\ l.mode = "replay" => l.source \in 1..n
  /\ point \in Early \cup {"list", "create"} => l.done = 0
  /\ point \in KeyPoints => l.key \in Runs
  /\ point \in Importing => l.done < l.count
  /\ point = "write" => l.salt \in SaltId
  /\ point = "promote" => l.run \in 1..n

(* Runs that were never created are not there.                              *)
Fresh == \A r \in Runs : r > created => runs[r] = NoRow

CommandsTyped ==
  /\ pc \in [Commands -> Points]
  /\ cmd \in [Commands -> Cmd]
  /\ \A p \in Commands : LocalsOK(pc[p], cmd[p], created)

Typed == TypeOK /\ Fresh /\ CommandsTyped

-----------------------------------------------------------------------------
(* The invariant.                                                           *)

(* A command's run, while it is there, is running, and holds what the       *)
(* command has imported so far, scrubbed with the session's salt; what it   *)
(* read of its source run is all of it or, when it was gone, nothing; a run *)
(* it is to promote is complete or gone.                                    *)
Owned(point, l, rs, is, ss, cp) ==
  /\ point \in RunPoints /\ rs[l.run] # NoRow =>
       /\ rs[l.run] = [session |-> l.session, status |-> "running"]
       /\ point \in Early => is[l.run] = <<>>
       /\ point \in Importing => Len(is[l.run]) = l.done /\ cp[l.run] = l.count
       /\ point = "finalize" /\ l.failure = "none" => Len(is[l.run]) = cp[l.run]
       /\ point \in {"readsalt", "write"} => ss[l.session] # NoSalt
       /\ point = "write" => l.salt = ss[l.session].id
  /\ point = "list" /\ rs[l.source] # NoRow => rs[l.source].status = "complete"
  /\ point \in Early \cup {"create"} /\ l.mode = "replay" => l.seeds \in {0, cp[l.source]}
  /\ point = "child" /\ l.mode = "replay" => l.seeds > 0
  /\ point = "promote" /\ rs[l.run] # NoRow => rs[l.run].status = "complete"

AllOwned == \A p \in Commands : Owned(pc[p], cmd[p], runs, interactions, salts, captured)

(* Commands work on runs of their own.                                      *)
Distinct ==
  \A p, q \in Commands :
    p # q /\ pc[p] \in RunPoints /\ pc[q] \in RunPoints => cmd[p].run # cmd[q].run

(* No run that is being replayed still awaits its capture.                  *)
Settled ==
  \A p, q \in Commands :
    /\ pc[p] \in Early \cup {"list", "create"} /\ cmd[p].mode = "replay"
    /\ pc[q] \in Early
    => cmd[q].run # cmd[p].source

(* Deleted runs have no interactions.                                       *)
Emptied == \A r \in Runs : ~Exists(r) => interactions[r] = <<>>

IInv ==
  /\ Typed
  /\ AllOwned
  /\ Distinct
  /\ Settled
  /\ Emptied
  /\ OneSalt
  /\ CompleteIsWhole
  /\ BaselineComplete

-----------------------------------------------------------------------------
(* Type correctness.                                                        *)

(* The points by name.                                                      *)
LEMMA PointNames ==
  /\ RunPoints \subseteq Points /\ KeyPoints \subseteq RunPoints
  /\ Early \subseteq RunPoints /\ Importing \subseteq KeyPoints
  /\ {"idle", "list", "create", "promote"} \subseteq Points
BY DEF RunPoints, KeyPoints, Early, Importing, Points

(* The locals of no command are typed.                                      *)
LEMMA NoCmdTyped == NoCmd \in Cmd
BY RecordingAssumption DEF NoCmd, Cmd

(* A command that moves to a point with locals that fit it stays typed.     *)
LEMMA GotoTyped ==
  ASSUME Typed, created' \in Nat, created' >= created,
         NEW p \in Commands, NEW point \in Points, NEW l \in Cmd,
         Goto(p, point, l), LocalsOK(point, l, created')
  PROVE  CommandsTyped'
<1>1. pc' = [pc EXCEPT ![p] = point] /\ cmd' = [cmd EXCEPT ![p] = l]
  BY DEF Goto
<1>2. created \in Nat
  BY RecordingAssumption DEF Typed, TypeOK
<1>3. ASSUME NEW q \in Commands PROVE LocalsOK(pc'[q], cmd'[q], created')
  <2>1. CASE q = p
    BY <1>1, <2>1 DEF Typed, CommandsTyped
  <2>2. CASE q # p
    <3>1. pc'[q] = pc[q] /\ cmd'[q] = cmd[q] /\ LocalsOK(pc[q], cmd[q], created)
      BY <1>1, <2>2 DEF Typed, CommandsTyped
    <3>2. \A x : x \in 1..created => x \in 1..created'
      BY <1>2
    <3> QED
      BY <3>1, <3>2 DEF LocalsOK
  <2> QED
    BY <2>1, <2>2
<1> QED
  BY <1>1, <1>3 DEF Typed, CommandsTyped

(* So does one that returns.                                                *)
LEMMA ReturnTyped ==
  ASSUME Typed, UNCHANGED created, NEW p \in Commands, Return(p)
  PROVE  CommandsTyped'
<1>1. LocalsOK("idle", NoCmd, created')
  BY DEF LocalsOK, RunPoints, Early, Importing, KeyPoints
<1>2. created' \in Nat /\ created' >= created
  BY RecordingAssumption DEF Typed, TypeOK
<1> QED
  BY <1>1, <1>2, PointNames, NoCmdTyped, GotoTyped DEF Return

(* So does one whose import fails.                                          *)
LEMMA FailImportTyped ==
  ASSUME Typed, UNCHANGED created, NEW p \in Commands, pc[p] \in Importing, FailImport(p)
  PROVE  CommandsTyped'
<1>1. PICK f \in {"none", "incomplete", "corrupted"} :
        Goto(p, "finalize", [cmd[p] EXCEPT !.failure = f])
  BY DEF FailImport, Typed, CommandsTyped, Cmd
<1> DEFINE l == [cmd[p] EXCEPT !.failure = f]
<1>2. l \in Cmd
  BY DEF Typed, CommandsTyped, Cmd
<1>3. LocalsOK("finalize", l, created')
  BY PointNames DEF LocalsOK, Typed, CommandsTyped, Cmd, RunPoints, Early, Importing, KeyPoints
<1>4. created' \in Nat /\ created' >= created /\ "finalize" \in Points
  BY RecordingAssumption DEF Typed, TypeOK, Points
<1> QED
  BY <1>1, <1>2, <1>3, <1>4, GotoTyped

(* Steps that leave every command where it is keep the commands typed.      *)
LEMMA SameCommandsTyped ==
  ASSUME Typed, UNCHANGED <<created, pc, cmd>>
  PROVE  CommandsTyped'
BY DEF Typed, CommandsTyped

(* Moving on to a later point that asks for nothing new, locals unchanged.  *)
LEMMA OnTyped ==
  ASSUME Typed, UNCHANGED created, NEW p \in Commands, NEW point \in Points,
         Goto(p, point, cmd[p]), LocalsOK(point, cmd[p], created)
  PROVE  CommandsTyped'
<1>1. cmd[p] \in Cmd /\ created' \in Nat /\ created' >= created
  BY RecordingAssumption DEF Typed, TypeOK
<1> QED
  BY <1>1, GotoTyped

(* The tables keep their types when they are left alone.                    *)
LEMMA SameTablesTyped ==
  ASSUME Typed, UNCHANGED <<tables, created, captured>>,
         keyFile' \in Runs \cup {NoKey, EmptyKey}, CommandsTyped'
  PROVE  Typed'
BY DEF Typed, TypeOK, CommandsTyped, Fresh, tables

(* The initial state is typed.                                              *)
LEMMA InitTyped == Init => Typed
BY NoCmdTyped, RecordingAssumption
   DEF Init, Typed, TypeOK, Fresh, CommandsTyped, LocalsOK, Points, Runs,
       RunPoints, Early, Importing, KeyPoints

(* Typing gives the type of a command's locals and what fits its point.     *)
LEMMA At ==
  ASSUME Typed, NEW p \in Commands
  PROVE  /\ cmd[p] \in Cmd /\ pc[p] \in Points /\ LocalsOK(pc[p], cmd[p], created)
         /\ created \in Nat /\ created <= MaxRuns
BY RecordingAssumption DEF Typed, TypeOK, CommandsTyped

(* Creating a run keeps the state typed.                                    *)
LEMMA CreateRunTyped ==
  ASSUME Typed, NEW p \in Commands, NEW s \in Sessions, NEW l \in Cmd,
         CreateRun(p, s, l), l.done = 0, l.mode \in {"record", "replay"},
         l.mode = "replay" => l.source \in 1..created
  PROVE  Typed'
<1> DEFINE k == [l EXCEPT !.session = s, !.run = created + 1]
<1>1. created' = created + 1 /\ created \in Nat /\ created' \in Runs /\ created' \in 0..MaxRuns
  BY RecordingAssumption, At DEF CreateRun, Runs
<1>2. k \in Cmd /\ k.run = created + 1 /\ k.session = s /\ k.mode = l.mode
      /\ k.source = l.source /\ k.done = 0
  BY <1>1 DEF Cmd
<1>3. LocalsOK("key", k, created')
  BY <1>1, <1>2 DEF LocalsOK, RunPoints, Early, Importing, KeyPoints
<1>4. Goto(p, "key", k) /\ "key" \in Points
  BY PointNames DEF CreateRun, Points
<1> HIDE DEF k
<1>5. CommandsTyped'
  BY <1>1, <1>2, <1>3, <1>4, GotoTyped
<1>6. [session |-> s, status |-> "running"] \in Row
  BY DEF Row, Statuses
<1>7. runs' \in [Runs -> Row \cup {NoRow}] /\ Fresh'
  BY <1>1, <1>6 DEF CreateRun, Fresh, Typed, TypeOK, Runs
<1> QED
  BY <1>1, <1>5, <1>7 DEF CreateRun, Typed, TypeOK, CommandsTyped

(* The tables keep their types when runs are deleted.                       *)
LEMMA DeleteRunsTyped ==
  ASSUME Typed, UNCHANGED created, NEW gone, DeleteRuns(gone)
  PROVE  /\ runs' \in [Runs -> Row \cup {NoRow}]
         /\ interactions' \in [Runs -> Seq(SaltId)]
         /\ baselines' \in [Baselines -> Runs \cup {0}]
         /\ Fresh'
BY DEF DeleteRuns, Typed, TypeOK, Fresh

(* Updating a run keeps the runs typed.                                     *)
LEMMA UpdateRunTyped ==
  ASSUME Typed, UNCHANGED created, NEW r \in Runs, NEW status \in Statuses, NEW s,
         UpdateRun(r, status, s)
  PROVE  runs' \in [Runs -> Row \cup {NoRow}] /\ Fresh'
<1>1. CASE ~Exists(r)
  BY <1>1 DEF UpdateRun, Typed, TypeOK, Fresh
<1>2. CASE Exists(r)
  <2>1. [runs[r] EXCEPT !.status = status] \in Row
    BY <1>2 DEF Exists, Typed, TypeOK, Row
  <2> QED
    BY <1>2, <2>1 DEF UpdateRun, Typed, TypeOK, Fresh, Exists
<1> QED
  BY <1>1, <1>2

(* Every step of a command keeps the state typed.                           *)
LEMMA StepTyped ==
  ASSUME Typed, NEW p \in Commands, Step(p)
  PROVE  Typed'
<1>a. /\ cmd[p] \in Cmd /\ pc[p] \in Points /\ LocalsOK(pc[p], cmd[p], created)
      /\ created \in Nat /\ created >= created
  BY At
<1>b. \A x \in 1..created : x \in Runs
  BY At, RecordingAssumption DEF Runs
<1> USE <1>a, <1>b
<1>1. CASE List(p)
  <2> DEFINE l == [cmd[p] EXCEPT !.seeds = Len(interactions[cmd[p].source])]
  <2>1. cmd[p].source \in Runs
    BY <1>1 DEF LocalsOK, List, Runs
  <2>2. Len(interactions[cmd[p].source]) \in Nat
    BY <2>1 DEF LocalsOK, Typed, TypeOK
  <2>3. l \in Cmd /\ LocalsOK("create", l, created')
    BY <1>1, <2>2 DEF LocalsOK, List, Cmd, RunPoints, Early, Importing, KeyPoints
  <2>4. CommandsTyped'
    BY <1>1, <2>3, PointNames, GotoTyped DEF List
  <2> QED
    BY <1>1, <2>4, SameTablesTyped DEF List, Typed, TypeOK
<1>2. CASE ListTorn(p) \/ SetupFails(p) \/ Crash(p)
  <2>1. CommandsTyped'
    BY <1>2, ReturnTyped DEF ListTorn, SetupFails, Crash
  <2> QED
    BY <1>2, <2>1, SameTablesTyped DEF ListTorn, SetupFails, Crash, Typed, TypeOK
<1>3. CASE CreateReplay(p)
  <2>1. /\ cmd[p].session \in Sessions /\ cmd[p].mode \in {"record", "replay"}
        /\ cmd[p].source \in 1..created /\ cmd[p].done = 0
    BY <1>3 DEF LocalsOK, CreateReplay
  <2> QED
    BY <1>3, <2>1, CreateRunTyped DEF CreateReplay
<1>4. CASE ReadKey(p)
  <2>1. CASE Return(p)
    BY <1>4, <2>1, ReturnTyped, SameTablesTyped DEF ReadKey, Typed, TypeOK
  <2>2. CASE keyFile \in Runs /\ Goto(p, "seed", [cmd[p] EXCEPT !.key = keyFile])
    <3> DEFINE l == [cmd[p] EXCEPT !.key = keyFile]
    <3>1. l \in Cmd /\ LocalsOK("seed", l, created')
      BY <1>4, <2>2 DEF LocalsOK, ReadKey, Cmd, RunPoints, Early, Importing, KeyPoints
    <3>2. CommandsTyped'
      BY <1>4, <2>2, <3>1, GotoTyped DEF ReadKey, Points
    <3> QED
      BY <1>4, <3>2, SameTablesTyped DEF ReadKey, Typed, TypeOK
  <2>3. CASE Goto(p, "newkey", [cmd[p] EXCEPT !.key = cmd[p].run])
    <3> DEFINE l == [cmd[p] EXCEPT !.key = cmd[p].run]
    <3>1. l \in Cmd /\ LocalsOK("newkey", l, created')
      BY <1>4 DEF LocalsOK, ReadKey, Cmd, Runs, RunPoints, Early, Importing, KeyPoints
    <3>2. CommandsTyped'
      BY <1>4, <2>3, <3>1, GotoTyped DEF ReadKey, Points
    <3> QED
      BY <1>4, <3>2, SameTablesTyped DEF ReadKey, Typed, TypeOK
  <2> QED
    BY <1>4, <2>1, <2>2, <2>3 DEF LocalsOK, ReadKey
<1>5. CASE TruncateKey(p)
  <2>1. LocalsOK("writekey", cmd[p], created) /\ "writekey" \in Points
    BY <1>5 DEF LocalsOK, TruncateKey, RunPoints, Early, Importing, KeyPoints, Points
  <2>2. CommandsTyped'
    BY <1>5, <2>1, OnTyped DEF TruncateKey
  <2> QED
    BY <1>5, <2>2, SameTablesTyped DEF TruncateKey
<1>6. CASE WriteKey(p)
  <2>1. LocalsOK("seed", cmd[p], created) /\ "seed" \in Points /\ cmd[p].key \in Runs
    BY <1>6 DEF LocalsOK, WriteKey, RunPoints, Early, Importing, KeyPoints, Points
  <2>2. CommandsTyped'
    BY <1>6, <2>1, OnTyped DEF WriteKey
  <2> QED
    BY <1>6, <2>1, <2>2, SameTablesTyped DEF WriteKey
<1>7. CASE Seed(p)
  <2>1. LocalsOK("child", cmd[p], created) /\ "child" \in Points
    BY <1>7 DEF LocalsOK, Seed, RunPoints, Early, Importing, KeyPoints, Points
  <2>2. CommandsTyped'
    BY <1>7, <2>1, OnTyped, ReturnTyped DEF Seed
  <2> QED
    BY <1>7, <2>2, SameTablesTyped DEF Seed, Typed, TypeOK
<1>8. ASSUME NEW n \in -1..MaxCapture, NEW exit \in {"ok", "failed"}, Child(p, n, exit)
      PROVE  Typed'
  <2>1. PICK f \in {"none", "incomplete", "corrupted"} :
          IF n > 0 THEN Goto(p, "persist", [cmd[p] EXCEPT !.failure = f, !.count = n])
                   ELSE Goto(p, "finalize", [cmd[p] EXCEPT !.failure = f])
    BY <1>8 DEF LocalsOK, Child
  <2>2. cmd[p].run \in Runs /\ created' \in Nat /\ created' >= created
    BY <1>8 DEF LocalsOK, Child, Runs, RunPoints, Early
  <2>3. CommandsTyped'
    <3>1. CASE n > 0
      <4> DEFINE l == [cmd[p] EXCEPT !.failure = f, !.count = n]
      <4>1. l \in Cmd /\ LocalsOK("persist", l, created')
        <5>1. n \in 0..MaxCapture
          BY <3>1, RecordingAssumption
        <5>2. l \in Cmd /\ l.done = cmd[p].done /\ l.count = n
          BY <5>1 DEF Cmd
        <5> QED
          BY <1>8, <3>1, <5>2 DEF LocalsOK, Child, Cmd, RunPoints, Early, Importing, KeyPoints
      <4> QED
        BY <2>1, <2>2, <3>1, <4>1, GotoTyped DEF Points
    <3>2. CASE ~(n > 0)
      <4> DEFINE l == [cmd[p] EXCEPT !.failure = f]
      <4>1. l \in Cmd /\ LocalsOK("finalize", l, created')
        BY <1>8 DEF LocalsOK, Child, Cmd, RunPoints, Early, Importing, KeyPoints
      <4> QED
        BY <2>1, <2>2, <3>2, <4>1, GotoTyped DEF Points
    <3> QED
      BY <3>1, <3>2
  <2>4. captured' \in [Runs -> 0..MaxCapture]
    BY <1>8, <2>2, RecordingAssumption DEF LocalsOK, Child, Typed, TypeOK
  <2> QED
    BY <1>8, <2>3, <2>4 DEF LocalsOK, Child, Typed, TypeOK, Fresh, CommandsTyped, tables
<1>9. CASE LoadRun(p)
  <2>1. LocalsOK("salt", cmd[p], created) /\ "salt" \in Points /\ pc[p] \in Importing
    BY <1>9 DEF LocalsOK, LoadRun, RunPoints, Early, Importing, KeyPoints, Points
  <2>2. CommandsTyped'
    BY <1>9, <2>1, OnTyped, FailImportTyped DEF LoadRun
  <2> QED
    BY <1>9, <2>2, SameTablesTyped DEF LoadRun, Typed, TypeOK
<1>10. ASSUME pc[p] \in {"salt", "readsalt"}, UseSalt(p), UNCHANGED created,
              salts[cmd[p].session] # NoSalt \/ cmd[p].key \in Runs
       PROVE  CommandsTyped'
  <2> DEFINE salt == salts[cmd[p].session]
             l == [cmd[p] EXCEPT !.salt = salt.id]
  <2>1. cmd[p].session \in Sessions /\ cmd[p].key \in Runs /\ pc[p] \in Importing
    BY <1>10 DEF LocalsOK, RunPoints, Importing, KeyPoints
  <2>2. CASE salt.key = cmd[p].key
    <3>1. salt \in Salt
      BY <2>1, <2>2 DEF LocalsOK, Typed, TypeOK, NoSalt, NoKey, Runs
    <3>2. l \in Cmd /\ LocalsOK("write", l, created')
      BY <1>10, <2>1, <3>1 DEF LocalsOK, Cmd, Salt, RunPoints, Early, Importing, KeyPoints
    <3> QED
      BY <1>10, <2>2, <3>2, GotoTyped DEF UseSalt, Points
  <2>3. CASE salt.key # cmd[p].key
    BY <1>10, <2>1, <2>3, FailImportTyped DEF UseSalt
  <2> QED
    BY <2>2, <2>3
<1>11. CASE GetSalt(p)
  <2>1. LocalsOK("newsalt", cmd[p], created) /\ "newsalt" \in Points
    BY <1>11 DEF LocalsOK, GetSalt, RunPoints, Early, Importing, KeyPoints, Points
  <2>2. CommandsTyped'
    BY <1>10, <1>11, <2>1, OnTyped DEF GetSalt
  <2> QED
    BY <1>11, <2>2, SameTablesTyped DEF GetSalt, Typed, TypeOK
<1>12. CASE CreateSalt(p)
  <2> DEFINE id == <<cmd[p].run, cmd[p].done + 1>>
             l == [cmd[p] EXCEPT !.salt = id]
  <2>1. id \in SaltId /\ cmd[p].session \in Sessions /\ cmd[p].key \in Runs
    BY <1>12, RecordingAssumption
    DEF LocalsOK, CreateSalt, Cmd, SaltId, Runs, RunPoints, Importing, KeyPoints
  <2> HIDE DEF id
  <2>2. [id |-> id, key |-> cmd[p].key] \in Salt
    BY <2>1 DEF LocalsOK, Salt
  <2>3. l \in Cmd /\ LocalsOK("write", l, created')
    BY <1>12, <2>1 DEF LocalsOK, CreateSalt, Cmd, RunPoints, Early, Importing, KeyPoints
  <2>4. LocalsOK("readsalt", cmd[p], created)
    BY <1>12 DEF LocalsOK, CreateSalt, RunPoints, Early, Importing, KeyPoints
  <2>5. Goto(p, "write", l) \/ Goto(p, "readsalt", cmd[p])
    BY <1>12 DEF LocalsOK, CreateSalt, id
  <2>6. CommandsTyped'
    BY <1>12, <2>3, <2>4, <2>5, GotoTyped, OnTyped DEF CreateSalt, Points
  <2>7. salts' \in [Sessions -> Salt \cup {NoSalt}]
    BY <1>12, <2>1, <2>2 DEF LocalsOK, CreateSalt, Typed, TypeOK, id
  <2> QED
    BY <1>12, <2>6, <2>7 DEF LocalsOK, CreateSalt, Typed, TypeOK, Fresh, CommandsTyped
<1>13. CASE ReadSalt(p)
  <2>1. cmd[p].key \in Runs
    BY <1>13 DEF LocalsOK, ReadSalt, KeyPoints, Importing
  <2>2. CommandsTyped'
    BY <1>10, <1>13, <2>1 DEF LocalsOK, ReadSalt
  <2> QED
    BY <1>13, <2>2, SameTablesTyped DEF ReadSalt, Typed, TypeOK
<1>14. CASE Write(p)
  <2>1. cmd[p].run \in Runs /\ cmd[p].salt \in SaltId /\ pc[p] \in Importing
    BY <1>14 DEF LocalsOK, Write, Runs, RunPoints, Importing
  <2>2. CASE ~Exists(cmd[p].run)
    <3>1. CommandsTyped'
      BY <1>14, <2>1, <2>2, FailImportTyped DEF Write
    <3> QED
      BY <1>14, <2>2, <3>1, SameTablesTyped DEF Write, Typed, TypeOK, tables
  <2>3. CASE Exists(cmd[p].run)
    <3> DEFINE l == [cmd[p] EXCEPT !.done = @ + 1, !.salt = <<0, 0>>]
               point == IF cmd[p].done + 1 = cmd[p].count THEN "finalize" ELSE "persist"
    <3>1. l \in Cmd /\ l.done = cmd[p].done + 1 /\ l.count = cmd[p].count
          /\ cmd[p].done < cmd[p].count /\ cmd[p].done \in Nat /\ cmd[p].count \in Nat
      <4>1. /\ cmd[p].done < cmd[p].count
            /\ cmd[p].done \in 0..MaxCapture /\ cmd[p].count \in 0..MaxCapture
        BY <1>14 DEF LocalsOK, Write, Cmd, Importing
      <4>2. cmd[p].done + 1 \in 0..MaxCapture /\ cmd[p].done \in Nat /\ cmd[p].count \in Nat
        BY <4>1, RecordingAssumption
      <4> QED
        BY <4>1, <4>2 DEF Cmd
    <3>2. LocalsOK(point, l, created')
      BY <1>14, <3>1 DEF LocalsOK, Write, RunPoints, Early, Importing, KeyPoints
    <3>3. Goto(p, point, l) /\ point \in Points
      BY <1>14, <2>3 DEF LocalsOK, Write, Points
    <3>4. CommandsTyped'
      BY <1>14, <3>1, <3>2, <3>3, GotoTyped DEF Write
    <3>5. interactions' \in [Runs -> Seq(SaltId)]
      <4>1. Append(interactions[cmd[p].run], cmd[p].salt) \in Seq(SaltId)
        BY <2>1 DEF Typed, TypeOK
      <4> QED
        BY <1>14, <2>1, <2>3, <4>1 DEF Write, Typed, TypeOK
    <3> QED
      BY <1>14, <3>4, <3>5 DEF LocalsOK, Write, Typed, TypeOK, Fresh, CommandsTyped
  <2> QED
    BY <2>2, <2>3
<1>15. CASE ImportFails(p)
  <2>1. CommandsTyped'
    BY <1>15, FailImportTyped DEF ImportFails, Importing
  <2> QED
    BY <1>15, <2>1, SameTablesTyped DEF ImportFails, Typed, TypeOK
<1>16. ASSUME pc[p] = "finalize", AfterError(p), UNCHANGED created PROVE CommandsTyped'
  <2>1. LocalsOK("again", cmd[p], created) /\ "again" \in Points
    BY <1>16 DEF LocalsOK, RunPoints, Early, Importing, KeyPoints, Points
  <2> QED
    BY <1>16, <2>1, OnTyped, ReturnTyped DEF AfterError
<1>17. CASE Finalize(p)
  <2>1. CommandsTyped'
    BY <1>16, <1>17, ReturnTyped DEF Finalize
  <2>2. cmd[p].run \in Runs /\ FinalStatus(p) \in Statuses
    BY <1>17 DEF LocalsOK, Finalize, Runs, RunPoints, FinalStatus, Statuses, Cmd
  <2>3. runs' \in [Runs -> Row \cup {NoRow}] /\ Fresh'
    BY <1>17, <2>2, UpdateRunTyped DEF Finalize
  <2> QED
    BY <1>17, <2>1, <2>3 DEF LocalsOK, Finalize, Typed, TypeOK, CommandsTyped
<1>18. CASE FinalizeFails(p)
  <2>1. CommandsTyped'
    BY <1>16, <1>18 DEF LocalsOK, FinalizeFails
  <2> QED
    BY <1>18, <2>1, SameTablesTyped DEF FinalizeFails, Typed, TypeOK
<1>19. CASE FinalizeAgain(p)
  <2>1. CommandsTyped'
    BY <1>19, ReturnTyped DEF FinalizeAgain
  <2>2. cmd[p].run \in Runs /\ "corrupted" \in Statuses
    BY <1>19 DEF LocalsOK, FinalizeAgain, Runs, RunPoints, Statuses
  <2>3. runs' \in [Runs -> Row \cup {NoRow}] /\ Fresh'
    BY <1>19, <2>2, UpdateRunTyped DEF FinalizeAgain, Typed, TypeOK, Fresh
  <2> QED
    BY <1>19, <2>1, <2>3 DEF LocalsOK, FinalizeAgain, Typed, TypeOK, CommandsTyped
<1>20. ASSUME NEW b \in Baselines, PromoteInsert(p, b) PROVE Typed'
  <2>1. CommandsTyped'
    BY <1>20, ReturnTyped DEF PromoteInsert
  <2>2. cmd[p].run \in Runs
    BY <1>20 DEF LocalsOK, PromoteInsert, Runs
  <2> QED
    BY <1>20, <2>1, <2>2 DEF LocalsOK, PromoteInsert, Typed, TypeOK, Fresh, CommandsTyped
<1> QED
  BY <1>1, <1>2, <1>3, <1>4, <1>5, <1>6, <1>7, <1>8, <1>9, <1>11, <1>12, <1>13, <1>14,
     <1>15, <1>17, <1>18, <1>19, <1>20 DEF Step

(* So does every step of the system.                                        *)
LEMMA NextTyped == Typed /\ [Next]_vars => Typed'
<1> SUFFICES ASSUME Typed, [Next]_vars PROVE Typed'
  OBVIOUS
<1>1. ASSUME NEW p \in Commands, NEW s \in Sessions, Record(p, s) PROVE Typed'
  <2>1. [NoCmd EXCEPT !.mode = "record"] \in Cmd
    BY RecordingAssumption DEF NoCmd, Cmd
  <2> QED
    BY <1>1, <2>1, CreateRunTyped DEF Record, NoCmd
<1>2. ASSUME NEW p \in Commands, NEW r \in Runs, Select(p, r) PROVE Typed'
  <2> DEFINE l == [NoCmd EXCEPT !.mode = "replay", !.session = runs[r].session, !.source = r]
  <2>1. runs[r] \in Row /\ r \in 1..created
    BY <1>2, At DEF Select, Replayable, Typed, TypeOK, Fresh, NoRow, Runs
  <2>2. l \in Cmd
    BY <2>1, NoCmdTyped DEF Cmd, Row
  <2>3. LocalsOK("list", l, created')
    BY <1>2, <2>1 DEF Select, LocalsOK, NoCmd, Row, RunPoints, Early, Importing, KeyPoints
  <2>4. created' \in Nat /\ created' >= created /\ "list" \in Points
    BY <1>2, At DEF Select, Points
  <2>5. CommandsTyped'
    BY <1>2, <2>2, <2>3, <2>4, GotoTyped DEF Select
  <2> QED
    BY <1>2, <2>5, SameTablesTyped DEF Select, Typed, TypeOK
<1>3. ASSUME NEW p \in Commands, NEW r \in Runs, PromoteCheck(p, r) PROVE Typed'
  <2> DEFINE l == [NoCmd EXCEPT !.mode = "promote", !.run = r]
  <2>1. r \in 1..created
    <3>1. created \in Nat /\ r \in Nat /\ r >= 1
      BY <1>3, At, RecordingAssumption DEF Runs
    <3>2. r > created => runs[r].status = "none"
      BY DEF Typed, Fresh, NoRow
    <3> QED
      BY <1>3, <3>1, <3>2 DEF PromoteCheck
  <2>2. l \in Cmd
    BY NoCmdTyped DEF Cmd
  <2>3. LocalsOK("promote", l, created')
    BY <1>3, <2>1 DEF PromoteCheck, LocalsOK, NoCmd, RunPoints, Early, Importing, KeyPoints
  <2>4. created' \in Nat /\ created' >= created /\ "promote" \in Points
    BY <1>3, At DEF PromoteCheck, Points
  <2>5. CommandsTyped'
    BY <1>3, <2>2, <2>3, <2>4, GotoTyped DEF PromoteCheck
  <2> QED
    BY <1>3, <2>5, SameTablesTyped DEF PromoteCheck, Typed, TypeOK
<1>4. ASSUME NEW r \in Runs, DeleteRun(r) PROVE Typed'
  BY <1>4, DeleteRunsTyped, SameCommandsTyped DEF DeleteRun, Typed, TypeOK, CommandsTyped
<1>5. ASSUME NEW s \in Sessions, DeleteSession(s) PROVE Typed'
  <2>1. PICK gone : DeleteRuns(gone)
    BY <1>5 DEF DeleteSession
  <2>2. CommandsTyped'
    BY <1>5, SameCommandsTyped DEF DeleteSession
  <2> QED
    BY <1>5, <2>1, <2>2, DeleteRunsTyped DEF DeleteSession, Typed, TypeOK, CommandsTyped
<1>6. CASE UNCHANGED vars
  BY <1>6, SameCommandsTyped, SameTablesTyped DEF vars, Typed, TypeOK
<1> QED
  BY <1>1, <1>2, <1>3, <1>4, <1>5, <1>6, StepTyped DEF Next

(* Commands, their local variables and the tables keep their types.         *)
THEOREM TypeCorrect == Spec => []TypeOK
<1>1. Typed => TypeOK
  BY DEF Typed
<1> QED
  BY <1>1, InitTyped, NextTyped, PTL DEF Spec

-----------------------------------------------------------------------------
(* The invariant is inductive.                                              *)

(* A command that moves on keeps its run and its source, takes no run to an *)
(* earlier point, and selects only complete runs.                           *)
Onward(p, point, l) ==
  /\ point \in RunPoints => pc[p] \in RunPoints /\ l.run = cmd[p].run
  /\ point \in Early => pc[p] \in Early
  /\ point \in Early \cup {"list", "create"} /\ l.mode = "replay" =>
       \/ /\ pc[p] \in Early \cup {"list", "create"} /\ cmd[p].mode = "replay"
          /\ l.source = cmd[p].source
       \/ runs[l.source].status = "complete"

(* The run of a command that has one is gone or running.                    *)
LEMMA RunRunning ==
  ASSUME IInv, NEW p \in Commands, pc[p] \in RunPoints
  PROVE  /\ cmd[p].run \in Runs /\ cmd[p].session \in Sessions
         /\ runs[cmd[p].run] = NoRow \/
            runs[cmd[p].run] = [session |-> cmd[p].session, status |-> "running"]
         /\ runs[cmd[p].run].status # "complete"
<1>1. Typed
  BY DEF IInv
<1>2. cmd[p].run \in 1..created /\ created \in Nat /\ created <= MaxRuns /\ cmd[p].session \in Sessions
  BY <1>1, At DEF LocalsOK
<1>3. Owned(pc[p], cmd[p], runs, interactions, salts, captured)
  BY DEF IInv, AllOwned
<1>4. runs[cmd[p].run] = NoRow \/
      runs[cmd[p].run] = [session |-> cmd[p].session, status |-> "running"]
  BY <1>3 DEF Owned
<1> QED
  BY <1>2, <1>4, RecordingAssumption DEF NoRow, Runs

(* When a command moves on, each command has what it should as long as the  *)
(* tables agree with it.                                                    *)
LEMMA Moved ==
  ASSUME IInv, NEW p \in Commands, NEW point \in Points, NEW l \in Cmd,
         Goto(p, point, l), Onward(p, point, l),
         Owned(point, l, runs', interactions', salts', captured'),
         \A q \in Commands : q # p =>
           Owned(pc[q], cmd[q], runs', interactions', salts', captured')
  PROVE  AllOwned' /\ Distinct' /\ Settled'
<1>1. /\ pc' = [pc EXCEPT ![p] = point] /\ cmd' = [cmd EXCEPT ![p] = l]
      /\ pc \in [Commands -> Points] /\ cmd \in [Commands -> Cmd]
  BY DEF Goto, IInv, Typed, CommandsTyped
<1>2. \A q \in Commands : q # p => pc'[q] = pc[q] /\ cmd'[q] = cmd[q]
  BY <1>1
<1>3. pc'[p] = point /\ cmd'[p] = l
  BY <1>1
<1>4. AllOwned'
  <2> SUFFICES ASSUME NEW q \in Commands
               PROVE  Owned(pc'[q], cmd'[q], runs', interactions', salts', captured')
    BY DEF AllOwned
  <2> QED
    BY <1>2, <1>3
<1>5. Distinct'
  <2> SUFFICES ASSUME NEW q \in Commands, NEW r \in Commands, q # r,
                      pc'[q] \in RunPoints, pc'[r] \in RunPoints
               PROVE  cmd'[q].run # cmd'[r].run
    BY DEF Distinct
  <2> QED
    BY <1>2, <1>3 DEF Onward, IInv, Distinct
<1>6. Settled'
  <2> SUFFICES ASSUME NEW q \in Commands, NEW r \in Commands,
                      pc'[q] \in Early \cup {"list", "create"}, cmd'[q].mode = "replay",
                      pc'[r] \in Early
               PROVE  cmd'[r].run # cmd'[q].source
    BY DEF Settled
  <2>1. pc[r] \in Early /\ pc[r] \in RunPoints /\ cmd'[r].run = cmd[r].run
    BY <1>2, <1>3 DEF Onward, RunPoints
  <2>2. CASE /\ pc[q] \in Early \cup {"list", "create"} /\ cmd[q].mode = "replay"
             /\ cmd'[q].source = cmd[q].source
    BY <2>1, <2>2 DEF IInv, Settled
  <2>3. CASE runs[cmd'[q].source].status = "complete"
    BY <2>1, <2>3, RunRunning
  <2> QED
    BY <1>2, <1>3, <2>2, <2>3 DEF Onward
<1> QED
  BY <1>4, <1>5, <1>6

(* A step that changes no table but where a command stands.                 *)
LEMMA LocalStep ==
  ASSUME IInv, Typed', UNCHANGED <<tables, created, captured>>,
         NEW p \in Commands, NEW point \in Points, NEW l \in Cmd,
         Goto(p, point, l), Onward(p, point, l),
         Owned(point, l, runs, interactions, salts, captured)
  PROVE  IInv'
<1>1. /\ runs' = runs /\ interactions' = interactions /\ salts' = salts
      /\ baselines' = baselines /\ captured' = captured
  BY DEF tables
<1>2. AllOwned' /\ Distinct' /\ Settled'
  BY <1>1, Moved DEF IInv, AllOwned
<1> QED
  BY <1>1, <1>2 DEF IInv, Emptied, Exists, OneSalt, CompleteIsWhole, BaselineComplete

(* A command may return at any point.                                       *)
LEMMA ReturnFits ==
  ASSUME NEW p \in Commands, NEW rs, NEW is, NEW ss, NEW cp
  PROVE  /\ Onward(p, "idle", NoCmd)
         /\ Owned("idle", NoCmd, rs, is, ss, cp)
         /\ NoCmd \in Cmd /\ "idle" \in Points
BY NoCmdTyped DEF Onward, Owned, NoCmd, RunPoints, Early, Importing, Points

LEMMA ReturnStep ==
  ASSUME IInv, Typed', UNCHANGED <<tables, created, captured>>, NEW p \in Commands, Return(p)
  PROVE  IInv'
BY LocalStep, ReturnFits DEF Return

(* When the import fails, what was imported does not matter any more.       *)
LEMMA FailImportStep ==
  ASSUME IInv, Typed', UNCHANGED <<tables, created, captured>>, NEW p \in Commands,
         pc[p] \in Importing, FailImport(p)
  PROVE  IInv'
<1>1. cmd[p] \in Cmd /\ Owned(pc[p], cmd[p], runs, interactions, salts, captured)
  BY At DEF IInv, AllOwned
<1>2. PICK f \in {"incomplete", "corrupted"} :
        Goto(p, "finalize", [cmd[p] EXCEPT !.failure = f])
  BY <1>1 DEF FailImport, Cmd
<1> DEFINE l == [cmd[p] EXCEPT !.failure = f]
<1>3. /\ l \in Cmd /\ l.failure # "none" /\ l.run = cmd[p].run /\ l.session = cmd[p].session
      /\ l.mode = cmd[p].mode /\ l.source = cmd[p].source
  BY <1>1 DEF Cmd
<1> HIDE DEF l
<1>4. Owned("finalize", l, runs, interactions, salts, captured)
  BY <1>1, <1>3 DEF Owned, RunPoints, Early, Importing
<1>5. Onward(p, "finalize", l)
  BY <1>3 DEF Onward, RunPoints, Early, Importing
<1> QED
  BY <1>2, <1>3, <1>4, <1>5, LocalStep DEF l, Points

(* The steps that change no table preserve the invariant.                   *)
LEMMA LocalSteps ==
  ASSUME IInv, Typed', UNCHANGED <<tables, created, captured>>, NEW p \in Commands
  PROVE  /\ List(p) \/ ListTorn(p) \/ ReadKey(p) \/ TruncateKey(p) \/ WriteKey(p) => IInv'
         /\ Seed(p) \/ SetupFails(p) \/ LoadRun(p) \/ GetSalt(p) \/ ReadSalt(p) => IInv'
         /\ ImportFails(p) \/ FinalizeFails(p) \/ Crash(p) => IInv'
<1> USE DEF Early, Importing, RunPoints, Points
<1>a. cmd[p] \in Cmd /\ LocalsOK(pc[p], cmd[p], created) /\ Typed
      /\ Owned(pc[p], cmd[p], runs, interactions, salts, captured)
  BY At DEF IInv, AllOwned
<1>b. ASSUME NEW point \in Points, Goto(p, point, cmd[p]), Onward(p, point, cmd[p]),
             Owned(point, cmd[p], runs, interactions, salts, captured)
      PROVE  IInv'
  BY <1>a, <1>b, LocalStep
<1>1. CASE List(p)
  <2> DEFINE r == cmd[p].source
             l == [cmd[p] EXCEPT !.seeds = Len(interactions[r])]
  <2>1. pc[p] = "list" /\ cmd[p].mode = "replay" /\ r \in 1..created /\ r \in Runs
    BY <1>1, <1>a, At, RecordingAssumption DEF List, LocalsOK, Runs
  <2>2. Len(interactions[r]) \in Nat
    BY <2>1 DEF IInv, Typed, TypeOK
  <2>3. Len(interactions[r]) \in {0, captured[r]}
    <3>1. CASE runs[r] = NoRow
      BY <2>1, <3>1 DEF IInv, Emptied, Exists
    <3>2. CASE runs[r] # NoRow
      BY <1>a, <2>1, <3>2 DEF Owned, IInv, CompleteIsWhole
    <3> QED
      BY <3>1, <3>2
  <2>4. l \in Cmd /\ l.seeds = Len(interactions[r]) /\ l.source = r /\ l.mode = "replay"
    BY <1>a, <2>1, <2>2 DEF Cmd
  <2>5. Goto(p, "create", l)
    BY <1>1 DEF List
  <2> HIDE DEF l
  <2>6. Owned("create", l, runs, interactions, salts, captured) /\ Onward(p, "create", l)
    BY <2>1, <2>3, <2>4 DEF Owned, Onward
  <2> QED
    BY <2>4, <2>5, <2>6, LocalStep
<1>2. CASE ListTorn(p) \/ SetupFails(p) \/ Crash(p)
  BY <1>2, ReturnStep DEF ListTorn, SetupFails, Crash
<1>3. CASE ReadKey(p)
  <2>1. CASE Return(p)
    BY <2>1, ReturnStep
  <2>2. ASSUME NEW point \in {"seed", "newkey"}, NEW k \in Runs,
               Goto(p, point, [cmd[p] EXCEPT !.key = k])
        PROVE  IInv'
    <3> DEFINE l == [cmd[p] EXCEPT !.key = k]
    <3>1. /\ l \in Cmd /\ l.run = cmd[p].run /\ l.session = cmd[p].session
          /\ l.mode = cmd[p].mode /\ l.source = cmd[p].source /\ l.seeds = cmd[p].seeds
      BY <1>a DEF Cmd
    <3> HIDE DEF l
    <3>2. pc[p] = "key"
      BY <1>3 DEF ReadKey
    <3>3. Owned(point, l, runs, interactions, salts, captured) /\ Onward(p, point, l)
      BY <1>a, <3>1, <3>2 DEF Owned, Onward
    <3> QED
      BY <2>2, <3>1, <3>3, LocalStep DEF l
  <2>3. pc[p] = "key" /\ cmd[p].run \in Runs
    BY <1>3, RunRunning DEF ReadKey
  <2> QED
    BY <1>3, <2>1, <2>2, <2>3 DEF ReadKey
<1>4. CASE TruncateKey(p)
  BY <1>4, <1>a, <1>b DEF TruncateKey, Owned, Onward
<1>5. CASE WriteKey(p)
  BY <1>5, <1>a, <1>b DEF WriteKey, Owned, Onward
<1>6. CASE Seed(p)
  <2>1. CASE HasSeed(p)
    BY <1>6, <1>a, <1>b, <2>1 DEF Seed, HasSeed, Owned, Onward
  <2>2. CASE ~HasSeed(p)
    BY <1>6, <2>2, ReturnStep DEF Seed
  <2> QED
    BY <2>1, <2>2
<1>7. CASE LoadRun(p)
  <2>1. CASE Exists(cmd[p].run)
    BY <1>7, <1>a, <1>b, <2>1 DEF LoadRun, Owned, Onward
  <2>2. CASE ~Exists(cmd[p].run)
    BY <1>7, <2>2, FailImportStep DEF LoadRun
  <2> QED
    BY <2>1, <2>2
<1>8. ASSUME pc[p] \in {"salt", "readsalt"}, UseSalt(p),
             Exists(cmd[p].run) => salts[cmd[p].session] # NoSalt
      PROVE  IInv'
  <2> DEFINE salt == salts[cmd[p].session]
             l == [cmd[p] EXCEPT !.salt = salt.id]
  <2>1. CASE salt.key = cmd[p].key
    <3>1. cmd[p].session \in Sessions /\ cmd[p].key \in Runs
      BY <1>a, <1>8 DEF LocalsOK, KeyPoints
    <3>2. salt \in Salt
      BY <2>1, <3>1 DEF IInv, Typed, TypeOK, NoSalt, NoKey, Runs
    <3>3. /\ l \in Cmd /\ l.run = cmd[p].run /\ l.session = cmd[p].session
          /\ l.mode = cmd[p].mode /\ l.source = cmd[p].source
          /\ l.done = cmd[p].done /\ l.count = cmd[p].count /\ l.salt = salt.id
      BY <1>a, <3>2 DEF Cmd, Salt
    <3>4. Goto(p, "write", l)
      BY <1>8, <2>1 DEF UseSalt
    <3> HIDE DEF l
    <3>5. Owned("write", l, runs, interactions, salts, captured) /\ Onward(p, "write", l)
      BY <1>a, <1>8, <3>3 DEF Owned, Onward, Exists
    <3> QED
      BY <3>3, <3>4, <3>5, LocalStep
  <2>2. CASE salt.key # cmd[p].key
    BY <1>8, <2>2, FailImportStep DEF UseSalt
  <2> QED
    BY <2>1, <2>2
<1>9. CASE GetSalt(p)
  <2>1. CASE salts[cmd[p].session] # NoSalt
    BY <1>8, <1>9, <2>1 DEF GetSalt
  <2>2. CASE salts[cmd[p].session] = NoSalt
    BY <1>9, <1>a, <1>b, <2>2 DEF GetSalt, Owned, Onward
  <2> QED
    BY <2>1, <2>2
<1>10. CASE ReadSalt(p)
  BY <1>8, <1>10, <1>a DEF ReadSalt, Owned, Exists
<1>11. CASE ImportFails(p)
  BY <1>11, FailImportStep DEF ImportFails
<1>12. CASE FinalizeFails(p)
  <2>1. CASE Return(p)
    BY <2>1, ReturnStep
  <2>2. CASE Goto(p, "again", cmd[p])
    BY <1>12, <1>a, <1>b, <2>2 DEF FinalizeFails, Owned, Onward
  <2> QED
    BY <1>12, <2>1, <2>2 DEF FinalizeFails, AfterError
<1> QED
  BY <1>1, <1>2, <1>3, <1>4, <1>5, <1>6, <1>7, <1>9, <1>10, <1>11, <1>12

(* What the invariant says of each command.                                 *)
LEMMA Each ==
  ASSUME IInv, NEW p \in Commands
  PROVE  /\ cmd[p] \in Cmd /\ pc[p] \in Points /\ LocalsOK(pc[p], cmd[p], created)
         /\ Owned(pc[p], cmd[p], runs, interactions, salts, captured)
         /\ \A x \in 1..created : x \in Runs
BY At, RecordingAssumption DEF IInv, AllOwned, Runs

(* Creating a run, which no command and no baseline knows yet.              *)
LEMMA CreateRunStep ==
  ASSUME IInv, Typed', NEW p \in Commands, NEW s \in Sessions, NEW l \in Cmd,
         CreateRun(p, s, l), l.mode \in {"record", "replay"},
         l.mode = "replay" => pc[p] = "create" /\ l = cmd[p]
  PROVE  IInv'
<1> USE DEF Early, Importing, RunPoints, Points
<1> DEFINE new == created + 1
           k == [l EXCEPT !.session = s, !.run = new]
<1>1. created \in Nat /\ new \in Runs /\ new > created
  BY RecordingAssumption, At DEF IInv, CreateRun, Runs
<1>2. /\ k \in Cmd /\ k.run = new /\ k.session = s /\ k.mode = l.mode
      /\ k.source = l.source /\ k.seeds = l.seeds
  BY <1>1 DEF Cmd
<1>3. /\ runs' = [runs EXCEPT ![new] = [session |-> s, status |-> "running"]]
      /\ Goto(p, "key", k) /\ interactions' = interactions /\ salts' = salts
      /\ baselines' = baselines /\ captured' = captured /\ created' = new
  BY DEF CreateRun
<1> HIDE DEF k, new
<1>4. runs[new] = NoRow /\ interactions[new] = <<>>
  BY <1>1 DEF IInv, Typed, Fresh, Emptied, Exists
<1>5. /\ \A r \in Runs : r # new => runs'[r] = runs[r]
      /\ runs'[new] = [session |-> s, status |-> "running"] /\ runs'[new] # NoRow
  BY <1>1, <1>3 DEF IInv, Typed, TypeOK, NoRow
<1>6. \A x \in 1..created : x # new /\ x \in Runs
  BY <1>1, At, RecordingAssumption DEF IInv, Runs
<1>7. ASSUME NEW q \in Commands
      PROVE  /\ pc[q] \in RunPoints => cmd[q].run # new
             /\ pc[q] \in RunPoints \cup {"list", "create"} /\ cmd[q].mode = "replay" =>
                  cmd[q].source # new
             /\ Owned(pc[q], cmd[q], runs', interactions', salts', captured')
  BY <1>3, <1>5, <1>6, Each DEF LocalsOK, Owned
<1>8. Owned("key", k, runs', interactions', salts', captured')
  <2>1. k.mode = "replay" => k.seeds \in {0, captured[k.source]}
    <3>1. Owned(pc[p], cmd[p], runs, interactions, salts, captured)
      BY Each
    <3> QED
      BY <1>2, <3>1 DEF Owned
  <2>2. interactions'[k.run] = <<>> /\ runs'[k.run] = [session |-> k.session, status |-> "running"]
    BY <1>2, <1>3, <1>4, <1>5
  <2> QED
    BY <1>3, <2>1, <2>2 DEF Owned
<1>9. /\ pc'[p] = "key" /\ cmd'[p] = k
      /\ \A q \in Commands : q # p => pc'[q] = pc[q] /\ cmd'[q] = cmd[q]
  BY <1>3 DEF Goto, IInv, Typed, CommandsTyped
<1>10. AllOwned'
  <2> SUFFICES ASSUME NEW q \in Commands
               PROVE  Owned(pc'[q], cmd'[q], runs', interactions', salts', captured')
    BY DEF AllOwned
  <2> QED
    BY <1>7, <1>8, <1>9
<1>11. Distinct'
  <2> SUFFICES ASSUME NEW q \in Commands, NEW r \in Commands, q # r,
                      pc'[q] \in RunPoints, pc'[r] \in RunPoints
               PROVE  cmd'[q].run # cmd'[r].run
    BY DEF Distinct
  <2> QED
    BY <1>2, <1>7, <1>9 DEF IInv, Distinct
<1>12. Settled'
  <2> SUFFICES ASSUME NEW q \in Commands, NEW r \in Commands,
                      pc'[q] \in Early \cup {"list", "create"}, cmd'[q].mode = "replay",
                      pc'[r] \in Early
               PROVE  cmd'[r].run # cmd'[q].source
    BY DEF Settled
  <2>1. /\ pc[q] \in Early \cup {"list", "create"} /\ cmd[q].mode = "replay"
        /\ cmd'[q].source = cmd[q].source
    BY <1>2, <1>9
  <2> QED
    BY <2>1, <1>2, <1>7, <1>9 DEF IInv, Settled
<1>13. Emptied' /\ CompleteIsWhole' /\ OneSalt'
  BY <1>3, <1>4, <1>5 DEF IInv, Emptied, CompleteIsWhole, OneSalt, Exists
<1>14. BaselineComplete'
  <2>1. ASSUME NEW b \in Baselines, baselines[b] # 0 PROVE baselines[b] # new /\ baselines[b] \in Runs
    BY <1>4, <2>1 DEF IInv, BaselineComplete, Typed, TypeOK, Exists
  <2> QED
    BY <1>3, <1>5, <2>1 DEF IInv, BaselineComplete, Exists
<1> QED
  BY <1>10, <1>11, <1>12, <1>13, <1>14 DEF IInv

(* The managed command leaves its capture: no replay has that run as its    *)
(* source.                                                                  *)
LEMMA ChildStep ==
  ASSUME IInv, Typed', NEW p \in Commands, NEW n \in -1..MaxCapture,
         NEW exit \in {"ok", "failed"}, Child(p, n, exit)
  PROVE  IInv'
<1> USE DEF Early, Importing, RunPoints, Points
<1>1. PICK f \in {"none", "incomplete", "corrupted"} :
        /\ IF n > 0 THEN Goto(p, "persist", [cmd[p] EXCEPT !.failure = f, !.count = n])
                    ELSE Goto(p, "finalize", [cmd[p] EXCEPT !.failure = f])
  BY DEF Child
<1> DEFINE r == cmd[p].run
           c == IF n > 0 THEN n ELSE 0
<1>2. pc[p] = "child" /\ r \in Runs /\ runs[r].status # "complete" /\ cmd[p].done = 0
  BY RunRunning, Each DEF Child, LocalsOK
<1>3. /\ runs' = runs /\ interactions' = interactions /\ salts' = salts
      /\ baselines' = baselines /\ captured' = [captured EXCEPT ![r] = c]
  BY DEF Child, tables
<1>4. captured'[r] = c /\ \A x \in Runs : x # r => captured'[x] = captured[x]
  BY <1>2, <1>3 DEF IInv, Typed, TypeOK
<1>5. ASSUME NEW q \in Commands, q # p
      PROVE  Owned(pc[q], cmd[q], runs', interactions', salts', captured')
  <2>1. pc[q] \in RunPoints => cmd[q].run # r /\ cmd[q].run \in Runs
    BY <1>2, <1>5, RunRunning DEF IInv, Distinct
  <2>2. pc[q] \in Early \cup {"create"} /\ cmd[q].mode = "replay" =>
          cmd[q].source # r /\ cmd[q].source \in Runs
    BY <1>2, Each DEF IInv, Settled, LocalsOK
  <2> QED
    BY <1>3, <1>4, <2>1, <2>2, Each DEF Owned
<1>6. CASE n > 0
  <2> DEFINE l == [cmd[p] EXCEPT !.failure = f, !.count = n]
  <2>1. n \in 0..MaxCapture
    BY <1>6, RecordingAssumption
  <2>2. /\ l \in Cmd /\ l.run = r /\ l.session = cmd[p].session /\ l.count = n
        /\ l.done = cmd[p].done
    BY <2>1, Each DEF Cmd
  <2>3. Goto(p, "persist", l)
    BY <1>1, <1>6
  <2> HIDE DEF l
  <2>4. Owned("persist", l, runs', interactions', salts', captured') /\ Onward(p, "persist", l)
    BY <1>2, <1>3, <1>4, <1>6, <2>2, Each DEF Owned, Onward
  <2>5. AllOwned' /\ Distinct' /\ Settled'
    BY <1>5, <2>2, <2>3, <2>4, Moved
  <2> QED
    BY <1>2, <1>3, <1>4, <2>5
    DEF IInv, Emptied, CompleteIsWhole, OneSalt, BaselineComplete, Exists
<1>7. CASE ~(n > 0)
  <2> DEFINE l == [cmd[p] EXCEPT !.failure = f]
  <2>1. /\ l \in Cmd /\ l.run = r /\ l.session = cmd[p].session
    BY Each DEF Cmd
  <2>2. Goto(p, "finalize", l)
    BY <1>1, <1>7
  <2> HIDE DEF l
  <2>3. Owned("finalize", l, runs', interactions', salts', captured') /\ Onward(p, "finalize", l)
    BY <1>2, <1>3, <1>4, <1>7, <2>1, Each DEF Owned, Onward
  <2>4. AllOwned' /\ Distinct' /\ Settled'
    BY <1>5, <2>1, <2>2, <2>3, Moved
  <2> QED
    BY <1>2, <1>3, <1>4, <2>4
    DEF IInv, Emptied, CompleteIsWhole, OneSalt, BaselineComplete, Exists
<1> QED
  BY <1>6, <1>7

(* Creating the session's salt: no run of the session has interactions.     *)
LEMMA CreateSaltStep ==
  ASSUME IInv, Typed', NEW p \in Commands, CreateSalt(p)
  PROVE  IInv'
<1> USE DEF Early, Importing, RunPoints, Points
<1> DEFINE s == cmd[p].session
           id == <<cmd[p].run, cmd[p].done + 1>>
           row == [id |-> id, key |-> cmd[p].key]
           l == [cmd[p] EXCEPT !.salt = id]
<1>1. pc[p] = "newsalt" /\ s \in Sessions /\ cmd[p].key \in Runs /\ cmd[p].run \in Runs
  BY Each DEF CreateSalt, LocalsOK, KeyPoints
<1>2. CASE salts[s] = NoSalt
  <2>1. /\ salts' = [salts EXCEPT ![s] = row] /\ Goto(p, "write", l)
        /\ runs' = runs /\ interactions' = interactions
        /\ baselines' = baselines /\ captured' = captured
    BY <1>2 DEF CreateSalt
  <2>2. id \in SaltId
    BY <1>1, Each, RecordingAssumption DEF LocalsOK, Cmd, SaltId
  <2>3. salts'[s] = row /\ \A t \in Sessions : t # s => salts'[t] = salts[t]
    BY <1>1, <2>1 DEF IInv, Typed, TypeOK
  <2>4. row # NoSalt /\ row.id = id
    BY <1>1 DEF NoSalt, NoKey, Runs
  <2> HIDE DEF id
  <2>5. /\ l \in Cmd /\ l.run = cmd[p].run /\ l.session = s /\ l.salt = id
        /\ l.done = cmd[p].done /\ l.count = cmd[p].count
    BY <2>2, Each DEF Cmd
  <2> HIDE DEF l, row
  <2>6. Owned("write", l, runs', interactions', salts', captured') /\ Onward(p, "write", l)
    BY <1>1, <2>1, <2>3, <2>4, <2>5, Each DEF Owned, Onward
  <2>7. ASSUME NEW q \in Commands, q # p
        PROVE  Owned(pc[q], cmd[q], runs', interactions', salts', captured')
    <3>1. /\ Owned(pc[q], cmd[q], runs, interactions, salts, captured)
          /\ pc[q] \in RunPoints => cmd[q].session \in Sessions
      BY Each DEF LocalsOK
    <3> QED
      BY <1>2, <2>1, <2>3, <3>1 DEF Owned
  <2>8. AllOwned' /\ Distinct' /\ Settled'
    BY <2>1, <2>5, <2>6, <2>7, Moved
  <2>9. OneSalt'
    <3>1. ASSUME NEW r \in Runs, Exists(r) PROVE runs[r].session \in Sessions
      BY <3>1 DEF Exists, IInv, Typed, TypeOK, Row
    <3> QED
      BY <1>2, <2>1, <2>3, <3>1 DEF IInv, OneSalt, Exists
  <2> QED
    BY <2>1, <2>8, <2>9 DEF IInv, Emptied, CompleteIsWhole, BaselineComplete, Exists
<1>3. CASE salts[s] # NoSalt
  <2>1. Goto(p, "readsalt", cmd[p]) /\ UNCHANGED <<tables, created, captured>>
    BY <1>3 DEF CreateSalt, tables
  <2>2. /\ Owned("readsalt", cmd[p], runs, interactions, salts, captured)
        /\ Onward(p, "readsalt", cmd[p])
    BY <1>1, <1>3, Each DEF Owned, Onward
  <2> QED
    BY <2>1, <2>2, Each, LocalStep
<1> QED
  BY <1>2, <1>3

(* Writing an interaction to the command's run.                             *)
LEMMA WriteStep ==
  ASSUME IInv, Typed', NEW p \in Commands, Write(p)
  PROVE  IInv'
<1> USE DEF Early, Importing, RunPoints, Points
<1> DEFINE r == cmd[p].run
           point == IF cmd[p].done + 1 = cmd[p].count THEN "finalize" ELSE "persist"
           l == [cmd[p] EXCEPT !.done = @ + 1, !.salt = <<0, 0>>]
<1>1. pc[p] = "write" /\ r \in Runs /\ runs[r].status # "complete"
  BY RunRunning DEF Write
<1>2. CASE Exists(r)
  <2>1. /\ interactions' = [interactions EXCEPT ![r] = Append(@, cmd[p].salt)]
        /\ Goto(p, point, l) /\ runs' = runs /\ salts' = salts
        /\ baselines' = baselines /\ captured' = captured
    BY <1>2 DEF Write
  <2>2. /\ runs[r] = [session |-> cmd[p].session, status |-> "running"]
        /\ Len(interactions[r]) = cmd[p].done /\ captured[r] = cmd[p].count
        /\ salts[cmd[p].session] # NoSalt /\ cmd[p].salt = salts[cmd[p].session].id
    BY <1>1, <1>2, Each DEF Owned, Exists
  <2>3. interactions[r] \in Seq(SaltId) /\ cmd[p].salt \in SaltId
    BY <1>1, Each DEF LocalsOK, IInv, Typed, TypeOK
  <2>4. /\ interactions'[r] = Append(interactions[r], cmd[p].salt)
        /\ \A x \in Runs : x # r => interactions'[x] = interactions[x]
    BY <1>1, <2>1 DEF IInv, Typed, TypeOK
  <2>5. /\ Len(interactions'[r]) = cmd[p].done + 1
        /\ \A i \in 1..Len(interactions'[r]) :
             interactions'[r][i] = IF i = Len(interactions'[r]) THEN cmd[p].salt ELSE interactions[r][i]
        /\ \A i \in 1..Len(interactions'[r]) :
             i # Len(interactions'[r]) => i \in 1..Len(interactions[r])
    BY <2>2, <2>3, <2>4
  <2>6. cmd[p].done \in 0..MaxCapture /\ cmd[p].count \in 0..MaxCapture /\ cmd[p].done < cmd[p].count
    BY <1>1, Each DEF LocalsOK, Cmd
  <2>7. /\ l \in Cmd /\ l.run = r /\ l.session = cmd[p].session
        /\ l.done = cmd[p].done + 1 /\ l.count = cmd[p].count
    <3>1. cmd[p].done + 1 \in 0..MaxCapture
      BY <2>6, RecordingAssumption
    <3> QED
      BY <3>1, Each DEF Cmd
  <2> HIDE DEF l
  <2>8. Owned(point, l, runs', interactions', salts', captured') /\ Onward(p, point, l)
    BY <1>1, <2>1, <2>2, <2>5, <2>7 DEF Owned, Onward
  <2>9. ASSUME NEW q \in Commands, q # p
        PROVE  Owned(pc[q], cmd[q], runs', interactions', salts', captured')
    <3>1. pc[q] \in RunPoints => cmd[q].run # r /\ cmd[q].run \in Runs
      BY <1>1, <2>9, RunRunning DEF IInv, Distinct
    <3> QED
      BY <2>1, <2>4, <3>1, Each DEF Owned
  <2>10. AllOwned' /\ Distinct' /\ Settled'
    BY <2>1, <2>7, <2>8, <2>9, Moved
  <2>11. OneSalt'
    <3> SUFFICES ASSUME NEW x \in Runs, Exists(x), NEW i \in 1..Len(interactions'[x])
                 PROVE  /\ salts[runs[x].session] # NoSalt
                        /\ interactions'[x][i] = salts[runs[x].session].id
      BY <2>1 DEF OneSalt, Exists
    <3>1. CASE x # r
      BY <2>4, <3>1 DEF IInv, OneSalt
    <3>2. CASE x = r
      <4>1. CASE i = Len(interactions'[r])
        BY <2>2, <2>5, <3>2, <4>1
      <4>2. CASE i # Len(interactions'[r])
        <5>1. i \in 1..Len(interactions[r]) /\ interactions'[r][i] = interactions[r][i]
          BY <2>5, <3>2, <4>2
        <5> QED
          BY <1>1, <1>2, <3>2, <5>1 DEF IInv, OneSalt
      <4> QED
        BY <4>1, <4>2
    <3> QED
      BY <3>1, <3>2
  <2> QED
    BY <1>1, <1>2, <2>1, <2>4, <2>10, <2>11
    DEF IInv, Emptied, CompleteIsWhole, BaselineComplete, Exists
<1>3. CASE ~Exists(r)
  <2>1. FailImport(p) /\ UNCHANGED <<tables, created, captured>>
    BY <1>3 DEF Write, tables
  <2> QED
    BY <1>1, <2>1, FailImportStep
<1> QED
  BY <1>2, <1>3

(* Setting the final status of the command's run.                           *)
LEMMA UpdateStep ==
  ASSUME IInv, Typed', NEW p \in Commands, pc[p] \in {"finalize", "again"},
         NEW status \in Statuses, NEW s,
         status = "complete" => pc[p] = "finalize" /\ cmd[p].failure = "none",
         Exists(cmd[p].run), UpdateRun(cmd[p].run, status, s), Return(p),
         UNCHANGED <<interactions, salts, baselines, created, captured>>
  PROVE  IInv'
<1> USE DEF Early, Importing, RunPoints, Points
<1> DEFINE r == cmd[p].run
<1>1. r \in Runs /\ runs[r] # NoRow /\ runs[r] \in Row /\ runs[r].status # "complete"
  BY RunRunning DEF Exists, IInv, Typed, TypeOK
<1>2. /\ runs'[r] = [runs[r] EXCEPT !.status = status]
      /\ \A x \in Runs : x # r => runs'[x] = runs[x]
  BY <1>1 DEF UpdateRun, IInv, Typed, TypeOK
<1>3. runs'[r].session = runs[r].session /\ runs'[r].status = status /\ runs'[r] # NoRow
  BY <1>1, <1>2 DEF Row, NoRow, Statuses
<1>4. ASSUME NEW q \in Commands, q # p
      PROVE  Owned(pc[q], cmd[q], runs', interactions', salts', captured')
  <2>1. pc[q] \in RunPoints => cmd[q].run # r /\ cmd[q].run \in Runs
    BY <1>1, <1>4, RunRunning DEF IInv, Distinct
  <2>2. pc[q] = "list" => cmd[q].source \in Runs /\ cmd[q].source # r
    BY <1>1, Each DEF Owned, LocalsOK
  <2>3. pc[q] = "promote" => cmd[q].run \in Runs /\ cmd[q].run # r
    <3>1. LocalsOK(pc[q], cmd[q], created) /\ Owned(pc[q], cmd[q], runs, interactions, salts, captured)
          /\ \A x \in 1..created : x \in Runs
      BY Each
    <3> QED
      BY <1>1, <3>1 DEF Owned, LocalsOK
  <2> QED
    BY <1>2, <2>1, <2>2, <2>3, Each DEF Owned
<1>5. AllOwned' /\ Distinct' /\ Settled'
  BY <1>4, Moved, ReturnFits DEF Return
<1>6. status = "complete" => Len(interactions[r]) = captured[r]
  BY <1>1, Each DEF Owned
<1>7. CompleteIsWhole'
  BY <1>2, <1>3, <1>6 DEF IInv, CompleteIsWhole
<1>8. OneSalt' /\ Emptied'
  <2>1. \A x \in Runs : /\ runs'[x] = NoRow <=> runs[x] = NoRow
                        /\ runs'[x].session = runs[x].session
    BY <1>1, <1>2, <1>3
  <2>2. OneSalt'
    BY <2>1 DEF IInv, OneSalt, Exists
  <2> QED
    BY <2>1, <2>2 DEF IInv, Emptied, Exists
<1>9. BaselineComplete'
  <2>1. ASSUME NEW b \in Baselines, baselines[b] # 0 PROVE baselines[b] # r /\ baselines[b] \in Runs
    BY <1>1, <2>1 DEF IInv, BaselineComplete, Typed, TypeOK
  <2> QED
    BY <1>2, <2>1 DEF IInv, BaselineComplete, Exists
<1> QED
  BY <1>5, <1>7, <1>8, <1>9 DEF IInv

(* Finalizing, the first and the second time.                               *)
LEMMA FinalizeSteps ==
  ASSUME IInv, Typed', NEW p \in Commands, Finalize(p) \/ FinalizeAgain(p)
  PROVE  IInv'
<1> USE DEF Early, Importing, RunPoints, Points
<1>1. CASE Exists(cmd[p].run) /\ Finalize(p)
  <2>1. FinalStatus(p) \in Statuses /\ (FinalStatus(p) = "complete" => cmd[p].failure = "none")
    BY Each DEF FinalStatus, Statuses, Cmd
  <2> QED
    BY <1>1, <2>1, UpdateStep DEF Finalize
<1>2. CASE ~Exists(cmd[p].run) /\ Finalize(p)
  <2>1. UNCHANGED <<tables, created, captured>> /\ AfterError(p) /\ pc[p] = "finalize"
    BY <1>2 DEF Finalize, UpdateRun, tables
  <2>2. CASE Return(p)
    BY <2>1, <2>2, ReturnStep
  <2>3. CASE Goto(p, "again", cmd[p])
    <3>1. /\ Owned("again", cmd[p], runs, interactions, salts, captured)
          /\ Onward(p, "again", cmd[p])
      BY <2>1, Each DEF Owned, Onward
    <3> QED
      BY <2>1, <2>3, <3>1, Each, LocalStep
  <2> QED
    BY <2>1, <2>2, <2>3 DEF AfterError
<1>3. CASE FinalizeAgain(p)
  <2>1. CASE Exists(cmd[p].run) /\ UpdateRun(cmd[p].run, "corrupted", cmd[p].session)
    BY <1>3, <2>1, UpdateStep DEF FinalizeAgain, Statuses
  <2>2. CASE UNCHANGED runs
    BY <1>3, <2>2, ReturnStep DEF FinalizeAgain, tables
  <2> QED
    BY <1>3, <2>1, <2>2 DEF FinalizeAgain, UpdateRun
<1> QED
  BY <1>1, <1>2, <1>3

(* Promoting a run, which is complete if it is still there.                 *)
LEMMA PromoteSteps ==
  ASSUME IInv, Typed', NEW p \in Commands
  PROVE  /\ \A r \in Runs : Select(p, r) \/ PromoteCheck(p, r) => IInv'
         /\ \A b \in Baselines : PromoteInsert(p, b) => IInv'
<1> USE DEF Early, Importing, RunPoints, Points
<1>1. ASSUME NEW r \in Runs, Select(p, r) PROVE IInv'
  <2> DEFINE l == [NoCmd EXCEPT !.mode = "replay", !.session = runs[r].session, !.source = r]
  <2>1. runs[r] \in Row /\ runs[r].status = "complete"
    BY <1>1 DEF Select, Replayable, IInv, Typed, TypeOK, NoRow
  <2>2. l \in Cmd /\ l.source = r
    BY <2>1, NoCmdTyped DEF Cmd, Row, NoCmd
  <2>3. Goto(p, "list", l) /\ UNCHANGED <<tables, created, captured>>
    BY <1>1 DEF Select
  <2> HIDE DEF l
  <2>4. Owned("list", l, runs, interactions, salts, captured) /\ Onward(p, "list", l)
    BY <2>1, <2>2 DEF Owned, Onward
  <2> QED
    BY <2>2, <2>3, <2>4, LocalStep
<1>2. ASSUME NEW r \in Runs, PromoteCheck(p, r) PROVE IInv'
  <2> DEFINE l == [NoCmd EXCEPT !.mode = "promote", !.run = r]
  <2>1. l \in Cmd /\ l.run = r
    BY NoCmdTyped DEF Cmd, NoCmd
  <2>2. Goto(p, "promote", l) /\ UNCHANGED <<tables, created, captured>> /\ runs[r].status = "complete"
    BY <1>2 DEF PromoteCheck
  <2> HIDE DEF l
  <2>3. Owned("promote", l, runs, interactions, salts, captured) /\ Onward(p, "promote", l)
    BY <2>1, <2>2 DEF Owned, Onward
  <2> QED
    BY <2>1, <2>2, <2>3, LocalStep
<1>3. ASSUME NEW b \in Baselines, PromoteInsert(p, b) PROVE IInv'
  <2>1. /\ runs' = runs /\ interactions' = interactions /\ salts' = salts /\ captured' = captured
        /\ Return(p)
    BY <1>3 DEF PromoteInsert
  <2>2. AllOwned' /\ Distinct' /\ Settled'
    BY <2>1, Each, Moved, ReturnFits DEF Return
  <2>3. Exists(cmd[p].run) => runs[cmd[p].run].status = "complete"
    BY <1>3, Each DEF PromoteInsert, Owned, Exists
  <2>4. BaselineComplete'
    BY <1>3, <2>1, <2>3 DEF PromoteInsert, IInv, Typed, TypeOK, BaselineComplete, Exists
  <2> QED
    BY <2>1, <2>2, <2>4 DEF IInv, Emptied, OneSalt, CompleteIsWhole, Exists
<1> QED
  BY <1>1, <1>2, <1>3

(* Deleting runs, and the salt of a session only with all its runs.         *)
LEMMA DeleteSteps ==
  ASSUME IInv, Typed', NEW gone, DeleteRuns(gone),
         \A s \in Sessions : salts'[s] = salts[s] \/ \A r \in Runs : runs[r].session = s => r \in gone,
         UNCHANGED <<created, captured, pc, cmd>>
  PROVE  IInv'
<1>1. ASSUME NEW r \in Runs
      PROVE  /\ r \in gone => runs'[r] = NoRow /\ interactions'[r] = <<>>
             /\ r \notin gone => runs'[r] = runs[r] /\ interactions'[r] = interactions[r]
  BY DEF DeleteRuns
<1>2. AllOwned'
  <2> SUFFICES ASSUME NEW q \in Commands
               PROVE  Owned(pc[q], cmd[q], runs', interactions', salts', captured)
    BY DEF AllOwned
  <2>1. /\ pc[q] \in RunPoints => cmd[q].run \in Runs /\ cmd[q].session \in Sessions
        /\ pc[q] = "list" => cmd[q].source \in Runs
        /\ pc[q] = "promote" => cmd[q].run \in Runs
        /\ Owned(pc[q], cmd[q], runs, interactions, salts, captured)
    BY Each DEF LocalsOK
  <2> QED
    BY <1>1, <2>1 DEF Owned, RunPoints, Early, Importing
<1>3. Emptied' /\ CompleteIsWhole'
  BY <1>1 DEF IInv, Emptied, CompleteIsWhole, Exists, NoRow
<1>4. OneSalt'
  <2> SUFFICES ASSUME NEW r \in Runs, runs'[r] # NoRow, NEW i \in 1..Len(interactions'[r])
               PROVE  /\ salts'[runs'[r].session] # NoSalt
                      /\ interactions'[r][i] = salts'[runs'[r].session].id
    BY DEF OneSalt, Exists
  <2>1. r \notin gone /\ runs[r] \in Row
    BY <1>1 DEF IInv, Typed, TypeOK
  <2>2. runs[r].session \in Sessions
    BY <2>1 DEF Row
  <2> QED
    BY <1>1, <2>1, <2>2 DEF IInv, OneSalt, Exists
<1>5. BaselineComplete'
  <2> SUFFICES ASSUME NEW b \in Baselines, baselines'[b] # 0
               PROVE  runs'[baselines'[b]] # NoRow /\ runs'[baselines'[b]].status = "complete"
    BY DEF BaselineComplete, Exists
  <2>1. baselines'[b] = baselines[b] /\ baselines[b] \notin gone /\ baselines[b] \in Runs
    BY DEF DeleteRuns, IInv, Typed, TypeOK
  <2> QED
    BY <1>1, <2>1 DEF IInv, BaselineComplete, Exists
<1> QED
  BY <1>2, <1>3, <1>4, <1>5 DEF IInv, Distinct, Settled

(* The initial state satisfies the invariant.                               *)
LEMMA InitIInv == Init => IInv
<1> SUFFICES ASSUME Init PROVE IInv
  OBVIOUS
<1>1. /\ \A p \in Commands : pc[p] = "idle" /\ cmd[p] = NoCmd
      /\ \A r \in Runs : runs[r] = NoRow /\ interactions[r] = <<>>
      /\ \A b \in Baselines : baselines[b] = 0
  BY DEF Init
<1>2. AllOwned
  BY <1>1, ReturnFits DEF AllOwned
<1>3. Distinct /\ Settled
  BY <1>1 DEF Distinct, Settled, RunPoints, Early, Importing
<1>4. Emptied /\ OneSalt /\ CompleteIsWhole /\ BaselineComplete
  BY <1>1 DEF Emptied, OneSalt, CompleteIsWhole, BaselineComplete, Exists, NoRow
<1> QED
  BY <1>2, <1>3, <1>4, InitTyped DEF IInv

(* Every step preserves it.                                                 *)
LEMMA NextIInv == IInv /\ [Next]_vars => IInv'
<1> SUFFICES ASSUME IInv, [Next]_vars PROVE IInv'
  OBVIOUS
<1>0. Typed'
  BY NextTyped DEF IInv
<1>1. ASSUME NEW p \in Commands, NEW s \in Sessions, Record(p, s) PROVE IInv'
  <2>1. [NoCmd EXCEPT !.mode = "record"] \in Cmd
    BY NoCmdTyped DEF Cmd
  <2> QED
    BY <1>0, <1>1, <2>1, CreateRunStep DEF Record, NoCmd
<1>2. ASSUME NEW p \in Commands, NEW r \in Runs, Select(p, r) \/ PromoteCheck(p, r) PROVE IInv'
  BY <1>0, <1>2, PromoteSteps
<1>3. ASSUME NEW p \in Commands, Step(p) PROVE IInv'
  <2>1. CASE List(p) \/ ListTorn(p) \/ ReadKey(p) \/ TruncateKey(p) \/ WriteKey(p)
    BY <1>0, <2>1, LocalSteps DEF List, ListTorn, ReadKey, TruncateKey, WriteKey
  <2>2. CASE Seed(p) \/ SetupFails(p) \/ LoadRun(p) \/ GetSalt(p) \/ ReadSalt(p)
    BY <1>0, <2>2, LocalSteps DEF Seed, SetupFails, LoadRun, GetSalt, ReadSalt
  <2>3. CASE ImportFails(p) \/ FinalizeFails(p) \/ Crash(p)
    BY <1>0, <2>3, LocalSteps DEF ImportFails, FinalizeFails, Crash
  <2>4. CASE CreateReplay(p)
    <3>1. cmd[p].session \in Sessions /\ cmd[p].mode = "replay" /\ pc[p] = "create"
      BY <2>4, Each DEF CreateReplay, LocalsOK
    <3> QED
      BY <1>0, <2>4, <3>1, Each, CreateRunStep DEF CreateReplay
  <2>5. CASE \E n \in -1..MaxCapture, exit \in {"ok", "failed"} : Child(p, n, exit)
    BY <1>0, <2>5, ChildStep
  <2>6. CASE CreateSalt(p) \/ Write(p) \/ Finalize(p) \/ FinalizeAgain(p)
    BY <1>0, <2>6, CreateSaltStep, WriteStep, FinalizeSteps
  <2>7. CASE \E b \in Baselines : PromoteInsert(p, b)
    BY <1>0, <2>7, PromoteSteps
  <2> QED
    BY <1>3, <2>1, <2>2, <2>3, <2>4, <2>5, <2>6, <2>7 DEF Step
<1>4. ASSUME NEW r \in Runs, DeleteRun(r) PROVE IInv'
  BY <1>0, <1>4, DeleteSteps DEF DeleteRun
<1>5. ASSUME NEW s \in Sessions, DeleteSession(s) PROVE IInv'
  <2> DEFINE gone == {r \in Runs : runs[r].session = s}
  <2>1. \A t \in Sessions : salts'[t] = salts[t] \/ \A r \in Runs : runs[r].session = t => r \in gone
    BY <1>5 DEF DeleteSession, IInv, Typed, TypeOK
  <2> QED
    BY <1>0, <1>5, <2>1, DeleteSteps DEF DeleteSession
<1>6. CASE UNCHANGED vars
  BY <1>0, <1>6 DEF vars, tables, IInv, AllOwned, Distinct, Settled, Emptied, Exists, OneSalt,
                    CompleteIsWhole, BaselineComplete
<1> QED
  BY <1>1, <1>2, <1>3, <1>4, <1>5, <1>6 DEF Next

-----------------------------------------------------------------------------
(* What follows.                                                            *)

LEMMA Invariant == Spec => []IInv
BY InitIInv, NextIInv, PTL DEF Spec

(* The interactions of a session's runs were all scrubbed with the salt the *)
(* session has: the salt manager's create-if-absent and DeleteSession's one *)
(* transaction suffice, whatever dies between them.                         *)
THEOREM SessionHasOneSalt == Spec => []OneSalt
<1>1. IInv => OneSalt
  BY DEF IInv
<1> QED
  BY <1>1, Invariant, PTL

(* A run that finalizeRun has made complete has its whole capture.          *)
THEOREM CompleteRunsAreWhole == Spec => []CompleteIsWhole
<1>1. IInv => CompleteIsWhole
  BY DEF IInv
<1> QED
  BY <1>1, Invariant, PTL

(* replay seeds its command with all that the source run recorded.          *)
THEOREM ReplaysAreOfWholeRuns == Spec => []ReplaysWholeRun
<1>1. IInv => ReplaysWholeRun
  <2> SUFFICES ASSUME IInv, NEW p \in Commands, pc[p] = "child", cmd[p].mode = "replay"
               PROVE  cmd[p].seeds = captured[cmd[p].source] /\ cmd[p].seeds > 0
    BY DEF ReplaysWholeRun
  <2> QED
    <3>1. Owned("child", cmd[p], runs, interactions, salts, captured)
      BY Each
    <3>2. cmd[p].seeds \in {0, captured[cmd[p].source]} /\ cmd[p].seeds > 0
      BY <3>1 DEF Owned, Early
    <3> QED
      BY <3>2
<1> QED
  BY <1>1, Invariant, PTL

(* PutBaseline's check and its foreign key together are enough.             *)
THEOREM BaselinesAreComplete == Spec => []BaselineComplete
<1>1. IInv => BaselineComplete
  BY DEF IInv
<1> QED
  BY <1>1, Invariant, PTL

(* Deleted runs stay deleted, complete runs stay as they are until then.    *)
THEOREM RunsGoOneWay == Spec => OneWay
<1> DEFINE A == \A r \in Runs :
                  /\ r <= created /\ ~Exists(r) => runs'[r] = NoRow
                  /\ runs[r].status = "complete" =>
                       \/ runs'[r] = NoRow
                       \/ runs'[r] = runs[r] /\ interactions'[r] = interactions[r]
<1>1. IInv /\ [Next]_vars => A
  <2> SUFFICES ASSUME IInv, [Next]_vars PROVE A
    OBVIOUS
  <2>1. CASE UNCHANGED <<runs, interactions>>
    BY <2>1 DEF Exists
  <2>2. ASSUME NEW p \in Commands, NEW s, NEW l, CreateRun(p, s, l) PROVE A
    <3>1. created \in Nat
      BY RecordingAssumption DEF IInv, Typed, TypeOK
    <3>2. runs[created + 1] = NoRow \/ created + 1 \notin Runs
      BY <3>1 DEF IInv, Typed, Fresh, Runs
    <3> QED
      BY <2>2, <3>1, <3>2, RecordingAssumption
      DEF CreateRun, IInv, Typed, TypeOK, Exists, NoRow, Runs
  <2>3. ASSUME NEW gone, DeleteRuns(gone) PROVE A
    BY <2>3 DEF DeleteRuns, Exists
  <2>4. ASSUME NEW p \in Commands, pc[p] \in RunPoints, UNCHANGED interactions,
               NEW status, NEW s, UpdateRun(cmd[p].run, status, s)
        PROVE  A
    BY <2>4, RunRunning DEF UpdateRun, Exists, IInv, Typed, TypeOK
  <2>5. ASSUME NEW p \in Commands, Write(p) PROVE A
    <3>1. pc[p] \in RunPoints
      BY <2>5 DEF Write, RunPoints, Importing
    <3> QED
      BY <2>5, <3>1, RunRunning DEF Write, Exists, IInv, Typed, TypeOK
  <2>6. ASSUME NEW p \in Commands, Step(p) PROVE A
    <3>1. CASE List(p) \/ ListTorn(p) \/ ReadKey(p) \/ TruncateKey(p) \/ WriteKey(p)
               \/ Seed(p) \/ SetupFails(p)
               \/ \E n \in -1..MaxCapture, exit \in {"ok", "failed"} : Child(p, n, exit)
      BY <2>1, <3>1
      DEF List, ListTorn, ReadKey, TruncateKey, WriteKey, Seed, SetupFails, Child, tables
    <3>2. CASE \/ LoadRun(p) \/ GetSalt(p) \/ CreateSalt(p) \/ ReadSalt(p) \/ ImportFails(p)
               \/ FinalizeFails(p) \/ Crash(p) \/ \E b \in Baselines : PromoteInsert(p, b)
      BY <2>1, <3>2
      DEF LoadRun, GetSalt, CreateSalt, ReadSalt, ImportFails, FinalizeFails, Crash,
          PromoteInsert, tables
    <3>3. CASE CreateReplay(p)
      BY <2>2, <3>3 DEF CreateReplay
    <3>4. CASE Write(p)
      BY <2>5, <3>4
    <3>5. CASE Finalize(p) \/ FinalizeAgain(p)
      BY <2>1, <2>4, <3>5 DEF Finalize, FinalizeAgain, RunPoints
    <3> QED
      BY <2>6, <3>1, <3>2, <3>3, <3>4, <3>5 DEF Step
  <2>7. ASSUME NEW p \in Commands, NEW r \in Runs, Select(p, r) \/ PromoteCheck(p, r) PROVE A
    BY <2>1, <2>7 DEF Select, PromoteCheck, tables
  <2> QED
    BY <2>1, <2>2, <2>3, <2>6, <2>7 DEF Next, Record, DeleteRun, DeleteSession, vars, tables
<1> QED
  BY <1>1, Invariant, PTL DEF Spec, OneWay
=============================================================================
