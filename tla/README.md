# Stagehand: a TLA+ model of the staging platform

Stagehand runs an AI agent against simulated services, records what the agent
does, scrubs it, stores it, and replays and compares it later. This directory
holds TLA+ modules of the parts of it that keep state and are used by several
callers at once, and of the way from a recording to a release verdict, through
scrubbing, diff, assertions, contracts and gates; the TLC configurations that
check them on small instances; and proofs, checked by TLAPS, of what holds of
them for every size of instance.
The repository's code is the reference throughout; `PROJECT.json` maps each
definition to the lines it stands for. Paths below are relative to the
repository.

Contents: [1 the system](#1-the-system) · [2 modules](#2-modules-and-code) ·
[3 runs](#3-runs) · [4 fairness](#4-fairness) · [5 proofs](#5-proofs) ·
[6 findings](#6-where-the-code-and-its-texts-part) · [7 not modelled](#7-not-modelled) ·
[8 plan](#8-plan) · [9 running the checks](#9-running-the-checks)

## 1 The system

```
 agent process (SDK: capture, replay, injection)
      ^  seeds (replay)             | capture bundle
      |                             v
 stagehand record | replay | test | ci | baseline | delete-run | delete-session
      |                |                          analysis: assertions, diff,
      v                v                          contracts, gates, conformance
 recording writer -> scrub pipeline -> session salt manager -> master key file
      |
      v
 SQLite store  <-- session manager <-- Stripe simulator --> event queue manager
```

Go processes share one directory, `.stagehand`: an SQLite database and the file
of the master key. Each process has a single database connection
(`internal/store/sqlite/migrate.go:40`), so one statement, or one
`BEGIN IMMEDIATE` transaction, is atomic; what takes several of them is not.

| component | state | operations | what is hard | what makes it correct |
|---|---|---|---|---|
| session manager `internal/runtime/session` | `sessions`, `session_snapshots` | Create, Fork, Snapshot, Restore, CurrentSnapshot, Destroy | Fork is four store calls with an undo, Restore a read and a write; a Destroy and a new session of the name fit between | pointers at own snapshots, copies on fork, no half-made child, no effect on other sessions |
| event queue manager `internal/runtime/queue` | `session_clocks`, `scheduled_events` | Schedule, Now, AdvanceTime, PullDue | each is two to four transactions; callers race on the same rows; the clock is created lazily; a call may die after its commit | at most once, never silently, when due, clock forward, and in the end delivered |
| Stripe simulator `internal/services/stripe` | one JSON value in the current snapshot; its webhooks in the queue | customers, payment methods, intents, refunds | load, change, append without comparing; webhooks scheduled after the save; restored snapshots; rules spread over many calls | money adds up, statuses and references agree, terminal is final, webhooks tell what is so |
| SQLite store `internal/store/sqlite` | all tables | statements of the other components | foreign keys and upserts decide races | as its callers need |
| migrations `internal/store/sqlite/migrate.go` | `schema_migrations`, the schema | open a database | several processes, some of an older build, open one new database; what is applied is read before it is applied | schema and list agree, an opened database is current, nobody is shut out for good |
| commands `cmd/stagehand` | `runs`, key file | record, replay, test, ci, record-baseline, promote, delete | import is row by row; finalization is tried twice; a run or session is deleted meanwhile | complete runs whole, no run left running, replays of whole runs |
| recording writer `internal/recording` | `interactions` | PersistInteraction | run read, salt taken, row written: three steps | interactions of a session scrubbed with one salt |
| session salt manager `internal/scrub/session_salt` | `scrub_salts` | GetOrCreate | two creators; a key that has changed | one usable salt per session |
| scrub pipeline, rules, detectors `internal/scrub` | none | rewrite an interaction | precedence of rules; an interaction is taken apart and put together; a replay is scrubbed again | no text that a detector knows is stored; what is stored is valid |
| recorder schema `internal/recorder` | none | validate runs and interactions | renaming, renumbering and scrubbing come after validation | what is stored is valid |
| injection engine `internal/runtime/injection` | call counters | Evaluate | nth-call rules | each rule fires on its call |
| fallback matcher, exact replay `internal/runtime/fallback`, `replay` | none | choose a recorded answer | ties, thresholds | exact before nearest before synthesized |
| analysis: diff, assertions, contracts, gates `internal/analysis` | the contract file, gates, assertions | compare, generate, evaluate | alignment of repeated calls; four notions of an action; files validated at one time and used at another | they agree on what is new; a run that passes is the baseline but for ignored fields; accepted files give a verdict |
| conformance `internal/analysis/conformance` | none | compare simulator and service | | |
| Python and TypeScript SDKs `sdk` | capture buffer, replay queues, counters | reserve, append, take, write bundle | threads (Python), streams that end late, nested tools, cancelled tools | distinct sequence numbers, nothing replayed twice, parents present |
| inspect, doctor, init, preflight, configuration, daemon, scripts | none of their own | | | |

Interactions. The simulator calls the session manager (snapshots) and the queue
(webhooks); each call is store statements. The commands call the writer, which
calls the salt manager and the scrub pipeline, and start the agent with the
source run's interactions as seeds; the SDK leaves a capture file that the
command imports. Deleting a session (session manager or `delete-session`)
removes, by foreign keys or explicit statements, everything under its name:
rows of all the other components, at any point of their calls.

`PROJECT.json` lists the hazards of this code one by one, at their lines, with
the properties that would catch them.

## 2 Modules and code

| module | models | lines of the code |
|---|---|---|
| `EventQueue` | queue manager on the store | `queue/manager.go`, the clock and event statements of `sqlite/store.go` |
| `DeliveryContract` | what the queue promises; the abstract specification of `EventQueue` | |
| `EventQueueProofs` | theorems about `EventQueue` | |
| `SessionLifecycle` | session manager on the store | `session/manager.go`, session and snapshot statements |
| `SessionLifecycleProofs` | theorems about `SessionLifecycle` | |
| `StripeSimulator` | the simulator's rules and its way of saving | `stripe/simulator.go` |
| `StripeSimulatorProofs` | theorems about `StripeSimulator` | |
| `Recording` | commands, writer, salts, key file, run and baseline tables | `cmd/stagehand/main.go`, `workflow.go`, `recording/writer.go`, `session_salt/manager.go`, store |
| `RecordingProofs` | theorems about `Recording` | |
| `SdkRuntime` | the Python SDK in an agent process | `sdk/python/stagehand/_capture.py`, `_tools.py`, `_httpx.py`, `_openai.py`, `_injection.py` |
| `SdkRuntimeProofs` | theorems about `SdkRuntime` | |
| `Migrations` | opening a local database by several processes | `sqlite/migrate.go`, `migrations/*.sql` |
| `MigrationsProofs` | theorems about `Migrations` | |
| `Artifact` | runs and interactions as JSON, and their validation | `recorder/schema.go`, `replay/exact.go` |
| `ScrubPipeline` | rules, their precedence, and the scrubbing of an interaction | `scrub/pipeline.go`, `rules.go`, `session_salt` `Replacement` |
| `RunDiff` | the comparison of two runs | `analysis/diff/diff.go` |
| `BehaviorContract` | classification, contracts, their enforcement, the risk score | `analysis/contracts` |
| `Assertions` | assertion files and their evaluation | `analysis/assertions` |
| `ReleaseGates` | release gates, as assertions | `analysis/gates` |
| `ReleaseCheck` | record-baseline, contract generate and test, composing the six modules above | `cmd/stagehand/test.go`, `contract.go`, `record_baseline.go`, import in `workflow.go` |
| `ScrubPipelineProofs` | what scrubbing leaves of an interaction | |
| `ReleaseCheckProofs` | theorems about `ReleaseCheck` | |
| `MC...` | symmetry sets and constant definitions for TLC | |

**EventQueue.** `sessions`, `clock` and `event` are the three tables; `wall` is
`m.now()`. `pc` and `call` are a client's
place in its call and its locals. The actions are transactions: `InsertEvent`
(Schedule), `EnsureClock` (the conflict-ignoring insert with wall time),
`AdvanceClock` and `ReadClock` (the update, the read), `ListDue`,
`MarkDelivered` (all rows or none), `MarkConflict` (a row was taken, the whole
transaction rolls back and the caller gets an error), `Return`. `Fail` ends a
call at a store error, `Crash` loses its process, also between commit and return.
`handed` and `lost` are history: what callers have seen. The manager itself has
no state and no lock that spans two transactions, so clients of one manager, of
two managers and of two processes behave alike.

**SessionLifecycle.** Create, Snapshot and Destroy are one action each (one
transaction, or statements of which only one changes anything). Restore is the
read of the snapshot and of the session, the check inside `UpdateSession`
(`store.go:157-172`) and its `UPDATE` (`:176-193`). Fork is the read of the
parent's snapshot, `CreateSession`, `CreateSnapshot`, `UpdateSession` and, after
a failure, `DeleteSession` of the child. Deletions cascade from a session to its
snapshots, and foreign keys set the links of other rows to them to NULL
(`parent_snapshot_id`, `parent_session_name`). `current_snapshot_id` has no foreign
key: that it points at a snapshot that exists is up to the statements, and is
what `PointerOwned` is about.

**StripeSimulator.** A simulator's mutex is held for the whole operation, so an
operation is `Load`, one change-and-save, and `Schedule` once for each webhook;
`Refuse` is every refused call and every injected error, `GiveUp` a store error
between two webhooks. A snapshot also remembers which one its operation had
loaded (`base`), so that properties can tell races from sequences. The state
has customers, the owner of each payment method, intents and refunds; attributes
that no rule reads are left out. `Seeds` are states that earlier calls leave,
so that small bounds on the length of history still reach refunds: each is the
state after a sequence of the module's own operations. `SeedAssumption` says so
in terms of the state: the money of a seed is right and what it refers to is in it,
which the empty state satisfies and every operation keeps. What the refunds of
an intent come to is a running total over the sequence of refunds (`AddUpTo`).

**Recording.** A command is a process. `Record`, `Select`/`List` (replay) and
`PromoteCheck` start it; `ReadKey`, `TruncateKey`, `WriteKey` are the key file
(`os.WriteFile` truncates first, so a reader can find it empty); `Child` runs
the managed command and gives its exit and how many interactions it captured,
-1 for no usable capture; `LoadRun`, `GetSalt`, `CreateSalt`, `ReadSalt`,
`Write` are one interaction's import, `Finalize` and `FinalizeAgain` the two
tries at the final status; `ImportFails`, `SetupFails`, `FinalizeFails` and
`Crash` are the faults. A salt stands for its id and bytes, and an interaction
for the salt that scrubbed it. AES-GCM is modelled by what it does here: a salt
decrypts under the key that encrypted it and under no other. Captures are
taken to have distinct interaction ids, as the SDKs' random ids make them.

**SdkRuntime.** A thread is a thread or an asyncio task of the agent; `pc` and
`call` are where its current call stands, `stack` and `context` the tools it is
in and the context variable that names the innermost one, which a new task
inherits (`Spawn`). The capture buffer and the store of HTTP answers
have a lock, so `AppendNew`, `Reserve`, `AppendReserved`, `MatchExact` and
`MatchNearest` are one step each. The rule counters and the store of
tool answers have none: `Call` reads a counter, `CountPass` or `CountInject`
writes it; `FindTool` sees an answer, `TakeTool` takes it, `TakeNothing` finds it gone
(an IndexError in the code). A sequence number stands for the random id that
is generated with it. Injected latency lies between `CountInject` and
`InjectHttp` or `InjectTool`; a task may be cancelled there, in a tool
(`CancelTool`), or in a request (`RecordHttp` without an entry). Streams are
recorded when they are read or closed, or never. The keys of requests, how near
a request is to another, and the source run are constants. The Stripe adapter
(`_stripe.py`) makes the same calls in the same order and is a request here.

**Migrations.** A process is one run of a command: `EnsureTable`,
`LoadApplied` (the read of the versions, outside any transaction), then for each
migration it knows and did not read, in the order of the file names, `Apply`
or, when the transaction cannot go through, `Refused`; `Opened` when there is
none left. A migration is what it makes and what it needs: CREATE TABLE and ADD
COLUMN refuse what is there already, ALTER TABLE needs its table
(`Applicable`). `Knows` gives each process the migrations of its build, and
`Fault` is a lock timeout, a failing statement or a kill, `Again` the
command run once more.

**Artifact and the analyses.** These are pure functions of the code and are
operators here. A JSON value is a function from the paths of its nodes to
their leaves, so that what the code does by walking a value (`removePath`,
`scrubValue`, `collectModels`, `lookupPath`) is said of sets of paths. Where the
code walks a Go map and the order shows, as in the amount of a request
(`findNumericField`) or the field a matcher asks for (`nestedStringField`), the
operator gives the set of outcomes (`Amounts`, `Nested`) and the action picks one
for every walk (`Selections`). Text is known by what the code looks for in it: the
words of a name, the risks its terms mention, its number, the kinds the
detectors find. A text in which a detector finds something is replaced as a
whole, and a hash is the text under a mark: HMAC is taken to be injective.
A leaf is a text, or one of `Literals`: numbers and booleans, each with what
its JSON shows and what `fmt.Sprint` makes of it. The difference matters where the
code looks at the type: detectors scan texts and never literals (`Kinds`), while a
rule masks or hashes what the literal prints as.

**ReleaseCheck.** The variables are the files and rows that commands hand to
one another: the latest baseline with its run, the contract file, and the test
command's own copy of what it has read. `RecordBaseline` imports a capture
(renamed, renumbered, validated, scrubbed); `GenerateContract` and
`ReviewContract` (the reviewer is not part of the code) write the contract;
`TestLoad` reads contract, gates and baseline before the agent runs, and refuses
invalid ones; `TestReplay` imports what the agent captured in replay mode: recorded
calls again, in any order and number, and live ones; `TestJudge` reads the
assertions and evaluates everything in the code's order, with the exit code
of what is wrong first. Since a test works on its own copies and stored runs do
not change, other commands need not be interleaved with it.

## 3 Runs

Passing runs:

| run | instance | properties |
|---|---|---|
| `event_queue_safety` | 2 sessions, one of which may be destroyed and recreated, 2 clients, 2 events, durations -2 and 1, time to 1 | `TypeOK`, `AtMostOnce`, `NoSilentDelivery`, `DeliveredWhenDue`, `DeliveredIsFinal`, `ImplementsContract` |
| `event_queue_live` | 1 session, 2 clients, 2 events, time 0 only, fairness | `EventuallyDelivered` |
| `session_safety` | 2 names (one reused and recorded under), 2 clients, 3 snapshots, 2 states | `TypeOK`, `PointerOwned`, `ForkCopiesState`, `FailedForkCleansUp`, `LineageSound`, `Isolation` |
| `stripe_safety` | 2 simulators, amounts 1 and 2, 2 customers, 1 method, 1 intent, 3 refunds, 3 snapshots, 4 seeds | `TypeOK`, `RefundsAddUp`, `IntentsConsistent`, `TerminalIsFinal`, `WebhookOnce`, `WebhookTruthful` |
| `recording_safety` | 2 commands, 2 sessions, 1 baseline, 2 runs, captures up to 2, faults | `TypeOK`, `OneSalt`, `CompleteIsWhole`, `ReplaysWholeRun`, `BaselineComplete`, `OneWay` |
| `sdk_safety` | 2 threads, 2 tools, 2 requests, 3 numbers, 3 calls counted, a source run of 3, 2 rules | `TypeOK`, `OneOwner`, `Importable`, `ReplayedOnce`, `InRecordedOrder`, `NthUnlessRaced` |
| `migrations` | 3 processes, one of an older build of 4, 6 migrations, 2 faults, fairness | `TypeOK`, `SchemaAsListed`, `ReadyIsCurrent`, `EventuallyOpen` |
| `release_check` | 2 recordings or reviews, 2 captures, 3 sets of live calls, 3 gate files, 3 assertion files, every order of the recorded calls | `TypeOK`, `SecretsGone`, `NewActionsAgree`, `PassedMeansClean`, `LoadedGatesJudge` |

What they show:

- *Queue.* Whatever two callers, their failures and a deletion do, an event
  is handed out at most once, is never marked
  delivered behind its callers' backs, and a delivery is not taken back. As long as
  its session is not destroyed, it is not delivered before the session's clock has
  reached its due time; over a session destroyed and created again it may be (section 6). The
  four operations together implement `DeliveryContract`, in which a batch is
  claimed at one instant for one session and clocks only go forward. Callers
  that keep calling get everything that is due, although each conflict makes one
  of them fail: also an event that is left pending by a call which conflicted
  over another.
- *Sessions.* Pointers, lineage and copies survive every interleaving of
  statements. `PointerOwned` excludes names used again after a Destroy,
  since a Restore across which its session is destroyed and created again
  leaves the new session with a pointer at a snapshot that is gone.
- *Stripe.* The rules that each call checks by itself keep the state consistent
  over sequences of calls and also when two simulators overwrite one another:
  a save that wins replaces the whole state by one that is consistent. The
  two webhook properties speak of histories without such a race, since a lost
  update loses objects that webhooks already name; `Linear` states the condition.
- *Recording.* Salt creation by two commands, deletion of the session at any
  moment of an import, failures in the middle of it and repeated finalization
  leave no run complete that is not, and no two salts in one session.
- *Python SDK.* However tools, requests, streams and injected errors of two
  threads end, every number has one owner and a parent's number comes before
  those of its calls, so that the import can write rows in that order. No lock
  on the tool answers is needed to hand each out once and in order; what its absence
  costs is an IndexError instead of a replay miss. The counters of the injection
  rules do need the lock they have not: where no two threads count calls of one
  operation at once, just the calls that rules name are injected, and where they do,
  the nth call may not be (section 6). An HTTP answer handed out as nearest match may be handed
  out once more as the exact one.

- *Migrations.* The read of the applied versions and the transactions are
  apart, yet the loser of a race is refused by the schema itself and rolled
  back, and finds its way when the command is run again; a build that knows
  fewer migrations than the database has opens it too.
- *Release check.* No text a detector knows is stored, in the baseline or in
  a replay, whether it stood in a header, a parameter, a body, an event or the
  headers of a response, but where a rule of the configuration preserves it. This
  is about texts: a number that reads like a secret is stored (section 6). Diff,
  contract and gates compute what is new from keys of their own, and agree. Exit code 0 means that the replay made the
  calls of the baseline, each as often and equal but for ignored fields, answered
  by no worse a tier, and that the contract permits them. Gates accepted before the
  agent runs are judged after it.

Why these bounds are enough to be telling. Every race here is between two
callers and one third party (a deletion, a restore), and every property
speaks of at most two rows at a time, so two callers, two rows and one deleter
reach each of the interleavings in question; each property also has a plausible
bug, listed in `PROJECT.json` under `mutants`, that breaks it on this
very instance. Two events make a batch that can fail in its second row. Three
snapshots are a parent's, a fork's copy and one more. Amounts 1 and 2 let two
partial refunds reach the full amount and a third fail. `MaxTime` 1 lets an
event be due in the future and the clock pass it; a step of -2 is one that the
clock refuses. `event_queue_live` has time 0 only, as what is in question is
who takes the events that are due already. In `release_check`
the captures hold a model call with a secret in each part of it, a read with a telephone
number as a JSON number, a refund with two amounts, and a parent; the live calls are an unapproved refund, a
message with two channels, and a tool of unknown effect with a secret that a rule masks; `MaxChanges` 2 allows a second baseline
under an old contract, or a review of a new one. Time,
runs, captures, snapshots, numbers, calls and objects are the only bounded counters; each
bound is a constant of its module. That nothing depends on the sizes is what
the proofs add, for the modules that have them. Deadlock checking is on for
`migrations` and `release_check`, whose commands can always be run again, and off for
the other modules, which stop legitimately when ids or bounds are used up.

Runs that end in a violation are described in section 6.

## 4 Fairness

`EventQueue` and `Migrations` have a liveness property. In `Migrations`,
`FairSpec` is weak fairness of each process's own steps (a process that runs is
scheduled; `Fault` has no fairness) and of running a command again that has
failed. In `EventQueue` it assumes:

- weak fairness of the steps by which a call goes on (`LeaveInsert`,
  `LeaveEnsure`, `MarkConflict`, `Return`): a goroutine in a call is not stopped
  for ever. `Crash` and `Fail` have no fairness and stay possible;
- strong fairness of `ListDue` and `MarkDelivered` of each client and mode: a
  store that fails now and then does not fail a client's every attempt;
- strong fairness of `AdvanceClock(c, s, 0)` and `ReadClock(c, s)` by some
  client: the application keeps calling AdvanceTime and PullDue. Nothing in the
  repository polls in the background, so this is an assumption on the user
  of the queue, not on its scheduler. Which client calls is left open, and so is
  the outcome.

Strong fairness is needed for `MarkDelivered` because a rival that marks first
disables it; the rival's success is then the event's delivery.

## 5 Proofs

Every theorem is for all values of the constants under the assumption its
module names (`QueueAssumption`, `SessionAssumption`, `RecordingAssumption`,
`StripeAssumption`, `SdkAssumption`:
types of constants, and that `None`/`NoSession` is no name;
`MigrationAssumption`: a migration needs only earlier ones; `SeedAssumption`: what
earlier calls of the simulator leave; those of `ReleaseCheck`: see there). None assumes
a bound, nor finiteness but that of lists.

**EventQueueProofs**: `TypeCorrect`, `DeliveredAtMostOnce`,
`NeverDeliveredSilently`, `ClockNeverBack`, `DeliveredStaysDelivered`,
`NeverDeliveredEarly`, `QueueImplementsContract`. The invariant is types, then:
- `DeliveryInv`: `AtMostOnce` and `NoSilentDelivery` are not inductive without
  `ClaimedNotPending`: what a call is about to return, was returned or was
  lost is no longer pending. `MarkDelivered` marks only pending rows,
  hence it claims what nobody else holds.
- `DueInv`: `CallInv` says that the clock of a call's session, if that is not
  destroyed, has reached the clock value the call works with, and that the
  events it has listed are due by that value; `DeliveredHasSession` and
  `DeliveredWhenDue` carry this over to the rows it marks.
  This is where "destroyed and created again" must be excluded.

The refinement is proved with both and with `UnissuedHasNoRow` (an event id
that no call has been given is in no row). The refinement mapping gives each event a
phase, which its row decides as long as no call has claimed it and its claim from
then on; the lemmas compute the phase in each case, and then each action is
shown to be one action of `DeliveryContract` (`MarkDelivered` claims the whole batch, `Return`
hands it out, a crash after the commit loses it) or to leave the contract's variables alone.
Proving it turned up an error of the model, not of the code: the phases had been
written as a CASE whose conditions overlapped, which leaves the choice between them
open; it is an IF chain now.

**SessionLifecycleProofs**: `TypeCorrect`, `SessionPointsAtOwnSnapshot`,
`ForkIsACopy`, `SnapshotsHaveALineage`, `ForkCleansUp`, `SessionsIsolated`.
- `PointerInv` = `PointerOwned`, with `RowsOK` (a snapshot's id was issued and
  its session exists) and `WorkOK` (the session a call works on exists or was
  destroyed, and what `UpdateSession` has checked is still so when it writes,
  for a session that exists and whose name is not used again). The
  gap between the check in `UpdateSession` and its write is closed by this: only
  a deletion of the session deletes its snapshots, and for a name not used
  again the write then finds no row.
- `CopyInv` = `ForkCopiesState`, with `ParentExists`: a snapshot's parent is
  there, so that an id generated later is not one that some row already
  names as its parent.
- `LineageSound` says that there is no circle of parents without following a path: of any
  snapshots, one has no parent among them. In this form it is inductive with
  `PointerInv`. A new snapshot has an id that no link leads to, so it is a leaf; a deletion
  removes rows and sets links to them to NULL, which closes no circle.

**StripeSimulatorProofs**: `TypeCorrect`, `RefundsAlwaysAddUp`,
`IntentsAlwaysConsistent`, `TerminalStaysFinal`, `WebhookScheduledOnce`,
`WebhookTellsTruth`. All rest on one fact about each operation, taken by itself
(`Sound`): saved over a state that is right, its result is right, terminal intents
are kept, what earlier webhooks say stays true, and each new webhook is true
of the new state and, unless it is one that may be repeated, was not true of the old.
There is a lemma for each operation, the long ones being updates of intents
(status, payment method, customer and capture in one call) and refunds (the running
total is extended by one). From there:
- `HistoryInv`: every snapshot is right and keeps what was final in its base. No
  exclusion of races is needed, as a save replaces the whole state by the result of
  an operation on some earlier snapshot.
- `WebhookInv`: as long as the history is a chain (no restore, and no save over
  another's), scheduled webhooks are borne out by the current state, and those
  still to be scheduled are borne out, not scheduled yet and distinct. That a
  status is entered once, though statuses move freely until they are terminal, is what
  `Since` says: the statuses an intent can be in once the webhook has been sent.

**RecordingProofs**: `TypeCorrect`, `SessionHasOneSalt`, `CompleteRunsAreWhole`,
`ReplaysAreOfWholeRuns`, `BaselinesAreComplete`, `RunsGoOneWay`. The invariant
`IInv` has these parts beside the types:
- `AllOwned`: a command's local variables against the tables. The run it works
  on is running or gone, as nobody else finalizes it; the number it has
  persisted is the number stored; the salt it holds is the session's or
  the run is gone. The last is why a session deleted under a command is
  harmless: its run went with it, and the foreign key refuses the write.
- `Distinct`: no two commands work on the same run.
- `Settled`: no run that is being replayed still awaits its capture.
- `Emptied`: runs not created yet, or deleted, have no interactions.
- `OneSalt`, `CompleteIsWhole`, `BaselineComplete` themselves.

**SdkRuntimeProofs**: `TypeCorrect`, `NthCallUnlessRaced`, `AnswersReplayedOnce`,
`AnswersInRecordedOrder`, `NumbersHaveOneOwner`, `ParentsComeFirst`.
- `CountInv`: of an operation whose calls have not raced, the counter is the number of
  calls that were counted, and a thread that is between reading and writing it is
  the only one and holds the next number. `raced` and `counted` are history: an
  operation has raced once a thread read its counter before another had
  written it back.
- `QueueInv`: the queue of each key is increasing and holds a final segment of
  the key's interactions; what has left it was handed out as the exact answer, once, and
  what is in it at most as a nearest match, which `used` remembers for HTTP
  answers. `FindTool` needs nothing: `TakeTool` looks at the queue again.
  The recursion that fills the queues (`Seeded`) is a recursive function, shown to exist by
  induction over the length of the source run.
- `OneOwner` is inductive by itself: a number has one owner among the frames
  of all threads' stacks, injected answers on their way, entries and cancelled tools, and
  moves from one kind to another in one step.
- `ParentInv`: the parent of each entry, frame and context is a known number below
  the counter, and lower than the numbers of the calls under it.

**MigrationsProofs**: `SpecTypeOK`, `SpecSchemaAsListed`, `SpecReadyIsCurrent`.
The three are inductive together. The lemma `TurnIsNext` carries the step: what
comes before the migration whose turn it is has been read or applied by the
process, is therefore listed (`TypeOK`), and is in the schema, so that the gapless
list grows by its next number.

**ScrubPipelineProofs**: `ScrubbedTextsAreClean`. Of the leaves of an interaction
scrubbing leaves those in which no detector finds anything, those a rule
preserves, hashes and masks, and numbers and booleans whatever they show; and the result is an interaction again. There
is a lemma for each part (headers, query, body, the data of an event with the
headers of its response taken out and put back) and for what they share: the choice
of the most specific rule is never void, the first rule on the way to a node decides
for all that is below it, and the stable sort lists every number once
(`AscendingSorts`, which the import and the diff use too).

**ReleaseCheckProofs**: `LoadedGatesAreJudged`, `StoredRunsAreValid`,
`SecretsAreGone`, `NewActionsAreAgreed`, `PassedRunsAreClean`, for any captures,
rules, files and orders of replay.
- `AcceptedInv`: the gates of a test that runs have passed the rules that are
  applied before the agent runs. `TranslationIsValid` is the lemma that these imply
  the rules applied after it, for every clause, number of gates and selector.
- `StoredInv`: what is stored is a valid run whose interactions are numbered in
  their order and hold no secret text (`SoundRun`). That is not inductive for the baseline, whose
  texts a replay stores again: `RecordedRun` adds that a
  recording holds only captured texts, their hashes and their masks, so that what is
  left of them after a second scrubbing is known as well. `ImportedIsSound` carries the step:
  sorting permutes, renaming keeps ids distinct, scrubbing keeps what `Validate` asks.
- `SourceInv`: a recording takes a name no run has had, hence a contract
  that names the latest baseline as its source and has no reviews was generated
  from it. `RecordBaseline` under an old contract is the step that needs it.
- `VerdictInv`: a verdict is the report of sound runs, accepted gates and such a
  contract; it is reached from the other three in one step.

  From `VerdictInv` the last two theorems follow without the transition relation. In
  a sound run every interaction is an action, under the same key everywhere
  (`StoredAreActions`), so that diff, contract and gates compute `NewActions`
  each in its way. No ignored path starts at the service or the operation
  (`NamesAreCompared`), whatever is configured, so that aligned calls are of one
  action (`AlignedNames`) and a call of a new one stays unpaired. Keys of a run are
  distinct, as occurrences are counted upwards (`CountsGrow`, `KeyedItems`); without a
  failing change the alignment is a bijection that keeps documents and makes no tier
  worse, which bounds the counts in `PassedMeansClean` in both directions.

The assumptions are about input and configuration, and TLC evaluates them on the
run. `ReleaseAssumption`: `MergeRules` has accepted the configured rules, and an
ignored path of a service is not empty. `CaptureAssumption`: a capture is a list of
interactions of the Go types with distinct ids, as the SDKs' random ids make them;
a tool's call has the SDKs' one service, and headers are texts, as the SDKs make them. `NameAssumption`: run names differ and are
not empty (`generateRunID`), ids stay distinct under a run's name.
`DetectorAssumption`: no detector knows a mark of structure or a literal (it is given
none), and hashing
or masking a captured text, or one so replaced, makes no secret: a replacement
that looks like an e-mail address to the detectors (section 6) is not one. `GateAssumption`:
the parsed file is a list, a `require_approval` clause has no condition
but an amount, and the ids `gate-001`, `gate-002`, ... differ.

The invariants of `Recording`, `StripeSimulator` and `SdkRuntime` were checked with TLC,
as invariants of the modules' runs, before they were proved. Each proof has one lemma per conjunct, and in it one step per
action or per kind of action that treats the conjunct alike.

*Only model-checked*: `EventuallyDelivered` and `EventuallyOpen` (liveness under
fairness is out of the prover's reach, as is ENABLED), and the four properties of
section 6, which do not hold. Every invariant and action property that the runs
check is proved. No module declares a RECURSIVE operator. The two
recursive functions of the analyses (`Removed`, which follows an ignored path into a
document, and `Amounts`) are used by no proof for what they compute: the theorems hold
whichever fields below the ignored paths go, and whatever an amount is read as.

## 6 Where the code and its texts part

Four runs state what a document or comment of the repository says and end in a
behaviour of the code that differs. `PROJECT.json` quotes the lines.

| run, property | what happens |
|---|---|
| `stripe_owner`, `IntentCustomerOwnsMethod` | attaching a payment method ignores the intents that use it: an intent of one customer is left with a method of another |
| `recording_left`, `NoRunLeftRunning` | replaying a complete run without interactions fails after its own run was created, and leaves that running |
| `release_rescrub`, `ExactReplayIsClean` | the replacement of an e-mail address is an e-mail address to the detectors; scrubbed again on replay it changes, and a replay of the very same calls fails the diff |
| `sdk_nth`, `NthCallInjected` | two threads read one call counter before either writes it back: two calls are made, the counter says one, and the rule for the second injects neither |

None needs a fault beyond the failing call it names. More weaknesses appear as
conditions of properties that pass, or as what the models do without a property
against it: names of sessions used again, over which a pointer may be left at a snapshot that
is gone (`PointerOwned`) and an event be delivered by the clock of the old session
(`DeliveredWhenDue`); a number in a body or an event, a telephone's for instance,
which the detectors do not scan and which is stored as it is (`SecretsGone`); a new
action of unknown effect that the contract permits, which is scored low with the
reason that what is new only reads (`risk.go:37`);
tools that are cancelled, whose nested calls are recorded and cannot be
imported without them (`Importable`); webhooks over restored snapshots, after which
objects get the ids of others again (`Linear`); a Fork whose undo fails as well
(`FailedForkCleansUp`); a Fork that fails and is undone by
`DeleteSession`, which takes the runs recorded earlier under the child's name;
two first commands of a directory that write a master key each; a replayed nested
tool that keeps the parent id of its source run; an amount read from a
request with several, which depends on the order of a Go map; the field
`new_action` in an assertion file, for which every action is new.

## 7 Not modelled

- Regular expressions: the detectors are a constant, and so are the words and
  terms the classifier finds. Replacement of a part of a text. A secret as a number
  is in the model (`Literals`); headers of a captured response are taken to be texts.
- The order in which Go walks a map, where it decides which of several fields of one
  object with one name but for upper and lower case is taken (`FieldText`): one is chosen
  for good there. For amounts and for the fields of matchers every outcome is possible.
- The conformance runner and the fallback matcher.
- Reading and writing YAML and JSON, evidence and messages of results, reports;
  `user_overrides`, `max_amount` and `allowed_fallback_tiers` of contracts are
  validated and never applied, in the code as in the model.
- The TypeScript SDK, and of the Python SDK passthrough mode, seeds added while
  threads run, and the writing of the bundle file. Go's injection engine, which
  has a lock where the Python one has none.
- All modules but `Migrations` start from the migrated schema.
- Listings, getters, encodings, command-line parsing, preflight checks,
  configuration, rendering, the daemon (a placeholder), release scripts.
- Within the modelled parts: SQLite itself (a statement or transaction is
  atomic, durable and fails as a whole), `SQLITE_BUSY` (a failing statement),
  the fields no property tells apart (names, metadata, currency, payloads).

## 8 Plan

1. `EventQueue`, `DeliveryContract`, proofs with the refinement: done.
2. `SessionLifecycle`, proofs: done.
3. `StripeSimulator`, proofs: done.
4. `Recording`, proofs: done.
5. `SdkRuntime`, proofs: done for Python. Left: what differs in TypeScript (one event
   loop, `interception.ts`, `replay.ts`).
6. `Migrations`, proofs: done.
7. `Artifact`, `ScrubPipeline`, `RunDiff`, `BehaviorContract`, `Assertions`,
   `ReleaseGates` and their composition `ReleaseCheck`, proofs: done. Left: lemmas that
   no invariant needs (merging keeps the default rules; a diff of a run with itself
   is empty).
8. `FallbackMatcher`: exact, nearest, synthesized, against a definition by
   maximal score.
9. `Simulation`: `StripeSimulator` over `EventQueue` and `SessionLifecycle`
    where the three share a session and its deletion.

## 9 Running the checks

In this directory, for each run of `PROJECT.json`:

    tlc -workers 2 -config EventQueueSafety.cfg MCEventQueue
    tlapm EventQueueProofs.tla

Each run takes between seconds and about two minutes on two workers; the
proofs take a few minutes each from nothing.
