------------------------------ MODULE ReleaseCheck ------------------------------
(***************************************************************************)
(* From a recording to a verdict: cmd/stagehand test.go, contract.go and   *)
(* the import of a bundle in workflow.go.  A run is recorded and becomes   *)
(* the baseline of its session; a behavior contract is generated from the  *)
(* baseline and reviewed; `stagehand test' replays the agent and judges    *)
(* the replay by its difference from the baseline, the assertions, the     *)
(* contract and the release gates.                                         *)
(*                                                                         *)
(* Each of these is a process.  A test has read the contract, the gates    *)
(* and its baseline before the agent runs, and stored runs do not change:  *)
(* what other commands do while it runs, they might as well do after it,   *)
(* and that is where they stand here.                                      *)
(***************************************************************************)
EXTENDS RunDiff, ScrubPipeline, ReleaseGates

CONSTANTS
  Bundles,         \* what an agent in record mode may capture
  LiveCalls,       \* what the tools that are live in a replay, and injected errors, may add
  GateFiles,       \* release gates of the project, NoFile among them
  AssertionFiles,  \* assertion files of the project, NoFile among them
  Session, Policy, Salt,  \* the session, the scrub policy version, the session's salt
  CustomRules,     \* scrub.custom_rules of stagehand.yml
  ToolOverrides,   \* classification.tool_overrides of stagehand.yml
  Approvable,      \* actions a reviewer may add to the contract
  NoFile, NoRun,   \* no file of that kind, and no run
  MaxChanges       \* bound: recordings and reviews of the contract file, together

(* The configuration is valid (scrub/rules.go MergeRules, diff.go: an       *)
(* ignored path names something), and a pattern has a length.               *)
Rules == Merged(CustomRules)
ASSUME ReleaseAssumption ==
  /\ IsList(CustomRules) /\ MergeOk(CustomRules) /\ MaxChanges \in Nat
  /\ \A k \in DOMAIN Rules : Specificity(Rules[k].pattern) \in Nat
  /\ \A s \in DOMAIN ServiceIgnored : \A path \in ServiceIgnored[s].request \cup ServiceIgnored[s].response :
       IsList(path) /\ path # <<>>

(* What the SDKs capture: lists of interactions, each with an id of its     *)
(* own; the headers of a response are captured as texts.                    *)
Captured == UNION {ToSet(bundle) : bundle \in Bundles \cup LiveCalls}
ASSUME CaptureAssumption ==
  /\ \A bundle \in Bundles \cup LiveCalls :
       IsList(bundle) /\ \A j, k \in DOMAIN bundle : bundle[j].id = bundle[k].id => j = k
  /\ \A i \in Captured :
       /\ IsInteraction(i)
       /\ \A k \in DOMAIN i.events : Leaves(Under(i.events[k].data, <<"headers">>)) \cap DOMAIN Literals = {}

(* Runs are numbered, what is replayed has an id of its own, and an         *)
(* interaction is stored under its run's name and its id.                   *)
RunName(n) == "r" \o ToString(n)
AgainId(k) == "again" \o ToString(k)
Renamed(run, id) == run \o "__" \o id
Places == UNION {DOMAIN bundle : bundle \in Bundles}
ASSUME NameAssumption ==
  LET runs == {RunName(n) : n \in 1 .. MaxChanges}
      ids  == {i.id : i \in Captured} \cup {AgainId(k) : k \in Places}
  IN  /\ "" \notin runs \cup {Session, Policy, Salt}
      /\ \A m, n \in 1 .. MaxChanges : RunName(m) = RunName(n) => m = n
      /\ \A run \in runs \cup {"replay"} : \A x, y \in ids : Renamed(run, x) = Renamed(run, y) => x = y
      /\ \A j, k \in Places : AgainId(j) = AgainId(k) => j = k
      /\ \A live \in LiveCalls : \A k \in DOMAIN live, j \in Places : live[k].id # AgainId(j)

(* What a detector knows, and the texts a stored run may hold: those that   *)
(* were captured, their hashes and their masks, in which no detector finds  *)
(* a thing again.  No literal is itself a text that a detector knows; what  *)
(* its JSON shows may be.                                                   *)
Secrets == DOMAIN Detected \ {Hash(text) : text \in DOMAIN Detected}
Said == UNION {TextsOf(i) : i \in Captured}
ASSUME DetectorAssumption ==
  /\ \A text \in DOMAIN Detected : Detected[text] # {}
  /\ DOMAIN Detected \cap (Marks \cup DOMAIN Literals) = {}
  /\ \A leaf \in Replaced(Said) : Hash(Text(leaf)) \notin Secrets /\ Mask(Text(leaf)) \notin Secrets

(* A gate file is a list; only a block_if clause has conditions other than  *)
(* an amount (gates/schema.go RequireApproval).  The ids of its assertions  *)
(* are numbered, so they differ and none is empty.                          *)
ASSUME GateAssumption ==
  \A file \in GateFiles \ {NoFile} :
    /\ Len(file) \in Nat /\ file = [k \in 1 .. Len(file) |-> file[k]]
    /\ \A k \in DOMAIN file :
         /\ "require_approval" \in DOMAIN file[k].clauses
              => DOMAIN file[k].clauses["require_approval"].when \subseteq {"amount_gt"}
         /\ GateId(k) # "" /\ \A j \in DOMAIN file : GateId(j) = GateId(k) => j = k

VARIABLES
  baseline,   \* the run of the session's latest baseline
  recorded,   \* how many there have been
  contract,   \* the contract file: its content, the run it was generated from, its reviews
  test,       \* the test command: what it has loaded, and the replay
  report      \* what the last command found

(* asRecorded is history: whether the replay was the baseline, call by call. *)

vars == <<baseline, recorded, contract, test, report>>

(* normalizeImportedInteractions: in order of their sequences, which are    *)
(* the capture's own, under the names of the new run; a parent that is not  *)
(* in the bundle keeps its name.                                            *)
Normalized(run, bundle) ==
  LET ordered == BySequence(bundle)
      ids     == {bundle[k].id : k \in DOMAIN bundle}
  IN  [k \in DOMAIN ordered |->
         [ordered[k] EXCEPT !.run = run, !.seq = k, !.id = Renamed(run, @),
                            !.parent = IF @ \in ids THEN Renamed(run, @) ELSE @]]

(* The interactions are validated, scrubbed and stored.                     *)
Stored(run, mode, normal, scrubbed) ==
  [ok |-> \A k \in DOMAIN normal : ValidInteraction(normal[k], run, "") /\ scrubbed[k].ok,
   run |-> [run |-> run, session |-> Session, mode |-> mode, status |-> "complete", ended |-> TRUE,
            issues |-> {}, policy |-> Policy,
            interactions |-> [k \in DOMAIN scrubbed |-> scrubbed[k].interaction]]]
ScrubAll(items) == [k \in DOMAIN items |-> ScrubInteraction(Rules, Policy, Salt, items[k])]
Imported(run, mode, bundle) ==
  LET Kept(normal) == Stored(run, mode, normal, ScrubAll(normal))
  IN  Kept(Normalized(run, bundle))

Changes == recorded + (IF contract = NoFile THEN 0 ELSE contract.edits)

Idle == [phase |-> "idle"]
NoReport == [exit |-> 0]

Init ==
  /\ baseline = NoRun /\ recorded = 0
  /\ contract = NoFile
  /\ test = Idle
  /\ report = NoReport

(* stagehand record-baseline: a bundle that is refused leaves the baseline. *)
RecordBaseline ==
  /\ test = Idle /\ Changes < MaxChanges
  /\ \E bundle \in Bundles : \E new \in {Imported(RunName(recorded + 1), "record", bundle)} :
       /\ new.ok
       /\ baseline' = new.run
  /\ recorded' = recorded + 1
  /\ report' = NoReport
  /\ UNCHANGED <<contract, test>>

(* stagehand contract generate, with --force where there is a file.         *)
GenerateContract ==
  /\ test = Idle /\ baseline # NoRun
  /\ \E amount \in AmountReadings(baseline) :
       LET file == Generated(baseline, ToolOverrides, amount)
       IN  /\ ValidContract(file)
           /\ contract' = [file |-> file, source |-> baseline.run, edits |-> 0]
  /\ report' = NoReport
  /\ UNCHANGED <<baseline, recorded, test>>

(* A reviewer approves of an action, waives an approval, or forbids one.    *)
Reviewed(file) ==
  {[file EXCEPT !.allowed = @ \cup {a}] : a \in Approvable}
    \cup {[file EXCEPT !.restricted = (@ \ {a}) \cup {[a EXCEPT !.approval = FALSE]}] :
            a \in {b \in file.restricted : b.approval}}
    \cup {[file EXCEPT !.allowed = @ \ {a}, !.restricted = @ \ {a},
                       !.forbidden = @ \cup {[a EXCEPT !.approval = FALSE, !.reason = "reviewed"]}] :
            a \in file.allowed \cup file.restricted}
ReviewContract ==
  /\ test = Idle /\ contract # NoFile /\ Changes < MaxChanges
  /\ \E file \in Reviewed(contract.file) :
       contract' = [contract EXCEPT !.file = file, !.edits = @ + 1]
  /\ report' = NoReport
  /\ UNCHANGED <<baseline, recorded, test>>

(* Exit codes of exit_codes.go.                                             *)
Configuration == 2
ReplayFailure == 3
BehaviorDiff == 4
AssertionFailure == 5
ContractViolation == 6

(* The command reads the contract, the gates and the latest baseline.       *)
Loadable(gates) ==
  /\ contract # NoFile => ValidContract(contract.file)
  /\ gates # NoFile => ValidGates(gates)
  /\ baseline # NoRun
TestLoad ==
  /\ test.phase = "idle"
  /\ \E gates \in GateFiles :
       IF Loadable(gates)
       THEN /\ test' = [phase |-> "loaded", contract |-> contract, gates |-> gates, base |-> baseline]
            /\ report' = NoReport
       ELSE /\ report' = [exit |-> Configuration]
            /\ UNCHANGED test
  /\ UNCHANGED <<baseline, recorded, contract>>

(* record_replay_interaction: what is replayed is the stored interaction    *)
(* under a new name; the live calls follow.                                 *)
Orders(run) == {s \in UNION {[1 .. n -> DOMAIN run.interactions] : n \in 0 .. Len(run.interactions)} :
                  IsInjective(s)}
ReplayCapture(base, order, tier, live) ==
  LET again(k) == [base.interactions[k] EXCEPT !.run = "sdk", !.id = AgainId(k), !.tier = tier]
      calls == [n \in DOMAIN order |-> again(order[n])] \o live
  IN  [n \in DOMAIN calls |-> [calls[n] EXCEPT !.seq = n]]

(* stagehand replay: the agent makes recorded calls again, in some order,   *)
(* and live ones; it may also fail, and then there is no verdict.           *)
TestReplay ==
  /\ test.phase = "loaded" /\ ReplayEligible(test.base)
  /\ \E order \in Orders(test.base), tier \in {"exact", "nearest_neighbor"}, live \in LiveCalls :
       \E new \in {Imported("replay", "replay", ReplayCapture(test.base, order, tier, live))} :
         /\ new.ok
         /\ test' = [phase |-> "replayed", contract |-> test.contract, gates |-> test.gates,
                     base |-> test.base, candidate |-> new.run,
                     asRecorded |-> live = <<>> /\ tier = "exact"
                                      /\ order = [n \in DOMAIN test.base.interactions |-> n]]
  /\ UNCHANGED <<baseline, recorded, contract, report>>

TestReplayFails ==
  /\ test.phase = "loaded"
  /\ test' = Idle
  /\ report' = [exit |-> ReplayFailure]
  /\ UNCHANGED <<baseline, recorded, contract>>

Failed(results) == {k \in DOMAIN results : ~results[k].passed}

(* What is wrong first decides the exit code.                               *)
ExitCode(violations, changes, gates, assertions) ==
  IF violations # {} THEN ContractViolation
  ELSE IF Failing(changes) # {} THEN BehaviorDiff
  ELSE IF Failed(gates) # {} \/ Failed(assertions) # {} THEN AssertionFailure
  ELSE 0

(* The assertions have no base run: to them every action is new.            *)
Report(t, changes, violations, diffs, results, gates) ==
  [exit |-> ExitCode(violations, changes, gates, results),
   contract |-> t.contract, gates |-> t.gates, base |-> t.base, candidate |-> t.candidate,
   asRecorded |-> t.asRecorded, blocked |-> Failed(gates), changes |-> changes,
   violations |-> violations, diffs |-> diffs, level |-> ScoreRisk(diffs, violations)]
Judged(t, assertions, saw, gateSaw) ==
  Report(t, Compare(t.base.interactions, t.candidate.interactions, {}),
         IF t.contract = NoFile THEN {} ELSE Evaluate(t.candidate, t.contract.file),
         DiffRuns(t.base, t.candidate),
         EvaluateAssertions(t.candidate, assertions, {}, saw),
         IF t.gates = NoFile THEN <<>> ELSE EvaluateGates(t.candidate, t.gates, t.base, gateSaw))

(* The assertions are read after the replay; no file, or one without any    *)
(* assertion, is skipped.                                                   *)
TestJudge ==
  /\ test.phase = "replayed"
  /\ \E file \in AssertionFiles :
       LET assertions == IF file = NoFile THEN <<>> ELSE file
           gates      == IF test.gates = NoFile THEN <<>> ELSE Translate(test.gates)
       IN  IF assertions # <<>> /\ ~ValidAssertions(assertions)
           THEN report' = [exit |-> Configuration]
           ELSE \E saw \in Readings(test.candidate, assertions),
                   gateSaw \in Readings(test.candidate, gates) :
                  report' = Judged(test, assertions, saw, gateSaw)
  /\ test' = Idle
  /\ UNCHANGED <<baseline, recorded, contract>>

Next ==
  \/ RecordBaseline \/ GenerateContract \/ ReviewContract
  \/ TestLoad \/ TestReplay \/ TestReplayFails \/ TestJudge

Spec == Init /\ [][Next]_vars

HasVerdict == "level" \in DOMAIN report

(* Every stored run satisfies the recorder's schema: renaming, renumbering  *)
(* and scrubbing keep what Validate asked of the captured interactions.     *)
TypeOK ==
  /\ baseline = NoRun \/ ValidRun(baseline)
  /\ recorded \in 0 .. MaxChanges
  /\ contract = NoFile \/ contract.edits \in 0 .. MaxChanges
  /\ test.phase \in {"idle", "loaded", "replayed"}
  /\ test.phase = "replayed" => ValidRun(test.candidate)
  /\ report.exit \in {0, Configuration, ReplayFailure, BehaviorDiff, AssertionFailure, ContractViolation}

(* The captured texts that a rule preserves.                                *)
Spared == UNION {Preserved(Rules, i) : i \in Captured}

(* What a detector knows is no text of a run that is stored, wherever it    *)
(* stood in the headers, the query, the body or the events of an            *)
(* interaction, unless a rule preserves it (scrub/pipeline.go               *)
(* ScrubInteraction).  This is about texts only: numbers are not scanned.   *)
StoredRuns == ({baseline} \cup (IF test.phase = "replayed" THEN {test.candidate} ELSE {})) \ {NoRun}
SecretsGone ==
  \A run \in StoredRuns : \A k \in DOMAIN run.interactions :
    TextsOf(run.interactions[k]) \cap Secrets \subseteq Spared

(* A contract just generated from the baseline knows exactly the actions of *)
(* the baseline: what it reports as new is what DiffRuns reports as new, a  *)
(* gate that forbids every new action blocks then and only then, and the    *)
(* diff has an added change for every call of a new action.                 *)
NewActionsAgree ==
  HasVerdict =>
    LET new == {c.key : c \in {d \in report.diffs : d.type = "new_action"}}
    IN  /\ report.contract # NoFile /\ report.contract.edits = 0 /\ report.contract.source = report.base.run
             => /\ {v.key : v \in {w \in report.violations : w.type = "new_unapproved_action"}} = new
                /\ \A v \in report.violations : v.type # "forbidden_action"
        /\ report.gates # NoFile =>
             \A k \in DOMAIN report.gates :
               "forbid_new_action" \in DOMAIN report.gates[k].clauses
                 /\ report.gates[k].clauses["forbid_new_action"].selector = <<>>
                 => (k \in report.blocked <=> new # {})
        /\ \A i \in ToSet(report.candidate.interactions) :
             ActionKey(i) \in new => \E c \in report.changes : c.type = "added" /\ c.candidate = i.seq

(* When the command exits with 0, the agent has done what it did in the     *)
(* baseline: the same calls, each as often, the same but for ignored        *)
(* fields, no more of them answered by a worse fallback; the risk is low    *)
(* and every action is one the contract permits.                            *)
Calls(run, doc) == Cardinality({i \in ToSet(run.interactions) : Decoded(i, IgnoredFor(i.service, {})) = doc})
Worse(run, rank) == Cardinality({i \in ToSet(run.interactions) : FallbackRank(i.tier) > rank})
PassedMeansClean ==
  HasVerdict /\ report.exit = 0 =>
    /\ \A i \in ToSet(report.base.interactions) \cup ToSet(report.candidate.interactions) :
         LET doc == Decoded(i, IgnoredFor(i.service, {}))
         IN  Calls(report.base, doc) = Calls(report.candidate, doc)
    /\ \A rank \in 0 .. 3 : Worse(report.candidate, rank) <= Worse(report.base, rank)
    /\ report.level = "low"
    /\ report.contract # NoFile =>
         \A i \in ToSet(report.candidate.interactions) : Actionable(i) =>
           /\ \E a \in report.contract.file.allowed \cup report.contract.file.restricted : a.key = ActionKey(i)
           /\ \A a \in report.contract.file.forbidden : a.key # ActionKey(i)

(* Gates that were accepted before the agent ran are judged after it: what  *)
(* they are translated into is a valid assertion file (gates/evaluate.go    *)
(* Translate, gates/schema.go Validate).                                    *)
LoadedGatesJudge ==
  test.phase # "idle" /\ test.gates # NoFile => ValidAssertions(Translate(test.gates))

(* A replay of the baseline, call by call, has no failing difference.       *)
ExactReplayIsClean == HasVerdict /\ report.asRecorded => Failing(report.changes) = {}
===============================================================================
