---------------------------- MODULE BehaviorContract ----------------------------
(***************************************************************************)
(* internal/analysis/contracts: what an agent may do.  A contract is       *)
(* generated from a baseline run, read back and validated, and a candidate *)
(* run is held against it; two runs are also compared action by action,    *)
(* and what is new is scored.  An action is <<"tool", name>> or            *)
(* <<"service", service, operation>>.                                      *)
(*                                                                         *)
(* Text is known by what the classifier looks for in it: its words, the    *)
(* kinds of risk it mentions and, where it is one, its number.             *)
(***************************************************************************)
EXTENDS Artifact

CONSTANTS
  Words,      \* the words, in lower case, of the texts that have several
  Mentions,   \* the effects (destructive, financial, external_message) whose terms a text holds
  NumberOf,   \* the number of the texts and literals that are one
  CanonicalTiers  \* the tiers in the order of the schema

Effects == {"read", "write", "destructive", "financial", "external_message", "unknown"}
RiskRank(effect) ==
  CASE effect = "read" -> 1 [] effect = "write" -> 2 [] effect = "external_message" -> 3
    [] effect = "financial" -> 4 [] effect = "destructive" -> 5 [] effect = "unknown" -> 6
    [] OTHER -> 0
Riskiest(effects) ==
  CHOOSE e \in effects \cup {""} : \A f \in effects : RiskRank(f) <= RiskRank(e)
RequiresApproval(effect) == effect \in {"financial", "destructive", "external_message", "unknown"}

WordsOf(text) == IF text \in DOMAIN Words THEN Words[text] ELSE <<ToLower(text)>>
KeywordRisk(texts) ==
  LET terms == UNION {Mentions[t] : t \in texts \cap DOMAIN Mentions}
  IN  Riskiest(terms)
OrUnknown(effect) == IF effect = "" THEN "unknown" ELSE effect

Present(doc, path) == path \in DOMAIN doc /\ doc[path] # "null"
At(doc, path) == IF Present(doc, path) THEN Text(doc[path]) ELSE ""

IsTool(i) == i.protocol = "tool" \/ i.service = "stagehand.tool"
ToolName(i) == IF i.operation # "" THEN i.operation ELSE At(i.body, <<"name">>)
ActionKey(i) == IF IsTool(i) THEN <<"tool", ToolName(i)>>
                ELSE <<"service", i.service, i.operation>>
Actionable(i) == "" \notin ToSet(ActionKey(i))

(* A declared effect that is not one of the effects is unknown.             *)
Declared(doc) ==
  LET value == At(doc, <<"side_effect">>)
  IN  IF value \in Effects \cup {""} THEN value ELSE "unknown"

ReadVerbs == {"get", "lookup", "list", "find", "search", "fetch", "read", "retrieve"}
WriteVerbs == {"update", "create", "set", "assign", "add", "edit", "write", "upsert", "close", "open"}
VerbRisk(name) ==
  LET verbs == SelectSeq(WordsOf(name), LAMBDA w : w \in ReadVerbs \cup WriteVerbs)
  IN  IF verbs = <<>> THEN "" ELSE IF Head(verbs) \in ReadVerbs THEN "read" ELSE "write"

(* A tool is believed: its request first, then its events, then its name.   *)
ClassifyTool(i) ==
  LET said == SelectSeq(<<Declared(i.body)>> \o [k \in DOMAIN i.events |-> Declared(i.events[k].data)]
                          \o <<KeywordRisk({ToolName(i)}), VerbRisk(ToolName(i))>>,
                        LAMBDA effect : effect # "")
  IN  IF said = <<>> THEN "unknown" ELSE Head(said)

SqlReads == {"select", "show", "describe", "explain"}
SqlWrites == {"insert", "update", "upsert"}
SqlDestroys == {"delete", "drop", "truncate", "alter"}
FieldText(doc, key) ==
  LET found == {p \in DOMAIN doc : p # <<>> /\ ToLower(Last(p)) = key}
  IN  IF found = {} THEN "" ELSE Text(doc[CHOOSE p \in found : TRUE])
(* The first text that starts with a verb of SQL is the statement.          *)
ClassifyDatabase(i) ==
  LET texts == <<i.operation>> \o [k \in 1 .. 4 |->
                 FieldText(i.body, <<"query", "sql", "statement", "command">>[k])]
      verbs == SelectSeq([k \in DOMAIN texts |-> Head(WordsOf(texts[k]))],
                         LAMBDA v : v \in SqlReads \cup SqlWrites \cup SqlDestroys)
  IN  IF verbs = <<>> THEN "unknown"
      ELSE CASE Head(verbs) \in SqlReads -> "read"
             [] Head(verbs) \in SqlWrites -> "write"
             [] Head(verbs) \in SqlDestroys -> "destructive"

Method(i) == ToUpper(IF i.method # "" THEN i.method ELSE Head(WordsOf(i.operation)))
MethodRisk(method) ==
  CASE method \in {"GET", "HEAD", "OPTIONS"} -> "read"
    [] method = "DELETE" -> "destructive"
    [] method \in {"POST", "PUT", "PATCH"} -> "write"
    [] OTHER -> ""
UrlTexts(url) == {url.scheme, url.host, url.path} \cup UNION {ToSet(url.query[k]) : k \in DOMAIN url.query}
(* What a request says of itself counts before its method, except DELETE.   *)
ClassifyHttp(i) ==
  LET keyword == KeywordRisk({i.service, i.operation, i.method} \cup UrlTexts(i.url))
  IN  IF Method(i) = "DELETE" THEN "destructive"
      ELSE IF keyword # "" THEN keyword ELSE OrUnknown(MethodRisk(Method(i)))

Classify(i) ==
  IF IsTool(i) THEN ClassifyTool(i)
  ELSE IF ToLower(i.service) \in {"openai", "anthropic"} THEN "read"
  ELSE IF i.protocol = "postgres" THEN ClassifyDatabase(i)
  ELSE ClassifyHttp(i)

(* The first override for the tool's name wins; only tools have overrides.  *)
ClassifyWith(i, overrides) ==
  LET mine == SelectSeq(overrides, LAMBDA o : o.effect # "" /\ ToLower(o.tool) = ToLower(ToolName(i)))
  IN  IF IsTool(i) /\ mine # <<>> THEN Head(mine).effect ELSE Classify(i)

(* Where a Go map is walked there are several outcomes: every choice of one *)
(* for each place, and the order of an array's items.                       *)
Selections(outcomes) ==
  FoldSet(LAMBDA place, chosen : {f @@ (place :> v) : f \in chosen, v \in outcomes[place]},
          {<<>>}, DOMAIN outcomes)
Earlier(p, q) == \E m, n \in 0 .. 9 : m < n /\ Last(p) = Slot(m) /\ Last(q) = Slot(n)

(* ObservedAmount walks objects in the order of a Go map, so that it may    *)
(* meet any member first: the outcomes are sets of at most one number.      *)
Amounts(doc) ==
  LET number(p) == IF doc[p] \in DOMAIN NumberOf THEN {NumberOf[doc[p]]} ELSE {}
      kids(p)   == {p \o <<k>> : k \in Members(doc, p)}
      out[p \in DOMAIN doc] ==
        LET named  == IF doc[p] = "{}" THEN {q \in kids(p) : ToLower(Last(q)) = "amount"} ELSE {}
            others == kids(p) \ named
            blocks(q) == doc[p] = "[]" /\ {} \notin out[q]
            before(q) == {r \in others : Earlier(r, q)}
        IN  {number(q) : q \in named}
              \cup UNION {out[q] \ {{}} : q \in {r \in others : \A b \in before(r) : ~blocks(b)}}
              \cup (IF named = {} /\ \A q \in others : {} \in out[q] THEN {{}} ELSE {})
  IN  IF doc = Absent THEN {{}} ELSE out[<<>>]

Models(doc) ==
  LET named(p) == p # <<>> /\ ToLower(Last(p)) = "model"
  IN  {Text(doc[p]) : p \in {q \in DOMAIN doc : named(q) /\ doc[q] # ""
                         /\ \A k \in 1 .. (Len(q) - 1) : ~named(SubSeq(q, 1, k))}}

Action(key, effect, approval, evidence, tiers, amount, reason) ==
  [key |-> key, effect |-> effect, approval |-> approval, evidence |-> evidence,
   tiers |-> tiers, amount |-> amount, reason |-> reason]

TiersOf(items) == SelectSeq(CanonicalTiers, LAMBDA t : \E i \in items : i.tier = t)

(* What the amount of each interaction may be read as, in one walk of the run. *)
AmountReadings(run) ==
  LET items == ToSet(run.interactions)
      may(n) == Amounts((CHOOSE i \in items : i.seq = n).body)
  IN  Selections([n \in {i.seq : i \in items} |-> may(n)])

(* GenerateFromRun: one action for each key, as risky as its riskiest call. *)
(* The limit is the highest amount seen.                                    *)
Generated(run, overrides, amount) ==
  LET seen    == {i \in ToSet(run.interactions) : Actionable(i)}
      of(key) == {i \in seen : ActionKey(i) = key}
      effect(key) == OrUnknown(Riskiest({ClassifyWith(i, overrides) : i \in of(key)}))
      limit(key) == LET all == UNION {amount[i.seq] : i \in of(key)}
                    IN  {n \in all : \A m \in all : m <= n}
      actions == {Action(key, effect(key), RequiresApproval(effect(key)), <<>>,
                         TiersOf(of(key)), limit(key), "") : key \in {ActionKey(i) : i \in seen}}
  IN  [agent |-> run.session, models |-> UNION {Models(i.body) : i \in seen},
       allowed |-> {a \in actions : a.effect = "read"},
       restricted |-> {a \in actions : a.effect # "read"},
       forbidden |-> {}, overrides |-> {}]

Actions(file) == file.allowed \cup file.restricted \cup file.forbidden

ValidAction(a) ==
  /\ "" \notin ToSet(a.key) /\ a.effect \in Effects
  /\ a.tiers = SelectSeq(CanonicalTiers, LAMBDA t : t \in ToSet(a.tiers))
  /\ \A n \in a.amount : n >= 0
  /\ a.evidence # <<>> => a.approval

(* An override is checked, and never used: it has a reason, an effect, a    *)
(* tier, an approval or an amount, and an identifier of its own.            *)
ValidOverrides(overrides) ==
  /\ \A o \in overrides :
       /\ "" \notin {o.id, o.reason} /\ o.effect \in Effects \cup {""}
       /\ o.effect # "" \/ o.tiers # <<>> \/ o.approval # {} \/ o.amount # {}
       /\ \A n \in o.amount : n >= 0
  /\ \A o, p \in overrides : o.id = p.id => o = p

ValidContract(file) ==
  /\ file.agent # "" /\ "" \notin file.models
  /\ Actions(file) # {}
  /\ \A a \in Actions(file) : ValidAction(a)
  /\ \A a, b \in Actions(file) : a.key = b.key => a = b
  /\ file.allowed \cap file.restricted = {}
  /\ (file.allowed \cup file.restricted) \cap file.forbidden = {}
  /\ \A a \in file.forbidden : a.reason # ""
  /\ ValidOverrides(file.overrides)

ApprovalKeys == {"approval", "approved", "approval_id", "approval_token", "human_approval", "approved_by"}
(* truthy: a text that is neither empty nor "false", a boolean that is      *)
(* true, a number other than 0, any object.                                 *)
Truthy(value) ==
  /\ value # "null" /\ ToLower(Text(value)) \notin {"", "false"}
  /\ value \in DOMAIN Literals => Text(value) # "0"
ApprovalEvidence(doc) ==
  \E p \in DOMAIN doc : p # <<>> /\ ToLower(Last(p)) \in ApprovalKeys /\ Truthy(doc[p])

(* The path of the evidence starts at the interaction, of which it reaches  *)
(* the request's body, or at the data of an event; no array is entered.     *)
HasApproval(i, action) ==
  \/ /\ action.evidence # <<>>
     /\ \/ /\ IsPrefix(<<"request", "body">>, action.evidence)
           /\ Present(i.body, SubSeq(action.evidence, 3, Len(action.evidence)))
        \/ \E k \in DOMAIN i.events : Present(i.events[k].data, action.evidence)
  \/ ApprovalEvidence(i.body)
  \/ \E k \in DOMAIN i.events : ApprovalEvidence(i.events[k].data)

Violation(type, key, effect, evidence) ==
  [type |-> type, key |-> key, effect |-> effect, evidence |-> evidence]

(* The verdict on one interaction: forbidden before restricted before       *)
(* allowed, and what is in no list is new.                                  *)
Verdict(i, file) ==
  LET key == ActionKey(i)
      of(actions) == {a \in actions : a.key = key}
  IN  IF of(file.forbidden) # {} THEN "forbidden_action"
      ELSE IF of(file.restricted) # {}
           THEN IF \E a \in of(file.restricted) : a.approval /\ ~HasApproval(i, a)
                THEN "restricted_action_approval_missing" ELSE ""
      ELSE IF of(file.allowed) # {} THEN "" ELSE "new_unapproved_action"

(* Evaluate: one violation for each kind and key, with all its evidence; a  *)
(* new action has the effect of its first call.                             *)
Violations(file, seen, verdict) ==
  LET bad == {i \in seen : verdict[i] # ""}
      alike(i) == {j \in bad : ActionKey(j) = ActionKey(i) /\ verdict[j] = verdict[i]}
      effect(i) == IF verdict[i] = "new_unapproved_action"
                   THEN Classify(CHOOSE j \in alike(i) : \A k \in alike(i) : j.seq <= k.seq)
                   ELSE (CHOOSE a \in Actions(file) : a.key = ActionKey(i)).effect
  IN  {Violation(verdict[i], ActionKey(i), effect(i), {j.seq : j \in alike(i)}) : i \in bad}
Evaluate(run, file) ==
  LET seen == {i \in ToSet(run.interactions) : Actionable(i)}
  IN  Violations(file, seen, [i \in seen |-> Verdict(i, file)])

PromptFields == {"messages", "prompt", "instructions", "input"}
(* The digest of a prompt is its place and its content; what is below one   *)
(* is part of it.                                                           *)
Prompts(doc) ==
  LET prompt(p) == /\ p # <<>> /\ ToLower(Last(p)) \in PromptFields
                   /\ doc[p] \notin {"", "null"}
                   /\ doc[p] \in {"{}", "[]"} => Members(doc, p) # {}
      top == {p \in DOMAIN doc : prompt(p) /\ \A k \in 1 .. (Len(p) - 1) : ~prompt(SubSeq(p, 1, k))}
  IN  {<<p, Under(doc, p)>> : p \in top}

Snapshot(run, key) ==
  LET mine == {i \in ToSet(run.interactions) : Actionable(i) /\ ActionKey(i) = key}
  IN  [effect |-> Riskiest({Classify(i) : i \in mine}),
       tiers |-> TiersOf(mine),
       models |-> UNION {Models(i.body) : i \in mine},
       prompts |-> UNION {Prompts(i.body) : i \in mine}]
ActionsOf(run) == {ActionKey(i) : i \in {j \in ToSet(run.interactions) : Actionable(j)}}

ActionChange(type, key, effect) == [type |-> type, key |-> key, effect |-> effect]

SnapshotChanges(key, b, c) ==
  {ActionChange(kind[1], key, c.effect) :
     kind \in {k \in {<<"side_effect_changed", "effect">>, <<"fallback_tiers_changed", "tiers">>,
                      <<"models_changed", "models">>, <<"prompts_changed", "prompts">>} :
                 b[k[2]] # c[k[2]]}}
(* Mutation: the candidate is taken for the base.                           *)
DiffSnapshotsSwapped(base, candidate) ==
  {ActionChange("new_action", key, base[key].effect) : key \in DOMAIN base \ DOMAIN candidate}
    \cup {ActionChange("removed_action", key, "") : key \in DOMAIN candidate \ DOMAIN base}

(* DiffRuns: the actions only one of the runs has, and what changed in the  *)
(* ones they share.                                                         *)
DiffSnapshots(base, candidate) ==
  {ActionChange("new_action", key, candidate[key].effect) : key \in DOMAIN candidate \ DOMAIN base}
    \cup {ActionChange("removed_action", key, "") : key \in DOMAIN base \ DOMAIN candidate}
    \cup UNION {SnapshotChanges(key, base[key], candidate[key]) : key \in DOMAIN base \cap DOMAIN candidate}
Snapshots(run) == [key \in ActionsOf(run) |-> Snapshot(run, key)]
DiffRuns(base, candidate) == DiffSnapshots(Snapshots(base), Snapshots(candidate))

(* ScoreRisk: a violation blocks; otherwise the new actions set the level.  *)
ScoreRisk(changes, violations) ==
  LET fresh == {c.effect : c \in {d \in changes : d.type = "new_action"}}
  IN  IF violations # {} THEN "blocked"
      ELSE IF fresh \cap {"financial", "destructive", "external_message"} # {} THEN "high"
      ELSE IF "write" \in fresh THEN "medium" ELSE "low"
===============================================================================
