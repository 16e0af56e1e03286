------------------------------ MODULE ReleaseGates ------------------------------
(***************************************************************************)
(* internal/analysis/gates: a release gate is a name and one clause, and   *)
(* is judged as the assertion it is translated into.  A clause selects     *)
(* actions with the fields of a match.                                     *)
(***************************************************************************)
EXTENDS Assertions

Clauses == {"block_if", "require_order", "require_approval", "max_amount", "allowed_channels",
            "allowed_domains", "forbid_new_action", "forbid_unknown_risk"}
SelectorFields == {"service", "operation", "tool", "side_effect", "destination_type"}
Conditions == {"amount_gt", "approval_missing", "channel", "domain", "new_action", "unknown_risk"}

(* Mutation: a tool may be named together with a service.                   *)
ValidSelectorLoose(selector) ==
  /\ DOMAIN selector \subseteq SelectorFields
  /\ Sets(selector, "side_effect") => selector.side_effect \in Effects

ValidSelector(selector) ==
  /\ DOMAIN selector \subseteq SelectorFields
  /\ Sets(selector, "tool") => DOMAIN selector \cap {"service", "operation"} = {}
  /\ Sets(selector, "operation") => Sets(selector, "service")
  /\ Sets(selector, "side_effect") => selector.side_effect \in Effects
NamesAction(selector) == DOMAIN selector \cap {"service", "tool"} # {}

ValidClause(clause, body) ==
  CASE clause = "block_if" ->
         /\ ValidSelector(body.selector) /\ DOMAIN body.when \subseteq Conditions
         /\ Sets(body.when, "amount_gt") => body.when.amount_gt >= 0
         /\ DOMAIN body.selector \cup DOMAIN body.when # {}
    [] clause = "require_order" ->
         \A s \in {body.before, body.after} : ValidSelector(s) /\ NamesAction(s)
    [] clause = "require_approval" ->
         /\ ValidSelector(body.selector) /\ DOMAIN body.selector # {}
         /\ Sets(body.when, "amount_gt") => body.when.amount_gt >= 0
    [] clause = "max_amount" ->
         /\ ValidSelector(body.selector) /\ DOMAIN body.selector # {}
         /\ Sets(body, "amount") /\ body.amount >= 0
    [] clause \in {"allowed_channels", "allowed_domains"} ->
         /\ ValidSelector(body.selector)
         /\ body.values # <<>> /\ IsInjective(body.values) /\ "" \notin ToSet(body.values)
    [] clause \in {"forbid_new_action", "forbid_unknown_risk"} -> ValidSelector(body.selector)

ValidGates(file) ==
  /\ file # <<>>
  /\ \A k \in DOMAIN file :
       /\ file[k].name # ""
       /\ Cardinality(DOMAIN file[k].clauses) = 1 /\ DOMAIN file[k].clauses \subseteq Clauses
       /\ \A c \in DOMAIN file[k].clauses : ValidClause(c, file[k].clauses[c])

(* What a clause blocks: actions that are selected and meet its condition.  *)
Blocked(clause, body) ==
  Both(body.selector,
    CASE clause = "block_if" -> body.when
      [] clause = "require_approval" -> Both([approval_missing |-> TRUE], body.when)
      [] clause = "max_amount" -> [amount_gt |-> body.amount]
      [] clause = "allowed_channels" -> [channel_not_in |-> body.values]
      [] clause = "allowed_domains" -> [domain_not_in |-> body.values]
      [] clause = "forbid_new_action" -> [new_action |-> TRUE]
      [] clause = "forbid_unknown_risk" -> [unknown_risk |-> TRUE])

GateId(k) == "gate-" \o ToString(k)
AssertionForGate(k, gate) ==
  LET clause == CHOOSE c \in DOMAIN gate.clauses : TRUE
      body   == gate.clauses[clause]
  IN  IF clause = "require_order"
      THEN [id |-> GateId(k), type |-> "ordering", before |-> body.before, after |-> body.after]
      ELSE [id |-> GateId(k), type |-> "count", match |-> Blocked(clause, body),
            expect |-> [count |-> [max |-> 0]]]

Translate(file) == [k \in DOMAIN file |-> AssertionForGate(k, file[k])]

(* Evaluate: new actions are those the base run does not have.              *)
EvaluateGates(run, file, base, saw) ==
  EvaluateAssertions(run, Translate(file), BaseKeys(base), saw)
===============================================================================
