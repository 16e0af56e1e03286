------------------------------- MODULE Assertions -------------------------------
(***************************************************************************)
(* internal/analysis/assertions: what a run is asserted to do.  An         *)
(* assertion, a match and an expectation are functions of the fields the   *)
(* file sets.  `saw' is what the walks of a match have met in each          *)
(* interaction: one of the Readings of the run.                             *)
(***************************************************************************)
EXTENDS BehaviorContract

MatchFields ==
  {"service", "operation", "tool", "interaction_id", "event_type", "fallback_tier", "side_effect",
   "destination_type", "amount_gt", "approval_missing", "channel", "channel_not_in", "domain",
   "domain_not_in", "new_action", "unknown_risk"}
CountFields == {"equals", "min", "max"}
Comparators == {"equals", "not_equals", "exists"}

Sets(item, field) == field \in DOMAIN item
Part(item, field) == IF Sets(item, field) THEN item[field] ELSE << >>

ValidMatch(match) ==
  /\ DOMAIN match # {} /\ DOMAIN match \subseteq MatchFields
  /\ Sets(match, "tool") => DOMAIN match \cap {"service", "operation"} = {}
  /\ Sets(match, "amount_gt") => match.amount_gt >= 0
  /\ \A field \in DOMAIN match \cap {"channel_not_in", "domain_not_in"} :
       IsInjective(match[field]) /\ "" \notin ToSet(match[field])

ValidCount(count) ==
  /\ DOMAIN count = {"equals"} \/ (DOMAIN count # {} /\ DOMAIN count \subseteq {"min", "max"})
  /\ \A field \in DOMAIN count : count[field] >= 0
  /\ DOMAIN count = {"min", "max"} => count.min <= count.max

ValidPath(path) == path # <<>> /\ "" \notin ToSet(path)
ValidEntity(ref) ==
  /\ Sets(ref, "path") /\ ValidPath(ref.path)
  /\ DOMAIN ref \in {{"tool", "path"}, {"service", "operation", "path"}}

Fields(a) == DOMAIN a \ {"id", "type"}
ValidAssertion(a) ==
  CASE a.type = "count" ->
         /\ Fields(a) = {"match", "expect"} /\ ValidMatch(a.match)
         /\ ValidCount(Part(a.expect, "count"))
    [] a.type = "ordering" ->
         /\ Fields(a) = {"before", "after"} /\ ValidMatch(a.before) /\ ValidMatch(a.after)
    [] a.type = "payload-field" ->
         /\ Fields(a) = {"match", "expect"} /\ ValidMatch(a.match)
         /\ Sets(a.expect, "path") /\ ValidPath(a.expect.path)
         /\ Cardinality(DOMAIN a.expect \cap Comparators) = 1
         /\ DOMAIN a.expect \subseteq Comparators \cup {"path"}
    [] a.type = "forbidden-operation" ->
         /\ Fields(a) = {"match"} /\ ValidMatch(a.match)
         /\ Sets(a.match, "tool") \/ {"service", "operation"} \subseteq DOMAIN a.match
    [] a.type = "fallback-prohibition" ->
         /\ Fields(a) = {"match", "expect"} /\ ValidMatch(a.match)
         /\ DOMAIN a.expect = {"disallowed_tiers"}
         /\ a.expect.disallowed_tiers # <<>> /\ "" \notin ToSet(a.expect.disallowed_tiers)
    [] a.type = "cross-service" ->
         /\ Fields(a) = {"left", "right", "relationship"} /\ a.relationship = "equals"
         /\ ValidEntity(a.left) /\ ValidEntity(a.right)
    [] OTHER -> FALSE

ValidAssertions(file) ==
  /\ file # <<>>
  /\ \A k \in DOMAIN file :
       /\ file[k].id # "" /\ ValidAssertion(file[k])
       /\ \A j \in 1 .. (k - 1) : file[j].id # file[k].id

(* A tool is the operation of that name of the service stagehand.tool.      *)
ToolAsService(ref) ==
  IF Sets(ref, "tool") THEN [service |-> "stagehand.tool", operation |-> ref.tool] @@ ref ELSE ref

(* nestedStringField: a scalar of an object itself, else one that is met    *)
(* below it, in the order of the items of an array and in any order of the  *)
(* members of an object.                                                    *)
Nested(doc, key) ==
  LET kids(p) == {p \o <<k>> : k \in Members(doc, p)}
      own(p)  == IF doc[p] # "{}" THEN {}
                 ELSE {q \in kids(p) : ToLower(Last(q)) = key /\ doc[q] \notin {"", "{}", "[]", "null"}}
      out[p \in DOMAIN doc] ==
        LET hits == {q \in kids(p) : out[q] # {}}
        IN  IF own(p) # {} THEN {Text(doc[q]) : q \in own(p)}
            ELSE UNION {out[q] : q \in {r \in hits : \A h \in hits : ~Earlier(h, r)}}
  IN  IF doc = Absent THEN {} ELSE out[<<>>]

(* What may be observed: the request is asked for each key, then the        *)
(* events; "" when there is nothing.                                        *)
Observed(i, keys) ==
  LET docs  == <<i.body>> \o [k \in DOMAIN i.events |-> i.events[k].data]
      walks == [n \in 1 .. (Len(docs) * Len(keys)) |->
                  Nested(docs[((n - 1) \div Len(keys)) + 1], keys[((n - 1) % Len(keys)) + 1])]
      hits  == SelectSeq(walks, LAMBDA outcomes : outcomes # {})
  IN  IF hits = <<>> THEN {""} ELSE Head(hits)

ObservedDomain(i) ==
  {IF said # "" THEN said ELSE ToLower(i.url.host) :
     said \in Observed(i, <<"domain", "destination_domain", "destinationdomain">>)}

Outcomes(i, field) ==
  CASE field = "amount_gt" -> Amounts(i.body)
    [] field = "destination_type" -> Observed(i, <<"destination_type", "destinationtype">>)
    [] field \in {"channel", "channel_not_in"} -> Observed(i, <<"channel">>)
    [] field \in {"domain", "domain_not_in"} -> ObservedDomain(i)
Walked(match) ==
  DOMAIN match \cap {"amount_gt", "destination_type", "channel", "channel_not_in", "domain", "domain_not_in"}
Among(value, list) == value # "" /\ \E k \in DOMAIN list : ToLower(list[k]) = ToLower(value)

ApprovalMissing(i) ==
  ~(ApprovalEvidence(i.body) \/ \E k \in DOMAIN i.events : ApprovalEvidence(i.events[k].data))

(* Here only the service makes an interaction a tool's.                     *)
BaseKey(i) == IF i.service = "stagehand.tool" THEN <<"tool", i.operation>>
              ELSE <<"service", i.service, i.operation>>
BaseKeys(run) == {BaseKey(run.interactions[k]) : k \in DOMAIN run.interactions}

Agrees(i, field, value, known, saw) ==
  LET seen == saw[<<i.seq, field>>] IN
  CASE field = "service" -> i.service = value
    [] field = "operation" -> i.operation = value
    [] field = "tool" -> TRUE
    [] field = "interaction_id" -> i.id = value
    [] field = "event_type" -> \E k \in DOMAIN i.events : i.events[k].type = value
    [] field = "fallback_tier" -> i.tier = value
    [] field = "side_effect" -> Classify(i) = value
    [] field = "unknown_risk" -> (Classify(i) = "unknown") = value
    [] field = "amount_gt" -> \E n \in seen : n > value
    [] field = "approval_missing" -> ApprovalMissing(i) = value
    [] field = "destination_type" -> seen = value
    [] field = "channel" -> seen = value
    [] field = "channel_not_in" -> ~Among(seen, value)
    [] field = "domain" -> seen = value
    [] field = "domain_not_in" -> ~Among(seen, value)
    [] field = "new_action" -> (BaseKey(i) \notin known) = value

(* matchingInteractions: known are the actions of the base run, if there is *)
(* one.                                                                     *)
Matching(run, match, known, saw) ==
  LET m == ToolAsService(match)
  IN  {i \in ToSet(run.interactions) : \A field \in DOMAIN m : Agrees(i, field, m[field], known, saw)}

LastTerminal(i) ==
  LET ends == {k \in DOMAIN i.events : i.events[k].type \in Terminal}
  IN  IF ends = {} THEN Absent ELSE i.events[Max(ends)].data

(* What a path of a payload or an entity starts from.                       *)
Root(i) ==
  LET doc == InteractionDoc(i)
  IN  Node("{}", [interaction_id |-> Leaf(i.id), parent_interaction_id |-> Leaf(i.parent),
                  sequence |-> Leaf(Numeral(i.seq)), service |-> Leaf(i.service),
                  operation |-> Leaf(i.operation), protocol |-> Leaf(i.protocol),
                  fallback_tier |-> Leaf(i.tier), latency_ms |-> Leaf(Numeral(i.latency)),
                  request |-> Under(doc, <<"request">>), events |-> Under(doc, <<"events">>),
                  scrub_report |-> Under(doc, <<"scrub_report">>),
                  response |-> IF LastTerminal(i) = Absent THEN Leaf("null") ELSE LastTerminal(i)])
Value(i, path) == Under(Root(i), path)

(* A value that is not there is Absent.                                     *)
PayloadPasses(value, expect) ==
  IF Sets(expect, "exists") THEN (value # Absent) = expect.exists
  ELSE /\ value # Absent
       /\ Sets(expect, "equals") => value = expect.equals
       /\ Sets(expect, "not_equals") => value # expect.not_equals

(* The scalars under an entity's path; a null counts as one.                *)
EntityValues(run, ref) ==
  LET r    == ToolAsService(ref)
      docs == {Value(i, r.path) : i \in {j \in ToSet(run.interactions) :
                                            j.service = r.service /\ j.operation = r.operation}}
  IN  UNION {{doc[p] : p \in DOMAIN doc} : doc \in docs} \ {"{}", "[]"}

CountPasses(n, count) ==
  /\ Sets(count, "equals") => n = count.equals
  /\ Sets(count, "min") => n >= count.min
  /\ Sets(count, "max") => n <= count.max

(* A count passes within its bounds, an ordering when one match precedes    *)
(* one other, a payload when there are matches and all agree, an entity     *)
(* when both sides share a value.                                           *)
Holds(run, a, matching) ==
  CASE a.type = "count" -> CountPasses(Cardinality(matching["match"]), a.expect.count)
    [] a.type = "ordering" -> \E b \in matching["before"], c \in matching["after"] : b.seq < c.seq
    [] a.type = "payload-field" ->
         /\ matching["match"] # {}
         /\ \A i \in matching["match"] : PayloadPasses(Value(i, a.expect.path), a.expect)
    [] a.type = "forbidden-operation" -> matching["match"] = {}
    [] a.type = "fallback-prohibition" ->
         \A i \in matching["match"] : i.tier \notin ToSet(a.expect.disallowed_tiers)
    [] a.type = "cross-service" -> EntityValues(run, a.left) \cap EntityValues(run, a.right) # {}

Parts == {"match", "before", "after"}
Passes(run, a, known, saw) ==
  Holds(run, a, [part \in Parts \cap DOMAIN a |-> Matching(run, a[part], known, saw[part])])

(* EvaluateWithOptions: the verdict of every assertion, in order; each      *)
(* match walks each interaction anew.                                       *)
Readings(run, file) ==
  LET items == ToSet(run.interactions)
      walk(seq, field) == Outcomes(CHOOSE i \in items : i.seq = seq, field)
      of(match) == Selections([at \in {i.seq : i \in items} \X Walked(match) |-> walk(at[1], at[2])])
      each(a) == Selections([part \in Parts \cap DOMAIN a |-> of(a[part])])
  IN  Selections([k \in DOMAIN file |-> each(file[k])])

EvaluateAssertions(run, file, known, saw) ==
  [k \in DOMAIN file |-> [id |-> file[k].id, passed |-> Passes(run, file[k], known, saw[k])]]
===============================================================================
