--------------------------- MODULE ReleaseCheckProofs ---------------------------
(***************************************************************************)
(* Proofs about ReleaseCheck, for whatever is captured and configured.     *)
(* Gates that were accepted before the agent ran can be judged after it;   *)
(* what is stored is valid and holds no secret; diff, contract and gates   *)
(* agree on what is new; and a run that passes has done what its baseline  *)
(* did.                                                                    *)
(***************************************************************************)
EXTENDS ReleaseCheck, ScrubPipelineProofs

-----------------------------------------------------------------------------
(* Translated gates.                                                        *)

(* A set of clauses with one member is that member's singleton.             *)
LEMMA OneClause ==
  ASSUME NEW S, S \subseteq Clauses, Cardinality(S) = 1
  PROVE  \E c \in Clauses : S = {c}
<1>1. IsFiniteSet(Clauses)
  <2>1. Clauses = {} \cup {"block_if"} \cup {"require_order"} \cup {"require_approval"}
                     \cup {"max_amount"} \cup {"allowed_channels"} \cup {"allowed_domains"}
                     \cup {"forbid_new_action"} \cup {"forbid_unknown_risk"}
    BY DEF Clauses
  <2> DEFINE half == {} \cup {"block_if"} \cup {"require_order"} \cup {"require_approval"}
                        \cup {"max_amount"}
  <2>2. IsFiniteSet(half)
    BY FS_EmptySet, FS_AddElement
  <2> HIDE DEF half
  <2>3. IsFiniteSet(half \cup {"allowed_channels"} \cup {"allowed_domains"}
                         \cup {"forbid_new_action"} \cup {"forbid_unknown_risk"})
    BY <2>2, FS_AddElement
  <2> QED
    BY <2>1, <2>3 DEF half
<1>2. IsFiniteSet(S)
  BY <1>1, FS_Subset
<1>3. PICK c : S = {c}
  BY <1>2, FS_Singleton
<1> QED
  BY <1>3

(* A clause that is valid selects and blocks with a valid match.            *)
LEMMA BlockedIsMatch ==
  ASSUME NEW clause \in Clauses \ {"require_order"}, NEW body, ValidClause(clause, body),
         clause = "require_approval" => DOMAIN body.when \subseteq {"amount_gt"}
  PROVE  ValidMatch(Blocked(clause, body))
<1> DEFINE rest == CASE clause = "block_if" -> body.when
                     [] clause = "require_approval" -> Both([approval_missing |-> TRUE], body.when)
                     [] clause = "max_amount" -> [amount_gt |-> body.amount]
                     [] clause = "allowed_channels" -> [channel_not_in |-> body.values]
                     [] clause = "allowed_domains" -> [domain_not_in |-> body.values]
                     [] clause = "forbid_new_action" -> [new_action |-> TRUE]
                     [] clause = "forbid_unknown_risk" -> [unknown_risk |-> TRUE]
           match == Blocked(clause, body)
<1>1. /\ ValidSelector(body.selector)
      /\ DOMAIN body.selector \cup DOMAIN rest # {}
      /\ DOMAIN rest \subseteq Conditions \cup {"channel_not_in", "domain_not_in"}
      /\ "amount_gt" \in DOMAIN rest => rest["amount_gt"] >= 0
      /\ \A field \in DOMAIN rest \cap {"channel_not_in", "domain_not_in"} :
           IsInjective(rest[field]) /\ "" \notin ToSet(rest[field])
  <2>1. CASE clause = "block_if"
    <3>1. rest = body.when
      BY <2>1
    <3> HIDE DEF rest
    <3> QED BY <2>1, <3>1 DEF ValidClause, Conditions, Sets
  <2>2. CASE clause = "require_approval"
    <3>1. rest = Both([approval_missing |-> TRUE], body.when)
      BY <2>2
    <3>2. DOMAIN rest = {"approval_missing"} \cup DOMAIN body.when
      BY <3>1 DEF Both
    <3>3. "amount_gt" \in DOMAIN body.when => rest["amount_gt"] = body.when["amount_gt"]
      BY <3>1 DEF Both
    <3> HIDE DEF rest
    <3> QED BY <2>2, <3>2, <3>3 DEF ValidClause, Conditions, Sets
  <2>3. CASE clause = "max_amount"
    BY <2>3 DEF ValidClause, Conditions
  <2>4. CASE clause = "allowed_channels"
    <3>1. rest = [channel_not_in |-> body.values]
      BY <2>4
    <3> HIDE DEF rest
    <3>2. DOMAIN rest = {"channel_not_in"} /\ rest["channel_not_in"] = body.values
      BY <3>1
    <3>3. /\ ValidSelector(body.selector)
          /\ IsInjective(body.values) /\ "" \notin ToSet(body.values)
      BY <2>4 DEF ValidClause
    <3> QED BY <3>2, <3>3
  <2>5. CASE clause = "allowed_domains"
    <3>1. rest = [domain_not_in |-> body.values]
      BY <2>5
    <3> HIDE DEF rest
    <3>2. DOMAIN rest = {"domain_not_in"} /\ rest["domain_not_in"] = body.values
      BY <3>1
    <3>3. /\ ValidSelector(body.selector)
          /\ IsInjective(body.values) /\ "" \notin ToSet(body.values)
      BY <2>5 DEF ValidClause
    <3> QED BY <3>2, <3>3
  <2>6. CASE clause = "forbid_new_action"
    <3>1. rest = [new_action |-> TRUE]
      BY <2>6
    <3>2. DOMAIN rest = {"new_action"}
      BY <3>1
    <3>3. ValidSelector(body.selector)
      BY <2>6 DEF ValidClause
    <3> HIDE DEF rest
    <3> QED BY <3>2, <3>3 DEF Conditions
  <2>7. CASE clause = "forbid_unknown_risk"
    <3>1. rest = [unknown_risk |-> TRUE]
      BY <2>7
    <3>2. DOMAIN rest = {"unknown_risk"}
      BY <3>1
    <3>3. ValidSelector(body.selector)
      BY <2>7 DEF ValidClause
    <3> HIDE DEF rest
    <3> QED BY <3>2, <3>3 DEF Conditions
  <2> QED
    BY <2>1, <2>2, <2>3, <2>4, <2>5, <2>6, <2>7 DEF Clauses
<1>2. match = Both(body.selector, rest)
  BY DEF Blocked
<1> HIDE DEF rest
<1>3. /\ DOMAIN match = DOMAIN body.selector \cup DOMAIN rest
      /\ \A field \in DOMAIN rest \ DOMAIN body.selector : match[field] = rest[field]
  BY <1>2 DEF Both
<1> HIDE DEF match
<1>4. DOMAIN body.selector \subseteq SelectorFields
  BY <1>1 DEF ValidSelector
<1>5. ValidMatch(match)
  <2>1. DOMAIN match # {} /\ DOMAIN match \subseteq MatchFields
    BY <1>1, <1>3, <1>4 DEF MatchFields, SelectorFields, Conditions
  <2>2. Sets(match, "tool") => DOMAIN match \cap {"service", "operation"} = {}
    BY <1>1, <1>3 DEF ValidSelector, Sets, Conditions
  <2>3. Sets(match, "amount_gt") => match.amount_gt >= 0
    BY <1>1, <1>3, <1>4 DEF SelectorFields, Sets
  <2>4. \A field \in DOMAIN match \cap {"channel_not_in", "domain_not_in"} :
          IsInjective(match[field]) /\ "" \notin ToSet(match[field])
    BY <1>1, <1>3, <1>4 DEF SelectorFields
  <2> QED
    BY <2>1, <2>2, <2>3, <2>4 DEF ValidMatch
<1> QED
  BY <1>5 DEF match

(* The gates of a valid file are translated into a valid assertion file.    *)
LEMMA TranslationIsValid ==
  ASSUME NEW file \in GateFiles \ {NoFile}, ValidGates(file)
  PROVE  ValidAssertions(Translate(file))
<1>1. /\ Len(file) \in Nat /\ DOMAIN file = 1 .. Len(file)
      /\ file = [k \in 1 .. Len(file) |-> file[k]]
  BY GateAssumption
<1>2. DOMAIN file # {}
  <2>1. file # <<>>
    BY DEF ValidGates
  <2> QED
    BY <1>1, <2>1
<1>3. /\ DOMAIN Translate(file) = DOMAIN file
      /\ \A k \in DOMAIN file : Translate(file)[k] = AssertionForGate(k, file[k])
  BY DEF Translate
<1>4. ASSUME NEW k \in DOMAIN file
      PROVE  AssertionForGate(k, file[k]).id = GateId(k) /\ ValidAssertion(AssertionForGate(k, file[k]))
  <2> DEFINE gate == file[k]
             clause == CHOOSE c \in DOMAIN gate.clauses : TRUE
             body == gate.clauses[clause]
             a == AssertionForGate(k, gate)
  <2>1. PICK c \in Clauses : DOMAIN gate.clauses = {c}
    BY OneClause DEF ValidGates
  <2>2. clause = c
    BY <2>1
  <2>3. /\ ValidClause(clause, body)
        /\ clause = "require_approval" => DOMAIN body.when \subseteq {"amount_gt"}
    BY <2>1, <2>2, GateAssumption DEF ValidGates
  <2>4. a = IF clause = "require_order"
            THEN [id |-> GateId(k), type |-> "ordering", before |-> body.before, after |-> body.after]
            ELSE [id |-> GateId(k), type |-> "count", match |-> Blocked(clause, body),
                  expect |-> [count |-> [max |-> 0]]]
    BY DEF AssertionForGate
  <2>5. clause \in Clauses
    BY <2>2
  <2> HIDE DEF clause, body, a
  <2>6. CASE clause = "require_order"
    <3>1. a = [id |-> GateId(k), type |-> "ordering", before |-> body.before, after |-> body.after]
      BY <2>4, <2>6
    <3>2. /\ a.id = GateId(k) /\ a.type = "ordering" /\ Fields(a) = {"before", "after"}
          /\ a.before = body.before /\ a.after = body.after
      BY <3>1 DEF Fields
    <3>3. \A s \in {body.before, body.after} : ValidSelector(s) /\ NamesAction(s)
      BY <2>3, <2>6 DEF ValidClause
    <3>4. \A s : ValidSelector(s) /\ NamesAction(s) => ValidMatch(s)
      BY DEF ValidSelector, NamesAction, ValidMatch, SelectorFields, MatchFields, Sets
    <3>5. ValidMatch(a.before) /\ ValidMatch(a.after)
      BY <3>2, <3>3, <3>4
    <3> QED
      BY <3>2, <3>5 DEF ValidAssertion, a, gate
  <2>7. CASE clause # "require_order"
    <3>1. a = [id |-> GateId(k), type |-> "count", match |-> Blocked(clause, body),
               expect |-> [count |-> [max |-> 0]]]
      BY <2>4, <2>7
    <3>2. /\ a.id = GateId(k) /\ a.type = "count" /\ Fields(a) = {"match", "expect"}
          /\ a.match = Blocked(clause, body) /\ a.expect = [count |-> [max |-> 0]]
      BY <3>1 DEF Fields
    <3>3. ValidMatch(a.match)
      BY <2>3, <2>5, <2>7, <3>2, BlockedIsMatch
    <3>4. ValidCount(Part(a.expect, "count"))
      <4>1. Part(a.expect, "count") = [max |-> 0]
        BY <3>2 DEF Part, Sets
      <4> QED
        BY <4>1 DEF ValidCount
    <3> QED
      BY <3>2, <3>3, <3>4 DEF ValidAssertion, a, gate
  <2> QED
    BY <2>6, <2>7
<1>5. \A k \in DOMAIN file : GateId(k) # "" /\ \A j \in DOMAIN file : GateId(j) = GateId(k) => j = k
  BY GateAssumption
<1>6. Translate(file) # <<>>
  BY <1>2, <1>3
<1>7. ASSUME NEW k \in DOMAIN file, NEW j \in 1 .. (k - 1)
      PROVE  Translate(file)[j].id # Translate(file)[k].id
  <2>1. j \in DOMAIN file /\ j # k
    BY <1>1
  <2>2. Translate(file)[j].id = GateId(j) /\ Translate(file)[k].id = GateId(k)
    BY <1>3, <1>4, <2>1
  <2> QED
    BY <1>5, <2>1, <2>2
<1>8. ASSUME NEW k \in DOMAIN Translate(file)
      PROVE  /\ Translate(file)[k].id # "" /\ ValidAssertion(Translate(file)[k])
             /\ \A j \in 1 .. (k - 1) : Translate(file)[j].id # Translate(file)[k].id
  <2>1. k \in DOMAIN file
    BY <1>3
  <2>2. Translate(file)[k].id = GateId(k) /\ ValidAssertion(Translate(file)[k])
    BY <1>3, <1>4, <2>1
  <2> QED
    BY <1>5, <1>7, <2>1, <2>2
<1> QED
  BY <1>6, <1>8 DEF ValidAssertions

-----------------------------------------------------------------------------
(* A test that runs has accepted the gates it has read.                     *)
AcceptedInv ==
  test.phase # "idle" /\ test.gates # NoFile => test.gates \in GateFiles /\ ValidGates(test.gates)

(* Every step keeps them accepted.                                          *)
LEMMA AcceptedStep == AcceptedInv /\ [Next]_vars => AcceptedInv'
<1> SUFFICES ASSUME AcceptedInv, [Next]_vars PROVE AcceptedInv'
  OBVIOUS
<1>1. ASSUME UNCHANGED test PROVE AcceptedInv'
  BY <1>1 DEF AcceptedInv
<1>2. ASSUME test' = Idle PROVE AcceptedInv'
  BY <1>2 DEF AcceptedInv, Idle
<1>3. CASE TestLoad
  <2>1. PICK gates \in GateFiles :
          IF Loadable(gates)
          THEN test' = [phase |-> "loaded", contract |-> contract, gates |-> gates, base |-> baseline]
          ELSE UNCHANGED test
    BY <1>3 DEF TestLoad
  <2>2. CASE Loadable(gates)
    <3>1. test'.gates = gates
      BY <2>1, <2>2
    <3> QED
      BY <2>2, <3>1 DEF AcceptedInv, Loadable
  <2>3. CASE ~Loadable(gates)
    BY <1>1, <2>1, <2>3
  <2> QED
    BY <2>2, <2>3
<1>4. CASE TestReplay
  <2>1. test.phase = "loaded" /\ test'.gates = test.gates
    BY <1>4 DEF TestReplay
  <2> QED
    BY <2>1 DEF AcceptedInv
<1> QED
  BY <1>1, <1>2, <1>3, <1>4
  DEF Next, RecordBaseline, GenerateContract, ReviewContract, TestReplayFails, TestJudge, vars

(* Gates accepted before the agent ran are judged after it, whatever the    *)
(* file blocks, orders or forbids.                                          *)
THEOREM LoadedGatesAreJudged == Spec => []LoadedGatesJudge
<1>1. Init => AcceptedInv
  BY DEF Init, Idle, AcceptedInv
<1>2. AcceptedInv => LoadedGatesJudge
  BY TranslationIsValid DEF AcceptedInv, LoadedGatesJudge
<1> QED
  BY <1>1, <1>2, AcceptedStep, PTL DEF Spec

-----------------------------------------------------------------------------
(* Lists of interactions.                                                   *)

(* Two lists, one after the other.                                          *)
LEMMA JoinedLists ==
  ASSUME NEW s, NEW t, IsList(s), IsList(t)
  PROVE  /\ IsList(s \o t) /\ DOMAIN (s \o t) = 1 .. (Len(s) + Len(t))
         /\ Len(s) \in Nat /\ Len(t) \in Nat
         /\ \A k \in 1 .. Len(s) : (s \o t)[k] = s[k]
         /\ \A k \in (Len(s) + 1) .. (Len(s) + Len(t)) : (s \o t)[k] = t[k - Len(s)]
<1> DEFINE T == ToSet(s) \cup ToSet(t)
           u == s \o t
           m == Len(s)
           n == Len(t)
<1>1. s \in Seq(T) /\ t \in Seq(T) /\ m \in Nat /\ n \in Nat
  BY ListIsFunction, SeqMonotonic
<1>2. /\ u \in Seq(T) /\ Len(u) = m + n
      /\ \A k \in 1 .. (m + n) : u[k] = IF k <= m THEN s[k] ELSE t[k - m]
  <2> HIDE DEF T
  <2> QED
    BY <1>1, ConcatProperties
<1> HIDE DEF T, u, m, n
<1>3. DOMAIN u = 1 .. (m + n) /\ u = [k \in 1 .. (m + n) |-> u[k]] /\ m + n \in Nat
  BY <1>1, <1>2, LenProperties
<1>4. IsList(u)
  BY <1>3, FunctionIsList
<1>5. \A k \in 1 .. m : u[k] = s[k]
  BY <1>1, <1>2
<1>6. \A k \in (m + 1) .. (m + n) : u[k] = t[k - m]
  BY <1>1, <1>2
<1> QED
  BY <1>1, <1>3, <1>4, <1>5, <1>6 DEF u, m, n

(* A list with another text in every place.                                 *)
LEMMA MappedList ==
  ASSUME NEW s, NEW t, IsList(s), t = [k \in DOMAIN s |-> t[k]]
  PROVE  IsList(t) /\ DOMAIN t = DOMAIN s /\ Len(t) = Len(s)
<1>1. Len(s) \in Nat /\ DOMAIN s = 1 .. Len(s)
  BY ListIsFunction
<1> DEFINE n == Len(s)
<1>2. t = [k \in 1 .. n |-> t[k]] /\ n \in Nat
  BY <1>1
<1> HIDE DEF n
<1>3. IsList(t) /\ Len(t) = n
  BY <1>2, FunctionIsList
<1>4. DOMAIN t = 1 .. n
  BY <1>2
<1> QED
  BY <1>1, <1>3, <1>4 DEF n

(* The rules of the configuration are sound: MergeOk accepted them.         *)
LEMMA RulesAreSound == SoundRules(Rules)
<1> DEFINE request == <<"authorization", "proxy-authorization", "cookie", "idempotency-key",
                        "set-cookie", "x-api-key">>
           response == <<"authorization", "proxy-authorization", "set-cookie", "x-api-key">>
           drop(side, header) == Rule(side \o "-" \o header \o "-header", <<side, "headers", header>>, "drop")
           first == [k \in DOMAIN request |-> drop("request", request[k])]
           second == [k \in DOMAIN response |-> drop("response", response[k])]
           own == NormalRules(CustomRules)
<1>1. DefaultRules = first \o second
  BY DEF DefaultRules
<1>2. IsList(request) /\ IsList(response)
  BY DEF IsList, ToSet
<1>3. IsList(first) /\ IsList(second)
  <2>1. first = [k \in DOMAIN request |-> first[k]] /\ second = [k \in DOMAIN response |-> second[k]]
    OBVIOUS
  <2> HIDE DEF first, second, request, response
  <2> QED
    BY <1>2, <2>1, MappedList
<1> HIDE DEF first, second
<1>4. IsList(DefaultRules)
  BY <1>1, <1>3, JoinedLists
<1>5. IsList(own)
  <2>1. own = [k \in DOMAIN CustomRules |-> own[k]]
    BY DEF NormalRules
  <2> HIDE DEF own
  <2> QED
    BY <2>1, MappedList, ReleaseAssumption
<1>6. Rules = DefaultRules \o own
  BY DEF Rules, Merged
<1>7. IsList(Rules)
  <2> HIDE DEF own
  <2> QED
    BY <1>4, <1>5, <1>6, JoinedLists
<1>8. \A k \in DOMAIN Rules : Rules[k].action \in RuleActions
  BY <1>6, ReleaseAssumption DEF MergeOk
<1> QED
  BY <1>7, <1>8, ReleaseAssumption DEF SoundRules

(* Sorting moves the items of a list and changes none of them.              *)
LEMMA SortedIsPermuted ==
  ASSUME NEW items, IsList(items), \A k \in DOMAIN items : items[k].seq \in Int
  PROVE  LET sorted == BySequence(items)
         IN  /\ IsList(sorted) /\ DOMAIN sorted = DOMAIN items
             /\ \E p \in [DOMAIN items -> DOMAIN items] :
                  /\ \A j, k \in DOMAIN items : p[j] = p[k] => j = k
                  /\ \A k \in DOMAIN items : \E j \in DOMAIN items : p[j] = k
                  /\ \A k \in DOMAIN items : sorted[k] = items[p[k]]
<1> DEFINE rank == [k \in DOMAIN items |-> items[k].seq]
           order == Ascending(rank)
           n == Len(items)
           sorted == BySequence(items)
<1>1. n \in Nat /\ DOMAIN items = 1 .. n /\ IsFiniteSet(DOMAIN items) /\ Cardinality(1 .. n) = n
  BY ListIsFunction, FS_Interval
<1>2. DOMAIN rank = 1 .. n /\ \A k \in DOMAIN rank : rank[k] \in Int
  BY <1>1
<1>3. sorted = [k \in DOMAIN order |-> items[order[k]]]
  BY DEF BySequence
<1> HIDE DEF rank, n, sorted
<1>4. /\ order \in [1 .. n -> 1 .. n]
      /\ \A j, k \in DOMAIN order : order[j] = order[k] => j = k
      /\ \A k \in 1 .. n : \E j \in DOMAIN order : order[j] = k
  <2>1. IsFiniteSet(DOMAIN rank) /\ DOMAIN rank \subseteq Int /\ Cardinality(DOMAIN rank) = n
    BY <1>1, <1>2
  <2> HIDE DEF order
  <2>2. /\ order \in [1 .. Cardinality(DOMAIN rank) -> DOMAIN rank]
        /\ \A j, k \in DOMAIN order : order[j] = order[k] => j = k
        /\ \A k \in DOMAIN rank : \E j \in DOMAIN order : order[j] = k
    BY <1>2, <2>1, AscendingSorts DEF order
  <2> QED
    BY <1>2, <2>1, <2>2
<1> HIDE DEF order
<1>5. DOMAIN order = 1 .. n
  BY <1>4
<1>6. sorted = [k \in 1 .. n |-> sorted[k]] /\ DOMAIN sorted = 1 .. n /\ \A k \in 1 .. n : sorted[k] = items[order[k]]
  BY <1>3, <1>5
<1>7. IsList(sorted)
  BY <1>1, <1>6, FunctionIsList
<1> DEFINE D == DOMAIN items
<1>8. D = 1 .. n
  BY <1>1
<1> HIDE DEF D
<1>9. /\ order \in [D -> D]
      /\ \A j, k \in D : order[j] = order[k] => j = k
      /\ \A k \in D : \E j \in D : order[j] = k
      /\ \A k \in D : sorted[k] = items[order[k]]
  BY <1>4, <1>5, <1>6, <1>8
<1>10. DOMAIN sorted = D
  BY <1>6, <1>8
<1> QED
  BY <1>7, <1>9, <1>10 DEF sorted, D

-----------------------------------------------------------------------------
(* Runs that are stored.                                                    *)

(* The names of an interaction, its number and its tier have no say in what *)
(* it says.                                                                 *)
LEMMA RenamedInteraction ==
  ASSUME NEW i, NEW j, IsInteraction(i), DOMAIN j = DOMAIN i, j.seq \in Int,
         \A field \in DOMAIN i \ {"run", "id", "parent", "seq", "tier"} : j[field] = i[field]
  PROVE  /\ IsInteraction(j) /\ TextsOf(j) = TextsOf(i)
         /\ \A rules : Preserved(rules, j) = Preserved(rules, i)
<1> DEFINE kept == DOMAIN i \ {"run", "id", "parent", "seq", "tier"}
<1>5. {"service", "protocol", "url", "headers", "body", "events"} \subseteq kept
  BY DEF IsInteraction
<1>6. \A field \in kept : j[field] = i[field]
  OBVIOUS
<1> HIDE DEF kept
<1>1. /\ j.service = i.service /\ j.protocol = i.protocol /\ j.url = i.url /\ j.headers = i.headers
      /\ j.body = i.body /\ j.events = i.events
  BY <1>5, <1>6
<1>2. IsInteraction(j)
  BY <1>1, Zenon DEF IsInteraction
<1>3. TextsOf(j) = TextsOf(i)
  BY <1>1 DEF TextsOf
<1>4. \A rules : Preserved(rules, j) = Preserved(rules, i)
  BY <1>1, Zenon DEF Preserved
<1> QED
  BY <1>2, <1>3, <1>4

(* The interactions of a bundle, in their order and under the run's name,   *)
(* each saying what it said.                                                *)
NormalizedFrom(normal, run, bundle) ==
  /\ IsList(normal) /\ DOMAIN normal = DOMAIN bundle
  /\ \E p \in [DOMAIN bundle -> DOMAIN bundle] :
       /\ \A j, k \in DOMAIN bundle : p[j] = p[k] => j = k
       /\ \A k \in DOMAIN bundle :
            /\ IsInteraction(normal[k]) /\ normal[k].run = run /\ normal[k].seq = k
            /\ normal[k].id = Renamed(run, bundle[p[k]].id)
            /\ TextsOf(normal[k]) = TextsOf(bundle[p[k]])
            /\ Preserved(Rules, normal[k]) = Preserved(Rules, bundle[p[k]])

(* Normalizing moves, renames and renumbers, and does no more.              *)
LEMMA NormalizedItems ==
  ASSUME NEW run, NEW bundle, IsList(bundle), \A k \in DOMAIN bundle : IsInteraction(bundle[k])
  PROVE  NormalizedFrom(Normalized(run, bundle), run, bundle)
<1> DEFINE sorted == BySequence(bundle)
           ids == {bundle[k].id : k \in DOMAIN bundle}
           again(k) == [sorted[k] EXCEPT !.run = run, !.seq = k, !.id = Renamed(run, @),
                                         !.parent = IF @ \in ids THEN Renamed(run, @) ELSE @]
           normal == Normalized(run, bundle)
<1>1. \A k \in DOMAIN bundle : bundle[k].seq \in Int
  BY DEF IsInteraction
<1>2. IsList(sorted) /\ DOMAIN sorted = DOMAIN bundle
  BY <1>1, SortedIsPermuted
<1>3. PICK p \in [DOMAIN bundle -> DOMAIN bundle] :
        /\ \A j, k \in DOMAIN bundle : p[j] = p[k] => j = k
        /\ \A k \in DOMAIN bundle : sorted[k] = bundle[p[k]]
  BY <1>1, SortedIsPermuted
<1>4. normal = [k \in DOMAIN sorted |-> again(k)]
  BY DEF Normalized
<1>5. normal = [k \in DOMAIN sorted |-> normal[k]]
  BY <1>4
<1> HIDE DEF normal, sorted
<1>6. IsList(normal) /\ DOMAIN normal = DOMAIN sorted
  BY <1>2, <1>5, MappedList
<1>7. ASSUME NEW k \in DOMAIN bundle
      PROVE  /\ IsInteraction(normal[k]) /\ normal[k].run = run /\ normal[k].seq = k
             /\ normal[k].id = Renamed(run, bundle[p[k]].id)
             /\ TextsOf(normal[k]) = TextsOf(bundle[p[k]])
             /\ Preserved(Rules, normal[k]) = Preserved(Rules, bundle[p[k]])
  <2> DEFINE i == bundle[p[k]]
             j == normal[k]
  <2>1. IsInteraction(i) /\ sorted[k] = i
    BY <1>3
  <2>2. {"run", "seq", "id", "parent"} \subseteq DOMAIN i
    BY <2>1 DEF IsInteraction
  <2>3. k \in Int
    BY ListIsFunction
  <2>4. j = [i EXCEPT !.run = run, !.seq = k, !.id = Renamed(run, @),
                      !.parent = IF @ \in ids THEN Renamed(run, @) ELSE @]
    BY <1>2, <1>4, <2>1
  <2> HIDE DEF i, j, ids
  <2>5. /\ DOMAIN j = DOMAIN i /\ j.run = run /\ j.seq = k /\ j.id = Renamed(run, i.id)
        /\ \A field \in DOMAIN i \ {"run", "id", "parent", "seq", "tier"} : j[field] = i[field]
    BY <2>2, <2>4
  <2>6. IsInteraction(j) /\ TextsOf(j) = TextsOf(i) /\ Preserved(Rules, j) = Preserved(Rules, i)
    BY <2>1, <2>3, <2>5, RenamedInteraction
  <2> QED
    BY <2>5, <2>6 DEF i, j
<1> QED
  BY <1>2, <1>3, <1>6, <1>7 DEF normal, NormalizedFrom

(* Events with other data are as valid.                                     *)
LEMMA EventsStayValid ==
  ASSUME NEW old, NEW new, IsList(old), ValidEvents(old), new = [k \in DOMAIN old |-> new[k]],
         \A k \in DOMAIN old : /\ new[k].seq = old[k].seq /\ new[k].t = old[k].t
                              /\ new[k].sim = old[k].sim /\ new[k].type = old[k].type
  PROVE  ValidEvents(new)
<1> DEFINE n == Len(old)
<1>1. n \in Nat /\ DOMAIN old = 1 .. n /\ Len(new) = n /\ DOMAIN new = DOMAIN old
  BY ListIsFunction, MappedList
<1>2. n # 0
  BY EmptySeq DEF IsList, ValidEvents
<1> HIDE DEF n
<1>3. n \in 1 .. n
  BY <1>1, <1>2
<1>4. n \in DOMAIN old /\ n \in DOMAIN new
  BY <1>1, <1>3
<1>5. new # <<>>
  BY <1>4
<1>6. Last(new) = new[n] /\ Last(old) = old[n]
  BY <1>1 DEF Last, n
<1>7. Last(new).type \in Terminal
  BY <1>4, <1>6 DEF ValidEvents
<1>8. \A k \in DOMAIN new : ValidEvent(new[k])
  BY <1>1 DEF ValidEvents, ValidEvent
<1>9. ASSUME NEW k \in 2 .. Len(new)
      PROVE  /\ new[k - 1].seq < new[k].seq
             /\ new[k - 1].t <= new[k].t /\ new[k - 1].sim <= new[k].sim
  <2>1. k \in 2 .. n
    BY <1>1
  <2>2. k \in 1 .. n /\ k - 1 \in 1 .. n
    <3>1. n \in Nat
      BY <1>1
    <3> QED
      BY <2>1, <3>1
  <2>3. k \in DOMAIN old /\ k - 1 \in DOMAIN old
    BY <1>1, <2>2
  <2>4. /\ old[k - 1].seq < old[k].seq
        /\ old[k - 1].t <= old[k].t /\ old[k - 1].sim <= old[k].sim
    BY <2>1 DEF ValidEvents, n
  <2> QED
    BY <2>3, <2>4
<1> QED
  BY <1>5, <1>7, <1>8, <1>9 DEF ValidEvents

(* A scrubbed interaction that was valid is valid under the run's policy.   *)
LEMMA ScrubbedIsValid ==
  ASSUME NEW rules, NEW policy, NEW salt, NEW i, NEW run, SoundRules(rules), "" \notin {policy, salt},
         IsInteraction(i), ValidInteraction(i, run, ""),
         NEW new, new = ScrubInteraction(rules, policy, salt, i).interaction
  PROVE  ValidInteraction(new, run, policy)
<1>1. ScrubbedFrom(new, i, rules, policy, salt)
  BY ScrubInteractionFields
<1>3. ValidRequest(new)
  <2> DEFINE url == i.url
  <2>1. IsHeaders(i.headers) /\ DOMAIN url = {"scheme", "host", "path", "query"} /\ IsList(url.query)
    BY DEF IsInteraction
  <2>2. DOMAIN new.headers \subseteq DOMAIN i.headers
    <3>1. LET left == ScrubHeaders(rules, "request", i.headers).doc
          IN  /\ ComesFrom(Leaves(left), Leaves(i.headers), PreservedHeaders(rules, "request", i.headers))
              /\ DOMAIN left \subseteq DOMAIN i.headers /\ IsHeaders(left)
      BY <2>1, ScrubHeadersTexts
    <3> QED
      BY <1>1, <3>1 DEF ScrubbedFrom
  <2>3. new.url.scheme = url.scheme /\ new.url.host = url.host /\ new.url.path = url.path
    <3> DEFINE left == ScrubQuery(rules, url).doc
               values(u) == {pair[2] : pair \in ToSet(u.query)}
    <3>1. new.url = left /\ "query" \in DOMAIN url /\ IsList(url.query)
      BY <1>1, <2>1 DEF ScrubbedFrom
    <3> HIDE DEF url
    <3>2. /\ ComesFrom(values(left), values(url), PreservedQuery(rules, url))
          /\ DOMAIN left = DOMAIN url /\ IsList(left.query)
          /\ \A field \in DOMAIN url \ {"query"} : left[field] = url[field]
      BY <3>1, ScrubQueryTexts
    <3> HIDE DEF left
    <3> QED
      BY <2>1, <3>1, <3>2
  <2>4. Members(new.headers, <<>>) \subseteq Members(i.headers, <<>>)
    BY <2>2 DEF Members
  <2>5. ValidRequest(i)
    BY DEF ValidInteraction
  <2> QED
    BY <1>1, <2>3, <2>4, <2>5 DEF ValidRequest, ScrubbedFrom
<1>4. ValidEvents(new.events)
  <2> DEFINE old == i.events
             events == new.events
  <2>1. IsList(old) /\ ValidEvents(old)
    BY DEF IsInteraction, ValidInteraction
  <2>2. events = [k \in DOMAIN old |-> events[k]]
    BY <1>1 DEF ScrubbedFrom
  <2>3. \A k \in DOMAIN old : /\ events[k].seq = old[k].seq /\ events[k].t = old[k].t
                              /\ events[k].sim = old[k].sim /\ events[k].type = old[k].type
    BY <1>1 DEF ScrubbedFrom
  <2> HIDE DEF old, events
  <2>4. ValidEvents(events)
    BY <2>1, <2>2, <2>3, EventsStayValid
  <2> QED
    BY <2>4 DEF events
<1>5. ValidScrubReport(new, policy)
  BY <1>1 DEF ValidScrubReport, ScrubbedFrom
<1> QED
  BY <1>1, <1>3, <1>4, <1>5 DEF ValidInteraction, ScrubbedFrom

(* What the import of a capture stores: interactions, numbered in order,    *)
(* each of which says what one that was captured said, scrubbed.            *)
StoredFrom(items, bundle) ==
  /\ IsList(items) /\ DOMAIN items = DOMAIN bundle
  /\ \A k \in DOMAIN items :
       /\ IsInteraction(items[k]) /\ items[k].seq = k
       /\ \E j \in DOMAIN bundle :
            ComesFrom(TextsOf(items[k]), TextsOf(bundle[j]), Preserved(Rules, bundle[j]))

(* A name is not empty.                                                     *)
Named(name) == name # ""

(* What was valid before it was scrubbed is stored as a valid run.          *)
LEMMA ImportedIsSound ==
  ASSUME NEW run, NEW mode \in Modes, NEW bundle, Named(run),
         IsList(bundle), \A k \in DOMAIN bundle : IsInteraction(bundle[k]),
         \A j, k \in DOMAIN bundle : Renamed(run, bundle[j].id) = Renamed(run, bundle[k].id) => j = k,
         NEW new, new = Imported(run, mode, bundle), new.ok
  PROVE  ValidRun(new.run) /\ new.run.run = run /\ StoredFrom(new.run.interactions, bundle)
<1> DEFINE normal == Normalized(run, bundle)
           scrubbed == ScrubAll(normal)
           items == [k \in DOMAIN scrubbed |-> scrubbed[k].interaction]
           D == DOMAIN bundle
           result(k) == ScrubInteraction(Rules, Policy, Salt, normal[k])
<1>1. NormalizedFrom(normal, run, bundle)
  BY NormalizedItems
<1>2. new = Stored(run, mode, normal, scrubbed)
  BY DEF Imported
<1> HIDE DEF normal
<1>3. scrubbed = [k \in D |-> result(k)] /\ DOMAIN normal = D
  BY <1>1 DEF ScrubAll, NormalizedFrom
<1>4. items = [k \in D |-> items[k]] /\ DOMAIN items = D /\ \A k \in D : items[k] = result(k).interaction
  BY <1>3
<1>5. /\ \A k \in D : ValidInteraction(normal[k], run, "")
      /\ new.run = [run |-> run, session |-> Session, mode |-> mode, status |-> "complete", ended |-> TRUE,
                    issues |-> {}, policy |-> Policy, interactions |-> items]
  <2> DEFINE ok == \A k \in DOMAIN normal : ValidInteraction(normal[k], run, "") /\ scrubbed[k].ok
             stored == [run |-> run, session |-> Session, mode |-> mode, status |-> "complete", ended |-> TRUE,
                        issues |-> {}, policy |-> Policy, interactions |-> items]
  <2>1. new = [ok |-> ok, run |-> stored]
    BY <1>2, Zenon DEF Stored
  <2> HIDE DEF ok, stored
  <2>2. ok /\ new.run = stored
    BY <2>1
  <2> QED
    BY <1>3, <2>2, Zenon DEF ok, stored
<1>6. LET r == new.run
       IN  /\ r.run = run /\ r.session = Session /\ r.mode = mode /\ r.status = "complete" /\ r.ended
           /\ r.issues = {} /\ r.policy = Policy /\ r.interactions = items
  <2>1. new.run = [run |-> run, session |-> Session, mode |-> mode, status |-> "complete", ended |-> TRUE,
                   issues |-> {}, policy |-> Policy, interactions |-> items]
    BY <1>5, Zenon
  <2> QED
    BY <2>1
<1> HIDE DEF scrubbed, items
<1>7. IsList(items)
  BY <1>4, MappedList
<1>8. SoundRules(Rules) /\ "" \notin {Policy, Salt} /\ "" \notin {run, Session, Policy}
  BY RulesAreSound, NameAssumption DEF Named
<1>9. PICK p \in [D -> D] :
        /\ \A j, k \in D : p[j] = p[k] => j = k
        /\ \A k \in D :
             /\ IsInteraction(normal[k]) /\ normal[k].run = run /\ normal[k].seq = k
             /\ normal[k].id = Renamed(run, bundle[p[k]].id)
             /\ TextsOf(normal[k]) = TextsOf(bundle[p[k]])
             /\ Preserved(Rules, normal[k]) = Preserved(Rules, bundle[p[k]])
  BY <1>1 DEF NormalizedFrom
<1>10. ASSUME NEW k \in D
      PROVE  /\ ValidInteraction(items[k], run, Policy) /\ IsInteraction(items[k]) /\ items[k].seq = k
             /\ items[k].id = Renamed(run, bundle[p[k]].id)
             /\ ComesFrom(TextsOf(items[k]), TextsOf(bundle[p[k]]), Preserved(Rules, bundle[p[k]]))
  <2> DEFINE old == normal[k]
             item == items[k]
  <2>1. IsInteraction(old) /\ ValidInteraction(old, run, "") /\ old.seq = k
        /\ old.id = Renamed(run, bundle[p[k]].id)
    BY <1>5, <1>9
  <2>2. item = ScrubInteraction(Rules, Policy, Salt, old).interaction
    BY <1>4
  <2>3. TextsOf(old) = TextsOf(bundle[p[k]]) /\ Preserved(Rules, old) = Preserved(Rules, bundle[p[k]])
    BY <1>9
  <2> HIDE DEF old, item, result
  <2>4. ValidInteraction(item, run, Policy)
    BY <1>8, <2>1, <2>2, ScrubbedIsValid
  <2>5. IsInteraction(item) /\ ComesFrom(TextsOf(item), TextsOf(old), Preserved(Rules, old))
    BY <1>8, <2>1, <2>2, ScrubbedTextsAreClean
  <2>6. ScrubbedFrom(item, old, Rules, Policy, Salt)
    BY <2>1, <2>2, ScrubInteractionFields
  <2>7. item.seq = k /\ item.id = Renamed(run, bundle[p[k]].id)
    BY <2>1, <2>6 DEF ScrubbedFrom
  <2> QED
    BY <2>3, <2>4, <2>5, <2>7 DEF item
<1>11. StoredFrom(items, bundle)
  BY <1>4, <1>7, <1>9, <1>10 DEF StoredFrom
<1>12. ASSUME NEW k \in D, NEW j \in 1 .. (k - 1)
       PROVE  items[j].id # items[k].id /\ items[j].seq < items[k].seq
  <2>1. k \in Int /\ j \in Int /\ j < k /\ j \in D
    <3> DEFINE n == Len(bundle)
    <3>1. n \in Nat /\ D = 1 .. n
      BY ListIsFunction
    <3> HIDE DEF D, n
    <3>2. k \in 1 .. n /\ k \in Int
      BY <3>1
    <3>3. j \in 1 .. n /\ j < k
      BY <3>1, <3>2
    <3> QED
      BY <3>1, <3>2, <3>3
  <2>2. items[j].seq = j /\ items[k].seq = k /\ p[j] \in D /\ p[k] \in D /\ p[j] # p[k]
    BY <1>9, <1>10, <2>1
  <2>3. items[j].id = Renamed(run, bundle[p[j]].id) /\ items[k].id = Renamed(run, bundle[p[k]].id)
    BY <1>10, <2>1
  <2> QED
    BY <2>1, <2>2, <2>3
<1>13. ValidRun(new.run)
  <2> DEFINE r == new.run
  <2>1. /\ r.run = run /\ r.session = Session /\ r.mode = mode /\ r.status = "complete" /\ r.ended
        /\ r.issues = {} /\ r.policy = Policy /\ r.interactions = items
    BY <1>6
  <2> HIDE DEF r, result
  <2>2. "" \notin {r.run, r.session, r.policy}
    BY <1>8, <2>1, Zenon
  <2>3. ASSUME NEW k \in D
        PROVE  /\ ValidInteraction(r.interactions[k], r.run, r.policy)
               /\ \A j \in 1 .. (k - 1) :
                    /\ r.interactions[j].id # r.interactions[k].id
                    /\ r.interactions[j].seq < r.interactions[k].seq
    BY <1>10, <1>12, <2>1, Zenon
  <2>4. DOMAIN r.interactions = D
    BY <1>4, <2>1
  <2> QED
    BY <2>1, <2>2, <2>3, <2>4, Zenon DEF ValidRun, r
<1> QED
  BY <1>11, <1>13, <1>6

(* What is no secret, but where a rule preserves it.                        *)
Clean(texts) == texts \cap Secrets \subseteq Spared

(* A stored run is valid, its interactions are numbered in their order, and *)
(* none holds a secret; that of a recording holds no more texts than were   *)
(* captured, with their hashes and masks.                                   *)
SoundRun(r) ==
  /\ ValidRun(r) /\ IsList(r.interactions)
  /\ \A k \in DOMAIN r.interactions :
       /\ IsInteraction(r.interactions[k]) /\ r.interactions[k].seq = k
       /\ Clean(TextsOf(r.interactions[k]))
RecordedRun(r) ==
  /\ SoundRun(r) /\ DOMAIN r.interactions \subseteq Places
  /\ \A k \in DOMAIN r.interactions : TextsOf(r.interactions[k]) \subseteq Replaced(Said)

(* What may be imported so that what is stored is clean: interactions with  *)
(* names of their own, whose texts are known and, where a rule preserves    *)
(* them, no secret.                                                         *)
Importable(run, bundle) ==
  /\ IsList(bundle)
  /\ \A j, k \in DOMAIN bundle : Renamed(run, bundle[j].id) = Renamed(run, bundle[k].id) => j = k
  /\ \A k \in DOMAIN bundle :
       /\ IsInteraction(bundle[k]) /\ TextsOf(bundle[k]) \subseteq Replaced(Said)
       /\ Clean(TextsOf(bundle[k]) \cap Preserved(Rules, bundle[k]))

(* The texts a scrubbed interaction is left with are no secrets, except the *)
(* ones a rule has preserved.                                               *)
LEMMA SecretsStayOut ==
  ASSUME NEW left, NEW texts, NEW kept, ComesFrom(left, texts, kept), texts \subseteq Replaced(Said),
         Clean(texts \cap kept)
  PROVE  Clean(left)
<1> SUFFICES ASSUME NEW u \in left, u \in Secrets
             PROVE  u \in Spared
  BY DEF Clean
<1>1. u \in DOMAIN Detected \ DOMAIN Literals /\ Kinds(u) # {} /\ u \notin Marks
  BY DetectorAssumption DEF Secrets, Kinds
<1>2. \A t \in texts \cup Marks : u \notin {Hash(Text(t)), Mask(Text(t))}
  <2>1. texts \cup Marks \subseteq Replaced(Said)
    BY DEF Replaced
  <2> QED
    BY <2>1, DetectorAssumption
<1>3. u \in texts \cap kept
  BY <1>1, <1>2 DEF ComesFrom
<1> QED
  BY <1>3 DEF Clean

(* The texts that are left of captured ones are those, their hashes and     *)
(* their masks.                                                             *)
LEMMA TextsBecomeKnown ==
  ASSUME NEW left, NEW texts, NEW kept, ComesFrom(left, texts, kept), texts \subseteq Said
  PROVE  left \subseteq Replaced(Said)
BY DEF ComesFrom, Replaced

(* What was captured may be known, and what a rule preserves of it.         *)
LEMMA CapturedIsKnown ==
  ASSUME NEW i \in Captured
  PROVE  /\ IsInteraction(i) /\ TextsOf(i) \subseteq Said /\ TextsOf(i) \subseteq Replaced(Said)
         /\ Clean(TextsOf(i) \cap Preserved(Rules, i))
<1>1. TextsOf(i) \subseteq Said
  BY DEF Said
<1>2. Preserved(Rules, i) \subseteq Spared
  BY DEF Spared
<1> QED
  BY <1>1, <1>2, CaptureAssumption DEF Clean, Replaced

(* The run that is stored of an importable capture is sound.                *)
LEMMA StoredIsSound ==
  ASSUME NEW run, NEW mode \in Modes, NEW bundle, Named(run), Importable(run, bundle),
         NEW new, new = Imported(run, mode, bundle), new.ok
  PROVE  SoundRun(new.run) /\ new.run.run = run /\ StoredFrom(new.run.interactions, bundle)
<1>1. ValidRun(new.run) /\ new.run.run = run /\ StoredFrom(new.run.interactions, bundle)
  <2>1. /\ IsList(bundle) /\ \A k \in DOMAIN bundle : IsInteraction(bundle[k])
        /\ \A j, k \in DOMAIN bundle : Renamed(run, bundle[j].id) = Renamed(run, bundle[k].id) => j = k
    BY DEF Importable
  <2> QED
    BY <2>1, ImportedIsSound
<1> DEFINE items == new.run.interactions
<1>2. ASSUME NEW k \in DOMAIN items
      PROVE  IsInteraction(items[k]) /\ items[k].seq = k /\ Clean(TextsOf(items[k]))
  <2>1. PICK j \in DOMAIN bundle : ComesFrom(TextsOf(items[k]), TextsOf(bundle[j]), Preserved(Rules, bundle[j]))
    BY <1>1 DEF StoredFrom
  <2>2. TextsOf(bundle[j]) \subseteq Replaced(Said) /\ Clean(TextsOf(bundle[j]) \cap Preserved(Rules, bundle[j]))
    BY DEF Importable
  <2>3. Clean(TextsOf(items[k]))
    BY <2>1, <2>2, SecretsStayOut
  <2> QED
    BY <1>1, <2>3 DEF StoredFrom
<1>3. IsList(items)
  BY <1>1 DEF StoredFrom
<1> QED
  BY <1>1, <1>2, <1>3 DEF SoundRun

(* A bundle may be imported under the name of any run.                      *)
LEMMA BundlesAreImportable ==
  ASSUME NEW n \in 1 .. MaxChanges, NEW bundle \in Bundles
  PROVE  Named(RunName(n)) /\ Importable(RunName(n), bundle)
<1> DEFINE run == RunName(n)
           runs == {RunName(m) : m \in 1 .. MaxChanges}
           ids == {i.id : i \in Captured} \cup {AgainId(k) : k \in Places}
<1>1. run \in runs
  OBVIOUS
<1>2. /\ "" \notin runs \cup {Session, Policy, Salt}
      /\ \A r \in runs \cup {"replay"} : \A x, y \in ids : Renamed(r, x) = Renamed(r, y) => x = y
  BY NameAssumption
<1>3. \A k \in DOMAIN bundle : bundle[k] \in Captured
  BY DEF Captured, ToSet
<1>4. IsList(bundle) /\ \A j, k \in DOMAIN bundle : bundle[j].id = bundle[k].id => j = k
  BY CaptureAssumption
<1> HIDE DEF run, runs
<1>5. Named(run)
  BY <1>1, <1>2 DEF Named
<1>6. \A k \in DOMAIN bundle : bundle[k].id \in ids
  BY <1>3
<1> HIDE DEF ids
<1>7. \A j, k \in DOMAIN bundle : Renamed(run, bundle[j].id) = Renamed(run, bundle[k].id) => j = k
  BY <1>1, <1>2, <1>4, <1>6
<1>8. \A k \in DOMAIN bundle :
        /\ IsInteraction(bundle[k]) /\ TextsOf(bundle[k]) \subseteq Replaced(Said)
        /\ Clean(TextsOf(bundle[k]) \cap Preserved(Rules, bundle[k]))
  BY <1>3, CapturedIsKnown
<1> QED
  BY <1>4, <1>5, <1>7, <1>8 DEF Importable, run

(* What is stored of a recording holds only texts that were captured.       *)
LEMMA RecordingIsSound ==
  ASSUME NEW n \in 1 .. MaxChanges, NEW bundle \in Bundles,
         NEW new, new = Imported(RunName(n), "record", bundle), new.ok
  PROVE  RecordedRun(new.run) /\ new.run.run = RunName(n)
<1> DEFINE items == new.run.interactions
<1>1. SoundRun(new.run) /\ new.run.run = RunName(n) /\ StoredFrom(items, bundle)
  BY BundlesAreImportable, StoredIsSound DEF Modes
<1>2. DOMAIN items \subseteq Places
  BY <1>1 DEF StoredFrom, Places
<1>3. ASSUME NEW k \in DOMAIN items
      PROVE  TextsOf(items[k]) \subseteq Replaced(Said)
  <2>1. PICK j \in DOMAIN bundle : ComesFrom(TextsOf(items[k]), TextsOf(bundle[j]), Preserved(Rules, bundle[j]))
    BY <1>1 DEF StoredFrom
  <2>2. TextsOf(bundle[j]) \subseteq Said
    <3>1. bundle[j] \in Captured
      BY DEF Captured, ToSet
    <3> QED
      BY <3>1, CapturedIsKnown
  <2> QED
    BY <2>1, <2>2, TextsBecomeKnown
<1> QED
  BY <1>1, <1>2, <1>3 DEF RecordedRun

(* So may what is captured of a replay: each call is one of the base run    *)
(* under a new name, or a live one.                                         *)
LEMMA ReplaysAreImportable ==
  ASSUME NEW base, RecordedRun(base), NEW order \in Orders(base), NEW tier, NEW live \in LiveCalls
  PROVE  Importable("replay", ReplayCapture(base, order, tier, live))
<1> DEFINE items == base.interactions
           again(k) == [items[k] EXCEPT !.run = "sdk", !.id = AgainId(k), !.tier = tier]
           head == [n \in DOMAIN order |-> again(order[n])]
           calls == head \o live
           capture == ReplayCapture(base, order, tier, live)
           m == Len(head)
           l == Len(live)
           ids == {i.id : i \in Captured} \cup {AgainId(k) : k \in Places}
<1>1. PICK n \in Nat : order \in [1 .. n -> DOMAIN items] /\ IsInjective(order)
  <2>1. PICK n \in 0 .. Len(items) : order \in [1 .. n -> DOMAIN items] /\ IsInjective(order)
    BY DEF Orders
  <2> QED
    BY <2>1
<1>2. capture = [k \in DOMAIN calls |-> [calls[k] EXCEPT !.seq = k]]
  BY DEF ReplayCapture
<1>3. head = [k \in 1 .. n |-> head[k]] /\ \A k \in 1 .. n : head[k] = again(order[k]) /\ order[k] \in DOMAIN items
  BY <1>1
<1>4. IsList(live) /\ \A j, k \in DOMAIN live : live[j].id = live[k].id => j = k
  BY CaptureAssumption
<1>5. \A k \in DOMAIN live : live[k] \in Captured
  BY DEF Captured, ToSet
<1> HIDE DEF head
<1>6. IsList(head) /\ m = n
  BY <1>3, FunctionIsList
<1> HIDE DEF capture, m, l
<1>7. /\ IsList(calls) /\ DOMAIN calls = 1 .. (m + l) /\ l \in Nat /\ DOMAIN live = 1 .. l
      /\ \A k \in 1 .. m : calls[k] = head[k]
      /\ \A k \in (m + 1) .. (m + l) : calls[k] = live[k - m]
  BY <1>4, <1>6, JoinedLists, ListIsFunction DEF m, l
<1> HIDE DEF calls
<1>8. IsList(capture) /\ DOMAIN capture = 1 .. (m + l)
  <2>1. capture = [k \in DOMAIN calls |-> capture[k]]
    BY <1>2
  <2> QED
    BY <1>7, <2>1, MappedList
<1>9. m \in Nat
  BY <1>6
<1>10. ASSUME NEW k \in 1 .. m
       PROVE  /\ k \in DOMAIN order /\ order[k] \in DOMAIN items /\ capture[k].id = AgainId(order[k])
              /\ IsInteraction(capture[k]) /\ TextsOf(capture[k]) \subseteq Replaced(Said)
              /\ Clean(TextsOf(capture[k]) \cap Preserved(Rules, capture[k]))
  <2> DEFINE i == items[order[k]]
             j == capture[k]
  <2>1. k \in 1 .. (m + l) /\ k \in Int
    BY <1>7, <1>9
  <2>2. j = [[i EXCEPT !.run = "sdk", !.id = AgainId(order[k]), !.tier = tier] EXCEPT !.seq = k]
    <3>1. calls[k] = again(order[k]) /\ k \in DOMAIN calls
      BY <1>3, <1>6, <1>7, <2>1
    <3> QED
      BY <1>2, <3>1
  <2>3. k \in DOMAIN order /\ order[k] \in DOMAIN items
    BY <1>1, <1>6
  <2>4. IsInteraction(i) /\ Clean(TextsOf(i)) /\ TextsOf(i) \subseteq Replaced(Said)
    BY <2>3 DEF RecordedRun, SoundRun
  <2> HIDE DEF i, j, items
  <2>5. {"run", "id", "tier", "seq"} \subseteq DOMAIN i
    BY <2>4 DEF IsInteraction
  <2>6. /\ DOMAIN j = DOMAIN i /\ j.seq = k /\ j.id = AgainId(order[k])
        /\ \A field \in DOMAIN i \ {"run", "id", "parent", "seq", "tier"} : j[field] = i[field]
    BY <2>2, <2>5
  <2>7. IsInteraction(j) /\ TextsOf(j) = TextsOf(i)
    BY <2>1, <2>4, <2>6, RenamedInteraction
  <2> QED
    BY <2>3, <2>4, <2>6, <2>7 DEF Clean, j
<1>11. ASSUME NEW k \in (m + 1) .. (m + l)
       PROVE  /\ k - m \in DOMAIN live /\ capture[k].id = live[k - m].id
              /\ IsInteraction(capture[k]) /\ TextsOf(capture[k]) \subseteq Replaced(Said)
              /\ Clean(TextsOf(capture[k]) \cap Preserved(Rules, capture[k]))
  <2> DEFINE i == live[k - m]
             j == capture[k]
  <2>1. k \in 1 .. (m + l) /\ k \in Int /\ k - m \in 1 .. l
    BY <1>7, <1>9
  <2>2. j = [i EXCEPT !.seq = k]
    BY <1>2, <1>7, <2>1
  <2>3. k - m \in DOMAIN live /\ i \in Captured
    BY <1>5, <1>7, <2>1
  <2> HIDE DEF i, j
  <2>4. /\ IsInteraction(i) /\ TextsOf(i) \subseteq Replaced(Said)
        /\ Clean(TextsOf(i) \cap Preserved(Rules, i))
    BY <2>3, CapturedIsKnown
  <2>5. "seq" \in DOMAIN i /\ "id" \in DOMAIN i
    BY <2>4 DEF IsInteraction
  <2>6. /\ DOMAIN j = DOMAIN i /\ j.seq = k /\ j.id = i.id
        /\ \A field \in DOMAIN i \ {"run", "id", "parent", "seq", "tier"} : j[field] = i[field]
    BY <2>2, <2>5
  <2>7. IsInteraction(j) /\ TextsOf(j) = TextsOf(i) /\ Preserved(Rules, j) = Preserved(Rules, i)
    BY <2>1, <2>4, <2>6, RenamedInteraction
  <2> QED
    BY <2>3, <2>4, <2>6, <2>7 DEF i, j
<1>12. \A k \in 1 .. (m + l) : k \in 1 .. m \/ k \in (m + 1) .. (m + l)
  BY <1>7, <1>9
<1>13. \A k \in DOMAIN capture :
         /\ IsInteraction(capture[k]) /\ TextsOf(capture[k]) \subseteq Replaced(Said)
         /\ Clean(TextsOf(capture[k]) \cap Preserved(Rules, capture[k]))
  BY <1>8, <1>10, <1>11, <1>12
<1>14. DOMAIN items \subseteq Places
  BY DEF RecordedRun
<1>15. /\ \A x, y \in ids : Renamed("replay", x) = Renamed("replay", y) => x = y
       /\ \A j, k \in Places : AgainId(j) = AgainId(k) => j = k
       /\ \A k \in DOMAIN live, j \in Places : live[k].id # AgainId(j)
  BY NameAssumption
<1>16. \A k \in DOMAIN capture : capture[k].id \in ids
  <2>1. \A k \in 1 .. m : capture[k].id \in ids
    BY <1>10, <1>14
  <2>2. \A k \in (m + 1) .. (m + l) : capture[k].id \in ids
    BY <1>5, <1>11
  <2> QED
    BY <1>8, <1>12, <2>1, <2>2
<1> DEFINE early == 1 .. m
           late == (m + 1) .. (m + l)
           back(k) == k - m
           recalled(k) == order[k]
<1>17. \A k \in early : k \in DOMAIN order /\ recalled(k) \in Places /\ capture[k].id = AgainId(recalled(k))
  BY <1>10, <1>14
<1>18. \A k \in late : back(k) \in DOMAIN live /\ capture[k].id = live[back(k)].id
  BY <1>11
<1>19. \A j, k \in late : back(j) = back(k) => j = k
  BY <1>9
<1>20. \A j, k \in DOMAIN order : recalled(j) = recalled(k) => j = k
  BY <1>1 DEF IsInjective
<1>21. DOMAIN capture \subseteq early \cup late
  BY <1>8, <1>12
<1> HIDE DEF ids, items, early, late, back, recalled
<1>22. ASSUME NEW j \in DOMAIN capture, NEW k \in DOMAIN capture, capture[j].id = capture[k].id
       PROVE  j = k
  <2>1. CASE j \in early /\ k \in early
    <3>1. recalled(j) = recalled(k)
      BY <1>15, <1>17, <1>22, <2>1
    <3> QED
      BY <1>17, <1>20, <2>1, <3>1
  <2>2. CASE j \in early /\ k \in late
    BY <1>15, <1>17, <1>18, <1>22, <2>2
  <2>3. CASE j \in late /\ k \in early
    BY <1>15, <1>17, <1>18, <1>22, <2>3
  <2>4. CASE j \in late /\ k \in late
    <3>1. back(j) = back(k)
      BY <1>4, <1>18, <1>22, <2>4
    <3> QED
      BY <1>19, <2>4, <3>1
  <2> QED
    BY <1>21, <2>1, <2>2, <2>3, <2>4
<1>23. \A j, k \in DOMAIN capture : Renamed("replay", capture[j].id) = Renamed("replay", capture[k].id) => j = k
  BY <1>15, <1>16, <1>22
<1> QED
  BY <1>8, <1>13, <1>23 DEF Importable, capture

-----------------------------------------------------------------------------
(* The inductive invariant of what is stored.  The baseline and the base of *)
(* a test are recordings: a replay stores their texts a second time, and    *)
(* what it stores is clean only because those are captured texts, hashes    *)
(* and masks.                                                               *)
ContractInv ==
  contract # NoFile =>
    /\ contract = [file |-> contract.file, source |-> contract.source, edits |-> contract.edits]
    /\ contract.edits \in 0 .. MaxChanges
TestInv ==
  /\ test.phase \in {"idle", "loaded", "replayed"}
  /\ test.phase # "idle" => RecordedRun(test.base)
  /\ test.phase = "replayed" => SoundRun(test.candidate)
ExitCodes == {0, Configuration, ReplayFailure, BehaviorDiff, AssertionFailure, ContractViolation}
StoredInv ==
  /\ recorded \in 0 .. MaxChanges
  /\ baseline # NoRun => RecordedRun(baseline)
  /\ ContractInv
  /\ TestInv
  /\ report.exit \in ExitCodes

(* Every step keeps what is stored valid and clean.                         *)
LEMMA StoredStep == StoredInv /\ [Next]_vars => StoredInv'
<1> SUFFICES ASSUME StoredInv, [Next]_vars PROVE StoredInv'
  OBVIOUS
<1> USE DEF StoredInv
<1>1. CASE RecordBaseline
  <2>1. recorded' \in 0 .. MaxChanges /\ recorded + 1 \in 1 .. MaxChanges
    <3>1. Changes < MaxChanges /\ recorded' = recorded + 1
      BY <1>1 DEF RecordBaseline
    <3>2. CASE contract = NoFile
      BY <3>1, <3>2, ReleaseAssumption DEF Changes
    <3>3. CASE contract # NoFile
      <4>1. contract.edits \in 0 .. MaxChanges /\ recorded + contract.edits < MaxChanges
        BY <3>1, <3>3 DEF Changes, ContractInv
      <4> QED
        BY <3>1, <4>1, ReleaseAssumption
    <3> QED
      BY <3>2, <3>3
  <2>2. PICK bundle \in Bundles : \E new \in {Imported(RunName(recorded + 1), "record", bundle)} :
                                    new.ok /\ baseline' = new.run
    BY <1>1 DEF RecordBaseline
  <2>3. RecordedRun(baseline')
    BY <2>1, <2>2, RecordingIsSound
  <2>4. UNCHANGED <<contract, test>> /\ report'.exit = 0
    BY <1>1 DEF RecordBaseline, NoReport
  <2> QED
    BY <2>1, <2>3, <2>4 DEF ContractInv, TestInv, ExitCodes
<1>2. CASE GenerateContract
  <2>1. contract' = [file |-> contract'.file, source |-> contract'.source, edits |-> 0]
    BY <1>2 DEF GenerateContract
  <2>2. contract' = [file |-> contract'.file, source |-> contract'.source, edits |-> contract'.edits]
        /\ contract'.edits = 0
    BY <2>1
  <2>3. ContractInv'
    BY <2>2, ReleaseAssumption DEF ContractInv
  <2>4. UNCHANGED <<baseline, recorded, test>> /\ report'.exit = 0
    BY <1>2 DEF GenerateContract, NoReport
  <2> QED
    BY <2>3, <2>4 DEF TestInv, ExitCodes
<1>3. CASE ReviewContract
  <2>1. contract # NoFile /\ Changes < MaxChanges
    BY <1>3 DEF ReviewContract
  <2>2. PICK file : contract' = [contract EXCEPT !.file = file, !.edits = @ + 1]
    BY <1>3 DEF ReviewContract
  <2>3. contract' = [file |-> file, source |-> contract.source, edits |-> contract.edits + 1]
    BY <2>1, <2>2 DEF ContractInv
  <2>4. contract.edits + 1 \in 0 .. MaxChanges
    <3>1. contract.edits \in 0 .. MaxChanges /\ recorded + contract.edits < MaxChanges
      BY <2>1 DEF Changes, ContractInv
    <3> QED
      BY <3>1, ReleaseAssumption
  <2>5. ContractInv'
    BY <2>3, <2>4 DEF ContractInv
  <2>6. UNCHANGED <<baseline, recorded, test>> /\ report'.exit = 0
    BY <1>3 DEF ReviewContract, NoReport
  <2> QED
    BY <2>5, <2>6 DEF TestInv, ExitCodes
<1>4. CASE TestLoad
  <2>1. UNCHANGED <<baseline, recorded, contract>>
    BY <1>4 DEF TestLoad
  <2>2. PICK gates \in GateFiles :
          IF Loadable(gates)
          THEN /\ test' = [phase |-> "loaded", contract |-> contract, gates |-> gates, base |-> baseline]
               /\ report' = NoReport
          ELSE /\ report' = [exit |-> Configuration]
               /\ UNCHANGED test
    BY <1>4 DEF TestLoad
  <2>3. CASE Loadable(gates)
    <3>1. test'.phase = "loaded" /\ test'.base = baseline /\ report'.exit = 0
      BY <2>2, <2>3 DEF NoReport
    <3>2. RecordedRun(baseline)
      BY <2>3 DEF Loadable
    <3> QED
      BY <2>1, <3>1, <3>2 DEF ContractInv, TestInv, ExitCodes
  <2>4. CASE ~Loadable(gates)
    BY <2>1, <2>2, <2>4 DEF ContractInv, TestInv, ExitCodes
  <2> QED
    BY <2>3, <2>4
<1>5. CASE TestReplay
  <2>1. test.phase = "loaded" /\ UNCHANGED <<baseline, recorded, contract, report>>
    BY <1>5 DEF TestReplay
  <2>2. RecordedRun(test.base)
    BY <2>1 DEF TestInv
  <2>3. PICK order \in Orders(test.base), tier \in {"exact", "nearest_neighbor"}, live \in LiveCalls :
          \E new \in {Imported("replay", "replay", ReplayCapture(test.base, order, tier, live))} :
            /\ new.ok
            /\ test' = [phase |-> "replayed", contract |-> test.contract, gates |-> test.gates,
                        base |-> test.base, candidate |-> new.run,
                        asRecorded |-> live = <<>> /\ tier = "exact"
                                         /\ order = [n \in DOMAIN test.base.interactions |-> n]]
    BY <1>5 DEF TestReplay
  <2> DEFINE capture == ReplayCapture(test.base, order, tier, live)
             new == Imported("replay", "replay", capture)
  <2>4. new.ok /\ test'.phase = "replayed" /\ test'.base = test.base /\ test'.candidate = new.run
    BY <2>3
  <2>5. Importable("replay", capture)
    BY <2>2, ReplaysAreImportable
  <2> HIDE DEF capture
  <2>6. Named("replay") /\ "replay" \in Modes
    BY DEF Named, Modes
  <2>7. SoundRun(new.run)
    BY <2>4, <2>5, <2>6, StoredIsSound
  <2> HIDE DEF new
  <2> QED
    BY <2>1, <2>2, <2>4, <2>7 DEF ContractInv, TestInv
<1>6. CASE TestReplayFails
  <2>1. UNCHANGED <<baseline, recorded, contract>> /\ test'.phase = "idle" /\ report'.exit = ReplayFailure
    BY <1>6 DEF TestReplayFails, Idle
  <2> QED
    BY <2>1 DEF ContractInv, TestInv, ExitCodes
<1>7. CASE TestJudge
  <2>1. UNCHANGED <<baseline, recorded, contract>> /\ test'.phase = "idle"
    BY <1>7 DEF TestJudge, Idle
  <2>2. report'.exit \in ExitCodes
    <3>1. \/ report'.exit = Configuration
          \/ \E assertions, saw, gateSaw : report' = Judged(test, assertions, saw, gateSaw)
      BY <1>7 DEF TestJudge
    <3>2. \A assertions, saw, gateSaw : Judged(test, assertions, saw, gateSaw).exit \in ExitCodes
      BY DEF Judged, Report, ExitCode, ExitCodes
    <3> QED
      BY <3>1, <3>2 DEF ExitCodes
  <2> QED
    BY <2>1, <2>2 DEF ContractInv, TestInv
<1>8. CASE UNCHANGED vars
  BY <1>8 DEF vars, ContractInv, TestInv
<1> QED
  BY <1>1, <1>2, <1>3, <1>4, <1>5, <1>6, <1>7, <1>8 DEF Next

(* What is stored is always valid and clean.                                *)
LEMMA AlwaysStored == Spec => []StoredInv
<1>1. Init => StoredInv
  BY ReleaseAssumption DEF Init, StoredInv, ContractInv, TestInv, ExitCodes, Idle, NoReport
<1> QED
  BY <1>1, StoredStep, PTL DEF Spec

(* Every stored run satisfies the recorder's schema, whatever is captured:  *)
(* renaming, renumbering and scrubbing keep what Validate asked, and nothing*)
(* else reaches the store.                                                  *)
THEOREM StoredRunsAreValid == Spec => []TypeOK
<1>1. StoredInv => TypeOK
  BY DEF StoredInv, ContractInv, TestInv, ExitCodes, TypeOK, RecordedRun, SoundRun
<1> QED
  BY <1>1, AlwaysStored, PTL

(* What a detector knows is no text of a stored run, be it the recording or *)
(* its replay, unless a rule preserves it.  This holds of texts only: what  *)
(* was captured as a number is not scanned and stored as it is.             *)
THEOREM SecretsAreGone == Spec => []SecretsGone
<1>1. ASSUME StoredInv PROVE SecretsGone
  <2>1. ASSUME NEW run \in StoredRuns
        PROVE  SoundRun(run)
    BY <1>1, <2>1 DEF StoredRuns, StoredInv, TestInv, RecordedRun
  <2> QED
    BY <2>1 DEF SecretsGone, SoundRun, Clean
<1> QED
  BY <1>1, AlwaysStored, PTL

-----------------------------------------------------------------------------
(* New actions.                                                             *)

(* In a stored run every interaction is an action, under the same key for   *)
(* the contract and for the gates, and has a number of its own.             *)
LEMMA StoredAreActions ==
  ASSUME NEW r, SoundRun(r), NEW i \in ToSet(r.interactions)
  PROVE  Actionable(i) /\ BaseKey(i) = ActionKey(i)
<1>1. PICK k \in DOMAIN r.interactions : i = r.interactions[k]
  BY DEF ToSet
<1>2. /\ i.service # "" /\ i.operation # ""
      /\ i.protocol = "tool" => i.service = "stagehand.tool"
  BY <1>1 DEF SoundRun, ValidRun, ValidInteraction, IsInteraction
<1>3. BaseKey(i) = ActionKey(i)
  BY <1>2 DEF BaseKey, ActionKey, IsTool, ToolName
<1>4. \A a, b, c : ToSet(<<a, b>>) = {a, b} /\ ToSet(<<a, b, c>>) = {a, b, c}
  BY DEF ToSet
<1>5. CASE IsTool(i)
  <2>1. ActionKey(i) = <<"tool", i.operation>>
    BY <1>2, <1>5 DEF ActionKey, ToolName
  <2>2. "" \notin {"tool", i.operation}
    BY <1>2
  <2>3. ToSet(ActionKey(i)) = {"tool", i.operation}
    BY <1>4, <2>1, Zenon
  <2> QED
    BY <1>3, <2>2, <2>3, Zenon DEF Actionable
<1>6. CASE ~IsTool(i)
  <2>1. ActionKey(i) = <<"service", i.service, i.operation>>
    BY <1>6 DEF ActionKey
  <2>2. "" \notin {"service", i.service, i.operation}
    BY <1>2
  <2>3. ToSet(ActionKey(i)) = {"service", i.service, i.operation}
    BY <1>4, <2>1
  <2> QED
    BY <1>3, <2>2, <2>3, Zenon DEF Actionable
<1> QED
  BY <1>5, <1>6

(* The actions of a stored run, for the contract, the diff and the gates.   *)
LEMMA ActionsOfStored ==
  ASSUME NEW r, SoundRun(r)
  PROVE  /\ ActionsOf(r) = {ActionKey(i) : i \in ToSet(r.interactions)}
         /\ BaseKeys(r) = ActionsOf(r)
<1>1. ActionsOf(r) = {ActionKey(i) : i \in ToSet(r.interactions)}
  BY StoredAreActions DEF ActionsOf
<1>2. BaseKeys(r) = {BaseKey(i) : i \in ToSet(r.interactions)}
  BY DEF BaseKeys, ToSet
<1> QED
  BY <1>1, <1>2, StoredAreActions

(* The actions that only the candidate has.                                 *)
NewActions(base, candidate) == ActionsOf(candidate) \ ActionsOf(base)

(* DiffRuns reports those as new, and no others.                            *)
LEMMA DiffReportsNew ==
  ASSUME NEW base, NEW candidate
  PROVE  {c.key : c \in {d \in DiffRuns(base, candidate) : d.type = "new_action"}} = NewActions(base, candidate)
<1> DEFINE b == Snapshots(base)
           s == Snapshots(candidate)
           fresh(key) == ActionChange("new_action", key, s[key].effect)
           gone(key) == ActionChange("removed_action", key, "")
           added == {fresh(key) : key \in DOMAIN s \ DOMAIN b}
           removed == {gone(key) : key \in DOMAIN b \ DOMAIN s}
           changed == UNION {SnapshotChanges(key, b[key], s[key]) : key \in DOMAIN b \cap DOMAIN s}
<1>1. DOMAIN b = ActionsOf(base) /\ DOMAIN s = ActionsOf(candidate)
  BY DEF Snapshots
<1>2. DiffRuns(base, candidate) = added \cup removed \cup changed
  BY DEF DiffRuns, DiffSnapshots
<1>3. \A key, x, y : \A d \in SnapshotChanges(key, x, y) : d.type # "new_action"
  BY DEF SnapshotChanges, ActionChange
<1>4. \A key : /\ fresh(key).type = "new_action" /\ fresh(key).key = key
               /\ gone(key).type # "new_action"
  BY DEF ActionChange
<1> HIDE DEF b, s, fresh, gone
<1>5. added = {d \in DiffRuns(base, candidate) : d.type = "new_action"}
  BY <1>2, <1>3, <1>4
<1>6. {c.key : c \in added} = DOMAIN s \ DOMAIN b
  BY <1>4
<1> QED
  BY <1>1, <1>5, <1>6 DEF NewActions

(* A generated contract has the actions of its run and forbids none.        *)
LEMMA GeneratedActions ==
  ASSUME NEW run, NEW overrides, NEW amount
  PROVE  LET file == Generated(run, overrides, amount)
         IN  /\ {a.key : a \in file.allowed \cup file.restricted} = ActionsOf(run)
             /\ file.forbidden = {}
<1> DEFINE seen == {i \in ToSet(run.interactions) : Actionable(i)}
           of(key) == {i \in seen : ActionKey(i) = key}
           effect(key) == OrUnknown(Riskiest({ClassifyWith(i, overrides) : i \in of(key)}))
           limit(key) == LET all == UNION {amount[i.seq] : i \in of(key)}
                         IN  {n \in all : \A m \in all : m <= n}
           action(key) == Action(key, effect(key), RequiresApproval(effect(key)), <<>>, TiersOf(of(key)), limit(key), "")
           actions == {action(key) : key \in {ActionKey(i) : i \in seen}}
           file == Generated(run, overrides, amount)
<1>1. file = [agent |-> run.session, models |-> UNION {Models(i.body) : i \in seen},
              allowed |-> {a \in actions : a.effect = "read"},
              restricted |-> {a \in actions : a.effect # "read"},
              forbidden |-> {}, overrides |-> {}]
  BY Zenon DEF Generated
<1>2. \A key : action(key).key = key
  BY DEF Action
<1> HIDE DEF action, file
<1>3. {a.key : a \in actions} = ActionsOf(run)
  BY <1>2 DEF ActionsOf
<1> HIDE DEF actions
<1>4. file.allowed \cup file.restricted = actions /\ file.forbidden = {}
  BY <1>1
<1> QED
  BY <1>3, <1>4 DEF file

(* Held against the contract of its base run, a candidate has a new action  *)
(* where the base run does not have it, and no forbidden one.               *)
LEMMA ContractReportsNew ==
  ASSUME NEW base, NEW candidate, NEW file,
         {a.key : a \in file.allowed \cup file.restricted} = ActionsOf(base), file.forbidden = {}
  PROVE  LET violations == Evaluate(candidate, file)
         IN  /\ {v.key : v \in {w \in violations : w.type = "new_unapproved_action"}} = NewActions(base, candidate)
             /\ \A v \in violations : v.type # "forbidden_action"
<1> DEFINE seen == {i \in ToSet(candidate.interactions) : Actionable(i)}
           verdict == [i \in seen |-> Verdict(i, file)]
           bad == {i \in seen : verdict[i] # ""}
           violations == Evaluate(candidate, file)
<1>1. \A i \in seen : /\ verdict[i] # "forbidden_action"
                      /\ verdict[i] = "new_unapproved_action" <=> ActionKey(i) \notin ActionsOf(base)
  <2> SUFFICES ASSUME NEW i \in seen
               PROVE  /\ Verdict(i, file) # "forbidden_action"
                      /\ Verdict(i, file) = "new_unapproved_action" <=> ActionKey(i) \notin ActionsOf(base)
    OBVIOUS
  <2>1. ActionKey(i) \in ActionsOf(base) <=> \E a \in file.allowed \cup file.restricted : a.key = ActionKey(i)
    OBVIOUS
  <2> QED
    BY <2>1 DEF Verdict
<1> DEFINE alike(i) == {j \in bad : ActionKey(j) = ActionKey(i) /\ verdict[j] = verdict[i]}
           effect(i) == IF verdict[i] = "new_unapproved_action"
                        THEN Classify(CHOOSE j \in alike(i) : \A k \in alike(i) : j.seq <= k.seq)
                        ELSE (CHOOSE a \in Actions(file) : a.key = ActionKey(i)).effect
           violation(i) == Violation(verdict[i], ActionKey(i), effect(i), {j.seq : j \in alike(i)})
<1>2. violations = {violation(i) : i \in bad}
  BY Zenon DEF Evaluate, Violations
<1>3. \A i : violation(i).type = verdict[i] /\ violation(i).key = ActionKey(i)
  BY DEF Violation
<1>4. \A key : key \in NewActions(base, candidate) <=> \E i \in seen : key = ActionKey(i) /\ key \notin ActionsOf(base)
  BY DEF NewActions, ActionsOf
<1>5. bad \subseteq seen /\ \A i \in seen : verdict[i] = "new_unapproved_action" => i \in bad
  OBVIOUS
<1> HIDE DEF alike, effect, violation, violations, verdict, bad, seen
<1>6. \A v \in violations : v.type # "forbidden_action"
  BY <1>1, <1>2, <1>3, <1>5
<1>7. ASSUME NEW key
      PROVE  key \in {v.key : v \in {w \in violations : w.type = "new_unapproved_action"}}
               <=> key \in NewActions(base, candidate)
  BY <1>1, <1>2, <1>3, <1>4, <1>5
<1>8. {v.key : v \in {w \in violations : w.type = "new_unapproved_action"}} = NewActions(base, candidate)
  <2> DEFINE reported == {v.key : v \in {w \in violations : w.type = "new_unapproved_action"}}
  <2>1. \A key : key \in reported <=> key \in NewActions(base, candidate)
    BY <1>7
  <2> HIDE DEF reported
  <2>2. reported = NewActions(base, candidate)
    BY <2>1
  <2> QED
    BY <2>2 DEF reported
<1> QED
  BY <1>6, <1>8 DEF violations

(* A list has finitely many items.                                          *)
LEMMA ItemsAreFinite ==
  ASSUME NEW s, IsList(s)
  PROVE  IsFiniteSet(ToSet(s))
<1>1. IsFiniteSet(DOMAIN s)
  BY ListIsFunction
<1>2. IsFiniteSet({s[k] : k \in DOMAIN s})
  BY <1>1, ImageIsFinite
<1>3. {s[k] : k \in DOMAIN s} = ToSet(s)
  BY DEF ToSet
<1> QED
  BY <1>2, <1>3

(* The gate that forbids every new action asserts that none of the          *)
(* candidate's interactions is an action the base run does not have.        *)
LEMMA GateReportsNew ==
  ASSUME NEW base, NEW candidate, SoundRun(base), SoundRun(candidate),
         NEW gates, ValidGates(gates), NEW saw, NEW k \in DOMAIN gates,
         "forbid_new_action" \in DOMAIN gates[k].clauses,
         gates[k].clauses["forbid_new_action"].selector = <<>>
  PROVE  k \in Failed(EvaluateGates(candidate, gates, base, saw)) <=> NewActions(base, candidate) # {}
<1> DEFINE gate == gates[k]
           clause == CHOOSE c \in DOMAIN gate.clauses : TRUE
           body == gate.clauses[clause]
           a == AssertionForGate(k, gate)
           known == BaseKeys(base)
           matching == [part \in Parts \cap DOMAIN a |-> Matching(candidate, a[part], known, saw[k][part])]
           fresh == {i \in ToSet(candidate.interactions) : BaseKey(i) \notin known}
<1>1. DOMAIN gate.clauses = {"forbid_new_action"}
  <2>1. DOMAIN gate.clauses \subseteq Clauses /\ Cardinality(DOMAIN gate.clauses) = 1
    BY DEF ValidGates
  <2> DEFINE clauses == DOMAIN gate.clauses
  <2>2. "forbid_new_action" \in clauses
    OBVIOUS
  <2> HIDE DEF clauses
  <2>3. \E c \in Clauses : clauses = {c}
    BY <2>1, OneClause DEF clauses
  <2>4. clauses = {"forbid_new_action"}
    BY <2>2, <2>3
  <2> QED
    BY <2>4 DEF clauses
<1>2. clause = "forbid_new_action"
  BY <1>1
<1>3. a = [id |-> GateId(k), type |-> "count", match |-> Blocked("forbid_new_action", body),
           expect |-> [count |-> [max |-> 0]]]
  BY <1>2 DEF AssertionForGate
<1>4. body.selector = <<>>
  BY <1>2
<1> HIDE DEF gate, clause, body, a
<1>5. Blocked("forbid_new_action", body) = Both(body.selector, [new_action |-> TRUE])
  BY DEF Blocked
<1>6. /\ DOMAIN a = {"id", "type", "match", "expect"} /\ a.type = "count" /\ a.expect.count = [max |-> 0]
      /\ a["match"] = Both(<<>>, [new_action |-> TRUE])
  BY <1>3, <1>4, <1>5
<1>7. DOMAIN a["match"] = {"new_action"} /\ a["match"]["new_action"] = TRUE
  <2>1. DOMAIN <<>> = {}
    OBVIOUS
  <2> QED
    BY <1>6, <2>1 DEF Both
<1>8. ToolAsService(a["match"]) = a["match"]
  BY <1>7 DEF ToolAsService, Sets
<1>9. \A i : Agrees(i, "new_action", TRUE, known, saw[k]["match"]) <=> BaseKey(i) \notin known
  BY DEF Agrees
<1>10. Matching(candidate, a["match"], known, saw[k]["match"]) = fresh
  <2> DEFINE match == a["match"]
             walk == saw[k]["match"]
  <2>1. /\ ToolAsService(match) = match /\ DOMAIN match = {"new_action"} /\ match["new_action"] = TRUE
        /\ \A i : Agrees(i, "new_action", TRUE, known, walk) <=> BaseKey(i) \notin known
    BY <1>7, <1>8, <1>9
  <2> HIDE DEF known, match, walk
  <2>2. \A i : (\A field \in DOMAIN match : Agrees(i, field, match[field], known, walk)) <=> BaseKey(i) \notin known
    BY <2>1, Zenon
  <2>3. Matching(candidate, match, known, walk) = fresh
    BY <2>1, <2>2 DEF Matching
  <2> QED
    BY <2>3 DEF match, walk
<1>11. matching["match"] = fresh
  BY <1>6, <1>10 DEF Parts
<1>12. IsFiniteSet(fresh)
  <2>1. IsFiniteSet(ToSet(candidate.interactions))
    BY ItemsAreFinite DEF SoundRun
  <2> QED
    BY <2>1, FS_Subset
<1>13. Cardinality(fresh) <= 0 <=> fresh = {}
  <2> HIDE DEF fresh
  <2>1. Cardinality(fresh) \in Nat /\ (Cardinality(fresh) = 0 <=> fresh = {})
    BY <1>12, FS_CardinalityType, FS_EmptySet
  <2> QED
    BY <2>1
<1>14. fresh = {} <=> NewActions(base, candidate) = {}
  BY ActionsOfStored, StoredAreActions DEF NewActions
<1> HIDE DEF matching, fresh
<1>15. Passes(candidate, a, known, saw[k]) <=> fresh = {}
  <2>1. Passes(candidate, a, known, saw[k]) = Holds(candidate, a, matching)
    BY DEF Passes, matching
  <2> HIDE DEF known
  <2>2. Holds(candidate, a, matching) <=> CountPasses(Cardinality(fresh), [max |-> 0])
    BY <1>6, <1>11 DEF Holds
  <2>3. CountPasses(Cardinality(fresh), [max |-> 0]) <=> Cardinality(fresh) <= 0
    BY DEF CountPasses, Sets
  <2> QED
    BY <1>13, <2>1, <2>2, <2>3
<1> DEFINE results == EvaluateGates(candidate, gates, base, saw)
<1>16. DOMAIN results = DOMAIN gates /\ results[k].passed = Passes(candidate, a, known, saw[k])
  <2>1. DOMAIN Translate(gates) = DOMAIN gates /\ Translate(gates)[k] = a
    BY DEF Translate, a, gate
  <2> HIDE DEF known
  <2> QED
    BY <2>1 DEF EvaluateGates, EvaluateAssertions, known
<1> HIDE DEF results, known
<1>17. k \in Failed(results) <=> ~results[k].passed
  BY <1>16 DEF Failed
<1> QED
  BY <1>14, <1>15, <1>16, <1>17 DEF results

-----------------------------------------------------------------------------
(* The alignment of two runs.                                               *)

(* A path that does not start at the service, the operation or the protocol.*)
Elsewhere(parts) == parts[1] \notin {"service", "operation", "protocol"}

(* Every ignored field is such a path.                                      *)
LEMMA NamesAreCompared ==
  ASSUME NEW service, NEW parts \in IgnoredFor(service, {})
  PROVE  Elsewhere(parts)
<1>1. \A p \in DefaultIgnored : Elsewhere(p)
  BY DEF DefaultIgnored, Elsewhere
<1>2. ASSUME NEW path, IsList(path), path # <<>>, NEW prefix \in {"request", "response"}
      PROVE  LET f == Relative(path, prefix)
             IN  IsList(f) /\ f # <<>> /\ Elsewhere(f)
  <2>1. CASE Relative(path, prefix) = path
    <3>1. Head(path) \in {"request", "response"} \/ path = <<prefix>> \o path
      BY <2>1 DEF Relative
    <3>2. (<<prefix>> \o path)[1] = prefix
      BY <1>2, PathJoins
    <3>3. path[1] \in {"request", "response"}
      BY <3>1, <3>2
    <3> QED
      BY <1>2, <2>1, <3>3 DEF Elsewhere
  <2>2. CASE Relative(path, prefix) = <<prefix>> \o path
    <3> DEFINE f == <<prefix>> \o path
    <3>1. IsList(f) /\ Len(f) = Len(path) + 1 /\ f[1] = prefix
      BY <1>2, PathJoins
    <3>2. Len(path) \in Nat
      BY <1>2, ListIsFunction
    <3> HIDE DEF f
    <3>3. f # <<>>
      BY <3>1, <3>2
    <3> QED
      BY <2>2, <3>1, <3>3 DEF Elsewhere, f
  <2> QED
    BY <2>1, <2>2 DEF Relative
<1>3. ASSUME NEW F, \A f \in F : IsList(f) /\ f # <<>> /\ Elsewhere(f), NEW p \in NormalizeIgnored(F)
      PROVE  Elsewhere(p)
  <2>1. CASE p \in DefaultIgnored \cup F
    BY <1>1, <1>3, <2>1
  <2>2. CASE \E f \in F : p = <<"events", "*", "data">> \o Tail(f)
    <3>1. PICK f \in F : p = <<"events", "*", "data">> \o Tail(f)
      BY <2>2
    <3> DEFINE under == <<"events", "*", "data">>
               rest == Tail(f)
               T == ToSet(f)
    <3>2. f \in Seq(T) /\ f # <<>>
      BY <1>3 DEF IsList
    <3> HIDE DEF T
    <3>3. rest \in Seq(T)
      BY <3>2, HeadTailProperties
    <3> HIDE DEF rest
    <3>4. IsList(rest)
      <4> DEFINE n == Len(rest)
      <4>1. n \in Nat /\ rest = [k \in 1 .. n |-> rest[k]]
        BY <3>3, LenProperties
      <4> HIDE DEF n
      <4> QED
        BY <4>1, FunctionIsList
    <3>5. IsList(under) /\ Len(under) = 3 /\ under[1] = "events"
      BY DEF IsList, ToSet
    <3> HIDE DEF under, rest
    <3>6. \A k \in 1 .. Len(under) : (under \o rest)[k] = under[k]
      BY <3>4, <3>5, JoinedLists
    <3>7. 1 \in 1 .. Len(under)
      BY <3>5
    <3>8. p[1] = "events"
      BY <3>1, <3>5, <3>6, <3>7 DEF under, rest
    <3> QED
      BY <3>8 DEF Elsewhere
  <2> QED
    BY <2>1, <2>2, <1>3 DEF NormalizeIgnored
<1> DEFINE own == {Relative(p, "request") : p \in ServiceIgnored[service].request}
                    \cup {Relative(p, "response") : p \in ServiceIgnored[service].response}
<1>4. parts \in NormalizeIgnored({}) \/ (service \in DOMAIN ServiceIgnored /\ parts \in NormalizeIgnored(own))
  BY DEF IgnoredFor
<1>5. service \in DOMAIN ServiceIgnored => \A f \in own : IsList(f) /\ f # <<>> /\ Elsewhere(f)
  BY <1>2, ReleaseAssumption
<1> HIDE DEF own
<1> QED
  BY <1>3, <1>4, <1>5

(* A field of an object that no ignored path starts with is compared.       *)
LEMMA FieldIsCompared ==
  ASSUME NEW fields, NEW f \in DOMAIN fields, NEW v, fields[f] = Leaf(v),
         NEW ignored, \A parts \in ignored : parts[1] # f
  PROVE  <<f>> \in DOMAIN Without(Obj(fields), ignored) /\ Without(Obj(fields), ignored)[<<f>>] = v
<1> DEFINE doc == Obj(fields)
           path == <<f>>
<1>1. DOMAIN Leaf(v) = {<<>>} /\ Leaf(v)[<<>>] = v
  BY DEF Leaf
<1>2. path # <<>> /\ path[1] = f /\ Head(path) = f /\ Tail(path) = <<>> /\ path = <<f>> \o <<>>
  OBVIOUS
<1> HIDE DEF path
<1>3. doc = [p \in {<<>>} \cup UNION {{<<k>> \o q : q \in DOMAIN fields[k]} : k \in DOMAIN fields} |->
               IF p = <<>> THEN "{}" ELSE fields[Head(p)][Tail(p)]]
  BY DEF Obj, Node
<1>4. path \in UNION {{<<k>> \o q : q \in DOMAIN fields[k]} : k \in DOMAIN fields}
  BY <1>1, <1>2
<1>5. path \in DOMAIN doc /\ doc[path] = v
  BY <1>1, <1>2, <1>3, <1>4
<1> HIDE DEF doc
<1>6. path \in DOMAIN Without(doc, ignored) /\ Without(doc, ignored)[path] = v
  BY <1>2, <1>5 DEF Without
<1> QED
  BY <1>6 DEF doc, path

(* The ignored fields of an interaction.                                    *)
Known(i) == IgnoredFor(i.service, {})

(* Interactions with the same identity are calls of the same operation.     *)
LEMMA AlignedNames ==
  ASSUME NEW i, NEW j, Identity(i, Known(i)) = Identity(j, Known(j))
  PROVE  i.service = j.service /\ i.operation = j.operation
<1> DEFINE fields(x) == [service |-> Leaf(x.service), operation |-> Leaf(x.operation), protocol |-> Leaf(x.protocol),
                         request |-> Obj([method |-> Leaf(ToUpper(x.method)),
                                          url |-> Leaf(NormalUrl(x.url, QueryKeys(Known(x))))])]
<1>1. ASSUME NEW x
      PROVE  /\ Identity(x, Known(x))[<<"service">>] = x.service
             /\ Identity(x, Known(x))[<<"operation">>] = x.operation
  <2> DEFINE f == fields(x)
             ignored == Known(x)
  <2>1. Identity(x, ignored) = Without(Obj(f), ignored)
    BY DEF Identity
  <2>2. /\ "service" \in DOMAIN f /\ f["service"] = Leaf(x.service)
        /\ "operation" \in DOMAIN f /\ f["operation"] = Leaf(x.operation)
    OBVIOUS
  <2>3. \A parts \in ignored : parts[1] # "service" /\ parts[1] # "operation"
    BY NamesAreCompared DEF Known, Elsewhere
  <2> HIDE DEF f, ignored
  <2>4. Without(Obj(f), ignored)[<<"service">>] = x.service
    BY <2>2, <2>3, FieldIsCompared
  <2>5. Without(Obj(f), ignored)[<<"operation">>] = x.operation
    BY <2>2, <2>3, FieldIsCompared
  <2> QED
    BY <2>1, <2>4, <2>5 DEF ignored
<1> HIDE DEF fields
<1> QED
  BY <1>1

(* The occurrences of what is listed are counted upwards.                   *)
LEMMA CountsGrow ==
  ASSUME NEW ids, NEW k \in Nat, NEW l \in Nat, 0 < k, k < l, ids[k] = ids[l]
  PROVE  Cardinality({j \in 1 .. k : ids[j] = ids[k]}) # Cardinality({j \in 1 .. l : ids[j] = ids[l]})
<1> DEFINE S == {j \in 1 .. k : ids[j] = ids[k]}
           T == {j \in 1 .. l : ids[j] = ids[l]}
<1>1. IsFiniteSet(T)
  <2>1. IsFiniteSet(1 .. l) /\ T \in SUBSET (1 .. l)
    BY FS_Interval
  <2> QED
    BY <2>1, FS_Subset
<1>2. S \in SUBSET T /\ l \in T /\ l \notin S
  OBVIOUS
<1> HIDE DEF S, T
<1>3. Cardinality(S) = Cardinality(T) => S = T
  BY <1>1, <1>2, FS_Subset
<1> QED
  BY <1>2, <1>3 DEF S, T

(* The entries of a run's interactions: one for each, with its identity and *)
(* a key of its own.                                                        *)
KeyedFrom(entries, items) ==
  /\ \A x \in entries : x.interaction \in ToSet(items) /\ x.key[1] = Identity(x.interaction, Known(x.interaction))
  /\ \A i \in ToSet(items) : \E x \in entries : x.interaction = i
  /\ \A x, y \in entries : x.key = y.key \/ x.interaction = y.interaction => x = y

(* Keyed makes these entries of interactions that are numbered in their     *)
(* order.                                                                   *)
LEMMA KeyedItems ==
  ASSUME NEW items, IsList(items), \A k \in DOMAIN items : items[k].seq = k,
         NEW entries, entries = Keyed(items, {})
  PROVE  KeyedFrom(entries, items)
<1> DEFINE sorted == BySequence(items)
           ids == [k \in DOMAIN sorted |-> Identity(sorted[k], Known(sorted[k]))]
           nth(k) == Cardinality({j \in 1 .. k : ids[j] = ids[k]})
           entry(k) == [key |-> <<ids[k], nth(k)>>, interaction |-> sorted[k]]
           D == DOMAIN items
<1>1. Len(items) \in Nat /\ D = 1 .. Len(items) /\ D \subseteq Nat
  BY ListIsFunction
<1>2. \A k \in DOMAIN items : items[k].seq \in Int
  BY <1>1
<1>3. /\ DOMAIN sorted = D
      /\ \E p \in [D -> D] :
           /\ \A j, k \in D : p[j] = p[k] => j = k
           /\ \A k \in D : \E j \in D : p[j] = k
           /\ \A k \in D : sorted[k] = items[p[k]]
  <2> HIDE DEF sorted
  <2> QED
    BY <1>2, SortedIsPermuted DEF sorted
<1>4. entries = {entry(k) : k \in DOMAIN sorted}
  BY DEF Keyed, Known
<1>5. \A k : entry(k).key = <<ids[k], nth(k)>> /\ entry(k).interaction = sorted[k]
  OBVIOUS
<1>6. \A k : entry(k).key[1] = ids[k] /\ \A l : entry(k).key = entry(l).key => ids[k] = ids[l] /\ nth(k) = nth(l)
  <2> HIDE DEF entry, ids, nth
  <2>1. \A a, b, c, d : <<a, b>>[1] = a /\ (<<a, b>> = <<c, d>> => a = c /\ b = d)
    OBVIOUS
  <2> QED
    BY <1>5, <2>1
<1>7. \A k \in D : ids[k] = Identity(sorted[k], Known(sorted[k]))
  BY <1>3
<1> HIDE DEF sorted, entry, D
<1>8. \A k, l \in D : k < l /\ ids[k] = ids[l] => nth(k) # nth(l)
  <2> HIDE DEF ids
  <2> QED
    BY <1>1, CountsGrow DEF D
<1> HIDE DEF nth, ids
<1>9. \A k, l \in D : ids[k] = ids[l] /\ nth(k) = nth(l) => k = l
  <2>1. \A k, l \in D : k < l \/ l < k \/ k = l
    BY <1>1 DEF D
  <2> QED
    BY <1>8, <2>1
<1>10. PICK p \in [D -> D] :
         /\ \A j, k \in D : p[j] = p[k] => j = k
         /\ \A k \in D : \E j \in D : p[j] = k
         /\ \A k \in D : sorted[k] = items[p[k]]
  BY <1>3
<1>11. \A k, l \in D : sorted[k] = sorted[l] => k = l
  <2>1. \A k \in D : p[k] \in D /\ items[p[k]].seq = p[k]
    BY <1>10 DEF D
  <2> QED
    BY <1>10, <2>1
<1>12. \A k \in D : sorted[k] \in ToSet(items)
  BY <1>10 DEF ToSet, D
<1>13. \A i \in ToSet(items) : \E k \in D : sorted[k] = i
  <2> SUFFICES ASSUME NEW i \in ToSet(items) PROVE \E k \in D : sorted[k] = i
    OBVIOUS
  <2>1. PICK l \in D : items[l] = i
    BY DEF ToSet, D
  <2>2. PICK k \in D : p[k] = l
    BY <1>10
  <2> QED
    BY <1>10, <2>1, <2>2
<1>14. entries = {entry(k) : k \in D}
  BY <1>3, <1>4
<1>15. \A x \in entries : x.interaction \in ToSet(items) /\ x.key[1] = Identity(x.interaction, Known(x.interaction))
  BY <1>5, <1>6, <1>7, <1>12, <1>14
<1>16. \A i \in ToSet(items) : \E x \in entries : x.interaction = i
  BY <1>5, <1>13, <1>14
<1>17. \A x, y \in entries : x.key = y.key \/ x.interaction = y.interaction => x = y
  BY <1>5, <1>6, <1>9, <1>11, <1>14
<1> QED
  BY <1>15, <1>16, <1>17 DEF KeyedFrom

(* What a comparison has to say of the entries of two runs: one that only   *)
(* one of the runs has is a failing change, for the new run an added one;   *)
(* so is a pair whose new call fell back further, or differs.               *)
Doc(i) == Decoded(i, Known(i))
ReportedFrom(changes, old, new) ==
  /\ \A y \in new : (\A x \in old : x.key # y.key) =>
       \E c \in changes : c.failing /\ c.type = "added" /\ c.candidate = y.interaction.seq
  /\ \A x \in old : (\A y \in new : x.key # y.key) => \E c \in changes : c.failing
  /\ \A x \in old, y \in new : x.key = y.key =>
       \/ \E c \in changes : c.failing
       \/ /\ FallbackRank(y.interaction.tier) <= FallbackRank(x.interaction.tier)
          /\ Doc(x.interaction) = Decoded(y.interaction, Known(x.interaction))

(* The rank of a tier, known or not, is one of five.                        *)
LEMMA FallbackRanks == ASSUME NEW tier PROVE FallbackRank(tier) \in 0 .. 4
BY DEF FallbackRank

(* The comparison of any entries says this.                                 *)
LEMMA AlignedReports ==
  ASSUME NEW old, NEW new, NEW changes, changes = Aligned(old, new, {})
  PROVE  ReportedFrom(changes, old, new)
<1> DEFINE doc(i, service) == Decoded(i, IgnoredFor(service, {}))
           both == {pair \in old \X new : pair[1].key = pair[2].key}
           pairs(b, c) == PairChanges(b, c, doc(b, b.service), doc(c, b.service))
           gone(b) == Change("removed", TRUE, b.interaction.seq, 0, {})
           added(c) == Change("added", TRUE, 0, c.interaction.seq, {})
           removals == {gone(b) : b \in {x \in old : \A y \in new : x.key # y.key}}
           additions == {added(c) : c \in {y \in new : \A x \in old : x.key # y.key}}
           edits == UNION {pairs(pair[1].interaction, pair[2].interaction) : pair \in both}
<1>1. changes = removals \cup additions \cup edits
  BY Zenon DEF Aligned
<1>2. \A b : gone(b).failing
  BY DEF Change
<1>3. \A c : added(c).failing /\ added(c).type = "added" /\ added(c).candidate = c.interaction.seq
  BY DEF Change
<1>4. ASSUME NEW b, NEW c
      PROVE  \/ \E d \in pairs(b, c) : d.failing
             \/ FallbackRank(c.tier) <= FallbackRank(b.tier) /\ Doc(b) = Decoded(c, Known(b))
  <2> DEFINE worse == Change("fallback_regression", TRUE, b.seq, c.seq, {})
             differs == Change("modified", TRUE, b.seq, c.seq, DifferingPaths(doc(b, b.service), doc(c, b.service)))
  <2>1. worse.failing /\ differs.failing
    BY DEF Change
  <2>2. /\ FallbackRank(c.tier) > FallbackRank(b.tier) => worse \in pairs(b, c)
        /\ doc(b, b.service) # doc(c, b.service) => differs \in pairs(b, c)
    <3> HIDE DEF doc
    <3> QED
      BY DEF PairChanges, When
  <2>3. FallbackRank(c.tier) \in 0 .. 4 /\ FallbackRank(b.tier) \in 0 .. 4
    BY FallbackRanks
  <2>4. doc(b, b.service) = Doc(b) /\ doc(c, b.service) = Decoded(c, Known(b))
    BY DEF Doc, Known
  <2> HIDE DEF worse, differs, pairs, doc
  <2> QED
    BY <2>1, <2>2, <2>3, <2>4
<1> HIDE DEF pairs, gone, added
<1>5. ASSUME NEW y \in new, \A x \in old : x.key # y.key
      PROVE  \E c \in changes : c.failing /\ c.type = "added" /\ c.candidate = y.interaction.seq
  <2>1. added(y) \in changes
    BY <1>1, <1>5
  <2> QED
    BY <1>3, <2>1
<1>6. ASSUME NEW x \in old, \A y \in new : x.key # y.key
      PROVE  \E c \in changes : c.failing
  <2>1. gone(x) \in changes
    BY <1>1, <1>6
  <2> QED
    BY <1>2, <2>1
<1>7. ASSUME NEW x \in old, NEW y \in new, x.key = y.key
      PROVE  pairs(x.interaction, y.interaction) \subseteq changes
  <2>1. <<x, y>> \in both
    BY <1>7
  <2> QED
    BY <1>1, <2>1
<1>8. ASSUME NEW x \in old, NEW y \in new, x.key = y.key
      PROVE  \/ \E c \in changes : c.failing
             \/ /\ FallbackRank(y.interaction.tier) <= FallbackRank(x.interaction.tier)
                /\ Doc(x.interaction) = Decoded(y.interaction, Known(x.interaction))
  BY <1>4, <1>7, <1>8
<1> QED
  BY <1>5, <1>6, <1>8 DEF ReportedFrom

(* A call of a new action is paired with no call of the base run.           *)
LEMMA NewCallsAreAdded ==
  ASSUME NEW base, NEW candidate, SoundRun(base), SoundRun(candidate),
         NEW changes, changes = Compare(base.interactions, candidate.interactions, {}),
         NEW i \in ToSet(candidate.interactions), ActionKey(i) \in NewActions(base, candidate)
  PROVE  \E c \in changes : c.failing /\ c.type = "added" /\ c.candidate = i.seq
<1> DEFINE old == Keyed(base.interactions, {})
           new == Keyed(candidate.interactions, {})
<1>1. changes = Aligned(old, new, {})
  BY DEF Compare
<1> HIDE DEF old, new
<1>2. KeyedFrom(old, base.interactions) /\ KeyedFrom(new, candidate.interactions)
  BY KeyedItems DEF SoundRun, old, new
<1>3. ReportedFrom(changes, old, new)
  BY <1>1, AlignedReports
<1>4. PICK y \in new : y.interaction = i
  BY <1>2 DEF KeyedFrom
<1>5. ASSUME NEW x \in old, x.key = y.key PROVE FALSE
  <2> DEFINE b == x.interaction
  <2>1. b \in ToSet(base.interactions) /\ Identity(b, Known(b)) = Identity(i, Known(i))
    BY <1>2, <1>4, <1>5 DEF KeyedFrom
  <2> HIDE DEF b
  <2>2. b.service = i.service /\ b.operation = i.operation
    BY <2>1, AlignedNames
  <2>3. BaseKey(b) = BaseKey(i)
    BY <2>2 DEF BaseKey
  <2>4. ActionKey(b) = ActionKey(i)
    BY <2>1, <2>3, StoredAreActions
  <2> QED
    BY <2>1, <2>4, ActionsOfStored DEF NewActions
<1> QED
  BY <1>3, <1>4, <1>5 DEF ReportedFrom

-----------------------------------------------------------------------------
(* The verdict of a test.                                                   *)

(* The report of a test, from its runs, its contract and its gates.         *)
ReportOf(r, t) ==
  /\ r.contract = t.contract /\ r.gates = t.gates /\ r.base = t.base /\ r.candidate = t.candidate
  /\ r.changes = Compare(t.base.interactions, t.candidate.interactions, {})
  /\ r.violations = IF t.contract = NoFile THEN {} ELSE Evaluate(t.candidate, t.contract.file)
  /\ r.diffs = DiffRuns(t.base, t.candidate)
  /\ r.level = ScoreRisk(r.diffs, r.violations)
  /\ t.gates # NoFile => \E saw : r.blocked = Failed(EvaluateGates(t.candidate, t.gates, t.base, saw))
  /\ r.exit = 0 => r.violations = {} /\ Failing(r.changes) = {}

(* The report that a test ends with is one.                                 *)
LEMMA JudgedFields ==
  ASSUME NEW t, NEW assertions, NEW saw, NEW gateSaw,
         NEW r, r = Judged(t, assertions, saw, gateSaw)
  PROVE  ReportOf(r, t)
<1> DEFINE changes == Compare(t.base.interactions, t.candidate.interactions, {})
           violations == IF t.contract = NoFile THEN {} ELSE Evaluate(t.candidate, t.contract.file)
           diffs == DiffRuns(t.base, t.candidate)
           results == EvaluateAssertions(t.candidate, assertions, {}, saw)
           gates == IF t.gates = NoFile THEN <<>> ELSE EvaluateGates(t.candidate, t.gates, t.base, gateSaw)
<1>1. r = Report(t, changes, violations, diffs, results, gates)
  BY Zenon DEF Judged
<1>2. t.gates # NoFile => gates = EvaluateGates(t.candidate, t.gates, t.base, gateSaw)
  OBVIOUS
<1> HIDE DEF changes, violations, diffs, results, gates
<1>3. /\ r.exit = ExitCode(violations, changes, gates, results)
      /\ r.contract = t.contract /\ r.gates = t.gates /\ r.base = t.base /\ r.candidate = t.candidate
      /\ r.blocked = Failed(gates) /\ r.changes = changes /\ r.violations = violations
      /\ r.diffs = diffs /\ r.level = ScoreRisk(diffs, violations)
  BY <1>1 DEF Report
<1>4. ExitCode(violations, changes, gates, results) = 0 => violations = {} /\ Failing(changes) = {}
  BY DEF ExitCode, ContractViolation, BehaviorDiff
<1>5. t.gates # NoFile => \E values : r.blocked = Failed(EvaluateGates(t.candidate, t.gates, t.base, values))
  BY <1>2, <1>3
<1> QED
  BY <1>3, <1>4, <1>5 DEF ReportOf, changes, violations, diffs

(* A contract that nobody has reviewed is the one generated from its run.   *)
Unreviewed(file, run) ==
  file.edits = 0 /\ file.source = run.run => \E amount : file.file = Generated(run, ToolOverrides, amount)

(* What a report says of new actions, as NewActionsAgree has it.            *)
NewActionsReported(r) ==
  LET new == {c.key : c \in {d \in r.diffs : d.type = "new_action"}}
  IN  /\ r.contract # NoFile /\ r.contract.edits = 0 /\ r.contract.source = r.base.run
           => /\ {v.key : v \in {w \in r.violations : w.type = "new_unapproved_action"}} = new
              /\ \A v \in r.violations : v.type # "forbidden_action"
      /\ r.gates # NoFile =>
           \A k \in DOMAIN r.gates :
             "forbid_new_action" \in DOMAIN r.gates[k].clauses
               /\ r.gates[k].clauses["forbid_new_action"].selector = <<>>
               => (k \in r.blocked <=> new # {})
      /\ \A i \in ToSet(r.candidate.interactions) :
           ActionKey(i) \in new => \E c \in r.changes : c.type = "added" /\ c.candidate = i.seq

(* A report says this whenever the runs are sound, the gates were accepted  *)
(* and an unreviewed contract is the one of the base run.                   *)
LEMMA ReportsAgree ==
  ASSUME NEW t, SoundRun(t.base), SoundRun(t.candidate),
         t.contract # NoFile => Unreviewed(t.contract, t.base),
         t.gates # NoFile => ValidGates(t.gates),
         NEW r, ReportOf(r, t)
  PROVE  NewActionsReported(r)
<1> DEFINE new == {c.key : c \in {d \in r.diffs : d.type = "new_action"}}
<1>1. new = NewActions(t.base, t.candidate)
  BY DiffReportsNew DEF ReportOf
<1> HIDE DEF new
<1>2. ASSUME r.contract # NoFile, r.contract.edits = 0, r.contract.source = r.base.run
      PROVE  /\ {v.key : v \in {w \in r.violations : w.type = "new_unapproved_action"}} = new
             /\ \A v \in r.violations : v.type # "forbidden_action"
  <2> DEFINE file == t.contract.file
             violations == Evaluate(t.candidate, file)
  <2>1. r.violations = violations
    BY <1>2 DEF ReportOf
  <2>2. PICK amount : file = Generated(t.base, ToolOverrides, amount)
    BY <1>2 DEF ReportOf, Unreviewed
  <2> HIDE DEF file, violations
  <2>3. {a.key : a \in file.allowed \cup file.restricted} = ActionsOf(t.base) /\ file.forbidden = {}
    BY <2>2, GeneratedActions
  <2>4. /\ {v.key : v \in {w \in violations : w.type = "new_unapproved_action"}} = NewActions(t.base, t.candidate)
        /\ \A v \in violations : v.type # "forbidden_action"
    BY <2>3, ContractReportsNew DEF violations
  <2> QED
    BY <1>1, <2>1, <2>4
<1>3. ASSUME r.gates # NoFile, NEW k \in DOMAIN r.gates,
             "forbid_new_action" \in DOMAIN r.gates[k].clauses,
             r.gates[k].clauses["forbid_new_action"].selector = <<>>
      PROVE  k \in r.blocked <=> new # {}
  <2> DEFINE gates == t.gates
  <2>1. gates = r.gates /\ gates # NoFile
    BY <1>3 DEF ReportOf
  <2>2. PICK saw : r.blocked = Failed(EvaluateGates(t.candidate, gates, t.base, saw))
    BY <2>1 DEF ReportOf
  <2>3. /\ ValidGates(gates) /\ k \in DOMAIN gates
        /\ "forbid_new_action" \in DOMAIN gates[k].clauses
        /\ gates[k].clauses["forbid_new_action"].selector = <<>>
    BY <1>3, <2>1
  <2> HIDE DEF gates
  <2>4. k \in Failed(EvaluateGates(t.candidate, gates, t.base, saw)) <=> NewActions(t.base, t.candidate) # {}
    BY <2>3, GateReportsNew
  <2> QED
    BY <1>1, <2>2, <2>4
<1>4. ASSUME NEW i \in ToSet(r.candidate.interactions), ActionKey(i) \in new
      PROVE  \E c \in r.changes : c.type = "added" /\ c.candidate = i.seq
  <2>1. /\ r.changes = Compare(t.base.interactions, t.candidate.interactions, {})
        /\ i \in ToSet(t.candidate.interactions)
    BY <1>4 DEF ReportOf
  <2> QED
    BY <1>1, <1>4, <2>1, NewCallsAreAdded
<1> QED
  BY <1>2, <1>3, <1>4 DEF NewActionsReported, new

(* Where a contract comes from.  A recording takes a name that no run has   *)
(* had, so that a contract can name the latest baseline as its source only  *)
(* when it was generated from it.                                           *)
Names == {RunName(n) : n \in 1 .. recorded}
SourceInv ==
  /\ baseline # NoRun => baseline.run \in Names
  /\ contract # NoFile => contract.source \in Names
  /\ contract # NoFile /\ baseline # NoRun => Unreviewed(contract, baseline)
  /\ test.phase # "idle" /\ test.contract # NoFile => Unreviewed(test.contract, test.base)

(* Every step keeps the origin of the contract.                             *)
LEMMA SourceStep == StoredInv /\ SourceInv /\ [Next]_vars => SourceInv'
<1> SUFFICES ASSUME StoredInv, SourceInv, [Next]_vars PROVE SourceInv'
  OBVIOUS
<1>1. recorded \in 0 .. MaxChanges
  BY DEF StoredInv
<1>2. ASSUME UNCHANGED <<baseline, recorded, contract>>,
             test'.phase # "idle" /\ test'.contract # NoFile => Unreviewed(test'.contract, test'.base)
      PROVE  SourceInv'
  BY <1>2 DEF SourceInv, Names
<1>3. CASE RecordBaseline
  <2>1. recorded' = recorded + 1 /\ UNCHANGED <<contract, test>>
    BY <1>3 DEF RecordBaseline
  <2>2. recorded' \in 1 .. MaxChanges
    <3>1. recorded' \in 0 .. MaxChanges
      BY <1>3, StoredStep DEF Next, StoredInv
    <3> QED
      BY <1>1, <2>1, <3>1
  <2>3. baseline'.run = RunName(recorded')
    <3>1. PICK bundle \in Bundles : \E new \in {Imported(RunName(recorded + 1), "record", bundle)} :
                                      baseline' = new.run
      BY <1>3 DEF RecordBaseline
    <3>2. Imported(RunName(recorded + 1), "record", bundle).run.run = RunName(recorded + 1)
      BY DEF Imported, Stored
    <3> QED
      BY <2>1, <3>1, <3>2
  <2>4. Names \subseteq Names' /\ RunName(recorded') \in Names'
    BY <1>1, <2>1, <2>2 DEF Names
  <2>5. RunName(recorded') \notin Names
    <3>1. \A m, n \in 1 .. MaxChanges : RunName(m) = RunName(n) => m = n
      BY NameAssumption
    <3>2. \A n \in 1 .. recorded : n \in 1 .. MaxChanges /\ n # recorded'
      BY <1>1, <2>1, ReleaseAssumption
    <3> QED
      BY <2>2, <3>1, <3>2 DEF Names
  <2>6. contract # NoFile => contract.source \in Names' /\ contract.source # baseline'.run
    BY <2>3, <2>4, <2>5 DEF SourceInv
  <2>7. contract # NoFile => Unreviewed(contract, baseline')
    BY <2>6 DEF Unreviewed
  <2> QED
    BY <2>1, <2>3, <2>4, <2>6, <2>7 DEF SourceInv
<1>4. CASE GenerateContract
  <2>1. UNCHANGED <<baseline, recorded, test>> /\ baseline # NoRun
    BY <1>4 DEF GenerateContract
  <2>2. PICK amount : contract' = [file |-> Generated(baseline, ToolOverrides, amount),
                                    source |-> baseline.run, edits |-> 0]
    BY <1>4 DEF GenerateContract
  <2>3. contract'.source = baseline.run /\ Unreviewed(contract', baseline)
    <3> DEFINE file == Generated(baseline, ToolOverrides, amount)
    <3>1. file = Generated(baseline, ToolOverrides, amount)
      OBVIOUS
    <3> HIDE DEF file
    <3>2. contract' = [file |-> file, source |-> baseline.run, edits |-> 0]
      BY <2>2, <3>1
    <3> QED
      BY <3>1, <3>2 DEF Unreviewed
  <2>4. contract'.source \in Names' /\ baseline.run \in Names'
    BY <2>1, <2>3 DEF SourceInv, Names
  <2> QED
    BY <2>1, <2>3, <2>4 DEF SourceInv
<1>5. CASE ReviewContract
  <2>1. UNCHANGED <<baseline, recorded, test>> /\ contract # NoFile
    BY <1>5 DEF ReviewContract
  <2>2. contract'.source = contract.source /\ contract'.edits # 0
    <3>1. PICK file : contract' = [contract EXCEPT !.file = file, !.edits = @ + 1]
      BY <1>5 DEF ReviewContract
    <3>2. /\ contract = [file |-> contract.file, source |-> contract.source, edits |-> contract.edits]
          /\ contract.edits \in Nat
      BY <2>1 DEF StoredInv, ContractInv
    <3>3. contract' = [file |-> file, source |-> contract.source, edits |-> contract.edits + 1]
      BY <3>1, <3>2
    <3> QED
      BY <3>2, <3>3
  <2>3. Unreviewed(contract', baseline)
    BY <2>2 DEF Unreviewed
  <2> QED
    BY <2>1, <2>2, <2>3 DEF SourceInv, Names
<1>6. CASE TestLoad
  <2>1. UNCHANGED <<baseline, recorded, contract>>
    BY <1>6 DEF TestLoad
  <2>2. PICK gates \in GateFiles :
          IF Loadable(gates)
          THEN test' = [phase |-> "loaded", contract |-> contract, gates |-> gates, base |-> baseline]
          ELSE UNCHANGED test
    BY <1>6 DEF TestLoad
  <2>3. CASE Loadable(gates)
    <3>1. test'.contract = contract /\ test'.base = baseline /\ baseline # NoRun
      BY <2>2, <2>3 DEF Loadable
    <3> QED
      BY <1>2, <2>1, <3>1 DEF SourceInv
  <2>4. CASE ~Loadable(gates)
    BY <1>2, <2>1, <2>2, <2>4 DEF SourceInv
  <2> QED
    BY <2>3, <2>4
<1>7. CASE TestReplay
  <2>1. UNCHANGED <<baseline, recorded, contract>> /\ test.phase = "loaded"
    BY <1>7 DEF TestReplay
  <2>2. test'.contract = test.contract /\ test'.base = test.base
    BY <1>7 DEF TestReplay
  <2> QED
    BY <1>2, <2>1, <2>2 DEF SourceInv
<1>8. CASE TestReplayFails
  <2>1. UNCHANGED <<baseline, recorded, contract>> /\ test'.phase = "idle"
    BY <1>8 DEF TestReplayFails, Idle
  <2> QED
    BY <1>2, <2>1
<1>9. CASE TestJudge
  <2>1. UNCHANGED <<baseline, recorded, contract>> /\ test'.phase = "idle"
    BY <1>9 DEF TestJudge, Idle
  <2> QED
    BY <1>2, <2>1
<1>10. CASE UNCHANGED vars
  BY <1>2, <1>10 DEF vars, SourceInv
<1> QED
  BY <1>3, <1>4, <1>5, <1>6, <1>7, <1>8, <1>9, <1>10 DEF Next

(* What a test was run with: sound runs, gates it has accepted, and a       *)
(* contract that, when nobody has reviewed it, is the one of its run.       *)
TestedWith(t) ==
  /\ SoundRun(t.base) /\ SoundRun(t.candidate)
  /\ t.contract # NoFile => Unreviewed(t.contract, t.base)
  /\ t.gates # NoFile => ValidGates(t.gates)

(* Every verdict is the report of such a test.                              *)
VerdictInv == HasVerdict => \E t : TestedWith(t) /\ ReportOf(report, t)

(* Every step keeps that: a verdict is reached on what the test was run     *)
(* with.                                                                    *)
LEMMA VerdictStep == StoredInv /\ AcceptedInv /\ SourceInv /\ VerdictInv /\ [Next]_vars => VerdictInv'
<1> SUFFICES ASSUME StoredInv, AcceptedInv, SourceInv, VerdictInv, [Next]_vars PROVE VerdictInv'
  OBVIOUS
<1>1. ASSUME UNCHANGED report PROVE VerdictInv'
  BY <1>1 DEF VerdictInv, HasVerdict
<1>2. ASSUME NEW code, report' = [exit |-> code] PROVE VerdictInv'
  BY <1>2 DEF VerdictInv, HasVerdict
<1>3. CASE RecordBaseline \/ GenerateContract \/ ReviewContract
  BY <1>2, <1>3 DEF RecordBaseline, GenerateContract, ReviewContract, NoReport
<1>4. CASE TestLoad
  BY <1>2, <1>4 DEF TestLoad, NoReport
<1>5. CASE TestReplay
  BY <1>1, <1>5 DEF TestReplay
<1>6. CASE TestReplayFails
  BY <1>2, <1>6 DEF TestReplayFails
<1>7. CASE TestJudge
  <2>1. test.phase = "replayed"
    BY <1>7 DEF TestJudge
  <2>2. TestedWith(test)
    BY <2>1 DEF StoredInv, TestInv, RecordedRun, AcceptedInv, SourceInv, TestedWith
  <2>3. \/ report' = [exit |-> Configuration]
        \/ \E assertions, saw, gateSaw : report' = Judged(test, assertions, saw, gateSaw)
    BY <1>7 DEF TestJudge
  <2>4. ASSUME NEW assertions, NEW saw, NEW gateSaw, report' = Judged(test, assertions, saw, gateSaw)
        PROVE  VerdictInv'
    <3>1. ReportOf(report', test)
      BY <2>4, JudgedFields
    <3> QED
      BY <2>2, <3>1 DEF VerdictInv
  <2> QED
    BY <1>2, <2>3, <2>4
<1>8. CASE UNCHANGED vars
  BY <1>1, <1>8 DEF vars
<1> QED
  BY <1>3, <1>4, <1>5, <1>6, <1>7, <1>8 DEF Next

(* Every verdict is a report of sound runs, always.                         *)
LEMMA AlwaysVerdict == Spec => []VerdictInv
<1>1. Init => AcceptedInv /\ SourceInv /\ VerdictInv
  BY DEF Init, Idle, NoReport, AcceptedInv, SourceInv, VerdictInv, HasVerdict
<1>2. AcceptedInv /\ SourceInv /\ VerdictInv /\ StoredInv /\ [Next]_vars => (AcceptedInv /\ SourceInv /\ VerdictInv)'
  BY AcceptedStep, SourceStep, VerdictStep
<1> QED
  BY <1>1, <1>2, AlwaysStored, PTL DEF Spec

(* A contract that was generated from the baseline and the gates report as  *)
(* new what the diff reports as new, and every call of a new action is an   *)
(* added change.                                                            *)
THEOREM NewActionsAreAgreed == Spec => []NewActionsAgree
<1>1. ASSUME VerdictInv PROVE NewActionsAgree
  <2> SUFFICES ASSUME HasVerdict PROVE NewActionsReported(report)
    BY DEF NewActionsAgree, NewActionsReported
  <2>1. PICK t : TestedWith(t) /\ ReportOf(report, t)
    BY <1>1 DEF VerdictInv
  <2> QED
    BY <2>1, ReportsAgree DEF TestedWith
<1> QED
  BY <1>1, AlwaysVerdict, PTL

-----------------------------------------------------------------------------
(* What a test that passes says of the replay.                              *)

(* Calls that are paired with calls of another set are no more than those.  *)
LEMMA PairedCallsAreNoMore ==
  ASSUME NEW left, NEW right, IsList(left), IsList(right),
         NEW ones, NEW others, KeyedFrom(ones, left), KeyedFrom(others, right),
         NEW S, S \subseteq ToSet(left), NEW T, T \subseteq ToSet(right),
         \A x \in ones : x.interaction \in S => \E y \in others : x.key = y.key /\ y.interaction \in T
  PROVE  Cardinality(S) <= Cardinality(T) /\ Cardinality(S) \in Nat /\ Cardinality(T) \in Nat
<1> DEFINE entry(i) == CHOOSE x \in ones : x.interaction = i
           partner(i) == CHOOSE y \in others : entry(i).key = y.key /\ y.interaction \in T
           f == [i \in S |-> partner(i).interaction]
<1>1. IsFiniteSet(S) /\ IsFiniteSet(T)
  BY ItemsAreFinite, FS_Subset
<1>2. \A i \in S : entry(i) \in ones /\ entry(i).interaction = i
  BY DEF KeyedFrom
<1> HIDE DEF entry
<1>3. \A i \in S : partner(i) \in others /\ partner(i).key = entry(i).key /\ partner(i).interaction \in T
  BY <1>2
<1> HIDE DEF partner
<1>4. \A i, j \in S : f[i] = f[j] => i = j
  <2> SUFFICES ASSUME NEW i \in S, NEW j \in S, f[i] = f[j] PROVE i = j
    OBVIOUS
  <2>1. partner(i) = partner(j)
    BY <1>3 DEF KeyedFrom
  <2>2. entry(i) = entry(j)
    BY <1>2, <1>3, <2>1 DEF KeyedFrom
  <2> QED
    BY <1>2, <2>2
<1>5. f \in [S -> T]
  BY <1>3
<1> HIDE DEF f
<1>6. f \in Injection(S, T)
  BY <1>4, <1>5 DEF Injection, IsInjective
<1>7. Cardinality(S) <= Cardinality(T)
  BY <1>1, <1>6, FS_Injection
<1> QED
  BY <1>1, <1>7, FS_CardinalityType

(* Two runs without a failing difference: every call has its partner, which *)
(* is the same but for ignored fields and was answered no worse.            *)
Matched(old, new) ==
  /\ \A x \in old : \E y \in new : x.key = y.key
  /\ \A y \in new : \E x \in old : x.key = y.key
  /\ \A x \in old, y \in new : x.key = y.key =>
       /\ FallbackRank(y.interaction.tier) <= FallbackRank(x.interaction.tier)
       /\ Doc(x.interaction) = Doc(y.interaction)

(* Sound runs without a failing difference are such runs.                   *)
LEMMA CleanRunsMatch ==
  ASSUME NEW base, NEW candidate, SoundRun(base), SoundRun(candidate),
         Failing(Compare(base.interactions, candidate.interactions, {})) = {},
         NEW old, old = Keyed(base.interactions, {}), NEW new, new = Keyed(candidate.interactions, {})
  PROVE  KeyedFrom(old, base.interactions) /\ KeyedFrom(new, candidate.interactions) /\ Matched(old, new)
<1> DEFINE changes == Compare(base.interactions, candidate.interactions, {})
<1>1. changes = Aligned(old, new, {})
  BY DEF Compare
<1>2. \A c \in changes : ~c.failing
  BY DEF Failing
<1> HIDE DEF changes
<1>3. KeyedFrom(old, base.interactions) /\ KeyedFrom(new, candidate.interactions)
  BY KeyedItems DEF SoundRun
<1>4. ReportedFrom(changes, old, new)
  BY <1>1, AlignedReports
<1>5. ASSUME NEW x \in old, NEW y \in new, x.key = y.key
      PROVE  /\ FallbackRank(y.interaction.tier) <= FallbackRank(x.interaction.tier)
             /\ Doc(x.interaction) = Doc(y.interaction)
  <2> DEFINE b == x.interaction
             c == y.interaction
  <2>1. FallbackRank(c.tier) <= FallbackRank(b.tier) /\ Doc(b) = Decoded(c, Known(b))
    BY <1>2, <1>4, <1>5 DEF ReportedFrom
  <2>2. Identity(b, Known(b)) = Identity(c, Known(c))
    BY <1>3, <1>5 DEF KeyedFrom
  <2> HIDE DEF b, c
  <2>3. Known(b) = Known(c)
    BY <2>2, AlignedNames DEF Known
  <2> QED
    BY <2>1, <2>3 DEF Doc, b, c
<1> QED
  BY <1>2, <1>3, <1>4, <1>5 DEF ReportedFrom, Matched

(* Two such runs make the same calls, each as often, and no more of them    *)
(* are answered by a fallback that is worse than a given one.               *)
LEMMA MatchedRunsCallAlike ==
  ASSUME NEW base, NEW candidate, SoundRun(base), SoundRun(candidate),
         Failing(Compare(base.interactions, candidate.interactions, {})) = {}
  PROVE  /\ \A doc : Calls(base, doc) = Calls(candidate, doc)
         /\ \A rank \in 0 .. 3 : Worse(candidate, rank) <= Worse(base, rank)
<1> DEFINE before == base.interactions
           after == candidate.interactions
           old == Keyed(before, {})
           new == Keyed(after, {})
<1>1. KeyedFrom(old, before) /\ KeyedFrom(new, after) /\ Matched(old, new)
  <2> HIDE DEF old, new
  <2> QED
    BY CleanRunsMatch DEF old, new
<1>2. IsList(before) /\ IsList(after)
  BY DEF SoundRun
<1> HIDE DEF before, after, old, new
<1>3. ASSUME NEW doc
      PROVE  Calls(base, doc) = Calls(candidate, doc)
  <2> DEFINE S == {i \in ToSet(before) : Doc(i) = doc}
             T == {i \in ToSet(after) : Doc(i) = doc}
  <2>1. S \subseteq ToSet(before) /\ T \subseteq ToSet(after)
    OBVIOUS
  <2>2. \A x \in old : x.interaction \in S => \E y \in new : x.key = y.key /\ y.interaction \in T
    BY <1>1 DEF Matched, KeyedFrom
  <2>3. \A y \in new : y.interaction \in T => \E x \in old : y.key = x.key /\ x.interaction \in S
    BY <1>1 DEF Matched, KeyedFrom
  <2>4. Calls(base, doc) = Cardinality(S) /\ Calls(candidate, doc) = Cardinality(T)
    BY DEF Calls, Doc, Known, before, after
  <2> HIDE DEF S, T
  <2>5. Cardinality(S) <= Cardinality(T) /\ Cardinality(S) \in Nat /\ Cardinality(T) \in Nat
    BY <1>1, <1>2, <2>1, <2>2, PairedCallsAreNoMore
  <2>6. Cardinality(T) <= Cardinality(S)
    BY <1>1, <1>2, <2>1, <2>3, PairedCallsAreNoMore
  <2> QED
    BY <2>4, <2>5, <2>6
<1>4. ASSUME NEW rank \in 0 .. 3
      PROVE  Worse(candidate, rank) <= Worse(base, rank)
  <2> DEFINE S == {i \in ToSet(after) : FallbackRank(i.tier) > rank}
             T == {i \in ToSet(before) : FallbackRank(i.tier) > rank}
  <2>1. S \subseteq ToSet(after) /\ T \subseteq ToSet(before)
    OBVIOUS
  <2>2. \A y \in new : y.interaction \in S => \E x \in old : y.key = x.key /\ x.interaction \in T
    <3> SUFFICES ASSUME NEW y \in new, y.interaction \in S
                 PROVE  \E x \in old : y.key = x.key /\ x.interaction \in T
      OBVIOUS
    <3>1. PICK x \in old : x.key = y.key
      BY <1>1 DEF Matched
    <3>2. FallbackRank(y.interaction.tier) <= FallbackRank(x.interaction.tier)
      BY <1>1, <3>1 DEF Matched
    <3>3. FallbackRank(y.interaction.tier) \in 0 .. 4 /\ FallbackRank(x.interaction.tier) \in 0 .. 4
      BY FallbackRanks
    <3>4. x.interaction \in ToSet(before)
      BY <1>1 DEF KeyedFrom
    <3> QED
      BY <3>1, <3>2, <3>3, <3>4
  <2>3. Worse(candidate, rank) = Cardinality(S) /\ Worse(base, rank) = Cardinality(T)
    BY DEF Worse, before, after
  <2> HIDE DEF S, T
  <2>4. Cardinality(S) <= Cardinality(T)
    BY <1>1, <1>2, <2>1, <2>2, PairedCallsAreNoMore
  <2> QED
    BY <2>3, <2>4
<1> QED
  BY <1>3, <1>4

(* When nothing violates a contract, it allows or restricts every action.   *)
LEMMA NoViolationMeansPermitted ==
  ASSUME NEW run, NEW file, Evaluate(run, file) = {}, NEW i \in ToSet(run.interactions), Actionable(i)
  PROVE  /\ \E a \in file.allowed \cup file.restricted : a.key = ActionKey(i)
         /\ \A a \in file.forbidden : a.key # ActionKey(i)
<1> DEFINE seen == {j \in ToSet(run.interactions) : Actionable(j)}
           verdict == [j \in seen |-> Verdict(j, file)]
           bad == {j \in seen : verdict[j] # ""}
           alike(j) == {l \in bad : ActionKey(l) = ActionKey(j) /\ verdict[l] = verdict[j]}
           effect(j) == IF verdict[j] = "new_unapproved_action"
                        THEN Classify(CHOOSE l \in alike(j) : \A k \in alike(j) : l.seq <= k.seq)
                        ELSE (CHOOSE a \in Actions(file) : a.key = ActionKey(j)).effect
           violation(j) == Violation(verdict[j], ActionKey(j), effect(j), {l.seq : l \in alike(j)})
<1>1. bad = {}
  <2>1. {violation(j) : j \in bad} = {}
    BY Zenon DEF Evaluate, Violations
  <2> HIDE DEF violation, bad
  <2> QED
    BY <2>1
<1>2. Verdict(i, file) = ""
  <2>1. i \in seen /\ verdict[i] = Verdict(i, file)
    OBVIOUS
  <2> HIDE DEF seen, verdict
  <2> QED
    BY <1>1, <2>1
<1> QED
  BY <1>2 DEF Verdict

(* When a report exits with 0, the replay has done what the baseline did.   *)
LEMMA PassedIsClean ==
  ASSUME NEW t, TestedWith(t), NEW r, ReportOf(r, t), r.exit = 0
  PROVE  /\ \A doc : Calls(r.base, doc) = Calls(r.candidate, doc)
         /\ \A rank \in 0 .. 3 : Worse(r.candidate, rank) <= Worse(r.base, rank)
         /\ r.level = "low"
         /\ r.contract # NoFile =>
              \A i \in ToSet(r.candidate.interactions) : Actionable(i) =>
                /\ \E a \in r.contract.file.allowed \cup r.contract.file.restricted : a.key = ActionKey(i)
                /\ \A a \in r.contract.file.forbidden : a.key # ActionKey(i)
<1> DEFINE changes == Compare(t.base.interactions, t.candidate.interactions, {})
<1>1. r.base = t.base /\ r.candidate = t.candidate /\ r.contract = t.contract
  BY DEF ReportOf
<1>2. Failing(changes) = {} /\ r.violations = {}
  BY DEF ReportOf
<1>3. SoundRun(t.base) /\ SoundRun(t.candidate)
  BY DEF TestedWith
<1>4. /\ \A doc : Calls(t.base, doc) = Calls(t.candidate, doc)
      /\ \A rank \in 0 .. 3 : Worse(t.candidate, rank) <= Worse(t.base, rank)
  BY <1>2, <1>3, MatchedRunsCallAlike
<1> HIDE DEF changes
<1>5. NewActions(t.base, t.candidate) = {}
  <2> SUFFICES ASSUME NEW key \in NewActions(t.base, t.candidate) PROVE FALSE
    OBVIOUS
  <2>1. PICK i \in ToSet(t.candidate.interactions) : ActionKey(i) = key
    BY <1>3, ActionsOfStored DEF NewActions
  <2>2. \E c \in changes : c.failing
    BY <1>3, <2>1, NewCallsAreAdded DEF changes
  <2> QED
    BY <1>2, <2>2 DEF Failing
<1>6. r.level = "low"
  <2>1. {c.key : c \in {d \in r.diffs : d.type = "new_action"}} = {}
    BY <1>5, DiffReportsNew DEF ReportOf
  <2>2. {c.effect : c \in {d \in r.diffs : d.type = "new_action"}} = {}
    BY <2>1
  <2>3. ScoreRisk(r.diffs, r.violations) = "low"
    BY <1>2, <2>2 DEF ScoreRisk
  <2> QED
    BY <2>3 DEF ReportOf
<1>7. ASSUME r.contract # NoFile, NEW i \in ToSet(r.candidate.interactions), Actionable(i)
      PROVE  /\ \E a \in r.contract.file.allowed \cup r.contract.file.restricted : a.key = ActionKey(i)
             /\ \A a \in r.contract.file.forbidden : a.key # ActionKey(i)
  <2>1. Evaluate(t.candidate, t.contract.file) = {}
    BY <1>1, <1>2, <1>7 DEF ReportOf
  <2> QED
    BY <1>1, <1>7, <2>1, NoViolationMeansPermitted
<1> QED
  BY <1>1, <1>4, <1>6, <1>7

(* When the command exits with 0, the agent has made the calls of its       *)
(* baseline, each as often and the same but for ignored fields, no more of  *)
(* them answered by a worse fallback; the risk is low and the contract      *)
(* permits every action.                                                    *)
THEOREM PassedRunsAreClean == Spec => []PassedMeansClean
<1>1. ASSUME VerdictInv PROVE PassedMeansClean
  <2> SUFFICES ASSUME HasVerdict, report.exit = 0 PROVE PassedMeansClean
    BY DEF PassedMeansClean
  <2>1. PICK t : TestedWith(t) /\ ReportOf(report, t)
    BY <1>1 DEF VerdictInv
  <2> QED
    BY <2>1, PassedIsClean DEF PassedMeansClean
<1> QED
  BY <1>1, AlwaysVerdict, PTL
================================================================================
