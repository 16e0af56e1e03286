------------------------------- MODULE Artifact -------------------------------
(***************************************************************************)
(* Recorded runs as the analyses read them: internal/recorder/schema.go    *)
(* and runtime/replay/exact.go.  A JSON value is a function from the paths *)
(* of its nodes to what stands there: "{}" for an object, "[]" for an      *)
(* array, "null", a text, or a literal for a number or a boolean: "#5" is  *)
(* the number that the text "5" is not.  The items of an array stand under *)
(* "[0]", "[1]", ...; an absent value has no node at all.  A URL is a      *)
(* record of its scheme, its host (with no port and no user), its path     *)
(* and its query, a sequence of key and value pairs.                       *)
(***************************************************************************)
EXTENDS Integers, SequencesExt

CONSTANTS
  Lowered,    \* the lower case of the texts that have one of their own
  Uppered,    \* the upper case, likewise
  Literals    \* the literals that are captured: the text fmt.Sprint makes of each

ToLower(text) == IF text \in DOMAIN Lowered THEN Lowered[text] ELSE text
ToUpper(text) == IF text \in DOMAIN Uppered THEN Uppered[text] ELSE text

(* fmt.Sprint of a leaf, and the literal of a number.                       *)
Text(leaf) == IF leaf \in DOMAIN Literals THEN Literals[leaf] ELSE leaf
Numeral(n) == "#" \o ToString(n)

(* One map over another: what both set is the first one's.                  *)
Both(f, g) == [field \in DOMAIN f \cup DOMAIN g |-> IF field \in DOMAIN f THEN f[field] ELSE g[field]]

(* sort.SliceStable: the numbers of a list's items in the order of their    *)
(* ranks, equal ones as they stand.                                         *)
Ascending(rank) ==
  LET place == [n \in DOMAIN rank |->
                  Cardinality({m \in DOMAIN rank : rank[m] < rank[n] \/ (rank[m] = rank[n] /\ m <= n)})]
  IN  [k \in 1 .. Cardinality(DOMAIN rank) |-> CHOOSE n \in DOMAIN rank : place[n] = k]

Slot(n) == "[" \o ToString(n) \o "]"
Slots == {Slot(n) : n \in 0 .. 9}

Absent == [p \in {} |-> ""]
Leaf(value) == [p \in {<<>>} |-> value]
Given(value) == IF value = "" THEN Absent ELSE Leaf(value)

Node(kind, children) ==
  [p \in {<<>>} \cup UNION {{<<k>> \o q : q \in DOMAIN children[k]} : k \in DOMAIN children} |->
     IF p = <<>> THEN kind ELSE children[Head(p)][Tail(p)]]
Obj(fields) == Node("{}", fields)
Arr(items) == Node("[]", [k \in {Slot(i - 1) : i \in DOMAIN items} |->
                            items[CHOOSE i \in DOMAIN items : Slot(i - 1) = k]])
Omit(fields) == IF fields = Absent \/ DOMAIN fields = {<<>>} THEN Absent ELSE fields

Under(doc, prefix) ==
  LET below == {p \in DOMAIN doc : IsPrefix(prefix, p)}
  IN  [q \in {SubSeq(p, Len(prefix) + 1, Len(p)) : p \in below} |-> doc[prefix \o q]]
Members(doc, path) == {Last(p) : p \in {q \in DOMAIN doc : q # <<>> /\ Front(q) = path}}

Texts(set) == LET list == SetToSeq(set) IN Arr([k \in DOMAIN list |-> Leaf(ToString(list[k]))])

EventDoc(e) ==
  Obj([sequence |-> Leaf(Numeral(e.seq)), t_ms |-> Leaf(Numeral(e.t)),
       sim_t_ms |-> Leaf(Numeral(e.sim)), type |-> Leaf(e.type), data |-> Omit(e.data),
       nested_interaction_id |-> Given(e.nested)])

(* json.Marshal of an interaction: empty optional fields are left out.      *)
InteractionDoc(i) ==
  Obj([run_id |-> Leaf(i.run), interaction_id |-> Leaf(i.id),
       parent_interaction_id |-> Given(i.parent), sequence |-> Leaf(Numeral(i.seq)),
       service |-> Leaf(i.service), operation |-> Leaf(i.operation),
       protocol |-> Leaf(i.protocol), fallback_tier |-> Given(i.tier),
       request |-> Obj([url |-> Leaf(i.url), method |-> Leaf(i.method),
                        headers |-> Omit(i.headers), body |-> i.body]),
       events |-> Arr([k \in DOMAIN i.events |-> EventDoc(i.events[k])]),
       scrub_report |-> Obj([redacted_paths |-> Omit(Texts(i.redacted)),
                             detector_kinds |-> Omit(Texts(i.kinds)),
                             scrub_policy_version |-> Leaf(i.policy),
                             session_salt_id |-> Leaf(i.salt)]),
       latency_ms |-> IF i.latency = 0 THEN Absent ELSE Leaf(Numeral(i.latency))])

(* A list of any items, and what the fields of a captured interaction hold: *)
(* request headers are lists of texts, the data of an event is an object,   *)
(* and its headers are texts and lists of texts.  The SDKs capture a tool's *)
(* call under one service.                                                  *)
IsList(s) == s \in Seq(ToSet(s))
IsHeaders(doc) == \A p \in DOMAIN doc : IsList(p) /\ (Len(p) # 2 => doc[p] \in {"{}", "[]"})
IsData(doc) ==
  \/ doc = Absent
  \/ /\ <<>> \in DOMAIN doc /\ doc[<<>>] = "{}"
     /\ \A p \in DOMAIN doc : IsList(p) /\ (Len(p) > 3 => p[1] # "headers")
IsInteraction(i) ==
  /\ DOMAIN i = {"run", "id", "parent", "seq", "service", "operation", "protocol", "tier", "url", "method",
                 "headers", "body", "events", "redacted", "kinds", "policy", "salt", "latency"}
  /\ i.seq \in Int /\ IsHeaders(i.headers)
  /\ DOMAIN i.url = {"scheme", "host", "path", "query"} /\ IsList(i.url.query)
  /\ IsList(i.events)
  /\ \A k \in DOMAIN i.events :
       /\ DOMAIN i.events[k] = {"seq", "t", "sim", "type", "data", "nested"}
       /\ IsData(i.events[k].data)
  /\ i.protocol = "tool" => i.service = "stagehand.tool"

Modes == {"record", "replay", "hybrid", "passthrough"}
Protocols == {"http", "https", "sse", "websocket", "postgres", "tool"}
Tiers == {"exact", "nearest_neighbor", "state_synthesis", "llm_synthesis"}
Terminal == {"response_received", "error", "timeout", "stream_end"}

ValidEvent(e) == e.seq > 0 /\ e.t >= 0 /\ e.sim >= 0 /\ e.type # ""
ValidRequest(i) == i.url.scheme \o i.url.host \o i.url.path # "" /\ i.method # "" /\ "" \notin Members(i.headers, <<>>)
ValidScrubReport(i, policy) ==
  /\ i.policy # "" /\ (policy # "" => i.policy = policy)
  /\ i.salt # ""

(* Event sequences increase, times do not decrease, and the last event ends *)
(* the exchange.                                                            *)
ValidEvents(events) ==
  /\ events # <<>> /\ Last(events).type \in Terminal
  /\ \A k \in DOMAIN events : ValidEvent(events[k])
  /\ \A k \in 2 .. Len(events) :
       /\ events[k - 1].seq < events[k].seq
       /\ events[k - 1].t <= events[k].t /\ events[k - 1].sim <= events[k].sim

ValidInteraction(i, run, policy) ==
  /\ i.run # "" /\ (run # "" => i.run = run)
  /\ i.id # "" /\ i.parent # i.id
  /\ i.seq > 0 /\ i.service # "" /\ i.operation # "" /\ i.latency >= 0
  /\ i.protocol \in Protocols /\ i.tier \in Tiers \cup {""}
  /\ ValidRequest(i) /\ ValidEvents(i.events) /\ ValidScrubReport(i, policy)

ValidRun(r) ==
  /\ "" \notin {r.run, r.session, r.policy}
  /\ r.mode \in Modes
  /\ \/ r.status = "complete" /\ r.ended /\ r.issues = {}
     \/ r.status \in {"incomplete", "corrupted"} /\ r.issues # {}
  /\ \A k \in DOMAIN r.interactions :
       /\ ValidInteraction(r.interactions[k], r.run, r.policy)
       /\ \A j \in 1 .. (k - 1) :
            /\ r.interactions[j].id # r.interactions[k].id
            /\ r.interactions[j].seq < r.interactions[k].seq

ReplayEligible(r) == r.status = "complete"

(* SummarizeExactSource: a run that is not complete is refused; services    *)
(* and tiers are listed in the order they are first seen.                   *)
Distinct(seq) == FoldLeft(LAMBDA seen, x : IF Contains(seen, x) THEN seen ELSE Append(seen, x),
                          <<>>, seq)
ExactSummary(r) ==
  IF ~ReplayEligible(r) THEN [ok |-> FALSE, services |-> <<>>, tiers |-> <<>>]
  ELSE [ok |-> TRUE,
        services |-> Distinct([k \in DOMAIN r.interactions |-> r.interactions[k].service]),
        tiers |-> Distinct(SelectSeq([k \in DOMAIN r.interactions |-> r.interactions[k].tier],
                                     LAMBDA t : t # ""))]
===============================================================================
