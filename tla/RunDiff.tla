-------------------------------- MODULE RunDiff --------------------------------
(***************************************************************************)
(* internal/analysis/diff: the interactions of a base and a candidate run  *)
(* are aligned by what they call and how often it was called before, and   *)
(* each pair is compared without the ignored fields.                       *)
(*                                                                         *)
(* An ignored field is a path, cut into its parts: <<"events", "*",        *)
(* "t_ms">> is events[*].t_ms.                                             *)
(***************************************************************************)
EXTENDS Artifact

CONSTANT ServiceIgnored  \* service |-> its ignored request and response paths

DefaultIgnored ==
  {<<"run_id">>, <<"interaction_id">>, <<"sequence">>, <<"fallback_tier">>,
   <<"fallback_reason">>, <<"latency_ms">>,
   <<"events", "*", "t_ms">>, <<"events", "*", "sim_t_ms">>,
   <<"scrub_report", "detector_kinds">>, <<"scrub_report", "redacted_paths">>,
   <<"scrub_report", "session_salt_id">>}

(* A response field is also looked for in the data of every event.          *)
NormalizeIgnored(fields) ==
  DefaultIgnored \cup fields
    \cup {<<"events", "*", "data">> \o Tail(f) : f \in {g \in fields : Head(g) = "response" /\ Len(g) > 1}}

(* The paths of a service are relative to its request or response, unless   *)
(* they say which.                                                          *)
Relative(path, prefix) ==
  IF Head(path) = prefix \/ (Len(path) > 1 /\ Head(path) \in {"request", "response"})
  THEN path ELSE <<prefix>> \o path

IgnoredFor(service, fields) ==
  NormalizeIgnored(fields) \cup
    IF service \notin DOMAIN ServiceIgnored THEN {}
    ELSE NormalizeIgnored({Relative(p, "request") : p \in ServiceIgnored[service].request}
                            \cup {Relative(p, "response") : p \in ServiceIgnored[service].response})

(* removePath: how many parts are used up on the way to a node.  An array   *)
(* is looked through when the part names no index, only a member of an      *)
(* object is deleted, and what is below it goes with it.                    *)
Stopped == -1
Removed(doc, path, parts) ==
  LET used[k \in 0 .. Len(path)] ==
        IF k = 0 THEN 0
        ELSE LET u    == used[k - 1]
                 list == doc[SubSeq(path, 1, k - 1)] = "[]"
             IN  IF u \in {Stopped, Len(parts)} \/ (list /\ parts[u + 1] \notin Slots \cup {"*"})
                 THEN u
                 ELSE IF parts[u + 1] # path[k] /\ ~(list /\ parts[u + 1] = "*") THEN Stopped
                 ELSE IF list /\ u + 1 = Len(parts) THEN Stopped
                 ELSE u + 1
  IN  used[Len(path)] = Len(parts)

(* The whole document is an object: only a path that starts as a node's own *)
(* can lead to it.                                                          *)
Without(doc, ignored) ==
  [p \in {q \in DOMAIN doc : q = <<>> \/ \A parts \in ignored : parts[1] # q[1] \/ ~Removed(doc, q, parts)} |->
     doc[p]]

(* query.x and request.query.x name a parameter of the URL, in lower case;  *)
(* all that follows is its name, the dots in it included.                   *)
Dotted(parts) == FoldLeft(LAMBDA name, part : name \o "." \o part, Head(parts), Tail(parts))
QueryKeys(ignored) ==
  LET named(f) == IF Head(f) = "request" THEN Tail(f) ELSE f
  IN  {ToLower(Dotted(Tail(named(f)))) : f \in {g \in ignored : Len(named(g)) > 1 /\ named(g)[1] = "query"}}

(* Scheme and host are lowered, and the query becomes a bag of pairs.       *)
NormalUrl(url, keys) ==
  LET kept == SelectSeq(url.query, LAMBDA pair : pair[1] \notin keys)
  IN  [scheme |-> ToLower(url.scheme), host |-> ToLower(url.host), path |-> url.path,
       query |-> [pair \in ToSet(kept) |-> Cardinality({k \in DOMAIN kept : kept[k] = pair})]]

Identity(i, ignored) ==
  Without(Obj([service |-> Leaf(i.service), operation |-> Leaf(i.operation),
               protocol |-> Leaf(i.protocol),
               request |-> Obj([method |-> Leaf(ToUpper(i.method)),
                                url |-> Leaf(NormalUrl(i.url, QueryKeys(ignored)))])]),
          ignored)

Decoded(i, ignored) ==
  LET doc  == InteractionDoc(i)
      keys == QueryKeys(ignored)
  IN  Without(IF keys = {} THEN doc ELSE [doc EXCEPT ![<<"request", "url">>] = NormalUrl(i.url, keys)],
              ignored)

BySequence(items) ==
  LET order == Ascending([k \in DOMAIN items |-> items[k].seq])
  IN  [k \in DOMAIN order |-> items[order[k]]]

(* The key of an interaction: its identity, and how often it has occurred.  *)
Keyed(items, fields) ==
  LET Numbered(sorted, ids) ==
        {[key |-> <<ids[k], Cardinality({j \in 1 .. k : ids[j] = ids[k]})>>, interaction |-> sorted[k]] :
           k \in DOMAIN sorted}
      identities(sorted) ==
        [k \in DOMAIN sorted |-> Identity(sorted[k], IgnoredFor(sorted[k].service, fields))]
      InOrder(sorted) == Numbered(sorted, identities(sorted))
  IN  InOrder(BySequence(items))

FallbackRank(tier) ==
  CASE tier \in {"", "exact"} -> 0
    [] tier = "nearest_neighbor" -> 1
    [] tier = "state_synthesis" -> 2
    [] tier = "llm_synthesis" -> 3
    [] OTHER -> 4

Change(type, failing, base, candidate, paths) ==
  [type |-> type, failing |-> failing, base |-> base, candidate |-> candidate, paths |-> paths]

(* Two documents differ first at the paths where only one has a node, where *)
(* the nodes differ, or where two arrays have different lengths.            *)
DifferingPaths(left, right) ==
  LET differ(p) == \/ p \notin DOMAIN left \cap DOMAIN right
                   \/ left[p] # right[p]
                   \/ p # <<"request", "url">> /\ left[p] = "[]"
                        /\ Cardinality(Members(left, p)) # Cardinality(Members(right, p))
      all == DOMAIN left \cup DOMAIN right
  IN  {p \in all : differ(p) /\ \A k \in 0 .. (Len(p) - 1) : ~differ(SubSeq(p, 1, k))}

When(condition, change) == IF condition THEN {change} ELSE {}

(* Mutation: the tiers are compared the wrong way round.                    *)
PairChangesSwapped(b, c, left, right) ==
  When(FallbackRank(c.tier) < FallbackRank(b.tier),
       Change("fallback_regression", TRUE, b.seq, c.seq, {}))
    \cup When(left # right, Change("modified", TRUE, b.seq, c.seq, DifferingPaths(left, right)))

PairChanges(b, c, left, right) ==
  When(b.seq # c.seq, Change("ordering_changed", FALSE, b.seq, c.seq, {}))
    \cup When(FallbackRank(c.tier) > FallbackRank(b.tier),
              Change("fallback_regression", TRUE, b.seq, c.seq, {}))
    \cup When(left # right, Change("modified", TRUE, b.seq, c.seq, DifferingPaths(left, right)))

(* Compare: what was added, what was removed, and what changed in a pair.   *)
Aligned(old, new, fields) ==
  LET doc(i, service) == Decoded(i, IgnoredFor(service, fields))
      both == {pair \in old \X new : pair[1].key = pair[2].key}
      changes(b, c) == PairChanges(b, c, doc(b, b.service), doc(c, b.service))
  IN  {Change("removed", TRUE, b.interaction.seq, 0, {}) :
         b \in {x \in old : \A y \in new : x.key # y.key}}
      \cup {Change("added", TRUE, 0, c.interaction.seq, {}) :
              c \in {y \in new : \A x \in old : x.key # y.key}}
      \cup UNION {changes(pair[1].interaction, pair[2].interaction) : pair \in both}
Compare(base, candidate, fields) == Aligned(Keyed(base, fields), Keyed(candidate, fields), fields)

Failing(changes) == {c \in changes : c.failing}
===============================================================================
