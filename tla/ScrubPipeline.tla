----------------------------- MODULE ScrubPipeline -----------------------------
(***************************************************************************)
(* internal/scrub: what is taken out of an interaction before it is        *)
(* stored.  A rule drops, masks, hashes or preserves what stands at the    *)
(* paths of its pattern; where no rule decides, a text that a detector     *)
(* knows is replaced by its hash, and a number or a boolean is left as it  *)
(* is.  A text stands for all that a detector finds in it; hashes are      *)
(* those of one session's salt.                                            *)
(***************************************************************************)
EXTENDS Artifact

CONSTANTS
  Detected,    \* the kinds that the detectors find in a text
  Emails       \* the texts that look like an e-mail address

RuleActions == {"drop", "mask", "hash", "preserve"}
Rule(name, pattern, action) == [name |-> name, pattern |-> pattern, action |-> action]

DefaultRules ==
  LET request == <<"authorization", "proxy-authorization", "cookie", "idempotency-key",
                   "set-cookie", "x-api-key">>
      response == <<"authorization", "proxy-authorization", "set-cookie", "x-api-key">>
      drop(side, header) == Rule(side \o "-" \o header \o "-header", <<side, "headers", header>>, "drop")
  IN  [k \in DOMAIN request |-> drop("request", request[k])]
        \o [k \in DOMAIN response |-> drop("response", response[k])]

(* Header names in a pattern are lowered.                                   *)
NormalPattern(pattern) ==
  IF Len(pattern) > 2 /\ ToLower(pattern[1]) \in {"request", "response"} /\ ToLower(pattern[2]) = "headers"
  THEN [k \in DOMAIN pattern |-> ToLower(pattern[k])] ELSE pattern

NormalRules(rules) == [k \in DOMAIN rules |-> [rules[k] EXCEPT !.pattern = NormalPattern(@)]]

(* MergeRules: a custom rule has a name and a pattern that nobody else has. *)
MergeOk(custom) ==
  LET rules == DefaultRules \o NormalRules(custom)
  IN  \A k \in DOMAIN rules :
        /\ rules[k].name # "" /\ rules[k].pattern # <<>> /\ rules[k].action \in RuleActions
        /\ \A j \in 1 .. (k - 1) : rules[j].name # rules[k].name /\ rules[j].pattern # rules[k].pattern
Merged(custom) == DefaultRules \o NormalRules(custom)

(* "*" stands for one name, "[*]" for one index.                            *)
Fits(pattern, path) ==
  /\ Len(pattern) = Len(path)
  /\ \A k \in DOMAIN path :
       \/ pattern[k] = path[k]
       \/ pattern[k] = "*" /\ path[k] \notin Slots
       \/ pattern[k] = "[*]" /\ path[k] \in Slots

(* The length of a pattern without its stars.                               *)
Specificity(pattern) ==
  FoldLeft(LAMBDA n, part : n + (CASE part = "*" -> 1 [] part = "[*]" -> 2
                                   [] part \in Slots -> 3 [] OTHER -> Len(part) + 1),
           0, pattern)

NoRule == 0
RuleFor(rules, path) ==
  LET fit == {k \in DOMAIN rules : Fits(rules[k].pattern, path)}
  IN  IF fit = {} THEN NoRule
      ELSE CHOOSE k \in fit : \A j \in fit :
             LET mine == Specificity(rules[k].pattern)
                 other == Specificity(rules[j].pattern)
             IN  mine > other \/ (mine = other /\ k >= j)

Hash(text) == IF text \in Emails THEN "user_" \o text \o "@scrub.local" ELSE "hash_" \o text
(* However many are masked, "****" stands for them.                         *)
Mask(text) == IF Len(text) <= 4 THEN SubSeq("****", 1, Len(text)) ELSE "****" \o SubSeq(text, Len(text) - 3, Len(text))
(* The detectors scan texts: what they find in a leaf, which is nothing in  *)
(* a number or a boolean, whatever its digits are.                          *)
Kinds(leaf) == IF leaf \in DOMAIN Detected \ DOMAIN Literals THEN Detected[leaf] ELSE {}
(* A rule masks or hashes the text of a literal, and a text it becomes.     *)
Changed(action, leaf) ==
  CASE action = "mask" -> Mask(Text(leaf))
    [] action = "hash" -> Hash(Text(leaf))
    [] action = "preserve" -> leaf
    [] action = "detect" -> (IF Kinds(leaf) = {} THEN leaf ELSE Hash(leaf))

Scrubbed(doc, paths, kinds, ok) == [doc |-> doc, paths |-> paths, kinds |-> kinds, ok |-> ok]

(* What is done at a path: what its rule says, or what the detectors find.  *)
ActionAt(rules, path) ==
  LET NameOf(k) == IF k = NoRule THEN "detect" ELSE rules[k].action
  IN  NameOf(RuleFor(rules, path))

(* The items that are left of an array close up.                            *)
Closed(doc, kept) ==
  LET nth(p, k) ==
        Cardinality({n \in 0 .. 9 : /\ SubSeq(p, 1, k - 1) \o <<Slot(n)>> \in kept
                                    /\ \E m \in 0 .. 9 : Slot(m) = p[k] /\ n < m})
      moved(p) == [k \in DOMAIN p |-> IF doc[SubSeq(p, 1, k - 1)] = "[]" THEN Slot(nth(p, k)) ELSE p[k]]
      Placed(at) == [q \in {at[p] : p \in kept} |-> doc[CHOOSE p \in kept : at[p] = q]]
  IN  Placed([p \in kept |-> moved(p)])

(* The first rule on the way to a node decides for all that is below it,    *)
(* and null has no rule: where each node's action comes from, and what it   *)
(* is.                                                                      *)
Undecided == -1
Decisions(rules, prefix, doc) ==
  LET ruling(p) == IF doc[p] = "null" THEN "detect" ELSE ActionAt(rules, prefix \o p)
      Decide(own) ==
        LET ruled == {p \in DOMAIN doc : own[p] # "detect"}
            above(p) == {k \in 0 .. Len(p) : SubSeq(p, 1, k) \in ruled}
        IN  [p \in DOMAIN doc |->
               IF above(p) = {} THEN [at |-> Undecided, action |-> "detect"]
               ELSE [at |-> Min(above(p)), action |-> own[SubSeq(p, 1, Min(above(p)))]]]
  IN  Decide([p \in DOMAIN doc |-> ruling(p)])

(* A mask or a hash takes a scalar or a list of scalars.                    *)
Decided(prefix, doc, how) ==
  LET kept == {p \in DOMAIN doc : how[p].action # "drop"}
      object(p) == doc[p] \in {"{}", "[]"}
      new == [p \in DOMAIN doc |->
                IF object(p) \/ doc[p] = "null" THEN doc[p] ELSE Changed(how[p].action, doc[p])]
      touched == {p \in DOMAIN doc : how[p].at = Len(p) /\ how[p].action \in {"drop", "mask", "hash"}}
      found == {p \in kept : how[p].action = "detect" /\ ~object(p) /\ Kinds(doc[p]) # {}}
      sound(p) == \/ how[p].action \notin {"mask", "hash"}
                  \/ doc[p] # "null" /\ ~object(p)
                  \/ doc[p] = "[]" /\ how[p].at = Len(p)
  IN  Scrubbed(Closed(new, kept), {prefix \o p : p \in touched \cup found},
               UNION {Kinds(doc[p]) : p \in found},
               \A p \in DOMAIN doc : sound(p))

ScrubValue(rules, prefix, doc) == Decided(prefix, doc, Decisions(rules, prefix, doc))

(* A header's rule takes all its values; a header block that is left empty  *)
(* is gone.                                                                 *)
ScrubHeaders(rules, side, doc) ==
  LET path(name) == <<side, "headers", ToLower(name)>>
      Apply(action) ==
        LET kept == {p \in DOMAIN doc : p = <<>> \/ action[Head(p)] # "drop"}
            found == {p \in kept : Len(p) = 2 /\ action[Head(p)] = "detect" /\ Kinds(doc[p]) # {}}
            touched == {name \in DOMAIN action : action[name] \in {"drop", "mask", "hash"}}
        IN  Scrubbed(IF kept \subseteq {<<>>} THEN Absent
                     ELSE [p \in kept |-> IF Len(p) = 2 THEN Changed(action[Head(p)], doc[p]) ELSE doc[p]],
                     {path(name) : name \in touched \cup {Head(p) : p \in found}},
                     UNION {Kinds(doc[p]) : p \in found}, TRUE)
  IN  Apply([name \in {Head(p) : p \in DOMAIN doc \ {<<>>}} |-> ActionAt(rules, path(name))])

(* A query that no rule and no detector touches is left as it stands; any   *)
(* other is written anew, key by key.                                       *)
KeyOrder(keys) == CHOOSE f \in [keys -> 1 .. Cardinality(keys)] : IsInjective(f)
ScrubQuery(rules, url) ==
  LET path(key) == <<"request", "query", key>>
      Apply(action) ==
        LET found == {pair \in ToSet(url.query) : action[pair[1]] = "detect" /\ Kinds(pair[2]) # {}}
            ruled == {key \in DOMAIN action : action[key] # "detect"}
            kept == {n \in DOMAIN url.query : action[url.query[n][1]] # "drop"}
            order == KeyOrder({url.query[n][1] : n \in kept})
            Written(list) == [k \in DOMAIN list |->
                                LET pair == url.query[list[k]]
                                IN  <<pair[1], Changed(action[pair[1]], pair[2])>>]
        IN  Scrubbed(IF ruled = {} /\ found = {} THEN url
                     ELSE [url EXCEPT !.query = Written(Ascending([n \in kept |-> order[url.query[n][1]]]))],
                     {path(key) : key \in {k \in ruled : action[k] # "preserve"} \cup {pair[1] : pair \in found}},
                     UNION {Kinds(pair[2]) : pair \in found}, TRUE)
  IN  Apply([key \in {pair[1] : pair \in ToSet(url.query)} |-> ActionAt(rules, path(key))])

(* The headers of a response, each a list; null and absent are no headers.  *)
(* Their values are texts, of which fmt.Sprint makes the same texts.        *)
HeaderLists(doc) ==
  IF doc = Absent \/ doc[<<>>] # "{}" THEN Absent
  ELSE LET single == {p \in DOMAIN doc : Len(p) = 1 /\ doc[p] # "[]"}
       IN  [p \in DOMAIN doc \cup {q \o <<Slot(0)>> : q \in single} |->
              CASE Len(p) = 0 -> "{}" [] Len(p) = 1 -> "[]"
                [] OTHER -> IF p \in DOMAIN doc THEN doc[p] ELSE doc[Front(p)]]

(* Mutation: the headers of a response are left as they are.                *)
JoinedKeepsHeaders(given, headers, rest) ==
  Scrubbed(Both(IF rest.doc = Absent THEN Leaf("{}") ELSE rest.doc,
                [p \in {<<"headers">> \o q : q \in DOMAIN given} |-> given[Tail(p)]]),
           rest.paths, rest.kinds, rest.ok)

(* Headers that are all dropped leave a null.                               *)
Joined(given, headers, rest) ==
  LET left == IF headers.doc = Absent THEN Leaf("null") ELSE headers.doc
  IN  Scrubbed(IF given = Absent THEN rest.doc
               ELSE Both(IF rest.doc = Absent THEN Leaf("{}") ELSE rest.doc,
                         [p \in {<<"headers">> \o q : q \in DOMAIN left} |-> left[Tail(p)]]),
               headers.paths \cup rest.paths, headers.kinds \cup rest.kinds,
               rest.ok /\ (given = Absent \/ given[<<>>] \in {"{}", "null"}))

(* The data of an event: its headers are those of the response, the rest    *)
(* stands below events[n].data.                                             *)
ResponseHeaders(data) == HeaderLists(Under(data, <<"headers">>))
BesideHeaders(data) == [p \in {q \in DOMAIN data : ~IsPrefix(<<"headers">>, q)} |-> data[p]]
ScrubData(rules, n, data) ==
  IF data = Absent THEN Scrubbed(Absent, {}, {}, TRUE)
  ELSE Joined(Under(data, <<"headers">>), ScrubHeaders(rules, "response", ResponseHeaders(data)),
              ScrubValue(rules, <<"events", Slot(n), "data">>, BesideHeaders(data)))

(* Mutation: the scrub report stays that of the capture.                    *)
AssembledKeepsReport(i, policy, salt, headers, url, body, data) ==
  LET parts == {headers, body} \cup ToSet(data)
  IN  [ok |-> \A r \in parts : r.ok,
       interaction |->
         [i EXCEPT !.headers = headers.doc, !.url = url.doc, !.body = body.doc,
                   !.events = [k \in DOMAIN @ |-> [@[k] EXCEPT !.data = data[k].doc]]]]

(* ScrubInteraction, under a policy and a salt.                             *)
Assembled(i, policy, salt, headers, url, body, data) ==
  LET parts == {headers, body} \cup ToSet(data)
  IN  [ok |-> \A r \in parts : r.ok,
       interaction |->
         [i EXCEPT !.headers = headers.doc, !.url = url.doc, !.body = body.doc,
                   !.events = [k \in DOMAIN @ |-> [@[k] EXCEPT !.data = data[k].doc]],
                   !.redacted = url.paths \cup UNION {r.paths : r \in parts},
                   !.kinds = url.kinds \cup UNION {r.kinds : r \in parts},
                   !.policy = policy, !.salt = salt]]
ScrubInteraction(rules, policy, salt, i) ==
  Assembled(i, policy, salt, ScrubHeaders(rules, "request", i.headers), ScrubQuery(rules, i.url),
            ScrubValue(rules, <<"request", "body">>, i.body),
            [k \in DOMAIN i.events |-> ScrubData(rules, k - 1, i.events[k].data)])

(* The texts and literals of an interaction, those of them that a rule      *)
(* preserves, and what may stand where they have been.                      *)
Leaves(doc) == {doc[p] : p \in DOMAIN doc}
TextsOf(i) ==
  Leaves(i.headers) \cup Leaves(i.body) \cup {pair[2] : pair \in ToSet(i.url.query)}
    \cup UNION {Leaves(i.events[k].data) : k \in DOMAIN i.events}

PreservedHeaders(rules, side, doc) ==
  {doc[p] : p \in {q \in DOMAIN doc \ {<<>>} : ActionAt(rules, <<side, "headers", ToLower(Head(q))>>) = "preserve"}}
PreservedQuery(rules, url) ==
  {pair[2] : pair \in {q \in ToSet(url.query) : ActionAt(rules, <<"request", "query", q[1]>>) = "preserve"}}
PreservedBelow(rules, prefix, doc) ==
  LET Where(how) == {doc[p] : p \in {q \in DOMAIN doc : how[q].action = "preserve"}}
  IN  Where(Decisions(rules, prefix, doc))
PreservedData(rules, n, data) ==
  PreservedHeaders(rules, "response", ResponseHeaders(data))
    \cup PreservedBelow(rules, <<"events", Slot(n), "data">>, BesideHeaders(data))
Preserved(rules, i) ==
  PreservedHeaders(rules, "request", i.headers) \cup PreservedQuery(rules, i.url)
    \cup PreservedBelow(rules, <<"request", "body">>, i.body)
    \cup UNION {PreservedData(rules, k - 1, i.events[k].data) : k \in DOMAIN i.events}

Marks == {"{}", "[]", "null"}
Replaced(texts) ==
  LET all == texts \cup Marks
  IN  all \cup {Hash(Text(leaf)) : leaf \in all} \cup {Mask(Text(leaf)) : leaf \in all}
===============================================================================
