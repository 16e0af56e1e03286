-------------------------- MODULE ScrubPipelineProofs --------------------------
(***************************************************************************)
(* What scrubbing leaves of a text, for every set of rules and every       *)
(* interaction: a text stays only where no detector finds anything in it   *)
(* or where a rule preserves it, and an interaction stays one.  Numbers    *)
(* and booleans may always stay.                                           *)
(***************************************************************************)
EXTENDS ScrubPipeline, SequenceTheorems, FiniteSetTheorems, WellFoundedInduction, TLAPS

-----------------------------------------------------------------------------
(* Least and greatest elements, lists, and the stable sort.                 *)

(* A set of natural numbers that is not empty has a least element.          *)
LEMMA LeastElement ==
  ASSUME NEW T, T \subseteq Nat, T # {}
  PROVE  \E n \in T : \A m \in T : n <= m
<1>1. PICK n \in T : \A m \in T : ~ (<<m, n>> \in OpToRel(<, Nat))
  BY NatLessThanWellFounded, WFMin, Zenon
<1>2. \A m \in T : ~ (m < n)
  BY <1>1 DEF OpToRel
<1> QED BY <1>2

(* The least element of such a set is in it.                                *)
LEMMA MinIsIn ==
  ASSUME NEW T, T \subseteq Nat, T # {}
  PROVE  Min(T) \in T /\ \A m \in T : Min(T) <= m
BY LeastElement DEF Min

(* A list is a function on the first natural numbers.                       *)
LEMMA ListIsFunction ==
  ASSUME NEW s, IsList(s)
  PROVE  /\ Len(s) \in Nat /\ DOMAIN s = 1 .. Len(s) /\ s \in Seq(ToSet(s))
         /\ IsFiniteSet(DOMAIN s)
<1>1. s \in Seq(ToSet(s))
  BY DEF IsList
<1>2. Len(s) \in Nat /\ DOMAIN s = 1 .. Len(s)
  BY <1>1, LenProperties
<1> QED
  BY <1>1, <1>2, FS_Interval

(* A function on the first natural numbers is a list.                       *)
LEMMA FunctionIsList ==
  ASSUME NEW n \in Nat, NEW s, s = [k \in 1 .. n |-> s[k]]
  PROVE  IsList(s) /\ Len(s) = n
<1>1. \A k \in 1 .. n : s[k] \in ToSet(s)
  BY DEF ToSet
<1>2. s \in [1 .. n -> ToSet(s)]
  BY <1>1
<1>3. s \in Seq(ToSet(s))
  BY <1>2
<1> QED
  BY <1>2, <1>3, LenProperties DEF IsList

(* An injection between sets of the same finite size meets every element.   *)
LEMMA InjectionMeetsAll ==
  ASSUME NEW S, NEW T, IsFiniteSet(T), NEW f \in [S -> T],
         \A x, y \in S : f[x] = f[y] => x = y, Cardinality(S) = Cardinality(T)
  PROVE  \A t \in T : \E x \in S : f[x] = t
<1>1. f \in Injection(S, T)
  BY DEF Injection, IsInjective
<1>2. f \in Surjection(S, T)
  BY <1>1, FS_Injection
<1> QED
  BY <1>2 DEF Surjection

(* The image of a finite set is finite.                                     *)
LEMMA ImageIsFinite ==
  ASSUME NEW f, IsFiniteSet(DOMAIN f)
  PROVE  IsFiniteSet({f[x] : x \in DOMAIN f})
<1> DEFINE T == {f[x] : x \in DOMAIN f}
           g == [x \in DOMAIN f |-> f[x]]
<1>1. g \in Surjection(DOMAIN f, T)
  BY DEF Surjection
<1> QED
  BY <1>1, FS_Surjection

(* The stable sort lists every number once, the least ranks first.          *)
LEMMA AscendingSorts ==
  ASSUME NEW rank, IsFiniteSet(DOMAIN rank), DOMAIN rank \subseteq Int,
         \A n \in DOMAIN rank : rank[n] \in Int
  PROVE  LET p == Ascending(rank)
         IN  /\ Cardinality(DOMAIN rank) \in Nat
             /\ p \in [1 .. Cardinality(DOMAIN rank) -> DOMAIN rank]
             /\ \A j, k \in DOMAIN p : p[j] = p[k] => j = k
             /\ \A n \in DOMAIN rank : \E k \in DOMAIN p : p[k] = n
<1> DEFINE D == DOMAIN rank
           size == Cardinality(D)
           upTo(n) == {m \in D : rank[m] < rank[n] \/ (rank[m] = rank[n] /\ m <= n)}
           place == [n \in D |-> Cardinality(upTo(n))]
           p == Ascending(rank)
<1>1. size \in Nat
  BY FS_CardinalityType
<1>2. ASSUME NEW n \in D
      PROVE  /\ IsFiniteSet(upTo(n)) /\ n \in upTo(n)
             /\ Cardinality(upTo(n)) \in 1 .. size
  <2>1. upTo(n) \in SUBSET D /\ n \in upTo(n)
    OBVIOUS
  <2>2. IsFiniteSet(upTo(n)) /\ Cardinality(upTo(n)) <= size
    BY <2>1, FS_Subset
  <2>3. Cardinality(upTo(n)) \in Nat /\ Cardinality(upTo(n)) # 0
    BY <2>1, <2>2, FS_CardinalityType, FS_EmptySet
  <2> QED
    BY <1>1, <2>1, <2>2, <2>3
<1>3. place \in [D -> 1 .. size]
  BY <1>2
<1>4. ASSUME NEW m \in D, NEW n \in D, m # n, n \notin upTo(m)
      PROVE  place[m] < place[n]
  <2>1. upTo(m) \in SUBSET upTo(n) /\ n \in upTo(n)
    BY <1>4
  <2>2. /\ Cardinality(upTo(m)) <= Cardinality(upTo(n))
        /\ Cardinality(upTo(m)) = Cardinality(upTo(n)) => upTo(m) = upTo(n)
    BY <1>2, <2>1, FS_Subset
  <2>3. place[m] = Cardinality(upTo(m)) /\ place[n] = Cardinality(upTo(n))
    OBVIOUS
  <2>4. Cardinality(upTo(m)) \in 1 .. size /\ Cardinality(upTo(n)) \in 1 .. size
    BY <1>2
  <2> HIDE DEF upTo
  <2>5. upTo(m) # upTo(n)
    BY <1>4, <2>1
  <2> QED
    BY <2>2, <2>3, <2>4, <2>5, <1>1
<1>5. \A m, n \in D : place[m] = place[n] => m = n
  <2> SUFFICES ASSUME NEW m \in D, NEW n \in D, m # n PROVE place[m] # place[n]
    OBVIOUS
  <2>1. n \notin upTo(m) \/ m \notin upTo(n)
    OBVIOUS
  <2>2. place[m] \in 1 .. size /\ place[n] \in 1 .. size
    BY <1>3
  <2> HIDE DEF place, upTo
  <2> QED
    BY <1>4, <2>1, <2>2, <1>1
<1>6. Cardinality(1 .. size) = size /\ IsFiniteSet(1 .. size)
  BY <1>1, FS_Interval
<1>7. \A k \in 1 .. size : \E n \in D : place[n] = k
  <2>1. Cardinality(D) = Cardinality(1 .. size)
    BY <1>6
  <2> HIDE DEF place, D, size
  <2> DEFINE T == 1 .. size
  <2>2. place \in [D -> T] /\ IsFiniteSet(T) /\ Cardinality(D) = Cardinality(T)
    BY <1>3, <1>6, <2>1
  <2> HIDE DEF T
  <2>3. \A t \in T : \E n \in D : place[n] = t
    BY <1>5, <2>2, InjectionMeetsAll
  <2> QED
    BY <2>3 DEF T
<1>8. p = [k \in 1 .. size |-> CHOOSE n \in D : place[n] = k]
  BY DEF Ascending
<1> HIDE DEF place, p
<1>9. \A k \in 1 .. size : p[k] \in D /\ place[p[k]] = k
  BY <1>7, <1>8
<1>10. \A n \in D : place[n] \in 1 .. size /\ p[place[n]] = n
  BY <1>3, <1>5, <1>9
<1>11. p \in [1 .. size -> D] /\ \A j, k \in DOMAIN p : p[j] = p[k] => j = k
  <2> HIDE DEF D, size
  <2>1. DOMAIN p = 1 .. size
    BY <1>8
  <2> QED
    BY <1>8, <1>9, <2>1
<1>12. \A n \in D : \E k \in DOMAIN p : p[k] = n
  BY <1>8, <1>10
<1> QED
  BY <1>1, <1>11, <1>12 DEF p

-----------------------------------------------------------------------------
(* What the rules decide.                                                   *)

(* Every rule has an action, and its pattern a length.                      *)
SoundRules(rules) ==
  /\ IsList(rules)
  /\ \A k \in DOMAIN rules : rules[k].action \in RuleActions /\ Specificity(rules[k].pattern) \in Nat

(* Of the rules that fit a path one is the most specific, the last of       *)
(* equals, so the choice in ruleForPath is never void.                      *)
LEMMA RuleForChooses ==
  ASSUME NEW rules, NEW path, SoundRules(rules)
  PROVE  RuleFor(rules, path) \in DOMAIN rules \cup {NoRule}
<1> DEFINE fit == {k \in DOMAIN rules : Fits(rules[k].pattern, path)}
           weight(k) == Specificity(rules[k].pattern)
           beats(k, j) == weight(k) > weight(j) \/ (weight(k) = weight(j) /\ k >= j)
           over(k) == {j \in fit : ~beats(k, j)}
<1>1. /\ IsFiniteSet(fit) /\ fit \subseteq Int
      /\ \A k \in fit : k \in Int /\ weight(k) \in Nat
  <2>1. DOMAIN rules = 1 .. Len(rules) /\ Len(rules) \in Nat /\ IsFiniteSet(DOMAIN rules)
    BY ListIsFunction DEF SoundRules
  <2>2. fit \in SUBSET DOMAIN rules
    OBVIOUS
  <2> QED
    BY <2>1, <2>2, FS_Subset DEF SoundRules
<1> HIDE DEF fit, weight
<1>2. CASE fit = {}
  BY <1>2 DEF RuleFor, fit
<1>3. CASE fit # {}
  <2> DEFINE sizes == {Cardinality(over(k)) : k \in fit}
  <2>1. \A k \in fit : over(k) \in SUBSET fit /\ IsFiniteSet(over(k)) /\ Cardinality(over(k)) \in Nat
    BY <1>1, FS_Subset, FS_CardinalityType
  <2>2. sizes \subseteq Nat /\ sizes # {}
    BY <1>3, <2>1
  <2>3. PICK n \in sizes : \A m \in sizes : n <= m
    <3> HIDE DEF sizes
    <3> QED
      BY <2>2, LeastElement
  <2>4. PICK k \in fit : n = Cardinality(over(k))
    OBVIOUS
  <2>5. \A j \in fit : beats(k, j)
    <3> SUFFICES ASSUME NEW j \in fit, ~beats(k, j) PROVE FALSE
      OBVIOUS
    <3>1. over(j) \in SUBSET over(k) /\ j \in over(k) /\ j \notin over(j)
      <4>1. \A i \in fit : i \in Int /\ weight(i) \in Int
        BY <1>1
      <4>2. weight(j) \in Int /\ weight(k) \in Int /\ j \in Int /\ k \in Int
        BY <4>1
      <4>3. ASSUME NEW i \in fit, ~beats(j, i) PROVE ~beats(k, i)
        <5>1. weight(i) \in Int /\ i \in Int
          BY <4>1
        <5> QED
          BY <4>2, <4>3, <5>1
      <4>4. beats(j, j)
        BY <4>2
      <4> HIDE DEF beats
      <4> QED
        BY <4>3, <4>4
    <3>2. IsFiniteSet(over(k)) /\ Cardinality(over(k)) <= Cardinality(over(j))
      BY <2>1, <2>3, <2>4
    <3>3. Cardinality(over(j)) <= Cardinality(over(k))
          /\ (Cardinality(over(j)) = Cardinality(over(k)) => over(j) = over(k))
      BY <3>1, <3>2, FS_Subset
    <3>4. Cardinality(over(j)) \in Nat /\ Cardinality(over(k)) \in Nat
      BY <2>1
    <3> HIDE DEF over
    <3> QED
      BY <3>1, <3>2, <3>3, <3>4
  <2>6. RuleFor(rules, path) = CHOOSE i \in fit : \A j \in fit : beats(i, j)
    BY <1>3 DEF RuleFor, fit, weight
  <2>7. RuleFor(rules, path) \in fit
    BY <2>5, <2>6
  <2> QED
    BY <2>7 DEF fit
<1> QED
  BY <1>2, <1>3

(* What is done at a path is the action of a rule, or to detect.            *)
LEMMA ActionAtIsAction ==
  ASSUME NEW rules, NEW path, SoundRules(rules)
  PROVE  ActionAt(rules, path) \in RuleActions \cup {"detect"}
<1>1. RuleFor(rules, path) \in DOMAIN rules \cup {NoRule}
  BY RuleForChooses
<1>2. ActionAt(rules, path) = IF RuleFor(rules, path) = NoRule THEN "detect" ELSE rules[RuleFor(rules, path)].action
  BY DEF ActionAt
<1> QED
  BY <1>1, <1>2 DEF SoundRules

(* What is not dropped is a hash, a mask, or stays: a text where no         *)
(* detector finds anything in it, a literal because none looks at it, and   *)
(* both where they are preserved.                                           *)
LEMMA ChangedText ==
  ASSUME NEW action \in RuleActions \cup {"detect"}, action # "drop", NEW text
  PROVE  \/ Changed(action, text) = text /\ (Kinds(text) = {} \/ action = "preserve")
         \/ Changed(action, text) = Hash(Text(text))
         \/ Changed(action, text) = Mask(Text(text))
<1>1. action \in {"mask", "hash", "preserve", "detect"}
  BY DEF RuleActions
<1>2. Kinds(text) # {} => Text(text) = text
  BY DEF Kinds, Text
<1> QED
  BY <1>1, <1>2 DEF Changed

-----------------------------------------------------------------------------
(* Where the texts of a scrubbed interaction come from.                     *)

(* What is left marks a structure, is a literal, is one of the texts in     *)
(* which no detector finds anything or that a rule preserves, or is the     *)
(* hash or the mask of one.                                                 *)
ComesFrom(left, texts, preserved) ==
  \A u \in left :
    \/ u \in Marks
    \/ u \in texts /\ (u \in DOMAIN Literals \/ Kinds(u) = {} \/ u \in preserved)
    \/ \E t \in texts \cup Marks : u \in {Hash(Text(t)), Mask(Text(t))}

(* The first rule above a node is one of the actions.                       *)
LEMMA DecisionsAreActions ==
  ASSUME NEW rules, NEW prefix, NEW doc, SoundRules(rules), NEW p \in DOMAIN doc
  PROVE  Decisions(rules, prefix, doc)[p].action \in RuleActions \cup {"detect"}
<1> DEFINE own == [q \in DOMAIN doc |-> IF doc[q] = "null" THEN "detect" ELSE ActionAt(rules, prefix \o q)]
           ruled == {q \in DOMAIN doc : own[q] # "detect"}
           above(q) == {k \in 0 .. Len(q) : SubSeq(q, 1, k) \in ruled}
<1>1. \A q \in DOMAIN doc : own[q] \in RuleActions \cup {"detect"}
  BY ActionAtIsAction
<1>2. Decisions(rules, prefix, doc)[p] =
        IF above(p) = {} THEN [at |-> Undecided, action |-> "detect"]
        ELSE [at |-> Min(above(p)), action |-> own[SubSeq(p, 1, Min(above(p)))]]
  BY DEF Decisions
<1>3. CASE above(p) = {}
  BY <1>2, <1>3
<1>4. CASE above(p) # {}
  <2>1. above(p) \subseteq Nat
    OBVIOUS
  <2>2. Min(above(p)) \in above(p)
    <3> HIDE DEF above
    <3> QED BY <1>4, <2>1, MinIsIn
  <2>3. SubSeq(p, 1, Min(above(p))) \in DOMAIN doc
    BY <2>2
  <2> QED
    BY <1>1, <1>2, <1>4, <2>3
<1> QED
  BY <1>3, <1>4

(* Closing up arrays moves nodes, and changes none.                         *)
LEMMA ClosedKeepsTexts ==
  ASSUME NEW doc, NEW kept
  PROVE  \A u \in Leaves(Closed(doc, kept)) : \E p \in kept : u = doc[p]
<1>1. PICK at : /\ DOMAIN at = kept
                /\ Closed(doc, kept) = [q \in {at[p] : p \in kept} |-> doc[CHOOSE p \in kept : at[p] = q]]
  BY DEF Closed
<1>2. ASSUME NEW p \in kept
      PROVE  \E r \in kept : Closed(doc, kept)[at[p]] = doc[r]
  <2>1. (CHOOSE r \in kept : at[r] = at[p]) \in kept
    OBVIOUS
  <2>2. Closed(doc, kept)[at[p]] = doc[CHOOSE r \in kept : at[r] = at[p]]
    BY <1>1
  <2> QED
    BY <2>1, <2>2
<1>3. DOMAIN Closed(doc, kept) = {at[p] : p \in kept}
  BY <1>1
<1> QED
  BY <1>2, <1>3 DEF Leaves

(* A scrubbed JSON value.                                                   *)
LEMMA ScrubValueTexts ==
  ASSUME NEW rules, NEW prefix, NEW doc, SoundRules(rules)
  PROVE  ComesFrom(Leaves(ScrubValue(rules, prefix, doc).doc), Leaves(doc), PreservedBelow(rules, prefix, doc))
<1> DEFINE how == Decisions(rules, prefix, doc)
           kept == {p \in DOMAIN doc : how[p].action # "drop"}
           object(p) == doc[p] \in {"{}", "[]"}
           new == [p \in DOMAIN doc |->
                     IF object(p) \/ doc[p] = "null" THEN doc[p] ELSE Changed(how[p].action, doc[p])]
<1>1. ScrubValue(rules, prefix, doc).doc = Closed(new, kept)
  BY DEF ScrubValue, Decided, Scrubbed
<1>2. \A p \in DOMAIN doc : how[p].action \in RuleActions \cup {"detect"}
  BY DecisionsAreActions
<1>3. PreservedBelow(rules, prefix, doc) = {doc[p] : p \in {q \in DOMAIN doc : how[q].action = "preserve"}}
  BY DEF PreservedBelow
<1> HIDE DEF how
<1> SUFFICES ASSUME NEW p \in kept
             PROVE  ComesFrom({new[p]}, Leaves(doc), PreservedBelow(rules, prefix, doc))
  <2> HIDE DEF new, kept
  <2>1. \A u \in Leaves(Closed(new, kept)) : \E p \in kept : u = new[p]
    BY ClosedKeepsTexts
  <2>2. \A u \in Leaves(Closed(new, kept)) : ComesFrom({u}, Leaves(doc), PreservedBelow(rules, prefix, doc))
    BY <2>1
  <2> QED
    BY <1>1, <2>2 DEF ComesFrom
<1>4. CASE object(p) \/ doc[p] = "null"
  BY <1>4 DEF ComesFrom, Marks
<1>5. CASE ~(object(p) \/ doc[p] = "null")
  <2>1. new[p] = Changed(how[p].action, doc[p]) /\ doc[p] \in Leaves(doc)
    BY <1>5 DEF Leaves
  <2>2. how[p].action = "preserve" => doc[p] \in PreservedBelow(rules, prefix, doc)
    BY <1>3
  <2>3. \/ Changed(how[p].action, doc[p]) = doc[p] /\ (Kinds(doc[p]) = {} \/ how[p].action = "preserve")
        \/ Changed(how[p].action, doc[p]) = Hash(Text(doc[p]))
        \/ Changed(how[p].action, doc[p]) = Mask(Text(doc[p]))
    BY <1>2, ChangedText
  <2> QED
    BY <2>1, <2>2, <2>3 DEF ComesFrom
<1> QED
  BY <1>4, <1>5

(* Scrubbed headers: some of the nodes, and none that is new.               *)
LEMMA ScrubHeadersTexts ==
  ASSUME NEW rules, NEW side, NEW doc, SoundRules(rules), IsHeaders(doc)
  PROVE  LET new == ScrubHeaders(rules, side, doc).doc
         IN  /\ ComesFrom(Leaves(new), Leaves(doc), PreservedHeaders(rules, side, doc))
             /\ DOMAIN new \subseteq DOMAIN doc /\ IsHeaders(new)
<1> DEFINE names == {Head(p) : p \in DOMAIN doc \ {<<>>}}
           action == [name \in names |-> ActionAt(rules, <<side, "headers", ToLower(name)>>)]
           kept == {p \in DOMAIN doc : p = <<>> \/ action[Head(p)] # "drop"}
           left == [p \in kept |-> IF Len(p) = 2 THEN Changed(action[Head(p)], doc[p]) ELSE doc[p]]
           new == ScrubHeaders(rules, side, doc).doc
<1>1. new = IF kept \subseteq {<<>>} THEN Absent ELSE left
  BY DEF ScrubHeaders, Scrubbed
<1>2. \A name \in names : action[name] \in RuleActions \cup {"detect"}
  BY ActionAtIsAction
<1>3. ASSUME NEW p \in kept
      PROVE  /\ ComesFrom({left[p]}, Leaves(doc), PreservedHeaders(rules, side, doc))
             /\ Len(p) # 2 => left[p] \in {"{}", "[]"}
  <2>1. CASE Len(p) # 2
    BY <2>1 DEF IsHeaders, ComesFrom, Marks
  <2>2. CASE Len(p) = 2
    <3>1. p # <<>>
      BY <2>2, EmptySeq
    <3>2. Head(p) \in names /\ action[Head(p)] # "drop" /\ doc[p] \in Leaves(doc)
      BY <3>1 DEF Leaves
    <3>3. action[Head(p)] = "preserve" => doc[p] \in PreservedHeaders(rules, side, doc)
      BY <3>1, <3>2 DEF PreservedHeaders
    <3>4. left[p] = Changed(action[Head(p)], doc[p])
      BY <2>2
    <3>5. action[Head(p)] \in RuleActions \cup {"detect"}
      BY <1>2, <3>2
    <3> HIDE DEF action, left
    <3>6. \/ left[p] = doc[p] /\ (Kinds(doc[p]) = {} \/ action[Head(p)] = "preserve")
          \/ left[p] = Hash(Text(doc[p]))
          \/ left[p] = Mask(Text(doc[p]))
      BY <3>2, <3>4, <3>5, ChangedText
    <3> QED
      BY <2>2, <3>2, <3>3, <3>6 DEF ComesFrom
  <2> QED
    BY <2>1, <2>2
<1>4. DOMAIN left = kept
  OBVIOUS
<1> HIDE DEF left
<1>5. DOMAIN new \subseteq kept /\ \A p \in DOMAIN new : new[p] = left[p]
  BY <1>1, <1>4 DEF Absent
<1> HIDE DEF new
<1> HIDE DEF kept
<1>6. ComesFrom(Leaves(new), Leaves(doc), PreservedHeaders(rules, side, doc))
  <2>1. \A u \in Leaves(new) : \E p \in kept : u = left[p]
    BY <1>5 DEF Leaves
  <2> QED
    BY <1>3, <2>1 DEF ComesFrom
<1> USE DEF kept
<1>7. IsHeaders(new)
  BY <1>3, <1>5 DEF IsHeaders
<1> QED
  BY <1>5, <1>6, <1>7 DEF new

(* The order in which keys are written exists.                              *)
LEMMA KeyOrderExists ==
  ASSUME NEW keys, IsFiniteSet(keys)
  PROVE  KeyOrder(keys) \in [keys -> 1 .. Cardinality(keys)] /\ Cardinality(keys) \in Nat
<1>1. Cardinality(keys) \in Nat
  BY FS_CardinalityType
<1> DEFINE T == 1 .. Cardinality(keys)
<1>2. IsFiniteSet(T) /\ Cardinality(T) = Cardinality(keys)
  BY <1>1, FS_Interval
<1>3. PICK f : f \in Bijection(keys, T)
  <2> HIDE DEF T
  <2> QED
    BY <1>2, FS_SameCardinalityBij DEF ExistsBijection
<1>4. f \in [keys -> T] /\ IsInjective(f)
  BY <1>3 DEF Bijection, Injection, Surjection
<1> QED
  BY <1>1, <1>4 DEF KeyOrder

(* A scrubbed query: some of the pairs, with texts of their own.            *)
LEMMA ScrubQueryTexts ==
  ASSUME NEW rules, NEW url, SoundRules(rules), IsList(url.query), "query" \in DOMAIN url
  PROVE  LET new == ScrubQuery(rules, url).doc
             values(u) == {pair[2] : pair \in ToSet(u.query)}
         IN  /\ ComesFrom(values(new), values(url), PreservedQuery(rules, url))
             /\ DOMAIN new = DOMAIN url /\ IsList(new.query)
             /\ \A field \in DOMAIN url \ {"query"} : new[field] = url[field]
<1> DEFINE query == url.query
           action == [key \in {pair[1] : pair \in ToSet(query)} |->
                        ActionAt(rules, <<"request", "query", key>>)]
           found == {pair \in ToSet(query) : action[pair[1]] = "detect" /\ Kinds(pair[2]) # {}}
           ruled == {key \in DOMAIN action : action[key] # "detect"}
           kept == {n \in DOMAIN query : action[query[n][1]] # "drop"}
           order == KeyOrder({query[n][1] : n \in kept})
           rank == [n \in kept |-> order[query[n][1]]]
           list == Ascending(rank)
           written == [k \in DOMAIN list |->
                         LET pair == query[list[k]] IN <<pair[1], Changed(action[pair[1]], pair[2])>>]
           new == ScrubQuery(rules, url).doc
           values(u) == {pair[2] : pair \in ToSet(u.query)}
<1>1. new = IF ruled = {} /\ found = {} THEN url ELSE [url EXCEPT !.query = written]
  BY DEF ScrubQuery, Scrubbed
<1>2. DOMAIN query = 1 .. Len(query) /\ Len(query) \in Nat /\ IsFiniteSet(DOMAIN query)
  BY ListIsFunction
<1>3. \A n \in DOMAIN query : query[n] \in ToSet(query) /\ action[query[n][1]] \in RuleActions \cup {"detect"}
  BY ActionAtIsAction DEF ToSet
<1>4. IsFiniteSet(kept) /\ kept \subseteq Int
  <2>1. kept \in SUBSET DOMAIN query
    OBVIOUS
  <2> HIDE DEF kept, query
  <2> QED
    BY <1>2, <2>1, FS_Subset
<1>5. \A n \in kept : rank[n] \in Int
  <2> DEFINE first == [n \in kept |-> query[n][1]]
             keys == {query[n][1] : n \in kept}
  <2>1. DOMAIN first = kept /\ keys = {first[n] : n \in kept} /\ \A n \in kept : query[n][1] \in keys
    OBVIOUS
  <2>2. rank = [n \in kept |-> order[query[n][1]]] /\ order = KeyOrder(keys)
    OBVIOUS
  <2> HIDE DEF first, kept, keys, rank, order
  <2>3. IsFiniteSet(keys)
    BY <1>4, <2>1, ImageIsFinite
  <2>4. order \in [keys -> 1 .. Cardinality(keys)] /\ Cardinality(keys) \in Nat
    BY <2>2, <2>3, KeyOrderExists
  <2> QED
    BY <2>1, <2>2, <2>4
<1>6. /\ Cardinality(kept) \in Nat
      /\ list \in [1 .. Cardinality(kept) -> kept]
  <2>1. DOMAIN rank = kept
    OBVIOUS
  <2> HIDE DEF rank, kept
  <2> QED
    BY <1>4, <1>5, <2>1, AscendingSorts
<1>7. DOMAIN list = 1 .. Cardinality(kept) /\ \A k \in DOMAIN list : list[k] \in kept
  BY <1>6
<1>8. CASE ruled = {} /\ found = {}
  <2>1. new = url
    BY <1>1, <1>8
  <2>2. ASSUME NEW pair \in ToSet(query) PROVE Kinds(pair[2]) = {}
    <3>1. pair[1] \in DOMAIN action
      OBVIOUS
    <3>2. action[pair[1]] = "detect"
      BY <1>8, <3>1
    <3> QED
      BY <1>8, <3>2
  <2> HIDE DEF new
  <2> QED
    BY <2>1, <2>2 DEF ComesFrom, new
<1>9. CASE ~(ruled = {} /\ found = {})
  <2>1. new = [url EXCEPT !.query = written]
    BY <1>1, <1>9
  <2> HIDE DEF new
  <2>2. /\ DOMAIN new = DOMAIN url /\ new.query = written
        /\ \A field \in DOMAIN url \ {"query"} : new[field] = url[field]
    BY <2>1
  <2>3. written = [k \in 1 .. Cardinality(kept) |-> written[k]]
    <3>1. DOMAIN written = 1 .. Cardinality(kept)
      BY <1>7
    <3> DEFINE pairOf(k) == <<query[list[k]][1], Changed(action[query[list[k]][1]], query[list[k]][2])>>
    <3>2. written = [k \in DOMAIN list |-> pairOf(k)]
      BY Zenon
    <3> HIDE DEF written, pairOf, list
    <3>3. \A k \in DOMAIN list : written[k] = pairOf(k)
      BY <3>2
    <3>4. DOMAIN written = DOMAIN list
      BY <3>2
    <3> QED
      BY <3>1, <3>2, <3>3, <3>4
  <2>4. IsList(written)
    <3> HIDE DEF written, kept
    <3> QED
      BY <1>6, <2>3, FunctionIsList
  <2>5. ASSUME NEW k \in DOMAIN written
        PROVE  ComesFrom({written[k][2]}, values(url), PreservedQuery(rules, url))
    <3> DEFINE pair == query[list[k]]
    <3>1. list[k] \in kept
      BY <1>7
    <3>2. pair \in ToSet(query) /\ action[pair[1]] \in RuleActions \cup {"detect"} /\ action[pair[1]] # "drop"
      BY <1>3, <3>1
    <3>3. written[k][2] = Changed(action[pair[1]], pair[2])
      OBVIOUS
    <3>4. pair[2] \in values(url)
      BY <3>2
    <3>5. action[pair[1]] = "preserve" => pair[2] \in PreservedQuery(rules, url)
      BY <3>2 DEF PreservedQuery
    <3> HIDE DEF pair, action, written, values
    <3>6. \/ written[k][2] = pair[2] /\ (Kinds(pair[2]) = {} \/ action[pair[1]] = "preserve")
          \/ written[k][2] = Hash(Text(pair[2]))
          \/ written[k][2] = Mask(Text(pair[2]))
      BY <3>2, <3>3, ChangedText
    <3> QED
      BY <3>4, <3>5, <3>6 DEF ComesFrom
  <2>6. ComesFrom(values(new), values(url), PreservedQuery(rules, url))
    <3> HIDE DEF written
    <3>1. \A u \in values(new) : \E k \in DOMAIN written : u = written[k][2]
      BY <2>2 DEF ToSet
    <3> HIDE DEF values
    <3> QED
      BY <2>5, <3>1 DEF ComesFrom
  <2> QED
    BY <2>2, <2>4, <2>6 DEF new
<1> QED
  BY <1>8, <1>9

-----------------------------------------------------------------------------
(* The data of an event.                                                    *)

(* One name and what follows it.                                            *)
LEMMA PathSplits ==
  ASSUME NEW name, NEW p, IsList(p)
  PROVE  /\ IsPrefix(<<name>>, p) <=> Len(p) > 0 /\ p[1] = name
         /\ IsPrefix(<<name>>, p) =>
              /\ IsList(SubSeq(p, 2, Len(p))) /\ Len(SubSeq(p, 2, Len(p))) = Len(p) - 1
              /\ <<name>> \o SubSeq(p, 2, Len(p)) = p
<1> DEFINE T == ToSet(p) \cup {name}
           rest == SubSeq(p, 2, Len(p))
<1>1. p \in Seq(T) /\ Len(p) \in Nat /\ DOMAIN p = 1 .. Len(p)
  BY ListIsFunction, SeqMonotonic
<1>2. <<name>> \in Seq(T) /\ Len(<<name>>) = 1 /\ <<name>>[1] = name
  OBVIOUS
<1> HIDE DEF T
<1>3. ASSUME NEW s \in Seq(T), Len(s) > 0
      PROVE  SubSeq(s, 1, 1) = <<s[1]>>
  <2>1. Len(s) \in Nat /\ s[1] \in T
    BY <1>3, LenProperties
  <2>2. SubSeq(s, 1, 1) \in Seq(T) /\ Len(SubSeq(s, 1, 1)) = 1 /\ SubSeq(s, 1, 1)[1] = s[1]
    BY <1>3, <2>1
  <2>3. <<s[1]>> \in Seq(T) /\ Len(<<s[1]>>) = 1 /\ <<s[1]>>[1] = s[1]
    BY <2>1
  <2> DEFINE t == SubSeq(s, 1, 1)
             u == <<s[1]>>
  <2>4. /\ t \in Seq(T) /\ u \in Seq(T) /\ Len(t) = 1 /\ Len(u) = 1 /\ t[1] = u[1]
    BY <2>2, <2>3
  <2> HIDE DEF t, u
  <2>5. \A k \in 1 .. Len(t) : t[k] = u[k]
    BY <2>4
  <2>6. t = u
    BY <2>4, <2>5, SeqEqual
  <2> QED
    BY <2>6 DEF t, u
<1>4. SubSeq(<<name>>, 1, 1) = <<name>> /\ (Len(p) > 0 => SubSeq(p, 1, 1) = <<p[1]>>)
  <2> DEFINE one == <<name>>
  <2>1. one \in Seq(T) /\ Len(one) > 0 /\ one = <<one[1]>>
    BY <1>2
  <2> HIDE DEF one
  <2>2. SubSeq(one, 1, 1) = one
    BY <1>3, <2>1
  <2> QED
    BY <1>1, <1>3, <2>2 DEF one
<1>5. IsPrefix(<<name>>, p) <=> Len(p) > 0 /\ p[1] = name
  BY <1>1, <1>2, <1>4 DEF IsPrefix
<1>6. ASSUME Len(p) > 0, p[1] = name
      PROVE  IsList(rest) /\ Len(rest) = Len(p) - 1 /\ <<name>> \o rest = p
  <2>1. rest \in Seq(T) /\ Len(rest) = Len(p) - 1 /\ \A k \in 1 .. (Len(p) - 1) : rest[k] = p[k + 1]
    BY <1>1, <1>6
  <2>2. rest = [k \in 1 .. (Len(p) - 1) |-> rest[k]] /\ Len(p) - 1 \in Nat
    BY <1>1, <1>6, <2>1
  <2> HIDE DEF rest
  <2>3. IsList(rest)
    BY <2>2, FunctionIsList
  <2>4. <<name>> \o rest \in Seq(T) /\ Len(<<name>> \o rest) = Len(p)
        /\ \A k \in 1 .. Len(p) : (<<name>> \o rest)[k] = p[k]
    <3>1. Len(p) = 1 + Len(rest)
      BY <1>1, <2>1
    <3> HIDE DEF rest
    <3>2. /\ <<name>> \o rest \in Seq(T) /\ Len(<<name>> \o rest) = 1 + Len(rest)
          /\ \A k \in 1 .. 1 + Len(rest) : (<<name>> \o rest)[k] = IF k <= 1 THEN <<name>>[k] ELSE rest[k - 1]
      BY <1>2, <2>1, ConcatProperties
    <3>3. ASSUME NEW k \in 1 .. Len(p) PROVE (<<name>> \o rest)[k] = p[k]
      <4>1. CASE k = 1
        BY <1>1, <1>2, <1>6, <3>1, <3>2, <4>1
      <4>2. CASE k # 1
        <5>1. k - 1 \in 1 .. Len(p) - 1 /\ k \in Nat /\ ~(k <= 1) /\ (k - 1) + 1 = k
          BY <1>1, <4>2
        <5>2. rest[k - 1] = p[k]
          BY <2>1, <5>1
        <5> QED
          BY <3>1, <3>2, <5>1, <5>2
      <4> QED
        BY <4>1, <4>2
    <3> QED
      BY <3>1, <3>2, <3>3
  <2> QED
    BY <1>1, <2>1, <2>3, <2>4, SeqEqual
<1> QED
  BY <1>5, <1>6

(* A name before a path.                                                    *)
LEMMA PathJoins ==
  ASSUME NEW name, NEW q, IsList(q)
  PROVE  LET p == <<name>> \o q
         IN  IsList(p) /\ Len(p) = Len(q) + 1 /\ p[1] = name /\ Tail(p) = q
<1> DEFINE T == ToSet(q) \cup {name}
           p == <<name>> \o q
<1>1. q \in Seq(T) /\ Len(q) \in Nat
  BY ListIsFunction, SeqMonotonic
<1>2. <<name>> \in Seq(T)
  OBVIOUS
<1> HIDE DEF T
<1>3. p \in Seq(T) /\ Len(p) = Len(q) + 1 /\ p[1] = name /\ \A k \in 1 .. Len(q) : p[k + 1] = q[k]
  BY <1>1, <1>2
<1>4. p = [k \in 1 .. (Len(q) + 1) |-> p[k]] /\ Len(q) + 1 \in Nat
  BY <1>1, <1>3
<1> HIDE DEF p
<1>5. IsList(p)
  BY <1>4, FunctionIsList
<1>6. Tail(p) \in Seq(T) /\ Len(Tail(p)) = Len(q) /\ \A k \in 1 .. Len(q) : Tail(p)[k] = p[k + 1]
  BY <1>1, <1>3
<1>7. Tail(p) = q
  BY <1>1, <1>3, <1>6, SeqEqual
<1> QED
  BY <1>3, <1>5, <1>7 DEF p

(* A path and one name after it.                                            *)
LEMMA PathEnds ==
  ASSUME NEW name, NEW q, IsList(q)
  PROVE  LET p == q \o <<name>>
         IN  IsList(p) /\ Len(p) = Len(q) + 1 /\ Front(p) = q
<1> DEFINE T == ToSet(q) \cup {name}
           p == q \o <<name>>
<1>1. q \in Seq(T) /\ Len(q) \in Nat
  BY ListIsFunction, SeqMonotonic
<1>2. <<name>> \in Seq(T)
  OBVIOUS
<1> HIDE DEF T
<1>3. p \in Seq(T) /\ Len(p) = Len(q) + 1 /\ \A k \in 1 .. Len(q) : p[k] = q[k]
  BY <1>1, <1>2
<1>4. p = [k \in 1 .. (Len(q) + 1) |-> p[k]] /\ Len(q) + 1 \in Nat
  BY <1>1, <1>3
<1> HIDE DEF p
<1>5. IsList(p)
  BY <1>4, FunctionIsList
<1>6. Front(p) \in Seq(T) /\ Len(Front(p)) = Len(q) /\ \A k \in 1 .. Len(q) : Front(p)[k] = p[k]
  BY <1>1, <1>3 DEF Front
<1>7. Front(p) = q
  BY <1>1, <1>3, <1>6, SeqEqual
<1> QED
  BY <1>3, <1>5, <1>7 DEF p

(* What stands below the headers of an event, and beside them.              *)
LEMMA HeadersOfData ==
  ASSUME NEW data, IsData(data)
  PROVE  LET given == Under(data, <<"headers">>)
         IN  /\ \A q \in DOMAIN given : /\ IsList(q) /\ Len(q) <= 2
                                        /\ given[q] \in Leaves(data)
             /\ \A p \in DOMAIN BesideHeaders(data) :
                  /\ p \in DOMAIN data /\ IsList(p) /\ BesideHeaders(data)[p] = data[p]
                  /\ Len(p) > 0 => p[1] # "headers"
             /\ data # Absent => <<>> \in DOMAIN BesideHeaders(data) /\ data[<<>>] = "{}"
<1> DEFINE given == Under(data, <<"headers">>)
           below == {p \in DOMAIN data : IsPrefix(<<"headers">>, p)}
<1>1. \A p \in DOMAIN data : IsList(p) /\ (Len(p) > 3 => p[1] # "headers")
  BY DEF IsData, Absent
<1>2. given = [q \in {SubSeq(p, 2, Len(p)) : p \in below} |-> data[<<"headers">> \o q]]
  <2>1. Len(<<"headers">>) = 1
    OBVIOUS
  <2> QED
    BY <2>1 DEF Under
<1>3. ASSUME NEW q \in DOMAIN given
      PROVE  IsList(q) /\ Len(q) <= 2 /\ given[q] \in Leaves(data)
  <2>1. PICK p \in below : q = SubSeq(p, 2, Len(p))
    BY <1>2
  <2>2. IsList(p) /\ Len(p) \in Nat
    BY <1>1, ListIsFunction
  <2>3. /\ Len(p) > 0 /\ p[1] = "headers"
        /\ IsList(q) /\ Len(q) = Len(p) - 1 /\ <<"headers">> \o q = p
    BY <2>1, <2>2, PathSplits
  <2>4. given[q] = data[p]
    BY <1>2, <2>3
  <2> QED
    BY <1>1, <2>2, <2>3, <2>4 DEF Leaves
<1>4. ASSUME NEW p \in DOMAIN BesideHeaders(data)
      PROVE  /\ p \in DOMAIN data /\ IsList(p) /\ BesideHeaders(data)[p] = data[p]
             /\ Len(p) > 0 => p[1] # "headers"
  BY <1>1, PathSplits DEF BesideHeaders
<1>5. data # Absent => <<>> \in DOMAIN BesideHeaders(data) /\ data[<<>>] = "{}"
  <2>1. Len(<<"headers">>) = 1 /\ Len(<<>>) = 0
    OBVIOUS
  <2>2. ~IsPrefix(<<"headers">>, <<>>)
    BY <2>1 DEF IsPrefix
  <2> QED
    BY <2>2 DEF IsData, BesideHeaders
<1> QED
  BY <1>3, <1>4, <1>5

(* The headers of an event as lists of values.                              *)
LEMMA ResponseHeadersAreHeaders ==
  ASSUME NEW data, IsData(data)
  PROVE  /\ IsHeaders(ResponseHeaders(data))
         /\ \A q \in DOMAIN ResponseHeaders(data) : Len(q) <= 2
         /\ Leaves(ResponseHeaders(data)) \subseteq Leaves(data) \cup Marks
<1> DEFINE doc == Under(data, <<"headers">>)
           single == {p \in DOMAIN doc : Len(p) = 1 /\ doc[p] # "[]"}
           lists == DOMAIN doc \cup {q \o <<Slot(0)>> : q \in single}
           new == ResponseHeaders(data)
<1>1. \A q \in DOMAIN doc : IsList(q) /\ Len(q) \in Nat /\ Len(q) <= 2 /\ doc[q] \in Leaves(data)
  BY HeadersOfData, ListIsFunction
<1>2. CASE doc = Absent \/ doc[<<>>] # "{}"
  <2>1. new = Absent
    BY <1>2 DEF ResponseHeaders, HeaderLists
  <2> QED
    BY <2>1 DEF Absent, IsHeaders, Leaves
<1>3. CASE ~(doc = Absent \/ doc[<<>>] # "{}")
  <2>1. new = [p \in lists |-> CASE Len(p) = 0 -> "{}" [] Len(p) = 1 -> "[]"
                                 [] OTHER -> IF p \in DOMAIN doc THEN doc[p] ELSE doc[Front(p)]]
    BY <1>3 DEF ResponseHeaders, HeaderLists
  <2>2. ASSUME NEW p \in lists
        PROVE  /\ IsList(p) /\ Len(p) \in Nat /\ Len(p) <= 2
               /\ Len(p) # 2 => new[p] \in {"{}", "[]"}
               /\ new[p] \in Leaves(data) \cup Marks
    <3>1. CASE p \in DOMAIN doc
      <4>1. IsList(p) /\ Len(p) \in Nat /\ Len(p) <= 2 /\ doc[p] \in Leaves(data)
        BY <1>1, <3>1
      <4>2. new[p] = CASE Len(p) = 0 -> "{}" [] Len(p) = 1 -> "[]" [] OTHER -> doc[p]
        BY <2>1, <3>1
      <4> HIDE DEF new, doc, single, lists
      <4> DEFINE n == Len(p)
      <4>3. n \in Nat /\ n <= 2
        BY <4>1
      <4>4. new[p] = CASE n = 0 -> "{}" [] n = 1 -> "[]" [] OTHER -> doc[p]
        BY <4>2
      <4> HIDE DEF n
      <4>5. n = 0 \/ n = 1 \/ n = 2
        BY <4>3
      <4>6. n # 0 \/ n # 1
        OBVIOUS
      <4>7. n = 0 => new[p] = "{}"
        BY <4>4, <4>6, Zenon
      <4>8. n = 1 => new[p] = "[]"
        BY <4>4, <4>6, Zenon
      <4>9. n # 0 /\ n # 1 => new[p] = doc[p]
        BY <4>4, Zenon
      <4>10. n # 2 => new[p] \in {"{}", "[]"}
        BY <4>5, <4>7, <4>8
      <4>11. new[p] \in Leaves(data) \cup Marks
        BY <4>1, <4>7, <4>8, <4>9 DEF Marks
      <4> QED
        BY <4>1, <4>10, <4>11 DEF n
    <3>2. CASE p \notin DOMAIN doc
      <4>1. PICK q \in single : p = q \o <<Slot(0)>>
        BY <3>2
      <4>2. IsList(q) /\ Len(q) = 1 /\ doc[q] \in Leaves(data)
        BY <1>1
      <4> HIDE DEF single, doc, lists, new
      <4>3. IsList(q \o <<Slot(0)>>) /\ Len(q \o <<Slot(0)>>) = 2 /\ Front(q \o <<Slot(0)>>) = q
        <5> DEFINE last == Slot(0)
        <5> HIDE DEF last
        <5>1. IsList(q \o <<last>>) /\ Len(q \o <<last>>) = Len(q) + 1 /\ Front(q \o <<last>>) = q
          BY <4>2, PathEnds
        <5> QED
          BY <4>2, <5>1 DEF last
      <4>4. IsList(p) /\ Len(p) = 2 /\ Front(p) = q
        BY <4>1, <4>3 DEF single
      <4>5. new[p] = CASE Len(p) = 0 -> "{}" [] Len(p) = 1 -> "[]" [] OTHER -> doc[Front(p)]
        BY <2>1, <3>2 DEF lists
      <4>6. new[p] = doc[q]
        BY <4>4, <4>5
      <4> QED
        BY <4>2, <4>4, <4>6
    <3> QED
      BY <3>1, <3>2
  <2>3. DOMAIN new = lists
    BY <2>1
  <2> HIDE DEF new, lists
  <2> QED
    BY <2>2, <2>3 DEF IsHeaders, Leaves, new
<1> QED
  BY <1>2, <1>3

(* More texts, and more of them preserved.                                  *)
LEMMA ComesFromMore ==
  ASSUME NEW left, NEW texts, NEW more, NEW preserved, NEW spared,
         ComesFrom(left, texts, preserved), texts \subseteq more \cup Marks, preserved \subseteq spared
  PROVE  ComesFrom(left, more, spared)
BY DEF ComesFrom

(* Before the first name of a path nothing stands.                          *)
LEMMA PathBegins ==
  ASSUME NEW p, IsList(p)
  PROVE  SubSeq(p, 1, 1 - 1) = <<>> /\ (Len(p) > 0 => 1 \in DOMAIN p)
<1>1. 1 - 1 = 0 /\ SubSeq(p, 1, 0) = <<>>
  BY SubSeqEmpty
<1>2. DOMAIN p = 1 .. Len(p) /\ Len(p) \in Nat
  BY ListIsFunction
<1> QED
  BY <1>1, <1>2

(* What is dropped as a whole leaves nothing.                               *)
LEMMA RootDecides ==
  ASSUME NEW rules, NEW prefix, NEW doc, \A p \in DOMAIN doc : IsList(p), <<>> \in DOMAIN doc,
         Decisions(rules, prefix, doc)[<<>>].action = "drop"
  PROVE  \A p \in DOMAIN doc : Decisions(rules, prefix, doc)[p].action = "drop"
<1> DEFINE own == [q \in DOMAIN doc |-> IF doc[q] = "null" THEN "detect" ELSE ActionAt(rules, prefix \o q)]
           ruled == {q \in DOMAIN doc : own[q] # "detect"}
           above(q) == {k \in 0 .. Len(q) : SubSeq(q, 1, k) \in ruled}
           how == Decisions(rules, prefix, doc)
<1>1. ASSUME NEW p \in DOMAIN doc
      PROVE  /\ above(p) = {} => how[p].action = "detect"
             /\ above(p) # {} => how[p].action = own[SubSeq(p, 1, Min(above(p)))]
  <2>1. how[p] = IF above(p) = {} THEN [at |-> Undecided, action |-> "detect"]
                 ELSE [at |-> Min(above(p)), action |-> own[SubSeq(p, 1, Min(above(p)))]]
    BY DEF Decisions
  <2> HIDE DEF how, above, own
  <2>2. CASE above(p) = {}
    BY <2>1, <2>2
  <2>3. CASE above(p) # {}
    BY <2>1, <2>3
  <2> QED
    BY <2>2, <2>3
<1>2. \A p \in DOMAIN doc : SubSeq(p, 1, 0) = <<>> /\ Len(p) \in Nat
  BY SubSeqEmpty, ListIsFunction
<1> HIDE DEF how, own
<1>3. ASSUME NEW p \in DOMAIN doc, <<>> \in ruled
      PROVE  how[p].action = own[<<>>]
  <2>1. 0 \in 0 .. Len(p)
    BY <1>2
  <2> HIDE DEF ruled
  <2>2. SubSeq(p, 1, 0) \in ruled
    BY <1>2, <1>3
  <2>5. 0 \in above(p) /\ above(p) \subseteq Nat
    BY <2>1, <2>2
  <2> HIDE DEF above
  <2>3. Min(above(p)) = 0
    BY <2>5, MinIsIn
  <2>4. how[p].action = own[SubSeq(p, 1, 0)]
    BY <1>1, <2>5, <2>3
  <2> QED
    BY <1>2, <2>4
<1>4. <<>> \in ruled /\ own[<<>>] = "drop"
  <2>1. above(<<>>) # {}
    <3> HIDE DEF above
    <3>1. how[<<>>].action = "drop"
      BY DEF how
    <3> QED
      BY <1>1, <3>1
  <2>2. Len(<<>>) = 0
    OBVIOUS
  <2>3. PICK k \in 0 .. 0 : SubSeq(<<>>, 1, k) \in ruled
    BY <2>1, <2>2
  <2>4. <<>> \in ruled
    <3>1. k = 0
      OBVIOUS
    <3> HIDE DEF ruled
    <3> QED
      BY <1>2, <2>3, <3>1
  <2>5. own[<<>>] = "drop"
    BY <1>3, <2>4 DEF how
  <2> QED
    BY <2>4, <2>5
<1> QED
  BY <1>3, <1>4 DEF how

(* What is left of an object is an object, under the same names, or nothing.*)
LEMMA ScrubValueShape ==
  ASSUME NEW rules, NEW prefix, NEW doc, NEW name,
         \A p \in DOMAIN doc : IsList(p) /\ (Len(p) > 0 => p[1] # name),
         <<>> \in DOMAIN doc, doc[<<>>] = "{}"
  PROVE  LET new == ScrubValue(rules, prefix, doc).doc
         IN  /\ new = Absent \/ (<<>> \in DOMAIN new /\ new[<<>>] = "{}")
             /\ \A q \in DOMAIN new : IsList(q) /\ (Len(q) > 0 => q[1] # name)
<1> DEFINE how == Decisions(rules, prefix, doc)
           kept == {p \in DOMAIN doc : how[p].action # "drop"}
           object(p) == doc[p] \in {"{}", "[]"}
           text == [p \in DOMAIN doc |->
                      IF object(p) \/ doc[p] = "null" THEN doc[p] ELSE Changed(how[p].action, doc[p])]
           new == ScrubValue(rules, prefix, doc).doc
<1>1. new = Closed(text, kept)
  BY DEF ScrubValue, Decided, Scrubbed
<1> HIDE DEF how
<1>2. CASE <<>> \notin kept
  <2>1. how[<<>>].action = "drop"
    BY <1>2
  <2>2. kept = {}
    BY <2>1, RootDecides DEF how
  <2>3. new = Absent
    <3> HIDE DEF text, new, kept
    <3> QED
      BY <1>1, <2>2 DEF Closed, Absent
  <2> QED
    BY <2>3 DEF Absent
<1>3. CASE <<>> \in kept
  <2> DEFINE nth(p, k) ==
               Cardinality({n \in 0 .. 9 : /\ SubSeq(p, 1, k - 1) \o <<Slot(n)>> \in kept
                                           /\ \E m \in 0 .. 9 : Slot(m) = p[k] /\ n < m})
             moved(p) == [k \in DOMAIN p |-> IF text[SubSeq(p, 1, k - 1)] = "[]" THEN Slot(nth(p, k)) ELSE p[k]]
             at == [p \in kept |-> moved(p)]
  <2>1. new = [q \in {at[p] : p \in kept} |-> text[CHOOSE p \in kept : at[p] = q]]
    BY <1>1 DEF Closed
  <2>2. \A p \in kept : at[p] = moved(p) /\ IsList(p) /\ (Len(p) > 0 => p[1] # name)
    OBVIOUS
  <2>3. text[<<>>] = "{}"
    OBVIOUS
  <2> HIDE DEF text, new, kept, at, nth
  <2>4. ASSUME NEW p \in kept
        PROVE  IsList(at[p]) /\ Len(at[p]) = Len(p) /\ (Len(p) > 0 => at[p][1] = p[1])
    <3>1. DOMAIN p = 1 .. Len(p) /\ Len(p) \in Nat
      BY <2>2, ListIsFunction
    <3>2. at[p] = [k \in 1 .. Len(p) |-> at[p][k]]
      BY <2>2, <3>1
    <3>3. IsList(at[p]) /\ Len(at[p]) = Len(p)
      BY <3>1, <3>2, FunctionIsList
    <3>4. Len(p) > 0 => at[p][1] = p[1]
      <4> DEFINE part(k) == SubSeq(p, 1, k - 1)
                 g(k) == IF text[part(k)] = "[]" THEN Slot(nth(p, k)) ELSE p[k]
      <4>1. part(1) = <<>> /\ (Len(p) > 0 => 1 \in DOMAIN p)
        BY <2>2, PathBegins
      <4>2. at[p] = [k \in DOMAIN p |-> g(k)]
        BY <2>2
      <4> HIDE DEF part
      <4>3. g(1) = p[1]
        BY <2>3, <4>1
      <4> HIDE DEF g
      <4> QED
        BY <4>1, <4>2, <4>3
    <3> QED
      BY <3>3, <3>4
  <2>5. new[<<>>] = "{}" /\ <<>> \in DOMAIN new
    <3>1. at[<<>>] = <<>>
      <4>1. IsList(at[<<>>]) /\ Len(at[<<>>]) = 0
        BY <1>3, <2>4
      <4> QED
        BY <4>1, EmptySeq DEF IsList
    <3>2. \A p \in kept : at[p] = <<>> => p = <<>>
      <4> SUFFICES ASSUME NEW p \in kept, at[p] = <<>> PROVE p = <<>>
        OBVIOUS
      <4>1. Len(p) = 0 /\ IsList(p)
        BY <2>2, <2>4
      <4> QED
        BY <4>1, EmptySeq DEF IsList
    <3>3. (CHOOSE p \in kept : at[p] = <<>>) = <<>>
      BY <1>3, <3>1, <3>2
    <3> QED
      BY <1>3, <2>1, <2>3, <3>1, <3>3
  <2>6. ASSUME NEW q \in DOMAIN new
        PROVE  IsList(q) /\ (Len(q) > 0 => q[1] # name)
    <3>1. PICK p \in kept : q = at[p]
      BY <2>1
    <3> QED
      BY <2>2, <2>4, <3>1
  <2> QED
    BY <2>5, <2>6 DEF new
<1> QED
  BY <1>2, <1>3

(* The scrubbed data of an event.                                           *)
LEMMA ScrubDataTexts ==
  ASSUME NEW rules, NEW n, NEW data, SoundRules(rules), IsData(data)
  PROVE  LET new == ScrubData(rules, n, data).doc
         IN  ComesFrom(Leaves(new), Leaves(data), PreservedData(rules, n, data)) /\ IsData(new)
<1> DEFINE new == ScrubData(rules, n, data).doc
           prefix == <<"events", Slot(n), "data">>
           given == Under(data, <<"headers">>)
           beside == BesideHeaders(data)
           headers == ScrubHeaders(rules, "response", ResponseHeaders(data)).doc
           rest == ScrubValue(rules, prefix, beside).doc
           left == IF headers = Absent THEN Leaf("null") ELSE headers
           root == IF rest = Absent THEN Leaf("{}") ELSE rest
           part == [p \in {<<"headers">> \o q : q \in DOMAIN left} |-> left[Tail(p)]]
           kept == PreservedData(rules, n, data)
<1>1. CASE data = Absent
  <2>1. new = Absent
    BY <1>1 DEF ScrubData, Scrubbed
  <2> QED
    BY <2>1 DEF Absent, Leaves, ComesFrom, IsData
<1>2. CASE data # Absent
  <2>1. new = IF given = Absent THEN rest ELSE Both(root, part)
    BY <1>2 DEF ScrubData, Joined, Scrubbed
  <2>2. /\ ComesFrom(Leaves(headers), Leaves(data), kept)
        /\ DOMAIN headers \subseteq DOMAIN ResponseHeaders(data) /\ IsHeaders(headers)
    <3>1. IsHeaders(ResponseHeaders(data)) /\ Leaves(ResponseHeaders(data)) \subseteq Leaves(data) \cup Marks
      BY ResponseHeadersAreHeaders
    <3>2. /\ ComesFrom(Leaves(headers), Leaves(ResponseHeaders(data)),
                       PreservedHeaders(rules, "response", ResponseHeaders(data)))
          /\ DOMAIN headers \subseteq DOMAIN ResponseHeaders(data) /\ IsHeaders(headers)
      BY <3>1, ScrubHeadersTexts
    <3>3. PreservedHeaders(rules, "response", ResponseHeaders(data)) \subseteq kept
      BY DEF PreservedData
    <3> HIDE DEF headers, kept
    <3> QED
      BY <3>1, <3>2, <3>3, ComesFromMore
  <2>3. \A q \in DOMAIN headers : IsList(q) /\ Len(q) <= 2
    BY <2>2, ResponseHeadersAreHeaders DEF IsHeaders
  <2>4. /\ ComesFrom(Leaves(left), Leaves(data), kept)
        /\ \A q \in DOMAIN left : IsList(q) /\ Len(q) <= 2
    <3>1. CASE headers = Absent
      <4>1. left = Leaf("null")
        BY <3>1
      <4>2. DOMAIN left = {<<>>} /\ Leaves(left) = {"null"}
        BY <4>1 DEF Leaf, Leaves
      <4>3. IsList(<<>>) /\ Len(<<>>) <= 2
        BY EmptySeq DEF IsList
      <4> HIDE DEF left
      <4> QED
        BY <4>2, <4>3 DEF ComesFrom, Marks
    <3>2. CASE headers # Absent
      <4>1. left = headers
        BY <3>2
      <4> HIDE DEF left, headers
      <4> QED
        BY <2>2, <2>3, <4>1
    <3> QED
      BY <3>1, <3>2
  <2>5. /\ \A p \in DOMAIN beside : IsList(p) /\ (Len(p) > 0 => p[1] # "headers")
        /\ <<>> \in DOMAIN beside /\ beside[<<>>] = "{}"
        /\ Leaves(beside) \subseteq Leaves(data)
    <3>1. <<>> \in DOMAIN beside /\ data[<<>>] = "{}"
      BY <1>2, HeadersOfData
    <3>2. \A p \in DOMAIN beside : /\ p \in DOMAIN data /\ IsList(p) /\ beside[p] = data[p]
                                   /\ Len(p) > 0 => p[1] # "headers"
      BY HeadersOfData
    <3> HIDE DEF beside
    <3>3. \A p \in DOMAIN beside : IsList(p) /\ (Len(p) > 0 => p[1] # "headers")
      BY <3>2, Zenon
    <3>4. beside[<<>>] = "{}"
      BY <3>1, <3>2, Zenon
    <3>5. Leaves(beside) \subseteq Leaves(data)
      BY <3>2, Zenon DEF Leaves
    <3> QED
      BY <3>1, <3>3, <3>4, <3>5
  <2>6. ComesFrom(Leaves(rest), Leaves(data), kept)
    <3>1. PreservedBelow(rules, prefix, beside) \subseteq kept
      BY DEF PreservedData
    <3> HIDE DEF beside, prefix, kept
    <3>2. ComesFrom(Leaves(rest), Leaves(beside), PreservedBelow(rules, prefix, beside))
      BY ScrubValueTexts
    <3> HIDE DEF rest
    <3> QED
      BY <2>5, <3>1, <3>2, ComesFromMore
  <2>7. /\ rest = Absent \/ (<<>> \in DOMAIN rest /\ rest[<<>>] = "{}")
        /\ \A q \in DOMAIN rest : IsList(q) /\ (Len(q) > 0 => q[1] # "headers")
    <3> HIDE DEF beside, prefix
    <3> QED
      BY <2>5, ScrubValueShape
  <2>8. /\ ComesFrom(Leaves(root), Leaves(data), kept)
        /\ <<>> \in DOMAIN root /\ root[<<>>] = "{}"
        /\ \A q \in DOMAIN root : IsList(q) /\ (Len(q) > 0 => q[1] # "headers")
    <3>1. CASE rest = Absent
      <4>1. root = Leaf("{}")
        BY <3>1
      <4>2. DOMAIN root = {<<>>} /\ Leaves(root) = {"{}"} /\ root[<<>>] = "{}"
        BY <4>1 DEF Leaf, Leaves
      <4>3. IsList(<<>>) /\ ~(Len(<<>>) > 0)
        BY EmptySeq DEF IsList
      <4> HIDE DEF root
      <4> QED
        BY <4>2, <4>3 DEF ComesFrom, Marks
    <3>2. CASE rest # Absent
      <4>1. root = rest
        BY <3>2
      <4> HIDE DEF root, rest
      <4> QED
        BY <2>6, <2>7, <3>2, <4>1
    <3> QED
      BY <3>1, <3>2
  <2> HIDE DEF rest, root, headers, left, kept, given
  <2>9. ASSUME NEW p \in DOMAIN part
        PROVE  IsList(p) /\ Len(p) <= 3 /\ Len(p) # 0 /\ part[p] \in Leaves(left)
    <3>1. PICK q \in DOMAIN left : p = <<"headers">> \o q
      OBVIOUS
    <3>2. IsList(p) /\ Len(p) = Len(q) + 1 /\ Tail(p) = q
      BY <2>4, <3>1, PathJoins
    <3>3. part[p] = left[q]
      BY <3>2
    <3>4. Len(q) \in Nat /\ Len(q) <= 2
      BY <2>4, ListIsFunction
    <3> DEFINE size == Len(q)
    <3> HIDE DEF size, part
    <3>5. Len(p) = size + 1 /\ size \in Nat /\ size <= 2
      BY <3>2, <3>4 DEF size
    <3>6. Len(p) <= 3 /\ Len(p) # 0
      BY <3>5
    <3>7. part[p] \in Leaves(left)
      BY <3>3 DEF Leaves
    <3> QED
      BY <3>2, <3>6, <3>7
  <2> HIDE DEF part
  <2>10. ASSUME given = Absent
         PROVE  ComesFrom(Leaves(new), Leaves(data), kept) /\ IsData(new)
    <3>1. new = rest
      BY <2>1, <2>10
    <3> HIDE DEF new
    <3>2. \A q \in DOMAIN rest : IsList(q) /\ (Len(q) > 3 => q[1] # "headers")
      <4> SUFFICES ASSUME NEW q \in DOMAIN rest, Len(q) > 3 PROVE Len(q) > 0
        BY <2>7
      <4>1. Len(q) \in Nat
        BY <2>7, ListIsFunction
      <4> QED
        BY <4>1
    <3>3. IsData(rest)
      BY <2>7, <3>2, Zenon DEF IsData
    <3> QED
      BY <2>6, <3>1, <3>3
  <2>11. ASSUME given # Absent
         PROVE  ComesFrom(Leaves(new), Leaves(data), kept) /\ IsData(new)
    <3> DEFINE both == Both(root, part)
    <3>1. DOMAIN both = DOMAIN root \cup DOMAIN part
          /\ \A p \in DOMAIN both : both[p] = IF p \in DOMAIN root THEN root[p] ELSE part[p]
      BY DEF Both
    <3> HIDE DEF both
    <3>2. ASSUME NEW p \in DOMAIN both
          PROVE  both[p] \in Leaves(root) \cup Leaves(left) /\ IsList(p) /\ (Len(p) > 3 => p[1] # "headers")
      <4>1. CASE p \in DOMAIN root
        <5>1. IsList(p) /\ Len(p) \in Nat /\ (Len(p) > 0 => p[1] # "headers")
          BY <2>8, <4>1, ListIsFunction
        <5>2. Len(p) > 3 => Len(p) > 0
          BY <5>1
        <5> QED
          BY <3>1, <4>1, <5>1, <5>2 DEF Leaves
      <4>2. CASE p \notin DOMAIN root
        <5>1. p \in DOMAIN part /\ both[p] = part[p]
          BY <3>1, <4>2
        <5>2. IsList(p) /\ Len(p) \in Nat /\ Len(p) <= 3 /\ part[p] \in Leaves(left)
          BY <2>9, <5>1, ListIsFunction
        <5>3. ~(Len(p) > 3)
          BY <5>2
        <5> QED
          BY <5>1, <5>2, <5>3
      <4> QED
        BY <4>1, <4>2
    <3>3. <<>> \in DOMAIN both /\ both[<<>>] = "{}"
      BY <2>8, <3>1
    <3>4. ComesFrom(Leaves(both), Leaves(data), kept)
      <4>1. Leaves(both) \subseteq Leaves(root) \cup Leaves(left)
        BY <3>2 DEF Leaves
      <4> QED
        BY <2>4, <2>8, <4>1 DEF ComesFrom
    <3>5. new = both
      BY <2>1, <2>11 DEF both
    <3> HIDE DEF new
    <3>6. IsData(both)
      BY <3>2, <3>3, Zenon DEF IsData
    <3> QED
      BY <3>4, <3>5, <3>6
  <2> QED
    BY <2>10, <2>11 DEF kept
<1> QED
  BY <1>1, <1>2

-----------------------------------------------------------------------------
(* An interaction.                                                          *)

(* What scrubbing changes of an interaction: the headers, the query, the    *)
(* body, the data of the events and the scrub report, and no other field.   *)
ScrubbedFrom(new, i, rules, policy, salt) ==
  /\ DOMAIN new = DOMAIN i
  /\ new.run = i.run /\ new.id = i.id /\ new.parent = i.parent /\ new.seq = i.seq
  /\ new.service = i.service /\ new.operation = i.operation /\ new.protocol = i.protocol
  /\ new.tier = i.tier /\ new.method = i.method /\ new.latency = i.latency
  /\ new.policy = policy /\ new.salt = salt
  /\ new.headers = ScrubHeaders(rules, "request", i.headers).doc
  /\ new.url = ScrubQuery(rules, i.url).doc
  /\ new.body = ScrubValue(rules, <<"request", "body">>, i.body).doc
  /\ new.events = [k \in DOMAIN i.events |-> new.events[k]]
  /\ \A k \in DOMAIN i.events :
       /\ DOMAIN new.events[k] = DOMAIN i.events[k]
       /\ new.events[k].data = ScrubData(rules, k - 1, i.events[k].data).doc
       /\ new.events[k].seq = i.events[k].seq /\ new.events[k].t = i.events[k].t
       /\ new.events[k].sim = i.events[k].sim /\ new.events[k].type = i.events[k].type
       /\ new.events[k].nested = i.events[k].nested

(* Scrubbing changes nothing else of an interaction.                        *)
LEMMA ScrubInteractionFields ==
  ASSUME NEW rules, NEW policy, NEW salt, NEW i, IsInteraction(i),
         NEW new, new = ScrubInteraction(rules, policy, salt, i).interaction
  PROVE  ScrubbedFrom(new, i, rules, policy, salt)
<1> DEFINE headers == ScrubHeaders(rules, "request", i.headers)
           url == ScrubQuery(rules, i.url)
           body == ScrubValue(rules, <<"request", "body">>, i.body)
           data == [k \in DOMAIN i.events |-> ScrubData(rules, k - 1, i.events[k].data)]
           parts == {headers, body} \cup ToSet(data)
           redacted == url.paths \cup UNION {r.paths : r \in parts}
           kinds == url.kinds \cup UNION {r.kinds : r \in parts}
           events == [k \in DOMAIN i.events |-> [i.events[k] EXCEPT !.data = data[k].doc]]
<1>1. new = [i EXCEPT !.headers = headers.doc, !.url = url.doc, !.body = body.doc, !.events = events,
                      !.redacted = redacted, !.kinds = kinds, !.policy = policy, !.salt = salt]
  BY DEF ScrubInteraction, Assembled
<1>2. {"headers", "url", "body", "events", "redacted", "kinds", "policy", "salt"} \subseteq DOMAIN i
  BY DEF IsInteraction
<1>3. \A k \in DOMAIN i.events : DOMAIN i.events[k] = {"seq", "t", "sim", "type", "data", "nested"}
  BY DEF IsInteraction
<1>4. \A k \in DOMAIN i.events : data[k] = ScrubData(rules, k - 1, i.events[k].data)
  OBVIOUS
<1> HIDE DEF data
<1>5. /\ events = [k \in DOMAIN i.events |-> events[k]]
      /\ \A k \in DOMAIN i.events :
           /\ DOMAIN events[k] = DOMAIN i.events[k]
           /\ events[k].data = ScrubData(rules, k - 1, i.events[k].data).doc
           /\ events[k].seq = i.events[k].seq /\ events[k].t = i.events[k].t
           /\ events[k].sim = i.events[k].sim /\ events[k].type = i.events[k].type
           /\ events[k].nested = i.events[k].nested
  BY <1>3, <1>4
<1> HIDE DEF headers, url, body, parts, redacted, kinds, events
<1>6. DOMAIN new = DOMAIN i
  BY <1>1
<1>7. /\ new.run = i.run /\ new.id = i.id /\ new.parent = i.parent /\ new.seq = i.seq
      /\ new.service = i.service /\ new.operation = i.operation /\ new.protocol = i.protocol
      /\ new.tier = i.tier /\ new.method = i.method /\ new.latency = i.latency
  <2>1. {"run", "id", "parent", "seq", "service", "operation", "protocol", "tier", "method", "latency"} \subseteq DOMAIN i
    BY DEF IsInteraction
  <2> QED
    BY <1>1, <2>1
<1>8. new.policy = policy /\ new.salt = salt
  BY <1>1, <1>2
<1>9. new.headers = headers.doc /\ new.url = url.doc
  BY <1>1, <1>2
<1>10. new.body = body.doc /\ new.events = events
  BY <1>1, <1>2
<1> QED
  BY <1>5, <1>6, <1>7, <1>8, <1>9, <1>10 DEF headers, url, body, ScrubbedFrom

(* Whatever the rules are, a text of a scrubbed interaction marks a         *)
(* structure, or is a captured text in which no detector finds anything or  *)
(* that a rule preserves, or is the hash or the mask of what was captured;  *)
(* of a captured number or boolean nothing is said, since none is scanned.  *)
(* What comes out is an interaction (scrub/pipeline.go ScrubInteraction).   *)
THEOREM ScrubbedTextsAreClean ==
  ASSUME NEW rules, NEW policy, NEW salt, NEW i, SoundRules(rules), IsInteraction(i)
  PROVE  LET new == ScrubInteraction(rules, policy, salt, i).interaction
         IN  IsInteraction(new) /\ ComesFrom(TextsOf(new), TextsOf(i), Preserved(rules, i))
<1> DEFINE new == ScrubInteraction(rules, policy, salt, i).interaction
           values(url) == {pair[2] : pair \in ToSet(url.query)}
           texts == TextsOf(i)
           kept == Preserved(rules, i)
<1>0. ScrubbedFrom(new, i, rules, policy, salt)
  BY ScrubInteractionFields
<1>1. /\ DOMAIN new = DOMAIN i
      /\ new.seq = i.seq /\ new.service = i.service /\ new.protocol = i.protocol
      /\ new.headers = ScrubHeaders(rules, "request", i.headers).doc
      /\ new.url = ScrubQuery(rules, i.url).doc
      /\ new.body = ScrubValue(rules, <<"request", "body">>, i.body).doc
      /\ new.events = [k \in DOMAIN i.events |-> new.events[k]]
      /\ \A k \in DOMAIN i.events :
           /\ DOMAIN new.events[k] = DOMAIN i.events[k]
           /\ new.events[k].data = ScrubData(rules, k - 1, i.events[k].data).doc
  BY <1>0 DEF ScrubbedFrom
<1>2. /\ i.seq \in Int /\ IsHeaders(i.headers)
      /\ DOMAIN i.url = {"scheme", "host", "path", "query"} /\ IsList(i.url.query)
      /\ IsList(i.events)
      /\ \A k \in DOMAIN i.events : /\ DOMAIN i.events[k] = {"seq", "t", "sim", "type", "data", "nested"}
                                    /\ IsData(i.events[k].data)
      /\ i.protocol = "tool" => i.service = "stagehand.tool"
  BY DEF IsInteraction
<1> HIDE DEF new
<1>3. IsHeaders(new.headers) /\ ComesFrom(Leaves(new.headers), texts, kept)
  <2>1. Leaves(i.headers) \subseteq texts /\ PreservedHeaders(rules, "request", i.headers) \subseteq kept
    BY DEF TextsOf, Preserved
  <2>2. /\ ComesFrom(Leaves(new.headers), Leaves(i.headers), PreservedHeaders(rules, "request", i.headers))
        /\ IsHeaders(new.headers)
    BY <1>1, <1>2, ScrubHeadersTexts
  <2> HIDE DEF texts, kept
  <2> QED
    BY <2>1, <2>2, ComesFromMore
<1>4. /\ DOMAIN new.url = {"scheme", "host", "path", "query"} /\ IsList(new.url.query)
      /\ ComesFrom(values(new.url), texts, kept)
  <2>1. values(i.url) \subseteq texts /\ PreservedQuery(rules, i.url) \subseteq kept
    BY DEF TextsOf, Preserved
  <2> DEFINE old == i.url
             left == ScrubQuery(rules, old).doc
  <2>2. "query" \in DOMAIN old /\ IsList(old.query) /\ new.url = left
    BY <1>1, <1>2
  <2>3. /\ ComesFrom(values(new.url), values(i.url), PreservedQuery(rules, i.url))
        /\ DOMAIN new.url = DOMAIN i.url /\ IsList(new.url.query)
    <3> HIDE DEF old
    <3>1. /\ ComesFrom(values(left), values(old), PreservedQuery(rules, old))
          /\ DOMAIN left = DOMAIN old /\ IsList(left.query)
      BY <2>2, ScrubQueryTexts
    <3> HIDE DEF left, values
    <3> QED
      BY <2>2, <3>1 DEF old
  <2> HIDE DEF texts, kept, values
  <2> QED
    BY <1>2, <2>1, <2>3, ComesFromMore
<1>5. ComesFrom(Leaves(new.body), texts, kept)
  <2>1. Leaves(i.body) \subseteq texts /\ PreservedBelow(rules, <<"request", "body">>, i.body) \subseteq kept
    BY DEF TextsOf, Preserved
  <2>2. ComesFrom(Leaves(new.body), Leaves(i.body), PreservedBelow(rules, <<"request", "body">>, i.body))
    BY <1>1, ScrubValueTexts
  <2> HIDE DEF texts, kept
  <2> QED
    BY <2>1, <2>2, ComesFromMore
<1>6. ASSUME NEW k \in DOMAIN new.events
      PROVE  IsData(new.events[k].data) /\ ComesFrom(Leaves(new.events[k].data), texts, kept)
  <2> DEFINE n == k - 1
             data == i.events[k].data
  <2>1. k \in DOMAIN i.events
    BY <1>1
  <2>2. Leaves(data) \subseteq texts /\ PreservedData(rules, n, data) \subseteq kept
    BY <2>1 DEF TextsOf, Preserved
  <2>3. IsData(data) /\ new.events[k].data = ScrubData(rules, n, data).doc
    BY <1>1, <1>2, <2>1
  <2> HIDE DEF n, data, texts, kept
  <2>4. /\ ComesFrom(Leaves(new.events[k].data), Leaves(data), PreservedData(rules, n, data))
        /\ IsData(new.events[k].data)
    BY <2>3, ScrubDataTexts
  <2> QED
    BY <2>2, <2>4, ComesFromMore
<1>7. IsList(new.events)
  <2>1. Len(i.events) \in Nat /\ DOMAIN i.events = 1 .. Len(i.events)
    BY <1>2, ListIsFunction
  <2>2. new.events = [k \in DOMAIN i.events |-> new.events[k]]
    BY <1>1
  <2> DEFINE events == new.events
             size == Len(i.events)
  <2>3. size \in Nat /\ events = [k \in 1 .. size |-> events[k]]
    BY <2>1, <2>2
  <2> HIDE DEF events, size
  <2>4. IsList(events)
    BY <2>3, FunctionIsList
  <2> QED
    BY <2>4 DEF events
<1>8. IsInteraction(new)
  BY <1>1, <1>2, <1>3, <1>4, <1>6, <1>7, Zenon DEF IsInteraction
<1>9. ComesFrom(TextsOf(new), texts, kept)
  <2>1. TextsOf(new) = Leaves(new.headers) \cup Leaves(new.body) \cup values(new.url)
                         \cup UNION {Leaves(new.events[k].data) : k \in DOMAIN new.events}
    BY DEF TextsOf
  <2> HIDE DEF texts, kept, values
  <2> QED
    BY <1>3, <1>4, <1>5, <1>6, <2>1 DEF ComesFrom
<1> QED
  BY <1>8, <1>9 DEF new
================================================================================
