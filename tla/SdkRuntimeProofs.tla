--------------------------- MODULE SdkRuntimeProofs ---------------------------
(***************************************************************************)
(* Theorems about the Python SDK (SdkRuntime), for any number of threads,  *)
(* tools, requests, rules and recorded interactions.                       *)
(*                                                                         *)
(* The invariant that makes them inductive has four parts: what the local  *)
(* variables of a call hold at each of its points (TypeInv), how counters  *)
(* and calls that count agree where none has raced (CountInv),             *)
(* which interactions the replay queues still hold and how that fits what  *)
(* was handed out (QueueInv), and who has a number and is a parent         *)
(* (ParentInv, with OneOwner).                                             *)
(***************************************************************************)
EXTENDS SdkRuntime, SequenceTheorems, WellFoundedInduction, TLAPS

(* A call that is under way has a target, that of a replayed tool is a tool *)
(* and what is replayed is one of the source run.                           *)
LocalRight(point, local) ==
  /\ point # "free" => local.target \in Calls
  /\ point = "take" => local.target \in Tools
  /\ point = "replay" => local.source \in Sources

TypeInv == TypeOK /\ \A t \in Threads : LocalRight(pc[t], call[t])

(* Without a race the counter is the number of calls counted, and the one   *)
(* that is to write its count back is alone and next.                       *)
CountersRight(op) ==
  /\ counts[op] = counted[op]
  /\ \A t \in Threads :
       Counting(t, op) =>
         /\ call[t].count = counts[op] + 1
         /\ \A u \in Threads : Counting(u, op) => u = t

CountInv == NthUnlessRaced /\ \A op \in Operations \ raced : CountersRight(op)

(* The queue of its key still has interaction i.                            *)
Left(i) == \E d \in DOMAIN queue[Seeds[i].key] : queue[Seeds[i].key][d] = i

Increasing(q) == \A d, e \in DOMAIN q : d < e => q[d] < q[e]

(* What is left of each key is in recorded order, and the last of them; it  *)
(* was not handed out as an exact answer and all else was, once.            *)
HandedRight(i) ==
  IF mode = "replay"
    THEN IF Left(i) THEN handed[i] \in {<<>>, <<"nearest">>}
                    ELSE handed[i] \in {<<"exact">>, <<"nearest", "exact">>}
    ELSE handed[i] = <<>>

QueueInv ==
  /\ \A key \in Tools \cup Keys :
       /\ Increasing(queue[key])
       /\ \A d \in DOMAIN queue[key] : Seeds[queue[key][d]].key = key
       /\ mode = "record" => queue[key] = <<>>
  /\ \A i, j \in Sources : i < j /\ Seeds[i].key = Seeds[j].key /\ Left(i) => Left(j)
  /\ \A i \in Sources : HandedRight(i)
  /\ \A i \in Sources : Seeds[i].key \in Keys /\ handed[i] # <<>> => i \in used

(* A parent is a tool that is known and has the lower number.               *)
ParentRight(p) == p # 0 => p < next /\ Known(p)

ParentInv ==
  /\ Importable
  /\ \A t \in Threads : ParentRight(context[t])
  /\ \A t \in Threads : \A d \in DOMAIN stack[t] :
       /\ ParentRight(stack[t][d].parent)
       /\ stack[t][d].parent # 0 => stack[t][d].parent < stack[t][d].number
  /\ \A t \in Threads : At(t, "append") => context[t] < call[t].number

-----------------------------------------------------------------------------
(* Induction and least elements, and the recursion that seeds the queues.   *)

(* A set of natural numbers that is not empty has a least element.          *)
LEMMA Least ==
  ASSUME NEW T, T \subseteq Nat, T # {}
  PROVE  \E n \in T : \A m \in T : n <= m
<1>1. PICK n \in T : \A m \in T : ~ (<<m, n>> \in OpToRel(<, Nat))
  BY NatLessThanWellFounded, WFMin, Zenon
<1>2. \A m \in T : ~ (m < n)
  BY <1>1 DEF OpToRel
<1> QED BY <1>2

(* A set that holds the numbers up to n + 1 when it holds n holds them all. *)
LEMMA Induct ==
  ASSUME NEW T, 0 \in T, \A n \in Nat : n \in T => n + 1 \in T
  PROVE  Nat \subseteq T
<1> SUFFICES ASSUME Nat \ T # {} PROVE FALSE
  OBVIOUS
<1>1. PICK n \in Nat \ T : \A m \in Nat \ T : n <= m
  BY Least
<1>2. n # 0 /\ n - 1 \in Nat /\ n - 1 \in T
  BY <1>1
<1>3. (n - 1) + 1 \in T
  BY <1>2
<1> QED BY <1>1, <1>3

(* One step of seed: interaction n goes behind the others of its key.       *)
SeedOne(queues, n) == [queues EXCEPT ![Seeds[n].key] = Append(@, n)]

Empty == [key \in Tools \cup Keys |-> <<>>]

SeedsOf(f, n) == f = [m \in 0..n |-> IF m = 0 THEN Empty ELSE SeedOne(f[m - 1], m)]

(* The recursion that defines Seeded has a solution, so Seeded is one.      *)
LEMMA SeededDef == SeedsOf(Seeded, Len(Seeds))
<1> DEFINE T == {n \in Nat : \E f : SeedsOf(f, n)}
<1>1. 0 \in T
  <2> DEFINE f == [m \in 0..0 |-> Empty]
  <2>1. SeedsOf(f, 0)
    BY DEF SeedsOf
  <2> QED BY <2>1
<1>2. ASSUME NEW n \in Nat, n \in T
      PROVE  n + 1 \in T
  <2>1. PICK f : SeedsOf(f, n)
    BY <1>2
  <2> DEFINE g == [m \in 0..(n + 1) |-> IF m \in 0..n THEN f[m] ELSE SeedOne(f[n], n + 1)]
  <2>2. ASSUME NEW m \in 0..(n + 1)
        PROVE  g[m] = IF m = 0 THEN Empty ELSE SeedOne(g[m - 1], m)
    <3>1. CASE m = 0
      BY <2>1, <3>1 DEF SeedsOf
    <3>2. CASE m \in 1..n
      <4>1. g[m] = f[m] /\ g[m - 1] = f[m - 1]
        BY <3>2
      <4>2. f[m] = SeedOne(f[m - 1], m)
        BY <2>1, <3>2 DEF SeedsOf
      <4> QED BY <3>2, <4>1, <4>2
    <3>3. CASE m = n + 1
      BY <3>3
    <3> QED BY <3>1, <3>2, <3>3
  <2>3. SeedsOf(g, n + 1)
    <3> DEFINE h == [m \in 0..(n + 1) |-> IF m = 0 THEN Empty ELSE SeedOne(g[m - 1], m)]
    <3>1. \A m \in 0..(n + 1) : g[m] = h[m]
      BY <2>2
    <3>2. g = h
      BY <3>1
    <3> QED BY <3>2, Zenon DEF SeedsOf
  <2> QED BY <2>3
<1>3. Nat \subseteq T
  <2> HIDE DEF T
  <2> QED BY <1>1, <1>2, Induct
<1>4. \E f : SeedsOf(f, Len(Seeds))
  BY <1>3, LenProperties, SdkAssumption
<1> QED BY <1>4, Zenon DEF SeedsOf, Seeded, SeedOne, Empty

(* What the queues are after the first n interactions: every one of them is *)
(* behind the earlier ones of its key, and nothing else is there.           *)
SeededUpTo(queues, n) ==
  /\ queues \in [Tools \cup Keys -> Seq(Sources)]
  /\ \A key \in Tools \cup Keys :
       /\ Increasing(queues[key])
       /\ \A d \in DOMAIN queues[key] : queues[key][d] <= n /\ Seeds[queues[key][d]].key = key
  /\ \A i \in 1..n : \E d \in DOMAIN queues[Seeds[i].key] : queues[Seeds[i].key][d] = i

(* What the source run consists of.                                         *)
LEMMA SeedTypes ==
  /\ Len(Seeds) \in Nat
  /\ \A i \in Sources : /\ i \in Nat
                        /\ Seeds[i].key \in Tools \cup Keys
                        /\ Seeds[i].parent \in Nat
                        /\ Seeds[i].kind \in Kinds
<1>1. Seeds \in Seq([key : Tools \cup Keys, parent : Nat, kind : Kinds])
  BY SdkAssumption
<1>2. Len(Seeds) \in Nat /\ \A i \in 1..Len(Seeds) : Seeds[i] \in [key : Tools \cup Keys, parent : Nat, kind : Kinds]
  BY <1>1, LenProperties, ElementOfSeq
<1> QED BY <1>2 DEF Sources

(* Appending a larger number to an increasing sequence.                     *)
LEMMA IncreasingAppend ==
  ASSUME NEW q \in Seq(Nat), NEW n \in Nat, Increasing(q), \A d \in DOMAIN q : q[d] < n
  PROVE  Increasing(Append(q, n))
<1> DEFINE a == Append(q, n)
<1>1. /\ Len(a) = Len(q) + 1 /\ DOMAIN a = 1..(Len(q) + 1) /\ DOMAIN q = 1..Len(q)
      /\ \A d \in 1..Len(q) : a[d] = q[d]
      /\ a[Len(q) + 1] = n
  BY AppendProperties, LenProperties
<1>2. Len(q) \in Nat
  BY LenProperties
<1> HIDE DEF a
<1>3. ASSUME NEW d \in DOMAIN a, NEW e \in DOMAIN a, d < e
      PROVE  a[d] < a[e]
  <2>1. d \in 1..Len(q) /\ a[d] = q[d]
    BY <1>1, <1>2, <1>3
  <2>2. CASE e = Len(q) + 1
    BY <1>1, <2>1, <2>2
  <2>3. CASE e \in 1..Len(q)
    BY <1>1, <1>3, <2>1, <2>3 DEF Increasing
  <2> QED BY <1>1, <1>2, <2>2, <2>3
<1>4. Increasing(a)
  BY <1>3 DEF Increasing
<1> QED BY <1>4 DEF a

(* One more interaction keeps the queues in order.                          *)
LEMMA SeedOneMore ==
  ASSUME NEW queues, NEW n \in Sources, SeededUpTo(queues, n - 1)
  PROVE  SeededUpTo(SeedOne(queues, n), n)
<1> DEFINE key == Seeds[n].key
           after == SeedOne(queues, n)
<1>1. n \in Nat \ {0} /\ key \in Tools \cup Keys
  BY SeedTypes DEF Sources
<1>2. queues \in [Tools \cup Keys -> Seq(Sources)]
  BY DEF SeededUpTo
<1>3. /\ \A k \in Tools \cup Keys : k # key => after[k] = queues[k]
      /\ after[key] = Append(queues[key], n)
      /\ DOMAIN after = Tools \cup Keys
  BY <1>1, <1>2 DEF SeedOne
<1>4. queues[key] \in Seq(Sources) /\ queues[key] \in Seq(Nat)
  BY <1>1, <1>2, SeedTypes DEF Sources
<1>5. /\ DOMAIN after[key] = 1..(Len(queues[key]) + 1) /\ DOMAIN queues[key] = 1..Len(queues[key])
      /\ Len(queues[key]) \in Nat
      /\ \A d \in 1..Len(queues[key]) : after[key][d] = queues[key][d]
      /\ after[key][Len(queues[key]) + 1] = n
      /\ after[key] \in Seq(Sources)
  BY <1>3, <1>4, AppendProperties, LenProperties
<1>6. \A d \in DOMAIN queues[key] : queues[key][d] \in Nat /\ queues[key][d] <= n - 1 /\ Seeds[queues[key][d]].key = key
  <2>1. \A k \in Tools \cup Keys : \A d \in DOMAIN queues[k] : queues[k][d] <= n - 1 /\ Seeds[queues[k][d]].key = k
    BY DEF SeededUpTo
  <2>2. \A d \in 1..Len(queues[key]) : queues[key][d] \in Nat
    BY <1>4, ElementOfSeq
  <2> HIDE DEF key
  <2> QED BY <1>1, <1>5, <2>1, <2>2
<1>7. after \in [Tools \cup Keys -> Seq(Sources)]
  BY <1>1, <1>2, <1>5 DEF SeedOne
<1>8. ASSUME NEW k \in Tools \cup Keys
      PROVE  /\ Increasing(after[k])
             /\ \A d \in DOMAIN after[k] : after[k][d] <= n /\ Seeds[after[k][d]].key = k
  <2>1. CASE k = key
    <3>1. Increasing(queues[key])
      BY <1>1 DEF SeededUpTo
    <3>2. \A d \in DOMAIN queues[key] : queues[key][d] < n
      BY <1>1, <1>6
    <3>3. Increasing(Append(queues[key], n))
      <4> HIDE DEF key
      <4> QED BY <1>1, <1>4, <3>1, <3>2, IncreasingAppend
    <3>4. ASSUME NEW d \in DOMAIN after[key]
          PROVE  after[key][d] <= n /\ Seeds[after[key][d]].key = key
      <4>1. CASE d = Len(queues[key]) + 1
        <5>1. after[key][d] = n /\ Seeds[n].key = key
          BY <1>5, <4>1
        <5> HIDE DEF after, key
        <5> QED BY <1>1, <5>1
      <4>2. CASE d \in 1..Len(queues[key])
        <5>1. after[key][d] = queues[key][d] /\ d \in DOMAIN queues[key]
          BY <1>5, <4>2
        <5> HIDE DEF after, key
        <5> QED BY <1>1, <1>6, <5>1
      <4> HIDE DEF after, key
      <4> QED BY <1>5, <3>4, <4>1, <4>2
    <3> QED BY <2>1, <1>3, <3>3, <3>4
  <2>2. CASE k # key
    <3>1. after[k] = queues[k] /\ queues[k] \in Seq(Sources)
      BY <2>2, <1>2, <1>3
    <3>2. \A d \in DOMAIN queues[k] : queues[k][d] \in Nat
      BY <3>1, SeedTypes
    <3>3. Increasing(queues[k]) /\ \A d \in DOMAIN queues[k] : queues[k][d] <= n - 1 /\ Seeds[queues[k][d]].key = k
      BY DEF SeededUpTo
    <3> HIDE DEF after
    <3> QED BY <1>1, <3>1, <3>2, <3>3
  <2> QED BY <2>1, <2>2
<1>9. ASSUME NEW i \in 1..n
      PROVE  \E d \in DOMAIN after[Seeds[i].key] : after[Seeds[i].key][d] = i
  <2>1. CASE i = n
    <3>1. Len(queues[key]) + 1 \in DOMAIN after[key] /\ after[key][Len(queues[key]) + 1] = n
      <4> HIDE DEF after, key
      <4> QED BY <1>5
    <3> QED BY <2>1, <3>1
  <2>2. CASE i # n
    <3>1. i \in 1..(n - 1) /\ i \in Sources
      BY <1>1, <2>2, SeedTypes DEF Sources
    <3>2. PICK d \in DOMAIN queues[Seeds[i].key] : queues[Seeds[i].key][d] = i
      BY <3>1 DEF SeededUpTo
    <3>3. Seeds[i].key \in Tools \cup Keys
      BY <3>1, SeedTypes
    <3>4. CASE Seeds[i].key = key
      <4>1. d \in DOMAIN queues[key] /\ queues[key][d] = i
        BY <3>2, <3>4
      <4>2. d \in DOMAIN after[key] /\ after[key][d] = i
        <5> HIDE DEF after, key
        <5> QED BY <1>5, <4>1
      <4> QED BY <3>4, <4>2
    <3>5. CASE Seeds[i].key # key
      <4> HIDE DEF after
      <4> QED BY <1>3, <3>2, <3>3, <3>5
    <3> QED BY <3>4, <3>5
  <2> QED BY <2>1, <2>2
<1> HIDE DEF after
<1>10. SeededUpTo(after, n)
  BY <1>7, <1>8, <1>9 DEF SeededUpTo
<1> QED BY <1>10 DEF after

(* The queues as they are seeded.                                           *)
LEMMA SeededInOrder == \A n \in 0..Len(Seeds) : SeededUpTo(Seeded[n], n)
<1> DEFINE T == {n \in Nat : n <= Len(Seeds) => SeededUpTo(Seeded[n], n)}
<1>1. Len(Seeds) \in Nat
  BY SeedTypes
<1>2. Seeded[0] = Empty /\ \A m \in Sources : Seeded[m] = SeedOne(Seeded[m - 1], m)
  BY <1>1, SeededDef DEF SeedsOf, Sources
<1>3. 0 \in T
  <2>1. \A key \in Tools \cup Keys : Empty[key] = <<>>
    BY DEF Empty
  <2>2. <<>> \in Seq(Sources) /\ DOMAIN <<>> = {}
    BY EmptySeq
  <2>3. Empty \in [Tools \cup Keys -> Seq(Sources)]
    BY <2>2 DEF Empty
  <2>4. SeededUpTo(Empty, 0)
    BY <2>1, <2>2, <2>3 DEF SeededUpTo, Increasing
  <2> QED BY <1>2, <2>4
<1>4. ASSUME NEW n \in Nat, n \in T
      PROVE  n + 1 \in T
  <2> SUFFICES ASSUME n + 1 <= Len(Seeds) PROVE SeededUpTo(Seeded[n + 1], n + 1)
    OBVIOUS
  <2>1. n + 1 \in Sources /\ (n + 1) - 1 = n
    BY <1>1 DEF Sources
  <2>2. SeededUpTo(Seeded[n], n)
    BY <1>1, <1>4
  <2>3. SeededUpTo(SeedOne(Seeded[n], n + 1), n + 1)
    BY <2>1, <2>2, SeedOneMore
  <2> QED BY <1>2, <2>1, <2>3
<1>5. Nat \subseteq T
  <2> HIDE DEF T
  <2> QED BY <1>3, <1>4, Induct
<1> QED BY <1>1, <1>5

-----------------------------------------------------------------------------
(* Types.                                                                   *)

(* The first key tried that still has answers is one of the keys.           *)
LEMMA FirstFilledIsFilled ==
  ASSUME NEW r \in Requests, Filled(r) # {}
  PROVE  FirstFilled(r) \in Keys /\ queue[FirstFilled(r)] # <<>>
<1>1. Tried[r] \in Seq(Keys)
  BY SdkAssumption
<1>2. Len(Tried[r]) \in Nat /\ DOMAIN Tried[r] = 1..Len(Tried[r])
  BY <1>1, LenProperties
<1>3. Filled(r) \subseteq Nat
  BY <1>2 DEF Filled
<1>4. \E n \in Filled(r) : \A m \in Filled(r) : n <= m
  BY <1>3, Least
<1> DEFINE n == CHOOSE n \in Filled(r) : \A m \in Filled(r) : n <= m
<1>5. n \in Filled(r)
  BY <1>4
<1>6. FirstFilled(r) = Tried[r][n]
  BY DEF FirstFilled
<1> HIDE DEF n
<1>7. n \in 1..Len(Tried[r]) /\ queue[Tried[r][n]] # <<>>
  BY <1>2, <1>5 DEF Filled
<1>8. Tried[r][n] \in Keys
  BY <1>1, <1>7, ElementOfSeq
<1> QED BY <1>6, <1>7, <1>8

(* A call that moves to a point with the locals that belong there.          *)
LEMMA GotoTyped ==
  ASSUME TypeInv, NEW t \in Threads, NEW point \in Points, NEW local \in Local,
         LocalRight(point, local), Goto(t, point, local)
  PROVE  /\ pc' \in [Threads -> Points] /\ call' \in [Threads -> Local]
         /\ \A u \in Threads : LocalRight(pc'[u], call'[u])
<1>1. pc \in [Threads -> Points] /\ call \in [Threads -> Local] /\ \A u \in Threads : LocalRight(pc[u], call[u])
  BY DEF TypeInv, TypeOK
<1>2. pc' = [pc EXCEPT ![t] = point] /\ call' = [call EXCEPT ![t] = local]
  BY DEF Goto
<1>3. pc' \in [Threads -> Points] /\ call' \in [Threads -> Local]
  BY <1>1, <1>2
<1>4. ASSUME NEW u \in Threads PROVE LocalRight(pc'[u], call'[u])
  <2>1. CASE u = t
    <3>1. pc'[u] = point /\ call'[u] = local
      BY <1>1, <1>2, <2>1
    <3> QED BY <3>1
  <2>2. CASE u # t
    <3>1. pc'[u] = pc[u] /\ call'[u] = call[u]
      BY <1>1, <1>2, <2>2
    <3> QED BY <1>1, <3>1
  <2> QED BY <2>1, <2>2
<1> QED BY <1>3, <1>4

(* A call that ends.                                                        *)
LEMMA DoneTyped ==
  ASSUME TypeInv, NEW t \in Threads, Done(t)
  PROVE  /\ pc' \in [Threads -> Points] /\ call' \in [Threads -> Local]
         /\ \A u \in Threads : LocalRight(pc'[u], call'[u])
<1>1. "free" \in Points /\ NoLocal \in Local /\ LocalRight("free", NoLocal)
  BY DEF Points, NoLocal, Local, Tiers, LocalRight
<1> QED BY <1>1, GotoTyped DEF Done

(* What a call finds in its locals.                                         *)
LEMMA LocalTyped ==
  ASSUME TypeInv, NEW t \in Threads
  PROVE  /\ call[t] \in Local /\ pc[t] \in Points
         /\ LocalRight(pc[t], call[t])
         /\ pc[t] # "free" => call[t].target \in Calls /\ Operation[call[t].target] \in Operations
BY DEF TypeInv, TypeOK, LocalRight, Operations

(* What an entry is made of.                                                *)
LEMMA AppendTyped ==
  ASSUME TypeInv, NEW parent \in Nat, NEW source \in Sources \cup {0}, AppendNew(parent, source)
  PROVE  next' \in 1..(MaxNumber + 1) /\ buffer' \subseteq Interaction
<1>1. next \in 1..(MaxNumber + 1) /\ buffer \subseteq Interaction
  BY DEF TypeInv, TypeOK
<1>2. [number |-> next, parent |-> parent, source |-> source] \in Interaction
  BY <1>1 DEF Interaction
<1> QED BY <1>1, <1>2, SdkAssumption DEF AppendNew

(* The answer that is taken from a queue and what stays.                    *)
LEMMA TakeTyped ==
  ASSUME TypeInv, NEW key \in Tools \cup Keys, queue[key] # <<>>
  PROVE  /\ Take(queue[key]).first \in Sources
         /\ [queue EXCEPT ![key] = Take(@).rest] \in [Tools \cup Keys -> Seq(Sources)]
<1>1. queue \in [Tools \cup Keys -> Seq(Sources)] /\ queue[key] \in Seq(Sources)
  BY DEF TypeInv, TypeOK
<1>2. Head(queue[key]) \in Sources /\ Tail(queue[key]) \in Seq(Sources)
  BY <1>1, HeadTailProperties
<1> QED BY <1>1, <1>2 DEF Take

(* An answer that is handed out is a stream, or on its way to the buffer.   *)
LEMMA AnswerTyped ==
  ASSUME TypeInv, NEW t \in Threads, NEW source \in Sources, NEW tier \in Tiers,
         pc[t] = "go", Answer(t, source, tier)
  PROVE  /\ pc' \in [Threads -> Points] /\ call' \in [Threads -> Local]
         /\ \A u \in Threads : LocalRight(pc'[u], call'[u])
         /\ openSeeds' \subseteq Sources \X Tiers
<1>1. openSeeds \subseteq Sources \X Tiers
  BY DEF TypeInv, TypeOK
<1>2. CASE AsStream(call[t].target, source)
  <2>1. openSeeds' = openSeeds \cup {<<source, tier>>} /\ Done(t)
    BY <1>2 DEF Answer
  <2> QED BY <1>1, <2>1, DoneTyped
<1>4. CASE ~ AsStream(call[t].target, source) /\ Seeds[source].kind = "cut"
  <2>1. openSeeds' = openSeeds /\ Done(t)
    BY <1>4 DEF Answer
  <2> QED BY <1>1, <2>1, DoneTyped
<1>3. CASE ~ AsStream(call[t].target, source) /\ Seeds[source].kind # "cut"
  <2> DEFINE local == [call[t] EXCEPT !.source = source, !.tier = tier]
  <2>1. openSeeds' = openSeeds /\ Goto(t, "replay", local)
    BY <1>3 DEF Answer
  <2>2. local \in Local /\ LocalRight("replay", local) /\ "replay" \in Points
    BY LocalTyped DEF Local, LocalRight, Points
  <2> HIDE DEF local
  <2> QED BY <1>1, <2>1, <2>2, GotoTyped
<1> QED BY <1>2, <1>3, <1>4

(* A source interaction that is handed out.                                 *)
LEMMA HandOutTyped ==
  ASSUME TypeInv, NEW i \in Sources, NEW tier \in Tiers, HandOut(i, tier)
  PROVE  handed' \in [Sources -> Seq(Tiers)]
<1>1. handed \in [Sources -> Seq(Tiers)]
  BY DEF TypeInv, TypeOK
<1>2. Append(handed[i], tier) \in Seq(Tiers)
  BY <1>1, AppendProperties
<1> QED BY <1>1, <1>2 DEF HandOut

(* What the threads' calls hold.                                            *)
CallsTyped == /\ pc \in [Threads -> Points] /\ call \in [Threads -> Local]
              /\ \A u \in Threads : LocalRight(pc[u], call[u])

(* The program starts well typed.                                           *)
LEMMA InitTyped == Init => TypeInv
<1> SUFFICES ASSUME Init PROVE TypeInv
  OBVIOUS
<1>1. Len(Seeds) \in Nat /\ {MaxNumber, MaxOpen} \subseteq Nat
  BY SeedTypes, SdkAssumption
<1>2. queue \in [Tools \cup Keys -> Seq(Sources)]
  <2>1. PICK n \in 0..Len(Seeds) : queue = Seeded[n]
    BY <1>1 DEF Init
  <2>2. SeededUpTo(Seeded[n], n)
    BY <2>1, SeededInOrder
  <2> QED BY <2>1, <2>2 DEF SeededUpTo
<1>3. handed \in [Sources -> Seq(Tiers)] /\ stack \in [Threads -> Seq([number : Nat, parent : Nat])]
  BY EmptySeq DEF Init
<1>4. CallsTyped
  BY DEF Init, CallsTyped, Points, NoLocal, Local, Tiers, LocalRight
<1>5. counts \in [Operations -> Nat] /\ context \in [Threads -> Nat]
  BY DEF Init
<1>6. next \in 1..(MaxNumber + 1) /\ open \in 0..MaxOpen
  BY <1>1 DEF Init
<1> QED BY <1>2, <1>3, <1>4, <1>5, <1>6 DEF Init, TypeInv, TypeOK, CallsTyped

(* A sequence that is not empty, without its last element.                  *)
LEMMA FrontProperties ==
  ASSUME NEW S, NEW q \in Seq(S), q # <<>>
  PROVE  /\ Len(q) \in Nat \ {0} /\ DOMAIN q = 1..Len(q) /\ q[Len(q)] \in S
         /\ SubSeq(q, 1, Len(q) - 1) \in Seq(S)
         /\ DOMAIN SubSeq(q, 1, Len(q) - 1) = 1..(Len(q) - 1)
         /\ \A d \in 1..(Len(q) - 1) : SubSeq(q, 1, Len(q) - 1)[d] = q[d]
<1>1. Len(q) \in Nat \ {0} /\ DOMAIN q = 1..Len(q)
  BY LenProperties, EmptySeq
<1>2. \A i \in 1..Len(q) : q[i] \in S
  BY ElementOfSeq
<1> DEFINE n == Len(q) - 1
           rest == SubSeq(q, 1, n)
<1>3. n \in Nat /\ \A i \in 1..n : q[i] \in S
  BY <1>1, <1>2
<1>4. n \in Int /\ 1 \in Int
  BY <1>3
<1>5. /\ rest \in Seq(S)
      /\ Len(rest) = IF 1 <= n THEN n - 1 + 1 ELSE 0
      /\ \A i \in 1..(n - 1 + 1) : rest[i] = q[1 + i - 1]
  <2> HIDE DEF n
  <2> QED BY <1>3, <1>4, SubSeqProperties
<1>6. Len(rest) = n /\ \A i \in 1..n : rest[i] = q[i]
  <2> HIDE DEF rest, n
  <2>1. \A i \in 1..n : i \in 1..(n - 1 + 1) /\ 1 + i - 1 = i
    BY <1>3
  <2> QED BY <1>3, <1>5, <2>1
<1>7. DOMAIN rest = 1..n
  <2> HIDE DEF rest, n
  <2> QED BY <1>5, <1>6, LenProperties
<1> QED BY <1>1, <1>2, <1>5, <1>6, <1>7

(* The top of a stack that is not empty, and what lies below it.            *)
LEMMA TopTyped ==
  ASSUME TypeInv, NEW t \in Threads, stack[t] # <<>>
  PROVE  /\ Top(t).number \in Nat /\ Top(t).parent \in Nat
         /\ Len(stack[t]) \in DOMAIN stack[t] /\ Len(stack[t]) \in Nat \ {0}
         /\ DOMAIN stack[t] = 1..Len(stack[t])
         /\ SubSeq(stack[t], 1, Len(stack[t]) - 1) \in Seq([number : Nat, parent : Nat])
         /\ DOMAIN SubSeq(stack[t], 1, Len(stack[t]) - 1) = 1..(Len(stack[t]) - 1)
         /\ \A d \in 1..(Len(stack[t]) - 1) : SubSeq(stack[t], 1, Len(stack[t]) - 1)[d] = stack[t][d]
<1>1. stack[t] \in Seq([number : Nat, parent : Nat])
  BY DEF TypeInv, TypeOK
<1>2. Top(t) \in [number : Nat, parent : Nat] /\ Len(stack[t]) \in Nat \ {0} /\ DOMAIN stack[t] = 1..Len(stack[t])
  BY <1>1, FrontProperties DEF Top
<1>3. \A f \in [number : Nat, parent : Nat] : f.number \in Nat /\ f.parent \in Nat
  OBVIOUS
<1>4. Top(t).number \in Nat /\ Top(t).parent \in Nat /\ Len(stack[t]) \in DOMAIN stack[t]
  BY <1>2, <1>3
<1> DEFINE rest == SubSeq(stack[t], 1, Len(stack[t]) - 1)
<1>5. /\ rest \in Seq([number : Nat, parent : Nat])
      /\ DOMAIN rest = 1..(Len(stack[t]) - 1)
      /\ \A d \in 1..(Len(stack[t]) - 1) : rest[d] = stack[t][d]
  BY <1>1, FrontProperties, Zenon
<1> QED BY <1>2, <1>4, <1>5, Zenon

(* Each step keeps the types and what the calls hold.                       *)
LEMMA StepTyped ==
  ASSUME TypeInv, NEW t \in Threads, Step(t)
  PROVE  TypeInv'
<1> USE DEF buffers, stores, rules, streams, nesting
<1>0. /\ mode \in {"record", "replay"}
      /\ next \in 1..(MaxNumber + 1) /\ buffer \subseteq Interaction
      /\ queue \in [Tools \cup Keys -> Seq(Sources)] /\ used \subseteq Sources
      /\ handed \in [Sources -> Seq(Tiers)]
      /\ counts \in [Operations -> Nat] /\ counted \in [Operations -> Nat]
      /\ applied \subseteq [op : Operations, number : Nat, nth : Nat] /\ raced \subseteq Operations
      /\ open \in 0..MaxOpen /\ openSeeds \subseteq Sources \X Tiers
      /\ stack \in [Threads -> Seq([number : Nat, parent : Nat])]
      /\ context \in [Threads -> Nat] /\ cancelled \subseteq Nat
      /\ CallsTyped
  BY DEF TypeInv, TypeOK, CallsTyped
<1>l. call[t] \in Local /\ LocalRight(pc[t], call[t])
  BY LocalTyped
<1>d. ASSUME Done(t) PROVE CallsTyped'
  BY <1>d, DoneTyped DEF CallsTyped
<1>g. ASSUME NEW point \in Points, NEW local \in Local, LocalRight(point, local), Goto(t, point, local)
      PROVE  CallsTyped'
  BY <1>g, GotoTyped DEF CallsTyped
<1>n. 0 \in Sources \cup {0} /\ 0 \in Nat
  OBVIOUS
<1>1. ASSUME NEW c \in Calls, Call(t, c) PROVE TypeInv'
  <2> DEFINE local == [NoLocal EXCEPT !.target = c, !.count = counts[Operation[c]] + 1]
  <2>1. counts[Operation[c]] \in Nat
    BY <1>0 DEF Operations
  <2>2. local \in Local /\ LocalRight("count", local) /\ "count" \in Points
    <3>1. NoLocal \in Local
      BY DEF NoLocal, Local, Tiers
    <3>2. counts[Operation[c]] + 1 \in Nat
      BY <2>1
    <3> QED BY <3>1, <3>2 DEF Local, LocalRight, Points
  <2>3. Goto(t, "count", local)
    BY <1>1 DEF Call
  <2>4. CallsTyped'
    <3> HIDE DEF local
    <3> QED BY <2>2, <2>3, <1>g
  <2>5. raced' \subseteq Operations
    BY <1>0, <1>1 DEF Call, Operations
  <2> QED BY <1>0, <1>1, <2>4, <2>5 DEF Call, TypeInv, TypeOK, CallsTyped
<1>c. ASSUME At(t, "count"), SetCount(t, Operation[call[t].target])
      PROVE  /\ counts' \in [Operations -> Nat] /\ counted' \in [Operations -> Nat]
             /\ Operation[call[t].target] \in Operations /\ call[t].count \in Nat
             /\ counted[Operation[call[t].target]] + 1 \in Nat
             /\ LocalRight("go", call[t]) /\ LocalRight("inject", call[t])
             /\ "go" \in Points /\ "inject" \in Points
  <2>1. Operation[call[t].target] \in Operations /\ call[t].count \in Nat /\ call[t].target \in Calls
    BY <1>c, LocalTyped DEF At, Local
  <2> QED BY <1>0, <1>c, <2>1 DEF SetCount, LocalRight, Points
<1>2. CASE CountPass(t)
  <2>1. CallsTyped' /\ counts' \in [Operations -> Nat] /\ counted' \in [Operations -> Nat]
    BY <1>2, <1>c, <1>l, <1>g DEF CountPass
  <2> QED BY <1>0, <1>2, <2>1 DEF CountPass, TypeInv, TypeOK, CallsTyped
<1>3. CASE CountInject(t)
  <2>1. CallsTyped' /\ counts' \in [Operations -> Nat] /\ counted' \in [Operations -> Nat]
    BY <1>0, <1>3, <1>c, <1>l, <1>g DEF CountInject
  <2>2. applied' \subseteq [op : Operations, number : Nat, nth : Nat]
    BY <1>0, <1>3, <1>c DEF CountInject
  <2> QED BY <1>0, <1>3, <2>1, <2>2 DEF CountInject, TypeInv, TypeOK, CallsTyped
<1>4. CASE InjectHttp(t)
  <2>1. CallsTyped' /\ next' \in 1..(MaxNumber + 1) /\ buffer' \subseteq Interaction
    BY <1>4, <1>d, <1>n, AppendTyped DEF InjectHttp
  <2> QED BY <1>0, <1>4, <2>1 DEF InjectHttp, TypeInv, TypeOK, CallsTyped
<1>r. ASSUME Reserve PROVE next \in Nat /\ next' \in 1..(MaxNumber + 1) /\ buffer' \subseteq Interaction
  BY <1>0, <1>r, SdkAssumption DEF Reserve
<1>5. CASE InjectTool(t)
  <2> DEFINE local == [call[t] EXCEPT !.number = next]
  <2>1. next \in Nat /\ next' \in 1..(MaxNumber + 1) /\ buffer' \subseteq Interaction
    BY <1>5, <1>r DEF InjectTool
  <2>2. local \in Local /\ LocalRight("append", local) /\ "append" \in Points
    BY <1>5, <1>l, <2>1 DEF InjectTool, At, Local, LocalRight, Points
  <2>3. Goto(t, "append", local)
    BY <1>5 DEF InjectTool
  <2>4. CallsTyped'
    <3> HIDE DEF local
    <3> QED BY <2>2, <2>3, <1>g
  <2> QED BY <1>0, <1>5, <2>1, <2>4 DEF InjectTool, TypeInv, TypeOK, CallsTyped
<1>a. ASSUME NEW number \in Nat, NEW parent \in Nat, AppendReserved(number, parent)
      PROVE  next' \in 1..(MaxNumber + 1) /\ buffer' \subseteq Interaction
  BY <1>0, <1>a, <1>n DEF AppendReserved, Interaction
<1>6. CASE AppendInjected(t)
  <2>1. CallsTyped' /\ next' \in 1..(MaxNumber + 1) /\ buffer' \subseteq Interaction
    BY <1>0, <1>6, <1>d, <1>l, <1>a DEF AppendInjected, Local
  <2> QED BY <1>0, <1>6, <2>1 DEF AppendInjected, TypeInv, TypeOK, CallsTyped
<1>7. CASE CancelInjected(t)
  <2>1. CallsTyped'
    BY <1>7, <1>d DEF CancelInjected
  <2> QED BY <1>0, <1>7, <2>1 DEF CancelInjected, TypeInv, TypeOK, CallsTyped
<1>8. CASE StartTool(t)
  <2>1. CallsTyped' /\ next \in Nat /\ next' \in 1..(MaxNumber + 1) /\ buffer' \subseteq Interaction
    BY <1>8, <1>d, <1>r DEF StartTool
  <2>2. [number |-> next, parent |-> context[t]] \in [number : Nat, parent : Nat]
    BY <1>0, <2>1
  <2>3. Append(stack[t], [number |-> next, parent |-> context[t]]) \in Seq([number : Nat, parent : Nat])
    BY <1>0, <2>2, AppendProperties
  <2>4. stack' \in [Threads -> Seq([number : Nat, parent : Nat])] /\ context' \in [Threads -> Nat]
    BY <1>0, <1>8, <2>1, <2>3 DEF StartTool
  <2> QED BY <1>0, <1>8, <2>1, <2>4 DEF StartTool, TypeInv, TypeOK, CallsTyped
<1>e. ASSUME Leave(t)
      PROVE  /\ Top(t).number \in Nat /\ Top(t).parent \in Nat
             /\ stack' \in [Threads -> Seq([number : Nat, parent : Nat])] /\ context' \in [Threads -> Nat]
  BY <1>0, <1>e, TopTyped DEF Leave
<1>9. CASE EndTool(t)
  <2>1. next' \in 1..(MaxNumber + 1) /\ buffer' \subseteq Interaction
    BY <1>9, <1>a, <1>e DEF EndTool
  <2>2. CallsTyped'
    BY <1>0, <1>9 DEF EndTool, CallsTyped
  <2> QED BY <1>0, <1>9, <1>e, <2>1, <2>2 DEF EndTool, TypeInv, TypeOK, CallsTyped
<1>10. CASE CancelTool(t)
  <2>1. CallsTyped'
    BY <1>0, <1>10 DEF CancelTool, CallsTyped
  <2> QED BY <1>0, <1>10, <1>e, <2>1 DEF CancelTool, TypeInv, TypeOK, CallsTyped
<1>11. CASE FindTool(t)
  <2>1. CASE queue[call[t].target] = <<>>
    <3>1. CallsTyped'
      BY <1>11, <1>d, <2>1 DEF FindTool
    <3> QED BY <1>0, <1>11, <3>1 DEF FindTool, TypeInv, TypeOK, CallsTyped
  <2>2. CASE queue[call[t].target] # <<>>
    <3>1. LocalRight("take", call[t]) /\ "take" \in Points
      BY <1>11 DEF FindTool, LocalRight, Points, Calls
    <3>2. CallsTyped'
      BY <1>11, <1>g, <1>l, <2>2, <3>1 DEF FindTool
    <3> QED BY <1>0, <1>11, <3>2 DEF FindTool, TypeInv, TypeOK, CallsTyped
  <2> QED BY <2>1, <2>2
<1>12. CASE TakeTool(t)
  <2> DEFINE key == call[t].target
             local == [call[t] EXCEPT !.source = Take(queue[key]).first]
  <2>1. key \in Tools /\ queue[key] # <<>>
    BY <1>12, <1>l DEF TakeTool, At, LocalRight
  <2>2. Take(queue[key]).first \in Sources /\ [queue EXCEPT ![key] = Take(@).rest] \in [Tools \cup Keys -> Seq(Sources)]
    <3> HIDE DEF key
    <3> QED BY <2>1, TakeTyped
  <2>3. queue' \in [Tools \cup Keys -> Seq(Sources)]
    BY <1>12, <2>2 DEF TakeTool
  <2>4. handed' \in [Sources -> Seq(Tiers)]
    <3>1. HandOut(Take(queue[key]).first, "exact") /\ "exact" \in Tiers
      BY <1>12 DEF TakeTool, Tiers
    <3> HIDE DEF key
    <3> QED BY <2>2, <3>1, HandOutTyped
  <2>5. local \in Local /\ LocalRight("replay", local) /\ "replay" \in Points
    BY <1>l, <2>1, <2>2 DEF Local, LocalRight, Points, Calls
  <2>6. Goto(t, "replay", local)
    BY <1>12 DEF TakeTool
  <2>7. CallsTyped'
    <3> HIDE DEF local
    <3> QED BY <2>5, <2>6, <1>g
  <2> QED BY <1>0, <1>12, <2>3, <2>4, <2>7 DEF TakeTool, TypeInv, TypeOK, CallsTyped
<1>13. CASE TakeNothing(t)
  <2>1. CallsTyped'
    BY <1>13, <1>d DEF TakeNothing
  <2> QED BY <1>0, <1>13, <2>1 DEF TakeNothing, TypeInv, TypeOK, CallsTyped
<1>14. CASE Replay(t)
  <2>1. call[t].source \in Sources
    BY <1>14, <1>l DEF Replay, At, LocalRight
  <2>2. Seeds[call[t].source].parent \in Nat
    BY <2>1, SeedTypes
  <2>3. CallsTyped' /\ next' \in 1..(MaxNumber + 1) /\ buffer' \subseteq Interaction
    BY <1>14, <1>d, <2>1, <2>2, AppendTyped DEF Replay, AppendReplay
  <2> QED BY <1>0, <1>14, <2>3 DEF Replay, TypeInv, TypeOK, CallsTyped
<1>w. ASSUME NEW i \in Sources, NEW tier \in Tiers, pc[t] = "go", Answer(t, i, tier)
      PROVE  CallsTyped' /\ openSeeds' \subseteq Sources \X Tiers
  BY <1>w, AnswerTyped DEF CallsTyped
<1>15. CASE MatchExact(t)
  <2> DEFINE key == FirstFilled(call[t].target)
             i == Take(queue[key]).first
  <2>1. key \in Tools \cup Keys /\ queue[key] # <<>>
    BY <1>15, FirstFilledIsFilled DEF MatchExact, Asked
  <2>2. i \in Sources /\ [queue EXCEPT ![key] = Take(@).rest] \in [Tools \cup Keys -> Seq(Sources)]
    <3> HIDE DEF key
    <3> QED BY <2>1, TakeTyped
  <2>3. /\ queue' = [queue EXCEPT ![key] = Take(@).rest] /\ used' = used \cup {i}
        /\ HandOut(i, "exact") /\ Answer(t, i, "exact") /\ "exact" \in Tiers /\ pc[t] = "go"
        /\ UNCHANGED <<mode, next, buffer, counts, applied, counted, raced, open, stack, context, cancelled>>
    BY <1>15 DEF MatchExact, Asked, At, Tiers
  <2> HIDE DEF key, i
  <2>4. handed' \in [Sources -> Seq(Tiers)] /\ CallsTyped' /\ openSeeds' \subseteq Sources \X Tiers
    BY <2>2, <2>3, <1>w, HandOutTyped
  <2> QED BY <1>0, <2>2, <2>3, <2>4 DEF TypeInv, TypeOK, CallsTyped
<1>16. CASE MatchNearest(t)
  <2>1. PICK i \in Near(call[t].target) :
          used' = used \cup {i} /\ HandOut(i, "nearest") /\ Answer(t, i, "nearest")
    BY <1>16 DEF MatchNearest
  <2>2. i \in Sources /\ "nearest" \in Tiers /\ pc[t] = "go"
    BY <1>16 DEF Near, Tiers, MatchNearest, Asked, At
  <2>3. handed' \in [Sources -> Seq(Tiers)] /\ CallsTyped' /\ openSeeds' \subseteq Sources \X Tiers
    BY <2>1, <2>2, <1>w, HandOutTyped
  <2> QED BY <1>0, <1>16, <2>1, <2>2, <2>3 DEF MatchNearest, TypeInv, TypeOK, CallsTyped
<1>17. CASE Miss(t)
  <2>1. CallsTyped'
    BY <1>17, <1>d DEF Miss
  <2> QED BY <1>0, <1>17, <2>1 DEF Miss, TypeInv, TypeOK, CallsTyped
<1>18. CASE RecordHttp(t)
  <2>1. CallsTyped'
    BY <1>18, <1>d DEF RecordHttp
  <2>2. next' \in 1..(MaxNumber + 1) /\ buffer' \subseteq Interaction
    BY <1>0, <1>18, <1>n, AppendTyped DEF RecordHttp
  <2> QED BY <1>0, <1>18, <2>1, <2>2 DEF RecordHttp, TypeInv, TypeOK, CallsTyped
<1>19. CASE OpenStream(t)
  <2>1. CallsTyped'
    BY <1>19, <1>d DEF OpenStream
  <2>2. open' \in 0..MaxOpen
    BY <1>0, <1>19, SdkAssumption DEF OpenStream
  <2> QED BY <1>0, <1>19, <2>1, <2>2 DEF OpenStream, TypeInv, TypeOK, CallsTyped
<1> QED BY <1>1, <1>2, <1>3, <1>4, <1>5, <1>6, <1>7, <1>8, <1>9, <1>10, <1>11, <1>12, <1>13,
           <1>14, <1>15, <1>16, <1>17, <1>18, <1>19 DEF Step

(* So do the steps that are no call of a thread.                            *)
LEMMA NextTyped == TypeInv /\ [Next]_vars => TypeInv'
<1> SUFFICES ASSUME TypeInv, [Next]_vars PROVE TypeInv'
  OBVIOUS
<1> USE DEF buffers, stores, rules, streams, nesting
<1>0. /\ mode \in {"record", "replay"}
      /\ next \in 1..(MaxNumber + 1) /\ buffer \subseteq Interaction
      /\ queue \in [Tools \cup Keys -> Seq(Sources)] /\ used \subseteq Sources
      /\ handed \in [Sources -> Seq(Tiers)]
      /\ counts \in [Operations -> Nat] /\ counted \in [Operations -> Nat]
      /\ applied \subseteq [op : Operations, number : Nat, nth : Nat] /\ raced \subseteq Operations
      /\ open \in 0..MaxOpen /\ openSeeds \subseteq Sources \X Tiers
      /\ stack \in [Threads -> Seq([number : Nat, parent : Nat])]
      /\ context \in [Threads -> Nat] /\ cancelled \subseteq Nat
      /\ CallsTyped
  BY DEF TypeInv, TypeOK, CallsTyped
<1>c. ASSUME UNCHANGED <<pc, call>> PROVE CallsTyped'
  BY <1>0, <1>c DEF CallsTyped
<1>1. ASSUME NEW t \in Threads, Step(t) PROVE TypeInv'
  BY <1>1, StepTyped
<1>2. ASSUME NEW t \in Threads, NEW u \in Threads, Spawn(t, u) PROVE TypeInv'
  BY <1>0, <1>2, <1>c DEF Spawn, TypeInv, TypeOK, CallsTyped
<1>3. ASSUME NEW source \in Sources, NEW tier \in Tiers, CloseReplayed(source, tier) PROVE TypeInv'
  <2>1. Seeds[source].parent \in Nat
    BY SeedTypes
  <2>2. next' \in 1..(MaxNumber + 1) /\ buffer' \subseteq Interaction
    BY <1>3, <2>1, AppendTyped DEF CloseReplayed, AppendReplay
  <2> QED BY <1>0, <1>3, <1>c, <2>2 DEF CloseReplayed, TypeInv, TypeOK, CallsTyped
<1>4. CASE CloseStream
  <2>1. next' \in 1..(MaxNumber + 1) /\ buffer' \subseteq Interaction
    BY <1>4, AppendTyped DEF CloseStream
  <2>2. open' \in 0..MaxOpen
    BY <1>0, <1>4, SdkAssumption DEF CloseStream
  <2> QED BY <1>0, <1>4, <1>c, <2>1, <2>2 DEF CloseStream, TypeInv, TypeOK, CallsTyped
<1>5. CASE UNCHANGED vars
  BY <1>0, <1>5, <1>c DEF vars, TypeInv, TypeOK, CallsTyped
<1> QED BY <1>1, <1>2, <1>3, <1>4, <1>5 DEF Next

(* SdkRuntime.TypeOK: numbers, streams, queues and the locals of every call *)
(* keep their types.                                                        *)
THEOREM TypeCorrect == Spec => []TypeOK
<1>1. TypeInv => TypeOK
  BY DEF TypeInv
<1> QED BY <1>1, InitTyped, NextTyped, PTL DEF Spec

-----------------------------------------------------------------------------
(* Where calls go.                                                          *)

(* A step of t moves t to one of the points and no other thread.            *)
Moved(t, points) ==
  /\ pc'[t] \in points
  /\ \A u \in Threads \ {t} : pc'[u] = pc[u] /\ call'[u] = call[u]

(* What Goto, Done and Answer are for the places of threads.                *)
LEMMA GotoMoves ==
  ASSUME TypeInv, NEW t \in Threads, NEW point, NEW local, Goto(t, point, local)
  PROVE  Moved(t, {point}) /\ call'[t] = local
BY DEF TypeInv, TypeOK, Goto, Moved

LEMMA DoneMoves ==
  ASSUME TypeInv, NEW t \in Threads, Done(t)
  PROVE  Moved(t, {"free"})
BY GotoMoves DEF Done

LEMMA AnswerMoves ==
  ASSUME TypeInv, NEW t \in Threads, NEW source, NEW tier, Answer(t, source, tier)
  PROVE  Moved(t, {"free", "replay"})
<1>1. CASE AsStream(call[t].target, source)
  <2>1. Done(t)
    BY <1>1 DEF Answer
  <2> QED BY <2>1, DoneMoves DEF Moved
<1>3. CASE ~ AsStream(call[t].target, source) /\ Seeds[source].kind = "cut"
  <2>1. Done(t)
    BY <1>3 DEF Answer
  <2> QED BY <2>1, DoneMoves DEF Moved
<1>2. CASE ~ AsStream(call[t].target, source) /\ Seeds[source].kind # "cut"
  <2>1. Goto(t, "replay", [call[t] EXCEPT !.source = source, !.tier = tier])
    BY <1>2 DEF Answer
  <2>2. Moved(t, {"replay"})
    BY <2>1, GotoMoves
  <2> QED BY <2>2 DEF Moved
<1> QED BY <1>1, <1>2, <1>3

(* Only a new call goes to "count", and only an injected tool to "append".  *)
Aside == {"free", "inject", "go", "take", "replay"}

(* The steps of a thread, by the point they lead to.                        *)
LEMMA StepMoves ==
  ASSUME TypeInv, NEW t \in Threads, Step(t)
  PROVE  \/ \E c \in Calls : Call(t, c)
         \/ InjectTool(t)
         \/ Moved(t, Aside)
<1> USE DEF Aside
<1>d. Done(t) => Moved(t, Aside)
  BY DoneMoves DEF Moved
<1>g. \A point \in Aside : Goto(t, point, call[t]) => Moved(t, Aside)
  <2> SUFFICES ASSUME NEW point \in Aside, Goto(t, point, call[t]) PROVE Moved(t, Aside)
    OBVIOUS
  <2>1. Moved(t, {point})
    BY GotoMoves
  <2> QED BY <2>1 DEF Moved
<1>a. \A source, tier : Answer(t, source, tier) => Moved(t, Aside)
  BY AnswerMoves DEF Moved
<1>s. At(t, "free") /\ UNCHANGED <<pc, call>> => Moved(t, Aside)
  BY DEF At, Moved
<1>1. CASE CountPass(t) \/ CountInject(t)
  BY <1>1, <1>g DEF CountPass, CountInject
<1>2. CASE InjectHttp(t) \/ AppendInjected(t) \/ CancelInjected(t) \/ StartTool(t)
  BY <1>2, <1>d DEF InjectHttp, AppendInjected, CancelInjected, StartTool
<1>3. CASE EndTool(t) \/ CancelTool(t)
  BY <1>3, <1>s DEF EndTool, CancelTool, Leave
<1>4. CASE FindTool(t)
  BY <1>4, <1>d, <1>g DEF FindTool
<1>5. CASE TakeTool(t)
  <2>1. PICK local : Goto(t, "replay", local)
    BY <1>5 DEF TakeTool
  <2>2. Moved(t, {"replay"})
    BY <2>1, GotoMoves
  <2> QED BY <2>2 DEF Moved
<1>6. CASE TakeNothing(t) \/ Replay(t) \/ Miss(t) \/ RecordHttp(t) \/ OpenStream(t)
  BY <1>6, <1>d DEF TakeNothing, Replay, Miss, RecordHttp, OpenStream
<1>7. CASE MatchExact(t)
  BY <1>7, <1>a DEF MatchExact
<1>8. CASE MatchNearest(t)
  BY <1>8, <1>a DEF MatchNearest
<1> QED BY <1>1, <1>2, <1>3, <1>4, <1>5, <1>6, <1>7, <1>8 DEF Step

-----------------------------------------------------------------------------
(* The nth call.                                                            *)

(* A call begins to count: where no other does, the number it reads is the  *)
(* next one.                                                                *)
LEMMA CallCounts ==
  ASSUME TypeInv, CountInv, NEW t \in Threads, NEW c \in Calls, Call(t, c)
  PROVE  CountInv'
<1> DEFINE op == Operation[c]
<1>1. /\ op \in Operations /\ UNCHANGED <<counts, counted, applied>>
      /\ raced' = IF \E u \in Threads : Counting(u, op) THEN raced \cup {op} ELSE raced
  BY DEF Call, Operations
<1>2. Moved(t, {"count"}) /\ call'[t] = [NoLocal EXCEPT !.target = c, !.count = counts[op] + 1]
  BY GotoMoves DEF Call
<1>3. call'[t].target = c /\ call'[t].count = counts[op] + 1
  BY <1>2 DEF NoLocal
<1>4. NthUnlessRaced'
  BY <1>1 DEF CountInv, NthUnlessRaced, Injected
<1>5. \A u \in Threads : u # t => pc'[u] = pc[u] /\ call'[u] = call[u]
  BY <1>2 DEF Moved
<1>6. ASSUME NEW other \in Operations, other \notin raced'
      PROVE  CountersRight(other)'
  <2>1. CountersRight(other)
    BY <1>1, <1>6 DEF CountInv
  <2>2. CASE other = op
    <3>1. \A u \in Threads : ~ Counting(u, op)
      BY <1>1, <1>6, <2>2
    <3>2. \A u \in Threads : u # t => ~ Counting(u, op)'
      BY <1>5, <3>1 DEF Counting, At
    <3> QED BY <1>1, <1>3, <2>1, <2>2, <3>2 DEF CountersRight
  <2>3. CASE other # op
    <3>1. ~ Counting(t, other)'
      BY <1>3, <2>3 DEF Counting
    <3>2. \A u \in Threads : Counting(u, other)' => Counting(u, other) /\ call'[u] = call[u]
      BY <1>5, <3>1 DEF Counting, At
    <3> QED BY <1>1, <2>1, <3>2 DEF CountersRight
  <2> QED BY <2>2, <2>3
<1> QED BY <1>4, <1>6 DEF CountInv

(* A call is counted: it is the next of its operation if it has not raced,  *)
(* and the rules were asked for just that number.                           *)
LEMMA CountWritten ==
  ASSUME TypeInv, CountInv, NEW t \in Threads, CountPass(t) \/ CountInject(t)
  PROVE  CountInv'
<1>0. PICK op \in Operations, count \in Nat : op = Operation[call[t].target] /\ count = call[t].count
  BY LocalTyped DEF CountPass, CountInject, At, Local
<1> DEFINE new == [op |-> op, number |-> count, nth |-> counted[op] + 1]
<1>1. op \in Operations /\ count \in Nat /\ Counting(t, op)
  BY <1>0 DEF CountPass, CountInject, At, Counting
<1>2. /\ counts' = [counts EXCEPT ![op] = count]
      /\ counted' = [counted EXCEPT ![op] = @ + 1]
      /\ raced' = raced
  BY <1>0 DEF CountPass, CountInject, SetCount
<1>3. /\ counts \in [Operations -> Nat] /\ counted \in [Operations -> Nat]
      /\ applied \subseteq [op : Operations, number : Nat, nth : Nat]
  BY DEF TypeInv, TypeOK
<1>4. \/ applied' = applied /\ ~ \E rule \in Rules : rule.sure /\ Matches(rule, op, count)
      \/ applied' = applied \cup {new} /\ \E rule \in Rules : Matches(rule, op, count)
  BY <1>0 DEF CountPass, CountInject
<1>5. \A u \in Threads : pc'[u] = "count" => u # t /\ pc[u] = "count" /\ call'[u] = call[u]
  <2>1. Moved(t, {"go"}) \/ Moved(t, {"inject"})
    BY GotoMoves DEF CountPass, CountInject
  <2> QED BY <2>1 DEF Moved
<1>6. new.op = op /\ new.number = count /\ new.nth = counted[op] + 1
  OBVIOUS
<1>7. \A rule \in Rules : rule.op \in Operations /\ rule.nth \in Nat
  BY SdkAssumption
<1> HIDE DEF new
<1>8. \A other \in Operations : other # op =>
        /\ counts'[other] = counts[other] /\ counted'[other] = counted[other]
        /\ \A a : a.op = other => (a \in applied' <=> a \in applied)
  BY <1>2, <1>3, <1>4, <1>6
<1>9. counts'[op] = count /\ counted'[op] = counted[op] + 1 /\ counted[op] \in Nat
  BY <1>1, <1>2, <1>3
<1>10. ASSUME NEW other \in Operations \ raced, other # op
       PROVE  /\ CountersRight(other)'
              /\ \A rule \in Rules :
                   rule.sure /\ rule.op = other /\ rule.nth \in 1..counted'[other] => Injected(other, rule.nth)'
              /\ \A a \in applied' :
                   a.op = other => a.number = a.nth /\ \E rule \in Rules : Matches(rule, other, a.nth)
  <2>1. CountersRight(other) /\ NthUnlessRaced
    BY <1>10 DEF CountInv
  <2>2. CountersRight(other)'
    BY <1>5, <1>8, <1>10, <2>1 DEF CountersRight, Counting, At
  <2>3. \A n : Injected(other, n) => Injected(other, n)'
    BY <1>8, <1>10 DEF Injected
  <2> QED BY <1>8, <1>10, <2>1, <2>2, <2>3 DEF NthUnlessRaced
<1>11. ASSUME op \notin raced
       PROVE  /\ CountersRight(op)'
              /\ \A rule \in Rules :
                   rule.sure /\ rule.op = op /\ rule.nth \in 1..counted'[op] => Injected(op, rule.nth)'
              /\ \A a \in applied' :
                   a.op = op => a.number = a.nth /\ \E rule \in Rules : Matches(rule, op, a.nth)
  <2>1. CountersRight(op) /\ NthUnlessRaced
    BY <1>1, <1>11 DEF CountInv
  <2>2. count = counted[op] + 1 /\ \A u \in Threads : Counting(u, op) => u = t
    BY <1>0, <1>1, <2>1 DEF CountersRight
  <2>3. CountersRight(op)'
    <3>1. \A u \in Threads : ~ Counting(u, op)'
      BY <1>5, <2>2 DEF Counting, At
    <3> QED BY <1>9, <2>2, <3>1 DEF CountersRight
  <2>4. ASSUME NEW rule \in Rules, rule.sure, rule.op = op, rule.nth \in 1..counted'[op]
        PROVE  Injected(op, rule.nth)'
    <3>1. CASE rule.nth \in 1..counted[op]
      <4>1. Injected(op, rule.nth)
        BY <1>1, <1>11, <2>1, <2>4, <3>1 DEF NthUnlessRaced
      <4> QED BY <1>4, <4>1 DEF Injected
    <3>2. CASE rule.nth = count
      <4>1. Matches(rule, op, count)
        BY <2>4, <3>2 DEF Matches
      <4>2. new \in applied'
        BY <1>4, <2>4, <4>1
      <4> QED BY <1>6, <2>2, <3>2, <4>2 DEF Injected
    <3> QED BY <1>7, <1>9, <2>2, <2>4, <3>1, <3>2
  <2>5. ASSUME NEW a \in applied', a.op = op
        PROVE  a.number = a.nth /\ \E rule \in Rules : Matches(rule, op, a.nth)
    <3>1. CASE a \in applied
      BY <1>1, <1>11, <2>1, <2>5, <3>1 DEF NthUnlessRaced
    <3>2. CASE a \notin applied
      <4>1. a = new /\ \E rule \in Rules : Matches(rule, op, count)
        BY <1>4, <2>5, <3>2
      <4> QED BY <1>6, <2>2, <4>1
    <3> QED BY <3>1, <3>2
  <2> QED BY <2>3, <2>4, <2>5
<1> QED BY <1>2, <1>10, <1>11 DEF CountInv, NthUnlessRaced

(* What neither counts nor starts a call.                                   *)
LEMMA CountKept ==
  ASSUME CountInv, UNCHANGED rules,
         \A u \in Threads : At(u, "count")' => At(u, "count") /\ call'[u] = call[u]
  PROVE  CountInv'
<1>1. UNCHANGED <<counts, counted, applied, raced>>
  BY DEF rules
<1>2. NthUnlessRaced'
  BY <1>1 DEF CountInv, NthUnlessRaced, Injected
<1>3. \A u \in Threads, op \in Operations : Counting(u, op)' => Counting(u, op) /\ call'[u] = call[u]
  BY DEF Counting
<1>4. ASSUME NEW op \in Operations \ raced PROVE CountersRight(op)'
  <2>1. CountersRight(op)
    BY DEF CountInv
  <2> QED BY <1>1, <1>3, <2>1 DEF CountersRight
<1> QED BY <1>1, <1>2, <1>4 DEF CountInv

(* Every step keeps the counters, the calls and what was applied in line.   *)
LEMMA NextCounts == TypeInv /\ CountInv /\ [Next]_vars => CountInv'
<1> SUFFICES ASSUME TypeInv, CountInv, [Next]_vars PROVE CountInv'
  OBVIOUS
<1>k. ASSUME NEW t \in Threads, Moved(t, Points \ {"count"}), UNCHANGED rules
      PROVE  CountInv'
  BY <1>k, CountKept DEF Moved, At
<1>1. ASSUME NEW t \in Threads, NEW c \in Calls, Call(t, c)
      PROVE  CountInv'
  BY <1>1, CallCounts
<1>2. ASSUME NEW t \in Threads, CountPass(t) \/ CountInject(t)
      PROVE  CountInv'
  BY <1>2, CountWritten
<1>3. ASSUME NEW t \in Threads, Step(t), ~ \E c \in Calls : Call(t, c), ~ CountPass(t), ~ CountInject(t)
      PROVE  CountInv'
  <2>1. UNCHANGED rules
    BY <1>3 DEF Step, InjectHttp, InjectTool, AppendInjected, CancelInjected, StartTool, EndTool, CancelTool,
         FindTool, TakeTool, TakeNothing, Replay, MatchExact, MatchNearest, Miss, RecordHttp, OpenStream
  <2>2. CASE InjectTool(t)
    <3>1. Moved(t, {"append"})
      BY <2>2, GotoMoves DEF InjectTool
    <3> QED BY <1>k, <2>1, <3>1 DEF Moved, Points
  <2>3. CASE Moved(t, Aside)
    BY <1>k, <2>1, <2>3 DEF Moved, Points, Aside
  <2> QED BY <1>3, <2>2, <2>3, StepMoves
<1>4. ASSUME UNCHANGED <<rules, pc, call>> PROVE CountInv'
  BY <1>4, CountKept DEF At
<1>5. CASE UNCHANGED vars
  BY <1>4, <1>5 DEF vars
<1>6. ASSUME NEW t \in Threads, NEW u \in Threads, Spawn(t, u) PROVE CountInv'
  BY <1>4, <1>6 DEF Spawn
<1>7. ASSUME NEW source, NEW tier, CloseReplayed(source, tier) PROVE CountInv'
  BY <1>4, <1>7 DEF CloseReplayed
<1>8. CASE CloseStream
  BY <1>4, <1>8 DEF CloseStream
<1> QED BY <1>1, <1>2, <1>3, <1>5, <1>6, <1>7, <1>8 DEF Next

(* SdkRuntime.NthUnlessRaced: while no two threads count calls of one       *)
(* operation at once, a rule for the nth call injects the nth call itself,  *)
(* and no call is injected that no rule names.                              *)
THEOREM NthCallUnlessRaced == Spec => []NthUnlessRaced
<1>1. Init => CountInv
  <2> SUFFICES ASSUME Init PROVE CountInv
    OBVIOUS
  <2>1. counts = [op \in Operations |-> 0] /\ counted = counts /\ applied = {}
    BY DEF Init
  <2>2. \A t \in Threads, op \in Operations : ~ Counting(t, op)
    BY DEF Init, Counting, At
  <2> QED BY <2>1, <2>2 DEF CountInv, NthUnlessRaced, CountersRight
<1>2. CountInv => NthUnlessRaced
  BY DEF CountInv
<1> QED BY <1>1, <1>2, InitTyped, NextTyped, NextCounts, PTL DEF Spec

-----------------------------------------------------------------------------
(* The replay queues.                                                       *)

(* The store of a replay starts with every interaction of the source run in *)
(* the queue of its key, and that of a recording with none.                 *)
LEMMA InitQueues == Init => QueueInv
<1> SUFFICES ASSUME Init PROVE QueueInv
  OBVIOUS
<1>1. Len(Seeds) \in Nat /\ Sources = 1..Len(Seeds)
  BY SeedTypes DEF Sources
<1>2. handed = [i \in Sources |-> <<>>] /\ mode \in {"record", "replay"}
  BY DEF Init
<1>3. CASE mode = "record"
  <2>1. queue = Seeded[0] /\ SeededUpTo(Seeded[0], 0)
    BY <1>1, <1>3, SeededInOrder DEF Init
  <2>2. queue = Empty
    BY <2>1, <1>1, SeededDef DEF SeedsOf
  <2>3. \A key \in Tools \cup Keys : queue[key] = <<>> /\ DOMAIN queue[key] = {}
    BY <2>2, EmptySeq DEF Empty
  <2>4. \A i \in Sources : ~ Left(i)
    BY <2>3, SeedTypes DEF Left
  <2> QED BY <1>2, <1>3, <2>3, <2>4 DEF QueueInv, Increasing, HandedRight
<1>4. CASE mode = "replay"
  <2>1. SeededUpTo(queue, Len(Seeds))
    BY <1>1, <1>4, SeededInOrder DEF Init
  <2>2. \A i \in Sources : Left(i)
    BY <1>1, <2>1 DEF Left, SeededUpTo
  <2> QED BY <1>2, <1>4, <2>1, <2>2 DEF QueueInv, HandedRight, SeededUpTo
<1> QED BY <1>2, <1>3, <1>4

(* The tiers of an interaction that was replayed as a nearest match before. *)
LEMMA ExactAfterNearest == Append(<<"nearest">>, "exact") = <<"nearest", "exact">>
<1> DEFINE a == Append(<<"nearest">>, "exact")
           b == <<"nearest", "exact">>
<1>1. <<"nearest">> \in Seq(Tiers) /\ "exact" \in Tiers /\ b \in Seq(Tiers)
  BY DEF Tiers
<1>2. Len(<<"nearest">>) = 1 /\ <<"nearest">>[1] = "nearest" /\ Len(b) = 2 /\ b[1] = "nearest" /\ b[2] = "exact"
  OBVIOUS
<1>3. a \in Seq(Tiers) /\ Len(a) = 2 /\ a[1] = "nearest" /\ a[2] = "exact"
  BY <1>1, <1>2, AppendProperties
<1> HIDE DEF a, b
<1>4. a = b
  BY <1>1, <1>2, <1>3, SeqEqual
<1> QED BY <1>4 DEF a, b

(* Handing out the first answer of a queue.                                 *)
LEMMA TakeKeepsQueues ==
  ASSUME TypeInv, QueueInv, NEW key \in Tools \cup Keys, queue[key] # <<>>,
         queue' = [queue EXCEPT ![key] = Take(@).rest],
         HandOut(Take(queue[key]).first, "exact"),
         mode' = mode, used \subseteq used', key \in Keys => Take(queue[key]).first \in used'
  PROVE  QueueInv'
<1> DEFINE q == queue[key]
           i == Head(q)
<1>1. queue \in [Tools \cup Keys -> Seq(Sources)] /\ handed \in [Sources -> Seq(Tiers)] /\ mode \in {"record", "replay"}
  BY DEF TypeInv, TypeOK
<1>2. q \in Seq(Sources) /\ q # <<>>
  BY <1>1
<1>3. Take(q).first = i /\ Take(q).rest = Tail(q)
  BY DEF Take
<1>4. queue' = [queue EXCEPT ![key] = Tail(q)] /\ HandOut(i, "exact")
  BY <1>1, <1>3
<1>5. /\ Len(q) \in Nat \ {0} /\ DOMAIN q = 1..Len(q)
      /\ i \in Sources /\ i = q[1]
      /\ Tail(q) \in Seq(Sources) /\ Len(Tail(q)) = Len(q) - 1
      /\ \A d \in 1..Len(Tail(q)) : Tail(q)[d] = q[d + 1]
  <2> HIDE DEF q
  <2>1. Len(q) \in Nat \ {0} /\ DOMAIN q = 1..Len(q)
    BY <1>2, LenProperties, EmptySeq
  <2>2. Head(q) = q[1]
    BY <1>2
  <2> QED BY <1>2, <2>1, <2>2, HeadTailProperties
<1>6. DOMAIN Tail(q) = 1..(Len(q) - 1) /\ \A d \in 1..(Len(q) - 1) : Tail(q)[d] = q[d + 1]
  <2> HIDE DEF q
  <2> QED BY <1>5, LenProperties
<1>7. /\ \A k \in Tools \cup Keys : k # key => queue'[k] = queue[k]
      /\ queue'[key] = Tail(q)
  BY <1>1, <1>4
<1>8. /\ Increasing(q) /\ \A d \in DOMAIN q : Seeds[q[d]].key = key /\ q[d] \in Nat
      /\ mode = "replay"
  <2>1. \A d \in DOMAIN q : q[d] \in Sources
    <3> HIDE DEF q
    <3> QED BY <1>2, <1>5, ElementOfSeq
  <2> QED BY <1>1, <1>2, <2>1, SeedTypes DEF QueueInv
<1>9. Seeds[i].key = key /\ Left(i)
  <2>1. 1 \in DOMAIN q
    BY <1>5
  <2> HIDE DEF q
  <2>2. Seeds[i].key = key
    BY <1>5, <1>8, <2>1
  <2> USE DEF q
  <2> QED BY <1>5, <2>1, <2>2 DEF Left
<1>10. \A j \in Sources : Left(j)' <=> Left(j) /\ j # i
  <2> SUFFICES ASSUME NEW j \in Sources PROVE Left(j)' <=> Left(j) /\ j # i
    OBVIOUS
  <2>1. Seeds[j].key \in Tools \cup Keys
    BY SeedTypes
  <2>2. CASE Seeds[j].key # key
    <3>1. queue'[Seeds[j].key] = queue[Seeds[j].key] /\ j # i
      BY <1>7, <1>9, <2>1, <2>2
    <3> HIDE DEF i
    <3> QED BY <3>1 DEF Left
  <2>3. CASE Seeds[j].key = key
    <3>1. Left(j) <=> \E d \in DOMAIN q : q[d] = j
      BY <2>3 DEF Left
    <3>2. Left(j)' <=> \E d \in DOMAIN Tail(q) : Tail(q)[d] = j
      BY <1>7, <2>3 DEF Left
    <3> HIDE DEF q, i
    <3>3. ASSUME NEW d \in DOMAIN Tail(q), Tail(q)[d] = j PROVE j # i /\ \E e \in DOMAIN q : q[e] = j
      <4>1. d + 1 \in DOMAIN q /\ 1 \in DOMAIN q /\ 1 < d + 1 /\ q[d + 1] = j
        BY <1>5, <1>6, <3>3
      <4>2. q[1] < q[d + 1]
        BY <1>8, <4>1 DEF Increasing
      <4> QED BY <1>5, <1>8, <4>1, <4>2
    <3>4. ASSUME NEW e \in DOMAIN q, q[e] = j, j # i PROVE \E d \in DOMAIN Tail(q) : Tail(q)[d] = j
      <4>1. e - 1 \in DOMAIN Tail(q) /\ (e - 1) + 1 = e
        BY <1>5, <1>6, <3>4
      <4>2. Tail(q)[e - 1] = j
        BY <1>6, <3>4, <4>1
      <4> QED BY <4>1, <4>2
    <3> QED BY <3>1, <3>2, <3>3, <3>4
  <2> QED BY <2>2, <2>3
<1>11. ASSUME NEW k \in Tools \cup Keys
       PROVE  /\ Increasing(queue'[k])
              /\ \A d \in DOMAIN queue'[k] : Seeds[queue'[k][d]].key = k
              /\ mode' = "record" => queue'[k] = <<>>
  <2>1. CASE k # key
    BY <1>7, <1>8, <2>1 DEF QueueInv
  <2>2. CASE k = key
    <3> HIDE DEF q, i
    <3>1. \A d \in DOMAIN Tail(q) : d \in Nat /\ d + 1 \in DOMAIN q /\ Tail(q)[d] = q[d + 1]
      BY <1>5, <1>6
    <3>2. Increasing(Tail(q))
      BY <1>8, <3>1 DEF Increasing
    <3>3. \A d \in DOMAIN Tail(q) : Seeds[Tail(q)[d]].key = key
      BY <1>8, <3>1
    <3>4. queue'[k] = Tail(q) /\ mode' # "record"
      BY <1>7, <1>8, <2>2
    <3> QED BY <2>2, <3>2, <3>3, <3>4
  <2> QED BY <2>1, <2>2
<1>12. ASSUME NEW j \in Sources, NEW k \in Sources, j < k, Seeds[j].key = Seeds[k].key, Left(j)'
       PROVE  Left(k)'
  <2> HIDE DEF i
  <2>1. Left(j) /\ j # i
    BY <1>10, <1>12
  <2>2. Left(k)
    BY <1>12, <2>1 DEF QueueInv
  <2>3. k # i
    <3> SUFFICES ASSUME k = i PROVE FALSE
      OBVIOUS
    <3>1. Seeds[j].key = key
      BY <1>9, <1>12
    <3>2. PICK d \in DOMAIN q : q[d] = j
      BY <2>1, <3>1 DEF Left
    <3> HIDE DEF q
    <3>3. d \in 1..Len(q) /\ d # 1
      BY <1>5, <2>1, <3>2
    <3>4. q[1] < q[d]
      BY <1>5, <1>8, <3>3 DEF Increasing
    <3> QED BY <1>5, <1>8, <1>12, <3>2, <3>3, <3>4
  <2> QED BY <1>10, <2>2, <2>3
<1>13. handed' = [handed EXCEPT ![i] = Append(@, "exact")]
  BY <1>4 DEF HandOut
<1>14. \A j \in Sources : HandedRight(j)
  BY DEF QueueInv
<1>15. ASSUME NEW j \in Sources
       PROVE  HandedRight(j)' /\ (Seeds[j].key \in Keys /\ handed'[j] # <<>> => j \in used')
  <2>1. CASE j = i
    <3>1. ~ Left(j)' /\ Left(j)
      BY <1>9, <1>10, <2>1
    <3>2. handed[j] \in {<<>>, <<"nearest">>}
      BY <1>8, <1>14, <3>1 DEF HandedRight
    <3>3. handed'[j] = Append(handed[j], "exact")
      BY <1>1, <1>5, <1>13, <2>1
    <3>4. handed'[j] \in {<<"exact">>, <<"nearest", "exact">>}
      <4>1. Append(<<>>, "exact") = <<"exact">>
        OBVIOUS
      <4> QED BY <3>2, <3>3, <4>1, ExactAfterNearest
    <3>5. HandedRight(j)'
      BY <1>8, <3>1, <3>4 DEF HandedRight
    <3>6. key \in Keys => j \in used'
      BY <1>3, <2>1
    <3> QED BY <1>9, <2>1, <3>5, <3>6
  <2>2. CASE j # i
    <3>1. handed'[j] = handed[j] /\ (Left(j)' <=> Left(j))
      BY <1>1, <1>10, <1>13, <2>2
    <3>2. HandedRight(j)
      BY <1>14
    <3>3. HandedRight(j)'
      BY <3>1, <3>2 DEF HandedRight
    <3>4. Seeds[j].key \in Keys /\ handed[j] # <<>> => j \in used
      BY DEF QueueInv
    <3> QED BY <3>1, <3>3, <3>4
  <2> QED BY <2>1, <2>2
<1> QED BY <1>11, <1>12, <1>15 DEF QueueInv

(* Handing out the nearest of the others.                                   *)
LEMMA NearestKeepsQueues ==
  ASSUME TypeInv, QueueInv, mode = "replay", NEW r, NEW i \in Near(r), HandOut(i, "nearest"),
         mode' = mode, queue' = queue, used' = used \cup {i}
  PROVE  QueueInv'
<1>1. handed \in [Sources -> Seq(Tiers)] /\ i \in Sources /\ i \notin used /\ Seeds[i].key \in Keys
  BY DEF TypeInv, TypeOK, Near
<1>2. handed[i] = <<>>
  BY <1>1 DEF QueueInv
<1>3. handed' = [handed EXCEPT ![i] = <<"nearest">>]
  <2>1. Append(<<>>, "nearest") = <<"nearest">>
    OBVIOUS
  <2>2. handed' = [handed EXCEPT ![i] = Append(handed[i], "nearest")]
    BY DEF HandOut
  <2> QED BY <1>2, <2>1, <2>2
<1>4. \A j \in Sources : Left(j)' <=> Left(j)
  BY DEF Left
<1>5. ASSUME NEW j \in Sources
      PROVE  HandedRight(j)' /\ (Seeds[j].key \in Keys /\ handed'[j] # <<>> => j \in used')
  <2>1. HandedRight(j) /\ (Seeds[j].key \in Keys /\ handed[j] # <<>> => j \in used)
    BY DEF QueueInv
  <2>2. CASE j = i
    <3>1. <<>> # <<"exact">> /\ <<>> # <<"nearest", "exact">>
      OBVIOUS
    <3>2. Left(j)
      BY <1>2, <2>1, <2>2, <3>1 DEF HandedRight
    <3> QED BY <1>1, <1>3, <1>4, <2>2, <3>2 DEF HandedRight
  <2>3. CASE j # i
    BY <1>1, <1>3, <1>4, <2>1, <2>3 DEF HandedRight
  <2> QED BY <2>2, <2>3
<1>6. ASSUME NEW j \in Sources, NEW k \in Sources, j < k, Seeds[j].key = Seeds[k].key, Left(j)'
      PROVE  Left(k)'
  BY <1>4, <1>6 DEF QueueInv
<1>7. \A k \in Tools \cup Keys : /\ Increasing(queue'[k])
                                 /\ \A d \in DOMAIN queue'[k] : Seeds[queue'[k][d]].key = k
                                 /\ mode' = "record" => queue'[k] = <<>>
  BY DEF QueueInv
<1> QED BY <1>5, <1>6, <1>7 DEF QueueInv

(* What hands nothing out.                                                  *)
LEMMA QueuesKept ==
  ASSUME QueueInv, UNCHANGED <<mode, stores>>
  PROVE  QueueInv'
BY DEF QueueInv, HandedRight, Left, Increasing, stores

(* Every step keeps the queues: only TakeTool, MatchExact and MatchNearest  *)
(* touch them.                                                              *)
LEMMA NextQueues == TypeInv /\ QueueInv /\ [Next]_vars => QueueInv'
<1> SUFFICES ASSUME TypeInv, QueueInv, [Next]_vars PROVE QueueInv'
  OBVIOUS
<1>1. ASSUME NEW t \in Threads, TakeTool(t) PROVE QueueInv'
  <2> DEFINE key == call[t].target
  <2>1. key \in Tools /\ queue[key] # <<>>
    BY <1>1, LocalTyped DEF TakeTool, At, LocalRight
  <2>2. key \notin Keys
    BY <2>1, SdkAssumption
  <2>3. /\ queue' = [queue EXCEPT ![key] = Take(@).rest]
        /\ HandOut(Take(queue[key]).first, "exact")
        /\ mode' = mode /\ used' = used
    BY <1>1 DEF TakeTool
  <2> HIDE DEF key
  <2> QED BY <2>1, <2>2, <2>3, TakeKeepsQueues
<1>2. ASSUME NEW t \in Threads, MatchExact(t) PROVE QueueInv'
  <2> DEFINE key == FirstFilled(call[t].target)
  <2>1. key \in Keys /\ queue[key] # <<>>
    BY <1>2, FirstFilledIsFilled DEF MatchExact, Asked
  <2>2. /\ queue' = [queue EXCEPT ![key] = Take(@).rest]
        /\ HandOut(Take(queue[key]).first, "exact")
        /\ mode' = mode /\ used' = used \cup {Take(queue[key]).first}
    BY <1>2 DEF MatchExact
  <2> HIDE DEF key
  <2> QED BY <2>1, <2>2, TakeKeepsQueues
<1>3. ASSUME NEW t \in Threads, MatchNearest(t) PROVE QueueInv'
  <2>1. PICK i \in Near(call[t].target) : used' = used \cup {i} /\ HandOut(i, "nearest")
    BY <1>3 DEF MatchNearest
  <2>2. mode = "replay" /\ mode' = mode /\ queue' = queue
    BY <1>3 DEF MatchNearest, Asked
  <2> QED BY <2>1, <2>2, NearestKeepsQueues
<1>4. ASSUME NEW t \in Threads, Step(t), ~ TakeTool(t), ~ MatchExact(t), ~ MatchNearest(t)
      PROVE  QueueInv'
  <2>1. UNCHANGED <<mode, stores>>
    BY <1>4 DEF Step, Call, CountPass, CountInject, InjectHttp, InjectTool, AppendInjected, CancelInjected,
         StartTool, EndTool, CancelTool, FindTool, TakeNothing, Replay, Miss, RecordHttp, OpenStream
  <2> QED BY <2>1, QueuesKept
<1>5. CASE UNCHANGED vars
  BY <1>5, QueuesKept DEF vars
<1>6. ASSUME NEW t \in Threads, NEW u \in Threads, Spawn(t, u) PROVE QueueInv'
  BY <1>6, QueuesKept DEF Spawn
<1>7. ASSUME NEW source, NEW tier, CloseReplayed(source, tier) PROVE QueueInv'
  BY <1>7, QueuesKept DEF CloseReplayed
<1>8. CASE CloseStream
  BY <1>8, QueuesKept DEF CloseStream
<1> QED BY <1>1, <1>2, <1>3, <1>4, <1>5, <1>6, <1>7, <1>8 DEF Next

(* SdkRuntime.ReplayedOnce: no recorded answer is handed out twice by one   *)
(* tier, or as a nearest match after its exact one.                         *)
THEOREM AnswersReplayedOnce == Spec => []ReplayedOnce
<1>1. QueueInv => ReplayedOnce
  BY DEF QueueInv, HandedRight, ReplayedOnce
<1> QED BY <1>1, InitTyped, NextTyped, InitQueues, NextQueues, PTL DEF Spec

(* SdkRuntime.InRecordedOrder: equal calls get their answers in the order   *)
(* they were recorded in, from whatever threads they come.                  *)
THEOREM AnswersInRecordedOrder == Spec => []InRecordedOrder
<1>1. ASSUME TypeInv, QueueInv PROVE InRecordedOrder
  <2> SUFFICES ASSUME NEW i \in Sources, NEW j \in Sources, i < j, Seeds[i].key = Seeds[j].key,
                      NEW d \in DOMAIN handed[j], handed[j][d] = "exact"
               PROVE  \E e \in DOMAIN handed[i] : handed[i][e] = "exact"
    BY DEF InRecordedOrder
  <2>1. HandedRight(i) /\ HandedRight(j)
    BY <1>1 DEF QueueInv
  <2>2. handed[j] # <<>> /\ handed[j] # <<"nearest">>
    <3>1. ~ \E e \in DOMAIN <<>> : TRUE
      OBVIOUS
    <3>2. \A e \in DOMAIN <<"nearest">> : <<"nearest">>[e] = "nearest"
      OBVIOUS
    <3> QED BY <3>1, <3>2
  <2>3. mode = "replay" /\ ~ Left(j)
    BY <1>1, <2>1, <2>2 DEF HandedRight, TypeInv, TypeOK
  <2>4. ~ Left(i)
    BY <1>1, <2>3 DEF QueueInv
  <2>5. handed[i] = <<"exact">> \/ handed[i] = <<"nearest", "exact">>
    BY <2>1, <2>3, <2>4 DEF HandedRight
  <2>6. /\ 1 \in DOMAIN <<"exact">> /\ <<"exact">>[1] = "exact"
        /\ 2 \in DOMAIN <<"nearest", "exact">> /\ <<"nearest", "exact">>[2] = "exact"
    OBVIOUS
  <2> QED BY <2>5, <2>6
<1> QED BY <1>1, InitTyped, NextTyped, InitQueues, NextQueues, PTL DEF Spec

-----------------------------------------------------------------------------
(* Who has a number.                                                        *)

(* Owners(n), from the tools, injected answers, entries and cancelled tools *)
(* that have n.                                                             *)
Owned(R, P, E, C) ==
  (R \X {"tool"}) \cup (P \X {"injected"}) \cup (E \X {"entry"}) \cup (C \X {"cancelled"})

(* A number without an owner is no tool's, answer's, entry's or cancelled.  *)
LEMMA OwnedEmpty ==
  ASSUME NEW R, NEW P, NEW E, NEW C
  PROVE  Owned(R, P, E, C) = {} <=> R = {} /\ P = {} /\ E = {} /\ C = {}
<1>1. \A x : /\ x \in R => <<x, "tool">> \in Owned(R, P, E, C)
             /\ x \in P => <<x, "injected">> \in Owned(R, P, E, C)
             /\ x \in E => <<x, "entry">> \in Owned(R, P, E, C)
             /\ x \in C => <<x, "cancelled">> \in Owned(R, P, E, C)
  BY DEF Owned
<1>2. R = {} /\ P = {} /\ E = {} /\ C = {} => Owned(R, P, E, C) = {}
  BY DEF Owned
<1> QED BY <1>1, <1>2

(* One owner of any kind.                                                   *)
LEMMA OwnedOne ==
  ASSUME NEW x
  PROVE  /\ Owned({x}, {}, {}, {}) = {<<x, "tool">>}
         /\ Owned({}, {x}, {}, {}) = {<<x, "injected">>}
         /\ Owned({}, {}, {x}, {}) = {<<x, "entry">>}
         /\ Owned({}, {}, {}, {x}) = {<<x, "cancelled">>}
BY DEF Owned

(* The owners of a number, now and after a step, in these terms.            *)
LEMMA OwnersAre ==
  /\ \A n : Owners(n) = Owned(Running(n), Pending(n), Entries(n), {n} \cap cancelled)
  /\ \A n : Owners(n)' = Owned(Running(n)', Pending(n)', Entries(n)', {n} \cap cancelled')
BY DEF Owners, Owned

(* A step after which each number has the owners it had, or a single one.   *)
LEMMA OwnersKept ==
  ASSUME OneOwner, next \in Nat, next' \in Nat,
         \A n \in 1..MaxNumber :
           \/ Owners(n)' = Owners(n) /\ (n < next' <=> n < next)
           \/ n < next' /\ \E o : Owners(n)' = {o}
  PROVE  OneOwner'
<1> SUFFICES ASSUME NEW n \in 1..MaxNumber
             PROVE  IF n < next' THEN \E o \in Owners(n)' : Owners(n)' = {o} ELSE Owners(n)' = {}
  BY DEF OneOwner
<1>1. IF n < next THEN \E o \in Owners(n) : Owners(n) = {o} ELSE Owners(n) = {}
  BY DEF OneOwner
<1>2. CASE Owners(n)' = Owners(n) /\ (n < next' <=> n < next)
  BY <1>1, <1>2
<1>3. CASE n < next' /\ \E o : Owners(n)' = {o}
  BY <1>3
<1> QED BY <1>2, <1>3

(* A step that gives out the next number.                                   *)
LEMMA OwnerGiven ==
  ASSUME OneOwner, next \in Nat, MaxNumber \in Nat, next' = next + 1, NEW o,
         \A n \in 1..MaxNumber : n # next => Owners(n)' = Owners(n),
         \A n \in 1..MaxNumber : n = next => Owners(n)' = {o}
  PROVE  OneOwner'
<1>1. ASSUME NEW n \in 1..MaxNumber
      PROVE  \/ Owners(n)' = Owners(n) /\ (n < next' <=> n < next)
             \/ n < next' /\ \E x : Owners(n)' = {x}
  <2>1. CASE n = next
    <3>1. n < next'
      BY <2>1
    <3>2. Owners(n)' = {o}
      BY <2>1
    <3> QED BY <3>1, <3>2, Zenon
  <2>2. CASE n # next
    <3>1. n < next' <=> n < next
      BY <2>2
    <3>2. Owners(n)' = Owners(n)
      BY <2>2
    <3> QED BY <3>1, <3>2, Zenon
  <2> QED BY <2>1, <2>2
<1>2. next' \in Nat
  OBVIOUS
<1> QED BY <1>1, <1>2, OwnersKept

(* A number that is not given out has no owner, one that is has one.        *)
LEMMA Unowned ==
  ASSUME OneOwner, NEW n \in 1..MaxNumber, ~ (n < next)
  PROVE  Running(n) = {} /\ Pending(n) = {} /\ Entries(n) = {} /\ {n} \cap cancelled = {}
<1>1. Owners(n) = {}
  BY DEF OneOwner
<1> QED BY <1>1, OwnersAre, OwnedEmpty

(* A number that a tool has is the tool's alone,                            *)
LEMMA TheTool ==
  ASSUME OneOwner, NEW n \in 1..MaxNumber, NEW f \in Running(n)
  PROVE  n < next /\ Running(n) = {f} /\ Pending(n) = {} /\ Entries(n) = {} /\ {n} \cap cancelled = {}
<1>1. n < next
  BY Unowned
<1>2. PICK o : Owners(n) = {o}
  BY <1>1 DEF OneOwner
<1>3. \A y : /\ y \in Running(n) => <<y, "tool">> = o
             /\ y \in Pending(n) => <<y, "injected">> = o
             /\ y \in Entries(n) => <<y, "entry">> = o
             /\ y \in {n} \cap cancelled => <<y, "cancelled">> = o
  BY <1>2 DEF Owners
<1>4. o = <<f, "tool">>
  BY <1>3
<1> QED BY <1>1, <1>3, <1>4

(* and one that an injected answer has the answer's.                        *)
LEMMA TheInjected ==
  ASSUME OneOwner, NEW n \in 1..MaxNumber, NEW t \in Pending(n)
  PROVE  n < next /\ Running(n) = {} /\ Pending(n) = {t} /\ Entries(n) = {} /\ {n} \cap cancelled = {}
<1>1. n < next
  BY Unowned
<1>2. PICK o : Owners(n) = {o}
  BY <1>1 DEF OneOwner
<1>3. \A y : /\ y \in Running(n) => <<y, "tool">> = o
             /\ y \in Pending(n) => <<y, "injected">> = o
             /\ y \in Entries(n) => <<y, "entry">> = o
             /\ y \in {n} \cap cancelled => <<y, "cancelled">> = o
  BY <1>2 DEF Owners
<1>4. o = <<t, "injected">>
  BY <1>3
<1> QED BY <1>1, <1>3, <1>4

(* Most steps leave the tools, the injected answers and the cancelled tools *)
(* alone; a context changes only by the one of a creator.                   *)
Bystanders ==
  /\ UNCHANGED <<stack, cancelled>>
  /\ \A u \in Threads : context'[u] = 0 \/ \E v \in Threads : context'[u] = context[v]
  /\ \A u \in Threads : pc'[u] = "append" <=> pc[u] = "append"
  /\ \A u \in Threads : pc[u] = "append" => call'[u] = call[u] /\ context'[u] = context[u]

(* They add no entry, or one without a parent, or a clone.                  *)
Adds == \E parent, source : AppendNew(parent, source) /\ (source = 0 => parent = 0)

(* A step is one of those, or starts, ends or cancels a tool, or reserves   *)
(* or enters the number of an injected answer.                              *)
LEMMA StepKinds ==
  ASSUME TypeInv, [Next]_vars
  PROVE  \/ Bystanders /\ (UNCHANGED buffers \/ Adds)
         \/ \E t \in Threads : InjectTool(t) \/ AppendInjected(t) \/ StartTool(t) \/ EndTool(t) \/ CancelTool(t)
<1>m. ASSUME NEW t \in Threads, Moved(t, Points \ {"append"}), pc[t] # "append",
             UNCHANGED <<stack, context, cancelled>>
      PROVE  Bystanders
  BY <1>m DEF Moved, Bystanders
<1>u. ASSUME UNCHANGED <<pc, call, stack, context, cancelled>> PROVE Bystanders
  BY <1>u DEF Bystanders
<1>1. ASSUME NEW t \in Threads, Step(t),
             ~ (InjectTool(t) \/ AppendInjected(t) \/ StartTool(t) \/ EndTool(t) \/ CancelTool(t))
      PROVE  Bystanders /\ (UNCHANGED buffers \/ Adds)
  <2>1. pc[t] # "append"
    BY <1>1 DEF Step, At, Call, CountPass, CountInject, InjectHttp, CancelInjected, FindTool, TakeTool,
         TakeNothing, Replay, MatchExact, MatchNearest, Miss, Asked, RecordHttp, OpenStream, Sending
  <2>2. UNCHANGED <<stack, context, cancelled>>
    BY <1>1 DEF Step, nesting, Call, CountPass, CountInject, InjectHttp, CancelInjected, FindTool, TakeTool,
         TakeNothing, Replay, MatchExact, MatchNearest, Miss, RecordHttp, OpenStream
  <2>3. Moved(t, Points \ {"append"})
    <3>1. CASE \E c \in Calls : Call(t, c)
      <4>1. Moved(t, {"count"})
        BY <3>1, GotoMoves DEF Call
      <4> QED BY <4>1 DEF Moved, Points
    <3>2. CASE Moved(t, Aside)
      BY <3>2 DEF Moved, Points, Aside
    <3> QED BY <1>1, <3>1, <3>2, StepMoves
  <2>4. CASE Replay(t)
    <3>1. call[t].source \in Sources
      BY <2>4, LocalTyped DEF Replay, At, LocalRight
    <3>2. call[t].source # 0
      BY <3>1 DEF Sources
    <3> QED BY <2>4, <3>2, <2>1, <2>2, <2>3, <1>m DEF Replay, AppendReplay, Adds
  <2>5. CASE InjectHttp(t) \/ RecordHttp(t)
    BY <2>5, <2>1, <2>2, <2>3, <1>m DEF InjectHttp, RecordHttp, Adds
  <2>6. CASE ~ Replay(t) /\ ~ InjectHttp(t) /\ ~ RecordHttp(t)
    <3>1. UNCHANGED buffers
      BY <1>1, <2>6 DEF Step, Call, CountPass, CountInject, CancelInjected, FindTool, TakeTool,
           TakeNothing, MatchExact, MatchNearest, Miss, OpenStream
    <3> QED BY <3>1, <2>1, <2>2, <2>3, <1>m
  <2> QED BY <2>4, <2>5, <2>6
<1>2. ASSUME NEW t \in Threads, NEW u \in Threads, Spawn(t, u)
      PROVE  Bystanders /\ UNCHANGED buffers
  <2>1. context \in [Threads -> Nat]
    BY DEF TypeInv, TypeOK
  <2>2. context' = [context EXCEPT ![u] = IF t = u THEN 0 ELSE context[t]] /\ pc[u] = "free"
    BY <1>2 DEF Spawn, At
  <2> QED BY <1>2, <2>1, <2>2 DEF Spawn, Bystanders
<1>3. ASSUME NEW source \in Sources, NEW tier, CloseReplayed(source, tier)
      PROVE  Bystanders /\ Adds
  <2>1. source # 0
    BY DEF Sources
  <2> QED BY <1>3, <1>u, <2>1 DEF CloseReplayed, AppendReplay, Adds, nesting
<1>4. CASE CloseStream
  BY <1>4, <1>u DEF CloseStream, Adds, nesting
<1>5. CASE UNCHANGED vars
  BY <1>5, <1>u DEF vars, nesting
<1> QED BY <1>1, <1>2, <1>3, <1>4, <1>5 DEF Next

(* Steps that stand by leave tools, injected answers and cancelled numbers. *)
LEMMA BystandersHold ==
  ASSUME Bystanders, NEW n
  PROVE  Running(n)' = Running(n) /\ Pending(n)' = Pending(n) /\ cancelled' = cancelled
<1>1. Running(n)' = Running(n)
  BY DEF Bystanders, Running, Frames
<1>2. \A u \in Threads : (pc'[u] = "append" /\ call'[u].number = n) <=> (pc[u] = "append" /\ call[u].number = n)
  BY DEF Bystanders
<1>3. Pending(n)' = Pending(n)
  BY <1>2 DEF Pending, At
<1> QED BY <1>1, <1>3 DEF Bystanders

(* A new entry counts for its number.                                       *)
LEMMA EntryAdded ==
  ASSUME NEW e, buffer' = buffer \cup {e}, NEW n
  PROVE  Entries(n)' = IF e.number = n THEN Entries(n) \cup {e} ELSE Entries(n)
BY DEF Entries

(* The frames of a thread that enters a tool or leaves one.                 *)
LEMMA ToolStarted ==
  ASSUME TypeInv, NEW t \in Threads, StartTool(t), NEW n
  PROVE  /\ Running(n)' = IF n = next THEN Running(n) \cup {<<t, Len(stack[t]) + 1>>} ELSE Running(n)
         /\ \A d \in DOMAIN stack'[t] : \/ d \in DOMAIN stack[t] /\ stack'[t][d] = stack[t][d]
                                        \/ stack'[t][d] = [number |-> next, parent |-> context[t]]
         /\ \A u \in Threads \ {t} : stack'[u] = stack[u]
<1> DEFINE frame == [number |-> next, parent |-> context[t]]
           q == stack[t]
           depth == Len(q) + 1
<1>1. /\ stack \in [Threads -> Seq([number : Nat, parent : Nat])]
      /\ next \in Nat /\ context \in [Threads -> Nat]
  BY SdkAssumption DEF TypeInv, TypeOK
<1>2. stack' = [stack EXCEPT ![t] = Append(q, frame)]
  BY <1>1 DEF StartTool
<1>3. q \in Seq([number : Nat, parent : Nat]) /\ frame \in [number : Nat, parent : Nat]
  BY <1>1
<1>4. /\ Len(q) \in Nat /\ DOMAIN q = 1..Len(q)
      /\ DOMAIN Append(q, frame) = 1..depth
      /\ Append(q, frame)[depth] = frame
      /\ \A d \in 1..Len(q) : Append(q, frame)[d] = q[d]
  <2> HIDE DEF q, frame
  <2> QED BY <1>3, AppendProperties, LenProperties
<1>5. stack'[t] = Append(q, frame) /\ \A u \in Threads \ {t} : stack'[u] = stack[u]
  BY <1>1, <1>2
<1>6. /\ DOMAIN stack'[t] = DOMAIN stack[t] \cup {depth} /\ depth \notin DOMAIN stack[t]
      /\ stack'[t][depth] = frame
      /\ \A d \in DOMAIN stack[t] : stack'[t][d] = stack[t][d]
  <2> HIDE DEF frame
  <2> QED BY <1>4, <1>5
<1> HIDE DEF q, depth
<1>7. \A f : f \in Frames' <=> f \in Frames \/ f = <<t, depth>>
  <2>1. \A f : f \in Frames <=> \E u \in Threads : \E d \in DOMAIN stack[u] : f = <<u, d>>
    BY DEF Frames
  <2>2. \A f : f \in Frames' <=> \E u \in Threads : \E d \in DOMAIN stack'[u] : f = <<u, d>>
    BY DEF Frames
  <2> QED BY <1>5, <1>6, <2>1, <2>2
<1>8. \A f \in Frames : stack'[f[1]][f[2]] = stack[f[1]][f[2]]
  BY <1>5, <1>6 DEF Frames
<1>9. frame.number = next
  OBVIOUS
<1>10. \A f : f \in Running(n)' <=> f \in Running(n) \/ (f = <<t, depth>> /\ n = next)
  <2> HIDE DEF frame
  <2> QED BY <1>6, <1>7, <1>8, <1>9 DEF Running
<1>11. Running(n)' = IF n = next THEN Running(n) \cup {<<t, depth>>} ELSE Running(n)
  BY <1>10
<1> QED BY <1>5, <1>6, <1>11 DEF depth, q

(* Leaving a tool takes the last frame of its thread, which had the number  *)
(* that Top gives, and keeps the others.                                    *)
LEMMA ToolLeft ==
  ASSUME TypeInv, NEW t \in Threads, Leave(t), NEW n
  PROVE  /\ Running(n)' = Running(n) \ {<<t, Len(stack[t])>>}
         /\ <<t, Len(stack[t])>> \in Running(Top(t).number)
         /\ \A d \in DOMAIN stack'[t] : d \in DOMAIN stack[t] /\ stack'[t][d] = stack[t][d]
         /\ \A u \in Threads \ {t} : stack'[u] = stack[u]
<1> DEFINE q == stack[t]
           depth == Len(q)
           rest == SubSeq(q, 1, depth - 1)
<1>1. stack \in [Threads -> Seq([number : Nat, parent : Nat])] /\ q # <<>>
  BY DEF TypeInv, TypeOK, Leave
<1>2. stack' = [stack EXCEPT ![t] = rest]
  BY <1>1 DEF Leave
<1>3. /\ depth \in Nat \ {0} /\ DOMAIN q = 1..depth
      /\ DOMAIN rest = 1..(depth - 1)
      /\ \A d \in 1..(depth - 1) : rest[d] = q[d]
  BY <1>1, FrontProperties
<1>4. stack'[t] = rest /\ \A u \in Threads \ {t} : stack'[u] = stack[u]
  BY <1>1, <1>2
<1>5. /\ DOMAIN stack'[t] = DOMAIN q \ {depth} /\ depth \in DOMAIN q
      /\ \A d \in DOMAIN stack'[t] : stack'[t][d] = q[d]
  <2> HIDE DEF q, depth, rest
  <2> QED BY <1>3, <1>4
<1>6. q[depth] = Top(t)
  BY DEF Top
<1> HIDE DEF rest, depth
<1>7. \A f : f \in Frames' <=> f \in Frames /\ f # <<t, depth>>
  <2>1. \A f : f \in Frames <=> \E u \in Threads : \E d \in DOMAIN stack[u] : f = <<u, d>>
    BY DEF Frames
  <2>2. \A f : f \in Frames' <=> \E u \in Threads : \E d \in DOMAIN stack'[u] : f = <<u, d>>
    BY DEF Frames
  <2> QED BY <1>4, <1>5, <2>1, <2>2
<1>8. \A f \in Frames' : stack'[f[1]][f[2]] = stack[f[1]][f[2]]
  BY <1>4, <1>5 DEF Frames
<1>9. Running(n)' = Running(n) \ {<<t, depth>>}
  BY <1>7, <1>8 DEF Running
<1>10. <<t, depth>> \in Frames
  BY <1>5 DEF Frames
<1>11. <<t, depth>> \in Running(Top(t).number)
  BY <1>6, <1>10 DEF Running
<1> QED BY <1>4, <1>5, <1>9, <1>11 DEF depth

(* No other step of a thread moves an injected answer.                      *)
LEMMA PendingKept ==
  ASSUME NEW t \in Threads, Moved(t, Aside), NEW n
  PROVE  Pending(n)' = Pending(n) \ {t}
BY DEF Moved, Aside, Pending, At

(* Every step gives each number below the counter one owner, and none above.*)
LEMMA NextOwners == TypeInv /\ OneOwner /\ [Next]_vars => OneOwner'
<1> SUFFICES ASSUME TypeInv, OneOwner, [Next]_vars PROVE OneOwner'
  OBVIOUS
<1>0. next \in Nat /\ MaxNumber \in Nat
  BY SdkAssumption DEF TypeInv, TypeOK
<1>p. ASSUME NEW t \in Threads, StartTool(t) \/ EndTool(t) \/ CancelTool(t)
      PROVE  \A n : Pending(n)' = Pending(n)
  <2>1. pc[t] # "append" /\ Moved(t, Aside)
    <3>1. CASE StartTool(t)
      BY <3>1, DoneMoves DEF StartTool, At, Moved, Aside
    <3>2. CASE EndTool(t) \/ CancelTool(t)
      BY <3>2 DEF EndTool, CancelTool, Leave, At, Moved, Aside
    <3> QED BY <1>p, <3>1, <3>2
  <2>2. \A n : Pending(n)' = Pending(n) \ {t}
    BY <2>1, PendingKept
  <2>3. \A n : t \notin Pending(n)
    BY <2>1 DEF Pending, At
  <2> QED BY <2>2, <2>3
<1>1. CASE Bystanders /\ UNCHANGED buffers
  <2>1. \A n : Owners(n)' = Owners(n)
    BY <1>1, BystandersHold DEF Owners, Entries, buffers
  <2>2. next' = next
    BY <1>1 DEF buffers
  <2> QED BY <1>0, <2>1, <2>2, OwnersKept
<1>2. CASE Bystanders /\ Adds
  <2>1. PICK parent, source : AppendNew(parent, source)
    BY <1>2 DEF Adds
  <2> DEFINE e == [number |-> next, parent |-> parent, source |-> source]
  <2>2. next' = next + 1 /\ buffer' = buffer \cup {e} /\ e.number = next
    BY <2>1 DEF AppendNew
  <2> HIDE DEF e
  <2>3. ASSUME NEW n \in 1..MaxNumber, n # next PROVE Owners(n)' = Owners(n)
    BY <1>2, <2>2, <2>3, BystandersHold, EntryAdded DEF Owners
  <2>4. ASSUME NEW n \in 1..MaxNumber, n = next PROVE Owners(n)' = {<<e, "entry">>}
    <3>1. Running(n) = {} /\ Pending(n) = {} /\ Entries(n) = {} /\ {n} \cap cancelled = {}
      BY <1>0, <2>4, Unowned
    <3>2. Running(n)' = {} /\ Pending(n)' = {} /\ Entries(n)' = {e} /\ {n} \cap cancelled' = {}
      BY <1>2, <2>2, <2>4, <3>1, BystandersHold, EntryAdded
    <3> QED BY <3>2, OwnersAre, OwnedOne
  <2> QED BY <1>0, <2>2, <2>3, <2>4, OwnerGiven
<1>3. ASSUME NEW t \in Threads, InjectTool(t) PROVE OneOwner'
  <2>1. /\ next' = next + 1 /\ buffer' = buffer /\ UNCHANGED <<stack, cancelled>> /\ pc[t] = "inject"
        /\ Goto(t, "append", [call[t] EXCEPT !.number = next])
    BY <1>3 DEF InjectTool, Reserve, At, nesting
  <2>2. Moved(t, {"append"}) /\ call'[t] = [call[t] EXCEPT !.number = next] /\ call[t] \in Local
    BY <2>1, GotoMoves, LocalTyped
  <2>3. pc'[t] = "append" /\ call'[t].number = next
    BY <2>2 DEF Moved, Local
  <2>4. \A n : Pending(n)' = IF n = next THEN Pending(n) \cup {t} ELSE Pending(n)
    BY <2>1, <2>2, <2>3 DEF Pending, At, Moved
  <2>5. \A n : Running(n)' = Running(n) /\ Entries(n)' = Entries(n)
    BY <2>1 DEF Running, Frames, Entries
  <2>6. ASSUME NEW n \in 1..MaxNumber, n # next PROVE Owners(n)' = Owners(n)
    BY <2>1, <2>4, <2>5, <2>6 DEF Owners
  <2>7. ASSUME NEW n \in 1..MaxNumber, n = next PROVE Owners(n)' = {<<t, "injected">>}
    <3>1. Running(n) = {} /\ Pending(n) = {} /\ Entries(n) = {} /\ {n} \cap cancelled = {}
      BY <1>0, <2>7, Unowned
    <3>2. Running(n)' = {} /\ Pending(n)' = {t} /\ Entries(n)' = {} /\ {n} \cap cancelled' = {}
      BY <2>1, <2>4, <2>5, <2>7, <3>1
    <3> QED BY <3>2, OwnersAre, OwnedOne
  <2> QED BY <1>0, <2>1, <2>6, <2>7, OwnerGiven
<1>4. ASSUME NEW t \in Threads, AppendInjected(t) PROVE OneOwner'
  <2> DEFINE number == call[t].number
             e == [number |-> number, parent |-> context[t], source |-> 0]
  <2>1. /\ next' = next /\ buffer' = buffer \cup {e} /\ UNCHANGED <<stack, cancelled>> /\ pc[t] = "append"
        /\ Moved(t, Aside) /\ e.number = number
    BY <1>4, DoneMoves DEF AppendInjected, AppendReserved, At, nesting, Moved, Aside
  <2>2. t \in Pending(number) /\ \A n : n # number => t \notin Pending(n)
    BY <2>1 DEF Pending, At
  <2> HIDE DEF e, number
  <2>3. \A n : /\ Pending(n)' = Pending(n) \ {t} /\ Running(n)' = Running(n)
               /\ Entries(n)' = IF n = number THEN Entries(n) \cup {e} ELSE Entries(n)
    BY <2>1, PendingKept, EntryAdded DEF Running, Frames
  <2>4. ASSUME NEW n \in 1..MaxNumber, n # number PROVE Owners(n)' = Owners(n)
    BY <2>1, <2>2, <2>3, <2>4 DEF Owners
  <2>5. ASSUME NEW n \in 1..MaxNumber, n = number PROVE n < next /\ Owners(n)' = {<<e, "entry">>}
    <3>1. n < next /\ Running(n) = {} /\ Pending(n) = {t} /\ Entries(n) = {} /\ {n} \cap cancelled = {}
      BY <2>2, <2>5, TheInjected
    <3>2. Running(n)' = {} /\ Pending(n)' = {} /\ Entries(n)' = {e} /\ {n} \cap cancelled' = {}
      BY <2>1, <2>3, <2>5, <3>1
    <3> QED BY <3>1, <3>2, OwnersAre, OwnedOne
  <2> QED BY <1>0, <2>1, <2>4, <2>5, OwnersKept
<1>5. ASSUME NEW t \in Threads, StartTool(t) PROVE OneOwner'
  <2> DEFINE f == <<t, Len(stack[t]) + 1>>
  <2>1. next' = next + 1 /\ buffer' = buffer /\ cancelled' = cancelled
    BY <1>5 DEF StartTool, Reserve
  <2>2. \A n : /\ Running(n)' = IF n = next THEN Running(n) \cup {f} ELSE Running(n)
               /\ Pending(n)' = Pending(n) /\ Entries(n)' = Entries(n)
    BY <1>5, <1>p, <2>1, ToolStarted DEF Entries
  <2> HIDE DEF f
  <2>3. ASSUME NEW n \in 1..MaxNumber, n # next PROVE Owners(n)' = Owners(n)
    BY <2>1, <2>2, <2>3 DEF Owners
  <2>4. ASSUME NEW n \in 1..MaxNumber, n = next PROVE Owners(n)' = {<<f, "tool">>}
    <3>1. Running(n) = {} /\ Pending(n) = {} /\ Entries(n) = {} /\ {n} \cap cancelled = {}
      BY <1>0, <2>4, Unowned
    <3>2. Running(n)' = {f} /\ Pending(n)' = {} /\ Entries(n)' = {} /\ {n} \cap cancelled' = {}
      BY <2>1, <2>2, <2>4, <3>1
    <3> QED BY <3>2, OwnersAre, OwnedOne
  <2> QED BY <1>0, <2>1, <2>3, <2>4, OwnerGiven
<1>6. ASSUME NEW t \in Threads, EndTool(t) PROVE OneOwner'
  <2> DEFINE f == <<t, Len(stack[t])>>
             number == Top(t).number
             e == [number |-> number, parent |-> Top(t).parent, source |-> 0]
  <2>1. next' = next /\ buffer' = buffer \cup {e} /\ cancelled' = cancelled /\ e.number = number /\ Leave(t)
    BY <1>6 DEF EndTool, AppendReserved
  <2>2. f \in Running(number) /\ \A n : Running(n)' = Running(n) \ {f}
    BY <2>1, ToolLeft
  <2>3. \A n : n # number => f \notin Running(n)
    BY <2>2 DEF Running
  <2> HIDE DEF e, number, f
  <2>4. \A n : /\ Pending(n)' = Pending(n)
               /\ Entries(n)' = IF n = number THEN Entries(n) \cup {e} ELSE Entries(n)
    BY <1>6, <1>p, <2>1, EntryAdded
  <2>5. ASSUME NEW n \in 1..MaxNumber, n # number PROVE Owners(n)' = Owners(n)
    BY <2>1, <2>2, <2>3, <2>4, <2>5 DEF Owners
  <2>6. ASSUME NEW n \in 1..MaxNumber, n = number PROVE n < next /\ Owners(n)' = {<<e, "entry">>}
    <3>1. n < next /\ Running(n) = {f} /\ Pending(n) = {} /\ Entries(n) = {} /\ {n} \cap cancelled = {}
      BY <2>2, <2>6, TheTool
    <3>2. Running(n)' = {} /\ Pending(n)' = {} /\ Entries(n)' = {e} /\ {n} \cap cancelled' = {}
      BY <2>1, <2>2, <2>4, <2>6, <3>1
    <3> QED BY <3>1, <3>2, OwnersAre, OwnedOne
  <2> QED BY <1>0, <2>1, <2>5, <2>6, OwnersKept
<1>7. ASSUME NEW t \in Threads, CancelTool(t) PROVE OneOwner'
  <2> DEFINE f == <<t, Len(stack[t])>>
             number == Top(t).number
  <2>1. next' = next /\ buffer' = buffer /\ cancelled' = cancelled \cup {number} /\ Leave(t)
    BY <1>7 DEF CancelTool, buffers
  <2>2. f \in Running(number) /\ \A n : Running(n)' = Running(n) \ {f}
    BY <2>1, ToolLeft
  <2>3. \A n : n # number => f \notin Running(n)
    BY <2>2 DEF Running
  <2> HIDE DEF number, f
  <2>4. \A n : Pending(n)' = Pending(n) /\ Entries(n)' = Entries(n)
    BY <1>7, <1>p, <2>1 DEF Entries
  <2>5. ASSUME NEW n \in 1..MaxNumber, n # number PROVE Owners(n)' = Owners(n)
    BY <2>1, <2>2, <2>3, <2>4, <2>5 DEF Owners
  <2>6. ASSUME NEW n \in 1..MaxNumber, n = number PROVE n < next /\ Owners(n)' = {<<n, "cancelled">>}
    <3>1. n < next /\ Running(n) = {f} /\ Pending(n) = {} /\ Entries(n) = {} /\ {n} \cap cancelled = {}
      BY <2>2, <2>6, TheTool
    <3>2. Running(n)' = {} /\ Pending(n)' = {} /\ Entries(n)' = {} /\ {n} \cap cancelled' = {n}
      BY <2>1, <2>2, <2>4, <2>6, <3>1
    <3> QED BY <3>1, <3>2, OwnersAre, OwnedOne
  <2> QED BY <1>0, <2>1, <2>5, <2>6, OwnersKept
<1> QED BY <1>1, <1>2, <1>3, <1>4, <1>5, <1>6, <1>7, StepKinds

(* SdkRuntime.OneOwner: every number given out has exactly one owner,       *)
(* however tools, HTTP calls, streams and injected answers end.             *)
THEOREM NumbersHaveOneOwner == Spec => []OneOwner
<1>1. Init => OneOwner
  <2> SUFFICES ASSUME Init, NEW n \in 1..MaxNumber PROVE ~ (n < next) /\ Owners(n) = {}
    BY DEF OneOwner
  <2>1. Frames = {}
    BY DEF Init, Frames
  <2>2. Running(n) = {} /\ Pending(n) = {} /\ Entries(n) = {} /\ {n} \cap cancelled = {}
    BY <2>1 DEF Init, Running, Pending, Entries, At
  <2>3. Owners(n) = {}
    BY <2>2, OwnersAre, OwnedEmpty
  <2> QED BY <2>3 DEF Init
<1> QED BY <1>1, InitTyped, NextTyped, NextOwners, PTL DEF Spec

-----------------------------------------------------------------------------
(* Who is a parent.                                                         *)

(* Who is known stays known: a tool that leaves enters the buffer, or is    *)
(* one of the cancelled.                                                    *)
LEMMA KnownStays ==
  ASSUME TypeInv, [Next]_vars, NEW n, Known(n)
  PROVE  Known(n)' /\ next <= next'
<1>0. next \in Nat
  BY DEF TypeInv, TypeOK
<1>e. buffer \subseteq buffer' => (Entries(n) # {} => Entries(n)' # {})
  BY DEF Entries
<1>1. CASE Bystanders /\ (UNCHANGED buffers \/ Adds)
  <2>1. buffer \subseteq buffer' /\ next <= next'
    BY <1>0, <1>1 DEF buffers, Adds, AppendNew
  <2> QED BY <1>1, <1>e, <2>1, BystandersHold DEF Known
<1>2. ASSUME NEW t \in Threads, InjectTool(t) \/ AppendInjected(t) PROVE Known(n)' /\ next <= next'
  <2>1. buffer \subseteq buffer' /\ next <= next' /\ UNCHANGED <<stack, cancelled>>
    BY <1>0, <1>2 DEF InjectTool, AppendInjected, Reserve, AppendReserved, nesting
  <2>2. Running(n)' = Running(n)
    BY <2>1 DEF Running, Frames
  <2> QED BY <1>e, <2>1, <2>2 DEF Known
<1>3. ASSUME NEW t \in Threads, StartTool(t) PROVE Known(n)' /\ next <= next'
  <2>1. buffer \subseteq buffer' /\ next <= next' /\ cancelled' = cancelled
    BY <1>0, <1>3 DEF StartTool, Reserve
  <2>2. Running(n) \subseteq Running(n)'
    BY <1>3, ToolStarted
  <2> QED BY <1>e, <2>1, <2>2 DEF Known
<1>4. ASSUME NEW t \in Threads, EndTool(t) \/ CancelTool(t) PROVE Known(n)' /\ next <= next'
  <2> DEFINE f == <<t, Len(stack[t])>>
  <2>1. buffer \subseteq buffer' /\ next <= next' /\ cancelled \subseteq cancelled'
    BY <1>0, <1>4 DEF EndTool, CancelTool, AppendReserved, buffers
  <2>2. f \in Running(Top(t).number) /\ Running(n)' = Running(n) \ {f}
    BY <1>4, ToolLeft DEF EndTool, CancelTool
  <2>3. ASSUME f \in Running(n) PROVE n = Top(t).number
    BY <2>2, <2>3 DEF Running
  <2>4. ASSUME n = Top(t).number PROVE Entries(n)' # {} \/ n \in cancelled'
    <3>1. CASE EndTool(t)
      <4>1. [number |-> Top(t).number, parent |-> Top(t).parent, source |-> 0] \in buffer'
        BY <3>1 DEF EndTool, AppendReserved
      <4> QED BY <2>4, <4>1 DEF Entries
    <3>2. CASE CancelTool(t)
      BY <2>4, <3>2 DEF CancelTool
    <3> QED BY <1>4, <3>1, <3>2
  <2> HIDE DEF f
  <2> QED BY <1>e, <2>1, <2>2, <2>3, <2>4 DEF Known
<1> QED BY <1>1, <1>2, <1>3, <1>4, StepKinds

(* Entries keep their place, and new ones have no parent or come after it.  *)
LEMMA EntriesImportable ==
  ASSUME TypeInv, [Next]_vars, Importable,
         \A i \in buffer' \ buffer :
           i.source = 0 /\ i.parent # 0 => i.parent < i.number /\ Known(i.parent)
  PROVE  Importable'
<1> SUFFICES ASSUME NEW i \in buffer', i.source = 0, i.parent # 0
             PROVE  i.parent < i.number /\ Known(i.parent)'
  BY DEF Importable
<1> DEFINE p == i.parent
<1>1. p < i.number /\ Known(p)
  BY DEF Importable
<1> HIDE DEF p
<1>2. Known(p)'
  BY <1>1, KnownStays
<1> QED BY <1>1, <1>2 DEF p

(* A step keeps the parents right when the new ones are.                    *)
LEMMA ParentsKept ==
  ASSUME TypeInv, [Next]_vars, ParentInv,
         \A i \in buffer' \ buffer :
           i.source = 0 /\ i.parent # 0 => i.parent < i.number /\ Known(i.parent),
         \A u \in Threads : \A p : p = context'[u] => ParentRight(p) \/ (p < next' /\ Known(p)'),
         \A u \in Threads : \A d \in DOMAIN stack'[u] : \A p :
           p = stack'[u][d].parent => ParentRight(p) /\ (p # 0 => p < stack'[u][d].number),
         \A u \in Threads : pc'[u] = "append" => context'[u] < call'[u].number
  PROVE  ParentInv'
<1>1. Importable'
  BY EntriesImportable DEF ParentInv
<1>t. TypeInv'
  BY NextTyped
<1>n. /\ next \in Nat /\ next' \in Nat /\ context' \in [Threads -> Nat]
      /\ stack' \in [Threads -> Seq([number : Nat, parent : Nat])]
  BY <1>t DEF TypeInv, TypeOK
<1>2. ASSUME NEW p \in Nat, ParentRight(p), p # 0 PROVE p < next' /\ Known(p)'
  BY <1>2, <1>n, KnownStays DEF ParentRight
<1>3. ASSUME NEW u \in Threads, context'[u] # 0
      PROVE  context'[u] < next' /\ Known(context[u])'
  <2>1. PICK p \in Nat : p = context'[u]
    BY <1>n
  <2>2. p < next' /\ Known(p)'
    BY <1>2, <1>3, <2>1
  <2> QED BY <2>1, <2>2 DEF Known, Entries, Running
<1>4. ASSUME NEW u \in Threads, NEW d \in DOMAIN stack'[u], stack'[u][d].parent # 0
      PROVE  /\ stack'[u][d].parent < next' /\ Known(stack[u][d].parent)'
             /\ stack'[u][d].parent < stack'[u][d].number
  <2>1. stack'[u] \in Seq([number : Nat, parent : Nat])
    BY <1>n
  <2>2. stack'[u][d] \in [number : Nat, parent : Nat]
    BY <2>1, LenProperties, ElementOfSeq
  <2>3. PICK p \in Nat : p = stack'[u][d].parent
    BY <2>2
  <2>4. p < next' /\ Known(p)' /\ p < stack'[u][d].number
    BY <1>2, <1>4, <2>3
  <2> QED BY <2>3, <2>4 DEF Known, Entries, Running
<1> QED BY <1>1, <1>3, <1>4 DEF ParentInv, ParentRight, At

(* Every step keeps parents known and below their calls.                    *)
LEMMA NextParents == TypeInv /\ ParentInv /\ [Next]_vars => ParentInv'
<1> SUFFICES ASSUME TypeInv, ParentInv, [Next]_vars PROVE ParentInv'
  OBVIOUS
<1>0. /\ next \in Nat \ {0} /\ context \in [Threads -> Nat] /\ call \in [Threads -> Local]
      /\ pc \in [Threads -> Points] /\ stack \in [Threads -> Seq([number : Nat, parent : Nat])]
  BY SdkAssumption DEF TypeInv, TypeOK
<1>c. \A u \in Threads : ParentRight(context[u]) /\ (pc[u] = "append" => context[u] < call[u].number)
  BY DEF ParentInv, At
<1>s. \A u \in Threads : \A d \in DOMAIN stack[u] :
        ParentRight(stack[u][d].parent) /\ (stack[u][d].parent # 0 => stack[u][d].parent < stack[u][d].number)
  BY DEF ParentInv
<1>z. ParentRight(0)
  BY DEF ParentRight
<1>1. CASE Bystanders /\ (UNCHANGED buffers \/ Adds)
  <2>1. \A i \in buffer' \ buffer : i.source = 0 => i.parent = 0
    BY <1>1 DEF buffers, Adds, AppendNew
  <2>2. \A u \in Threads : ParentRight(context'[u]) /\ (pc'[u] = "append" => context'[u] < call'[u].number)
    BY <1>1, <1>c, <1>z DEF Bystanders
  <2>3. stack' = stack
    BY <1>1 DEF Bystanders
  <2> QED BY <1>s, <2>1, <2>2, <2>3, ParentsKept
<1>2. ASSUME NEW t \in Threads, InjectTool(t) PROVE ParentInv'
  <2>1. /\ buffer' = buffer /\ stack' = stack /\ context' = context
        /\ Goto(t, "append", [call[t] EXCEPT !.number = next])
    BY <1>2 DEF InjectTool, Reserve, nesting
  <2>2. Moved(t, {"append"}) /\ call'[t].number = next
    <3>1. call[t] \in Local
      BY <1>0
    <3>2. Moved(t, {"append"}) /\ call'[t] = [call[t] EXCEPT !.number = next]
      BY <2>1, GotoMoves
    <3> QED BY <3>1, <3>2 DEF Local
  <2>3. context[t] < next
    BY <1>0, <1>c DEF ParentRight
  <2>4. \A u \in Threads : pc'[u] = "append" => context'[u] < call'[u].number
    BY <1>c, <2>1, <2>2, <2>3 DEF Moved
  <2> QED BY <1>c, <1>s, <2>1, <2>4, ParentsKept
<1>3. ASSUME NEW t \in Threads, AppendInjected(t) PROVE ParentInv'
  <2> DEFINE e == [number |-> call[t].number, parent |-> context[t], source |-> 0]
  <2>1. /\ buffer' = buffer \cup {e} /\ stack' = stack /\ context' = context
        /\ pc[t] = "append" /\ Moved(t, Aside)
    BY <1>3, DoneMoves DEF AppendInjected, AppendReserved, nesting, At, Moved, Aside
  <2>2. e.parent # 0 => e.parent < e.number /\ Known(e.parent)
    BY <1>c, <2>1 DEF ParentRight
  <2> HIDE DEF e
  <2>3. \A i \in buffer' \ buffer : i.source = 0 /\ i.parent # 0 => i.parent < i.number /\ Known(i.parent)
    BY <2>1, <2>2
  <2>4. \A u \in Threads : pc'[u] = "append" => context'[u] < call'[u].number
    BY <1>c, <2>1 DEF Moved, Aside
  <2> QED BY <1>c, <1>s, <2>1, <2>3, <2>4, ParentsKept
<1>4. ASSUME NEW t \in Threads, StartTool(t) PROVE ParentInv'
  <2>1. buffer' = buffer /\ context' = [context EXCEPT ![t] = next] /\ next' = next + 1 /\ Moved(t, Aside)
    BY <1>4, DoneMoves DEF StartTool, Reserve, Moved, Aside
  <2>2. context[t] < next
    BY <1>0, <1>c DEF ParentRight
  <2>3. ASSUME NEW u \in Threads, NEW d \in DOMAIN stack'[u], NEW p, p = stack'[u][d].parent
        PROVE  ParentRight(p) /\ (p # 0 => p < stack'[u][d].number)
    <3>1. CASE u = t
      <4>1. \/ d \in DOMAIN stack[t] /\ stack'[t][d] = stack[t][d]
            \/ stack'[t][d] = [number |-> next, parent |-> context[t]]
        BY <1>4, <2>3, <3>1, ToolStarted
      <4> QED BY <1>c, <1>s, <2>2, <2>3, <3>1, <4>1
    <3>2. CASE u # t
      <4>1. stack'[u] = stack[u]
        BY <1>4, <3>2, ToolStarted
      <4> QED BY <1>s, <2>3, <4>1
    <3> QED BY <3>1, <3>2
  <2>4. ASSUME NEW u \in Threads, NEW p, p = context'[u]
        PROVE  ParentRight(p) \/ (p < next' /\ Known(p)')
    <3>1. CASE u = t
      <4>1. p = next
        BY <1>0, <2>1, <2>4, <3>1
      <4>2. Running(p)' = Running(p) \cup {<<t, Len(stack[t]) + 1>>}
        BY <1>4, <4>1, ToolStarted
      <4>3. Known(p)'
        BY <4>2 DEF Known
      <4>4. p < next'
        BY <1>0, <2>1, <4>1
      <4> QED BY <4>3, <4>4
    <3>2. CASE u # t
      BY <1>0, <1>c, <2>1, <2>4, <3>2
    <3> QED BY <3>1, <3>2
  <2>5. \A u \in Threads : pc'[u] = "append" => context'[u] < call'[u].number
    BY <1>0, <1>c, <2>1 DEF Moved, Aside
  <2> QED BY <2>1, <2>3, <2>4, <2>5, ParentsKept
<1>5. ASSUME NEW t \in Threads, EndTool(t) \/ CancelTool(t) PROVE ParentInv'
  <2> DEFINE e == [number |-> Top(t).number, parent |-> Top(t).parent, source |-> 0]
  <2>1. /\ Leave(t) /\ pc[t] = "free" /\ UNCHANGED <<pc, call>>
        /\ context' = [context EXCEPT ![t] = Top(t).parent]
        /\ buffer' = buffer \/ buffer' = buffer \cup {e}
    BY <1>5 DEF EndTool, CancelTool, Leave, AppendReserved, buffers, At
  <2>2. ParentRight(Top(t).parent) /\ (Top(t).parent # 0 => Top(t).parent < Top(t).number)
    <3>1. Len(stack[t]) \in DOMAIN stack[t]
      BY <2>1, TopTyped DEF Leave
    <3> QED BY <1>s, <3>1 DEF Top
  <2>3. e.parent # 0 => e.parent < e.number /\ Known(e.parent)
    BY <2>2 DEF ParentRight
  <2> HIDE DEF e
  <2>4. \A i \in buffer' \ buffer : i.source = 0 /\ i.parent # 0 => i.parent < i.number /\ Known(i.parent)
    BY <2>1, <2>3
  <2>5. \A u \in Threads : \A d \in DOMAIN stack'[u] : d \in DOMAIN stack[u] /\ stack'[u][d] = stack[u][d]
    BY <2>1, ToolLeft
  <2>6. \A u \in Threads : ParentRight(context'[u]) /\ (pc'[u] = "append" => context'[u] < call'[u].number)
    BY <1>0, <1>c, <2>1, <2>2
  <2>7. \A u \in Threads : \A d \in DOMAIN stack'[u] : \A p :
          p = stack'[u][d].parent => ParentRight(p) /\ (p # 0 => p < stack'[u][d].number)
    BY <1>s, <2>5
  <2> QED BY <2>4, <2>6, <2>7, ParentsKept
<1> QED BY <1>1, <1>2, <1>3, <1>4, <1>5, StepKinds

(* SdkRuntime.Importable: a tool that calls others is known and has a lower *)
(* number, so that the import finds the row of every parent it refers to.   *)
THEOREM ParentsComeFirst == Spec => []Importable
<1>1. Init => ParentInv
  BY EmptySeq DEF Init, ParentInv, Importable, ParentRight, At
<1>2. ParentInv => Importable
  BY DEF ParentInv
<1> QED BY <1>1, <1>2, InitTyped, NextTyped, NextParents, PTL DEF Spec

=============================================================================
