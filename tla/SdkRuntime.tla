------------------------------ MODULE SdkRuntime ------------------------------
(***************************************************************************)
(* The Python SDK inside an agent process: the capture buffer              *)
(* (_capture.py), the wrapped tools (_tools.py), the intercepted HTTP      *)
(* calls (_httpx.py), the two stores of recorded answers (_openai.py,      *)
(* _tools.py) and the error-injection rules (_injection.py).  Threads or   *)
(* asyncio tasks of the agent share all of them.  The buffer and the store *)
(* of HTTP answers have a lock, so a call of theirs is one step; the store *)
(* of tool answers and the rule counters have none.                        *)
(*                                                                         *)
(* The buffer gives an interaction its sequence number and its random id   *)
(* in one step, so a number here stands for both.  A tool gets its number  *)
(* when it starts and enters the buffer when it ends, after the calls it   *)
(* makes; an HTTP call gets both when it ends.                             *)
(***************************************************************************)
EXTENDS Integers, Sequences, Functions

CONSTANTS
  Threads,    \* threads or tasks of the agent
  Tools,      \* tool calls, each a tool with its arguments
  Live,       \* those whose replay policy is not "recorded"
  Requests,   \* HTTP requests
  Streamed,   \* those sent with stream=True
  Keys,       \* exact-match keys of HTTP requests
  Tried,      \* the keys a request tries, in order
  Score,      \* how near a request is to a key's request, 0 for too far
  Operation,  \* the operation that calls are counted under
  Rules,      \* injection rules: [op, nth (0 for any call), sure]
  Seeds,      \* the source run: [key, parent, kind] in recorded order
  MaxNumber,  \* bound on sequence numbers
  MaxCalls,   \* bound on the calls counted
  MaxOpen     \* bound on the streams that are recorded at once

Calls == Tools \cup Requests
Operations == {Operation[c] : c \in Calls}
Sources == 1..Len(Seeds)
Tiers == {"exact", "nearest"}
Kinds == {"plain", "stream", "error", "cut"}     \* "cut": no terminal event

ASSUME SdkAssumption ==
  /\ Tools \cap Requests = {} /\ Tools \cap Keys = {}
  /\ Live \subseteq Tools /\ Streamed \subseteq Requests
  /\ Tried \in [Requests -> Seq(Keys)]
  /\ Score \in [Requests -> [Keys -> Nat]]
  /\ Rules \subseteq [op : Operations, nth : Nat, sure : BOOLEAN]
  /\ Seeds \in Seq([key : Tools \cup Keys, parent : Nat, kind : Kinds])
  /\ {MaxNumber, MaxCalls, MaxOpen} \subseteq Nat

VARIABLES
  mode,      \* "record" or "replay"
  next,      \* _next_sequence
  buffer,    \* _interactions; their order is that of their numbers (snapshot)
  queue,     \* _entries of both replay stores: what is left to replay by key
  used,      \* _used_interaction_ids
  counts,    \* call counters of the injection engine
  applied,   \* _applied: operation and call number of what was injected, and
             \* (history) which of the operation's calls it was
  open,      \* streamed responses the agent has not finished: the recording ones
  openSeeds, \* and the replayed ones, with their source and tier
  stack,     \* the tools each thread is in: their numbers and parents
  context,   \* _current_tool_interaction_id of each thread
  pc, call,  \* where the call of each thread stands, and its local variables
  handed,    \* history: the tiers each source interaction was handed out by
  cancelled, \* history: numbers of tools that were cancelled
  counted,   \* history: how many calls of each operation were counted
  raced      \* history: operations two calls of which were counted at once

buffers == <<next, buffer>>
stores  == <<queue, used, handed>>
rules   == <<counts, applied, counted, raced>>
streams == <<open, openSeeds>>
nesting == <<stack, context, cancelled>>
vars == <<mode, buffers, stores, rules, streams, nesting, pc, call>>

Points == {"free", "count", "inject", "append", "go", "take", "replay"}

(* What the thread calls, the call number it was given, the number reserved *)
(* for its interaction, and the recorded answer with its tier.              *)
Local == [target : Calls \cup {"none"}, count : Nat, number : Nat,
          source : Sources \cup {0}, tier : Tiers]
NoLocal == [target |-> "none", count |-> 0, number |-> 0, source |-> 0, tier |-> "exact"]

(* source is 0 for what was recorded live; the parent of what was replayed  *)
(* is an interaction of the source run.                                     *)
Interaction == [number : Nat, parent : Nat, source : Sources \cup {0}]

(* seed: the first n interactions of the source run, each behind the others *)
(* of its key.                                                              *)
Seeded[n \in 0..Len(Seeds)] ==
  IF n = 0 THEN [key \in Tools \cup Keys |-> <<>>]
           ELSE [Seeded[n - 1] EXCEPT ![Seeds[n].key] = Append(@, n)]

Init ==
  /\ mode \in {"record", "replay"}
  /\ next = 1 /\ buffer = {}
  /\ queue = Seeded[IF mode = "replay" THEN Len(Seeds) ELSE 0]
  /\ used = {} /\ handed = [i \in Sources |-> <<>>]
  /\ counts = [op \in Operations |-> 0] /\ counted = counts /\ applied = {} /\ raced = {}
  /\ open = 0 /\ openSeeds = {}
  /\ stack = [t \in Threads |-> <<>>] /\ context = [t \in Threads |-> 0] /\ cancelled = {}
  /\ pc = [t \in Threads |-> "free"] /\ call = [t \in Threads |-> NoLocal]

At(t, point) == pc[t] = point

Goto(t, point, local) ==
  /\ pc'   = [pc EXCEPT ![t] = point]
  /\ call' = [call EXCEPT ![t] = local]

(* The call ends, with an answer or an exception, and the agent goes on.    *)
Done(t) == Goto(t, "free", NoLocal)

-----------------------------------------------------------------------------
(* The capture buffer.                                                      *)

(* _append_interaction: number and entry in one step.                       *)
AppendNew(parent, source) ==
  /\ next <= MaxNumber
  /\ buffer' = buffer \cup {[number |-> next, parent |-> parent, source |-> source]}
  /\ next' = next + 1

(* Mutation: a number is reserved without moving the counter.               *)
ReserveLater == next <= MaxNumber /\ UNCHANGED <<next, buffer>>

(* reserve_interaction: the number only.                                    *)
Reserve == next <= MaxNumber /\ next' = next + 1 /\ UNCHANGED buffer

(* append_reserved_interaction.                                             *)
AppendReserved(number, parent) ==
  /\ buffer' = buffer \cup {[number |-> number, parent |-> parent, source |-> 0]}
  /\ UNCHANGED next

-----------------------------------------------------------------------------
(* Every call first asks the injection engine, which reads the counter and  *)
(* writes it back in two steps: asyncio tasks count one after the other,    *)
(* since nothing awaits in between, and threads may count at once.          *)

Counting(t, op) == At(t, "count") /\ Operation[call[t].target] = op

Call(t, c) ==
  LET op == Operation[c] IN
  /\ At(t, "free")
  /\ FoldFunction(+, 0, counted) < MaxCalls
  /\ Goto(t, "count", [NoLocal EXCEPT !.target = c, !.count = counts[op] + 1])
  /\ raced' = IF \E u \in Threads : Counting(u, op) THEN raced \cup {op} ELSE raced
  /\ UNCHANGED <<mode, buffers, stores, counts, applied, counted, streams, nesting>>

(* Mutation: calls are numbered from zero.                                  *)
MatchesFromZero(rule, op, count) == rule.op = op /\ rule.nth \in {0, count - 1}

Matches(rule, op, count) == rule.op = op /\ rule.nth \in {0, count}

SetCount(t, op) ==
  /\ counts'  = [counts EXCEPT ![op] = call[t].count]
  /\ counted' = [counted EXCEPT ![op] = @ + 1]

(* A rule with a probability may let the call pass.                         *)
CountPass(t) ==
  LET op == Operation[call[t].target] IN
  /\ At(t, "count")
  /\ ~\E rule \in Rules : rule.sure /\ Matches(rule, op, call[t].count)
  /\ SetCount(t, op)
  /\ Goto(t, "go", call[t])
  /\ UNCHANGED <<mode, buffers, stores, applied, raced, streams, nesting>>

(* The pass over the rules after the write reads nothing that is shared,    *)
(* so it belongs to the step; the latency of the rule follows.              *)
CountInject(t) ==
  LET op == Operation[call[t].target] IN
  /\ At(t, "count")
  /\ \E rule \in Rules : Matches(rule, op, call[t].count)
  /\ SetCount(t, op)
  /\ applied' = applied \cup
       {[op |-> op, number |-> call[t].count, nth |-> counted[op] + 1]}
  /\ Goto(t, "inject", call[t])
  /\ UNCHANGED <<mode, buffers, stores, raced, streams, nesting>>

InjectHttp(t) ==
  /\ At(t, "inject")
  /\ call[t].target \in Requests
  /\ AppendNew(0, 0)
  /\ Done(t)
  /\ UNCHANGED <<mode, stores, rules, streams, nesting>>

(* The injected error of a tool first gets its number ...                   *)
InjectTool(t) ==
  /\ At(t, "inject")
  /\ call[t].target \in Tools
  /\ Reserve
  /\ Goto(t, "append", [call[t] EXCEPT !.number = next])
  /\ UNCHANGED <<mode, stores, rules, streams, nesting>>

(* ... and then its entry.                                                  *)
AppendInjected(t) ==
  /\ At(t, "append")
  /\ AppendReserved(call[t].number, context[t])
  /\ Done(t)
  /\ UNCHANGED <<mode, stores, rules, streams, nesting>>

(* A task is cancelled while it sleeps for the latency of the rule.         *)
CancelInjected(t) ==
  /\ At(t, "inject")
  /\ Done(t)
  /\ UNCHANGED <<mode, buffers, stores, rules, streams, nesting>>

-----------------------------------------------------------------------------
(* Tools that run: all in record mode, those not "recorded" in replay.      *)

Runs(c) == c \in Tools /\ (mode = "record" \/ c \in Live)

(* The tool's number becomes the parent of the calls made inside it.        *)
StartTool(t) ==
  /\ At(t, "go")
  /\ Runs(call[t].target)
  /\ Reserve
  /\ stack' = [stack EXCEPT ![t] = Append(@, [number |-> next, parent |-> context[t]])]
  /\ context' = [context EXCEPT ![t] = next]
  /\ Done(t)
  /\ UNCHANGED <<mode, stores, rules, streams, cancelled>>

Top(t) == stack[t][Len(stack[t])]

Leave(t) ==
  /\ At(t, "free")
  /\ stack[t] # <<>>
  /\ stack' = [stack EXCEPT ![t] = SubSeq(@, 1, Len(@) - 1)]
  /\ context' = [context EXCEPT ![t] = Top(t).parent]

(* Mutation: a tool that raises is not recorded.                            *)
EndToolUnlessRaised(t) ==
  /\ Leave(t)
  /\ \/ AppendReserved(Top(t).number, Top(t).parent)
     \/ UNCHANGED buffers
  /\ UNCHANGED <<mode, stores, rules, streams, cancelled, pc, call>>

(* It returns or raises an Exception: recorded alike.                       *)
EndTool(t) ==
  /\ Leave(t)
  /\ AppendReserved(Top(t).number, Top(t).parent)
  /\ UNCHANGED <<mode, stores, rules, streams, cancelled, pc, call>>

(* It is cancelled or interrupted, by a BaseException: not recorded.        *)
CancelTool(t) ==
  /\ Leave(t)
  /\ cancelled' = cancelled \cup {Top(t).number}
  /\ UNCHANGED <<mode, buffers, stores, rules, streams, pc, call>>

(* A thread that is done is used again for a new one: a plain thread, or a  *)
(* task, which starts with its creator's context.                           *)
Spawn(t, u) ==
  /\ At(u, "free") /\ stack[u] = <<>>
  /\ context' = [context EXCEPT ![u] = IF t = u THEN 0 ELSE context[t]]
  /\ UNCHANGED <<mode, buffers, stores, rules, streams, stack, cancelled, pc, call>>

-----------------------------------------------------------------------------
(* Recorded tools in replay: the store is read and emptied in two steps.    *)

HandOut(i, tier) == handed' = [handed EXCEPT ![i] = Append(@, tier)]

FindTool(t) ==
  /\ At(t, "go")
  /\ mode = "replay" /\ call[t].target \in Tools \ Live
  /\ IF queue[call[t].target] = <<>> THEN Done(t)          \* ReplayMissError
                                     ELSE Goto(t, "take", call[t])
  /\ UNCHANGED <<mode, buffers, stores, rules, streams, nesting>>

(* Mutation: the answers come newest first.                                 *)
TakeLast(q) == [first |-> q[Len(q)], rest |-> SubSeq(q, 1, Len(q) - 1)]

Take(q) == [first |-> Head(q), rest |-> Tail(q)]

TakeTool(t) ==
  LET key == call[t].target IN
  /\ At(t, "take")
  /\ queue[key] # <<>>
  /\ queue' = [queue EXCEPT ![key] = Take(@).rest]
  /\ HandOut(Take(queue[key]).first, "exact")
  /\ Goto(t, "replay", [call[t] EXCEPT !.source = Take(queue[key]).first])
  /\ UNCHANGED <<mode, buffers, used, rules, streams, nesting>>

(* Another thread took the last one meanwhile: IndexError.                  *)
TakeNothing(t) ==
  /\ At(t, "take")
  /\ queue[call[t].target] = <<>>
  /\ Done(t)
  /\ UNCHANGED <<mode, buffers, stores, rules, streams, nesting>>

(* record_replay_interaction: a clone under a new number, with its parent   *)
(* as it was.                                                               *)
AppendReplay(source) == AppendNew(Seeds[source].parent, source)

Replay(t) ==
  /\ At(t, "replay")
  /\ AppendReplay(call[t].source)
  /\ Done(t)
  /\ UNCHANGED <<mode, stores, rules, streams, nesting>>

-----------------------------------------------------------------------------
(* HTTP calls in replay: pop_match holds its lock throughout.               *)

Asked(t) == At(t, "go") /\ mode = "replay" /\ call[t].target \in Requests

(* The first key tried that has recorded answers left, if any has.          *)
Filled(r) == {n \in DOMAIN Tried[r] : queue[Tried[r][n]] # <<>>}
FirstFilled(r) == Tried[r][CHOOSE n \in Filled(r) : \A m \in Filled(r) : n <= m]

(* A streamed answer is recorded when the agent has read it, an error or a  *)
(* whole body at once, and one without a terminal event not at all: the     *)
(* call fails with what it took.                                            *)
AsStream(r, source) ==
  \/ Seeds[source].kind = "stream"
  \/ Seeds[source].kind = "plain" /\ r \in Streamed

Answer(t, source, tier) ==
  IF AsStream(call[t].target, source)
    THEN openSeeds' = openSeeds \cup {<<source, tier>>} /\ Done(t)
    ELSE /\ UNCHANGED openSeeds
         /\ IF Seeds[source].kind = "cut"
              THEN Done(t)
              ELSE Goto(t, "replay", [call[t] EXCEPT !.source = source, !.tier = tier])

MatchExact(t) ==
  LET key == FirstFilled(call[t].target) IN
  /\ Asked(t)
  /\ Filled(call[t].target) # {}
  /\ queue' = [queue EXCEPT ![key] = Take(@).rest]
  /\ used' = used \cup {Take(queue[key]).first}
  /\ HandOut(Take(queue[key]).first, "exact")
  /\ Answer(t, Take(queue[key]).first, "exact")
  /\ UNCHANGED <<mode, buffers, rules, open, nesting>>

ScoreOf(r, i) == Score[r][Seeds[i].key]

(* Mutation: what was replayed is near enough again.                        *)
NearAny(r) == {i \in Sources : Seeds[i].key \in Keys /\ ScoreOf(r, i) > 0}

Near(r) == {i \in Sources \ used : Seeds[i].key \in Keys /\ ScoreOf(r, i) > 0}

(* The nearest unused interaction, the earliest of the nearest: its entry   *)
(* stays in the queue of its key.                                           *)
MatchNearest(t) ==
  LET r == call[t].target IN
  /\ Asked(t)
  /\ Filled(r) = {}
  /\ \E i \in Near(r) :
       /\ \A j \in Near(r) : \/ ScoreOf(r, i) > ScoreOf(r, j)
                             \/ ScoreOf(r, i) = ScoreOf(r, j) /\ i <= j
       /\ used' = used \cup {i}
       /\ HandOut(i, "nearest")
       /\ Answer(t, i, "nearest")
  /\ UNCHANGED <<mode, buffers, queue, rules, open, nesting>>

(* ReplayMissError.                                                         *)
Miss(t) ==
  /\ Asked(t)
  /\ Filled(call[t].target) = {} /\ Near(call[t].target) = {}
  /\ Done(t)
  /\ UNCHANGED <<mode, buffers, stores, rules, streams, nesting>>

(* A stream that is read to its end or closed; one may stay open for good.  *)
CloseReplayed(source, tier) ==
  /\ <<source, tier>> \in openSeeds
  /\ AppendReplay(source)
  /\ openSeeds' = openSeeds \ {<<source, tier>>}
  /\ UNCHANGED <<mode, stores, rules, open, nesting, pc, call>>

-----------------------------------------------------------------------------
(* HTTP calls in record mode.  They carry no parent.                        *)

Sending(t) == At(t, "go") /\ mode = "record" /\ call[t].target \in Requests

(* A response or a failure, or neither when the call is cancelled.          *)
RecordHttp(t) ==
  /\ Sending(t)
  /\ AppendNew(0, 0) \/ UNCHANGED buffers
  /\ Done(t)
  /\ UNCHANGED <<mode, stores, rules, streams, nesting>>

OpenStream(t) ==
  /\ Sending(t)
  /\ call[t].target \in Streamed
  /\ open < MaxOpen
  /\ open' = open + 1
  /\ Done(t)
  /\ UNCHANGED <<mode, buffers, stores, rules, openSeeds, nesting>>

(* Mutation: closing a stream that was read to its end records it again.    *)
CloseStreamAgain ==
  /\ open' = open - 1
  /\ AppendNew(0, 0)
  /\ UNCHANGED <<mode, stores, rules, openSeeds, nesting, pc, call>>

CloseStream ==
  /\ open > 0
  /\ open' = open - 1
  /\ AppendNew(0, 0)
  /\ UNCHANGED <<mode, stores, rules, openSeeds, nesting, pc, call>>

-----------------------------------------------------------------------------
Step(t) ==
  \/ \E c \in Calls : Call(t, c)
  \/ CountPass(t)
  \/ CountInject(t) \/ InjectHttp(t) \/ InjectTool(t) \/ AppendInjected(t) \/ CancelInjected(t)
  \/ StartTool(t) \/ EndTool(t) \/ CancelTool(t)
  \/ FindTool(t) \/ TakeTool(t) \/ TakeNothing(t) \/ Replay(t)
  \/ MatchExact(t) \/ MatchNearest(t) \/ Miss(t)
  \/ RecordHttp(t) \/ OpenStream(t)

Next ==
  \/ \E t \in Threads : Step(t)
  \/ \E t, u \in Threads : Spawn(t, u)
  \/ \E source \in Sources, tier \in Tiers : CloseReplayed(source, tier)
  \/ CloseStream

Spec == Init /\ [][Next]_vars

-----------------------------------------------------------------------------
(* Properties.                                                              *)

TypeOK ==
  /\ mode \in {"record", "replay"}
  /\ next \in 1..(MaxNumber + 1)
  /\ buffer \subseteq Interaction
  /\ queue \in [Tools \cup Keys -> Seq(Sources)]
  /\ used \subseteq Sources
  /\ counts \in [Operations -> Nat]
  /\ applied \subseteq [op : Operations, number : Nat, nth : Nat]
  /\ counted \in [Operations -> Nat] /\ raced \subseteq Operations
  /\ open \in 0..MaxOpen
  /\ openSeeds \subseteq Sources \X Tiers
  /\ stack \in [Threads -> Seq([number : Nat, parent : Nat])]
  /\ context \in [Threads -> Nat]
  /\ pc \in [Threads -> Points]
  /\ call \in [Threads -> Local]
  /\ handed \in [Sources -> Seq(Tiers)]
  /\ cancelled \subseteq Nat

(* Who has a number: an interaction, a tool that runs, an injected answer   *)
(* on its way, or a tool that was cancelled.                                *)
Frames     == UNION {{t} \X DOMAIN stack[t] : t \in Threads}
Running(n) == {f \in Frames : stack[f[1]][f[2]].number = n}
Pending(n) == {t \in Threads : At(t, "append") /\ call[t].number = n}
Entries(n) == {i \in buffer : i.number = n}

Owners(n) == (Running(n) \X {"tool"}) \cup (Pending(n) \X {"injected"})
               \cup (Entries(n) \X {"entry"})
               \cup (({n} \cap cancelled) \X {"cancelled"})

(* Each number given out has exactly one owner, so that interactions have   *)
(* numbers and ids of their own and gaps are tools that were cancelled,     *)
(* however tools, HTTP calls, streams and injected answers of several       *)
(* threads end.                                                             *)
OneOwner ==
  \A n \in 1..MaxNumber :
    IF n < next THEN \E owner \in Owners(n) : Owners(n) = {owner} ELSE Owners(n) = {}

Known(n) == Entries(n) # {} \/ Running(n) # {} \/ n \in cancelled

(* The import writes interactions in the order of their numbers, each row   *)
(* after the row of its parent (foreign key).  That works for a buffer at   *)
(* any moment, but for calls made inside tools that still run or were       *)
(* cancelled, although a tool enters the buffer after the calls it makes.   *)
Importable ==
  \A i \in buffer :
    i.source = 0 /\ i.parent # 0 =>
      /\ i.parent < i.number
      /\ Known(i.parent)

(* Nothing recorded is replayed twice by one tier, or as a nearest match    *)
(* after its exact one, whichever threads ask at once.                      *)
ReplayedOnce ==
  \A i \in Sources :
    handed[i] \in {<<>>, <<"exact">>, <<"nearest">>, <<"nearest", "exact">>}

(* Equal calls get their answers in the order they were recorded in.        *)
InRecordedOrder ==
  \A i, j \in Sources :
    /\ i < j /\ Seeds[i].key = Seeds[j].key
    /\ \E d \in DOMAIN handed[j] : handed[j][d] = "exact"
    => \E d \in DOMAIN handed[i] : handed[i][d] = "exact"

Injected(op, n) == \E a \in applied : a.op = op /\ a.nth = n

(* While no two threads count calls of one operation at once, which asyncio *)
(* tasks never do, a rule for the nth call injects that very call, and what *)
(* is injected is a call some rule names.                                   *)
NthUnlessRaced ==
  \A op \in Operations \ raced :
    /\ \A rule \in Rules :
         rule.sure /\ rule.op = op /\ rule.nth \in 1..counted[op] => Injected(op, rule.nth)
    /\ \A a \in applied :
         a.op = op => a.number = a.nth /\ \E rule \in Rules : Matches(rule, op, a.nth)

(* docs/runtime-error-injection.md:61: "`nth_call: 3` means the third       *)
(* matching call for that service and operation is injected                 *)
(* deterministically."  Two threads that count at once are given one        *)
(* number, and the counter falls behind the calls.                          *)
NthCallInjected ==
  \A rule \in Rules :
    rule.sure /\ rule.nth \in 1..counted[rule.op] => Injected(rule.op, rule.nth)
=============================================================================
