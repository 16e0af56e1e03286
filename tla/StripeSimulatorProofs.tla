------------------------- MODULE StripeSimulatorProofs -------------------------
(***************************************************************************)
(* What holds of the Stripe simulator for any number of simulators that    *)
(* share a session, any amounts and any bounds.                            *)
(***************************************************************************)
EXTENDS StripeSimulator, SequenceTheorems, TLAPS

-----------------------------------------------------------------------------
(* The invariant.                                                           *)

(* A call that notifies has something left to schedule.                     *)
TypeInv ==
  /\ TypeOK
  /\ \A i \in Simulators : pc[i] = "notify" <=> todo[i] # <<>>

StateRight(st) == st \in State /\ MoneyRight(st) /\ Closed(st)

(* Every snapshot is right, and keeps what was final in the one it was made *)
(* from.                                                                    *)
HistoryInv ==
  /\ \A n \in 1..Len(snapshots) : StateRight(snapshots[n].state)
  /\ \A n \in 2..Len(snapshots) :
       /\ snapshots[n].base \in 1..(n - 1)
       /\ TerminalKept(snapshots[snapshots[n].base].state.intents, snapshots[n].state.intents)

(* The statuses in which an intent may be after the webhook was scheduled.  *)
Since(type) ==
  IF type = "payment_intent.created" THEN Statuses
  ELSE IF type = "payment_intent.amount_capturable_updated"
    THEN {"requires_capture", "succeeded", "canceled"}
  ELSE IF type = "payment_intent.succeeded" THEN {"succeeded"} ELSE {"canceled"}

(* A state bears a webhook out.                                             *)
Vouched(st, hook) ==
  IF hook.type \in {"customer.created", "customer.updated"} THEN hook.id <= st.customers
  ELSE IF hook.type = "payment_method.attached"
    THEN hook.id \in 1..Len(st.methods) /\ st.methods[hook.id] # NoId
  ELSE IF hook.type = "refund.created" THEN hook.id <= Len(st.refunds)
  ELSE hook.id \in 1..Len(st.intents) /\ st.intents[hook.id].status \in Since(hook.type)

Repeatable(hook) == hook.type = "customer.updated"

(* Each snapshot was saved over the one before it.                          *)
Chain == \A n \in 2..Len(snapshots) : snapshots[n].base = n - 1

Newest == snapshots[Len(snapshots)].state

(* Without races the newest snapshot bears out every webhook scheduled or   *)
(* to be, and no webhook is among these twice.                              *)
HooksInv ==
  /\ repeated = {}
  /\ \A hook \in scheduled : Vouched(Newest, hook)
  /\ \A i \in Simulators : \A k \in 1..Len(todo[i]) :
       /\ Vouched(Newest, todo[i][k])
       /\ ~Repeatable(todo[i][k]) =>
            /\ todo[i][k] \notin scheduled
            /\ \A j \in Simulators : \A l \in 1..Len(todo[j]) :
                 todo[j][l] = todo[i][k] => j = i /\ l = k

WebhookInv == Chain => HooksInv

-----------------------------------------------------------------------------
(* What one operation makes of a state.                                     *)

(* Saving next over st, with these webhooks, is all right: next is right,   *)
(* what was final stays, every webhook st bears out next bears out, and the *)
(* new ones are borne out by next and not before.                           *)
Sound(st, next, hooks) ==
  /\ StateRight(next)
  /\ TerminalKept(st.intents, next.intents)
  /\ \A hook \in Hooks : Vouched(st, hook) => Vouched(next, hook)
  /\ hooks \in Seq(Hooks)
  /\ \A k \in 1..Len(hooks) :
       /\ Vouched(next, hooks[k])
       /\ ~Repeatable(hooks[k]) => ~Vouched(st, hooks[k])
       /\ \A l \in 1..Len(hooks) : hooks[l] = hooks[k] => l = k

(* The parts of a state have their types.                                   *)
LEMMA Parts ==
  ASSUME NEW st \in State
  PROVE  /\ st.customers \in 0..MaxCustomers
         /\ st.methods \in Seq(0..MaxCustomers) /\ st.intents \in Seq(Intent)
         /\ st.refunds \in Seq(Refund)
         /\ Len(st.methods) \in Nat /\ Len(st.intents) \in Nat /\ Len(st.refunds) \in Nat
         /\ \A m \in 1..Len(st.methods) : st.methods[m] \in 0..MaxCustomers
         /\ \A id \in 1..Len(st.intents) : st.intents[id] \in Intent
         /\ \A r \in 1..Len(st.refunds) : st.refunds[r] \in Refund
BY ElementOfSeq, LenProperties DEF State

(* What can come after a status close to the end.                           *)
LEMMA AfterLate ==
  /\ After("requires_capture") = {"succeeded", "canceled"}
  /\ After("succeeded") = {} /\ After("canceled") = {}
BY DEF After

(* A webhook of an operation, alone or none.                                *)
LEMMA OneHook ==
  ASSUME NEW hook \in Hooks
  PROVE  /\ <<>> \in Seq(Hooks) /\ Len(<<>>) = 0
         /\ <<hook>> \in Seq(Hooks) /\ Len(<<hook>>) = 1 /\ <<hook>>[1] = hook
OBVIOUS

(* Two webhooks of an operation.                                            *)
LEMMA TwoHooks ==
  ASSUME NEW first \in Hooks, NEW second \in Hooks
  PROVE  /\ <<first>> \o <<second>> \in Seq(Hooks) /\ Len(<<first>> \o <<second>>) = 2
         /\ (<<first>> \o <<second>>)[1] = first /\ (<<first>> \o <<second>>)[2] = second
<1>1. /\ <<first>> \in Seq(Hooks) /\ Len(<<first>>) = 1 /\ <<first>>[1] = first
      /\ <<second>> \in Seq(Hooks) /\ Len(<<second>>) = 1 /\ <<second>>[1] = second
  BY OneHook
<1> DEFINE a == <<first>>
           b == <<second>>
<1> HIDE DEF a, b
<1>2. /\ a \o b \in Seq(Hooks) /\ Len(a \o b) = Len(a) + Len(b)
      /\ \A k \in 1..(Len(a) + Len(b)) :
           (a \o b)[k] = IF k <= Len(a) THEN a[k] ELSE b[k - Len(a)]
  BY <1>1, ConcatProperties DEF a, b
<1>3. Len(a) = 1 /\ Len(b) = 1 /\ a[1] = first /\ b[1] = second
  BY <1>1 DEF a, b
<1>4. /\ a \o b \in Seq(Hooks) /\ Len(a \o b) = 2
      /\ (a \o b)[1] = first /\ (a \o b)[2] = second
  BY <1>2, <1>3
<1> QED
  BY <1>4 DEF a, b

(* Customers, refunds and intents were only added, payment methods kept     *)
(* attached, and intents near their end moved on.                           *)
Grown(st, next) ==
  /\ st.customers <= next.customers
  /\ Len(st.refunds) <= Len(next.refunds)
  /\ Len(st.methods) <= Len(next.methods)
  /\ \A m \in 1..Len(st.methods) : st.methods[m] # NoId => next.methods[m] # NoId
  /\ Len(st.intents) <= Len(next.intents)
  /\ \A id \in 1..Len(st.intents) :
       st.intents[id].status \in {"requires_capture", "succeeded", "canceled"} =>
         next.intents[id].status \in {st.intents[id].status} \cup After(st.intents[id].status)

(* Such a state bears out every webhook the old one bore out.               *)
LEMMA VouchedKept ==
  ASSUME NEW st \in State, NEW next \in State, Grown(st, next)
  PROVE  \A hook \in Hooks : Vouched(st, hook) => Vouched(next, hook)
<1> SUFFICES ASSUME NEW hook \in Hooks, Vouched(st, hook) PROVE Vouched(next, hook)
  OBVIOUS
<1> USE DEF Grown
<1>1. /\ hook.id \in Nat /\ hook.type \in HookTypes
      /\ st.customers \in Nat /\ next.customers \in Nat
      /\ Len(st.methods) \in Nat /\ Len(next.methods) \in Nat
      /\ Len(st.intents) \in Nat /\ Len(next.intents) \in Nat
      /\ Len(st.refunds) \in Nat /\ Len(next.refunds) \in Nat
  BY Parts, StripeAssumption DEF Hooks
<1>2. CASE hook.type \in {"customer.created", "customer.updated"}
  BY <1>1, <1>2 DEF Vouched
<1>3. CASE hook.type = "payment_method.attached"
  BY <1>1, <1>3 DEF Vouched
<1>4. CASE hook.type = "refund.created"
  BY <1>1, <1>4 DEF Vouched
<1>5. CASE hook.type \in {"payment_intent.created", "payment_intent.amount_capturable_updated",
                          "payment_intent.succeeded", "payment_intent.canceled"}
  <2> DEFINE id == hook.id
             old == st.intents[id].status
             new == next.intents[id].status
  <2>1. id \in 1..Len(st.intents) /\ id \in 1..Len(next.intents) /\ old \in Since(hook.type)
    BY <1>1, <1>5 DEF Vouched
  <2>2. new \in Statuses
    BY <2>1, Parts DEF Intent
  <2>3. CASE hook.type = "payment_intent.created"
    BY <1>5, <2>1, <2>2, <2>3 DEF Vouched, Since
  <2>4. CASE hook.type # "payment_intent.created"
    <3>1. old \in {"requires_capture", "succeeded", "canceled"}
      BY <2>1, <2>4 DEF Since
    <3>2. new \in {old} \cup After(old)
      BY <2>1, <3>1
    <3>3. \/ old = "requires_capture" /\ new \in {"requires_capture", "succeeded", "canceled"}
          \/ old \in {"succeeded", "canceled"} /\ new = old
      BY <3>1, <3>2, AfterLate
    <3>4. old \in Since(hook.type)
      BY <2>1
    <3> HIDE DEF old, new
    <3>5. new \in Since(hook.type)
      BY <2>4, <3>3, <3>4 DEF Since
    <3> QED
      BY <1>5, <2>1, <3>5 DEF Vouched, new
  <2> QED
    BY <2>3, <2>4
<1> QED
  BY <1>1, <1>2, <1>3, <1>4, <1>5 DEF HookTypes

(* No operation, no change: the state is kept.                              *)
LEMMA SameSound ==
  ASSUME NEW st, StateRight(st), NEW hooks \in Seq(Hooks),
         \/ hooks = <<>>
         \/ \E id \in Nat : id <= st.customers /\ hooks = <<Hook("customer.updated", id)>>
  PROVE  Sound(st, st, hooks)
<1>1. TerminalKept(st.intents, st.intents)
  <2>1. st \in State
    BY DEF StateRight
  <2>2. Len(st.intents) \in Nat /\ \A id \in 1..Len(st.intents) : st.intents[id] \in Intent
    BY <2>1, Parts
  <2>3. \A id \in 1..Len(st.intents) : st.intents[id].refunded \in Int
    BY <2>2 DEF Intent
  <2> QED
    BY <2>2, <2>3 DEF TerminalKept
<1>2. CASE hooks = <<>>
  BY <1>1, <1>2 DEF Sound
<1>3. ASSUME NEW id \in Nat, id <= st.customers, hooks = <<Hook("customer.updated", id)>>
      PROVE  Sound(st, st, hooks)
  <2> DEFINE hook == Hook("customer.updated", id)
  <2>1. hook \in Hooks /\ hook.type = "customer.updated" /\ hook.id = id
    BY DEF Hook, Hooks, HookTypes
  <2>2. Len(hooks) = 1 /\ hooks[1] = hook
    BY <1>3
  <2> HIDE DEF hook
  <2>3. Vouched(st, hook) /\ Repeatable(hook)
    BY <1>3, <2>1 DEF Vouched, Repeatable
  <2> QED
    BY <1>1, <2>2, <2>3 DEF Sound
<1> QED
  BY <1>2, <1>3

(* More customers, and nothing else.                                        *)
LEMMA CustomerSound ==
  ASSUME NEW st, StateRight(st), NEW id, id = st.customers + 1, id <= MaxCustomers
  PROVE  Sound(st, [st EXCEPT !.customers = id], <<Hook("customer.created", id)>>)
<1> DEFINE next == [st EXCEPT !.customers = id]
           hook == Hook("customer.created", id)
<1>1. st \in State /\ MoneyRight(st) /\ Closed(st)
  BY DEF StateRight
<1>2. st.customers \in Nat /\ id \in 0..MaxCustomers
  BY <1>1, Parts, StripeAssumption
<1>3. /\ next \in State /\ next.customers = id /\ next.methods = st.methods
      /\ next.intents = st.intents /\ next.refunds = st.refunds
  BY <1>1, <1>2 DEF State
<1>4. hook \in Hooks /\ hook.type = "customer.created" /\ hook.id = id
  BY <1>2 DEF Hook, Hooks, HookTypes
<1>5. /\ Len(st.methods) \in Nat /\ Len(st.intents) \in Nat /\ Len(st.refunds) \in Nat
      /\ \A m \in 1..Len(st.methods) : st.methods[m] \in Nat
      /\ \A n \in 1..Len(st.intents) : st.intents[n] \in Intent
  BY <1>1, Parts, StripeAssumption
<1>6. \A n \in 1..Len(st.intents) : st.intents[n].refunded \in Int /\ st.intents[n].customer \in Nat
  BY <1>5, StripeAssumption DEF Intent
<1> HIDE DEF next, hook
<1>7. MoneyRight(next)
  BY <1>1, <1>3 DEF MoneyRight
<1>8. Closed(next)
  BY <1>1, <1>2, <1>3, <1>5, <1>6 DEF Closed
<1>9. TerminalKept(st.intents, next.intents)
  BY <1>3, <1>5, <1>6 DEF TerminalKept
<1>10. \A h \in Hooks : Vouched(st, h) => Vouched(next, h)
  <2>1. Grown(st, next)
    BY <1>2, <1>3, <1>5 DEF Grown
  <2> QED
    BY <1>1, <1>3, <2>1, VouchedKept
<1>11. Vouched(next, hook) /\ ~Vouched(st, hook)
  BY <1>2, <1>3, <1>4 DEF Vouched
<1>12. Sound(st, next, <<hook>>)
  BY <1>3, <1>4, <1>7, <1>8, <1>9, <1>10, <1>11, OneHook DEF Sound, StateRight
<1> QED
  BY <1>12 DEF next, hook

(* A payment method more, attached to nobody.                               *)
LEMMA MethodSound ==
  ASSUME NEW st, StateRight(st)
  PROVE  Sound(st, [st EXCEPT !.methods = Append(@, NoId)], <<>>)
<1> DEFINE next == [st EXCEPT !.methods = Append(@, NoId)]
<1>1. st \in State /\ MoneyRight(st) /\ Closed(st)
  BY DEF StateRight
<1>2. /\ st.customers \in Nat /\ NoId \in 0..MaxCustomers
      /\ st.methods \in Seq(0..MaxCustomers)
  BY <1>1, Parts, StripeAssumption DEF NoId
<1>3. /\ Append(st.methods, NoId) \in Seq(0..MaxCustomers)
      /\ Len(Append(st.methods, NoId)) = Len(st.methods) + 1
      /\ \A m \in 1..Len(st.methods) : Append(st.methods, NoId)[m] = st.methods[m]
      /\ Append(st.methods, NoId)[Len(st.methods) + 1] = NoId
  BY <1>2, AppendProperties
<1>4. /\ next \in State /\ next.customers = st.customers
      /\ next.methods = Append(st.methods, NoId)
      /\ next.intents = st.intents /\ next.refunds = st.refunds
  BY <1>1, <1>3 DEF State
<1>5. /\ Len(st.methods) \in Nat /\ Len(st.intents) \in Nat /\ Len(st.refunds) \in Nat
      /\ \A n \in 1..Len(st.intents) : st.intents[n] \in Intent
  BY <1>1, Parts
<1>6. \A n \in 1..Len(st.intents) : st.intents[n].refunded \in Int /\ st.intents[n].method \in Nat
  BY <1>5, StripeAssumption DEF Intent
<1> HIDE DEF next
<1>7. MoneyRight(next)
  BY <1>1, <1>4 DEF MoneyRight
<1>8. Closed(next)
  <2>1. \A m \in 1..Len(next.methods) : next.methods[m] <= next.customers
    BY <1>1, <1>2, <1>3, <1>4, <1>5 DEF Closed, NoId
  <2> QED
    BY <1>1, <1>3, <1>4, <1>5, <1>6, <2>1 DEF Closed
<1>9. TerminalKept(st.intents, next.intents)
  BY <1>4, <1>5, <1>6 DEF TerminalKept
<1>10. \A h \in Hooks : Vouched(st, h) => Vouched(next, h)
  <2>1. Grown(st, next)
    BY <1>2, <1>3, <1>4, <1>5 DEF Grown
  <2> QED
    BY <1>1, <1>4, <2>1, VouchedKept
<1>11. Sound(st, next, <<>>)
  BY <1>4, <1>7, <1>8, <1>9, <1>10 DEF Sound, StateRight
<1> QED
  BY <1>11 DEF next

(* A payment method attached, the first time or again.                      *)
LEMMA AttachSound ==
  ASSUME NEW st, StateRight(st), NEW id \in Methods, NEW customer \in Customers,
         id <= Len(st.methods), customer <= st.customers,
         st.methods[id] \in {NoId, customer}
  PROVE  Sound(st, [st EXCEPT !.methods[id] = customer],
               IF st.methods[id] = customer THEN <<>> ELSE <<Hook("payment_method.attached", id)>>)
<1> DEFINE next == [st EXCEPT !.methods[id] = customer]
           hook == Hook("payment_method.attached", id)
           methods == [st.methods EXCEPT ![id] = customer]
<1>1. st \in State /\ MoneyRight(st) /\ Closed(st)
  BY DEF StateRight
<1>2. /\ id \in Nat /\ id \in 1..Len(st.methods) /\ customer \in 0..MaxCustomers /\ customer # NoId
      /\ customer \in Nat /\ st.customers \in Nat
      /\ st.methods \in Seq(0..MaxCustomers)
  BY <1>1, Parts, StripeAssumption DEF NoId, Methods, Customers
<1>3. /\ methods \in Seq(0..MaxCustomers)
      /\ Len(methods) = Len(st.methods)
      /\ \A m \in 1..Len(st.methods) : methods[m] = IF m = id THEN customer ELSE st.methods[m]
  BY <1>2, ExceptSeq
<1>4. /\ next \in State /\ next.customers = st.customers /\ next.methods = methods
      /\ next.intents = st.intents /\ next.refunds = st.refunds
  BY <1>1, <1>3 DEF State
<1>5. /\ Len(st.methods) \in Nat /\ Len(st.intents) \in Nat /\ Len(st.refunds) \in Nat
      /\ \A n \in 1..Len(st.intents) : st.intents[n] \in Intent
  BY <1>1, Parts
<1>6. \A n \in 1..Len(st.intents) : st.intents[n].refunded \in Int
  BY <1>5 DEF Intent
<1>7. hook \in Hooks /\ hook.type = "payment_method.attached" /\ hook.id = id
  BY <1>2 DEF Hook, Hooks, HookTypes
<1> HIDE DEF next, hook, methods
<1>8. MoneyRight(next)
  BY <1>1, <1>4 DEF MoneyRight
<1>9. Closed(next)
  <2>1. \A m \in 1..Len(next.methods) : next.methods[m] <= next.customers
    BY <1>1, <1>2, <1>3, <1>4, <1>5 DEF Closed
  <2> QED
    BY <1>1, <1>3, <1>4, <1>5, <2>1 DEF Closed
<1>10. TerminalKept(st.intents, next.intents)
  BY <1>4, <1>5, <1>6 DEF TerminalKept
<1>11. \A h \in Hooks : Vouched(st, h) => Vouched(next, h)
  <2>1. \A m \in 1..Len(st.methods) : st.methods[m] # NoId => next.methods[m] # NoId
    BY <1>2, <1>3, <1>4
  <2>2. Grown(st, next)
    BY <1>2, <1>3, <1>4, <1>5, <2>1 DEF Grown
  <2> QED
    BY <1>1, <1>4, <2>2, VouchedKept
<1>12. CASE st.methods[id] = customer
  BY <1>4, <1>8, <1>9, <1>10, <1>11, <1>12 DEF Sound, StateRight, next
<1>13. CASE st.methods[id] # customer
  <2>1. Vouched(next, hook) /\ ~Vouched(st, hook)
    BY <1>2, <1>3, <1>4, <1>7, <1>13 DEF Vouched
  <2>2. Sound(st, next, <<hook>>)
    BY <1>4, <1>7, <1>8, <1>9, <1>10, <1>11, <2>1, OneHook DEF Sound, StateRight
  <2> QED
    BY <1>13, <2>2 DEF next, hook
<1> QED
  BY <1>12, <1>13

(* Refunds add up.  Nothing refunded adds up to nothing ...                 *)
LEMMA NoRefunds ==
  ASSUME NEW refunds \in Seq(Refund), NEW id,
         \A r \in 1..Len(refunds) : refunds[r].intent # id
  PROVE  AddUpTo(refunds, id, 0)
<1> DEFINE total == [r \in 0..Len(refunds) |-> 0]
<1>1. Len(refunds) \in Nat
  BY LenProperties
<1>2. total \in [0..Len(refunds) -> 0..0] /\ total[0] = 0 /\ total[Len(refunds)] = 0
  BY <1>1
<1>3. \A r \in 1..Len(refunds) :
        total[r] = total[r - 1] + (IF refunds[r].intent = id THEN refunds[r].amount ELSE 0)
  BY <1>1
<1> HIDE DEF total
<1> QED
  BY <1>2, <1>3 DEF AddUpTo

(* ... and one refund more adds its amount to the sum of its intent only.   *)
LEMMA RefundAdds ==
  ASSUME NEW refunds \in Seq(Refund), NEW refund \in Refund, NEW id, NEW sum \in Nat,
         AddUpTo(refunds, id, sum)
  PROVE  AddUpTo(Append(refunds, refund), id,
                 sum + (IF refund.intent = id THEN refund.amount ELSE 0))
<1> DEFINE more == Append(refunds, refund)
           n    == Len(refunds)
           by   == IF refund.intent = id THEN refund.amount ELSE 0
<1>1. n \in Nat /\ by \in Nat
  BY LenProperties DEF Refund
<1>2. /\ Len(more) = n + 1 /\ more[n + 1] = refund
      /\ \A r \in 1..n : more[r] = refunds[r]
  BY AppendProperties
<1>3. PICK total \in [0..n -> 0..sum] :
        /\ total[0] = 0 /\ total[n] = sum
        /\ \A r \in 1..n :
             total[r] = total[r - 1] + (IF refunds[r].intent = id THEN refunds[r].amount ELSE 0)
  BY DEF AddUpTo
<1> HIDE DEF more, n, by
<1> DEFINE longer == [r \in 0..(n + 1) |-> IF r = n + 1 THEN sum + by ELSE total[r]]
<1>4. longer \in [0..(n + 1) -> 0..(sum + by)]
  <2>1. ASSUME NEW r \in 0..(n + 1)
        PROVE  (IF r = n + 1 THEN sum + by ELSE total[r]) \in 0..(sum + by)
    <3>1. CASE r = n + 1
      BY <1>1, <3>1
    <3>2. CASE r # n + 1
      <4>1. r \in 0..n
        BY <1>1, <3>2
      <4>2. total[r] \in 0..sum
        BY <1>3, <4>1
      <4> QED
        BY <1>1, <3>2, <4>2
    <3> QED
      BY <3>1, <3>2
  <2> QED
    BY <2>1
<1>5. longer[0] = 0 /\ longer[n + 1] = sum + by
  BY <1>1, <1>3
<1>6. ASSUME NEW r \in 1..(n + 1)
      PROVE  longer[r] = longer[r - 1] + (IF more[r].intent = id THEN more[r].amount ELSE 0)
  <2>1. CASE r = n + 1
    <3>1. longer[r] = sum + by /\ longer[r - 1] = sum /\ more[r] = refund
      BY <1>1, <1>2, <1>3, <2>1
    <3> QED
      BY <3>1 DEF by
  <2>2. CASE r # n + 1
    <3>1. r \in 1..n /\ r - 1 \in 0..n
      BY <1>1, <2>2
    <3>2. longer[r] = total[r] /\ longer[r - 1] = total[r - 1] /\ more[r] = refunds[r]
      BY <1>1, <1>2, <3>1
    <3> QED
      BY <1>3, <3>1, <3>2
  <2> QED
    BY <2>1, <2>2
<1> HIDE DEF longer
<1>7. AddUpTo(more, id, sum + by)
  BY <1>2, <1>4, <1>5, <1>6 DEF AddUpTo
<1> QED
  BY <1>7 DEF more, by

(* The webhook of a status is one that the status bears out, or none.       *)
LEMMA StatusHook ==
  ASSUME NEW status \in Statuses, NEW id
  PROVE  \/ StatusHooks(status, id) = <<>>
         \/ \E type \in {"payment_intent.amount_capturable_updated",
                         "payment_intent.succeeded", "payment_intent.canceled"} :
              /\ StatusHooks(status, id) = <<Hook(type, id)>>
              /\ status \in Since(type)
              /\ status = "requires_capture"
                   <=> type = "payment_intent.amount_capturable_updated"
<1>1. CASE status = "requires_capture"
  BY <1>1 DEF StatusHooks, Since
<1>2. CASE status = "succeeded"
  BY <1>2 DEF StatusHooks, Since
<1>3. CASE status = "canceled"
  BY <1>3 DEF StatusHooks, Since
<1>4. CASE status \notin {"requires_capture", "succeeded", "canceled"}
  BY <1>4 DEF StatusHooks
<1> QED
  BY <1>1, <1>2, <1>3, <1>4

(* The customer an intent gets is in the state.                             *)
LEMMA CustomerKnown ==
  ASSUME NEW st \in State, Closed(st), NEW customer \in 0..MaxCustomers,
         NEW method \in 0..MaxMethods, ReferencesOK(st, customer, method)
  PROVE  /\ CustomerFor(st, customer, method) \in 0..MaxCustomers
         /\ CustomerFor(st, customer, method) <= st.customers
<1>1. Len(st.methods) \in Nat /\ method \in Nat
  BY Parts, StripeAssumption
<1>2. method # NoId =>
        /\ method \in 1..Len(st.methods)
        /\ st.methods[method] \in 0..MaxCustomers
        /\ st.methods[method] <= st.customers
  <2> SUFFICES ASSUME method # NoId
               PROVE  /\ method \in 1..Len(st.methods)
                      /\ st.methods[method] \in 0..MaxCustomers
                      /\ st.methods[method] <= st.customers
    OBVIOUS
  <2>1. method \in 1..Len(st.methods)
    BY <1>1 DEF ReferencesOK, NoId
  <2> QED
    BY <2>1, Parts DEF Closed
<1> QED
  BY <1>2 DEF CustomerFor, Owner, ReferencesOK

(* A payment intent more, created and maybe in a status of its own webhook. *)
LEMMA IntentSound ==
  ASSUME NEW st, StateRight(st), NEW id, id = Len(st.intents) + 1, id <= MaxIntents,
         NEW intent \in Intent, NEW status, status = intent.status, intent.refunded = 0,
         intent.customer <= st.customers, intent.method <= Len(st.methods),
         Consistent(status, intent.method)
  PROVE  Sound(st, [st EXCEPT !.intents = Append(@, intent)],
               <<Hook("payment_intent.created", id)>> \o StatusHooks(status, id))
<1> DEFINE next == [st EXCEPT !.intents = Append(@, intent)]
           created == Hook("payment_intent.created", id)
           hooks == <<created>> \o StatusHooks(status, id)
<1>1. st \in State /\ MoneyRight(st) /\ Closed(st)
  BY DEF StateRight
<1>2. /\ st.customers \in Nat /\ st.intents \in Seq(Intent) /\ st.refunds \in Seq(Refund)
      /\ Len(st.methods) \in Nat /\ Len(st.intents) \in Nat /\ Len(st.refunds) \in Nat
      /\ \A n \in 1..Len(st.intents) : st.intents[n] \in Intent
      /\ \A r \in 1..Len(st.refunds) : st.refunds[r] \in Refund
  BY <1>1, Parts, StripeAssumption
<1>3. /\ Append(st.intents, intent) \in Seq(Intent)
      /\ Len(Append(st.intents, intent)) = id
      /\ \A n \in 1..Len(st.intents) : Append(st.intents, intent)[n] = st.intents[n]
      /\ Append(st.intents, intent)[id] = intent
  BY <1>2, AppendProperties
<1>4. /\ next \in State /\ next.customers = st.customers /\ next.methods = st.methods
      /\ next.intents = Append(st.intents, intent) /\ next.refunds = st.refunds
  BY <1>1, <1>3 DEF State
<1>5. /\ \A n \in 1..Len(st.intents) : st.intents[n].refunded \in Nat
      /\ status \in Statuses /\ intent.amount \in Nat /\ id \in Nat
  <2>1. \A n \in 1..Len(st.intents) : st.intents[n].refunded \in Nat
    BY <1>2 DEF Intent
  <2>2. intent.amount \in Amounts /\ status \in Statuses
    BY DEF Intent
  <2>3. intent.amount \in Nat
    BY <2>2, StripeAssumption
  <2>4. id \in Nat
    BY <1>2
  <2> QED
    BY <2>1, <2>2, <2>3, <2>4
<1>6. created \in Hooks /\ created.type = "payment_intent.created" /\ created.id = id
  BY <1>5 DEF Hook, Hooks, HookTypes
<1> HIDE DEF next, created
<1>7. MoneyRight(next)
  <2>1. AddUpTo(st.refunds, id, 0)
    <3>1. \A r \in 1..Len(st.refunds) : st.refunds[r].intent # id
      <4>1. \A r \in 1..Len(st.refunds) : st.refunds[r].intent <= Len(st.intents)
        BY <1>1 DEF Closed
      <4>2. \A r \in 1..Len(st.refunds) : st.refunds[r].intent \in Int
        BY <1>2 DEF Refund
      <4> QED
        BY <1>2, <4>1, <4>2
    <3> QED
      BY <1>2, <3>1, NoRefunds
  <2>2. ASSUME NEW n \in 1..Len(next.intents)
        PROVE  /\ AddUpTo(next.refunds, n, next.intents[n].refunded)
               /\ next.intents[n].refunded <= next.intents[n].amount
               /\ next.intents[n].refunded > 0 => next.intents[n].status = "succeeded"
    <3>1. CASE n = id
      BY <1>3, <1>4, <1>5, <2>1, <3>1
    <3>2. CASE n # id
      <4>1. n \in 1..Len(st.intents) /\ next.intents[n] = st.intents[n]
        BY <1>2, <1>3, <1>4, <3>2
      <4> QED
        BY <1>1, <1>4, <4>1 DEF MoneyRight
    <3> QED
      BY <3>1, <3>2
  <2> QED
    BY <2>2 DEF MoneyRight
<1>8. Closed(next)
  <2>1. ASSUME NEW n \in 1..Len(next.intents)
        PROVE  /\ next.intents[n].customer <= next.customers
               /\ next.intents[n].method <= Len(next.methods)
               /\ next.intents[n].method = NoId
                    <=> next.intents[n].status = "requires_payment_method"
    <3>1. CASE n = id
      BY <1>3, <1>4, <3>1 DEF Consistent
    <3>2. CASE n # id
      <4>1. n \in 1..Len(st.intents) /\ next.intents[n] = st.intents[n]
        BY <1>2, <1>3, <1>4, <3>2
      <4> QED
        BY <1>1, <1>4, <4>1 DEF Closed
    <3> QED
      BY <3>1, <3>2
  <2>2. \A r \in 1..Len(next.refunds) : next.refunds[r].intent <= Len(next.intents)
    <3>1. \A r \in 1..Len(st.refunds) : st.refunds[r].intent <= Len(st.intents)
      BY <1>1 DEF Closed
    <3>2. \A r \in 1..Len(st.refunds) : st.refunds[r].intent \in Int
      BY <1>2 DEF Refund
    <3> QED
      BY <1>2, <1>3, <1>4, <3>1, <3>2
  <2> QED
    BY <1>1, <1>4, <2>1, <2>2 DEF Closed
<1>9. TerminalKept(st.intents, next.intents)
  BY <1>2, <1>3, <1>4, <1>5 DEF TerminalKept
<1>10. \A h \in Hooks : Vouched(st, h) => Vouched(next, h)
  <2>1. Grown(st, next)
    BY <1>2, <1>3, <1>4 DEF Grown
  <2> QED
    BY <1>1, <1>4, <2>1, VouchedKept
(* An id that is new is named by no webhook that the old state bears out.   *)
<1>11. ASSUME NEW hook, hook.id = id, hook.type \in {"payment_intent.created",
               "payment_intent.amount_capturable_updated",
               "payment_intent.succeeded", "payment_intent.canceled"},
              status \in Since(hook.type)
       PROVE  Vouched(next, hook) /\ ~Vouched(st, hook)
  BY <1>2, <1>3, <1>4, <1>5, <1>11 DEF Vouched
<1>12. Vouched(next, created) /\ ~Vouched(st, created)
  BY <1>5, <1>6, <1>11 DEF Since
<1>13. CASE StatusHooks(status, id) = <<>>
  <2>1. hooks = <<created>>
    BY <1>6, <1>13, OneHook, ConcatEmptySeq
  <2>2. Sound(st, next, <<created>>)
    BY <1>4, <1>6, <1>7, <1>8, <1>9, <1>10, <1>12, OneHook DEF Sound, StateRight
  <2> QED
    BY <2>1, <2>2 DEF next, created
<1>14. ASSUME NEW type \in {"payment_intent.amount_capturable_updated",
                            "payment_intent.succeeded", "payment_intent.canceled"},
              StatusHooks(status, id) = <<Hook(type, id)>>, status \in Since(type)
       PROVE  Sound(st, next, hooks)
  <2> DEFINE reached == Hook(type, id)
  <2>1. reached \in Hooks /\ reached.type = type /\ reached.id = id
    BY <1>5 DEF Hook, Hooks, HookTypes
  <2>2. hooks = <<created>> \o <<reached>>
    BY <1>14
  <2>3. hooks \in Seq(Hooks) /\ Len(hooks) = 2 /\ hooks[1] = created /\ hooks[2] = reached
    <3>1. /\ <<created>> \o <<reached>> \in Seq(Hooks) /\ Len(<<created>> \o <<reached>>) = 2
          /\ (<<created>> \o <<reached>>)[1] = created
          /\ (<<created>> \o <<reached>>)[2] = reached
      BY <1>6, <2>1, TwoHooks, Zenon
    <3> QED
      BY <2>2, <3>1, Zenon
  <2> HIDE DEF reached, hooks
  <2>4. Vouched(next, reached) /\ ~Vouched(st, reached)
    BY <1>11, <1>14, <2>1
  <2>5. created # reached
    BY <1>6, <2>1
  <2>6. ASSUME NEW k \in 1..Len(hooks)
        PROVE  /\ Vouched(next, hooks[k]) /\ ~Vouched(st, hooks[k])
               /\ \A l \in 1..Len(hooks) : hooks[l] = hooks[k] => l = k
    <3>1. \A l \in 1..Len(hooks) : l = 1 \/ l = 2
      BY <2>3
    <3> QED
      BY <1>12, <2>3, <2>4, <2>5, <3>1
  <2> QED
    BY <1>4, <1>7, <1>8, <1>9, <1>10, <2>3, <2>6 DEF Sound, StateRight
<1> QED
  BY <1>5, <1>13, <1>14, StatusHook DEF next, created

(* An intent may become one that fits the state and moves on by no more     *)
(* than a step.                                                             *)
Follows(st, old, new) ==
  /\ new.refunded = old.refunded
  /\ new.customer <= st.customers /\ new.method <= Len(st.methods)
  /\ Consistent(new.status, new.method)
  /\ new.status \in {old.status} \cup After(old.status)
  /\ Terminal(old.status) =>
       new.amount = old.amount /\ new.method = old.method /\ new.status = old.status

(* Replacing it is sound, its webhook aside ...                             *)
LEMMA ReplaceSound ==
  ASSUME NEW st, StateRight(st), NEW id \in 1..Len(st.intents), NEW new \in Intent,
         Follows(st, st.intents[id], new)
  PROVE  LET next == [st EXCEPT !.intents[id] = new] IN
         /\ StateRight(next)
         /\ TerminalKept(st.intents, next.intents)
         /\ \A h \in Hooks : Vouched(st, h) => Vouched(next, h)
         /\ Len(next.intents) = Len(st.intents) /\ next.intents[id] = new
<1> DEFINE next == [st EXCEPT !.intents[id] = new]
           old  == st.intents[id]
<1> USE DEF Follows
<1>0. st \in State /\ MoneyRight(st) /\ Closed(st)
  BY DEF StateRight
<1> DEFINE intents == [st.intents EXCEPT ![id] = new]
<1>1. /\ st.customers \in Nat /\ st.intents \in Seq(Intent) /\ st.refunds \in Seq(Refund)
      /\ Len(st.methods) \in Nat /\ Len(st.intents) \in Nat /\ Len(st.refunds) \in Nat
      /\ \A n \in 1..Len(st.intents) : st.intents[n] \in Intent
  BY <1>0, Parts, StripeAssumption
<1>2. /\ intents \in Seq(Intent) /\ Len(intents) = Len(st.intents)
      /\ \A n \in 1..Len(st.intents) : intents[n] = IF n = id THEN new ELSE st.intents[n]
  BY <1>1, ExceptSeq
<1>3. /\ next \in State /\ next.customers = st.customers /\ next.methods = st.methods
      /\ next.intents = intents /\ next.refunds = st.refunds
  BY <1>0, <1>2 DEF State
<1>4. /\ \A n \in 1..Len(st.intents) : st.intents[n].refunded \in Nat
      /\ new.amount \in Amounts /\ old.amount \in Amounts /\ old.refunded \in Nat
  BY <1>1 DEF Intent
<1>5. new.amount \in Nat /\ old.amount \in Nat
  BY <1>4, StripeAssumption
<1> HIDE DEF intents, next
<1>6. MoneyRight(next)
  <2>1. ASSUME NEW n \in 1..Len(next.intents)
        PROVE  /\ AddUpTo(next.refunds, n, next.intents[n].refunded)
               /\ next.intents[n].refunded <= next.intents[n].amount
               /\ next.intents[n].refunded > 0 => next.intents[n].status = "succeeded"
    <3>1. /\ AddUpTo(st.refunds, n, st.intents[n].refunded)
          /\ st.intents[n].refunded <= st.intents[n].amount
          /\ st.intents[n].refunded > 0 => st.intents[n].status = "succeeded"
      BY <1>0, <1>2, <1>3, <2>1 DEF MoneyRight
    <3>2. CASE n = id
      <4>1. next.intents[n] = new /\ AddUpTo(next.refunds, n, next.intents[n].refunded)
        BY <1>2, <1>3, <3>1, <3>2
      <4>2. CASE old.refunded > 0
        BY <3>1, <3>2, <4>1, <4>2 DEF Terminal
      <4>3. CASE old.refunded = 0
        BY <1>5, <4>1, <4>3
      <4> QED
        BY <1>4, <4>2, <4>3
    <3>3. CASE n # id
      BY <1>2, <1>3, <3>1, <3>3
    <3> QED
      BY <3>2, <3>3
  <2> QED
    BY <2>1 DEF MoneyRight
<1>7. Closed(next)
  <2>1. ASSUME NEW n \in 1..Len(next.intents)
        PROVE  /\ next.intents[n].customer <= next.customers
               /\ next.intents[n].method <= Len(next.methods)
               /\ next.intents[n].method = NoId
                    <=> next.intents[n].status = "requires_payment_method"
    BY <1>0, <1>2, <1>3 DEF Closed, Consistent
  <2> QED
    BY <1>0, <1>2, <1>3, <2>1 DEF Closed
<1>8. TerminalKept(st.intents, next.intents)
  BY <1>1, <1>2, <1>3, <1>4 DEF TerminalKept
<1>9. \A h \in Hooks : Vouched(st, h) => Vouched(next, h)
  <2>1. Grown(st, next)
    BY <1>1, <1>2, <1>3 DEF Grown
  <2> QED
    BY <1>0, <1>3, <2>1, VouchedKept
<1> QED
  BY <1>2, <1>3, <1>6, <1>7, <1>8, <1>9 DEF StateRight, intents, next

(* ... and with the webhook of its status, if that is new.                  *)
LEMMA UpdateSound ==
  ASSUME NEW st, StateRight(st), NEW id \in 1..Len(st.intents),
         NEW old, old = st.intents[id], NEW new \in Intent, Follows(st, old, new)
  PROVE  Sound(st, [st EXCEPT !.intents[id] = new], HooksForChange(old.status, new.status, id))
<1> USE DEF Follows
<1> DEFINE next == [st EXCEPT !.intents[id] = new]
           hooks == HooksForChange(old.status, new.status, id)
<1>1. st \in State /\ MoneyRight(st) /\ Closed(st)
  BY DEF StateRight
<1>2. Len(st.intents) \in Nat /\ id \in Nat /\ new.status \in Statuses
  BY <1>1, Parts DEF Intent
<1>3. /\ StateRight(next) /\ TerminalKept(st.intents, next.intents)
      /\ \A h \in Hooks : Vouched(st, h) => Vouched(next, h)
      /\ Len(next.intents) = Len(st.intents) /\ next.intents[id] = new
  BY ReplaceSound, Zenon
<1> HIDE DEF next
<1>4. CASE hooks = <<>>
  <2>1. Sound(st, next, <<>>)
    BY <1>3, EmptySeq DEF Sound
  <2> QED
    BY <1>4, <2>1 DEF next
<1>5. ASSUME new.status # old.status,
             NEW type \in {"payment_intent.amount_capturable_updated",
                           "payment_intent.succeeded", "payment_intent.canceled"},
             hooks = <<Hook(type, id)>>, new.status \in Since(type),
             new.status = "requires_capture" <=> type = "payment_intent.amount_capturable_updated"
      PROVE  Sound(st, next, hooks)
  <2> DEFINE hook == Hook(type, id)
  <2>1. hook \in Hooks /\ hook.type = type /\ hook.id = id
    BY <1>2 DEF Hook, Hooks, HookTypes
  <2>2. hooks = <<hook>>
    BY <1>5
  <2> HIDE DEF hook, hooks
  <2>3. Vouched(next, hook)
    BY <1>2, <1>3, <1>5, <2>1 DEF Vouched
  <2>4. old.status \notin Since(type)
    BY <1>5 DEF Since, Terminal
  <2>5. ~Vouched(st, hook)
    BY <1>5, <2>1, <2>4 DEF Vouched
  <2>6. Sound(st, next, <<hook>>)
    BY <1>3, <2>1, <2>3, <2>5, OneHook DEF Sound
  <2> QED
    BY <2>2, <2>6
<1>6. \/ hooks = <<>>
      \/ new.status # old.status /\ hooks = StatusHooks(new.status, id)
  BY DEF HooksForChange
<1> QED
  BY <1>2, <1>4, <1>5, <1>6, StatusHook DEF next

(* A refund of some of what is left of a succeeded intent.                  *)
LEMMA RefundSound ==
  ASSUME NEW st, StateRight(st), NEW id \in Intents, id <= Len(st.intents),
         NEW intent, intent = st.intents[id], intent.status = "succeeded",
         NEW amount \in 1..Refundable(intent)
  PROVE  Sound(st, [st EXCEPT !.refunds = Append(@, [intent |-> id, amount |-> amount]),
                              !.intents[id].refunded = @ + amount],
               <<Hook("refund.created", Len(st.refunds) + 1)>>)
<1> DEFINE refund == [intent |-> id, amount |-> amount]
           paid == [intent EXCEPT !.refunded = @ + amount]
           intents == [st.intents EXCEPT ![id] = paid]
           next == [st EXCEPT !.refunds = Append(@, refund), !.intents[id].refunded = @ + amount]
           hook == Hook("refund.created", Len(st.refunds) + 1)
<1>1. st \in State /\ MoneyRight(st) /\ Closed(st)
  BY DEF StateRight
<1>2. /\ st.customers \in Nat /\ st.intents \in Seq(Intent) /\ st.refunds \in Seq(Refund)
      /\ Len(st.methods) \in Nat /\ Len(st.intents) \in Nat /\ Len(st.refunds) \in Nat
      /\ \A n \in 1..Len(st.intents) : st.intents[n] \in Intent
      /\ id \in 1..Len(st.intents) /\ id \in Nat
  BY <1>1, Parts, StripeAssumption DEF Intents
<1>3. /\ intent \in Intent /\ intent.refunded \in Nat /\ intent.amount \in Amounts
      /\ \A n \in 1..Len(st.intents) : st.intents[n].refunded \in Nat
  BY <1>2 DEF Intent
<1>4. intent.amount \in Nat
  BY <1>3, StripeAssumption
<1>5. amount \in Nat \ {0} /\ intent.refunded + amount <= intent.amount
  BY <1>3, <1>4 DEF Refundable
<1>6. /\ paid \in Intent /\ paid.refunded = intent.refunded + amount
      /\ paid.amount = intent.amount /\ paid.status = intent.status
      /\ paid.customer = intent.customer /\ paid.method = intent.method
  BY <1>3, <1>5 DEF Intent
<1>7. refund \in Refund /\ refund.intent = id /\ refund.amount = amount
  BY <1>5 DEF Refund, Intents
<1>8. /\ Append(st.refunds, refund) \in Seq(Refund)
      /\ Len(Append(st.refunds, refund)) = Len(st.refunds) + 1
      /\ \A r \in 1..Len(st.refunds) : Append(st.refunds, refund)[r] = st.refunds[r]
      /\ Append(st.refunds, refund)[Len(st.refunds) + 1] = refund
  BY <1>2, <1>7, AppendProperties
<1> HIDE DEF paid
<1>9. /\ intents \in Seq(Intent) /\ Len(intents) = Len(st.intents)
      /\ \A n \in 1..Len(st.intents) : intents[n] = IF n = id THEN paid ELSE st.intents[n]
  BY <1>2, <1>6, ExceptSeq
<1>10. next = [st EXCEPT !.refunds = Append(st.refunds, refund), !.intents = intents]
  BY <1>1 DEF State, paid
<1> HIDE DEF refund, intents
<1>11. /\ next \in State /\ next.customers = st.customers /\ next.methods = st.methods
       /\ next.intents = intents /\ next.refunds = Append(st.refunds, refund)
  BY <1>1, <1>8, <1>9, <1>10 DEF State
<1>12. hook \in Hooks /\ hook.type = "refund.created" /\ hook.id = Len(st.refunds) + 1
  BY <1>2 DEF Hook, Hooks, HookTypes
<1> HIDE DEF next, hook
<1>13. MoneyRight(next)
  <2>1. ASSUME NEW n \in 1..Len(next.intents)
        PROVE  /\ AddUpTo(next.refunds, n, next.intents[n].refunded)
               /\ next.intents[n].refunded <= next.intents[n].amount
               /\ next.intents[n].refunded > 0 => next.intents[n].status = "succeeded"
    <3>1. /\ n \in 1..Len(st.intents)
          /\ AddUpTo(st.refunds, n, st.intents[n].refunded) /\ st.intents[n].refunded \in Nat
          /\ st.intents[n].refunded <= st.intents[n].amount
          /\ st.intents[n].refunded > 0 => st.intents[n].status = "succeeded"
      BY <1>1, <1>3, <1>9, <1>11, <2>1 DEF MoneyRight
    <3>2. AddUpTo(next.refunds, n, st.intents[n].refunded + (IF id = n THEN amount ELSE 0))
      <4>1. AddUpTo(Append(st.refunds, refund), n,
                    st.intents[n].refunded + (IF refund.intent = n THEN refund.amount ELSE 0))
        BY <1>2, <1>7, <3>1, RefundAdds
      <4> QED
        BY <1>7, <1>11, <4>1
    <3>3. CASE n = id
      BY <1>5, <1>6, <1>9, <1>11, <3>1, <3>2, <3>3
    <3>4. CASE n # id
      <4>1. next.intents[n] = st.intents[n]
        BY <1>9, <1>11, <3>1, <3>4
      <4>2. AddUpTo(next.refunds, n, st.intents[n].refunded)
        BY <3>1, <3>2, <3>4
      <4> QED
        BY <3>1, <4>1, <4>2
    <3> QED
      BY <3>3, <3>4
  <2> QED
    BY <2>1 DEF MoneyRight
<1>14. Closed(next)
  <2>1. \A n \in 1..Len(next.intents) :
          /\ next.intents[n].customer <= next.customers
          /\ next.intents[n].method <= Len(next.methods)
          /\ next.intents[n].method = NoId
               <=> next.intents[n].status = "requires_payment_method"
    BY <1>1, <1>6, <1>9, <1>11 DEF Closed
  <2>2. \A r \in 1..Len(next.refunds) : next.refunds[r].intent <= Len(next.intents)
    BY <1>1, <1>2, <1>7, <1>8, <1>9, <1>11 DEF Closed
  <2> QED
    BY <1>1, <1>11, <2>1, <2>2 DEF Closed
<1>15. TerminalKept(st.intents, next.intents)
  <2>1. ASSUME NEW n \in 1..Len(st.intents)
        PROVE  /\ next.intents[n].amount = st.intents[n].amount
               /\ next.intents[n].method = st.intents[n].method
               /\ next.intents[n].status = st.intents[n].status
               /\ next.intents[n].refunded >= st.intents[n].refunded
    BY <1>3, <1>5, <1>6, <1>9, <1>11
  <2> QED
    BY <1>2, <1>9, <1>11, <2>1 DEF TerminalKept
<1>16. \A h \in Hooks : Vouched(st, h) => Vouched(next, h)
  <2>1. Grown(st, next)
    BY <1>2, <1>6, <1>8, <1>9, <1>11 DEF Grown
  <2> QED
    BY <1>1, <1>11, <2>1, VouchedKept
<1>17. Vouched(next, hook) /\ ~Vouched(st, hook)
  BY <1>2, <1>8, <1>11, <1>12 DEF Vouched
<1>18. Sound(st, next, <<hook>>)
  BY <1>11, <1>12, <1>13, <1>14, <1>15, <1>16, <1>17, OneHook DEF Sound, StateRight
<1> QED
  BY <1>18 DEF next, hook, refund

(* The update of an intent the simulator accepts is one that follows.       *)
LEMMA UpdateFollows ==
  ASSUME NEW st, StateRight(st), NEW id \in 1..Len(st.intents),
         NEW amount \in Amounts \cup {Unset}, NEW customer \in Customers \cup {NoId, Unset},
         NEW method \in Methods \cup {NoId, Unset}, NEW asked \in Statuses \cup {"unset"},
         NEW old, old = st.intents[id], NEW payer, payer = Or(customer, old.customer),
         NEW paidBy, paidBy = Or(method, old.method),
         NEW status, status = NextStatus(old.status, paidBy, asked),
         Terminal(old.status) => ~Mutates(old, amount, customer, method, asked),
         ReferencesOK(st, payer, paidBy), Consistent(status, paidBy),
         asked # "unset" => status \in {old.status} \cup After(old.status),
         NEW new,
         new = [amount |-> Or(amount, old.amount), customer |-> CustomerFor(st, payer, paidBy),
                method |-> paidBy, status |-> status, refunded |-> old.refunded]
  PROVE  new \in Intent /\ Follows(st, old, new)
<1>1. st \in State /\ Closed(st)
  BY DEF StateRight
<1>2. old \in Intent
  BY <1>1, Parts
<1>3. /\ Or(amount, old.amount) \in Amounts /\ payer \in 0..MaxCustomers
      /\ paidBy \in 0..MaxMethods /\ status \in Statuses /\ old.refunded \in Nat
  <2>1. Or(amount, old.amount) \in Amounts
    BY <1>2 DEF Or, Intent
  <2>2. payer \in 0..MaxCustomers
    BY <1>2, StripeAssumption DEF Or, Intent, Customers, NoId
  <2>3. paidBy \in 0..MaxMethods
    BY <1>2, StripeAssumption DEF Or, Intent, Methods, NoId
  <2>4. status \in Statuses /\ old.refunded \in Nat
    BY <1>2 DEF NextStatus, Intent, Statuses
  <2> QED
    BY <2>1, <2>2, <2>3, <2>4
<1>4. /\ CustomerFor(st, payer, paidBy) \in 0..MaxCustomers
      /\ CustomerFor(st, payer, paidBy) <= st.customers
  BY <1>1, <1>3, CustomerKnown
<1>5. new \in Intent
  BY <1>3, <1>4 DEF Intent
<1>6. status \in {old.status} \cup After(old.status)
  <2>1. After("requires_payment_method") = {"requires_confirmation", "canceled"}
    BY DEF After
  <2> QED
    BY <2>1 DEF NextStatus
<1>7. ASSUME Terminal(old.status)
      PROVE  new.amount = old.amount /\ new.method = old.method /\ new.status = old.status
  <2>1. ~Mutates(old, amount, customer, method, asked)
    BY <1>7
  <2> QED
    BY <1>7, <2>1 DEF Mutates, Terminal, NextStatus
<1>8. paidBy <= Len(st.methods)
  BY DEF ReferencesOK
<1> QED
  BY <1>4, <1>5, <1>6, <1>7, <1>8 DEF Follows

(* Whatever an operation does, it saves a state that is sound over the one  *)
(* it loaded.                                                               *)
LEMMA OperationSaves ==
  ASSUME NEW i \in Simulators, StateRight(Loaded(i)), Operation(i)
  PROVE  \E next, hooks : Save(i, next, hooks) /\ Sound(Loaded(i), next, hooks)
<1> DEFINE st == Loaded(i)
<1>0. /\ st \in State /\ Closed(st) /\ st.customers \in Nat
      /\ Len(st.methods) \in Nat /\ Len(st.intents) \in Nat
  BY Parts, StripeAssumption DEF StateRight
<1>1. CASE CreateCustomer(i)
  BY <1>1, CustomerSound DEF CreateCustomer
<1>2. CASE CreatePaymentMethod(i)
  BY <1>2, MethodSound DEF CreatePaymentMethod
<1>3. ASSUME NEW id \in Customers, UpdateCustomer(i, id)
      PROVE  \E next, hooks : Save(i, next, hooks) /\ Sound(st, next, hooks)
  <2> DEFINE hook == Hook("customer.updated", id)
  <2>1. id \in Nat /\ id <= st.customers /\ Save(i, st, <<hook>>)
    BY <1>3, StripeAssumption DEF UpdateCustomer, Customers
  <2>2. <<hook>> \in Seq(Hooks)
    BY <2>1, OneHook DEF Hook, Hooks, HookTypes
  <2>3. Sound(st, st, <<hook>>)
    BY <2>1, <2>2, SameSound
  <2> QED
    BY <2>1, <2>3
<1>4. ASSUME NEW id \in Methods, UpdatePaymentMethod(i, id)
      PROVE  \E next, hooks : Save(i, next, hooks) /\ Sound(st, next, hooks)
  <2>1. Save(i, st, <<>>) /\ <<>> \in Seq(Hooks)
    BY <1>4, EmptySeq DEF UpdatePaymentMethod
  <2>2. Sound(st, st, <<>>)
    BY <2>1, SameSound
  <2> QED
    BY <2>1, <2>2
<1>5. ASSUME NEW id \in Methods, NEW customer \in Customers, AttachPaymentMethod(i, id, customer)
      PROVE  \E next, hooks : Save(i, next, hooks) /\ Sound(st, next, hooks)
  BY <1>5, AttachSound DEF AttachPaymentMethod
<1>6. ASSUME NEW amount \in Amounts, NEW customer \in Customers \cup {NoId},
             NEW method \in Methods \cup {NoId}, NEW asked \in Statuses \cup {"unset"},
             CreatePaymentIntent(i, amount, customer, method, asked)
      PROVE  \E next, hooks : Save(i, next, hooks) /\ Sound(st, next, hooks)
  <2> DEFINE id == Len(st.intents) + 1
             status == FirstStatus(asked, method)
             intent == [amount |-> amount, customer |-> CustomerFor(st, customer, method),
                        method |-> method, status |-> status, refunded |-> 0]
             next == [st EXCEPT !.intents = Append(@, intent)]
             hooks == <<Hook("payment_intent.created", id)>> \o StatusHooks(status, id)
  <2>1. /\ id <= MaxIntents /\ ReferencesOK(st, customer, method)
        /\ Consistent(status, method) /\ Save(i, next, hooks)
    BY <1>6 DEF CreatePaymentIntent
  <2>2. customer \in 0..MaxCustomers /\ method \in 0..MaxMethods
    BY StripeAssumption DEF Customers, Methods, NoId
  <2>3. /\ CustomerFor(st, customer, method) \in 0..MaxCustomers
        /\ CustomerFor(st, customer, method) <= st.customers
        /\ method <= Len(st.methods)
    BY <1>0, <2>1, <2>2, CustomerKnown DEF ReferencesOK
  <2>4. status \in Statuses
    BY DEF FirstStatus, Statuses
  <2>5. /\ intent \in Intent /\ intent.status = status /\ intent.refunded = 0
        /\ intent.customer <= st.customers /\ intent.method = method
    BY <2>2, <2>3, <2>4 DEF Intent
  <2> HIDE DEF intent, status, id
  <2>6. Sound(st, next, hooks)
    BY <2>1, <2>3, <2>5, IntentSound DEF id
  <2> HIDE DEF next, hooks
  <2> QED
    BY <2>1, <2>6
<1>7. ASSUME NEW id \in Intents, NEW amount \in Amounts \cup {Unset},
             NEW customer \in Customers \cup {NoId, Unset},
             NEW method \in Methods \cup {NoId, Unset}, NEW asked \in Statuses \cup {"unset"},
             UpdatePaymentIntent(i, id, amount, customer, method, asked)
      PROVE  \E next, hooks : Save(i, next, hooks) /\ Sound(st, next, hooks)
  <2> DEFINE old == st.intents[id]
             payer == Or(customer, old.customer)
             paidBy == Or(method, old.method)
             status == NextStatus(old.status, paidBy, asked)
             new == [amount |-> Or(amount, old.amount), customer |-> CustomerFor(st, payer, paidBy),
                     method |-> paidBy, status |-> status, refunded |-> old.refunded]
             next == [st EXCEPT !.intents[id] = new]
             hooks == HooksForChange(old.status, status, id)
  <2>1. /\ id <= Len(st.intents)
        /\ Terminal(old.status) => ~Mutates(old, amount, customer, method, asked)
        /\ ReferencesOK(st, payer, paidBy) /\ Consistent(status, paidBy)
        /\ asked # "unset" => status \in {old.status} \cup After(old.status)
        /\ Save(i, next, hooks)
    BY <1>7 DEF UpdatePaymentIntent
  <2>2. id \in 1..Len(st.intents)
    BY <1>0, <2>1, StripeAssumption DEF Intents
  <2>3. new \in Intent /\ Follows(st, old, new)
    BY <2>1, <2>2, UpdateFollows, Zenon
  <2>4. new.status = status
    OBVIOUS
  <2> HIDE DEF new, status
  <2>5. Sound(st, next, hooks)
    BY <2>2, <2>3, <2>4, UpdateSound
  <2> HIDE DEF next, hooks
  <2> QED
    BY <2>1, <2>5
<1>8. ASSUME NEW id \in Intents, NEW asked \in Amounts \cup {0}, CreateRefund(i, id, asked)
      PROVE  \E next, hooks : Save(i, next, hooks) /\ Sound(st, next, hooks)
  <2> DEFINE intent == st.intents[id]
             amount == IF asked = 0 THEN Refundable(intent) ELSE asked
             next == [st EXCEPT !.refunds = Append(@, [intent |-> id, amount |-> amount]),
                                !.intents[id].refunded = @ + amount]
             hooks == <<Hook("refund.created", Len(st.refunds) + 1)>>
  <2>1. /\ id <= Len(st.intents) /\ intent.status = "succeeded"
        /\ amount \in 1..Refundable(intent) /\ Save(i, next, hooks)
    BY <1>8 DEF CreateRefund
  <2> HIDE DEF amount
  <2>2. Sound(st, next, hooks)
    BY <2>1, RefundSound
  <2> HIDE DEF next, hooks
  <2> QED
    BY <2>1, <2>2
<1> QED
  BY <1>1, <1>2, <1>3, <1>4, <1>5, <1>6, <1>7, <1>8 DEF Operation

-----------------------------------------------------------------------------
(* The invariant holds at the start, for seeds that earlier calls left; a   *)
(* session nobody has used yet is one of them.                              *)

(* The empty state may be a seed.                                           *)
LEMMA EmptyStateRight == StateRight(EmptyState)
<1>1. <<>> \in Seq(0..MaxCustomers) /\ <<>> \in Seq(Intent) /\ <<>> \in Seq(Refund) /\ Len(<<>>) = 0
  BY EmptySeq
<1>2. EmptyState \in State
  BY <1>1, StripeAssumption DEF EmptyState, State
<1> QED
  BY <1>1, <1>2 DEF StateRight, EmptyState, MoneyRight, Closed

(* The initial state satisfies the invariant.                               *)
LEMMA InitInv == Init => TypeInv /\ HistoryInv /\ WebhookInv
<1> SUFFICES ASSUME Init PROVE TypeInv /\ HistoryInv /\ WebhookInv
  OBVIOUS
<1>1. PICK seed \in Seeds : snapshots = <<[state |-> seed, base |-> 1]>>
  BY DEF Init
<1>2. seed \in State /\ MoneyRight(seed) /\ Closed(seed)
  BY SeedAssumption
<1>3. /\ snapshots \in Seq([state : State, base : Nat]) /\ Len(snapshots) = 1
      /\ snapshots[1].state = seed
  BY <1>1, <1>2
<1>4. <<>> \in Seq(Hooks) /\ Len(<<>>) = 0
  BY EmptySeq
<1>5. TypeInv
  BY <1>3, <1>4 DEF Init, TypeInv, TypeOK
<1>6. HistoryInv
  BY <1>2, <1>3 DEF HistoryInv, StateRight
<1>7. HooksInv
  BY <1>4 DEF Init, HooksInv
<1> QED
  BY <1>5, <1>6, <1>7 DEF WebhookInv

-----------------------------------------------------------------------------
(* Every step keeps it.                                                     *)

(* A simulator that has loaded works on a right state.                      *)
LEMMA LoadedRight ==
  ASSUME TypeInv, HistoryInv, NEW i \in Simulators, pc[i] = "loaded"
  PROVE  loaded[i] \in 1..Len(snapshots) /\ StateRight(Loaded(i))
BY DEF TypeInv, TypeOK, HistoryInv, Loaded

(* What saving does to the history of snapshots.                            *)
LEMMA SaveAppends ==
  ASSUME TypeInv, HistoryInv, NEW i \in Simulators, pc[i] = "loaded",
         NEW next, NEW hooks, Save(i, next, hooks), Sound(Loaded(i), next, hooks)
  PROVE  /\ Len(snapshots) \in Nat /\ snapshots' \in Seq([state : State, base : Nat])
         /\ Len(snapshots') = Len(snapshots) + 1
         /\ \A n \in 1..Len(snapshots) : snapshots'[n] = snapshots[n]
         /\ snapshots'[Len(snapshots) + 1].state = next
         /\ snapshots'[Len(snapshots) + 1].base = loaded[i]
<1> DEFINE saved == [state |-> next, base |-> loaded[i]]
<1>1. next \in State /\ loaded[i] \in Nat
  BY DEF Sound, StateRight, TypeInv, TypeOK
<1>2. saved \in [state : State, base : Nat] /\ saved.state = next /\ saved.base = loaded[i]
  BY <1>1
<1>3. snapshots \in Seq([state : State, base : Nat]) /\ Len(snapshots) \in Nat
  BY LenProperties DEF TypeInv, TypeOK
<1>4. snapshots' = Append(snapshots, saved)
  BY DEF Save
<1> HIDE DEF saved
<1>5. /\ snapshots' \in Seq([state : State, base : Nat])
      /\ Len(snapshots') = Len(snapshots) + 1
      /\ \A n \in 1..Len(snapshots) : snapshots'[n] = snapshots[n]
      /\ snapshots'[Len(snapshots) + 1] = saved
  BY <1>2, <1>3, <1>4, AppendProperties
<1> QED
  BY <1>2, <1>3, <1>5

(* The types.                                                               *)
LEMMA NextTypeInv == TypeInv /\ HistoryInv /\ [Next]_vars => TypeInv'
<1> SUFFICES ASSUME TypeInv, HistoryInv, [Next]_vars PROVE TypeInv'
  OBVIOUS
<1>a. /\ snapshots \in Seq([state : State, base : Nat]) /\ Len(snapshots) \in Nat
      /\ current \in 1..Len(snapshots)
      /\ pc \in [Simulators -> {"idle", "loaded", "notify"}]
      /\ loaded \in [Simulators -> Nat] /\ todo \in [Simulators -> Seq(Hooks)]
      /\ scheduled \subseteq Hooks /\ repeated \subseteq Hooks
      /\ \A i \in Simulators : IF pc[i] = "loaded" THEN loaded[i] \in 1..Len(snapshots)
                                                   ELSE loaded[i] = 0
      /\ \A i \in Simulators : pc[i] = "notify" <=> todo[i] # <<>>
  BY LenProperties DEF TypeInv, TypeOK
<1>b. <<>> \in Seq(Hooks)
  BY EmptySeq
<1>1. ASSUME NEW i \in Simulators, Load(i)
      PROVE  TypeInv'
  BY <1>1, <1>a DEF Load, TypeInv, TypeOK
<1>2. ASSUME NEW i \in Simulators, Refuse(i)
      PROVE  TypeInv'
  BY <1>2, <1>a DEF Refuse, TypeInv, TypeOK
<1>3. ASSUME NEW i \in Simulators, Operation(i)
      PROVE  TypeInv'
  <2>1. pc[i] = "loaded"
    BY <1>3 DEF Operation
  <2>2. PICK next, hooks : Save(i, next, hooks) /\ Sound(Loaded(i), next, hooks)
    BY <1>3, <2>1, LoadedRight, OperationSaves
  <2>3. /\ snapshots' \in Seq([state : State, base : Nat])
        /\ Len(snapshots') = Len(snapshots) + 1
    BY <2>1, <2>2, SaveAppends
  <2>4. hooks \in Seq(Hooks)
    BY <2>2 DEF Sound
  <2>5. /\ pc' = [pc EXCEPT ![i] = IF hooks = <<>> THEN "idle" ELSE "notify"]
        /\ todo' = [todo EXCEPT ![i] = hooks] /\ loaded' = [loaded EXCEPT ![i] = 0]
        /\ current' = Len(snapshots) + 1 /\ UNCHANGED <<scheduled, repeated>>
    BY <2>2 DEF Save
  <2>6. current' \in 1..Len(snapshots')
    BY <1>a, <2>3, <2>5
  <2>7. /\ pc' \in [Simulators -> {"idle", "loaded", "notify"}]
        /\ loaded' \in [Simulators -> Nat] /\ todo' \in [Simulators -> Seq(Hooks)]
    BY <1>a, <2>4, <2>5
  <2>8. \A j \in Simulators : IF pc'[j] = "loaded" THEN loaded'[j] \in 1..Len(snapshots')
                                                  ELSE loaded'[j] = 0
    BY <1>a, <2>3, <2>5
  <2>9. \A j \in Simulators : pc'[j] = "notify" <=> todo'[j] # <<>>
    BY <1>a, <2>1, <2>5
  <2> QED
    BY <1>a, <2>3, <2>5, <2>6, <2>7, <2>8, <2>9 DEF TypeInv, TypeOK
<1>4. ASSUME NEW i \in Simulators, Schedule(i)
      PROVE  TypeInv'
  <2>1. todo[i] \in Seq(Hooks) /\ todo[i] # <<>>
    BY <1>4, <1>a DEF Schedule
  <2>2. /\ Head(todo[i]) \in Hooks /\ Tail(todo[i]) \in Seq(Hooks)
        /\ Len(Tail(todo[i])) = Len(todo[i]) - 1
        /\ Tail(todo[i]) # <<>> <=> Len(todo[i]) # 1
    <3>1. /\ Head(todo[i]) \in Hooks /\ Tail(todo[i]) \in Seq(Hooks)
          /\ Len(Tail(todo[i])) = Len(todo[i]) - 1
      BY <2>1, HeadTailProperties
    <3>2. Len(todo[i]) \in Nat /\ (Tail(todo[i]) # <<>> <=> Len(Tail(todo[i])) # 0)
      BY <2>1, <3>1, EmptySeq, LenProperties
    <3> QED
      BY <3>1, <3>2
  <2>3. /\ todo' = [todo EXCEPT ![i] = Tail(todo[i])]
        /\ pc' = [pc EXCEPT ![i] = IF Len(todo[i]) = 1 THEN "idle" ELSE "notify"]
        /\ scheduled' = scheduled \cup {Head(todo[i])}
        /\ repeated' \subseteq repeated \cup {Head(todo[i])}
        /\ UNCHANGED <<snapshots, current, loaded>> /\ pc[i] = "notify"
    BY <1>4 DEF Schedule
  <2> QED
    BY <1>a, <2>2, <2>3 DEF TypeInv, TypeOK
<1>5. ASSUME NEW i \in Simulators, GiveUp(i)
      PROVE  TypeInv'
  BY <1>5, <1>a, <1>b DEF GiveUp, TypeInv, TypeOK
<1>6. ASSUME NEW n \in 1..Len(snapshots), Restore(n)
      PROVE  TypeInv'
  BY <1>6, <1>a DEF Restore, TypeInv, TypeOK
<1>7. CASE UNCHANGED vars
  BY <1>7, <1>a DEF vars, TypeInv, TypeOK
<1> QED
  BY <1>1, <1>2, <1>3, <1>4, <1>5, <1>6, <1>7 DEF Next

(* Every step but an operation leaves the snapshots alone.                  *)
LEMMA SnapshotSteps ==
  ASSUME [Next]_vars
  PROVE  snapshots' = snapshots \/ \E i \in Simulators : Operation(i)
BY DEF Next, vars, Load, Refuse, Schedule, GiveUp, Restore

(* The history of snapshots.                                                *)
LEMMA NextHistoryInv == TypeInv /\ HistoryInv /\ [Next]_vars => HistoryInv'
<1> SUFFICES ASSUME TypeInv, HistoryInv, [Next]_vars PROVE HistoryInv'
  OBVIOUS
<1>1. CASE snapshots' = snapshots
  BY <1>1 DEF HistoryInv
<1>2. ASSUME NEW i \in Simulators, Operation(i)
      PROVE  HistoryInv'
  <2>1. pc[i] = "loaded" /\ loaded[i] \in 1..Len(snapshots)
    BY <1>2, LoadedRight DEF Operation
  <2>2. PICK next, hooks : Save(i, next, hooks) /\ Sound(Loaded(i), next, hooks)
    BY <1>2, <2>1, LoadedRight, OperationSaves
  <2> DEFINE last == Len(snapshots) + 1
  <2>3. /\ Len(snapshots) \in Nat /\ Len(snapshots') = last
        /\ \A n \in 1..Len(snapshots) : snapshots'[n] = snapshots[n]
        /\ snapshots'[last].state = next /\ snapshots'[last].base = loaded[i]
    BY <2>1, <2>2, SaveAppends
  <2>4. /\ StateRight(next)
        /\ TerminalKept(snapshots[loaded[i]].state.intents, next.intents)
    BY <2>2 DEF Sound, Loaded
  <2>5. ASSUME NEW n \in 1..last
        PROVE  StateRight(snapshots'[n].state)
    BY <2>3, <2>4, <2>5 DEF HistoryInv
  <2>6. ASSUME NEW n \in 2..last
        PROVE  /\ snapshots'[n].base \in 1..(n - 1)
               /\ TerminalKept(snapshots'[snapshots'[n].base].state.intents,
                               snapshots'[n].state.intents)
    <3>1. CASE n = last
      BY <2>1, <2>3, <2>4, <3>1
    <3>2. CASE n # last
      <4>1. n \in 2..Len(snapshots) /\ snapshots'[n] = snapshots[n]
        BY <2>3, <3>2
      <4>2. /\ snapshots[n].base \in 1..(n - 1)
            /\ TerminalKept(snapshots[snapshots[n].base].state.intents,
                            snapshots[n].state.intents)
        BY <4>1 DEF HistoryInv
      <4>3. snapshots[n].base \in 1..Len(snapshots)
        BY <2>3, <4>1, <4>2
      <4> QED
        BY <2>3, <4>1, <4>2, <4>3
    <3> QED
      BY <3>1, <3>2
  <2> QED
    BY <2>3, <2>5, <2>6 DEF HistoryInv
<1> QED
  BY <1>1, <1>2, SnapshotSteps

(* The webhooks of a session without races, where a simulator saves: the    *)
(* snapshot it loaded is the newest, so its new webhooks are new to all     *)
(* that were scheduled or will be.                                          *)
LEMMA SaveKeepsHooks ==
  ASSUME TypeInv, HistoryInv, WebhookInv, NEW i \in Simulators, Operation(i), Chain'
  PROVE  HooksInv'
<1>1. pc[i] = "loaded" /\ loaded[i] \in 1..Len(snapshots)
  BY LoadedRight DEF Operation
<1>2. PICK next, hooks : Save(i, next, hooks) /\ Sound(Loaded(i), next, hooks)
  BY <1>1, LoadedRight, OperationSaves
<1> DEFINE last == Len(snapshots) + 1
<1>3. /\ Len(snapshots) \in Nat /\ Len(snapshots') = last
      /\ \A n \in 1..Len(snapshots) : snapshots'[n] = snapshots[n]
      /\ snapshots'[last].state = next /\ snapshots'[last].base = loaded[i]
  BY <1>1, <1>2, SaveAppends
<1>4. Newest' = next
  BY <1>3 DEF Newest
<1>5. HooksInv
  <2>1. ASSUME NEW n \in 2..Len(snapshots)
        PROVE  snapshots[n].base = n - 1
    <3>1. n \in 2..Len(snapshots') /\ snapshots'[n] = snapshots[n]
      BY <1>3
    <3> QED
      BY <3>1 DEF Chain
  <2> QED
    BY <2>1 DEF WebhookInv, Chain
<1>6. Loaded(i) = Newest
  <2>1. last \in 2..Len(snapshots')
    BY <1>1, <1>3
  <2>2. loaded[i] = last - 1
    BY <1>3, <2>1 DEF Chain
  <2> QED
    BY <1>3, <2>2 DEF Loaded, Newest
<1>7. /\ todo \in [Simulators -> Seq(Hooks)] /\ scheduled \subseteq Hooks
      /\ todo[i] = <<>> /\ Len(<<>>) = 0
  BY <1>1, EmptySeq DEF TypeInv, TypeOK
<1>8. /\ todo' = [todo EXCEPT ![i] = hooks] /\ scheduled' = scheduled /\ repeated' = repeated
  BY <1>2 DEF Save
<1>9. /\ \A h \in Hooks : Vouched(Newest, h) => Vouched(next, h)
      /\ hooks \in Seq(Hooks)
      /\ \A k \in 1..Len(hooks) :
           /\ Vouched(next, hooks[k])
           /\ ~Repeatable(hooks[k]) => ~Vouched(Newest, hooks[k])
           /\ \A l \in 1..Len(hooks) : hooks[l] = hooks[k] => l = k
  BY <1>2, <1>6 DEF Sound
<1>10. \A j \in Simulators : todo'[j] = IF j = i THEN hooks ELSE todo[j]
  BY <1>7, <1>8
<1>11. \A j \in Simulators : \A k \in 1..Len(todo[j]) : todo[j][k] \in Hooks
  BY <1>7, ElementOfSeq
<1>12. \A h \in scheduled : Vouched(Newest, h) /\ Vouched(next, h)
  BY <1>5, <1>7, <1>9 DEF HooksInv
<1>13. ASSUME NEW j \in Simulators \ {i}, NEW k \in 1..Len(todo[j])
       PROVE  Vouched(Newest, todo[j][k]) /\ Vouched(next, todo[j][k])
  BY <1>5, <1>9, <1>11 DEF HooksInv
<1>14. ASSUME NEW j \in Simulators, NEW k \in 1..Len(todo'[j])
       PROVE  /\ Vouched(next, todo'[j][k])
              /\ ~Repeatable(todo'[j][k]) =>
                   /\ todo'[j][k] \notin scheduled
                   /\ \A m \in Simulators : \A l \in 1..Len(todo'[m]) :
                        todo'[m][l] = todo'[j][k] => m = j /\ l = k
  <2>1. CASE j = i
    <3>1. todo'[j] = hooks /\ k \in 1..Len(hooks)
      BY <1>10, <1>14, <2>1
    <3>2. ASSUME ~Repeatable(hooks[k]), NEW m \in Simulators, NEW l \in 1..Len(todo'[m]),
                 todo'[m][l] = hooks[k]
          PROVE  m = i /\ l = k
      <4>1. CASE m = i
        BY <1>9, <1>10, <3>1, <3>2, <4>1
      <4>2. CASE m # i
        <5>1. l \in 1..Len(todo[m]) /\ todo[m][l] = hooks[k]
          BY <1>10, <3>2, <4>2
        <5>2. Vouched(Newest, hooks[k])
          BY <1>13, <4>2, <5>1
        <5> QED
          BY <1>9, <3>1, <3>2, <5>2
      <4> QED
        BY <4>1, <4>2
    <3> QED
      BY <1>9, <1>12, <2>1, <3>1, <3>2
  <2>2. CASE j # i
    <3>1. todo'[j] = todo[j] /\ k \in 1..Len(todo[j])
      BY <1>10, <1>14, <2>2
    <3>2. ASSUME ~Repeatable(todo[j][k]), NEW m \in Simulators, NEW l \in 1..Len(todo'[m]),
                 todo'[m][l] = todo[j][k]
          PROVE  m = j /\ l = k
      <4>1. CASE m = i
        <5>1. l \in 1..Len(hooks) /\ hooks[l] = todo[j][k]
          BY <1>10, <3>2, <4>1
        <5> QED
          BY <1>9, <1>13, <2>2, <3>1, <3>2, <5>1
      <4>2. CASE m # i
        <5>1. l \in 1..Len(todo[m]) /\ todo[m][l] = todo[j][k]
          BY <1>10, <3>2, <4>2
        <5> QED
          BY <1>5, <3>1, <3>2, <5>1 DEF HooksInv
      <4> QED
        BY <4>1, <4>2
    <3>3. ~Repeatable(todo[j][k]) => todo[j][k] \notin scheduled
      BY <1>5, <3>1 DEF HooksInv
    <3> QED
      BY <1>13, <2>2, <3>1, <3>2, <3>3
  <2> QED
    BY <2>1, <2>2
<1>15. repeated' = {}
  BY <1>5, <1>8 DEF HooksInv
<1> HIDE DEF last
<1> QED
  BY <1>4, <1>8, <1>12, <1>14, <1>15 DEF HooksInv

(* Where a simulator schedules the next of its webhooks: no other has       *)
(* scheduled it or is to.                                                   *)
LEMMA ScheduleKeepsHooks ==
  ASSUME TypeInv, HooksInv, NEW i \in Simulators, Schedule(i)
  PROVE  HooksInv'
<1> DEFINE hook == todo[i][1]
           rest == Tail(todo[i])
<1>1. /\ todo \in [Simulators -> Seq(Hooks)] /\ todo[i] # <<>> /\ pc[i] = "notify"
      /\ todo[i] \in Seq(Hooks)
  BY DEF Schedule, TypeInv, TypeOK
<1>2. /\ Len(todo[i]) \in Nat /\ 1 \in 1..Len(todo[i]) /\ Len(rest) = Len(todo[i]) - 1
      /\ \A k \in 1..Len(rest) : rest[k] = todo[i][k + 1] /\ k + 1 \in 1..Len(todo[i])
  <2>1. /\ Len(rest) = Len(todo[i]) - 1
        /\ \A k \in 1..Len(rest) : rest[k] = todo[i][k + 1]
    BY <1>1, HeadTailProperties
  <2>2. Len(todo[i]) \in Nat \ {0}
    BY <1>1, EmptySeq
  <2> QED
    BY <2>1, <2>2
<1>3. Head(todo[i]) = hook
  BY <1>1
<1>4. /\ todo' = [todo EXCEPT ![i] = rest] /\ scheduled' = scheduled \cup {hook}
      /\ snapshots' = snapshots
      /\ repeated' = IF hook \in scheduled /\ hook.type # "customer.updated"
                       THEN repeated \cup {hook} ELSE repeated
  BY <1>3 DEF Schedule
<1>5. /\ Vouched(Newest, hook)
      /\ ~Repeatable(hook) =>
           /\ hook \notin scheduled
           /\ \A j \in Simulators : \A l \in 1..Len(todo[j]) :
                todo[j][l] = hook => j = i /\ l = 1
  BY <1>2 DEF HooksInv
<1> HIDE DEF hook, rest
<1>6. repeated' = {} /\ Newest' = Newest
  BY <1>4, <1>5 DEF HooksInv, Repeatable, Newest
<1>7. \A j \in Simulators : todo'[j] = IF j = i THEN rest ELSE todo[j]
  BY <1>1, <1>4
<1> DEFINE Was(j, k) == IF j = i THEN k + 1 ELSE k
(* A webhook left was there before, one place on.                           *)
<1>8. ASSUME NEW j \in Simulators, NEW k \in 1..Len(todo'[j])
      PROVE  /\ Was(j, k) \in 1..Len(todo[j]) /\ todo'[j][k] = todo[j][Was(j, k)]
             /\ j = i => Was(j, k) # 1
  <2>1. CASE j = i
    BY <1>2, <1>7, <1>8, <2>1
  <2>2. CASE j # i
    BY <1>7, <1>8, <2>2
  <2> QED
    BY <2>1, <2>2
<1>9. ASSUME NEW j \in Simulators, NEW k \in 1..Len(todo'[j])
      PROVE  /\ Vouched(Newest, todo'[j][k])
             /\ ~Repeatable(todo'[j][k]) =>
                  /\ todo'[j][k] \notin scheduled'
                  /\ \A m \in Simulators : \A l \in 1..Len(todo'[m]) :
                       todo'[m][l] = todo'[j][k] => m = j /\ l = k
  <2>1. /\ Was(j, k) \in 1..Len(todo[j]) /\ todo'[j][k] = todo[j][Was(j, k)]
        /\ j = i => Was(j, k) # 1
    BY <1>8
  <2>2. ASSUME ~Repeatable(todo'[j][k])
        PROVE  todo'[j][k] \notin scheduled'
    <3>1. todo[j][Was(j, k)] \notin scheduled
      BY <2>1, <2>2 DEF HooksInv
    <3>2. todo[j][Was(j, k)] # hook
      BY <1>5, <2>1, <2>2
    <3> QED
      BY <1>4, <2>1, <3>1, <3>2
  <2>3. ASSUME ~Repeatable(todo'[j][k]), NEW m \in Simulators, NEW l \in 1..Len(todo'[m]),
               todo'[m][l] = todo'[j][k]
        PROVE  m = j /\ l = k
    <3>1. PICK v \in 1..Len(todo[m]) : v = Was(m, l) /\ todo'[m][l] = todo[m][v]
      BY <1>8
    <3>2. PICK w \in 1..Len(todo[j]) : w = Was(j, k) /\ todo'[j][k] = todo[j][w]
      BY <2>1
    <3>3. ~Repeatable(todo[j][w]) /\ todo[m][v] = todo[j][w]
      BY <2>3, <3>1, <3>2
    <3>4. m = j /\ v = w
      BY <3>3 DEF HooksInv
    <3>5. k \in Int /\ l \in Int
      OBVIOUS
    <3> QED
      BY <3>1, <3>2, <3>4, <3>5
  <2>4. Vouched(Newest, todo'[j][k])
    BY <2>1 DEF HooksInv
  <2> QED
    BY <2>2, <2>3, <2>4
<1>10. \A h \in scheduled' : Vouched(Newest, h)
  BY <1>4, <1>5 DEF HooksInv
<1> QED
  BY <1>6, <1>9, <1>10 DEF HooksInv

(* The webhooks, at every step.                                             *)
LEMMA NextWebhookInv == TypeInv /\ HistoryInv /\ WebhookInv /\ [Next]_vars => WebhookInv'
<1> SUFFICES ASSUME TypeInv, HistoryInv, WebhookInv, [Next]_vars, Chain' PROVE HooksInv'
  BY DEF WebhookInv
<1>1. CASE \E i \in Simulators : Operation(i)
  BY <1>1, SaveKeepsHooks
<1>2. CASE ~\E i \in Simulators : Operation(i)
  <2>1. snapshots' = snapshots /\ Newest' = Newest
    BY <1>2, SnapshotSteps DEF Newest
  <2>2. HooksInv
    BY <2>1 DEF WebhookInv, Chain
  <2>3. ASSUME NEW i \in Simulators, GiveUp(i)
        PROVE  HooksInv'
    <3>1. /\ todo \in [Simulators -> Seq(Hooks)] /\ Len(<<>>) = 0
          /\ todo' = [todo EXCEPT ![i] = <<>>] /\ UNCHANGED <<scheduled, repeated>>
      BY <2>3, EmptySeq DEF GiveUp, TypeInv, TypeOK
    <3>2. \A j \in Simulators : todo'[j] = IF j = i THEN <<>> ELSE todo[j]
      BY <3>1
    <3>3. \A j \in Simulators : \A k \in 1..Len(todo'[j]) : j # i /\ todo'[j] = todo[j]
      BY <3>1, <3>2
    <3> QED
      BY <2>1, <2>2, <3>1, <3>3 DEF HooksInv
  <2>4. CASE UNCHANGED <<todo, scheduled, repeated>>
    BY <2>1, <2>2, <2>4 DEF HooksInv
  <2>5. \/ UNCHANGED <<todo, scheduled, repeated>>
        \/ \E i \in Simulators : Schedule(i) \/ GiveUp(i)
    BY <1>2 DEF Next, vars, Load, Refuse, Restore
  <2> QED
    BY <2>2, <2>3, <2>4, <2>5, ScheduleKeepsHooks
<1> QED
  BY <1>1, <1>2

-----------------------------------------------------------------------------
(* What follows.                                                            *)

(* The invariant holds in every reachable state.                            *)
LEMMA Invariant == Spec => [](TypeInv /\ HistoryInv /\ WebhookInv)
BY InitInv, NextTypeInv, NextHistoryInv, NextWebhookInv, PTL DEF Spec

(* The state stays well typed.                                              *)
THEOREM TypeCorrect == Spec => []TypeOK
<1>1. TypeInv => TypeOK
  BY DEF TypeInv
<1> QED
  BY <1>1, Invariant, PTL

(* However many simulators race on a session and whatever is restored, the  *)
(* refunds of every intent in every snapshot add up to its amount_refunded, *)
(* and that is no more than its amount.                                     *)
THEOREM RefundsAlwaysAddUp == Spec => []RefundsAddUp
<1>1. HistoryInv => RefundsAddUp
  BY DEF HistoryInv, StateRight, RefundsAddUp, Saved
<1> QED
  BY <1>1, Invariant, PTL

(* Every snapshot refers only to what is in it, and the status of an intent *)
(* and its payment method go together.                                      *)
THEOREM IntentsAlwaysConsistent == Spec => []IntentsConsistent
<1>1. HistoryInv => IntentsConsistent
  BY DEF HistoryInv, StateRight, IntentsConsistent, Saved
<1> QED
  BY <1>1, Invariant, PTL

(* No operation changes what is final in the snapshot it loaded.            *)
THEOREM TerminalStaysFinal == Spec => []TerminalIsFinal
<1>1. HistoryInv => TerminalIsFinal
  BY DEF HistoryInv, TerminalIsFinal
<1> QED
  BY <1>1, Invariant, PTL

(* Where no two simulators raced, no webhook is scheduled twice.            *)
THEOREM WebhookScheduledOnce == Spec => []WebhookOnce
<1>1. WebhookInv => WebhookOnce
  BY DEF WebhookInv, WebhookOnce, Linear, Chain, HooksInv
<1> QED
  BY <1>1, Invariant, PTL

(* And each one scheduled tells what is so in the newest snapshot.          *)
THEOREM WebhookTellsTruth == Spec => []WebhookTruthful
<1>1. TypeInv /\ HistoryInv /\ WebhookInv => WebhookTruthful
  <2> SUFFICES ASSUME TypeInv, HistoryInv, HooksInv, current = Len(snapshots),
                      NEW hook \in scheduled
               PROVE  LET st == snapshots[current].state IN
                      CASE hook.type \in {"customer.created", "customer.updated"} ->
                             hook.id <= st.customers
                        [] hook.type = "payment_method.attached" -> st.methods[hook.id] # NoId
                        [] hook.type = "refund.created" -> hook.id <= Len(st.refunds)
                        [] hook.type = "payment_intent.succeeded" ->
                             st.intents[hook.id].status = "succeeded"
                        [] hook.type = "payment_intent.canceled" ->
                             st.intents[hook.id].status = "canceled"
                        [] OTHER -> hook.id <= Len(st.intents)
    BY DEF WebhookTruthful, Linear, WebhookInv, Chain
  <2> DEFINE st == snapshots[current].state
  <2>1. Vouched(st, hook) /\ hook \in Hooks
    BY DEF HooksInv, Newest, TypeInv, TypeOK
  <2>2. hook.type \in HookTypes /\ hook.id \in Nat
    BY <2>1 DEF Hooks
  <2> HIDE DEF st
  <2>3. CASE hook.type \in {"customer.created", "customer.updated"}
    BY <2>1, <2>3 DEF Vouched, st
  <2>4. CASE hook.type = "payment_method.attached"
    BY <2>1, <2>4 DEF Vouched, st
  <2>5. CASE hook.type = "refund.created"
    BY <2>1, <2>5 DEF Vouched, st
  <2>6. CASE hook.type = "payment_intent.succeeded"
    BY <2>1, <2>6 DEF Vouched, Since, st
  <2>7. CASE hook.type = "payment_intent.canceled"
    BY <2>1, <2>7 DEF Vouched, Since, st
  <2>8. CASE hook.type \in {"payment_intent.created",
                            "payment_intent.amount_capturable_updated"}
    BY <2>1, <2>8 DEF Vouched, st
  <2> QED
    BY <2>2, <2>3, <2>4, <2>5, <2>6, <2>7, <2>8 DEF HookTypes, st
<1> QED
  BY <1>1, Invariant, PTL
=============================================================================
