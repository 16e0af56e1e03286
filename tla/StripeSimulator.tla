---------------------------- MODULE StripeSimulator ----------------------------
(***************************************************************************)
(* The Stripe simulator, internal/services/stripe/simulator.go.  Its whole *)
(* state is one JSON value in the session's current snapshot.  An          *)
(* operation loads it, checks, changes it, saves it as a new snapshot and  *)
(* then schedules webhooks in the event queue, one call for each.  A       *)
(* simulator's mutex is held through all of this, so each does one         *)
(* operation at a time; two simulators on one session (two processes, or   *)
(* two in one) interleave, and nothing compares the snapshot saved over    *)
(* with the one loaded.                                                    *)
(*                                                                         *)
(* Objects have the ids 1, 2, ... as in cus_000001: the counter of a kind  *)
(* is the number of its objects, none of which is ever removed.  What      *)
(* no rule looks at (currency, metadata, names, cards) is left out.        *)
(***************************************************************************)
EXTENDS Integers, Sequences

CONSTANTS
  Simulators,    \* simulators that share the session
  Amounts,       \* amounts of payment intents and refunds; others are refused
  Restorable,    \* whether someone restores earlier snapshots of the session
  MaxCustomers, MaxMethods, MaxIntents, MaxRefunds, \* bounds on objects
  MaxSnapshots,  \* bound on the session's history
  Seeds          \* the states the session may start with, left by earlier calls

ASSUME StripeAssumption ==
  /\ Amounts \subseteq Nat \ {0}
  /\ Restorable \in BOOLEAN
  /\ {MaxCustomers, MaxMethods, MaxIntents, MaxRefunds, MaxSnapshots} \subseteq Nat

VARIABLES
  snapshots,  \* the session's snapshots, oldest first
  current,    \* the one it points at
  pc,         \* where each simulator's operation stands
  loaded,     \* the snapshot it loaded, while it needs it
  todo,       \* the webhooks it has still to schedule
  scheduled,  \* the webhooks in the event queue
  repeated    \* history: webhooks scheduled more than once

vars == <<snapshots, current, pc, loaded, todo, scheduled, repeated>>

NoId == 0      \* an empty id: no customer, no payment method
Unset == -1    \* a parameter the request leaves out

Statuses == {"requires_payment_method", "requires_confirmation", "requires_action",
             "requires_capture", "succeeded", "canceled"}

Intent == [amount : Amounts, customer : 0..MaxCustomers, method : 0..MaxMethods,
           status : Statuses, refunded : Nat]
Refund == [intent : 1..MaxIntents, amount : Nat \ {0}]

(* customers counts the customers, methods holds the customer each payment  *)
(* method is attached to.                                                   *)
State == [customers : 0..MaxCustomers, methods : Seq(0..MaxCustomers),
          intents : Seq(Intent), refunds : Seq(Refund)]

(* The refunds of an intent come to sum, added up in the order they were    *)
(* made.                                                                    *)
AddUpTo(refunds, id, sum) ==
  \E total \in [0..Len(refunds) -> 0..sum] :
    /\ total[0] = 0
    /\ total[Len(refunds)] = sum
    /\ \A r \in 1..Len(refunds) :
         total[r] = total[r - 1] + (IF refunds[r].intent = id THEN refunds[r].amount ELSE 0)

(* The refunds of each intent come to its amount_refunded, which is no more *)
(* than its amount, and only succeeded intents have any.                    *)
MoneyRight(st) ==
  \A id \in 1..Len(st.intents) :
    LET intent == st.intents[id] IN
    /\ AddUpTo(st.refunds, id, intent.refunded)
    /\ intent.refunded <= intent.amount
    /\ intent.refunded > 0 => intent.status = "succeeded"

(* What a state refers to is in it, and an intent has a payment method      *)
(* exactly when its status needs one.                                       *)
Closed(st) ==
  /\ \A m \in 1..Len(st.methods) : st.methods[m] <= st.customers
  /\ \A r \in 1..Len(st.refunds) : st.refunds[r].intent <= Len(st.intents)
  /\ \A id \in 1..Len(st.intents) :
       LET intent == st.intents[id] IN
       /\ intent.customer <= st.customers
       /\ intent.method <= Len(st.methods)
       /\ intent.method = NoId <=> intent.status = "requires_payment_method"

(* The seeds are what such calls leave (StripeSimulatorProofs: every call   *)
(* keeps this, and the empty state has it).                                 *)
ASSUME SeedAssumption ==
  \A seed \in Seeds : seed \in State /\ MoneyRight(seed) /\ Closed(seed)

EmptyState == [customers |-> 0, methods |-> <<>>, intents |-> <<>>, refunds |-> <<>>]

HookTypes == {"customer.created", "customer.updated", "payment_method.attached",
              "payment_intent.created", "payment_intent.amount_capturable_updated",
              "payment_intent.succeeded", "payment_intent.canceled", "refund.created"}
Hook(type, id) == [type |-> type, id |-> id]
Hooks == [type : HookTypes, id : Nat]

Init ==
  /\ snapshots \in {<<[state |-> seed, base |-> 1]>> : seed \in Seeds}
  /\ current   = 1
  /\ pc        = [i \in Simulators |-> "idle"]
  /\ loaded    = [i \in Simulators |-> 0]
  /\ todo      = [i \in Simulators |-> <<>>]
  /\ scheduled = {}
  /\ repeated  = {}

-----------------------------------------------------------------------------
(* What every operation is made of.                                         *)

(* loadState: the session's current snapshot, after the error injection of  *)
(* the operation let it through.                                            *)
Load(i) ==
  /\ pc[i] = "idle"
  /\ Len(snapshots) < MaxSnapshots
  /\ pc'     = [pc EXCEPT ![i] = "loaded"]
  /\ loaded' = [loaded EXCEPT ![i] = current]
  /\ UNCHANGED <<snapshots, current, todo, scheduled, repeated>>

Loaded(i) == snapshots[loaded[i]].state

(* A check fails, or the snapshot cannot be stored: the caller gets an      *)
(* error and nothing has changed.                                           *)
Refuse(i) ==
  /\ pc[i] = "loaded"
  /\ pc'     = [pc EXCEPT ![i] = "idle"]
  /\ loaded' = [loaded EXCEPT ![i] = 0]
  /\ UNCHANGED <<snapshots, current, todo, scheduled, repeated>>

(* Mutation: the snapshot is not stored, and the operation goes on.         *)
SaveDropped(i, next, hooks) ==
  /\ pc'   = [pc EXCEPT ![i] = IF hooks = <<>> THEN "idle" ELSE "notify"]
  /\ todo' = [todo EXCEPT ![i] = hooks]
  /\ loaded' = [loaded EXCEPT ![i] = 0]
  /\ UNCHANGED <<snapshots, current, scheduled, repeated>>

(* saveState appends a snapshot and makes it current, whatever is current.  *)
Save(i, next, hooks) ==
  /\ Len(snapshots) < MaxSnapshots
  /\ snapshots' = Append(snapshots, [state |-> next, base |-> loaded[i]])
  /\ current'   = Len(snapshots) + 1
  /\ pc'        = [pc EXCEPT ![i] = IF hooks = <<>> THEN "idle" ELSE "notify"]
  /\ todo'      = [todo EXCEPT ![i] = hooks]
  /\ loaded'    = [loaded EXCEPT ![i] = 0]
  /\ UNCHANGED <<scheduled, repeated>>

(* scheduleWebhook: the next webhook goes to the event queue.               *)
Schedule(i) ==
  LET hook == Head(todo[i]) IN
  /\ pc[i] = "notify"
  /\ scheduled' = scheduled \cup {hook}
  /\ repeated'  = IF hook \in scheduled /\ hook.type # "customer.updated"
                    THEN repeated \cup {hook}
                    ELSE repeated
  /\ todo' = [todo EXCEPT ![i] = Tail(@)]
  /\ pc'   = [pc EXCEPT ![i] = IF Len(todo[i]) = 1 THEN "idle" ELSE "notify"]
  /\ UNCHANGED <<snapshots, current, loaded>>

(* It fails, or the process dies: the state is saved, the caller has an     *)
(* error or no answer, and nobody schedules the rest.                       *)
GiveUp(i) ==
  /\ pc[i] = "notify"
  /\ pc'   = [pc EXCEPT ![i] = "idle"]
  /\ todo' = [todo EXCEPT ![i] = <<>>]
  /\ UNCHANGED <<snapshots, current, loaded, scheduled, repeated>>

(* The session manager restores an earlier snapshot; webhooks stay.         *)
Restore(n) ==
  /\ Restorable
  /\ current' = n
  /\ UNCHANGED <<snapshots, pc, loaded, todo, scheduled, repeated>>

-----------------------------------------------------------------------------
(* Customers and payment methods.                                           *)

CreateCustomer(i) ==
  LET st == Loaded(i)
      id == st.customers + 1 IN
  /\ id <= MaxCustomers
  /\ Save(i, [st EXCEPT !.customers = id], <<Hook("customer.created", id)>>)

UpdateCustomer(i, id) ==
  /\ id <= Loaded(i).customers
  /\ Save(i, Loaded(i), <<Hook("customer.updated", id)>>)

CreatePaymentMethod(i) ==
  LET st == Loaded(i) IN
  /\ Len(st.methods) < MaxMethods
  /\ Save(i, [st EXCEPT !.methods = Append(@, NoId)], <<>>)

UpdatePaymentMethod(i, id) ==
  /\ id <= Len(Loaded(i).methods)
  /\ Save(i, Loaded(i), <<>>)

AttachPaymentMethod(i, id, customer) ==
  LET st == Loaded(i) IN
  /\ id <= Len(st.methods)
  /\ customer <= st.customers
  /\ st.methods[id] \in {NoId, customer}
  /\ Save(i, [st EXCEPT !.methods[id] = customer],
          IF st.methods[id] = customer THEN <<>>
          ELSE <<Hook("payment_method.attached", id)>>)

-----------------------------------------------------------------------------
(* Payment intents.                                                         *)

Owner(st, method) == IF method = NoId THEN NoId ELSE st.methods[method]

(* normalizePaymentIntentReferences: both exist, the customer is not other  *)
(* than the one the payment method is attached to ...                       *)
ReferencesOK(st, customer, method) ==
  /\ customer <= st.customers
  /\ method <= Len(st.methods)
  /\ Owner(st, method) = NoId \/ customer \in {NoId, Owner(st, method)}

(* ... and that one is filled in.                                           *)
CustomerFor(st, customer, method) ==
  IF Owner(st, method) = NoId THEN customer ELSE Owner(st, method)

(* Mutation: an intent without a payment method may be in any status.       *)
ConsistentLoosely(status, method) == status = "requires_payment_method" => method = NoId

(* validatePaymentIntentStatusConsistency                                   *)
Consistent(status, method) == (status = "requires_payment_method") <=> (method = NoId)

(* validatePaymentIntentTransition                                          *)
After(status) ==
  CASE status = "requires_payment_method" -> {"requires_confirmation", "canceled"}
    [] status = "requires_confirmation" ->
         {"requires_action", "requires_capture", "succeeded", "canceled"}
    [] status = "requires_action" -> {"requires_confirmation", "canceled"}
    [] status = "requires_capture" -> {"succeeded", "canceled"}
    [] OTHER -> {}

Terminal(status) == status \in {"succeeded", "canceled"}

(* paymentIntentStatusWebhook                                               *)
StatusHooks(status, id) ==
  CASE status = "requires_capture" ->
         <<Hook("payment_intent.amount_capturable_updated", id)>>
    [] status = "succeeded" -> <<Hook("payment_intent.succeeded", id)>>
    [] status = "canceled" -> <<Hook("payment_intent.canceled", id)>>
    [] OTHER -> <<>>

(* Any status may be asked for at creation; none is the first that fits.    *)
FirstStatus(status, method) ==
  IF status # "unset" THEN status
  ELSE IF method # NoId THEN "requires_confirmation" ELSE "requires_payment_method"

CreatePaymentIntent(i, amount, customer, method, asked) ==
  LET st     == Loaded(i)
      id     == Len(st.intents) + 1
      status == FirstStatus(asked, method) IN
  /\ id <= MaxIntents
  /\ ReferencesOK(st, customer, method)
  /\ Consistent(status, method)
  /\ Save(i, [st EXCEPT !.intents = Append(@,
               [amount |-> amount, customer |-> CustomerFor(st, customer, method),
                method |-> method, status |-> status, refunded |-> 0])],
          <<Hook("payment_intent.created", id)>> \o StatusHooks(status, id))

Or(asked, value) == IF asked = Unset THEN value ELSE asked

(* A payment method moves an intent on that waits for one, unless another   *)
(* status is asked for.                                                     *)
NextStatus(old, method, asked) ==
  IF asked # "unset" THEN asked
  ELSE IF old = "requires_payment_method" /\ method # NoId
         THEN "requires_confirmation"
         ELSE old

(* Mutation: a terminal intent refuses only another status.                 *)
MutatesStatus(old, amount, customer, method, asked) == asked \notin {"unset", old.status}

(* A succeeded or canceled intent refuses a request that asks for anything  *)
(* else than it has (updateMutatesTerminalPaymentIntent).                   *)
Mutates(old, amount, customer, method, asked) ==
  \/ Or(amount, old.amount) # old.amount
  \/ Or(customer, old.customer) # old.customer
  \/ Or(method, old.method) # old.method
  \/ asked \notin {"unset", old.status}

(* Mutation: the webhook of the status is scheduled whether it is new.      *)
HooksAnyway(old, status, id) == StatusHooks(status, id)

HooksForChange(old, status, id) == IF status = old THEN <<>> ELSE StatusHooks(status, id)

UpdatePaymentIntent(i, id, amount, customer, method, asked) ==
  LET st      == Loaded(i)
      old     == st.intents[id]
      payer   == Or(customer, old.customer)
      paidBy  == Or(method, old.method)
      status  == NextStatus(old.status, paidBy, asked) IN
  /\ id <= Len(st.intents)
  /\ Terminal(old.status) => ~Mutates(old, amount, customer, method, asked)
  /\ ReferencesOK(st, payer, paidBy)
  /\ Consistent(status, paidBy)
  /\ asked # "unset" => status \in {old.status} \cup After(old.status)
  /\ Save(i, [st EXCEPT !.intents[id] =
               [amount |-> Or(amount, old.amount), customer |-> CustomerFor(st, payer, paidBy),
                method |-> paidBy, status |-> status, refunded |-> old.refunded]],
          HooksForChange(old.status, status, id))

(* Mutation: each refund is compared with the amount, not with what is left. *)
RefundableTwice(intent) == intent.amount

Refundable(intent) == intent.amount - intent.refunded

(* Mutation: a refund of nothing is let through.                            *)
CreateRefundOfNothing(i, id, asked) ==
  LET st     == Loaded(i)
      intent == st.intents[id]
      amount == IF asked = 0 THEN Refundable(intent) ELSE asked IN
  /\ id <= Len(st.intents)
  /\ Len(st.refunds) < MaxRefunds
  /\ intent.status = "succeeded"
  /\ amount <= Refundable(intent)
  /\ Save(i, [st EXCEPT !.refunds = Append(@, [intent |-> id, amount |-> amount]),
                        !.intents[id].refunded = @ + amount],
          <<Hook("refund.created", Len(st.refunds) + 1)>>)

(* A refund of some amount, or of all that is left (amount 0).              *)
CreateRefund(i, id, asked) ==
  LET st     == Loaded(i)
      intent == st.intents[id]
      amount == IF asked = 0 THEN Refundable(intent) ELSE asked IN
  /\ id <= Len(st.intents)
  /\ Len(st.refunds) < MaxRefunds
  /\ intent.status = "succeeded"
  /\ amount \in 1..Refundable(intent)
  /\ Save(i, [st EXCEPT !.refunds = Append(@, [intent |-> id, amount |-> amount]),
                        !.intents[id].refunded = @ + amount],
          <<Hook("refund.created", Len(st.refunds) + 1)>>)

-----------------------------------------------------------------------------
Customers == 1..MaxCustomers
Methods == 1..MaxMethods
Intents == 1..MaxIntents

Operation(i) ==
  /\ pc[i] = "loaded"
  /\ \/ CreateCustomer(i)
     \/ CreatePaymentMethod(i)
     \/ \E id \in Customers : UpdateCustomer(i, id)
     \/ \E id \in Methods : UpdatePaymentMethod(i, id)
     \/ \E id \in Methods, customer \in Customers : AttachPaymentMethod(i, id, customer)
     \/ \E amount \in Amounts, customer \in Customers \cup {NoId},
           method \in Methods \cup {NoId}, asked \in Statuses \cup {"unset"} :
          CreatePaymentIntent(i, amount, customer, method, asked)
     \/ \E id \in Intents, amount \in Amounts \cup {Unset},
           customer \in Customers \cup {NoId, Unset}, method \in Methods \cup {NoId, Unset},
           asked \in Statuses \cup {"unset"} :
          UpdatePaymentIntent(i, id, amount, customer, method, asked)
     \/ \E id \in Intents, amount \in Amounts \cup {0} : CreateRefund(i, id, amount)

Next ==
  \/ \E i \in Simulators :
       \/ Load(i)
       \/ Refuse(i)
       \/ Operation(i)
       \/ Schedule(i)
       \/ GiveUp(i)
  \/ \E n \in 1..Len(snapshots) : Restore(n)

Spec == Init /\ [][Next]_vars

-----------------------------------------------------------------------------
(* Properties.                                                              *)

TypeOK ==
  /\ snapshots \in Seq([state : State, base : Nat])
  /\ current \in 1..Len(snapshots)
  /\ pc \in [Simulators -> {"idle", "loaded", "notify"}]
  /\ loaded \in [Simulators -> Nat]
  /\ \A i \in Simulators : IF pc[i] = "loaded" THEN loaded[i] \in 1..Len(snapshots)
                                                ELSE loaded[i] = 0
  /\ todo \in [Simulators -> Seq(Hooks)]
  /\ scheduled \subseteq Hooks
  /\ repeated \subseteq Hooks

Saved == {snapshots[n].state : n \in 1..Len(snapshots)}

(* Money: in every snapshot, whatever simulators race and whatever is       *)
(* restored, the refunds of a payment intent add up to its amount_refunded, *)
(* which is no more than its amount, and only succeeded intents have any.   *)
RefundsAddUp == \A st \in Saved : MoneyRight(st)

(* What a snapshot refers to is in it, and an intent has a payment method   *)
(* exactly when its status needs one, also where an update sets several of  *)
(* these at once or none.                                                   *)
IntentsConsistent == \A st \in Saved : Closed(st)

(* Every intent is still there, and a terminal one has its amount, payment  *)
(* method and status, and the refunds it had.                               *)
TerminalKept(before, after) ==
  /\ Len(before) <= Len(after)
  /\ \A id \in 1..Len(before) :
       Terminal(before[id].status) =>
         /\ after[id].amount = before[id].amount
         /\ after[id].method = before[id].method
         /\ after[id].status = before[id].status
         /\ after[id].refunded >= before[id].refunded

(* Terminal is final: no operation changes the amount, payment method or    *)
(* status of a succeeded or canceled intent it loaded, or takes refunds     *)
(* back, or drops the intent.  (Its customer is another matter:             *)
(* IntentCustomerOwnsMethod.)                                               *)
TerminalIsFinal ==
  \A n \in 2..Len(snapshots) :
    TerminalKept(snapshots[snapshots[n].base].state.intents, snapshots[n].state.intents)

(* Each snapshot was saved over the one its operation loaded, and none was  *)
(* restored: no two simulators have raced.                                  *)
Linear ==
  /\ current = Len(snapshots)
  /\ \A n \in 2..Len(snapshots) : snapshots[n].base = n - 1

(* Without races no webhook is scheduled twice, though an operation may     *)
(* give up between its webhooks and be asked again for what it has done:    *)
(* ids are not used again and no status is entered twice.                   *)
WebhookOnce == Linear => repeated = {}

(* Without races a webhook tells what is so: the object it names is in the  *)
(* current state, and an intent it calls succeeded or canceled is.  It is   *)
(* never scheduled ahead of the save.                                       *)
WebhookTruthful ==
  Linear =>
    \A hook \in scheduled :
      LET st == snapshots[current].state IN
      CASE hook.type \in {"customer.created", "customer.updated"} -> hook.id <= st.customers
        [] hook.type = "payment_method.attached" -> st.methods[hook.id] # NoId
        [] hook.type = "refund.created" -> hook.id <= Len(st.refunds)
        [] hook.type = "payment_intent.succeeded" -> st.intents[hook.id].status = "succeeded"
        [] hook.type = "payment_intent.canceled" -> st.intents[hook.id].status = "canceled"
        [] OTHER -> hook.id <= Len(st.intents)

(* "payment methods attached to one customer cannot be used with a          *)
(* different customer" (docs/stripe-simulator-subset.md).                   *)
IntentCustomerOwnsMethod ==
  \A st \in Saved : \A id \in 1..Len(st.intents) :
    LET intent == st.intents[id] IN
    intent.customer # NoId => Owner(st, intent.method) \in {NoId, intent.customer}
=============================================================================
