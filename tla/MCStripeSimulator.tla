---- MODULE MCStripeSimulator ----
(* The Stripe simulator on small sets, for TLC.                             *)
EXTENDS StripeSimulator, TLC

(* Sessions left by earlier calls: two customers and a payment method; a    *)
(* payment intent that waits for one; one paid and partly refunded.         *)
TwoCustomers == [EmptyState EXCEPT !.customers = 2, !.methods = <<NoId>>]
Waiting == [TwoCustomers EXCEPT
  !.intents = <<[amount |-> 1, customer |-> 1, method |-> NoId,
                 status |-> "requires_payment_method", refunded |-> 0]>>]
Paid == [TwoCustomers EXCEPT
  !.methods = <<1>>,
  !.intents = <<[amount |-> 2, customer |-> 1, method |-> 1,
                 status |-> "succeeded", refunded |-> 1]>>,
  !.refunds = <<[intent |-> 1, amount |-> 1]>>]
AllSeeds == {EmptyState, TwoCustomers, Waiting, Paid}
Fresh == {TwoCustomers}

Symmetry == Permutations(Simulators)
====
