---- MODULE MCSdkRuntime ----
(* The Python SDK on small sets, for TLC.  "outer" runs in replay too and   *)
(* calls "inner"; the requests "exact" and "other" differ a little.         *)
EXTENDS SdkRuntime, TLC

Keyed == "exact" :> <<"both", "one">> @@ "other" :> <<"another">>

Near2 == "exact" :> [k \in Keys |-> 2] @@ "other" :> [k \in Keys |-> IF k = "one" THEN 1 ELSE 2]

Labels == [c \in Calls |-> IF c \in Tools THEN c ELSE "http"]

SecondOuter == {[op |-> "outer", nth |-> 2, sure |-> TRUE],
                [op |-> "http", nth |-> 2, sure |-> FALSE]}

Recorded == <<[key |-> "inner", parent |-> 1, kind |-> "plain"],
              [key |-> "inner", parent |-> 0, kind |-> "error"],
              [key |-> "both", parent |-> 0, kind |-> "plain"],
              [key |-> "another", parent |-> 0, kind |-> "cut"]>>

Symmetry == Permutations(Threads)
====
