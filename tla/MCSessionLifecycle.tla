---- MODULE MCSessionLifecycle ----
(* Runtime sessions on small sets, for TLC.                                 *)
EXTENDS SessionLifecycle, TLC

Symmetry == Permutations(Clients) \cup Permutations(SnapshotIds) \cup Permutations(States)
====
