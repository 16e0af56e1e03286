---- MODULE MCEventQueue ----
(* The event queue on small sets, for TLC.                                  *)
EXTENDS EventQueue, TLC

Steps == {-2, 1}

Symmetry == Permutations(Clients) \cup Permutations(EventIds)
====
