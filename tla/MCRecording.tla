---- MODULE MCRecording ----
(* Recording and replaying on small sets, for TLC.                          *)
EXTENDS Recording, TLC

Symmetry == Permutations(Commands)
====
