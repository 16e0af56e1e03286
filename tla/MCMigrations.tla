---- MODULE MCMigrations ----
(* The six migrations of the repository, and an older build of four, for    *)
(* TLC.                                                                     *)
EXTENDS Migrations, TLC

CONSTANTS p1, p2, p3

MCKnows == p1 :> 6 @@ p2 :> 6 @@ p3 :> 4
MCNeeds == <<{}, {1}, {}, {}, {1}, {1}>>
====
