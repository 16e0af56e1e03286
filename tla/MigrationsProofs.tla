--------------------------- MODULE MigrationsProofs ---------------------------
(***************************************************************************)
(* Proofs about Migrations, for every number of processes, every mix of    *)
(* builds and every migration: the database never has a part of a          *)
(* migration or a gap, and whoever has opened it finds what its build      *)
(* uses.  The three invariants are inductive together: that a process has  *)
(* done only what is listed (TypeOK) is what makes its turn the next one.  *)
(***************************************************************************)
EXTENDS Migrations, TLAPS

IInv == TypeOK /\ SchemaAsListed /\ ReadyIsCurrent

LEMMA InitIInv == Init => IInv
<1> SUFFICES ASSUME Init PROVE IInv
  OBVIOUS
<1>1. MaxFaults \in Nat /\ faults \in 0 .. MaxFaults
  BY MigrationAssumption DEF Init
<1>2. pc \in [Processes -> Points] /\ done \in [Processes -> SUBSET versions]
  BY DEF Init, Points
<1>3. \A p \in Processes : pc[p] # "ready"
  BY DEF Init
<1> QED BY <1>1, <1>2, <1>3 DEF Init, IInv, TypeOK, SchemaAsListed, ReadyIsCurrent

(* Everything before the migration whose turn it is is in the schema.       *)
LEMMA TurnIsNext ==
  ASSUME IInv, NEW p \in Processes, NEW m \in 1 .. Knows[p], Turn(p, m)
  PROVE  m \in 1 .. Count /\ 1 .. (m - 1) \subseteq schema
<1>1. Knows[p] \in 0 .. Count
  BY MigrationAssumption
<1>2. Count \in Nat /\ m \in 1 .. Count
  BY <1>1, MigrationAssumption
<1>3. ASSUME NEW k \in 1 .. (m - 1) PROVE k \in schema
  <2>1. k \in 1 .. Knows[p] /\ ~(m <= k)
    BY <1>1, <1>2, <1>3
  <2>2. k \in done[p]
    BY <2>1 DEF Turn, Missing
  <2> QED BY <2>2 DEF IInv, TypeOK, SchemaAsListed
<1> QED BY <1>2, <1>3

LEMMA NextIInv == IInv /\ [Next]_vars => IInv'
<1> SUFFICES ASSUME IInv, [Next]_vars PROVE IInv'
  OBVIOUS
<1>0. MaxFaults \in Nat
  BY MigrationAssumption
<1>1. CASE UNCHANGED vars
  BY <1>1 DEF vars, database, IInv, TypeOK, SchemaAsListed, ReadyIsCurrent
<1>2. ASSUME NEW p \in Processes, EnsureTable(p) PROVE IInv'
  BY <1>2 DEF EnsureTable, Goto, IInv, TypeOK, SchemaAsListed, ReadyIsCurrent, Points
<1>3. ASSUME NEW p \in Processes, LoadApplied(p) PROVE IInv'
  BY <1>3 DEF LoadApplied, Goto, database, IInv, TypeOK, SchemaAsListed, ReadyIsCurrent, Points
<1>4. ASSUME NEW p \in Processes, NEW m \in 1 .. Knows[p], Apply(p, m) PROVE IInv'
  <2>1. m \in 1 .. Count /\ 1 .. (m - 1) \subseteq schema
    BY <1>4, TurnIsNext DEF Apply
  <2>2. /\ schema' = schema \cup {m} /\ versions' = versions \cup {m}
        /\ done' = [done EXCEPT ![p] = @ \cup {m}]
        /\ UNCHANGED <<table, pc, faults>>
    BY <1>4 DEF Apply
  <2>3. TypeOK'
    <3>1. ASSUME NEW q \in Processes PROVE done'[q] \subseteq versions'
      BY <2>2 DEF IInv, TypeOK
    <3>2. DOMAIN done' = Processes
      BY <2>2 DEF IInv, TypeOK
    <3>3. done' \in [Processes -> SUBSET versions']
      BY <2>2, <3>1, <3>2 DEF IInv, TypeOK
    <3> QED BY <2>1, <2>2, <3>3 DEF IInv, TypeOK
  <2>4. SchemaAsListed'
    <3>1. 1 .. m \subseteq schema'
      BY <2>1, <2>2, MigrationAssumption
    <3> QED BY <2>2, <3>1 DEF IInv, SchemaAsListed
  <2>5. ReadyIsCurrent'
    BY <2>2 DEF IInv, ReadyIsCurrent
  <2> QED BY <2>3, <2>4, <2>5 DEF IInv
<1>5. ASSUME NEW p \in Processes, NEW m \in 1 .. Knows[p], Refused(p, m) PROVE IInv'
  BY <1>5 DEF Refused, Goto, database, IInv, TypeOK, SchemaAsListed, ReadyIsCurrent, Points
<1>6. ASSUME NEW p \in Processes, Opened(p) PROVE IInv'
  <2>1. 1 .. Knows[p] \subseteq schema
    BY <1>6 DEF Opened, Missing, IInv, TypeOK, SchemaAsListed
  <2> QED
    BY <1>6, <2>1 DEF Opened, Goto, database, IInv, TypeOK, SchemaAsListed, ReadyIsCurrent, Points
<1>7. ASSUME NEW p \in Processes, Fault(p) PROVE IInv'
  BY <1>0, <1>7 DEF Fault, Goto, database, IInv, TypeOK, SchemaAsListed, ReadyIsCurrent, Points
<1>8. ASSUME NEW p \in Processes, Again(p) PROVE IInv'
  BY <1>8 DEF Again, Goto, database, IInv, TypeOK, SchemaAsListed, ReadyIsCurrent, Points
<1> QED
  BY <1>1, <1>2, <1>3, <1>4, <1>5, <1>6, <1>7, <1>8 DEF Next, Step

THEOREM SpecIInv == Spec => []IInv
  BY InitIInv, NextIInv, PTL DEF Spec

(* The types hold whatever the processes do.                                *)
THEOREM SpecTypeOK == Spec => []TypeOK
  BY SpecIInv, PTL DEF IInv

(* No interleaving of openers, builds, faults and reruns leaves a migration *)
(* half applied, listed but missing, or applied before an earlier one.      *)
THEOREM SpecSchemaAsListed == Spec => []SchemaAsListed
  BY SpecIInv, PTL DEF IInv

(* A database that was opened stays usable for the build that opened it.    *)
THEOREM SpecReadyIsCurrent == Spec => []ReadyIsCurrent
  BY SpecIInv, PTL DEF IInv
===============================================================================
