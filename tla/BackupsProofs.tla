---------------------------- MODULE BackupsProofs ----------------------------
(***************************************************************************)
(* Proofs about Backups, for any number of job threads, any max_backups    *)
(* and any number of BACKUP commands.                                      *)
(***************************************************************************)
EXTENDS Backups, FiniteSetTheorems, TLAPS

Children == running + exited + Cardinality(Starting)

\* The strengthening of ChildrenBounded: until active_backups has reached
\* max_backups it counts every child; from then on a thread only goes on after
\* it has reaped one, or when there was none.
CountInv ==
    /\ active_backups <= max_backups
    /\ \A j \in Jobs : pc[j] = "wait" => active_backups = max_backups
    /\ active_backups < max_backups => Children <= active_backups
Inv == TypeOK /\ CountInv /\ ChildrenBounded

\* The larger of two naturals.
LEMMA LargerFacts ==
    ASSUME NEW m \in Nat, NEW n \in Nat
    PROVE  Larger(m, n) \in Nat /\ m <= Larger(m, n) /\ n <= Larger(m, n)
BY DEF Larger

\* The number of job threads that are starting a backup is one of them.
LEMMA StartingFinite ==
    /\ IsFiniteSet(Starting) /\ Cardinality(Starting) \in Nat
    /\ Cardinality(Jobs) \in Nat /\ Cardinality(Starting) <= Cardinality(Jobs)
<1>1. Starting \in SUBSET Jobs
  BY DEF Starting
<1> QED BY <1>1, JobsAssumption, FS_Subset, FS_CardinalityType

\* Every thread starts idle, with no child.
LEMMA InitInv == Init => Inv
<1> SUFFICES ASSUME Init PROVE Inv
  OBVIOUS
<1>1. TypeOK
  BY DEF Init, TypeOK, Locs
<1>2. Starting = {}
  BY DEF Init, Starting
<1>3. Children = 0
  BY <1>2, FS_EmptySet DEF Init, Children
<1>4. CountInv
  BY <1>3, MaxBackupsAssumption DEF Init, CountInv
<1>5. ChildrenBounded
  BY <1>3, MaxBackupsAssumption, StartingFinite, LargerFacts DEF ChildrenBounded, Children
<1> QED BY <1>1, <1>4, <1>5 DEF Inv

\* Types are kept by every step.
LEMMA NextType == TypeOK /\ [Next]_vars => TypeOK'
<1> SUFFICES ASSUME TypeOK, [Next]_vars PROVE TypeOK'
  OBVIOUS
<1> USE DEF TypeOK
<1>1. CASE Exit
  BY <1>1 DEF Exit
<1>2. ASSUME NEW j \in Jobs, Backup(j) PROVE TypeOK'
  BY <1>2 DEF Backup, Goto, Locs
<1>3. ASSUME NEW j \in Jobs, Lock(j) PROVE TypeOK'
  BY <1>3 DEF Lock, Goto, Locs
<1>4. ASSUME NEW j \in Jobs, Count(j) PROVE TypeOK'
  BY <1>4 DEF Count, Goto, Locs
<1>5. ASSUME NEW j \in Jobs, Wait(j) PROVE TypeOK'
  BY <1>5 DEF Wait, Goto, Locs
<1>6. ASSUME NEW j \in Jobs, Unlock(j) PROVE TypeOK'
  BY <1>6 DEF Unlock, Goto, Locs
<1>7. ASSUME NEW j \in Jobs, Fork(j) PROVE TypeOK'
  BY <1>7 DEF Fork, Goto, Locs
<1>8. CASE UNCHANGED vars
  BY <1>8 DEF vars
<1> QED BY <1>1, <1>2, <1>3, <1>4, <1>5, <1>6, <1>7, <1>8 DEF Next, JobStep

\* The count holds whatever thread moves.
LEMMA NextCount == Inv /\ [Next]_vars => (CountInv /\ ChildrenBounded)'
<1> SUFFICES ASSUME Inv, [Next]_vars PROVE (CountInv /\ ChildrenBounded)'
  OBVIOUS
<1>1. /\ active_backups \in Nat /\ running \in Nat /\ exited \in Nat
      /\ pc \in [Jobs -> Locs]
  BY DEF Inv, TypeOK
<1>2. /\ IsFiniteSet(Starting) /\ Cardinality(Starting) \in Nat
      /\ Cardinality(Jobs) \in Nat
  BY StartingFinite
<1>3. /\ Larger(max_backups, Cardinality(Jobs)) \in Nat
      /\ max_backups <= Larger(max_backups, Cardinality(Jobs))
      /\ Cardinality(Jobs) <= Larger(max_backups, Cardinality(Jobs))
  BY <1>2, MaxBackupsAssumption, LargerFacts
<1>4. max_backups \in Nat
  BY MaxBackupsAssumption
<1> USE <1>1, <1>2, <1>3, <1>4
<1>5. CASE Exit \/ UNCHANGED vars
  <2>1. Starting' = Starting
    BY <1>5 DEF Exit, vars, Starting
  <2>2. Children' = Children
    BY <1>5, <2>1 DEF Exit, vars, Children
  <2>3. UNCHANGED <<active_backups, pc>>
    BY <1>5 DEF Exit, vars
  <2> QED BY <2>2, <2>3 DEF Inv, CountInv, ChildrenBounded, Children
<1>6. ASSUME NEW j \in Jobs, Backup(j) \/ Lock(j) PROVE (CountInv /\ ChildrenBounded)'
  <2>1. Starting' = Starting
    BY <1>6 DEF Backup, Lock, Goto, Starting
  <2>2. Children' = Children /\ active_backups' = active_backups
    BY <1>6, <2>1 DEF Backup, Lock, Children
  <2>3. \A i \in Jobs : pc'[i] = "wait" => pc[i] = "wait"
    BY <1>6 DEF Backup, Lock, Goto
  <2> QED BY <2>2, <2>3 DEF Inv, CountInv, ChildrenBounded, Children
<1>7. ASSUME NEW j \in Jobs, Count(j) PROVE (CountInv /\ ChildrenBounded)'
  <2>1. CASE active_backups >= max_backups
    <3>1. Starting' = Starting
      BY <1>7, <2>1 DEF Count, Goto, Starting
    <3>2. Children' = Children /\ active_backups' = active_backups
      BY <1>7, <2>1, <3>1 DEF Count, Children
    <3> QED BY <2>1, <3>2 DEF Inv, CountInv, ChildrenBounded, Children
  <2>2. CASE ~(active_backups >= max_backups)
    <3>1. Starting' = Starting \cup {j} /\ j \notin Starting
      BY <1>7, <2>2 DEF Count, Goto, Starting
    <3>2. Cardinality(Starting') = Cardinality(Starting) + 1
      BY <3>1, FS_AddElement
    <3>3. Children' = Children + 1 /\ active_backups' = active_backups + 1
      BY <1>7, <2>2, <3>2 DEF Count, Children
    <3>4. Children <= active_backups /\ Children \in Nat
      BY <2>2 DEF Inv, CountInv, Children
    <3>5. \A i \in Jobs : pc'[i] # "wait"
      <4>1. \A i \in Jobs : pc[i] # "wait"
        BY <2>2 DEF Inv, CountInv
      <4> QED BY <1>7, <2>2, <4>1 DEF Count, Goto
    <3>6. active_backups' <= max_backups
      BY <2>2, <3>3
    <3>7. Children' <= Larger(max_backups, Cardinality(Jobs))
      BY <3>3, <3>4, <3>6
    <3> QED BY <3>3, <3>4, <3>5, <3>6, <3>7 DEF CountInv, ChildrenBounded, Children
  <2> QED BY <2>1, <2>2
<1>8. ASSUME NEW j \in Jobs, Wait(j) PROVE (CountInv /\ ChildrenBounded)'
  <2>1. active_backups = max_backups /\ active_backups' = active_backups
    BY <1>8 DEF Wait, Inv, CountInv
  <2>2. Starting' = Starting \cup {j} /\ j \notin Starting
    BY <1>8 DEF Wait, Goto, Starting
  <2>3. Cardinality(Starting') = Cardinality(Starting) + 1
    BY <2>2, FS_AddElement
  <2>4. Cardinality(Starting') <= Cardinality(Jobs)
    <3>1. Starting' \in SUBSET Jobs
      BY DEF Starting
    <3> QED BY <3>1, JobsAssumption, FS_Subset
  <2>5. Children' <= Larger(max_backups, Cardinality(Jobs))
    <3>1. CASE exited > 0 /\ exited' = exited - 1
      BY <1>8, <2>3, <3>1 DEF Wait, Children, Inv, ChildrenBounded
    <3>2. CASE exited = 0 /\ running = 0 /\ UNCHANGED exited
      BY <1>8, <2>3, <2>4, <3>2 DEF Wait, Children
    <3> QED BY <1>8, <3>1, <3>2 DEF Wait
  <2> QED BY <2>1, <2>5 DEF CountInv, ChildrenBounded, Children
<1>9. ASSUME NEW j \in Jobs, Unlock(j) PROVE (CountInv /\ ChildrenBounded)'
  <2>1. Starting' = Starting
    BY <1>9 DEF Unlock, Goto, Starting
  <2>2. Children' = Children /\ active_backups' = active_backups
    BY <1>9, <2>1 DEF Unlock, Children
  <2>3. \A i \in Jobs : pc'[i] = "wait" => pc[i] = "wait"
    BY <1>9 DEF Unlock, Goto
  <2> QED BY <2>2, <2>3 DEF Inv, CountInv, ChildrenBounded, Children
<1>10. ASSUME NEW j \in Jobs, Fork(j) PROVE (CountInv /\ ChildrenBounded)'
  <2>1. Starting' = Starting \ {j} /\ j \in Starting
    BY <1>10 DEF Fork, Goto, Starting
  <2>2. Cardinality(Starting') = Cardinality(Starting) - 1
    BY <2>1, FS_RemoveElement
  <2>3. Children' <= Children /\ active_backups' = active_backups /\ Children' \in Int
    BY <1>10, <2>2 DEF Fork, Children
  <2>4. \A i \in Jobs : pc'[i] = "wait" => pc[i] = "wait"
    BY <1>10 DEF Fork, Goto
  <2>5. CountInv'
    BY <2>3, <2>4 DEF Inv, CountInv, Children
  <2>6. ChildrenBounded'
    BY <2>3 DEF Inv, ChildrenBounded, Children
  <2> QED BY <2>5, <2>6
<1> QED BY <1>5, <1>6, <1>7, <1>8, <1>9, <1>10 DEF Next, JobStep

\* In every reachable state, whatever is assumed of fairness.
LEMMA Safety == Init /\ [][Next]_vars => []Inv
<1>1. Inv /\ [Next]_vars => Inv'
  BY NextType, NextCount DEF Inv
<1> QED BY InitInv, <1>1, PTL

\* The same of the specification.
LEMMA Invariant == Spec => []Inv
BY Safety, PTL DEF Spec

\* Every variable of the backups keeps to its type.
THEOREM BackupsTypeCorrect == Spec => []TypeOK
<1>1. Inv => TypeOK
  BY DEF Inv
<1> QED BY Invariant, <1>1, PTL

\* The true limit on the child processes of kvs_backup: max_backups, or the
\* number of job threads if there are more of those.
THEOREM BackupsBounded == Spec => []ChildrenBounded
<1>1. Inv => ChildrenBounded
  BY DEF Inv
<1> QED BY Invariant, <1>1, PTL

\* With no more job threads than max_backups the limit of the command line is
\* kept: nothing more has to be assumed of the jobs.
THEOREM LimitKept ==
    ASSUME Cardinality(Jobs) <= max_backups
    PROVE  Spec => []BackupLimit
<1>1. Inv => BackupLimit
  <2> SUFFICES ASSUME Inv PROVE BackupLimit
    OBVIOUS
  <2>1. Larger(max_backups, Cardinality(Jobs)) = max_backups
    BY StartingFinite, MaxBackupsAssumption DEF Larger
  <2>2. running \in Nat /\ exited \in Nat
    BY DEF Inv, TypeOK
  <2> QED BY <2>1, <2>2, StartingFinite, MaxBackupsAssumption
          DEF Inv, ChildrenBounded, BackupLimit
<1> QED BY Invariant, <1>1, PTL
=============================================================================
