----------------------------- MODULE StoreProofs -----------------------------
(***************************************************************************)
(* Proofs about Store, for any keys, values, clients, jobs and commands:   *)
(* its types, the discipline of tablelock, the state of the table while a  *)
(* command is half-way, and that Store implements AtomicStore.             *)
(***************************************************************************)
EXTENDS Store, SequenceTheorems, TLAPS

Reading == {"READ", "SHOW", "BACKUP"}
Walks == {"open", "write", "broken", "next"}

\* Where each job can be in which command: what the order of the statements
\* of run_job, kvs_write, kvs_read and kvs_delete comes to.
ControlOf(j) ==
    /\ pc[j] = "idle" => idx[j] = 1 /\ out[j] = <<>>
    /\ pc[j] # "idle" => cmd[j] \in Commands /\ idx[j] <= Len(cmd[j].keys)
    /\ pc[j] = "put" => Op(j) = "WRITE"
    /\ pc[j] \in {"find", "drop"} => Op(j) = "DELETE"
    /\ pc[j] \in Walks \cup {"wrlock"} => Op(j) \in {"WRITE", "DELETE"}
    /\ pc[j] \in Walks => ptr[j] \in Cells
    /\ pc[j] = "wrlock" /\ Op(j) = "WRITE" => idx[j] = 1
    /\ pc[j] \in {"rdlock", "look"} => Op(j) \in Reading
    /\ pc[j] = "rdlock" => idx[j] = 1
    /\ pc[j] # "idle" /\ Op(j) = "WRITE" => out[j] = <<>>
    /\ writer # j /\ j \notin readers => out[j] = <<>>
ControlInv == \A j \in Jobs : ControlOf(j)

\* What is known of a command.
LEMMA CommandFacts ==
    ASSUME NEW c \in Commands
    PROVE  /\ c.op \in {"WRITE", "READ", "DELETE", "SHOW", "BACKUP"}
           /\ c.keys \in Seq(Keys) /\ c.vals \in Seq(Values)
           /\ Len(c.keys) \in Nat /\ Len(c.keys) >= 1
           /\ \A i \in 1..Len(c.keys) : c.keys[i] \in Keys
           /\ c.op = "WRITE" => /\ Len(c.vals) = Len(c.keys)
                                /\ \A i \in 1..Len(c.keys) : c.vals[i] \in Values
<1>1. c.keys \in Seq(Keys) /\ c.keys # <<>> /\ c.vals \in Seq(Values)
  BY CommandAssumption
<1>2. Len(c.keys) \in Nat /\ Len(c.keys) >= 1
  BY <1>1, EmptySeq, LenProperties
<1>3. \A i \in 1..Len(c.keys) : c.keys[i] \in Keys
  BY <1>1, ElementOfSeq
<1>4. \A i \in 1..Len(c.vals) : c.vals[i] \in Values
  BY <1>1, ElementOfSeq
<1> QED BY <1>1, <1>2, <1>3, <1>4, CommandAssumption

\* What is known of a job that is in a command.
LEMMA BusyFacts ==
    ASSUME TypeOK, ControlInv, NEW j \in Jobs, pc[j] # "idle"
    PROVE  /\ cmd[j] \in Commands
           /\ Op(j) \in {"WRITE", "READ", "DELETE", "SHOW", "BACKUP"}
           /\ Len(cmd[j].keys) \in Nat /\ idx[j] \in 1..Len(cmd[j].keys)
           /\ Key(j) \in Keys
           /\ \A i \in 1..Len(cmd[j].keys) : cmd[j].keys[i] \in Keys
           /\ Op(j) = "WRITE" => \A i \in 1..Len(cmd[j].keys) : cmd[j].vals[i] \in Values
<1>1. cmd[j] \in Commands /\ idx[j] <= Len(cmd[j].keys) /\ idx[j] \in Nat \ {0}
  BY DEF ControlInv, ControlOf, TypeOK, JobType
<1> QED BY <1>1, CommandFacts DEF Op, Key

\* The two ends of NextPair.
LEMMA NextPairCases ==
    ASSUME TypeOK, NEW j \in Jobs, NEW loc \in Locs, NextPair(j, loc)
    PROVE  /\ pc' \in [Jobs -> Locs] /\ idx' \in [Jobs -> Nat \ {0}]
           /\ \A i \in Jobs \ {j} : pc'[i] = pc[i] /\ idx'[i] = idx[i]
           /\ \/ /\ idx[j] < Len(cmd[j].keys)
                 /\ pc'[j] = loc /\ idx'[j] = idx[j] + 1
              \/ /\ ~(idx[j] < Len(cmd[j].keys))
                 /\ pc'[j] = "unlock" /\ idx'[j] = idx[j]
<1>1. pc \in [Jobs -> Locs] /\ idx \in [Jobs -> Nat \ {0}]
  BY DEF TypeOK, JobType
<1>2. CASE idx[j] < Len(cmd[j].keys)
  <2>1. pc' = [pc EXCEPT ![j] = loc] /\ idx' = [idx EXCEPT ![j] = idx[j] + 1]
    BY <1>2 DEF NextPair, Goto
  <2> QED BY <1>1, <1>2, <2>1
<1>3. CASE ~(idx[j] < Len(cmd[j].keys))
  <2>1. pc' = [pc EXCEPT ![j] = "unlock"] /\ idx' = idx
    BY <1>3 DEF NextPair, Goto
  <2> QED BY <1>1, <1>3, <2>1 DEF Locs
<1> QED BY <1>2, <1>3

\* The ends of Follow.
LEMMA FollowCases ==
    ASSUME TypeOK, NEW j \in Jobs, NEW x \in Cells \cup {NoCell}, Follow(j, x)
    PROVE  /\ pc' \in [Jobs -> Locs] /\ idx' \in [Jobs -> Nat \ {0}]
           /\ ptr' \in [Jobs -> Cells \cup {NoCell}]
           /\ \A i \in Jobs \ {j} : pc'[i] = pc[i] /\ idx'[i] = idx[i] /\ ptr'[i] = ptr[i]
           /\ \/ pc'[j] = "open" /\ idx'[j] = idx[j] /\ ptr'[j] \in Cells
              \/ /\ Op(j) = "WRITE" /\ idx[j] < Len(cmd[j].keys)
                 /\ pc'[j] = "put" /\ idx'[j] = idx[j] + 1
              \/ /\ Op(j) = "WRITE" /\ ~(idx[j] < Len(cmd[j].keys))
                 /\ pc'[j] = "unlock" /\ idx'[j] = idx[j]
              \/ Op(j) # "WRITE" /\ pc'[j] = "wrlock" /\ idx'[j] = idx[j]
<1>1. /\ ptr' \in [Jobs -> Cells \cup {NoCell}] /\ ptr'[j] = x
      /\ \A i \in Jobs \ {j} : ptr'[i] = ptr[i]
  BY DEF Follow, TypeOK, JobType
<1>2. CASE x # NoCell
  BY <1>1, <1>2 DEF Follow, Goto, TypeOK, JobType, Locs
<1>3. CASE x = NoCell /\ Op(j) = "WRITE"
  <2>1. NextPair(j, "put")
    BY <1>3 DEF Follow
  <2> QED BY <1>1, <1>3, <2>1, NextPairCases DEF Locs
<1>4. CASE x = NoCell /\ Op(j) # "WRITE"
  BY <1>1, <1>4, ZenonT(60) DEF Follow, Goto, TypeOK, JobType, Locs
<1> QED BY <1>2, <1>3, <1>4

\* The head of a list of subscribers is a cell, or there is none.
LEMMA FirstType ==
    ASSUME TypeOK, NEW k \in Keys
    PROVE  First(k) \in Cells \cup {NoCell}
<1>1. subs[k] \in Seq(Cells)
  BY DEF TypeOK, TableType
<1>2. subs[k] # <<>> => subs[k][1] \in Cells
  BY <1>1, EmptySeq, LenProperties, ElementOfSeq
<1> QED BY <1>2 DEF First

\* The steps of a notification loop go to a cell of a list, or end it.
LEMMA WalkFacts ==
    ASSUME TypeOK, ControlInv, NEW j \in Jobs,
           Overwrite(j) \/ Find(j) \/ NextCell(j) \/ DanglingCell(j)
    PROVE  \E x \in Cells \cup {NoCell} : Follow(j, x)
<1>1. pc[j] # "idle" /\ Key(j) \in Keys
  BY BusyFacts DEF Overwrite, Find, NextCell, DanglingCell
<1>2. CASE Overwrite(j) \/ Find(j)
  BY <1>1, <1>2, FirstType DEF Overwrite, Find
<1>3. CASE NextCell(j)
  <2>1. PICK k \in Keys : \E p \in 1..Len(subs[k]) :
           Follow(j, IF p < Len(subs[k]) THEN subs[k][p + 1] ELSE NoCell)
    BY <1>3 DEF NextCell
  <2>. PICK p \in 1..Len(subs[k]) :
          Follow(j, IF p < Len(subs[k]) THEN subs[k][p + 1] ELSE NoCell)
    BY <2>1
  <2>2. subs[k] \in Seq(Cells)
    BY DEF TypeOK, TableType
  <2>3. p < Len(subs[k]) => subs[k][p + 1] \in Cells
    BY <2>2, LenProperties, ElementOfSeq
  <2> QED BY <2>3
<1>4. CASE DanglingCell(j)
  BY <1>4 DEF DanglingCell
<1> QED BY <1>2, <1>3, <1>4

\* Leaving out one element of a list gives a list.
LEMMA RemoveAtType ==
    ASSUME NEW S, NEW s \in Seq(S), NEW p \in 1..Len(s)
    PROVE  RemoveAt(s, p) \in Seq(S)
<1>0. Len(s) \in Nat /\ \A i \in 1..Len(s) : s[i] \in S
  BY LenProperties, ElementOfSeq
<1>1. SubSeq(s, 1, p - 1) \in Seq(S)
  BY <1>0, SubSeqProperties
<1>2. SubSeq(s, p + 1, Len(s)) \in Seq(S)
  BY <1>0, SubSeqProperties
<1> QED BY <1>1, <1>2, ConcatProperties DEF RemoveAt

\* A list without the first cell of a client is a list of cells.
LEMMA WithoutType ==
    ASSUME NEW s \in Seq(Cells), NEW c
    PROVE  Without(s, c) \in Seq(Cells)
<1>1. CASE \E p \in 1..Len(s) : IsFirst(s, c, p)
  <2>1. (CHOOSE p \in 1..Len(s) : IsFirst(s, c, p)) \in 1..Len(s)
    BY <1>1
  <2> QED BY <1>1, <2>1, RemoveAtType DEF Without
<1>2. CASE ~ \E p \in 1..Len(s) : IsFirst(s, c, p)
  BY <1>2 DEF Without
<1> QED BY <1>1, <1>2

-----------------------------------------------------------------------------
(* Types and control                                                       *)

\* Types and control hold at the start.
LEMMA InitType == Init => TypeOK /\ ControlInv
<1> SUFFICES ASSUME Init PROVE TypeOK /\ ControlInv
  OBVIOUS
<1>1. TableType
  BY EmptySeq DEF Init, TableType
<1>2. LockType /\ ClientType /\ GhostType
  BY DEF Init, LockType, ClientType, GhostType, Phases
<1>3. JobType
  BY EmptySeq DEF Init, JobType, Locs
<1>4. ControlInv
  BY DEF Init, ControlInv, ControlOf, Walks, Reading
<1> QED BY <1>1, <1>2, <1>3, <1>4 DEF TypeOK

\* The parts of the state a step leaves alone keep their types.
LEMMA FrameType ==
    ASSUME TypeOK
    PROVE  /\ UNCHANGED tableVars => TableType'
           /\ UNCHANGED lockVars => LockType'
           /\ UNCHANGED jobVars => JobType'
           /\ UNCHANGED clientVars => ClientType'
           /\ UNCHANGED <<alive, dangling, stable>> => GhostType'
BY DEF TypeOK, TableType, LockType, JobType, ClientType, GhostType, tableVars,
       lockVars, jobVars, clientVars

\* The types after a change of the lists.
LEMMA SetListsType ==
    ASSUME TypeOK, NEW L \in [Keys -> Seq(Cells)], SetLists(L)
    PROVE  /\ subs' \in [Keys -> Seq(Cells)]
           /\ who' \in [Cells -> Clients \cup {Nobody}]
           /\ dangling' \in BOOLEAN
<1>1. who \in [Cells -> Clients \cup {Nobody}] /\ dangling \in BOOLEAN
  BY DEF TypeOK, TableType, GhostType
<1> QED BY <1>1 DEF SetLists

\* What an abandoned FIFO does to the jobs.
LEMMA AbandonCases ==
    ASSUME TypeOK, NEW C, Abandon(C) \/ UNCHANGED pc
    PROVE  /\ pc' \in [Jobs -> Locs]
           /\ \A j \in Jobs : pc'[j] = pc[j] \/ (pc[j] = "write" /\ pc'[j] = "broken")
BY DEF Abandon, TypeOK, JobType, Locs

\* Every step keeps the types.
LEMMA StepType ==
    ASSUME TypeOK, ControlInv, [Next]_vars
    PROVE  TypeOK'
<1>1. ASSUME NEW j \in Jobs, NEW c \in Commands, run_job(j, c) PROVE TypeOK'
  <2>1. TableType' /\ LockType' /\ ClientType' /\ GhostType'
    BY <1>1, FrameType DEF run_job, tableVars, lockVars, jobVars, clientVars, ghosts
  <2>2. JobType'
    BY <1>1 DEF run_job, Goto, TypeOK, JobType, Locs
  <2> QED BY <2>1, <2>2 DEF TypeOK
<1>2. ASSUME NEW j \in Jobs, Wrlock(j) PROVE TypeOK'
  <2>1. TableType' /\ ClientType' /\ GhostType'
    BY <1>2, FrameType DEF Wrlock, tableVars, lockVars, jobVars, clientVars, ghosts
  <2>2. LockType'
    BY <1>2 DEF Wrlock, TypeOK, LockType
  <2>3. JobType'
    BY <1>2 DEF Wrlock, Goto, TypeOK, JobType, Locs
  <2> QED BY <2>1, <2>2, <2>3 DEF TypeOK
<1>3. ASSUME NEW j \in Jobs, Overwrite(j) PROVE TypeOK'
  <2>1. LockType' /\ ClientType' /\ GhostType'
    BY <1>3, FrameType DEF Overwrite, tableVars, lockVars, jobVars, clientVars, ghosts
  <2>2. TableType'
    <3>1. Op(j) = "WRITE" /\ Key(j) \in Keys /\ cmd[j].vals[idx[j]] \in Values
      BY <1>3, BusyFacts DEF Overwrite, ControlInv, ControlOf
    <3> QED BY <1>3, <3>1 DEF Overwrite, TypeOK, TableType
  <2>3. JobType'
    <3>1. PICK x \in Cells \cup {NoCell} : Follow(j, x)
      BY <1>3, WalkFacts
    <3>2. UNCHANGED <<cmd, fd, out, done>>
      BY <1>3 DEF Overwrite
    <3> QED BY <3>1, <3>2, FollowCases DEF TypeOK, JobType
  <2> QED BY <2>1, <2>2, <2>3 DEF TypeOK
<1>4. ASSUME NEW j \in Jobs, NewPair(j) PROVE TypeOK'
  <2>1. LockType' /\ ClientType' /\ GhostType'
    BY <1>4, FrameType DEF NewPair, tableVars, lockVars, jobVars, clientVars, ghosts
  <2>2. TableType'
    <3>1. Op(j) = "WRITE" /\ Key(j) \in Keys /\ cmd[j].vals[idx[j]] \in Values
      BY <1>4, BusyFacts DEF NewPair, ControlInv, ControlOf
    <3> QED BY <1>4, <3>1 DEF NewPair, TypeOK, TableType
  <2>3. JobType'
    BY <1>4, BusyFacts, NextPairCases DEF NewPair, TypeOK, JobType, TableType
  <2> QED BY <2>1, <2>2, <2>3 DEF TypeOK
<1>5. ASSUME NEW j \in Jobs, Find(j) PROVE TypeOK'
  <2>1. TableType' /\ LockType' /\ ClientType' /\ GhostType'
    BY <1>5, FrameType DEF Find, tableVars, lockVars, jobVars, clientVars, ghosts
  <2>2. JobType'
    <3>1. PICK x \in Cells \cup {NoCell} : Follow(j, x)
      BY <1>5, WalkFacts
    <3>2. UNCHANGED <<cmd, fd, out, done>>
      BY <1>5 DEF Find
    <3> QED BY <3>1, <3>2, FollowCases DEF TypeOK, JobType
  <2> QED BY <2>1, <2>2 DEF TypeOK
<1>6. ASSUME NEW j \in Jobs, OpenNotif(j) PROVE TypeOK'
  <2>1. TableType' /\ LockType' /\ GhostType'
    BY <1>6, FrameType DEF OpenNotif, tableVars, lockVars, jobVars, clientVars, ghosts
  <2>2. JobType'
    <3>1. pc' \in [Jobs -> Locs]
      BY <1>6 DEF OpenNotif, Goto, TypeOK, JobType, Locs
    <3>2. ptr[j] \in Cells /\ who[ptr[j]] \in Clients
      BY <1>6 DEF OpenNotif, ControlInv, ControlOf, Walks, TypeOK, TableType, FreeCells
    <3>3. fd' \in [Jobs -> Clients \cup {Nobody}]
      BY <1>6, <3>2 DEF OpenNotif, TypeOK, JobType
    <3> QED BY <1>6, <3>1, <3>3 DEF OpenNotif, TypeOK, JobType
  <2>3. ClientType'
    BY <1>6, SMTT(30) DEF OpenNotif, TypeOK, ClientType
  <2> QED BY <2>1, <2>2, <2>3 DEF TypeOK
<1>7. ASSUME NEW j \in Jobs, WriteNotif(j) PROVE TypeOK'
  <2>1. TableType' /\ LockType' /\ GhostType'
    BY <1>7, FrameType DEF WriteNotif, tableVars, lockVars, jobVars, clientVars, ghosts
  <2>2. JobType'
    BY <1>7 DEF WriteNotif, Goto, TypeOK, JobType, Locs
  <2>3. ClientType'
    <3>1. Key(j) \in Keys /\ Op(j) \in {"WRITE", "DELETE"}
      BY <1>7, BusyFacts DEF WriteNotif, ControlInv, ControlOf, Walks
    <3>2. Op(j) = "WRITE" => cmd[j].vals[idx[j]] \in Values
      BY <1>7, BusyFacts DEF WriteNotif
    <3>3. PICK n \in Values \cup {Deleted, Lost} : told' = [told EXCEPT ![fd[j]][Key(j)] = n]
      BY <1>7, <3>1, <3>2 DEF WriteNotif
    <3> QED BY <1>7, <3>1, <3>3 DEF WriteNotif, TypeOK, ClientType
  <2> QED BY <2>1, <2>2, <2>3 DEF TypeOK
<1>8. ASSUME NEW j \in Jobs, BrokenPipe(j) PROVE TypeOK'
  <2>1. TableType' /\ LockType' /\ JobType' /\ ClientType'
    BY <1>8, FrameType DEF BrokenPipe, tableVars, lockVars, jobVars, clientVars, ghosts
  <2>2. GhostType'
    BY <1>8 DEF BrokenPipe, TypeOK, GhostType, ghosts
  <2> QED BY <2>1, <2>2 DEF TypeOK
<1>9. ASSUME NEW j \in Jobs, NextCell(j) PROVE TypeOK'
  <2>1. TableType' /\ LockType' /\ ClientType' /\ GhostType'
    BY <1>9, FrameType DEF NextCell, tableVars, lockVars, jobVars, clientVars, ghosts
  <2>2. JobType'
    <3>1. PICK x \in Cells \cup {NoCell} : Follow(j, x)
      BY <1>9, WalkFacts
    <3>2. UNCHANGED <<cmd, fd, out, done>>
      BY <1>9 DEF NextCell
    <3> QED BY <3>1, <3>2, FollowCases DEF TypeOK, JobType
  <2> QED BY <2>1, <2>2 DEF TypeOK
<1>10. ASSUME NEW j \in Jobs, DanglingCell(j) PROVE TypeOK'
  <2>1. TableType' /\ LockType' /\ ClientType'
    BY <1>10, FrameType DEF DanglingCell, tableVars, lockVars, jobVars, clientVars, ghosts
  <2>2. JobType'
    <3>1. PICK x \in Cells \cup {NoCell} : Follow(j, x)
      BY <1>10, WalkFacts
    <3>2. UNCHANGED <<cmd, fd, out, done>>
      BY <1>10 DEF DanglingCell
    <3> QED BY <3>1, <3>2, FollowCases DEF TypeOK, JobType
  <2>3. GhostType'
    BY <1>10 DEF DanglingCell, TypeOK, GhostType, ghosts
  <2> QED BY <2>1, <2>2, <2>3 DEF TypeOK
<1>11. ASSUME NEW j \in Jobs, Drop(j) PROVE TypeOK'
  <2>1. LockType' /\ ClientType'
    BY <1>11, FrameType DEF Drop, tableVars, lockVars, jobVars, clientVars, ghosts
  <2>2. TableType'
    BY <1>11, SetListsType, WithoutType, EmptySeq DEF Drop, TypeOK, TableType, GhostType
  <2>3. JobType'
    <3>1. Append(out[j], IF value[Key(j)] = Absent THEN Absent ELSE Deleted)
            \in Seq(Values \cup {Absent, Deleted})
      BY <1>11, AppendProperties DEF TypeOK, JobType
    <3>2. out' \in [Jobs -> Seq(Values \cup {Absent, Deleted})]
      BY <1>11, <3>1 DEF Drop, TypeOK, JobType
    <3>3. pc' \in [Jobs -> Locs] /\ idx' \in [Jobs -> Nat \ {0}]
      BY <1>11, NextPairCases DEF Drop, Locs
    <3> QED BY <1>11, <3>2, <3>3 DEF Drop, TypeOK, JobType
  <2>4. GhostType'
    BY <1>11, SetListsType, WithoutType, EmptySeq DEF Drop, TypeOK, TableType, GhostType
  <2> QED BY <2>1, <2>2, <2>3, <2>4 DEF TypeOK
<1>12. ASSUME NEW j \in Jobs, WildHead(j) PROVE TypeOK'
  <2>1. TableType' /\ LockType' /\ JobType' /\ ClientType'
    BY <1>12, FrameType DEF WildHead, tableVars, lockVars, jobVars, clientVars, ghosts
  <2>2. GhostType'
    BY <1>12 DEF WildHead, TypeOK, GhostType, ghosts
  <2> QED BY <2>1, <2>2 DEF TypeOK
<1>13. ASSUME NEW j \in Jobs, Rdlock(j) PROVE TypeOK'
  <2>1. TableType' /\ ClientType' /\ GhostType'
    BY <1>13, FrameType DEF Rdlock, tableVars, lockVars, jobVars, clientVars, ghosts
  <2>2. LockType'
    BY <1>13 DEF Rdlock, TypeOK, LockType
  <2>3. JobType'
    BY <1>13 DEF Rdlock, Goto, TypeOK, JobType, Locs
  <2> QED BY <2>1, <2>2, <2>3 DEF TypeOK
<1>14. ASSUME NEW j \in Jobs, LookUp(j) PROVE TypeOK'
  <2>1. TableType' /\ LockType' /\ ClientType' /\ GhostType'
    BY <1>14, FrameType DEF LookUp, tableVars, lockVars, jobVars, clientVars, ghosts
  <2>2. JobType'
    BY <1>14, BusyFacts, NextPairCases, SMTT(30) DEF LookUp, TypeOK, JobType, TableType
  <2> QED BY <2>1, <2>2 DEF TypeOK
<1>15. ASSUME NEW j \in Jobs, Fork(j) PROVE TypeOK'
  <2>1. TableType' /\ LockType' /\ ClientType' /\ GhostType'
    BY <1>15, FrameType DEF Fork, tableVars, lockVars, jobVars, clientVars, ghosts
  <2>2. JobType'
    <3>1. pc' \in [Jobs -> Locs]
      BY <1>15 DEF Fork, Goto, TypeOK, JobType, Locs
    <3>2. [i \in 1..Len(cmd[j].keys) |-> value[cmd[j].keys[i]]] \in Seq(Values \cup {Absent, Deleted})
      BY <1>15, BusyFacts, IsASeq, SMTT(30) DEF Fork, TypeOK, TableType
    <3> QED BY <1>15, <3>1, <3>2 DEF Fork, TypeOK, JobType
  <2> QED BY <2>1, <2>2 DEF TypeOK
<1>16. ASSUME NEW j \in Jobs, Unlock(j) PROVE TypeOK'
  <2>1. TableType' /\ ClientType'
    BY <1>16, FrameType DEF Unlock, tableVars, lockVars, jobVars, clientVars, ghosts
  <2>2. LockType'
    BY <1>16 DEF Unlock, TypeOK, LockType
  <2>3. JobType'
    BY <1>16 DEF Unlock, Goto, TypeOK, JobType, Locs
  <2>4. GhostType'
    BY <1>16 DEF Unlock, TypeOK, TableType, GhostType, ghosts
  <2> QED BY <2>1, <2>2, <2>3, <2>4 DEF TypeOK
<1>17. ASSUME NEW c \in Clients, Connect(c) PROVE TypeOK'
  <2>1. TableType' /\ LockType' /\ GhostType'
    BY <1>17, FrameType DEF Connect, tableVars, lockVars, jobVars, clientVars, ghosts,
       Request
  <2>2. JobType'
    BY <1>17, AbandonCases DEF Connect, TypeOK, JobType
  <2>3. ClientType'
    BY <1>17 DEF Connect, TypeOK, ClientType, Phases
  <2> QED BY <2>1, <2>2, <2>3 DEF TypeOK
<1>18. ASSUME NEW c \in Clients, Listen(c) PROVE TypeOK'
  <2>1. TableType' /\ LockType' /\ JobType' /\ GhostType'
    BY <1>18, FrameType DEF Listen, tableVars, lockVars, jobVars, clientVars, ghosts,
       Request
  <2>2. ClientType'
    BY <1>18 DEF Listen, TypeOK, ClientType, Phases
  <2> QED BY <2>1, <2>2 DEF TypeOK
<1>19. ASSUME NEW c \in Clients, Gone(c) PROVE TypeOK'
  <2>1. TableType' /\ LockType' /\ GhostType'
    BY <1>19, FrameType DEF Gone, tableVars, lockVars, jobVars, clientVars, ghosts, Request
  <2>2. JobType'
    BY <1>19, AbandonCases DEF Gone, TypeOK, JobType
  <2>3. ClientType'
    BY <1>19 DEF Gone, TypeOK, ClientType, Phases
  <2> QED BY <2>1, <2>2, <2>3 DEF TypeOK
<1>20. ASSUME NEW c \in Clients, kvs_disconnect_client(c) PROVE TypeOK'
  <2>1. LockType'
    BY <1>20, FrameType DEF kvs_disconnect_client, tableVars, lockVars, jobVars,
       clientVars, ghosts, Request
  <2>2. TableType'
    BY <1>20, SetListsType, WithoutType, EmptySeq DEF kvs_disconnect_client, TypeOK,
       TableType, GhostType
  <2>3. JobType'
    BY <1>20, AbandonCases DEF kvs_disconnect_client, TypeOK, JobType
  <2>4. ClientType'
    BY <1>20 DEF kvs_disconnect_client, Request, TypeOK, ClientType, Phases
  <2>5. GhostType'
    BY <1>20, SetListsType, WithoutType, EmptySeq DEF kvs_disconnect_client, TypeOK,
       TableType, GhostType
  <2> QED BY <2>1, <2>2, <2>3, <2>4, <2>5 DEF TypeOK
<1>21. ASSUME NEW c \in Clients, NEW k \in Keys, kvs_subscribe(c, k) PROVE TypeOK'
  <2>1. LockType' /\ JobType' /\ GhostType'
    BY <1>21, FrameType DEF kvs_subscribe, tableVars, lockVars, jobVars, clientVars,
       ghosts, Request
  <2>2. TableType'
    <3>1. CASE value[k] = Absent
      BY <1>21, <3>1 DEF kvs_subscribe, TypeOK, TableType
    <3>2. CASE value[k] # Absent
      <4>1. PICK x \in FreeCells : /\ who' = [who EXCEPT ![x] = c]
                                  /\ subs' = [subs EXCEPT ![k] = Append(subs[k], x)]
        BY <1>21, <3>2 DEF kvs_subscribe
      <4>2. x \in Cells /\ Append(subs[k], x) \in Seq(Cells)
        BY AppendProperties DEF FreeCells, TypeOK, TableType
      <4> QED BY <1>21, <4>1, <4>2 DEF kvs_subscribe, TypeOK, TableType
    <3> QED BY <3>1, <3>2
  <2>3. told' = told \/ told' = [told EXCEPT ![c][k] = NoNews]
    BY <1>21 DEF kvs_subscribe
  <2>4. reqs' \in Nat /\ UNCHANGED phase
    BY <1>21 DEF kvs_subscribe, Request, TypeOK, ClientType
  <2>5. ClientType'
    BY <2>3, <2>4, SMTT(30) DEF TypeOK, ClientType
  <2> QED BY <2>1, <2>2, <2>5 DEF TypeOK
<1>22. ASSUME NEW c \in Clients, NEW k \in Keys, kvs_unsubscribe(c, k) PROVE TypeOK'
  <2>1. LockType' /\ JobType'
    BY <1>22, FrameType DEF kvs_unsubscribe, tableVars, lockVars, jobVars, clientVars,
       ghosts, Request
  <2>2. TableType'
    BY <1>22, SetListsType, WithoutType, EmptySeq DEF kvs_unsubscribe, TypeOK,
       TableType, GhostType
  <2>3. ClientType'
    BY <1>22 DEF kvs_unsubscribe, Request, TypeOK, ClientType, Phases
  <2>4. GhostType'
    BY <1>22, SetListsType, WithoutType, EmptySeq DEF kvs_unsubscribe, TypeOK,
       TableType, GhostType
  <2> QED BY <2>1, <2>2, <2>3, <2>4 DEF TypeOK
<1>23. ASSUME delete_all_subscriptions PROVE TypeOK'
  <2>1. LockType'
    BY <1>23, FrameType DEF delete_all_subscriptions, tableVars, lockVars, jobVars,
       clientVars, ghosts, Request
  <2>2. TableType'
    BY <1>23, SetListsType, WithoutType, EmptySeq DEF delete_all_subscriptions, TypeOK,
       TableType, GhostType
  <2>3. JobType'
    BY <1>23, AbandonCases DEF delete_all_subscriptions, TypeOK, JobType
  <2>4. ClientType'
    BY <1>23 DEF delete_all_subscriptions, Request, TypeOK, ClientType, Phases
  <2>5. GhostType'
    BY <1>23, SetListsType, WithoutType, EmptySeq DEF delete_all_subscriptions, TypeOK,
       TableType, GhostType
  <2> QED BY <2>1, <2>2, <2>3, <2>4, <2>5 DEF TypeOK
<1>24. ASSUME HandlerWildHead PROVE TypeOK'
  <2>1. TableType' /\ LockType' /\ JobType'
    BY <1>24, FrameType DEF HandlerWildHead, tableVars, lockVars, jobVars, clientVars,
       ghosts, Request
  <2>2. ClientType'
    BY <1>24 DEF HandlerWildHead, Request, TypeOK, ClientType, Phases
  <2>3. GhostType'
    BY <1>24 DEF HandlerWildHead, TypeOK, GhostType, ghosts
  <2> QED BY <2>1, <2>2, <2>3 DEF TypeOK
<1>25. CASE UNCHANGED vars
  BY <1>25, FrameType DEF vars, TypeOK, jobVars, ghosts
<1> QED BY <1>1, <1>2, <1>3, <1>4, <1>5, <1>6, <1>7, <1>8, <1>9, <1>10, <1>11, <1>12,
   <1>13, <1>14, <1>15, <1>16, <1>17, <1>18, <1>19, <1>20, <1>21, <1>22, <1>23, <1>24,
   <1>25 DEF Next, JobStep, ClientStep

-----------------------------------------------------------------------------
(* The lock and the control of the jobs                                    *)

\* A job the step does not touch keeps its place, and its part of the lock.
Untouched(i) ==
    /\ pc'[i] = pc[i] \/ (pc[i] = "write" /\ pc'[i] = "broken")
    /\ cmd'[i] = cmd[i] /\ idx'[i] = idx[i] /\ out'[i] = out[i] /\ ptr'[i] = ptr[i]
    /\ (writer' = i) <=> (writer = i)
    /\ (i \in readers') <=> (i \in readers)

\* The control and the lock as one job sees them.
LockOf(j) ==
    /\ (writer = j) <=> HoldsWrite(j)
    /\ (j \in readers) <=> HoldsRead(j)

\* A step that leaves a job alone keeps its control and its part of the lock.
LEMMA UntouchedJob ==
    ASSUME NEW i \in Jobs, ControlOf(i), LockOf(i), Untouched(i)
    PROVE  ControlOf(i)' /\ LockOf(i)'
BY DEF ControlOf, LockOf, HoldsWrite, HoldsRead, Untouched, Op, Walks, Reading

\* Every step keeps each job's control and its part of the lock.
LEMMA StepControl ==
    ASSUME TypeOK, ControlInv, LockDiscipline, [Next]_vars, NEW i \in Jobs
    PROVE  ControlOf(i)' /\ LockOf(i)'
<1>0. ControlOf(i) /\ LockOf(i)
  BY DEF ControlInv, LockDiscipline, LockOf
<1>1. ASSUME NEW j \in Jobs, NEW c \in Commands, run_job(j, c) PROVE ControlOf(i)' /\ LockOf(i)'
  <2>1. CASE i # j
    <3>1. Untouched(i)
      BY <1>1, <2>1, CommandFacts DEF run_job, Goto, Untouched, jobVars, TypeOK,
         JobType, LockType, lockVars
    <3> QED BY <1>0, <3>1, UntouchedJob
  <2>2. CASE i = j
    BY <1>0, <1>1, <2>2, BusyFacts, CommandFacts DEF run_job, Goto, jobVars, ControlOf,
       LockOf, HoldsWrite, HoldsRead, Op, Walks, Reading, Locs, TypeOK, JobType,
       LockType, lockVars
  <2> QED BY <2>1, <2>2
<1>2. ASSUME NEW j \in Jobs, Wrlock(j) PROVE ControlOf(i)' /\ LockOf(i)'
  <2>1. CASE i # j
    <3>1. Untouched(i)
      BY <1>2, <2>1, NoneAssumption DEF Wrlock, LockFree, Goto, Untouched, jobVars,
         TypeOK, JobType, LockType, lockVars
    <3> QED BY <1>0, <3>1, UntouchedJob
  <2>2. CASE i = j
    BY <1>0, <1>2, <2>2, BusyFacts DEF Wrlock, Goto, jobVars, ControlOf, LockOf,
       HoldsWrite, HoldsRead, Op, Walks, Reading, Locs, TypeOK, JobType, LockType,
       lockVars
  <2> QED BY <2>1, <2>2
<1>3. ASSUME NEW j \in Jobs, Overwrite(j) PROVE ControlOf(i)' /\ LockOf(i)'
  <2>0. PICK x \in Cells \cup {NoCell} : Follow(j, x)
    BY <1>3, WalkFacts
  <2>1. CASE i # j
    <3>1. Untouched(i)
      BY <1>3, <2>0, <2>1, FollowCases DEF Overwrite, Goto, Untouched, jobVars, TypeOK,
         JobType, LockType, lockVars
    <3> QED BY <1>0, <3>1, UntouchedJob
  <2>2. CASE i = j
    <3>1. /\ cmd[j] \in Commands /\ Op(j) \in {"WRITE", "DELETE"}
          /\ Len(cmd[j].keys) \in Nat /\ idx[j] \in 1..Len(cmd[j].keys)
          /\ Op(j) = "WRITE" => pc[j] # "wrlock" /\ out[j] = <<>>
          /\ pc[j] = "next" \/ (pc[j] = "put" /\ Op(j) = "WRITE")
      BY <1>0, <1>3, <2>2, BusyFacts DEF Overwrite, ControlOf, Walks
    <3>2. cmd' = cmd /\ out' = out /\ writer' = writer /\ readers' = readers
      BY <1>3 DEF Overwrite, lockVars
    <3>3. \/ pc'[j] = "open" /\ idx'[j] = idx[j] /\ ptr'[j] \in Cells
          \/ /\ Op(j) = "WRITE" /\ idx[j] < Len(cmd[j].keys)
             /\ pc'[j] = "put" /\ idx'[j] = idx[j] + 1
          \/ /\ Op(j) = "WRITE" /\ ~(idx[j] < Len(cmd[j].keys))
             /\ pc'[j] = "unlock" /\ idx'[j] = idx[j]
          \/ Op(j) # "WRITE" /\ pc'[j] = "wrlock" /\ idx'[j] = idx[j]
      BY <2>0, FollowCases
    <3>4. ControlOf(j)'
      BY <1>0, <2>2, <3>1, <3>2, <3>3 DEF ControlOf, Op, Walks, Reading
    <3>5. LockOf(j)'
      BY <1>0, <2>2, <3>1, <3>2, <3>3 DEF LockOf, HoldsWrite, HoldsRead, Op
    <3> QED BY <2>2, <3>4, <3>5
  <2> QED BY <2>1, <2>2
<1>4. ASSUME NEW j \in Jobs, NewPair(j) PROVE ControlOf(i)' /\ LockOf(i)'
  <2>1. CASE i # j
    <3>1. Untouched(i)
      BY <1>4, <2>1, NextPairCases DEF NewPair, Goto, Untouched, jobVars, TypeOK,
         JobType, LockType, lockVars
    <3> QED BY <1>0, <3>1, UntouchedJob
  <2>2. CASE i = j
    BY <1>0, <1>4, <2>2, BusyFacts, NextPairCases, SMTT(30) DEF NewPair, Goto, jobVars, ControlOf,
       LockOf, HoldsWrite, HoldsRead, Op, Walks, Reading, Locs, TypeOK, JobType,
       LockType, lockVars
  <2> QED BY <2>1, <2>2
<1>5. ASSUME NEW j \in Jobs, Find(j) PROVE ControlOf(i)' /\ LockOf(i)'
  <2>0. PICK x \in Cells \cup {NoCell} : Follow(j, x)
    BY <1>5, WalkFacts
  <2>1. CASE i # j
    <3>1. Untouched(i)
      BY <1>5, <2>0, <2>1, FollowCases DEF Find, Goto, Untouched, jobVars, TypeOK,
         JobType, LockType, lockVars
    <3> QED BY <1>0, <3>1, UntouchedJob
  <2>2. CASE i = j
    BY <1>0, <1>5, <2>0, <2>2, BusyFacts, FollowCases DEF Find, Goto, jobVars,
       ControlOf, LockOf, HoldsWrite, HoldsRead, Op, Walks, Reading, Locs, TypeOK,
       JobType, LockType, lockVars
  <2> QED BY <2>1, <2>2
<1>6. ASSUME NEW j \in Jobs, OpenNotif(j) PROVE ControlOf(i)' /\ LockOf(i)'
  <2>1. CASE i # j
    <3>1. Untouched(i)
      BY <1>6, <2>1 DEF OpenNotif, Goto, Untouched, jobVars, TypeOK, JobType, LockType,
         lockVars
    <3> QED BY <1>0, <3>1, UntouchedJob
  <2>2. CASE i = j
    BY <1>0, <1>6, <2>2, BusyFacts DEF OpenNotif, Goto, jobVars, ControlOf, LockOf,
       HoldsWrite, HoldsRead, Op, Walks, Reading, Locs, TypeOK, JobType, LockType,
       lockVars
  <2> QED BY <2>1, <2>2
<1>7. ASSUME NEW j \in Jobs, WriteNotif(j) PROVE ControlOf(i)' /\ LockOf(i)'
  <2>1. CASE i # j
    <3>1. Untouched(i)
      BY <1>7, <2>1 DEF WriteNotif, Goto, Untouched, jobVars, TypeOK, JobType, LockType,
         lockVars
    <3> QED BY <1>0, <3>1, UntouchedJob
  <2>2. CASE i = j
    BY <1>0, <1>7, <2>2, BusyFacts DEF WriteNotif, Goto, jobVars, ControlOf, LockOf,
       HoldsWrite, HoldsRead, Op, Walks, Reading, Locs, TypeOK, JobType, LockType,
       lockVars
  <2> QED BY <2>1, <2>2
<1>8. ASSUME NEW j \in Jobs, BrokenPipe(j) PROVE ControlOf(i)' /\ LockOf(i)'
  <2>1. CASE i # j
    <3>1. Untouched(i)
      BY <1>8, <2>1 DEF BrokenPipe, Goto, Untouched, jobVars, TypeOK, JobType, LockType,
         lockVars
    <3> QED BY <1>0, <3>1, UntouchedJob
  <2>2. CASE i = j
    BY <1>0, <1>8, <2>2, BusyFacts DEF BrokenPipe, Goto, jobVars, ControlOf, LockOf,
       HoldsWrite, HoldsRead, Op, Walks, Reading, Locs, TypeOK, JobType, LockType,
       lockVars
  <2> QED BY <2>1, <2>2
<1>9. ASSUME NEW j \in Jobs, NextCell(j) PROVE ControlOf(i)' /\ LockOf(i)'
  <2>0. PICK x \in Cells \cup {NoCell} : Follow(j, x)
    BY <1>9, WalkFacts
  <2>1. CASE i # j
    <3>1. Untouched(i)
      BY <1>9, <2>0, <2>1, FollowCases DEF NextCell, Goto, Untouched, jobVars, TypeOK,
         JobType, LockType, lockVars
    <3> QED BY <1>0, <3>1, UntouchedJob
  <2>2. CASE i = j
    <3>1. /\ cmd[j] \in Commands /\ Op(j) \in {"WRITE", "DELETE"}
          /\ Len(cmd[j].keys) \in Nat /\ idx[j] \in 1..Len(cmd[j].keys)
          /\ Op(j) = "WRITE" => pc[j] # "wrlock" /\ out[j] = <<>>
          /\ pc[j] = "next" \/ (pc[j] = "put" /\ Op(j) = "WRITE")
      BY <1>0, <1>9, <2>2, BusyFacts DEF NextCell, ControlOf, Walks
    <3>2. cmd' = cmd /\ out' = out /\ writer' = writer /\ readers' = readers
      BY <1>9 DEF NextCell, lockVars
    <3>3. \/ pc'[j] = "open" /\ idx'[j] = idx[j] /\ ptr'[j] \in Cells
          \/ /\ Op(j) = "WRITE" /\ idx[j] < Len(cmd[j].keys)
             /\ pc'[j] = "put" /\ idx'[j] = idx[j] + 1
          \/ /\ Op(j) = "WRITE" /\ ~(idx[j] < Len(cmd[j].keys))
             /\ pc'[j] = "unlock" /\ idx'[j] = idx[j]
          \/ Op(j) # "WRITE" /\ pc'[j] = "wrlock" /\ idx'[j] = idx[j]
      BY <2>0, FollowCases
    <3>4. ControlOf(j)'
      BY <1>0, <2>2, <3>1, <3>2, <3>3 DEF ControlOf, Op, Walks, Reading
    <3>5. LockOf(j)'
      BY <1>0, <2>2, <3>1, <3>2, <3>3 DEF LockOf, HoldsWrite, HoldsRead, Op
    <3> QED BY <2>2, <3>4, <3>5
  <2> QED BY <2>1, <2>2
<1>10. ASSUME NEW j \in Jobs, DanglingCell(j) PROVE ControlOf(i)' /\ LockOf(i)'
  <2>0. PICK x \in Cells \cup {NoCell} : Follow(j, x)
    BY <1>10, WalkFacts
  <2>1. CASE i # j
    <3>1. Untouched(i)
      BY <1>10, <2>0, <2>1, FollowCases DEF DanglingCell, Goto, Untouched, jobVars,
         TypeOK, JobType, LockType, lockVars
    <3> QED BY <1>0, <3>1, UntouchedJob
  <2>2. CASE i = j
    BY <1>0, <1>10, <2>0, <2>2, BusyFacts, FollowCases DEF DanglingCell, Goto, jobVars,
       ControlOf, LockOf, HoldsWrite, HoldsRead, Op, Walks, Reading, Locs, TypeOK,
       JobType, LockType, lockVars
  <2> QED BY <2>1, <2>2
<1>11. ASSUME NEW j \in Jobs, Drop(j) PROVE ControlOf(i)' /\ LockOf(i)'
  <2>1. CASE i # j
    <3>1. Untouched(i)
      BY <1>11, <2>1, NextPairCases, SMTT(30) DEF Drop, Locs, Goto, Untouched, jobVars, TypeOK,
         JobType, LockType, lockVars
    <3> QED BY <1>0, <3>1, UntouchedJob
  <2>2. CASE i = j
    BY <1>0, <1>11, <2>2, BusyFacts, NextPairCases DEF Drop, Goto, jobVars, ControlOf,
       LockOf, HoldsWrite, HoldsRead, Op, Walks, Reading, Locs, TypeOK, JobType,
       LockType, lockVars
  <2> QED BY <2>1, <2>2
<1>12. ASSUME NEW j \in Jobs, WildHead(j) PROVE ControlOf(i)' /\ LockOf(i)'
  <2>1. CASE i # j
    <3>1. Untouched(i)
      BY <1>12, <2>1 DEF WildHead, Goto, Untouched, jobVars, TypeOK, JobType, LockType,
         lockVars
    <3> QED BY <1>0, <3>1, UntouchedJob
  <2>2. CASE i = j
    BY <1>0, <1>12, <2>2, BusyFacts DEF WildHead, Goto, jobVars, ControlOf, LockOf,
       HoldsWrite, HoldsRead, Op, Walks, Reading, Locs, TypeOK, JobType, LockType,
       lockVars
  <2> QED BY <2>1, <2>2
<1>13. ASSUME NEW j \in Jobs, Rdlock(j) PROVE ControlOf(i)' /\ LockOf(i)'
  <2>1. CASE i # j
    <3>1. Untouched(i)
      BY <1>13, <2>1 DEF Rdlock, Goto, Untouched, jobVars, TypeOK, JobType, LockType,
         lockVars
    <3> QED BY <1>0, <3>1, UntouchedJob
  <2>2. CASE i = j
    BY <1>0, <1>13, <2>2, BusyFacts DEF Rdlock, Goto, jobVars, ControlOf, LockOf,
       HoldsWrite, HoldsRead, Op, Walks, Reading, Locs, TypeOK, JobType, LockType,
       lockVars
  <2> QED BY <2>1, <2>2
<1>14. ASSUME NEW j \in Jobs, LookUp(j) PROVE ControlOf(i)' /\ LockOf(i)'
  <2>1. CASE i # j
    <3>1. Untouched(i)
      BY <1>14, <2>1, NextPairCases DEF LookUp, Goto, Untouched, jobVars, TypeOK,
         JobType, LockType, lockVars
    <3> QED BY <1>0, <3>1, UntouchedJob
  <2>2. CASE i = j
    BY <1>0, <1>14, <2>2, BusyFacts, NextPairCases, SMTT(30) DEF LookUp, Goto, jobVars, ControlOf,
       LockOf, HoldsWrite, HoldsRead, Op, Walks, Reading, Locs, TypeOK, JobType,
       LockType, lockVars
  <2> QED BY <2>1, <2>2
<1>15. ASSUME NEW j \in Jobs, Fork(j) PROVE ControlOf(i)' /\ LockOf(i)'
  <2>1. CASE i # j
    <3>1. Untouched(i)
      BY <1>15, <2>1 DEF Fork, Goto, Untouched, jobVars, TypeOK, JobType, LockType, lockVars
    <3> QED BY <1>0, <3>1, UntouchedJob
  <2>2. CASE i = j
    BY <1>0, <1>15, <2>2, BusyFacts DEF Fork, Goto, jobVars, ControlOf, LockOf,
       HoldsWrite, HoldsRead, Op, Walks, Reading, Locs, TypeOK, JobType, LockType,
       lockVars
  <2> QED BY <2>1, <2>2
<1>16. ASSUME NEW j \in Jobs, Unlock(j) PROVE ControlOf(i)' /\ LockOf(i)'
  <2>1. CASE i # j
    <3>1. Op(j) \in {"WRITE", "DELETE"} => writer = j
      BY <1>16 DEF Unlock, LockDiscipline, HoldsWrite
    <3>2. Untouched(i)
      BY <1>16, <2>1, <3>1, NoneAssumption DEF Unlock, Goto, Untouched, jobVars, TypeOK,
         JobType, LockType
    <3> QED BY <1>0, <3>2, UntouchedJob
  <2>2. CASE i = j
    BY <1>0, <1>16, NoneAssumption, <2>2, BusyFacts DEF Unlock, Goto, jobVars,
       ControlOf, LockOf, HoldsWrite, HoldsRead, Op, Walks, Reading, Locs, TypeOK,
       JobType, LockType, lockVars
  <2> QED BY <2>1, <2>2
<1>17. CASE ClientStep
  <2>1. cmd' = cmd /\ idx' = idx /\ out' = out /\ ptr' = ptr /\ writer' = writer /\ readers' = readers
    BY <1>17 DEF ClientStep, Connect, Listen, Gone, kvs_disconnect_client,
       kvs_subscribe, kvs_unsubscribe, delete_all_subscriptions, HandlerWildHead,
       jobVars, lockVars
  <2>2. \E C : Abandon(C) \/ UNCHANGED pc
    BY <1>17 DEF ClientStep, Connect, Listen, Gone, kvs_disconnect_client,
       kvs_subscribe, kvs_unsubscribe, delete_all_subscriptions, HandlerWildHead,
       jobVars
  <2>3. pc'[i] = pc[i] \/ (pc[i] = "write" /\ pc'[i] = "broken")
    BY <2>2, AbandonCases
  <2> QED BY <1>0, <2>1, <2>3, UntouchedJob DEF Untouched
<1>18. CASE UNCHANGED vars
  BY <1>0, <1>18, UntouchedJob DEF vars, lockVars, Untouched
<1> QED BY <1>1, <1>2, <1>3, <1>4, <1>5, <1>6, <1>7, <1>8, <1>9, <1>10, <1>11, <1>12,
   <1>13, <1>14, <1>15, <1>16, <1>17, <1>18 DEF Next, JobStep

\* Readers and a writer never hold tablelock together.
LEMMA StepExclusion ==
    ASSUME TypeOK, ControlInv, LockDiscipline, [Next]_vars, writer' # NoJob
    PROVE  readers' = {}
<1>1. CASE \E j \in Jobs : Wrlock(j)
  BY <1>1 DEF Wrlock, LockFree, LockDiscipline, lockVars
<1>2. CASE \E j \in Jobs : Rdlock(j)
  BY <1>2 DEF Rdlock
<1>3. CASE \E j \in Jobs : Unlock(j)
  BY <1>3 DEF Unlock, LockDiscipline
<1>4. CASE UNCHANGED lockVars
  BY <1>4, SMTT(30) DEF lockVars, LockDiscipline
<1>5. \/ \E j \in Jobs : Wrlock(j) \/ Rdlock(j) \/ Unlock(j)
      \/ UNCHANGED lockVars
  BY DEF Next, JobStep, ClientStep, vars, run_job, Overwrite, NewPair, Find,
         OpenNotif, WriteNotif, BrokenPipe, NextCell, DanglingCell, Drop, WildHead,
         LookUp, Fork, Connect, Listen, Gone, kvs_disconnect_client, kvs_subscribe,
         kvs_unsubscribe, delete_all_subscriptions, HandlerWildHead, lockVars
<1> QED BY <1>1, <1>2, <1>3, <1>4, <1>5

\* The types, the control of the jobs and the discipline of the lock.
SafeInv == TypeOK /\ ControlInv /\ LockDiscipline

\* Types, control and lock discipline hold throughout.
LEMMA SafeInvariant == Spec => []SafeInv
<1>1. Init => SafeInv
  <2> SUFFICES ASSUME Init PROVE LockDiscipline
    BY InitType DEF SafeInv
  <2> QED BY NoneAssumption DEF Init, LockDiscipline, HoldsWrite, HoldsRead
<1>2. SafeInv /\ [Next]_vars => SafeInv'
  <2> SUFFICES ASSUME SafeInv, [Next]_vars PROVE SafeInv'
    OBVIOUS
  <2>1. TypeOK'
    BY StepType DEF SafeInv
  <2>2. \A i \in Jobs : ControlOf(i)' /\ LockOf(i)'
    BY StepControl DEF SafeInv
  <2>3. ControlInv'
    BY <2>2 DEF ControlInv
  <2>4. LockDiscipline'
    BY <2>2, StepExclusion DEF SafeInv, LockDiscipline, LockOf
  <2> QED BY <2>1, <2>3, <2>4 DEF SafeInv
<1> QED BY <1>1, <1>2, PTL DEF Spec

\* Every variable keeps to its type, whatever the interleaving.
THEOREM TypeCorrect == Spec => []TypeOK
<1>1. SafeInv => TypeOK
  BY DEF SafeInv
<1> QED BY <1>1, SafeInvariant, PTL

\* A job holds tablelock exactly where kvs_write, kvs_read and kvs_delete need
\* it, and a writer shares it with nobody.
THEOREM LockingCorrect == Spec => []LockDiscipline
<1>1. SafeInv => LockDiscipline
  BY DEF SafeInv
<1> QED BY <1>1, SafeInvariant, PTL

-----------------------------------------------------------------------------
(* The table                                                               *)

\* One more pair of a WRITE.
LEMMA WroteNext ==
    ASSUME NEW before, NEW after \in [Keys -> Values \cup {Absent}], NEW keys, NEW vals,
           NEW n \in Nat, \A i \in 1..(n + 1) : keys[i] \in Keys,
           Atomic!Wrote(before, after, keys, vals, n)
    PROVE  Atomic!Wrote(before, [after EXCEPT ![keys[n + 1]] = vals[n + 1]], keys, vals, n + 1)
<1> DEFINE next == [after EXCEPT ![keys[n + 1]] = vals[n + 1]]
<1>1. keys[n + 1] \in Keys
  OBVIOUS
<1>2. ASSUME NEW k \in Keys, \A i \in 1..(n + 1) : keys[i] # k
      PROVE  next[k] = before[k]
  <2>1. keys[n + 1] # k /\ \A i \in 1..n : keys[i] # k
    BY <1>2
  <2> QED BY <2>1 DEF Atomic!Wrote
<1>3. ASSUME NEW i \in 1..(n + 1), \A h \in (i + 1)..(n + 1) : keys[h] # keys[i]
      PROVE  next[keys[i]] = vals[i]
  <2>1. CASE i = n + 1
    BY <1>1, <2>1
  <2>2. CASE i # n + 1
    <3>1. i \in 1..n /\ keys[n + 1] # keys[i] /\ \A h \in (i + 1)..n : keys[h] # keys[i]
      BY <1>3, <2>2
    <3> QED BY <3>1 DEF Atomic!Wrote
  <2> QED BY <2>1, <2>2
<1> QED BY <1>2, <1>3 DEF Atomic!Wrote

\* One more key of a DELETE.
LEMMA RemovedNext ==
    ASSUME NEW before, NEW after \in [Keys -> Values \cup {Absent}], NEW keys,
           NEW n \in Nat, keys[n + 1] \in Keys,
           Atomic!Removed(before, after, keys, n)
    PROVE  Atomic!Removed(before, [after EXCEPT ![keys[n + 1]] = Absent], keys, n + 1)
<1> DEFINE next == [after EXCEPT ![keys[n + 1]] = Absent]
<1>1. ASSUME NEW k \in Keys
      PROVE  next[k] = IF \E i \in 1..(n + 1) : keys[i] = k THEN Absent ELSE before[k]
  <2>1. CASE keys[n + 1] = k
    BY <2>1
  <2>2. CASE keys[n + 1] # k
    <3>1. (\E i \in 1..(n + 1) : keys[i] = k) <=> (\E i \in 1..n : keys[i] = k)
      BY <2>2
    <3> QED BY <2>2, <3>1 DEF Atomic!Removed
  <2> QED BY <2>1, <2>2
<1> QED BY <1>1 DEF Atomic!Removed

\* A job whose part of the table, the lock and the command is as before, and
\* whose progress is, keeps what TableInv says of it.
LEMMA TableFrame ==
    ASSUME NEW i \in Jobs, TableOf(i),
           value' = value, stable' = stable, cmd'[i] = cmd[i], out'[i] = out[i],
           writer' = i => writer = i, i \in readers' => i \in readers,
           (writer = i \/ i \in readers) => Progress(i)' = Progress(i)
    PROVE  TableOf(i)'
BY DEF TableOf, Op, Atomic!Wrote, Atomic!Removed, Atomic!MissingAt

\* TableInv says nothing of a job without the lock.
LEMMA TableNoLock ==
    ASSUME NEW i \in Jobs, writer' # i, i \notin readers'
    PROVE  TableOf(i)'
BY DEF TableOf

\* Every step keeps TableInv: what it says of the jobs one by one ...
LEMMA StepTableOf ==
    ASSUME SafeInv, SafeInv', TableInv, [Next]_vars, NEW i \in Jobs
    PROVE  TableOf(i)'
<1> USE DEF SafeInv
<1>0. TableOf(i) /\ ControlOf(i) /\ LockOf(i)
  BY DEF TableInv, ControlInv, LockDiscipline, LockOf
<1>1. ASSUME NEW j \in Jobs, NEW c \in Commands, run_job(j, c) PROVE TableOf(i)'
  <2>1. CASE i # j
    BY <1>0, <1>1, <2>1, TableFrame DEF run_job, Goto, Progress, Op, TypeOK, JobType,
       LockType, jobVars, lockVars, tableVars, ghosts
  <2>2. CASE i = j
    <3>1. writer' # j /\ j \notin readers'
      BY <1>0, <1>1, <2>2 DEF run_job, LockOf, HoldsWrite, HoldsRead, lockVars
    <3> QED BY <2>2, <3>1, TableNoLock
  <2> QED BY <2>1, <2>2
<1>2. ASSUME NEW j \in Jobs, OpenNotif(j) PROVE TableOf(i)'
  BY <1>0, <1>2, TableFrame, BusyFacts, ZenonT(60) DEF OpenNotif, Goto, Progress, ControlInv,
     ControlOf, Walks, Op, TypeOK, JobType, jobVars, lockVars, tableVars, ghosts
<1>3. ASSUME NEW j \in Jobs, WriteNotif(j) PROVE TableOf(i)'
  BY <1>0, <1>3, TableFrame, BusyFacts DEF WriteNotif, Goto, Progress, ControlInv,
     ControlOf, Walks, Op, TypeOK, JobType, jobVars, lockVars, tableVars, ghosts
<1>4. ASSUME NEW j \in Jobs, BrokenPipe(j) PROVE TableOf(i)'
  BY <1>0, <1>4, TableFrame, BusyFacts DEF BrokenPipe, Goto, Progress, ControlInv,
     ControlOf, Walks, Op, TypeOK, JobType, jobVars, lockVars, tableVars, ghosts
<1>5. ASSUME NEW j \in Jobs, WildHead(j) PROVE TableOf(i)'
  BY <1>0, <1>5, TableFrame, BusyFacts DEF WildHead, Goto, Progress, ControlInv,
     ControlOf, Walks, Op, TypeOK, JobType, jobVars, lockVars, tableVars, ghosts
<1>6. ASSUME NEW j \in Jobs, Find(j) PROVE TableOf(i)'
  <2>0. PICK x \in Cells \cup {NoCell} : Follow(j, x)
    BY <1>6, WalkFacts
  <2>1. CASE i # j
    BY <1>0, <1>6, <2>1, TableFrame, <2>0, FollowCases DEF Find, Goto, Progress, Op,
       TypeOK, JobType, LockType, jobVars, lockVars, tableVars, ghosts
  <2>2. CASE i = j
    <3>1. /\ Op(j) \in {"WRITE", "DELETE"} /\ Len(cmd[j].keys) \in Nat
          /\ idx[j] \in 1..Len(cmd[j].keys) /\ pc[j] \in {"find", "open", "next"}
          /\ pc[j] = "find" => Op(j) = "DELETE"
      BY <1>0, <1>6, <2>2, BusyFacts DEF Find, ControlOf, Walks
    <3>2. Progress(j)' = Progress(j)
      BY <1>6, <2>0, <3>1, FollowCases DEF Find, Progress, Op
    <3> QED BY <1>0, <1>6, <2>2, <3>2, TableFrame DEF Find, jobVars, lockVars,
       tableVars, ghosts
  <2> QED BY <2>1, <2>2
<1>7. ASSUME NEW j \in Jobs, NextCell(j) PROVE TableOf(i)'
  <2>0. PICK x \in Cells \cup {NoCell} : Follow(j, x)
    BY <1>7, WalkFacts
  <2>1. CASE i # j
    <3>1. pc'[i] = pc[i] /\ idx'[i] = idx[i]
      BY <2>0, <2>1, FollowCases
    <3>2. /\ cmd' = cmd /\ out' = out /\ value' = value /\ stable' = stable
          /\ writer' = writer /\ readers' = readers
      BY <1>7 DEF NextCell, jobVars, lockVars, tableVars, ghosts
    <3>3. Progress(i)' = Progress(i)
      BY <3>1, <3>2 DEF Progress, Op
    <3> QED BY <1>0, <3>2, <3>3, TableFrame
  <2>2. CASE i = j
    <3>1. /\ Op(j) \in {"WRITE", "DELETE"} /\ Len(cmd[j].keys) \in Nat
          /\ idx[j] \in 1..Len(cmd[j].keys) /\ pc[j] \in {"find", "open", "next"}
          /\ pc[j] = "find" => Op(j) = "DELETE"
      BY <1>0, <1>7, <2>2, BusyFacts DEF NextCell, ControlOf, Walks
    <3>2. Progress(j)' = Progress(j)
      BY <1>7, <2>0, <3>1, FollowCases DEF NextCell, Progress, Op
    <3> QED BY <1>0, <1>7, <2>2, <3>2, TableFrame DEF NextCell, jobVars, lockVars,
       tableVars, ghosts
  <2> QED BY <2>1, <2>2
<1>8. ASSUME NEW j \in Jobs, DanglingCell(j) PROVE TableOf(i)'
  <2>0. PICK x \in Cells \cup {NoCell} : Follow(j, x)
    BY <1>8, WalkFacts
  <2>1. CASE i # j
    BY <1>0, <1>8, <2>1, TableFrame, <2>0, FollowCases DEF DanglingCell, Goto, Progress,
       Op, TypeOK, JobType, LockType, jobVars, lockVars, tableVars, ghosts
  <2>2. CASE i = j
    <3>1. /\ Op(j) \in {"WRITE", "DELETE"} /\ Len(cmd[j].keys) \in Nat
          /\ idx[j] \in 1..Len(cmd[j].keys) /\ pc[j] \in {"find", "open", "next"}
          /\ pc[j] = "find" => Op(j) = "DELETE"
      BY <1>0, <1>8, <2>2, BusyFacts DEF DanglingCell, ControlOf, Walks
    <3>2. Progress(j)' = Progress(j)
      BY <1>8, <2>0, <3>1, FollowCases DEF DanglingCell, Progress, Op
    <3> QED BY <1>0, <1>8, <2>2, <3>2, TableFrame DEF DanglingCell, jobVars, lockVars,
       tableVars, ghosts
  <2> QED BY <2>1, <2>2
<1>9. ASSUME NEW j \in Jobs, Wrlock(j) PROVE TableOf(i)'
  <2>1. CASE i # j
    BY <1>0, <1>9, <2>1, TableFrame, NoneAssumption DEF Wrlock, Goto, Progress, Op,
       TypeOK, JobType, LockType, jobVars, lockVars, tableVars, ghosts
  <2>2. CASE i = j /\ writer = j
    BY <1>0, <1>9, <2>2, TableFrame DEF Wrlock, Goto, Progress, ControlInv, ControlOf,
       LockOf, HoldsWrite, Op, TypeOK, JobType, jobVars, lockVars, tableVars, ghosts
  <2>3. CASE i = j /\ LockFree
    <3>1. value = stable /\ idx[j] = 1 /\ out[j] = <<>> /\ Op(j) \in {"WRITE", "DELETE"}
      BY <1>0, <1>9, <2>3, NoneAssumption, BusyFacts DEF Wrlock, LockFree, TableInv,
         ControlOf, LockOf, HoldsWrite
    <3>2. /\ Progress(j)' = 0 /\ value' = stable' /\ out'[j] = <<>> /\ j \notin readers'
          /\ Op(j)' = Op(j)
      BY <1>9, <2>3, <3>1 DEF Wrlock, Goto, LockFree, Progress, Op, TypeOK, JobType,
         jobVars, lockVars, tableVars, ghosts
    <3> QED BY <2>3, <3>2 DEF TableOf, Atomic!Wrote, Atomic!Removed
  <2> QED BY <1>9, <2>1, <2>2, <2>3 DEF Wrlock
<1>10. ASSUME NEW j \in Jobs, Overwrite(j) PROVE TableOf(i)'
  <2>0. PICK x \in Cells \cup {NoCell} : Follow(j, x)
    BY <1>10, WalkFacts
  <2>1. writer = j /\ readers = {} /\ Op(j) = "WRITE"
    BY <1>10, NoneAssumption DEF Overwrite, LockDiscipline, HoldsWrite, ControlInv,
       ControlOf
  <2>2. CASE i # j
    BY <1>10, <2>1, <2>2, TableNoLock DEF Overwrite, lockVars
  <2>3. CASE i = j
    <3> DEFINE n == idx[j] - 1
    <3>1. /\ n \in Nat /\ Len(cmd[j].keys) \in Nat /\ idx[j] \in 1..Len(cmd[j].keys)
          /\ \A h \in 1..(n + 1) : cmd[j].keys[h] \in Keys
          /\ n + 1 = idx[j] /\ pc[j] = "put"
      BY <1>10, BusyFacts DEF Overwrite
    <3>2. Atomic!Wrote(stable, value, cmd[j].keys, cmd[j].vals, n)
      BY <1>0, <2>1, <2>3, <3>1 DEF TableOf, Progress
    <3>3. Atomic!Wrote(stable, [value EXCEPT ![cmd[j].keys[n + 1]] = cmd[j].vals[n + 1]],
                       cmd[j].keys, cmd[j].vals, n + 1)
      BY <3>1, <3>2, WroteNext DEF TypeOK, TableType
    <3>4. value' = [value EXCEPT ![cmd[j].keys[n + 1]] = cmd[j].vals[n + 1]]
      BY <1>10, <3>1 DEF Overwrite, Key
    <3>5. Progress(j)' = n + 1
      BY <1>10, <2>0, <2>1, <3>1, FollowCases DEF Overwrite, Progress, Op, Locs
    <3>6. cmd' = cmd /\ stable' = stable /\ Op(j)' = "WRITE" /\ j \notin readers'
      BY <1>10, <2>1 DEF Overwrite, Op, ghosts, lockVars
    <3>7. Atomic!Wrote(stable', value', cmd'[j].keys, cmd'[j].vals, Progress(j)')
      BY <3>3, <3>4, <3>5, <3>6 DEF Atomic!Wrote
    <3> QED BY <2>3, <3>6, <3>7 DEF TableOf
  <2> QED BY <2>2, <2>3
<1>11. ASSUME NEW j \in Jobs, NewPair(j) PROVE TableOf(i)'
  <2>0. NextPair(j, "put")
    BY <1>11 DEF NewPair
  <2>1. writer = j /\ readers = {} /\ Op(j) = "WRITE"
    BY <1>11, NoneAssumption DEF NewPair, LockDiscipline, HoldsWrite, ControlInv, ControlOf
  <2>2. CASE i # j
    BY <1>11, <2>1, <2>2, TableNoLock DEF NewPair, lockVars
  <2>3. CASE i = j
    <3> DEFINE n == idx[j] - 1
    <3>1. /\ n \in Nat /\ Len(cmd[j].keys) \in Nat /\ idx[j] \in 1..Len(cmd[j].keys)
          /\ \A h \in 1..(n + 1) : cmd[j].keys[h] \in Keys
          /\ n + 1 = idx[j] /\ pc[j] = "put"
      BY <1>11, BusyFacts DEF NewPair
    <3>2. Atomic!Wrote(stable, value, cmd[j].keys, cmd[j].vals, n)
      BY <1>0, <2>1, <2>3, <3>1 DEF TableOf, Progress
    <3>3. Atomic!Wrote(stable, [value EXCEPT ![cmd[j].keys[n + 1]] = cmd[j].vals[n + 1]],
                       cmd[j].keys, cmd[j].vals, n + 1)
      BY <3>1, <3>2, WroteNext DEF TypeOK, TableType
    <3>4. value' = [value EXCEPT ![cmd[j].keys[n + 1]] = cmd[j].vals[n + 1]]
      BY <1>11, <3>1 DEF NewPair, Key
    <3>5. Progress(j)' = n + 1
      BY <1>11, <2>0, <2>1, <3>1, NextPairCases DEF NewPair, Progress, Op, Locs
    <3>6. cmd' = cmd /\ stable' = stable /\ Op(j)' = "WRITE" /\ j \notin readers'
      BY <1>11, <2>1 DEF NewPair, Op, ghosts, lockVars
    <3>7. Atomic!Wrote(stable', value', cmd'[j].keys, cmd'[j].vals, Progress(j)')
      BY <3>3, <3>4, <3>5, <3>6 DEF Atomic!Wrote
    <3> QED BY <2>3, <3>6, <3>7 DEF TableOf
  <2> QED BY <2>2, <2>3
<1>12. ASSUME NEW j \in Jobs, Drop(j) PROVE TableOf(i)'
  <2>1. writer = j /\ readers = {} /\ Op(j) = "DELETE"
    BY <1>12, NoneAssumption DEF Drop, LockDiscipline, HoldsWrite, ControlInv, ControlOf
  <2>2. CASE i # j
    BY <1>12, <2>1, <2>2, TableNoLock DEF Drop, lockVars
  <2>3. CASE i = j
    <3> DEFINE n == idx[j] - 1
               o == IF value[Key(j)] = Absent THEN Absent ELSE Deleted
    <3>1. /\ n \in Nat /\ Len(cmd[j].keys) \in Nat /\ idx[j] \in 1..Len(cmd[j].keys)
          /\ \A h \in 1..Len(cmd[j].keys) : cmd[j].keys[h] \in Keys
          /\ n + 1 = idx[j] /\ pc[j] = "drop" /\ Key(j) = cmd[j].keys[n + 1]
      BY <1>12, BusyFacts DEF Drop, Key
    <3>2. /\ Atomic!Removed(stable, value, cmd[j].keys, n) /\ Len(out[j]) = n
          /\ \A h \in 1..n : out[j][h] =
               IF Atomic!MissingAt(stable, cmd[j].keys, h) THEN Absent ELSE Deleted
      BY <1>0, <2>1, <2>3, <3>1 DEF TableOf, Progress
    <3>3. Atomic!Removed(stable, [value EXCEPT ![cmd[j].keys[n + 1]] = Absent],
                         cmd[j].keys, n + 1)
      BY <3>1, <3>2, RemovedNext DEF TypeOK, TableType
    <3>4. value' = [value EXCEPT ![cmd[j].keys[n + 1]] = Absent]
      BY <1>12, <3>1 DEF Drop
    <3>5. Progress(j)' = n + 1 /\ cmd' = cmd
      BY <1>12, <2>1, <3>1, NextPairCases DEF Drop, Progress, Op, Locs
    <3>6. stable' = stable /\ Op(j)' = "DELETE" /\ j \notin readers'
      BY <1>12, <2>1, <3>5 DEF Drop, Op, lockVars
    <3>7. (value[Key(j)] = Absent) <=> Atomic!MissingAt(stable, cmd[j].keys, n + 1)
      <4>1. value[Key(j)] = IF \E h \in 1..n : cmd[j].keys[h] = Key(j) THEN Absent ELSE stable[Key(j)]
        BY <3>1, <3>2, SMTT(30) DEF Atomic!Removed
      <4>2. (n + 1) - 1 = n
        BY <3>1
      <4> QED BY <3>1, <4>1, <4>2 DEF Atomic!MissingAt
    <3>8. out'[j] = Append(out[j], o) /\ out[j] \in Seq(Values \cup {Absent, Deleted})
      BY <1>12 DEF Drop, TypeOK, JobType
    <3>9. Len(out'[j]) = n + 1 /\ out'[j][n + 1] = o /\ \A h \in 1..n : out'[j][h] = out[j][h]
      BY <3>2, <3>8, AppendProperties
    <3>10. \A h \in 1..(n + 1) : out'[j][h] =
             IF Atomic!MissingAt(stable, cmd[j].keys, h) THEN Absent ELSE Deleted
      <4>1. ASSUME NEW h \in 1..(n + 1) PROVE h \in 1..n \/ h = n + 1
        BY <3>1
      <4> QED BY <3>2, <3>7, <3>9, <4>1
    <3>11. \A h \in 1..Progress(j)' : out'[j][h] =
             IF Atomic!MissingAt(stable', cmd'[j].keys, h) THEN Absent ELSE Deleted
      BY <3>5, <3>6, <3>10 DEF Atomic!MissingAt
    <3>12. Atomic!Removed(stable', value', cmd'[j].keys, Progress(j)')
      BY <3>3, <3>4, <3>5, <3>6 DEF Atomic!Removed
    <3> QED BY <2>3, <3>5, <3>6, <3>9, <3>11, <3>12 DEF TableOf
  <2> QED BY <2>2, <2>3
<1>13. ASSUME NEW j \in Jobs, Rdlock(j) PROVE TableOf(i)'
  <2>1. CASE i # j
    BY <1>0, <1>13, <2>1, TableFrame DEF Rdlock, Goto, Progress, Op, TypeOK, JobType,
       LockType, jobVars, lockVars, tableVars, ghosts
  <2>2. CASE i = j
    <3>1. idx[j] = 1 /\ out[j] = <<>> /\ writer = NoJob /\ Op(j) \in Reading
      BY <1>0, <1>13, <2>2, NoneAssumption DEF Rdlock, ControlOf, LockOf, HoldsRead
    <3>2. Progress(j)' = 0 /\ out'[j] = <<>> /\ writer' # j
      BY <1>13, <3>1, NoneAssumption DEF Rdlock, Goto, Progress, Op, Reading, TypeOK,
         JobType
    <3> QED BY <2>2, <3>2 DEF TableOf
  <2> QED BY <2>1, <2>2
<1>14. ASSUME NEW j \in Jobs, LookUp(j) PROVE TableOf(i)'
  <2>1. CASE i # j
    <3>1. pc'[i] = pc[i] /\ idx'[i] = idx[i]
      BY <1>14, <2>1, NextPairCases DEF LookUp, Locs
    <3>2. /\ cmd' = cmd /\ out'[i] = out[i] /\ value' = value /\ stable' = stable
          /\ writer' = writer /\ readers' = readers
      BY <1>14, <2>1 DEF LookUp, TypeOK, JobType, jobVars, lockVars, tableVars, ghosts
    <3>3. Progress(i)' = Progress(i)
      BY <3>1, <3>2 DEF Progress, Op
    <3> QED BY <1>0, <3>2, <3>3, TableFrame
  <2>2. CASE i = j
    <3>1. /\ j \in readers /\ writer = NoJob /\ Op(j) \in Reading /\ value = stable
          /\ Len(cmd[j].keys) \in Nat /\ idx[j] \in 1..Len(cmd[j].keys)
          /\ \A h \in 1..Len(cmd[j].keys) : cmd[j].keys[h] \in Keys
          /\ pc[j] = "look" /\ Key(j) = cmd[j].keys[idx[j]]
      BY <1>0, <1>14, <2>2, BusyFacts DEF LookUp, Key, ControlOf, LockOf, HoldsRead,
         Reading,
         LockDiscipline, TableInv
    <3>2. Len(out[j]) = idx[j] - 1 /\ \A h \in 1..(idx[j] - 1) : out[j][h] = stable[cmd[j].keys[h]]
      BY <1>0, <2>2, <3>1 DEF TableOf, Progress, Reading
    <3>3. /\ out'[j] = Append(out[j], value[Key(j)])
          /\ out[j] \in Seq(Values \cup {Absent, Deleted})
          /\ value[Key(j)] \in Values \cup {Absent, Deleted}
      BY <1>14, <3>1 DEF LookUp, TypeOK, JobType, TableType
    <3>4. /\ Len(out'[j]) = idx[j] /\ out'[j][idx[j]] = value[Key(j)]
          /\ \A h \in 1..(idx[j] - 1) : out'[j][h] = out[j][h]
      BY <3>1, <3>2, <3>3, AppendProperties
    <3>5. \A h \in 1..idx[j] : out'[j][h] = stable[cmd[j].keys[h]]
      BY <3>1, <3>2, <3>4
    <3>6. Progress(j)' = idx[j]
      BY <1>14, <3>1, NextPairCases DEF LookUp, Progress, Op, Locs, Reading
    <3>7. stable' = stable /\ cmd' = cmd /\ writer' # j
      BY <1>14, <3>1, NoneAssumption DEF LookUp, ghosts, lockVars
    <3> QED BY <2>2, <3>4, <3>5, <3>6, <3>7 DEF TableOf
  <2> QED BY <2>1, <2>2
<1>15. ASSUME NEW j \in Jobs, Fork(j) PROVE TableOf(i)'
  <2>1. CASE i # j
    BY <1>0, <1>15, <2>1, TableFrame DEF Fork, Goto, Progress, Op, TypeOK, JobType,
       LockType, jobVars, lockVars, tableVars, ghosts, Locs
  <2>2. CASE i = j
    <3>1. /\ j \in readers /\ writer = NoJob /\ Op(j) \in Reading /\ value = stable
          /\ Len(cmd[j].keys) \in Nat /\ idx[j] \in 1..Len(cmd[j].keys)
          /\ \A h \in 1..Len(cmd[j].keys) : cmd[j].keys[h] \in Keys
          /\ pc[j] = "look" /\ Key(j) = cmd[j].keys[idx[j]]
      BY <1>0, <1>15, <2>2, BusyFacts DEF Fork, Key, ControlOf, LockOf, HoldsRead, Reading,
         LockDiscipline, TableInv
    <3>2. Len(out[j]) = idx[j] - 1 /\ \A h \in 1..(idx[j] - 1) : out[j][h] = stable[cmd[j].keys[h]]
      BY <1>0, <2>2, <3>1 DEF TableOf, Progress, Reading
    <3>3. out'[j] = [h \in 1..Len(cmd[j].keys) |-> value[cmd[j].keys[h]]]
      BY <1>15 DEF Fork, TypeOK, JobType
    <3>4. Len(out'[j]) = Len(cmd[j].keys) /\ \A h \in 1..Len(cmd[j].keys) : out'[j][h] = stable[cmd[j].keys[h]]
      BY <3>1, <3>3
    <3>5. /\ Progress(j)' = Len(cmd[j].keys)
          /\ stable' = stable /\ cmd' = cmd /\ writer' # j
      BY <1>15, <3>1, NoneAssumption DEF Fork, Goto, Progress, Op, TypeOK, JobType,
         ghosts, lockVars
    <3> QED BY <2>2, <3>4, <3>5 DEF TableOf
  <2> QED BY <2>1, <2>2
<1>16. ASSUME NEW j \in Jobs, Unlock(j) PROVE TableOf(i)'
  <2>1. CASE Op(j) \in {"WRITE", "DELETE"}
    <3>1. writer = j /\ readers = {}
      BY <1>16, <2>1, NoneAssumption DEF Unlock, LockDiscipline, HoldsWrite
    <3> QED BY <1>16, <2>1, <3>1, NoneAssumption, TableNoLock DEF Unlock
  <2>2. CASE Op(j) \notin {"WRITE", "DELETE"}
    <3>1. CASE i = j
      <4>1. writer # j
        BY <1>16, <2>2, NoneAssumption, BusyFacts DEF Unlock, LockDiscipline, HoldsRead
      <4> QED BY <1>16, <2>2, <3>1, <4>1, TableNoLock DEF Unlock
    <3>2. CASE i # j
      BY <1>0, <1>16, <2>2, <3>2, TableFrame, ZenonT(60) DEF Unlock, Goto, Progress, Op, TypeOK,
         JobType, jobVars, lockVars, tableVars, ghosts
    <3> QED BY <3>1, <3>2
  <2> QED BY <2>1, <2>2
<1>17. CASE ClientStep
  <2>1. /\ cmd' = cmd /\ idx' = idx /\ out' = out /\ writer' = writer /\ readers' = readers
        /\ value' = value /\ stable' = stable
    BY <1>17 DEF ClientStep, Connect, Listen, Gone, kvs_disconnect_client,
       kvs_subscribe, kvs_unsubscribe, delete_all_subscriptions, HandlerWildHead,
       jobVars, lockVars, tableVars, ghosts
  <2>2. \E C : Abandon(C) \/ UNCHANGED pc
    BY <1>17 DEF ClientStep, Connect, Listen, Gone, kvs_disconnect_client,
       kvs_subscribe, kvs_unsubscribe, delete_all_subscriptions, HandlerWildHead,
       jobVars
  <2>3. pc'[i] = pc[i] \/ (pc[i] = "write" /\ pc'[i] = "broken")
    BY <2>2, AbandonCases
  <2>4. Progress(i)' = Progress(i)
    BY <2>1, <2>3 DEF Progress, Op
  <2> QED BY <1>0, <2>1, <2>4, TableFrame
<1>18. CASE UNCHANGED vars
  BY <1>0, <1>18, TableFrame DEF vars, Progress, Op, jobVars, lockVars, tableVars, ghosts
<1> QED BY <1>1, <1>2, <1>3, <1>4, <1>5, <1>6, <1>7, <1>8, <1>9, <1>10, <1>11, <1>12,
   <1>13, <1>14, <1>15, <1>16, <1>17, <1>18 DEF Next, JobStep

\* ... and that without a writer the table is the one the last writer left.
LEMMA StepStable ==
    ASSUME SafeInv, TableInv, [Next]_vars, writer' = NoJob
    PROVE  value' = stable'
<1> USE DEF SafeInv
<1>1. ASSUME NEW j \in Jobs, Overwrite(j) \/ NewPair(j) \/ Drop(j) PROVE FALSE
  BY <1>1, NoneAssumption DEF Overwrite, NewPair, Drop, LockDiscipline, HoldsWrite, lockVars
<1>2. CASE \E j \in Jobs : Unlock(j)
  <2>1. PICK j \in Jobs : Unlock(j)
    BY <1>2
  <2>2. CASE Op(j) \in {"WRITE", "DELETE"}
    BY <2>1, <2>2 DEF Unlock, tableVars
  <2>3. CASE Op(j) \notin {"WRITE", "DELETE"}
    BY <2>1, <2>3 DEF Unlock, tableVars, TableInv
  <2> QED BY <2>2, <2>3
<1>3. CASE \E j \in Jobs : Wrlock(j)
  BY <1>3, NoneAssumption DEF Wrlock
<1>4. CASE value' = value /\ stable' = stable /\ writer' = writer
  BY <1>4, SMTT(30) DEF TableInv
<1>5. \/ \E j \in Jobs : Overwrite(j) \/ NewPair(j) \/ Drop(j) \/ Unlock(j) \/ Wrlock(j)
      \/ value' = value /\ stable' = stable /\ writer' = writer
  BY ZenonT(60) DEF Next, JobStep, ClientStep, vars, run_job, Find, OpenNotif, WriteNotif, BrokenPipe,
         NextCell, DanglingCell, WildHead, Rdlock, LookUp, Fork, Connect, Listen, Gone,
          kvs_disconnect_client, kvs_subscribe, kvs_unsubscribe,
          delete_all_subscriptions, HandlerWildHead,
         lockVars, tableVars, ghosts
<1> QED BY <1>1, <1>2, <1>3, <1>4, <1>5

\* TableInv is inductive, given the lock discipline.
LEMMA TableInvariant == Spec => []TableInv
<1>1. Init => TableInv
  BY NoneAssumption DEF Init, TableInv, TableOf
<1>2. SafeInv /\ SafeInv' /\ TableInv /\ [Next]_vars => TableInv'
  BY StepTableOf, StepStable DEF TableInv
<1> QED BY <1>1, <1>2, SafeInvariant, PTL DEF Spec

\* Half-way through any command the table is what the first pairs of that one
\* command make of the table it found, and the answers are about that table.
THEOREM TableCorrect == Spec => []TableInv
BY TableInvariant

-----------------------------------------------------------------------------
(* The jobs see an atomic store                                            *)

\* A step of Store is a step of AtomicStore, when it ends a command, or it
\* changes nothing that AtomicStore sees.
LEMMA StepAtomic ==
    ASSUME SafeInv, TableInv, [Next]_vars
    PROVE  [Atomic!AbsNext]_(Atomic!absvars)
<1> USE DEF SafeInv
<1>1. CASE UNCHANGED <<stable, answer>>
  BY <1>1 DEF Atomic!absvars
<1>2. ASSUME NEW j \in Jobs, Unlock(j) PROVE Atomic!AbsNext
  <2> DEFINE c == cmd[j]
  <2>1. /\ c \in Commands /\ c.keys \in Seq(Keys) /\ Len(c.keys) \in Nat
        /\ Op(j) = c.op /\ c.op \in {"WRITE", "READ", "DELETE", "SHOW", "BACKUP"}
        /\ \A i \in 1..Len(c.keys) : c.keys[i] \in Keys
        /\ pc[j] = "unlock" /\ Progress(j) = Len(c.keys)
    BY <1>2, BusyFacts, CommandFacts DEF Unlock, Op, Progress
  <2>2. /\ answer' = [answer EXCEPT ![j] = [cmd |-> c, out |-> out[j]]]
        /\ value' = value /\ value \in [Keys -> Values \cup {Absent}]
        /\ out[j] \in Seq(Values \cup {Absent, Deleted})
    BY <1>2 DEF Unlock, tableVars, TypeOK, TableType, JobType
  <2>3. TableOf(j) /\ ControlOf(j)
    BY DEF TableInv, ControlInv
  <2>4. CASE c.op = "WRITE"
    <3>1. writer = j /\ out[j] = <<>> /\ stable' = value
      BY <1>2, <2>1, <2>3, <2>4 DEF Unlock, LockDiscipline, HoldsWrite, ControlOf
    <3>2. Atomic!Wrote(stable, stable', c.keys, c.vals, Len(c.keys))
      BY <2>1, <2>3, <2>4, <3>1 DEF TableOf
    <3>3. Atomic!Write(j, c)
      BY <2>2, <2>4, <3>1, <3>2 DEF Atomic!Write, Atomic!Answer
    <3> QED BY <2>1, <3>3 DEF Atomic!AbsNext
  <2>5. CASE c.op = "DELETE"
    <3>1. writer = j /\ stable' = value
      BY <1>2, <2>1, <2>5 DEF Unlock, LockDiscipline, HoldsWrite
    <3>2. /\ Atomic!Removed(stable, stable', c.keys, Len(c.keys)) /\ Len(out[j]) = Len(c.keys)
          /\ \A i \in 1..Len(c.keys) :
               out[j][i] = IF Atomic!MissingAt(stable, c.keys, i) THEN Absent ELSE Deleted
      BY <2>1, <2>3, <2>5, <3>1 DEF TableOf
    <3>3. out[j] = [i \in 1..Len(c.keys) |->
                      IF Atomic!MissingAt(stable, c.keys, i) THEN Absent ELSE Deleted]
      BY <2>2, <3>2, LenProperties
    <3>4. Atomic!Delete(j, c)
      BY <2>2, <2>5, <3>1, <3>2, <3>3 DEF Atomic!Delete, Atomic!Answer
    <3> QED BY <2>1, <3>4 DEF Atomic!AbsNext
  <2>6. CASE c.op \in {"READ", "SHOW", "BACKUP"}
    <3>1. j \in readers /\ stable' = stable
      BY <1>2, <2>1, <2>6 DEF Unlock, LockDiscipline, HoldsRead
    <3>2. Len(out[j]) = Len(c.keys) /\ \A i \in 1..Len(c.keys) : out[j][i] = stable[c.keys[i]]
      BY <2>1, <2>3, <3>1 DEF TableOf
    <3>3. out[j] = [i \in 1..Len(c.keys) |-> stable[c.keys[i]]]
      BY <2>2, <3>2, LenProperties, SMTT(30)
    <3>4. Atomic!Look(j, c)
      BY <2>2, <2>6, <3>1, <3>3 DEF Atomic!Look, Atomic!Answer
    <3> QED BY <2>1, <3>4 DEF Atomic!AbsNext
  <2> QED BY <2>1, <2>4, <2>5, <2>6
<1>3. (\E j \in Jobs : Unlock(j)) \/ UNCHANGED <<stable, answer>>
  BY ZenonT(60) DEF Next, JobStep, ClientStep, vars, run_job, Wrlock, Overwrite, NewPair, Find,
         OpenNotif, WriteNotif, BrokenPipe, NextCell, DanglingCell, Drop, WildHead,
         Rdlock, LookUp, Fork, Connect, Listen, Gone,
          kvs_disconnect_client, kvs_subscribe, kvs_unsubscribe,
          delete_all_subscriptions, HandlerWildHead, ghosts
<1> QED BY <1>1, <1>2, <1>3

\* Store implements AtomicStore: to the jobs every command happens at once.
THEOREM StoreIsAtomic == Spec => Linearizable
<1>1. Init => Atomic!AbsInit
  BY DEF Init, Atomic!AbsInit
<1>2. SafeInv /\ TableInv /\ [Next]_vars => [Atomic!AbsNext]_(Atomic!absvars)
  BY StepAtomic
<1> QED BY <1>1, <1>2, SafeInvariant, TableInvariant, PTL
        DEF Spec, Linearizable, Atomic!AbsSpec
=============================================================================
