------------------------------ MODULE Backups ------------------------------
(***************************************************************************)
(* The BACKUP command of the job threads: run_job counts the backups under *)
(* a mutex and waits for a child process once max_backups of them have     *)
(* been started, kvs_backup forks a child that writes the copy of the      *)
(* table it has got.  active_backups never goes down (the only decrement,  *)
(* at the end of main, is never reached: dispatch_threads does not return) *)
(* so that from then on every BACKUP begins with one wait(NULL).           *)
(***************************************************************************)
EXTENDS Integers, FiniteSets

CONSTANTS
    Jobs,          \* the job threads
    max_backups,   \* of the command line
    MaxCommands,   \* BACKUP commands in the files of one job thread (bound)
    Nobody

ASSUME JobsAssumption == IsFiniteSet(Jobs) /\ Nobody \notin Jobs
ASSUME MaxBackupsAssumption == max_backups \in Nat \ {0}
ASSUME MaxCommandsAssumption == MaxCommands \in Nat

VARIABLES
    active_backups,
    mutex,         \* who holds n_current_backups_lock
    pc,            \* where each job thread is
    done,          \* the BACKUP commands it has begun
    running,       \* child processes that write
    exited         \* child processes that nobody has waited for

vars == <<active_backups, mutex, pc, done, running, exited>>

Locs == {"idle", "lock", "count", "wait", "unlock", "fork"}

Init ==
    /\ active_backups = 0
    /\ mutex = Nobody
    /\ pc = [j \in Jobs |-> "idle"]
    /\ done = [j \in Jobs |-> 0]
    /\ running = 0
    /\ exited = 0

Goto(j, loc) == pc' = [pc EXCEPT ![j] = loc]

\* run_job reads a BACKUP command.
Backup(j) ==
    /\ pc[j] = "idle" /\ done[j] < MaxCommands
    /\ done' = [done EXCEPT ![j] = @ + 1]
    /\ Goto(j, "lock")
    /\ UNCHANGED <<active_backups, mutex, running, exited>>

Lock(j) ==
    /\ pc[j] = "lock" /\ mutex = Nobody
    /\ mutex' = j
    /\ Goto(j, "count")
    /\ UNCHANGED <<active_backups, done, running, exited>>

\* Mutant: nobody waits.
CountOnly(j) ==
    /\ pc[j] = "count"
    /\ active_backups' = active_backups + 1
    /\ Goto(j, "unlock")
    /\ UNCHANGED <<mutex, done, running, exited>>

Count(j) ==
    /\ pc[j] = "count"
    /\ IF active_backups >= max_backups
       THEN Goto(j, "wait") /\ UNCHANGED active_backups
       ELSE Goto(j, "unlock") /\ active_backups' = active_backups + 1
    /\ UNCHANGED <<mutex, done, running, exited>>

\* Mutant: wait(NULL) is repeated until it has got a child.
WaitForChild(j) ==
    /\ pc[j] = "wait"
    /\ exited > 0 /\ exited' = exited - 1
    /\ Goto(j, "unlock")
    /\ UNCHANGED <<active_backups, mutex, done, running>>

\* wait(NULL), still under the mutex: some child that has exited is reaped;
\* with no child at all it returns at once (ECHILD), which nobody looks at.
Wait(j) ==
    /\ pc[j] = "wait"
    /\ \/ exited > 0 /\ exited' = exited - 1
       \/ exited = 0 /\ running = 0 /\ UNCHANGED exited
    /\ Goto(j, "unlock")
    /\ UNCHANGED <<active_backups, mutex, done, running>>

Unlock(j) ==
    /\ pc[j] = "unlock"
    /\ mutex' = Nobody
    /\ Goto(j, "fork")
    /\ UNCHANGED <<active_backups, done, running, exited>>

\* fork(), which may fail: the command is then reported and forgotten.
Fork(j) ==
    /\ pc[j] = "fork"
    /\ running' \in {running, running + 1}
    /\ Goto(j, "idle")
    /\ UNCHANGED <<active_backups, mutex, done, exited>>

\* A child has written its file and exits.
Exit ==
    /\ running > 0
    /\ running' = running - 1
    /\ exited' = exited + 1
    /\ UNCHANGED <<active_backups, mutex, pc, done>>

JobStep(j) == Lock(j) \/ Count(j) \/ Wait(j) \/ Unlock(j) \/ Fork(j)

Next == Exit \/ \E j \in Jobs : Backup(j) \/ JobStep(j)

\* Threads and children run; how the mutex chooses is up to it.
Spec == Init /\ [][Next]_vars /\ WF_vars(Exit) /\ \A j \in Jobs : WF_vars(JobStep(j))

-----------------------------------------------------------------------------
(* Properties                                                              *)

\* Every variable keeps to its type.
TypeOK ==
    /\ active_backups \in Nat
    /\ mutex \in Jobs \cup {Nobody}
    /\ pc \in [Jobs -> Locs]
    /\ done \in [Jobs -> Nat]
    /\ running \in Nat /\ exited \in Nat

\* The job threads between the count and the fork of a backup.
Starting == {j \in Jobs : pc[j] \in {"unlock", "fork"}}

Larger(m, n) == IF m >= n THEN m ELSE n

\* However many BACKUP commands there are, the children, those nobody has
\* waited for included, are never more than max_backups or, if that is more,
\* the job threads: the ECHILD of threads that all wait before any has forked
\* lets each of them have one child.
ChildrenBounded ==
    running + exited + Cardinality(Starting) <= Larger(max_backups, Cardinality(Jobs))

\* No more than max_backups children write at the same time, as the comment
\* on max_backups says.  False of the code with more job threads than that.
BackupLimit == running <= max_backups
=============================================================================
