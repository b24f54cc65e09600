---------------------------- MODULE AtomicStore ----------------------------
(***************************************************************************)
(* What the key-value store promises to the job files: every WRITE, READ,  *)
(* DELETE, SHOW and BACKUP command takes effect in one instant, on the     *)
(* whole table, whatever the other jobs and the client handlers are doing. *)
(* Store implements this specification.                                    *)
(***************************************************************************)
EXTENDS Integers, Sequences

CONSTANTS Keys, Values, Jobs,
          Commands,   \* the commands a job file may hold: [op, keys, vals]
          Absent,     \* no pair for the key (KVSMISSING, KVSERROR)
          Deleted,    \* a pair was there and has been removed
          NoCmd       \* before the first command of a job

VARIABLES kv,         \* the table: a value, or Absent, for every key
          answer      \* per job, its last command and what it answered

absvars == <<kv, answer>>

\* A DELETE answers KVSMISSING for a key that is not there, which is also
\* what a key named twice in one command is the second time.
MissingAt(table, keys, i) ==
    \/ table[keys[i]] = Absent
    \/ \E h \in 1..(i - 1) : keys[h] = keys[i]

\* The first n pairs of a WRITE turn table `before` into table `after`: of
\* several values for one key the last one stays.
Wrote(before, after, keys, vals, n) ==
    /\ \A k \in Keys :
         (\A i \in 1..n : keys[i] # k) => after[k] = before[k]
    /\ \A i \in 1..n :
         (\A h \in (i + 1)..n : keys[h] # keys[i]) => after[keys[i]] = vals[i]

\* The first n keys of a DELETE are gone from `after`, the others untouched.
Removed(before, after, keys, n) ==
    \A k \in Keys :
        after[k] = IF \E i \in 1..n : keys[i] = k THEN Absent ELSE before[k]

AbsInit ==
    /\ kv = [k \in Keys |-> Absent]
    /\ answer = [j \in Jobs |-> [cmd |-> NoCmd, out |-> <<>>]]

Answer(j, c, out) ==
    answer' = [answer EXCEPT ![j] = [cmd |-> c, out |-> out]]

Write(j, c) ==
    /\ c.op = "WRITE"
    /\ kv' \in [Keys -> Values \cup {Absent}]
    /\ Wrote(kv, kv', c.keys, c.vals, Len(c.keys))
    /\ Answer(j, c, <<>>)

Delete(j, c) ==
    /\ c.op = "DELETE"
    /\ kv' \in [Keys -> Values \cup {Absent}]
    /\ Removed(kv, kv', c.keys, Len(c.keys))
    /\ Answer(j, c, [i \in 1..Len(c.keys) |->
                       IF MissingAt(kv, c.keys, i) THEN Absent ELSE Deleted])

\* READ answers the values of its keys; SHOW and BACKUP those of every key.
Look(j, c) ==
    /\ c.op \in {"READ", "SHOW", "BACKUP"}
    /\ Answer(j, c, [i \in 1..Len(c.keys) |-> kv[c.keys[i]]])
    /\ UNCHANGED kv

AbsNext == \E j \in Jobs, c \in Commands : Write(j, c) \/ Delete(j, c) \/ Look(j, c)

AbsSpec == AbsInit /\ [][AbsNext]_absvars
=============================================================================
