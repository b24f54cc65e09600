------------------------------- MODULE Store -------------------------------
(***************************************************************************)
(* The shared hash table (server/kvs.c) and the operations on it           *)
(* (server/operations.c), as the job threads of run_job and the client     *)
(* handlers of handle_requests use them at the same time.                  *)
(*                                                                         *)
(* A job command is a sequence of steps that other threads interleave      *)
(* with: taking tablelock, each pair, each notification (its FIFO is       *)
(* opened in one step and written in the next, since the client may leave  *)
(* in between), and the release.  What a handler does to the subscriber    *)
(* lists happens between one wrlock and its unlock, so it is one action.   *)
(* A ClientSubscribed is an address of Cells: after one is freed, another  *)
(* may be allocated at the same address, as malloc does.                   *)
(***************************************************************************)
EXTENDS Integers, Sequences, FiniteSets, SequencesExt

CONSTANTS
    Keys, Values,
    Clients,     \* the notification FIFO paths, one per client id
    Jobs,        \* the job threads
    Cells,       \* the addresses a ClientSubscribed can have (bound)
    Commands,    \* the commands the job files hold: [op, keys, vals]
    MaxCmds,     \* commands a job runs (bound)
    MaxReqs,     \* connections and requests of the clients (bound)
    Absent, Deleted, NoNews, Lost, NoJob, NoCell, NoCmd, Nobody

ASSUME NoneAssumption ==
    NoJob \notin Jobs /\ NoCell \notin Cells /\ Nobody \notin Clients
ASSUME NoValueAssumption ==
    /\ Absent # Deleted
    /\ {Absent, Deleted, NoNews, Lost} \cap Values = {}
ASSUME CommandAssumption ==
    \A c \in Commands :
        /\ c.op \in {"WRITE", "READ", "DELETE", "SHOW", "BACKUP"}
        /\ c.keys \in Seq(Keys) /\ c.keys # <<>>
        /\ c.vals \in Seq(Values)
        /\ c.op = "WRITE" => Len(c.vals) = Len(c.keys)
ASSUME NoCmdAssumption == NoCmd \notin Commands

VARIABLES
    value,       \* the pair of each key, Absent when it has no KeyNode
    wild,        \* the keys whose KeyNode has a Head that is no pointer
    subs,        \* each key's list of ClientSubscribed, first at Head
    who,         \* the notif_pipe_path in a cell, Nobody if it is free
    writer,      \* the job that holds tablelock for writing
    readers,     \* the jobs that hold it for reading
    pc, cmd,     \* where each job is, in which command
    idx,         \* which pair of the command it is at
    ptr,         \* the subscriber its notification loop is at
    fd,          \* whose notification FIFO it has open
    out,         \* what the command has answered so far
    done,        \* the commands it has started
    phase,       \* per client: out, in, reading, gone
    told,        \* the last a client was told of a key it subscribed to
    reqs,        \* connections and requests so far
    alive,       \* the server process has not been killed
    dangling,    \* (history) a cell was freed while a loop stood at it
    stable,      \* (history) the table when a writer last unlocked it
    answer       \* (history) each job's last finished command, its output

tableVars == <<value, wild, subs, who>>
lockVars == <<writer, readers>>
clientVars == <<phase, told, reqs>>
ghosts == <<dangling, stable, answer>>
vars == <<tableVars, lockVars, pc, cmd, idx, ptr, fd, out, done, clientVars,
          alive, ghosts>>

Phases == {"out", "in", "reading", "gone"}
Locs == {"idle", "wrlock", "put", "find", "open", "write", "broken", "next",
         "drop", "rdlock", "look", "unlock"}

Op(j) == cmd[j].op
Key(j) == cmd[j].keys[idx[j]]
First(k) == IF subs[k] = <<>> THEN NoCell ELSE subs[k][1]
FreeCells == {x \in Cells : who[x] = Nobody}
Subscribers(k) == {who[subs[k][p]] : p \in 1..Len(subs[k])}
LockFree == writer = NoJob /\ readers = {}
Open(c) == phase[c] = "reading"     \* c has its notification FIFO open

Init ==
    /\ value = [k \in Keys |-> Absent]
    /\ wild = {}
    /\ subs = [k \in Keys |-> <<>>]
    /\ who = [x \in Cells |-> Nobody]
    /\ writer = NoJob /\ readers = {}
    /\ pc = [j \in Jobs |-> "idle"]
    /\ cmd = [j \in Jobs |-> NoCmd]
    /\ idx = [j \in Jobs |-> 1]
    /\ ptr = [j \in Jobs |-> NoCell]
    /\ fd = [j \in Jobs |-> Nobody]
    /\ out = [j \in Jobs |-> <<>>]
    /\ done = [j \in Jobs |-> 0]
    /\ phase = [c \in Clients |-> "out"]
    /\ told = [c \in Clients |-> [k \in Keys |-> NoNews]]
    /\ reqs = 0
    /\ alive = TRUE
    /\ dangling = FALSE
    /\ stable = [k \in Keys |-> Absent]
    /\ answer = [j \in Jobs |-> [cmd |-> NoCmd, out |-> <<>>]]

-----------------------------------------------------------------------------
(* The job threads: run_job, one command after the other.                  *)

Goto(j, loc) == pc' = [pc EXCEPT ![j] = loc]

\* The for loop over the pairs of the command: the next one, or out of it.
NextPair(j, loc) ==
    IF idx[j] < Len(cmd[j].keys)
    THEN Goto(j, loc) /\ idx' = [idx EXCEPT ![j] = @ + 1]
    ELSE Goto(j, "unlock") /\ UNCHANGED idx

\* The notification loop goes on at cell x, or ends: a WRITE then turns to
\* its next pair, a DELETE to the lock it needs to remove the key.
Follow(j, x) ==
    /\ ptr' = [ptr EXCEPT ![j] = x]
    /\ IF x # NoCell THEN Goto(j, "open") /\ UNCHANGED idx
       ELSE IF Op(j) = "WRITE" THEN NextPair(j, "put")
       ELSE Goto(j, "wrlock") /\ UNCHANGED idx

run_job(j, c) ==
    /\ pc[j] = "idle" /\ done[j] < MaxCmds
    /\ Goto(j, CASE c.op = "WRITE" -> "wrlock"
                 [] c.op = "DELETE" -> "find"
                 [] OTHER -> "rdlock")
    /\ cmd' = [cmd EXCEPT ![j] = c]
    /\ done' = [done EXCEPT ![j] = @ + 1]
    /\ UNCHANGED <<tableVars, lockVars, idx, ptr, fd, out, clientVars, alive, ghosts>>

\* Mutant: the wrlock excludes writers only, as a rdlock in its place would.
WrlockPastReaders(j) ==
    /\ pc[j] = "wrlock"
    /\ writer \in {NoJob, j}
    /\ writer' = j
    /\ Goto(j, IF Op(j) = "WRITE" THEN "put" ELSE "drop")
    /\ UNCHANGED <<tableVars, readers, cmd, idx, ptr, fd, out, done, clientVars,
                   alive, ghosts>>

\* Mutant: the second wrlock of a DELETE blocks, as POSIX allows.
WrlockOnce(j) ==
    /\ pc[j] = "wrlock"
    /\ LockFree
    /\ writer' = j
    /\ Goto(j, IF Op(j) = "WRITE" THEN "put" ELSE "drop")
    /\ UNCHANGED <<tableVars, readers, cmd, idx, ptr, fd, out, done, clientVars,
                   alive, ghosts>>

\* pthread_rwlock_wrlock.  From its second key on a DELETE already owns the
\* lock: glibc answers EDEADLK, which nobody looks at, and it goes on.
Wrlock(j) ==
    /\ pc[j] = "wrlock"
    /\ LockFree \/ writer = j
    /\ writer' = j
    /\ Goto(j, IF Op(j) = "WRITE" THEN "put" ELSE "drop")
    /\ UNCHANGED <<tableVars, readers, cmd, idx, ptr, fd, out, done, clientVars,
                   alive, ghosts>>

\* Mutant: the notification loop starts one cell late.
OverwriteSkipsFirst(j) ==
    /\ pc[j] = "put"
    /\ value[Key(j)] # Absent /\ Key(j) \notin wild
    /\ value' = [value EXCEPT ![Key(j)] = cmd[j].vals[idx[j]]]
    /\ Follow(j, IF Len(subs[Key(j)]) > 1 THEN subs[Key(j)][2] ELSE NoCell)
    /\ UNCHANGED <<wild, subs, who, lockVars, cmd, fd, out, done, clientVars,
                   alive, ghosts>>

\* find_key and write_pair on a key that is there: new value, then its Head.
Overwrite(j) ==
    /\ pc[j] = "put"
    /\ value[Key(j)] # Absent /\ Key(j) \notin wild
    /\ value' = [value EXCEPT ![Key(j)] = cmd[j].vals[idx[j]]]
    /\ Follow(j, First(Key(j)))
    /\ UNCHANGED <<wild, subs, who, lockVars, cmd, fd, out, done, clientVars,
                   alive, ghosts>>

\* write_pair on a key that is not there: malloc leaves whatever was in the
\* memory in Head, which is a null pointer or no pointer at all.
NewPair(j) ==
    /\ pc[j] = "put"
    /\ value[Key(j)] = Absent
    /\ value' = [value EXCEPT ![Key(j)] = cmd[j].vals[idx[j]]]
    /\ wild' \in {wild, wild \cup {Key(j)}}
    /\ NextPair(j, "put")
    /\ UNCHANGED <<subs, who, lockVars, cmd, ptr, fd, out, done, clientVars,
                   alive, ghosts>>

\* Mutant: a DELETE tells nobody.
FindTellsNobody(j) ==
    /\ pc[j] = "find"
    /\ Key(j) \notin wild
    /\ Follow(j, NoCell)
    /\ UNCHANGED <<tableVars, lockVars, cmd, fd, out, done, clientVars, alive, ghosts>>

\* kvs_delete looks the key up and reads its Head before it takes the lock.
Find(j) ==
    /\ pc[j] = "find"
    /\ Key(j) \notin wild
    /\ Follow(j, IF value[Key(j)] = Absent THEN NoCell ELSE First(Key(j)))
    /\ UNCHANGED <<tableVars, lockVars, cmd, fd, out, done, clientVars, alive, ghosts>>

\* open(notif_pipe_path, O_WRONLY | O_NONBLOCK): ENXIO without a reader, and
\* then the notification is dropped.
OpenNotif(j) ==
    /\ pc[j] = "open" /\ ptr[j] \notin FreeCells
    /\ LET c == who[ptr[j]] IN
         \/ /\ Open(c)
            /\ fd' = [fd EXCEPT ![j] = c]
            /\ Goto(j, "write")
            /\ UNCHANGED told
         \/ /\ ~Open(c)
            /\ told' = [told EXCEPT ![c][Key(j)] = Lost]
            /\ Goto(j, "next")
            /\ UNCHANGED fd
    /\ UNCHANGED <<tableVars, lockVars, cmd, idx, ptr, out, done, phase, reqs,
                   alive, ghosts>>

\* Mutant: a DELETE announces a missing key instead of a deleted one.
WriteNotifMissing(j) ==
    /\ pc[j] = "write"
    /\ LET news == IF Op(j) = "WRITE" THEN cmd[j].vals[idx[j]] ELSE Absent
       IN \E n \in {news, Lost} : told' = [told EXCEPT ![fd[j]][Key(j)] = n]
    /\ fd' = [fd EXCEPT ![j] = Nobody]
    /\ Goto(j, "next")
    /\ UNCHANGED <<tableVars, lockVars, cmd, idx, ptr, out, done, phase, reqs,
                   alive, ghosts>>

\* write and close: the client is told, or its pipe is full (EAGAIN).
WriteNotif(j) ==
    /\ pc[j] = "write"
    /\ LET news == IF Op(j) = "WRITE" THEN cmd[j].vals[idx[j]] ELSE Deleted
       IN \E n \in {news, Lost} : told' = [told EXCEPT ![fd[j]][Key(j)] = n]
    /\ fd' = [fd EXCEPT ![j] = Nobody]
    /\ Goto(j, "next")
    /\ UNCHANGED <<tableVars, lockVars, cmd, idx, ptr, out, done, phase, reqs,
                   alive, ghosts>>

\* The reader left after the open: SIGPIPE, which nobody catches or ignores.
BrokenPipe(j) ==
    /\ pc[j] = "broken"
    /\ alive' = FALSE
    /\ UNCHANGED <<tableVars, lockVars, pc, cmd, idx, ptr, fd, out, done,
                   clientVars, ghosts>>

\* client = client->next
NextCell(j) ==
    /\ pc[j] = "next" /\ ptr[j] \notin FreeCells
    /\ \E k \in Keys : \E p \in 1..Len(subs[k]) :
         /\ subs[k][p] = ptr[j]
         /\ Follow(j, IF p < Len(subs[k]) THEN subs[k][p + 1] ELSE NoCell)
    /\ UNCHANGED <<tableVars, lockVars, cmd, fd, out, done, clientVars, alive, ghosts>>

\* The cell was freed while the loop stood at it: its bytes are malloc's, and
\* reading them kills the process or happens to end the loop.
DanglingCell(j) ==
    /\ pc[j] \in {"open", "next"} /\ ptr[j] \in FreeCells
    /\ alive' \in BOOLEAN
    /\ Follow(j, NoCell)
    /\ UNCHANGED <<tableVars, lockVars, cmd, fd, out, done, clientVars, ghosts>>

\* The lists become `lists`; a cell that is in none of them is freed, even if
\* the notification loop of a job stands at it.
SetLists(lists) ==
    /\ subs' = lists
    /\ who' = [x \in Cells |-> IF \E k \in Keys : \E p \in 1..Len(lists[k]) : lists[k][p] = x
                               THEN who[x] ELSE Nobody]
    /\ dangling' = (dangling \/ \E j \in Jobs : ptr[j] # NoCell /\ who'[ptr[j]] = Nobody)

\* delete_pair: unlink the node, free its subscribers, report a missing key.
Drop(j) ==
    /\ pc[j] = "drop" /\ Key(j) \notin wild
    /\ value' = [value EXCEPT ![Key(j)] = Absent]
    /\ SetLists([subs EXCEPT ![Key(j)] = <<>>])
    /\ out' = [out EXCEPT ![j] =
                 Append(@, IF value[Key(j)] = Absent THEN Absent ELSE Deleted)]
    /\ NextPair(j, "find")
    /\ UNCHANGED <<wild, lockVars, cmd, ptr, fd, done, clientVars, alive, stable, answer>>

\* A Head that write_pair left uninitialised is followed.
WildHead(j) ==
    /\ pc[j] \in {"put", "find", "drop"} /\ Key(j) \in wild
    /\ alive' = FALSE
    /\ UNCHANGED <<tableVars, lockVars, pc, cmd, idx, ptr, fd, out, done,
                   clientVars, ghosts>>

\* Mutant: a READ does not wait for the writer.
RdlockPastWriter(j) ==
    /\ pc[j] = "rdlock"
    /\ readers' = readers \cup {j}
    /\ Goto(j, "look")
    /\ UNCHANGED <<tableVars, writer, cmd, idx, ptr, fd, out, done, clientVars,
                   alive, ghosts>>

Rdlock(j) ==
    /\ pc[j] = "rdlock" /\ writer = NoJob
    /\ readers' = readers \cup {j}
    /\ Goto(j, "look")
    /\ UNCHANGED <<tableVars, writer, cmd, idx, ptr, fd, out, done, clientVars,
                   alive, ghosts>>

\* Mutant: the lock is released after the first key.
LookUpReleasing(j) ==
    /\ pc[j] = "look" /\ Op(j) # "BACKUP"
    /\ out' = [out EXCEPT ![j] = Append(@, value[Key(j)])]
    /\ NextPair(j, "look")
    /\ readers' = readers \ {j}
    /\ UNCHANGED <<tableVars, writer, cmd, ptr, fd, done, clientVars, alive, ghosts>>

\* kvs_read and kvs_show, one key at a time.
LookUp(j) ==
    /\ pc[j] = "look" /\ Op(j) # "BACKUP"
    /\ out' = [out EXCEPT ![j] = Append(@, value[Key(j)])]
    /\ NextPair(j, "look")
    /\ UNCHANGED <<tableVars, lockVars, cmd, ptr, fd, done, clientVars, alive, ghosts>>

\* kvs_backup: the child of fork() has a copy of the whole table.
Fork(j) ==
    /\ pc[j] = "look" /\ Op(j) = "BACKUP"
    /\ out' = [out EXCEPT ![j] = [i \in 1..Len(cmd[j].keys) |-> value[cmd[j].keys[i]]]]
    /\ Goto(j, "unlock")
    /\ UNCHANGED <<tableVars, lockVars, cmd, idx, ptr, fd, done, clientVars,
                   alive, ghosts>>

\* pthread_rwlock_unlock, and the command is finished.
Unlock(j) ==
    /\ pc[j] = "unlock"
    /\ IF Op(j) \in {"WRITE", "DELETE"}
       THEN writer' = NoJob /\ stable' = value /\ UNCHANGED readers
       ELSE readers' = readers \ {j} /\ UNCHANGED <<writer, stable>>
    /\ answer' = [answer EXCEPT ![j] = [cmd |-> cmd[j], out |-> out[j]]]
    /\ Goto(j, "idle")
    /\ cmd' = [cmd EXCEPT ![j] = NoCmd]
    /\ idx' = [idx EXCEPT ![j] = 1]
    /\ out' = [out EXCEPT ![j] = <<>>]
    /\ UNCHANGED <<tableVars, ptr, fd, done, clientVars, alive, dangling>>

JobStep(j) ==
    \/ Wrlock(j) \/ Overwrite(j) \/ NewPair(j) \/ Find(j) \/ OpenNotif(j)
    \/ WriteNotif(j) \/ BrokenPipe(j) \/ NextCell(j) \/ DanglingCell(j)
    \/ Drop(j) \/ WildHead(j) \/ Rdlock(j) \/ LookUp(j) \/ Fork(j) \/ Unlock(j)

-----------------------------------------------------------------------------
(* The client handlers, each call between one wrlock and its unlock.       *)

jobVars == <<pc, cmd, idx, ptr, fd, out, done>>

Request == alive /\ LockFree /\ reqs < MaxReqs /\ reqs' = reqs + 1

\* The notification FIFO of every client of C loses its reader: a job that
\* has it open will find the pipe broken.
Abandon(C) ==
    pc' = [j \in Jobs |-> IF pc[j] = "write" /\ fd[j] \in C THEN "broken" ELSE pc[j]]

\* Cell p is the first of client c in the list s.
IsFirst(s, c, p) == who[s[p]] = c /\ \A q \in 1..(p - 1) : who[s[q]] # c

\* Mutant: the list s without its head, whoever that belongs to.
WithoutHead(s, c) == IF s = <<>> THEN s ELSE RemoveAt(s, 1)

\* The list s without the first cell of client c, if there is one.
Without(s, c) ==
    IF \E p \in 1..Len(s) : IsFirst(s, c, p)
    THEN RemoveAt(s, CHOOSE p \in 1..Len(s) : IsFirst(s, c, p))
    ELSE s

\* A client connects (handle_server_pipe); a FIFO of the same name that an
\* earlier process of this id still had open is gone by now ...
Connect(c) ==
    /\ alive /\ reqs < MaxReqs /\ reqs' = reqs + 1
    /\ phase[c] = "out"
    /\ phase' = [phase EXCEPT ![c] = "in"]
    /\ told' = [told EXCEPT ![c] = [k \in Keys |-> NoNews]]
    /\ Abandon({c})
    /\ UNCHANGED <<tableVars, lockVars, cmd, idx, ptr, fd, out, done, alive, ghosts>>

\* ... its process_notifications thread opens the FIFO ...
Listen(c) ==
    /\ phase[c] = "in"
    /\ phase' = [phase EXCEPT ![c] = "reading"]
    /\ UNCHANGED <<tableVars, lockVars, jobVars, told, reqs, alive, ghosts>>

\* ... and it may be killed at any time.
Gone(c) ==
    /\ phase[c] \in {"in", "reading"}
    /\ phase' = [phase EXCEPT ![c] = "gone"]
    /\ Abandon({c})
    /\ UNCHANGED <<tableVars, lockVars, cmd, idx, ptr, fd, out, done, told, reqs,
                   alive, ghosts>>

\* A new cell at the end of the list; subscribing twice adds two cells.
kvs_subscribe(c, k) ==
    /\ Request /\ phase[c] \in {"in", "reading"} /\ k \notin wild
    /\ IF value[k] = Absent THEN UNCHANGED <<subs, who, told>>
       ELSE \E x \in FreeCells :
              /\ who' = [who EXCEPT ![x] = c]
              /\ subs' = [subs EXCEPT ![k] = Append(@, x)]
              /\ told' = [told EXCEPT ![c][k] = NoNews]
    /\ UNCHANGED <<value, wild, lockVars, jobVars, phase, alive, ghosts>>

\* The client's first cell in the list of k, if any, is unlinked and freed.
kvs_unsubscribe(c, k) ==
    /\ Request /\ phase[c] \in {"in", "reading"} /\ k \notin wild
    /\ SetLists([subs EXCEPT ![k] = Without(@, c)])
    /\ told' = [told EXCEPT ![c][k] = NoNews]
    /\ UNCHANGED <<value, wild, lockVars, jobVars, phase, alive, stable, answer>>

\* On DISCONNECT or EOF: in every list, up to the first cell of the client,
\* which may close its FIFO at once or a little later.
kvs_disconnect_client(c) ==
    /\ Request /\ phase[c] # "out" /\ wild = {}
    /\ SetLists([k \in Keys |-> Without(subs[k], c)])
    /\ phase' = [phase EXCEPT ![c] = "out"]
    /\ told' = [told EXCEPT ![c] = [k \in Keys |-> NoNews]]
    /\ Abandon({c}) \/ UNCHANGED pc
    /\ UNCHANGED <<value, wild, lockVars, cmd, idx, ptr, fd, out, done, alive, stable, answer>>

\* The treatment of SIGUSR1: every list is emptied, every session ended.
delete_all_subscriptions ==
    /\ Request /\ wild = {}
    /\ SetLists([k \in Keys |-> <<>>])
    /\ phase' = [c \in Clients |-> "out"]
    /\ told' = [c \in Clients |-> [k \in Keys |-> NoNews]]
    /\ Abandon(Clients) \/ UNCHANGED pc
    /\ UNCHANGED <<value, wild, lockVars, cmd, idx, ptr, fd, out, done, alive, stable, answer>>

\* A handler follows a Head that write_pair left uninitialised.
HandlerWildHead ==
    /\ Request /\ wild # {}
    /\ alive' = FALSE
    /\ UNCHANGED <<tableVars, lockVars, jobVars, phase, told, ghosts>>

ClientStep ==
    \/ \E c \in Clients : Connect(c) \/ Listen(c) \/ Gone(c) \/ kvs_disconnect_client(c)
    \/ \E c \in Clients, k \in Keys : kvs_subscribe(c, k) \/ kvs_unsubscribe(c, k)
    \/ delete_all_subscriptions
    \/ HandlerWildHead

-----------------------------------------------------------------------------
Next ==
    /\ alive
    /\ \/ \E j \in Jobs, c \in Commands : run_job(j, c)
       \/ \E j \in Jobs : JobStep(j)
       \/ ClientStep

\* The kernel runs every job thread; nothing is asked of the clients.
Spec == Init /\ [][Next]_vars /\ \A j \in Jobs : WF_vars(alive /\ JobStep(j))

-----------------------------------------------------------------------------
(* Properties                                                              *)

TableType ==
    /\ value \in [Keys -> Values \cup {Absent}]
    /\ wild \subseteq Keys
    /\ subs \in [Keys -> Seq(Cells)]
    /\ who \in [Cells -> Clients \cup {Nobody}]
LockType ==
    /\ writer \in Jobs \cup {NoJob}
    /\ readers \subseteq Jobs
JobType ==
    /\ pc \in [Jobs -> Locs]
    /\ cmd \in [Jobs -> Commands \cup {NoCmd}]
    /\ idx \in [Jobs -> Nat \ {0}]
    /\ ptr \in [Jobs -> Cells \cup {NoCell}]
    /\ fd \in [Jobs -> Clients \cup {Nobody}]
    /\ out \in [Jobs -> Seq(Values \cup {Absent, Deleted})]
    /\ done \in [Jobs -> Nat]
ClientType ==
    /\ phase \in [Clients -> Phases]
    /\ told \in [Clients -> [Keys -> Values \cup {Deleted, NoNews, Lost}]]
    /\ reqs \in Nat
GhostType ==
    /\ alive \in BOOLEAN /\ dangling \in BOOLEAN
    /\ stable \in [Keys -> Values \cup {Absent}]

\* Every variable keeps to its type.
TypeOK == TableType /\ LockType /\ JobType /\ ClientType /\ GhostType

\* Where a job must hold tablelock: to write, from the first pair on; to
\* delete, from the first removal on; to read, at every look.
HoldsWrite(j) ==
    \/ pc[j] \in {"put", "drop"}
    \/ pc[j] # "idle" /\ pc[j] # "wrlock" /\ Op(j) = "WRITE"
    \/ pc[j] # "idle" /\ Op(j) = "DELETE" /\ (idx[j] > 1 \/ pc[j] = "unlock")
HoldsRead(j) ==
    pc[j] \in {"look", "unlock"} /\ Op(j) \in {"READ", "SHOW", "BACKUP"}

\* Nobody changes the table while another job is anywhere inside its WRITE,
\* its READ, or a DELETE past its first removal, the notifications and the
\* early EDEADLK of a DELETE included.
LockDiscipline ==
    /\ \A j \in Jobs : (writer = j) <=> HoldsWrite(j)
    /\ \A j \in Jobs : (j \in readers) <=> HoldsRead(j)
    /\ writer # NoJob => readers = {}

\* How far the command of job j has got, in pairs that have taken effect.
Progress(j) ==
    CASE pc[j] = "unlock" -> Len(cmd[j].keys)
      [] pc[j] # "unlock" /\ Op(j) = "WRITE" /\ pc[j] # "put" -> idx[j]
      [] OTHER -> idx[j] - 1

Atomic == INSTANCE AtomicStore WITH kv <- stable

\* What the command of job j, half-way, has made of the table it found, and
\* what it has put out about it.
TableOf(j) ==
    /\ writer = j /\ Op(j) = "WRITE" =>
         Atomic!Wrote(stable, value, cmd[j].keys, cmd[j].vals, Progress(j))
    /\ writer = j /\ Op(j) = "DELETE" =>
         /\ Atomic!Removed(stable, value, cmd[j].keys, Progress(j))
         /\ Len(out[j]) = Progress(j)
         /\ \A i \in 1..Progress(j) :
              out[j][i] = IF Atomic!MissingAt(stable, cmd[j].keys, i) THEN Absent ELSE Deleted
    /\ j \in readers =>
         /\ Len(out[j]) = Progress(j)
         /\ \A i \in 1..Progress(j) : out[j][i] = stable[cmd[j].keys[i]]

\* Half-way through a WRITE or a DELETE the table is exactly what the first
\* pairs of that one command make of the table it found; with no writer it is
\* what the last writer left; and every answer is about that table.
TableInv == (writer = NoJob => value = stable) /\ \A j \in Jobs : TableOf(j)

\* Job j is telling the subscribers of k, or is about to remove k.
Announcing(j, k) ==
    /\ pc[j] \notin {"idle", "unlock"} /\ Key(j) = k
    /\ \/ pc[j] \in {"open", "write", "broken", "next"}
       \/ pc[j] \in {"wrlock", "drop"} /\ Op(j) = "DELETE"

\* A client subscribed to a key that is there has last been told of its
\* value, unless the FIFO refused a notification or one is on its way.
UpToDate ==
    \A c \in Clients, k \in Keys :
        /\ value[k] # Absent /\ c \in Subscribers(k)
        /\ \A j \in Jobs : ~Announcing(j, k)
        => told[c][k] \in {NoNews, Lost, value[k]}

\* A client whose session lives believes that key k has the value it was last
\* told, and with every job idle it does.  This is the promise of automatic
\* updates; it holds with one job, and fails with two (run store_race).
NoFalseBelief ==
    \A c \in Clients, k \in Keys :
        /\ phase[c] # "out" /\ told[c][k] \in Values /\ alive /\ ~dangling
        /\ \A j \in Jobs : pc[j] = "idle"
        => value[k] = told[c][k]

\* A subscription ends only by a request of its own client, with the end of
\* its session, with the removal of its key, or with SIGUSR1.
SubscriptionKept ==
    [][\A c \in Clients, k \in Keys :
          c \in Subscribers(k) /\ c \notin Subscribers(k)'
          => \/ value'[k] = Absent
             \/ kvs_unsubscribe(c, k) \/ kvs_disconnect_client(c)
             \/ delete_all_subscriptions]_vars

\* Every command that starts ends, unless the server is killed.
CommandsEnd == \A j \in Jobs : pc[j] # "idle" ~> pc[j] = "idle" \/ ~alive

\* The jobs see what AtomicStore promises, with the table as of the last
\* unlock by a writer.
Linearizable == Atomic!AbsSpec
=============================================================================
