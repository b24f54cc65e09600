-------------------------------- MODULE Jobs --------------------------------
(***************************************************************************)
(* The job threads (get_file): they share one directory stream under       *)
(* directory_mutex, take a job file each, run its BACKUP commands as       *)
(* Backups says, and come back for the next one.                           *)
(*                                                                         *)
(* readdir returns a pointer into the buffer of the stream, which is used  *)
(* up before the next Batch entries are read over it.  get_file copies the *)
(* path under the mutex, but hands d_name itself to run_job.  kvs_backup   *)
(* makes the name of a backup from what it finds there by then, with a     *)
(* strtok that writes a '\0' into the buffer, and an snprintf that drops   *)
(* what bck_name does not take.  What lies between the names in the buffer *)
(* is taken to hold no dot: strtok cuts nothing there.                     *)
(*                                                                         *)
(* A file name is the sequence of its parts between the dots, a part the   *)
(* sequence of its characters.                                             *)
(***************************************************************************)
EXTENDS Backups, Sequences

CONSTANTS
    Entries,       \* the names in the directory whose paths are not too long
    Broken,        \* those of which in or out file cannot be opened
    job,           \* the last part of the name of a job file
    Chars,         \* the characters of file names, but the dot
    Decimal,       \* what %ld makes of the number of a backup
    Room,          \* what bck_name takes behind the directory and its slash
    Batch,         \* how many entries the buffer of the stream holds
    NoEntry,
    Elsewhere      \* a pointer to bytes of the buffer that are no name

Numbers == 1..MaxCommands

\* Where a pointer may lead: the d_name of an entry, or a character of it.
StartOf(e) == [entry |-> e, part |-> 1, from |-> 1]
Within(e) ==
    UNION {{[entry |-> e, part |-> i, from |-> k] : k \in 1..Len(e[i])} : i \in 1..Len(e)}
Pointers == UNION {{StartOf(e)} \cup Within(e) : e \in Entries}

\* The names that are left of entries that have been cut.
Shortened == UNION {{SubSeq(e, 1, i) : i \in 1..Len(e)} : e \in Entries}

ASSUME EntriesAssumption ==
    /\ IsFiniteSet(Entries) /\ Entries \subseteq Seq(Seq(Chars)) \ {<<>>}
    /\ Broken \subseteq Entries
    /\ job \in Seq(Chars) \ {<<>>}
    /\ {"-", "b", "c", "k"} \subseteq Chars /\ "." \notin Chars
ASSUME NoNameAssumption ==
    /\ NoEntry \notin Pointers /\ NoEntry \notin Shortened
    /\ Elsewhere \notin Pointers /\ NoEntry # Elsewhere
ASSUME DecimalAssumption ==
    /\ Decimal \in [Numbers -> Seq(Chars \ {"-"})]
    /\ \A m, n \in Numbers : Decimal[m] = Decimal[n] => m = n
ASSUME BufferAssumption == Room \in Nat /\ Batch \in Nat \ {0}

VARIABLES
    dirmutex,      \* who holds directory_mutex
    unread,        \* the entries of the directory not in the buffer yet
    buffer,        \* those in the buffer that no thread has got yet
    left,          \* how many parts of each name a '\0' has left
    fills,         \* how often the buffer has been filled
    at,            \* where each thread is in get_file
    name,          \* the d_name of its entry, a pointer into the buffer
    path,          \* its in_path
    file_backups,  \* of run_job
    ran,           \* history: how often each file has been opened and run
    begun          \* history: the files that the backups of each one went to

streamVars == <<dirmutex, unread, buffer, fills>>
fileVars == <<file_backups, ran, begun>>
jobsVars == <<vars, streamVars, left, at, name, path, fileVars>>

DirLocs == {"start", "readdir", "entry", "copy", "unlock", "open", "run", "fork",
            "leave", "gone"}

\* entry_files takes names that end in ".job" and have something before it.
JobName(n) == Len(n) >= 2 /\ n[Len(n)] = job /\ (Len(n) = 2 => n[1] # <<>>)
JobFiles == {e \in Entries : JobName(e)}

\* What strtok finds there: it skips dots, and its token ends with the first part
\* that has something in it.
Rest(p, i) == IF i = p.part THEN SubSeq(p.entry[i], p.from, Len(p.entry[i])) ELSE p.entry[i]
TokenPart(p) ==
    {i \in (p.part)..Len(p.entry) :
        Rest(p, i) # <<>> /\ \A k \in (p.part)..(i - 1) : Rest(p, k) = <<>>}
First(p) == CHOOSE i \in TokenPart(p) : TRUE
Token(p) == IF p = Elsewhere \/ TokenPart(p) = {} THEN <<>> ELSE Rest(p, First(p))

\* The '\0' at the dot behind it, if the name has not ended before.
Cut(p) ==
    IF p # Elsewhere /\ \E i \in TokenPart(p) : i < left[p.entry]
    THEN [left EXCEPT ![p.entry] = First(p)] ELSE left

\* What the buffer shows of the name of an entry.
Shown(p) == IF p = Elsewhere THEN <<>> ELSE SubSeq(p.entry, 1, left[p.entry])

\* The snprintf of kvs_backup.
WholeName(t, n) == t \o <<"-">> \o Decimal[n] \o <<".", "b", "c", "k">>
BckName(t, n) ==
    SubSeq(WholeName(t, n), 1, IF Len(WholeName(t, n)) <= Room THEN Len(WholeName(t, n)) ELSE Room)

JobsInit ==
    /\ Init
    /\ dirmutex = Nobody
    /\ unread = Entries
    /\ buffer = {}
    /\ left = [e \in Entries |-> Len(e)]
    /\ fills = 0
    /\ at = [j \in Jobs |-> "start"]
    /\ name = [j \in Jobs |-> NoEntry]
    /\ path = [j \in Jobs |-> NoEntry]
    /\ file_backups = [j \in Jobs |-> 0]
    /\ ran = [e \in Entries |-> 0]
    /\ begun = [e \in Entries |-> <<>>]

GoAt(j, loc) == at' = [at EXCEPT ![j] = loc]

\* directory_mutex, on entry and after each file.
DirLock(j) ==
    /\ at[j] = "start" /\ dirmutex = Nobody
    /\ dirmutex' = j
    /\ GoAt(j, "readdir")
    /\ UNCHANGED <<vars, unread, buffer, fills, left, name, path, fileVars>>

\* The next entries are read over those of before: the d_name of another thread
\* may now lead into any of their names, or nowhere.
Refill(j, batch) ==
    /\ Cardinality(batch) <= Batch
    /\ Cardinality(batch) < Batch => batch = unread
    /\ unread' = unread \ batch
    /\ fills' = fills + 1
    /\ \E e \in batch :
         /\ buffer' = batch \ {e}
         /\ \E moved \in [Jobs -> {NoEntry, Elsewhere} \cup UNION {Within(b) : b \in batch}] :
              name' = [k \in Jobs |-> IF k = j THEN StartOf(e)
                                      ELSE IF moved[k] = NoEntry \/ name[k] = NoEntry
                                           THEN name[k] ELSE moved[k]]

\* What readdir does to the stream and to the entry of thread j.
NextEntry(j) ==
    /\ at[j] = "readdir"
    /\ \/ /\ \E e \in buffer : buffer' = buffer \ {e} /\ name' = [name EXCEPT ![j] = StartOf(e)]
          /\ GoAt(j, "entry")
          /\ UNCHANGED <<unread, fills>>
       \/ /\ buffer = {} /\ \E batch \in SUBSET unread : Refill(j, batch)
          /\ GoAt(j, "entry")
       \/ /\ buffer = {} /\ unread = {}
          /\ GoAt(j, "leave")
          /\ UNCHANGED <<unread, buffer, fills, name>>

\* Mutant: the mutex only protects readdir itself.
ReadDirUnlocking(j) ==
    NextEntry(j) /\ dirmutex' = Nobody /\ UNCHANGED <<vars, left, path, fileVars>>

ReadDir(j) == NextEntry(j) /\ UNCHANGED <<vars, dirmutex, left, path, fileVars>>

\* entry_files: a name that is none of a job file is skipped ...
EntryFiles(j) ==
    /\ at[j] = "entry"
    /\ GoAt(j, IF JobName(Shown(name[j])) THEN "copy" ELSE "readdir")
    /\ UNCHANGED <<vars, streamVars, left, name, path, fileVars>>

\* ... of another one, as it is by now, the paths are made.  Without a dot in
\* it, nor in the directory's path, strrchr finds none, and that ends the server.
EntryPaths(j) ==
    /\ at[j] = "copy"
    /\ path' = [path EXCEPT ![j] = Shown(name[j])]
    /\ \/ GoAt(j, "unlock")
       \/ Len(Shown(name[j])) = 1 /\ at' = [k \in Jobs |-> "gone"]
    /\ UNCHANGED <<vars, streamVars, left, name, fileVars>>

\* Mutant: the mutex is kept while the file is run.
DirUnlockForgotten(j) ==
    /\ at[j] = "unlock"
    /\ GoAt(j, "open")
    /\ UNCHANGED <<vars, streamVars, left, name, path, fileVars>>

DirUnlock(j) ==
    /\ at[j] = "unlock"
    /\ dirmutex' = Nobody
    /\ GoAt(j, "open")
    /\ UNCHANGED <<vars, unread, buffer, fills, left, name, path, fileVars>>

\* Mutant: a file that does not open is run all the same.
OpenUnchecked(j) ==
    /\ at[j] = "open"
    /\ GoAt(j, "run")
    /\ ran' = [ran EXCEPT ![path[j]] = @ + 1]
    /\ file_backups' = [file_backups EXCEPT ![j] = 0]
    /\ UNCHANGED <<vars, streamVars, left, name, path, begun>>

\* Both files are opened, or the thread exits; run_job begins.
Open(j) ==
    /\ at[j] = "open"
    /\ IF path[j] \notin Entries \ Broken THEN GoAt(j, "gone") /\ UNCHANGED <<ran, file_backups>>
       ELSE /\ GoAt(j, "run")
            /\ ran' = [ran EXCEPT ![path[j]] = @ + 1]
            /\ file_backups' = [file_backups EXCEPT ![j] = 0]
    /\ UNCHANGED <<vars, streamVars, left, name, path, begun>>

\* A command up to the call of kvs_backup, as in Backups.
Command(j) ==
    /\ at[j] = "run"
    /\ Backup(j) \/ Lock(j) \/ Count(j) \/ Wait(j) \/ Unlock(j)
    /\ UNCHANGED <<streamVars, left, at, name, path, fileVars>>

\* Mutant: the number of the backup is that of the files the thread has run.
BackupNameSame(j) ==
    /\ at[j] = "run" /\ pc[j] = "fork"
    /\ file_backups' = [file_backups EXCEPT ![j] = 1]
    /\ left' = Cut(name[j])
    /\ begun' = [begun EXCEPT ![path[j]] = Append(@, BckName(Token(name[j]), file_backups'[j]))]
    /\ GoAt(j, "fork")
    /\ UNCHANGED <<vars, streamVars, name, path, ran>>

\* kvs_backup makes the name from d_name and file_backups ...
BackupName(j) ==
    /\ at[j] = "run" /\ pc[j] = "fork"
    /\ file_backups' = [file_backups EXCEPT ![j] = @ + 1]
    /\ left' = Cut(name[j])
    /\ begun' = [begun EXCEPT ![path[j]] = Append(@, BckName(Token(name[j]), file_backups'[j]))]
    /\ GoAt(j, "fork")
    /\ UNCHANGED <<vars, streamVars, name, path, ran>>

\* ... and forks.
NamedFork(j) ==
    /\ at[j] = "fork" /\ Fork(j)
    /\ GoAt(j, "run")
    /\ UNCHANGED <<streamVars, left, name, path, fileVars>>

\* End of the job file: back to the directory.  (The model forgets the entry
\* and the path, which nothing reads before they are set again.)
EndOfFile(j) ==
    /\ at[j] = "run" /\ pc[j] = "idle"
    /\ GoAt(j, "start")
    /\ name' = [name EXCEPT ![j] = NoEntry]
    /\ path' = [path EXCEPT ![j] = NoEntry]
    /\ UNCHANGED <<vars, streamVars, left, fileVars>>

\* The end of the directory: the thread exits.
Leave(j) ==
    /\ at[j] = "leave"
    /\ dirmutex' = Nobody
    /\ GoAt(j, "gone")
    /\ UNCHANGED <<vars, unread, buffer, fills, left, name, path, fileVars>>

\* A child of kvs_backup exits.
ChildExit == Exit /\ UNCHANGED <<streamVars, left, at, name, path, fileVars>>

ThreadStep(j) ==
    \/ DirLock(j) \/ ReadDir(j) \/ EntryFiles(j) \/ EntryPaths(j) \/ DirUnlock(j) \/ Open(j)
    \/ Command(j) \/ BackupName(j) \/ NamedFork(j) \/ EndOfFile(j) \/ Leave(j)

JobsNext == ChildExit \/ \E j \in Jobs : ThreadStep(j)

\* Threads and children run; a job file ends.
JobsSpec ==
    /\ JobsInit /\ [][JobsNext]_jobsVars
    /\ WF_jobsVars(ChildExit) /\ \A j \in Jobs : WF_jobsVars(ThreadStep(j))

-----------------------------------------------------------------------------
(* Properties                                                              *)

\* Every variable of the jobs and their backups keeps to its type, and a thread
\* in run_job has a file that it has opened.
JobsTypeOK ==
    /\ TypeOK
    /\ dirmutex \in Jobs \cup {Nobody}
    /\ unread \subseteq Entries /\ buffer \subseteq Entries
    /\ left \in [Entries -> Nat] /\ \A e \in Entries : left[e] \in 1..Len(e)
    /\ fills \in Nat
    /\ at \in [Jobs -> DirLocs]
    /\ \A j \in Jobs :
         /\ name[j] \in {NoEntry, Elsewhere} \cup Pointers
         /\ path[j] \in {NoEntry} \cup Shortened
         /\ at[j] \in {"run", "fork"} => path[j] \in Entries \ Broken /\ name[j] # NoEntry
    /\ file_backups \in [Jobs -> Nat]
    /\ ran \in [Entries -> Nat]
    /\ begun \in [Entries -> Seq(Seq(Chars \cup {"."}))]

\* No job file's name is that of another entry up to one of its dots.
Distinguishable ==
    \A e \in Entries, f \in JobFiles : \A i \in 1..Len(e) : SubSeq(e, 1, i) = f => e = f

\* No job file is run twice, by one thread or by two, unless the name of another
\* one becomes the same when a backup cuts it in the buffer.
EachOnce == fills <= 1 \/ Distinguishable => \A f \in JobFiles : ran[f] <= 1

\* As long as the directory fits into the buffer of its stream, a backup of
\* which bck_name takes the whole name has a file of its own: only those of the
\* same number of other job files that begin with the same part share it.
\* Nothing is said of names that are cut off: they do collide.
BackupsApart ==
    fills <= 1 =>
        \A e, f \in JobFiles : \A m \in 1..Len(begun[e]), n \in 1..Len(begun[f]) :
            /\ begun[e][m] = begun[f][n]
            /\ Len(WholeName(Token(StartOf(e)), m)) <= Room
            => Token(StartOf(e)) = Token(StartOf(f)) /\ m = n

\* Nobody waits for ever, under the mutex of the backups or for it.
BackupsProceed == \A j \in Jobs : pc[j] = "lock" ~> pc[j] = "idle" \/ at[j] = "gone"

\* A backup has cut the name of an entry that is still to be looked at.
NameLost ==
    \E e \in Entries :
        /\ left[e] < Len(e)
        /\ \/ e \in buffer
           \/ \E j \in Jobs : at[j] \in {"entry", "copy"} /\ name[j].entry = e

\* With fewer files that cannot be opened than threads, every other job file
\* is run: the threads that exit leave the directory to the others.  A name can
\* only be lost when the directory does not fit into the buffer of its stream.
EveryFileRun ==
    Cardinality(Broken \cap JobFiles) < Cardinality(Jobs)
        => \A f \in JobFiles \ Broken : <>(ran[f] = 1 \/ (NameLost /\ fills > 1))
=============================================================================
