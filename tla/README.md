# IST-KVS in TLA+

This directory holds a formal model of the IST key-value server and its clients
(`src/SO2425P2/src/`): TLA+ modules, TLC configurations for small instances and
proofs checked by TLAPS.  `PROJECT.json` is the index: components, runs, the
source lines behind each definition, hazards, findings, theorems.  Paths below
are relative to `src/SO2425P2/src/`.

## 1. Inventory

The server is one process.  Its **job threads** (`get_file`) share one directory
stream and run job files against one **hash table**; its **host thread**
(`handle_server_pipe`) reads connection requests from the register FIFO and
starts a **handler thread** (`handle_requests`) per session; one more thread
treats SIGUSR1.  BACKUP commands fork **children**.  A **client** process has two
threads, one for its input and one for notifications, and talks to the server
through three FIFOs named after its id.

| Part | State | Operations | What is hard |
|---|---|---|---|
| Hash table (`server/kvs.c`) | pairs; per key a list of `ClientSubscribed` | `write_pair`, `read_pair`, `find_key`, `delete_pair` | `Head` of a new node is not initialised; `hash` may be -1 |
| Store operations (`server/operations.c`) | `tablelock` | `kvs_write/read/delete/show/backup`, `kvs_subscribe/unsubscribe`, `kvs_disconnect_client`, `delete_all_subscriptions` | `kvs_delete` looks up and notifies outside the lock, locks inside its loop; notifications to FIFOs whose reader may go |
| Job threads (`server/main.c`) | `directory_mutex`, the directory stream | `get_file`, `entry_files`, `run_job` | commands of many threads interleave; a `dirent` is used, and written to, after the mutex is released |
| Backups | `active_backups`, its mutex, children | `CMD_BACKUP`, `kvs_backup` | `wait` under a mutex, unchecked ECHILD, a counter that never goes down |
| Session host | semaphore, `thread_status`, register FIFO | `handle_server_pipe`, `find_free_thread_slot` | blocking opens of FIFOs of clients that may die; order of slot and token |
| Session list | linked list, `activeClients` | `add_client_to_session`, `remove_client_from_session` | no lock at all |
| Handlers | one per session | `handle_requests` | death of the client at every point, SIGPIPE, answers and requests in step |
| SIGUSR1 | `sigusr1_received` | `handler_sigusr1`, `execute_signal`, `reset_semaphore`, `remove_all_clients` | frees what handlers use, unlinks FIFOs others are opening, re-creates the semaphore under waiters |
| Client (`client/`) | three FIFOs | `kvs_connect/subscribe/unsubscribe/disconnect`, `process_notifications` | handshake order, unframed notifications |
| Parsers (`server/parser.c`, `client/parser.c`) | the position in the input | `get_next`, `parse_write`, `parse_read_delete`, `parse_wait`, `parse_list`, `parse_delay` | no way back after a mistake: what a rejected line leaves unread is the next command; buffers at their limits |
| I/O helpers | none | | |

What makes them correct:

* *store*: a command takes effect as a whole and alone; it ends; subscribers hear
  of every change in order; a subscription ends only for a reason.
* *job files*: each is run once, whichever thread gets it; a thread that gives up
  leaves the rest to the others.
* *backups*: the number of children is bounded; no thread waits for ever; no
  backup of a job file is written over by another one (which the code keeps only
  for names that `bck_name` takes, and with exceptions that section 3 lists).
* *sessions*: a token of the semaphore is worth a slot, a slot belongs to one
  session; clients get in in order, S at a time; every session's end gives back
  slot, token, list node and subscriptions.
* *SIGUSR1*: ends all sessions there are, and the server goes on.
* *parsers*: a file written by the rules is carried out as written; a mistake
  costs a known number of lines and is never read as another command.

## 2. Plan

| Order | Module | About | State |
|---|---|---|---|
| 1 | `AtomicStore`, `Store` | table, lock, subscribers, notifications; refinement | done |
| 2 | `StoreProofs`, `NewsProofs` | types, lock, table, refinement; subscriptions | done |
| 3 | `Backups`, `BackupsProofs` | children of BACKUP | done |
| 4 | `Admission`, `Sessions`, `ListChanges`, `SessionsProofs`, `ListProofs` | host, handlers, list, clients; refinement | done |
| 5 | `Jobs`, `JobsProofs` (on `Backups`) | the directory shared by the job threads, names of backups | done |
| 6 | `Signals` (on `Sessions`), `SignalsProofs` | SIGUSR1 during everything else | done |
| 7 | `Parsing`, `ParsingProofs` | the two parsers | done |
| 8 | `Reconnect` | an id used again before its old session has ended | open |
| 9 | descriptors | `resp_pipe` closed twice, descriptors leaked by 349 and 591 | open |

The open rows come last for a reason: `Reconnect` needs the file system's names
apart from the FIFOs behind them in every action of `Sessions`, and descriptors
need every `open` of the process, the C library's included, since which number a
second `close` hits depends on all of them.

## 3. Modules

### Store, with AtomicStore

Variables: `value` (pairs), `subs` and `who` (per key the list of cells, and
whose path is in a cell), `wild` (keys whose `Head` is no pointer), `writer` and
`readers` (`tablelock`), per job `pc`, `cmd`, `idx`, `ptr`, `fd`, `out`, per
client `phase` and `told`.  `stable`, `answer` and `dangling` are history
variables that only properties read.

A job runs commands of the set `Commands`; READ, SHOW and BACKUP take `rdlock`,
look, `unlock`; WRITE takes `wrlock`, then per pair puts it and walks the
subscribers; DELETE starts at `find`, without lock, walks the subscribers, and
only then takes `wrlock` and drops the key.  From its second key on it holds the
lock already; glibc's second `wrlock` by the owner returns EDEADLK, the result
is not looked at, and the command goes on, hence `Wrlock`'s `writer = j`.

Granularity.  One step is one lock operation, one pair, the opening of a
notification FIFO, the write to it, or one move along a list.  A lookup in the
table together with the read of `Head` is one step: walks along a bucket's chain
that another thread changes half-way are not modelled.  Handler operations are
each one step because the code holds `wrlock` around all of them; they need
the lock free.  A cell that is freed while a job stands at it can be allocated
again (`Cells` are addresses), so that the walk goes on in another list, or is
still free (`DanglingCell`: the process dies or the walk happens to end).

Choices that stand for the environment: a write to a notification FIFO may be
lost (EAGAIN, a full pipe); a client may die at any time; a client that has
connected opens its notification FIFO some time later (`Listen`); `Head` of a
new node is null or fatal to follow (stale heap contents that happen to be a
valid other pointer are left out).  `hash` and the buckets are abstracted away,
as are the 40-byte limits of the output.

`AtomicStore` has the table and each job's last answer; a command is one step.
The refinement mapping is `kv <- stable`, the table as of the last unlock by a
writer: a WRITE or DELETE takes effect at its unlock and a reader, under its
`rdlock`, finds `value = stable`.

### Backups, and Jobs on top of it

The state of `Backups` is the counter, the mutex, each job's place in
`CMD_BACKUP`, and how many children run and how many have exited unreaped.
`Wait` is `wait(NULL)` under the mutex, ECHILD included.  `Fork` may fail.  The
decrement at the end of `main` (738-741) is not modelled because it is never
reached: `dispatch_threads` joins the host thread, which loops for ever.

`Jobs` extends it by where the BACKUPs come from: `directory_mutex`, the
directory stream and its buffer (`unread`, `buffer`, `left`), each thread's place in
`get_file` (`at`), its `in_path` (`path`) and the `d_name` of its entry (`name`, a
pointer into the buffer).  A file name is a sequence of parts, those between its
dots, and a part a sequence of characters.  `readdir` returns a pointer into the
buffer; when the buffer is used up the next entries are read over it (`Refill`), and
what other threads have a pointer to may then be the start or the middle of any of
the new names, or no name at all.

`entry_files` and the copy to `in_path` are two steps, `EntryFiles` and `EntryPaths`,
each of which looks at the name as the buffer shows it at that time (`Shown`).  For
`kvs_backup` comes along outside the mutex with `strtok`: it writes a `'\0'` at the dot
behind its token (`Cut`; `left` is how many parts of a name are left).  As long as the
directory fits into the buffer, that is the name of the thread's own entry, which
nobody looks at again.  After a refill it may be that of an entry that another thread is about to look
at: a job file is skipped, or taken for another one, or, if the path that
`entry_files` makes of it has no dot any more, `strrchr` returns NULL and the server
dies (`main.c:150`).  `BackupName` makes the name of the backup from the token and
the number, and cuts it off where `bck_name[50]` ends (`BckName`; `Room` is what the
directory leaves of the 49 characters).  Paths may have 255, so that
all backups of a file with a long name go to one file.  Files of the same
base (`a.b.job`, `a.c.job`) share their backups' names because `strtok` cuts at the
first dot.  `Command` and `NamedFork` are the actions of `Backups`.  A child never comes back
to `run_job`: it exits at `operations.c:236`.

What lies between the names in the buffer is taken to hold no dot, so that `strtok`
through a pointer that leads there cuts nothing.  `EndOfFile` forgets entry and path,
which the code leaves in place but does not use again.

Not in `Jobs`: failing mutex calls, paths that are too long, and commands other
than BACKUP, which do not touch its state (they are in `Store`).

### Sessions, with Admission

Three kinds of process.  The *host* reads a CONNECT, waits on the semaphore,
chooses a slot, adds a node to the list (`HostCheck`, `HostTail`, `HostLink`,
`HostLoad`, `HostStore`), opens the response FIFO, answers, opens the request
FIFO and starts the handler.  A *handler* opens the request FIFO again, reads
requests, opens the response FIFO for each and answers, and at DISCONNECT or end
of file gives back its slot, removes its node (`HandlerFind` ... `HandlerStore`)
and posts.  A *client* connects, makes a bounded number of requests, disconnects,
and may be killed anywhere in between.

Granularity.  One step is one blocking call or one access to shared memory.  The
Makefile builds without `-O`, so `activeClients++` and `--` are a load and a
store each.  A walk along the list (`Walk`) is one step, so that changes another thread makes
in the middle of a walk are not modelled; unlinking and freeing a node is another
step, after which what the walk has found may be stale.  The whole node is modelled, with `next`, and stays readable after
`free` at the risk of the process (`Touch`).

Left out: SIGUSR1 (see `Signals`); clients that share an id (each has FIFOs of its own, connects
once); the effect of requests on the table (that is `Store`); descriptors that
leak (349 and 591 open again what is open) or are closed twice; the branch for an
op code other than CONNECT, which no client sends; error returns of `open`,
`write` and `malloc`.  `sessionData` is not zeroed by the code; as the process's
first `malloc` of its size it reads as zero, which `Init` assumes.

`ListChanges` adds a history variable to `Sessions`, `met`: two threads have been at
once between the first and the last step of a change of the list and its count (in the
host `HostTail` to `HostStore`, in a handler `HandlerFind` to `HandlerStore`).  Nothing
in the code prevents it when S is more than 1; `ListRight` and `NobodyRefused` are about the time before.

`Admission` is the promise: a queue and a set of at most S inside.  The mapping
takes the register FIFO, and the client the host holds while it waits, for the
queue, and for inside every client for which a token is held.

### Signals, on top of Sessions

`Signal` is `handler_sigusr1`; the thread `execute_signal` is `TreatBegin` (it sees
the flag), `TreatRemove` once per node of the list, `TreatStatus`, `TreatSem`
(`reset_semaphore`) and `TreatClear`.  Everything in `Sessions` goes on between
these steps, but for what works on a session that has been ended (`cut`):

* a thread that is about to `open` or use one of its FIFOs gets an error and takes
  its error path (`HostFails`, `HandlerFails`, `ClientFails`); the host has none and goes
  on, a handler whose `open` or `write` fails ends without giving anything back;
* a thread that already sleeps in the call sleeps on (`asleep`, `hasleep`): the
  FIFO has no name any more, so nobody else can come to it;
* whoever follows a pointer into a freed `Client`, or frees it again, works on what
  the memory held or ends the process (`Crash`, `Touch`).

`sem_destroy` and `sem_init` under a sleeping host leave it asleep, because the
waiter's count is gone and no later `sem_post` wakes it.  Before the first
client has opened the register FIFO the handler is not installed (535), and the
signal ends the server.  `sigusr1_received` is cleared last (88), so that a signal
during the treatment is lost.

One removal is one step here, which `Sessions` has in pieces.  No client is killed and
descriptors are not reused, so that a `close` or `read` on a descriptor that
`execute_signal` has closed fails and never hits another session's FIFO.

### Parsing

A text is a string, `pos` the next character, `at` what the parser expects next.
One action is one decision of the code: a keyword (`GetNextWord`, `GetNextInvalid`),
a bracket, a string (`PairKey`, `PairValue`, `ListKey`), the end of a list (`Full`)
or line, a number.  Since the code reads and never goes back, each action says how
far it has read: `Reads` for a keyword that is none ("W" reads six characters, for
the second comparison), `MaxString` characters for a string without delimiter,
`Cleanup` to the end of the line.  `Accept` hands a command to the program and
`Reject` goes on with the next; both sides use the same actions where the code of
`server/parser.c` and `client/parser.c` is the same, and `side` where it is not.

What the modelling has brought out, as the code has it: a list of exactly
`max_pairs` pairs is refused by the server though `parser.h:31` names this the
maximum; `parse_pair` and `parse_write` both skip the rest of a line, so a mistake in a
WRITE costs the next line too, and another one if a string has run over the end of
its own; `READ []` is a read of the empty key; `DELAY 5 x` leaves ` x` to be read as a
command.

Buffers.  A string without delimiter has its `'\0'` put one place behind its buffer
(`parser.c:47`), `read_uint` fills its `buf[16]` with as many digits as there are, and
at the end of the file reads a buffer without `'\0'`.  This is undefined.  The model
allows two outcomes: the program goes on, with whatever number (`Number` goes either
way when the value is not `Known`), or it is stopped (`Overrun`), as by the address
sanitizer `server/Makefile` builds it with; after that nothing is read any more.  An
overrun that changes other variables of the parser in passing is not modelled.

The input is a file: from a terminal or pipe a `read` may return less than it was
asked for.  A number has its value (`Value`), and `MaxUint` and `NumberBuffer` are
UINT_MAX and 16, smaller in the run.  NUL characters do not occur.

## 4. Runs

All runs allow a stop (`CHECK_DEADLOCK FALSE`): the inputs are bounded, and the
code itself may block or die.

| Run | Instance | Shows |
|---|---|---|
| `store_table` | 2 jobs of 2 commands, 2 keys, 7 commands (keys in opposite orders and named twice), no clients | `LockDiscipline`, `TableInv`, `Linearizable`, `CommandsEnd` |
| `store_news` | 2 jobs of 2 commands, 1 key, 2 clients, 2 cells, 5 requests | `TypeOK`, `UpToDate`, `SubscriptionKept` |
| `store_one_job` | 1 job of 4 commands, 2 clients, 3 cells, 6 requests | `NoFalseBelief` |
| `store_race` | 2 jobs | `NoFalseBelief` is violated |
| `jobs` | 2 threads of 2 BACKUPs, 3 job files (1 with two dots, 1 with a long name, 1 broken), buffer of 2, max_backups = 1 | `JobsTypeOK`, `ChildrenBounded`, `EachOnce`, `BackupsApart`, `BackupsProceed`, `EveryFileRun` |
| `parsing` | 2924 texts: two lines by the rules, one line cut off or damaged by one character and four more, lists and ends at their limits | `ParsingTypeOK`, `LineStarts`, `AcceptedIsText`, `RulesRead`, `DamageContained`, `FileEnds` |
| `sessions_two` | 3 clients, all mortal, S = 2, with the history of `ListChanges` | `TypeOK`, `SlotAvailable`, `SlotExclusive`, `Admitted`, `ListRight`, `NobodyRefused` |
| `sessions_one` | 3 clients with a request each, two of them mortal, S = 1 | `AnswerMatches`, `EveryoneServed`, `IdleDeathNoticed` |
| `sessions_refused` | 3 clients, S = 2 | `NeverRefused` is violated |
| `sessions_leak` | 1 mortal client, S = 1 | `DeathNoticed` is violated |
| `signals` | 2 clients, S = 2, one SIGUSR1 | `SignalsTypeOK`, `SignalEndsSessions` |
| `signals_serving` | 2 clients, S = 1, one SIGUSR1 | `KeepsServing` is violated |

Bounds.  Two jobs suffice for every pairwise interleaving of commands, and two
keys for every order of locking and removing; a WRITE with a key twice and a
DELETE with a key twice reach the second `wrlock` and the KVSMISSING of a key
that the same command has removed.  Two cells and two clients are enough for a
cell to be freed under a walk and allocated again for another client.  A directory
of three entries behind a buffer of two is read in two batches, so that names
are overwritten, and cut, under a thread; `Room` is such that the long name is cut off before its
number; with max_backups = 1 the second BACKUP already
waits.  `MaxPairs = 3`, `MaxString = 4`, `MaxUint = 12` and `NumberBuffer = 4` let lists, strings and numbers be shorter, as long
as, and longer than allowed, and the lines behind a damaged one begin with keywords
longer than a string, so that one can run into them; two of them do get lost (the value of
a WRITE cut off behind it), and `RulesAssumption` says that the texts are by the rules
where they are meant to be.  Three
clients for two sessions make one wait, with two sessions ending at once.  Sessions with requests are followed to their
end one at a time: with S = 1 nobody else touches the list, and `EveryoneServed` is about the
semaphore, the FIFOs and the clients only; from two sessions on it is false because of the
list (a refusal, or a freed node).  What `sessions_one` shows of `AnswerMatches` is proved
for any S.  Two
clients and one signal put the signal between any two steps of a session that
begins while another ends.  What
these bounds cannot show is what the theorems of section 5 are for.

Fairness.  The kernel schedules every thread: weak fairness of each job's and
each handler's step, of the host's, of the children of BACKUP and of
`execute_signal`, which never sleeps.  A parser reads a file, so its next step is
never held up.  In `Store` nothing is asked of clients.
In `Sessions` the client process is scheduled as well, and its input ends with a
DISCONNECT (`client/main.c:129` asks for it); being killed is never fair, and no
signal has to come.  No
strong fairness is assumed: which waiter gets the mutex or the rwlock is open,
so `CommandsEnd`, `BackupsProceed` and `EveryFileRun` rest on the bounded number
of commands in
job files, and say nothing of endless streams of readers.

Findings.

* `store_race`: WRITE by one job between the walk and the lock of another job's
  DELETE; the subscriber hears DELETED, then the value, and the value is removed.
* `sessions_refused`: `activeClients--` lost to a concurrent `++`.
* `sessions_leak`: a handler opens the response FIFO of a dead client for ever.
* `signals_serving`: the host is in `open` of a FIFO whose name SIGUSR1 takes away
  before the client has come to it, and sleeps there for ever.

Without a run of their own: after two SUBSCRIBEs to one key a disconnection
removes one cell and leaves the other (`kvs_disconnect_client` stops at the first,
`operations.c:286`); with more job
threads than max_backups, `wait` with no child yet returns ECHILD, which is
taken for a child, so that more than max_backups children write at once (`BackupLimit`,
compare `LimitKept` below); backups of files with long names written over each other, and a
job file whose name another thread's `strtok` has cut (`EveryFileRun` names the case); a walk at a freed cell or session node, SIGPIPE, the
uninitialised `Head`, and the remarks under Parsing.

## 5. Proofs

TLAPS checks, for every value of the constants that meets the named assumptions
(finiteness and distinctness of sets, S and max_backups positive, commands with
at least one key and, for a WRITE, as many values as keys, texts that are strings):

| Module | Theorem | |
|---|---|---|
| `StoreProofs` | `TypeCorrect`, `LockingCorrect`, `TableCorrect` | `TypeOK`, `LockDiscipline`, `TableInv` are invariants |
| | `StoreIsAtomic` | `Store` implements `AtomicStore` |
| `NewsProofs` | `SubscribersUpToDate` | `UpToDate` is an invariant |
| | `SubscriptionsKept` | every step is one that `SubscriptionKept` allows |
| | `OneJobNoFalseBelief` | with one job `NoFalseBelief` is an invariant |
| `BackupsProofs` | `BackupsTypeCorrect`, `BackupsBounded` | `TypeOK`, `ChildrenBounded` are invariants |
| | `LimitKept` | with no more job threads than max_backups `BackupLimit` holds |
| `JobsProofs` | `JobsTypeCorrect`, `FilesRunOnce` | `JobsTypeOK`, `EachOnce` are invariants |
| | `JobsChildrenBounded` | `ChildrenBounded` is one of `Jobs` too |
| | `BackupsKeptApart` | `BackupsApart` is an invariant: names that fit, one filling of the buffer |
| `ParsingProofs` | `ParsingTypeCorrect`, `CommandsStartLines` | `ParsingTypeOK`, `LineStarts` are invariants |
| | `CommandsDisjoint` | `CommandsApart`, a part of `AcceptedIsText`, is one |
| | `AcceptedWritten` | and so is `AcceptedIsText` |
| | `FilesRead`, `DamageEnds` | and so are `RulesRead` and `DamageContained` |
| `SessionsProofs` | `SessionsTypeCorrect`, `SlotAlwaysAvailable`, `SlotsExclusive` | `TypeOK`, `SlotAvailable`, `SlotExclusive` are invariants |
| | `AnswersMatch` | `AnswerMatches` is one, for any S and whoever is killed |
| | `AdmissionCorrect` | `Sessions` implements `Admission` |
| `ListProofs` | `ListExactUntilMet`, `RefusedOnlyIfMet` | `ListRight` and `NobodyRefused` are invariants, for any S |
| `SignalsProofs` | `SignalsTypeCorrect` | `SignalsTypeOK` is an invariant |
| | `SignalEnds` | for one signal `SignalEndsSessions` is one |

*Store.*  The type invariant needs to know more of a job than the types: where
it is, which operation it runs, and that its index is within its command.
`LockDiscipline` is inductive on top of that.  `TableInv` says how far a
half-done command has turned `stable` into `value`; each action of another job
leaves both alone because the lock says so, and each pair extends the progress by
one.  At the unlock the progress is the whole command, which is the step of
`AtomicStore`.

*News.*  On top of these, `CellsInv` (each cell is in one place of one list, and a
key that is not there has no list) comes from how the handlers and `delete_pair`
thin the lists, and is all `SubscriptionsKept` needs.  `UpToDate` itself is not
inductive: while a WRITE walks its list most subscribers have old news.  `NewsInv`
says that such a subscriber is still ahead of the loop, and `WalkInv` that the loop
stands in the list of its key; both hold because the writer keeps `tablelock`
throughout.  The loop of a DELETE keeps nothing and may go anywhere, which does no
harm to this property because its key is about to go.
`NoFalseBelief` does depend on where that loop goes.  With one job nobody else can
tell a client of a value meanwhile, and `BeliefInv` says that whoever was last told of a
value is still subscribed, and still ahead of the DELETE's loop, so that it has heard
of the deletion before the key goes.  The handlers may change the list under the
loop: what they take out keeps the order of the rest (`ThinnedOrder`), and if it is the cell the
loop stands at, the freed memory is read and nothing is promised (`dangling`).

*Backups.*  `TypeOK` alone is not enough to bound the children, since a thread
that waits may find none.  The invariant counts: while `active_backups` is below
the maximum it bounds children and starting threads by the counter; afterwards a
thread that leaves `Wait` has either reaped a child or seen that there is none,
so that what starts is bounded by the threads.

*Jobs.*  Each step of `Jobs` is one of `Backups` or leaves its variables alone, which
carries the bound over.  `EachOnce` follows from who has an entry (`ClaimInv`): it is unread, in
the buffer, or claimed by one thread (by its `d_name` until the path is copied, by
its path afterwards), and then its file has not been run.  A cut may change what a
`d_name` shows between `entry_files` and the copy, which is why the statement is either about one
filling of the buffer, where only names of files that have been run are cut
(`LeftInv`), or about a directory in which no cut makes one name a job file's
(`Distinguishable`).  A refill leaves alone the entry that a thread still looks at for its
path, because `directory_mutex` is held from `readdir` to the copy (`MutexInv`).
`BackupsApart` comes from what has been begun (`BegunInv`): the `n`th backup of a file went to the
name made of its own first part and `n`, since until the buffer is filled a second time
the thread's `d_name` is that of the file whose path it has (`NameInv`), and no other thread
runs the same file (`RunInv`).  That such names differ is a statement about
`snprintf` alone (`SameName`).  A whole name has one dot, that of its suffix
(`OneDot`), so that another one cut off to the same characters would have had nothing cut
off; and in equal names the numbers begin and end at the same places (`SameDash`).
*Parsing.*  Three facts about where the parser stands (`PlaceInv`), how full its
arrays are there (`ListInv`) and where the commands taken so far end (`TakenInv`),
and one lemma for each way a step can end: rejected, accepted, or going on.
`Cleanup` lands behind a newline or at the end because a set of numbers has a
least element, which is where `CleanupLands` begins.  The provers know nothing of characters in
strings; what they need is in `TextAssumption`, `WordsAssumption` and
`KeywordsAssumption` (no place of a text shows two keywords of a side, none has a newline in it,
those of commands with arguments end with a space), which TLC evaluates for the texts of the
run and which hold of the constant strings in `get_next`.
`AcceptedIsText` says where in the text a command stands: its keyword, the "[", and
after it places `m` (and `v`, for values) between which the text is one key or value
each, up to the "]" before the end of the line.  Such places exist for a command
that is still being read, the last of them just behind the reader (`SpeltInv`), and
each string that is stored adds one.  `LastInv` keeps what `Full` needs to know of the
character before the reader: a list that has not ended with its "]" is as long as the
array, and `Full` refuses it.

`RulesRead` and `DamageContained` go the other way, from what is written to what is
read.  `RuledFrom(i, a)` says what it is to be by the rules from the line at `a` on: each line is
a comment, or empty, or the next command of the file, its list written as in `AcceptedIsText`.  `ReadInv`
says that the parser is at the start of a line with as many commands taken as the lines
before it hold, or within a line at the place of its command that comes next (`InPlace`): as many
keys and values as have been read are those of the command, and `pos` is just behind the last
of the `m` and `v`.  A string that stands there is the one `read_string` finds (`StringFound`),
so no step rejects.  With `a` the first line this is `RulesRead`.  For `DamageContained` the parser
comes from text of which nothing is known.  `StepBefore` shows that no step which begins before
the line at `a` ends anywhere but before it, or between two commands at the start of that line
or of one of the next two: `Reached` (`cleanup` goes no further than the next start of a line), `StringBefore` (a
string that runs on meets the space of the keyword in that line, if its buffer lasts so long,
and a space ends no key or value), `GetNextInvalidBefore` (the twelve characters read in vain are
fewer than two lines have).  From there `ReadInv` holds with the commands taken so far in place of
those skipped.  Two is what it costs: `parse_pair` and `parse_write` each skip a line end.

*Sessions.*  Three invariants: the queue (whoever is in the register FIFO, or
waits, has no handler yet, and nobody is in it twice), the slots (a slot is
marked exactly while a session occupies it, and the host's chosen slot stays
free), and the tokens (`sem` plus the number of holders is S).  With as many
slots as tokens and every occupier a holder, a token leaves a slot free.  The
list of sessions plays no part in them: these results hold however the
unsynchronised list behaves, as long as the server lives.
`AnswerMatches` needs a fourth, `TalkInv`: for each place a client can be in, where
its handler may be and which one message is in its FIFOs.  It must say of the host
that it greets only a client that has opened its response FIFO, and starts a
handler only for one that has opened its request FIFO: without the blocking `open`s
a handler could read before the client knows it is connected.

*The list.*  `Walk(f, c)` is what a walk along pointers `f` from `c` comes to,
defined as the smallest set closed under them, so that what it comes to can be
proved by naming a closed set.  `WalkBypass` is the lemma the rest lives on: what
a walk still comes to after a node has been made to point past others.
`SerialInv` is what holds until two changes have met (`UnmetInv`): the list holds
`Members` and `activeClients` counts `Counted`, which differ from the sessions only while
the host is adding one or a handler ending its own; pointers respect some ranking of the
nodes, so that the list has an end and no node comes twice; and what the one thread that
changes it has found of it so far, or has loaded of the count, is still so.  Whom the semaphore
lets in is not counted yet, and the holders of tokens are no more than S, so the check
finds a place.  Together with `sessions_refused`, where two changes do meet and a client is
refused, this says that the missing lock is the whole cause.

*SIGUSR1.*  Three threads change the list under each other: the host links to a
tail it has found before, a handler unlinks by a `prev` it has found before,
`execute_signal` walks and unlinks.  `EndInv` holds because the list is in the order
in which clients were admitted: there is a ranking of the nodes, extended by each
link, that pointers and stale `prev`s respect (`RankInv`), so no pointer ever leads
back.  `Targets` are the sessions the signal has still to end; a handler that is
about to unlink leaves those behind it reachable through its own `next`
(`UnlinkInv`), the host's tail is not before any of them (`TailInv`), nobody points
to a node that is not yet linked (`FreshInv`), and the walk has none of them behind
it (`WalkInv`).  The theorem is for one signal.  For two the statement is false, as
TLC shows with two clients: a handler whose session the first signal has ended and freed
goes on unlinking its node by its stale `prev`, sets `head` to what its node points to,
which is NULL, and a session linked in the meantime is off the list when the
second signal comes.

Every safety property of the passing runs is proved.  Only model-checked is all
liveness (`CommandsEnd`, `BackupsProceed`, `EveryFileRun`, `FileEnds`, `EveryoneServed`,
`IdleDeathNoticed`), which is out of the prover's reach.

## 6. Not modelled

* Reuse of a client id while its old session lives, descriptors (closed twice,
  leaked, running out): section 2 says why.
* Response codes: constants that one test of each call compares.
* `hash`: keys are members of a set; for one that begins with neither letter nor
  digit it returns -1, and what lies there in memory is undefined.
* The chain inside a bucket, changed half-way through another thread's walk.
* Reading, writing and formatting helpers (`common/io.c`, `server/io.c`), start-up, and the
  code after `dispatch_threads`, which is never reached.

## 7. Running

    tlc -workers 2 -config MCStoreTable.cfg MCStore.tla
    tlapm StoreProofs.tla

and likewise for the other rows of the tables above.
