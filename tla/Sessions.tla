------------------------------ MODULE Sessions ------------------------------
(***************************************************************************)
(* Client sessions: the host thread that admits clients                    *)
(* (handle_server_pipe), one handler thread per session (handle_requests), *)
(* the list of sessions they share without a lock (add_client_to_session,  *)
(* remove_client_from_session), and the client side of the three FIFOs     *)
(* (client/api.c), where a client may be killed at any moment.             *)
(*                                                                         *)
(* A thread's step is one blocking call or one access to shared memory;    *)
(* activeClients++ and -- are a load and a store, as built without -O.     *)
(* A walk along the list is one step.  Every client has an id, hence FIFOs,*)
(* of its own, and connects once.  What the requests do to the table is in *)
(* Store; SIGUSR1 is not here.                                             *)
(***************************************************************************)
EXTENDS Integers, Sequences, FiniteSets

CONSTANTS
    Clients,     \* the client processes
    S,           \* MAX_SESSION_COUNT
    Mortal,      \* the clients that may be killed
    MaxRequests, \* SUBSCRIBE and UNSUBSCRIBE lines in a client's input (bound)
    NoClient     \* NULL

ASSUME SAssumption == S \in Nat \ {0}
ASSUME ClientsAssumption == IsFiniteSet(Clients) /\ NoClient \notin Clients
ASSUME MaxRequestsAssumption == MaxRequests \in Nat

VARIABLES
    alive,       \* the server has not been killed
    reg,         \* the CONNECT messages in the register FIFO
    sem,         \* client_thread_semaphore
    status,      \* thread_status
    head, next,  \* the list of sessions: sessionData->head, node->next
    freed,       \* the nodes that have been freed
    active,      \* sessionData->activeClients
    hpc,         \* where the host thread is
    hcl,         \* the client it is dealing with
    htail,       \* the end of the list it has found
    hcount,      \* the activeClients it has loaded
    spc,         \* per client, where its handler is
    slot,        \* its thread_slot
    op,          \* the request it is dealing with
    prev,        \* the node before its own that it has found
    count,       \* the activeClients it has loaded
    cpc,         \* per client, where the process is
    todo,        \* the SUBSCRIBE and UNSUBSCRIBE lines it still has to read
    req, resp    \* what is in its request and response FIFOs

listVars == <<head, next, freed, active>>
hostVars == <<hpc, hcl, htail, hcount>>
handlerVars == <<spc, slot, op, prev, count>>
clientVars == <<cpc, todo, req, resp>>
vars == <<alive, reg, sem, status, listVars, hostVars, handlerVars, clientVars>>

Slots == 0..(S - 1)
Requests == {"subscribe", "disconnect"}
HostLocs == {"read", "wait", "slot", "check", "tail", "link", "load", "store",
             "resp", "greet", "req", "start", "post"}
HandlerLocs == {"none", "open", "read", "resp", "answer", "reset", "find",
                "unlink", "load", "store", "post", "ended"}
ClientLocs == {"new", "sent", "opening", "connected", "refused", "subscribe",
               "disconnect", "left", "dead"}

\* Client c has its response FIFO open for reading, its request FIFO for writing.
Reader(c) == cpc[c] \in {"opening", "connected"} \cup Requests
Writer(c) == cpc[c] \in {"connected"} \cup Requests

Init ==
    /\ alive = TRUE
    /\ reg = <<>>
    /\ sem = S
    /\ status = [s \in Slots |-> 0]
    /\ head = NoClient
    /\ next = [c \in Clients |-> NoClient]
    /\ freed = {}
    /\ active = 0
    /\ hpc = "read" /\ hcl = NoClient /\ htail = NoClient /\ hcount = 0
    /\ spc = [c \in Clients |-> "none"]
    /\ slot = [c \in Clients |-> 0]
    /\ op = [c \in Clients |-> "subscribe"]
    /\ prev = [c \in Clients |-> NoClient]
    /\ count = [c \in Clients |-> 0]
    /\ cpc = [c \in Clients |-> "new"]
    /\ todo = [c \in Clients |-> MaxRequests]
    /\ req = [c \in Clients |-> <<>>]
    /\ resp = [c \in Clients |-> <<>>]

-----------------------------------------------------------------------------
(* The list of sessions                                                    *)

\* The nodes that a walk from node c along pointers f comes to: the fewest that have
\* c among them and, of each one, the node it points to.
Walk(f, c) ==
    {d \in Clients : \A nodes \in SUBSET Clients :
        /\ c \in nodes \cup {NoClient}
        /\ \A b \in nodes : f[b] \in nodes \cup {NoClient}
        => d \in nodes}

Listed == Walk(next, head)

\* Touching freed nodes kills the server, or finds what was there before.
Touch(nodes) == alive' \in IF nodes \cap freed = {} THEN {TRUE} ELSE BOOLEAN

-----------------------------------------------------------------------------
(* The clients: kvs_connect, kvs_subscribe, kvs_disconnect of api.c        *)

ClientTo(c, loc) == cpc' = [cpc EXCEPT ![c] = loc]

\* The FIFOs are made, the CONNECT message goes to the register FIFO ...
ClientConnect(c) ==
    /\ cpc[c] = "new"
    /\ reg' = Append(reg, c)
    /\ ClientTo(c, "sent")
    /\ UNCHANGED <<alive, sem, status, listVars, hostVars, handlerVars, todo, req, resp>>

\* ... the response FIFO is opened ...
ClientOpenResp(c) ==
    /\ cpc[c] = "sent"
    /\ ClientTo(c, "opening")
    /\ UNCHANGED <<alive, reg, sem, status, listVars, hostVars, handlerVars, todo, req, resp>>

\* ... and after the answer the request FIFO.
ClientConnected(c) ==
    /\ cpc[c] = "opening" /\ resp[c] # <<>>
    /\ ClientTo(c, IF Head(resp[c]) = "connect" THEN "connected" ELSE "refused")
    /\ resp' = [resp EXCEPT ![c] = Tail(@)]
    /\ UNCHANGED <<alive, reg, sem, status, listVars, hostVars, handlerVars, todo, req>>

\* A request: the next SUBSCRIBE or UNSUBSCRIBE, or the DISCONNECT.
ClientAsk(c, r) ==
    /\ cpc[c] = "connected"
    /\ r = "subscribe" => todo[c] > 0
    /\ todo' = [todo EXCEPT ![c] = IF r = "subscribe" THEN @ - 1 ELSE @]
    /\ req' = [req EXCEPT ![c] = Append(@, r)]
    /\ ClientTo(c, r)
    /\ UNCHANGED <<alive, reg, sem, status, listVars, hostVars, handlerVars, resp>>

\* Its answer; after that of a DISCONNECT the client closes its FIFOs and ends.
ClientAnswered(c) ==
    /\ cpc[c] \in Requests /\ resp[c] # <<>>
    /\ resp' = [resp EXCEPT ![c] = Tail(@)]
    /\ ClientTo(c, IF cpc[c] = "disconnect" THEN "left" ELSE "connected")
    /\ UNCHANGED <<alive, reg, sem, status, listVars, hostVars, handlerVars, todo, req>>

Killed(c) ==
    /\ c \in Mortal /\ cpc[c] \notin {"new", "refused", "left", "dead"}
    /\ ClientTo(c, "dead")
    /\ UNCHANGED <<alive, reg, sem, status, listVars, hostVars, handlerVars, todo, req, resp>>

ClientStep(c) ==
    \/ ClientConnect(c) \/ ClientOpenResp(c) \/ ClientConnected(c)
    \/ \E r \in Requests : ClientAsk(c, r)
    \/ ClientAnswered(c)

-----------------------------------------------------------------------------
(* The host thread: handle_server_pipe with add_client_to_session          *)

HostTo(loc) == hpc' = loc

HostRead ==
    /\ hpc = "read" /\ reg # <<>>
    /\ hcl' = Head(reg) /\ reg' = Tail(reg)
    /\ HostTo("wait")
    /\ UNCHANGED <<alive, sem, status, listVars, htail, hcount, handlerVars, clientVars>>

\* sem_wait
HostWait ==
    /\ hpc = "wait" /\ sem > 0
    /\ sem' = sem - 1
    /\ HostTo("slot")
    /\ UNCHANGED <<alive, reg, status, listVars, hcl, htail, hcount, handlerVars, clientVars>>

FreeSlots == {s \in Slots : status[s] = 0}

\* Mutant: slots are counted from 1 to S, as client_Index is.
HostSlotFromOne ==
    /\ hpc = "slot"
    /\ \E s \in 1..S :
         /\ s \in Slots => status[s] = 0
         /\ \A t \in 1..(s - 1) : status[t] = 1
         /\ slot' = [slot EXCEPT ![hcl] = s]
    /\ HostTo("check")
    /\ UNCHANGED <<alive, reg, sem, status, listVars, hcl, htail, hcount, spc,
                   op, prev, count, clientVars>>

\* find_free_thread_slot; without one the client is forgotten, and so is the
\* token of the semaphore.
HostSlot ==
    /\ hpc = "slot"
    /\ IF FreeSlots = {} THEN HostTo("read") /\ UNCHANGED slot
       ELSE \E s \in FreeSlots :
              /\ \A t \in FreeSlots : s <= t
              /\ slot' = [slot EXCEPT ![hcl] = s]
              /\ HostTo("check")
    /\ UNCHANGED <<alive, reg, sem, status, listVars, hcl, htail, hcount, spc,
                   op, prev, count, clientVars>>

\* "Session is full", or a new node.
HostCheck ==
    /\ hpc = "check"
    /\ IF active >= S THEN HostTo("post") /\ UNCHANGED next
       ELSE next' = [next EXCEPT ![hcl] = NoClient] /\ HostTo("tail")
    /\ UNCHANGED <<alive, reg, sem, status, head, freed, active, hcl, htail,
                   hcount, handlerVars, clientVars>>

HostTail ==
    /\ hpc = "tail"
    /\ Touch(Listed)
    /\ \/ head = NoClient /\ htail' = NoClient
       \/ \E c \in Listed : next[c] = NoClient /\ htail' = c
    /\ HostTo("link")
    /\ UNCHANGED <<reg, sem, status, listVars, hcl, hcount, handlerVars, clientVars>>

HostLink ==
    /\ hpc = "link"
    /\ Touch({htail})
    /\ IF htail = NoClient THEN head' = hcl /\ UNCHANGED next
       ELSE next' = [next EXCEPT ![htail] = hcl] /\ UNCHANGED head
    /\ HostTo("load")
    /\ UNCHANGED <<reg, sem, status, freed, active, hcl, htail, hcount,
                   handlerVars, clientVars>>

HostLoad ==
    /\ hpc = "load"
    /\ hcount' = active
    /\ HostTo("store")
    /\ UNCHANGED <<alive, reg, sem, status, listVars, hcl, htail, handlerVars, clientVars>>

HostStore ==
    /\ hpc = "store"
    /\ active' = hcount + 1
    /\ HostTo("resp")
    /\ UNCHANGED <<alive, reg, sem, status, head, next, freed, hcl, htail,
                   hcount, handlerVars, clientVars>>

\* open(resp_pipe_path, O_WRONLY) blocks until the client opens it too.
HostOpenResp ==
    /\ hpc = "resp" /\ Reader(hcl)
    /\ HostTo("greet")
    /\ UNCHANGED <<alive, reg, sem, status, listVars, hcl, htail, hcount,
                   handlerVars, clientVars>>

\* The answer "0"; SIGPIPE if the client is gone by now.
HostGreet ==
    /\ hpc = "greet"
    /\ IF Reader(hcl)
       THEN resp' = [resp EXCEPT ![hcl] = Append(@, "connect")] /\ UNCHANGED alive
       ELSE alive' = FALSE /\ UNCHANGED resp
    /\ HostTo("req")
    /\ UNCHANGED <<reg, sem, status, listVars, hcl, htail, hcount, handlerVars,
                   cpc, todo, req>>

\* open(req_pipe_path, O_RDONLY) blocks until the client opens it too.
HostOpenReq ==
    /\ hpc = "req" /\ Writer(hcl)
    /\ HostTo("start")
    /\ UNCHANGED <<alive, reg, sem, status, listVars, hcl, htail, hcount,
                   handlerVars, clientVars>>

HostStart ==
    /\ hpc = "start"
    /\ status' = [status EXCEPT ![slot[hcl]] = 1]
    /\ spc' = [spc EXCEPT ![hcl] = "open"]
    /\ HostTo("read")
    /\ UNCHANGED <<alive, reg, sem, listVars, hcl, htail, hcount, slot, op, prev,
                   count, clientVars>>

\* add_client_to_session has refused the client: nobody tells it.
HostPost ==
    /\ hpc = "post"
    /\ sem' = sem + 1
    /\ HostTo("read")
    /\ UNCHANGED <<alive, reg, status, listVars, hcl, htail, hcount,
                   handlerVars, clientVars>>

HostStep ==
    \/ HostRead \/ HostWait \/ HostSlot \/ HostCheck \/ HostTail \/ HostLink
    \/ HostLoad \/ HostStore \/ HostOpenResp \/ HostGreet \/ HostOpenReq
    \/ HostStart \/ HostPost

-----------------------------------------------------------------------------
(* The handler of client c: handle_requests, remove_client_from_session    *)

HandlerTo(c, loc) == spc' = [spc EXCEPT ![c] = loc]

\* The request FIFO is opened a second time, which blocks without a writer.
HandlerOpen(c) ==
    /\ spc[c] = "open" /\ Writer(c)
    /\ HandlerTo(c, "read")
    /\ UNCHANGED <<alive, reg, sem, status, listVars, hostVars, slot, op, prev,
                   count, clientVars>>

\* Mutant: a request is read and stays in the FIFO.
HandlerReadKeeping(c) ==
    /\ spc[c] = "read" /\ req[c] # <<>>
    /\ op' = [op EXCEPT ![c] = Head(req[c])]
    /\ HandlerTo(c, "resp")
    /\ UNCHANGED <<alive, reg, sem, status, listVars, hostVars, slot, prev,
                   count, clientVars>>

\* One read takes all there is, its first byte is the request.
HandlerRead(c) ==
    /\ spc[c] = "read" /\ req[c] # <<>>
    /\ op' = [op EXCEPT ![c] = Head(req[c])]
    /\ req' = [req EXCEPT ![c] = <<>>]
    /\ HandlerTo(c, "resp")
    /\ UNCHANGED <<alive, reg, sem, status, listVars, hostVars, slot, prev,
                   count, cpc, todo, resp>>

\* Mutant: a read of 0 bytes is tried again.
HandlerEOFRetried(c) ==
    /\ spc[c] = "read" /\ req[c] = <<>> /\ ~Writer(c)
    /\ UNCHANGED vars

\* End of file: the client is gone and has left no request.
HandlerEOF(c) ==
    /\ spc[c] = "read" /\ req[c] = <<>> /\ ~Writer(c)
    /\ HandlerTo(c, "reset")
    /\ UNCHANGED <<alive, reg, sem, status, listVars, hostVars, slot, op, prev,
                   count, clientVars>>

HandlerOpenResp(c) ==
    /\ spc[c] = "resp" /\ Reader(c)
    /\ HandlerTo(c, "answer")
    /\ UNCHANGED <<alive, reg, sem, status, listVars, hostVars, slot, op, prev,
                   count, clientVars>>

\* The answer; SIGPIPE if the client is gone by now.
HandlerAnswer(c) ==
    /\ spc[c] = "answer"
    /\ IF Reader(c)
       THEN resp' = [resp EXCEPT ![c] = Append(@, op[c])] /\ UNCHANGED alive
       ELSE alive' = FALSE /\ UNCHANGED resp
    /\ HandlerTo(c, IF op[c] = "disconnect" THEN "reset" ELSE "read")
    /\ UNCHANGED <<reg, sem, status, listVars, hostVars, slot, op, prev, count,
                   cpc, todo, req>>

\* Mutant: the slot is not given back.
HandlerResetForgotten(c) ==
    /\ spc[c] = "reset"
    /\ HandlerTo(c, "find")
    /\ UNCHANGED <<alive, reg, sem, status, listVars, hostVars, slot, op, prev,
                   count, clientVars>>

\* Mutant: every slot is given back, as the treatment of SIGUSR1 does.
HandlerResetAll(c) ==
    /\ spc[c] = "reset"
    /\ status' = [s \in Slots |-> 0]
    /\ HandlerTo(c, "find")
    /\ UNCHANGED <<alive, reg, sem, listVars, hostVars, slot, op, prev, count,
                   clientVars>>

\* Mutant: the semaphore is posted here and again at the end.
HandlerResetPosting(c) ==
    /\ spc[c] = "reset"
    /\ status' = [status EXCEPT ![slot[c]] = 0]
    /\ sem' = sem + 1
    /\ HandlerTo(c, "find")
    /\ UNCHANGED <<alive, reg, listVars, hostVars, slot, op, prev, count, clientVars>>

\* thread_status[client->thread_slot] = 0
HandlerReset(c) ==
    /\ spc[c] = "reset"
    /\ status' = [status EXCEPT ![slot[c]] = 0]
    /\ HandlerTo(c, "find")
    /\ UNCHANGED <<alive, reg, sem, listVars, hostVars, slot, op, prev, count,
                   clientVars>>

\* Mutant: the search starts at the second node.
HandlerFindLate(c) ==
    /\ spc[c] = "find"
    /\ Touch(Listed)
    /\ \/ /\ head # c
          /\ \E b \in Listed : next[b] = c /\ prev' = [prev EXCEPT ![c] = b]
          /\ HandlerTo(c, "unlink")
       \/ c \notin Listed \ {head} /\ HandlerTo(c, "post") /\ UNCHANGED prev
    /\ UNCHANGED <<reg, sem, status, listVars, hostVars, slot, op, count, clientVars>>

\* The node of the session and the one before it are looked up; without it
\* remove_client_from_session returns -1, which nobody looks at.
HandlerFind(c) ==
    /\ spc[c] = "find"
    /\ Touch(Listed)
    /\ \/ /\ head = c
          /\ prev' = [prev EXCEPT ![c] = NoClient]
          /\ HandlerTo(c, "unlink")
       \/ /\ head # c
          /\ \E b \in Listed : next[b] = c /\ prev' = [prev EXCEPT ![c] = b]
          /\ HandlerTo(c, "unlink")
       \/ c \notin Listed /\ HandlerTo(c, "post") /\ UNCHANGED prev
    /\ UNCHANGED <<reg, sem, status, listVars, hostVars, slot, op, count, clientVars>>

\* The node is unlinked and freed, the FIFOs are unlinked.
HandlerUnlink(c) ==
    /\ spc[c] = "unlink"
    /\ Touch({prev[c]})
    /\ IF prev[c] = NoClient THEN head' = next[c] /\ UNCHANGED next
       ELSE next' = [next EXCEPT ![prev[c]] = next[c]] /\ UNCHANGED head
    /\ freed' = freed \cup {c}
    /\ HandlerTo(c, "load")
    /\ UNCHANGED <<reg, sem, status, active, hostVars, slot, op, prev, count, clientVars>>

HandlerLoad(c) ==
    /\ spc[c] = "load"
    /\ count' = [count EXCEPT ![c] = active]
    /\ HandlerTo(c, "store")
    /\ UNCHANGED <<alive, reg, sem, status, listVars, hostVars, slot, op, prev, clientVars>>

\* Mutant: activeClients is not decremented.
HandlerStoreSame(c) ==
    /\ spc[c] = "store"
    /\ active' = count[c]
    /\ HandlerTo(c, "post")
    /\ UNCHANGED <<alive, reg, sem, status, head, next, freed, hostVars, slot,
                   op, prev, count, clientVars>>

HandlerStore(c) ==
    /\ spc[c] = "store"
    /\ active' = count[c] - 1
    /\ HandlerTo(c, "post")
    /\ UNCHANGED <<alive, reg, sem, status, head, next, freed, hostVars, slot,
                   op, prev, count, clientVars>>

\* Mutant: the session ends without sem_post.
HandlerPostForgotten(c) ==
    /\ spc[c] = "post"
    /\ HandlerTo(c, "ended")
    /\ UNCHANGED <<alive, reg, sem, status, listVars, hostVars, slot, op, prev,
                   count, clientVars>>

HandlerPost(c) ==
    /\ spc[c] = "post"
    /\ sem' = sem + 1
    /\ HandlerTo(c, "ended")
    /\ UNCHANGED <<alive, reg, status, listVars, hostVars, slot, op, prev, count,
                   clientVars>>

HandlerStep(c) ==
    \/ HandlerOpen(c) \/ HandlerRead(c) \/ HandlerEOF(c) \/ HandlerOpenResp(c)
    \/ HandlerAnswer(c) \/ HandlerReset(c) \/ HandlerFind(c) \/ HandlerUnlink(c)
    \/ HandlerLoad(c) \/ HandlerStore(c) \/ HandlerPost(c)

-----------------------------------------------------------------------------
Next ==
    /\ alive
    /\ \/ HostStep
       \/ \E c \in Clients : ClientStep(c) \/ Killed(c) \/ HandlerStep(c)

\* The threads of the server and the processes of the clients are scheduled;
\* a client's input ends in a DISCONNECT, as client/main.c asks of it.
Spec ==
    /\ Init /\ [][Next]_vars
    /\ WF_vars(alive /\ HostStep)
    /\ \A c \in Clients : WF_vars(alive /\ HandlerStep(c)) /\ WF_vars(alive /\ ClientStep(c))

-----------------------------------------------------------------------------
(* Properties                                                              *)

ServerType ==
    /\ alive \in BOOLEAN
    /\ reg \in Seq(Clients)
    /\ sem \in Int
    /\ status \in [Slots -> {0, 1}]
ListType ==
    /\ head \in Clients \cup {NoClient}
    /\ next \in [Clients -> Clients \cup {NoClient}]
    /\ freed \subseteq Clients
    /\ active \in Int
HostType ==
    /\ hpc \in HostLocs
    /\ hcl \in Clients \cup {NoClient} /\ (hpc # "read" => hcl \in Clients)
    /\ htail \in Clients \cup {NoClient}
    /\ hcount \in Int
HandlerType ==
    /\ spc \in [Clients -> HandlerLocs]
    /\ slot \in [Clients -> Slots]
    /\ op \in [Clients -> Requests]
    /\ prev \in [Clients -> Clients \cup {NoClient}]
    /\ count \in [Clients -> Int]
ClientType ==
    /\ cpc \in [Clients -> ClientLocs]
    /\ todo \in [Clients -> Int]
    /\ req \in [Clients -> Seq(Requests)]
    /\ resp \in [Clients -> Seq(Requests \cup {"connect"})]

\* Every variable keeps to its type.
TypeOK == ServerType /\ ListType /\ HostType /\ HandlerType /\ ClientType

\* The clients for which a token of the semaphore is held: the one the host
\* has got past sem_wait, and those whose handler has not posted yet.
Holding(c) ==
    \/ spc[c] \notin {"none", "ended"}
    \/ hcl = c /\ hpc \notin {"read", "wait"}
Holders == {c \in Clients : Holding(c)}

\* The session of client c occupies its slot.
Occupying(c) == spc[c] \in {"open", "read", "resp", "answer", "reset"}

\* Whoever gets past sem_wait finds a free slot: no handler posts before it
\* has given its slot back, and the host takes no token it does not use.
SlotAvailable == hpc = "slot" => FreeSlots # {}

\* Two sessions never share a slot, nor is one in use marked free.
SlotExclusive ==
    \A c \in Clients : Occupying(c) =>
        /\ status[slot[c]] = 1
        /\ \A d \in Clients : Occupying(d) /\ d # c => slot[d] # slot[c]

\* A client only ever receives the answer to the one request it has sent, and
\* a handler never finds two requests in one read.
AnswerMatches ==
    \A c \in Clients :
        /\ Len(req[c]) + Len(resp[c]) <= 1
        /\ resp[c] # <<>> /\ cpc[c] \notin {"dead"}
           => Head(resp[c]) = IF cpc[c] = "opening" THEN "connect" ELSE cpc[c]

\* A client for which a place is free is not turned away: add_client_to_session
\* never finds the session full once the semaphore has let a client in.  False from
\* two sessions on (run sessions_refused): what it takes is in ListChanges.
NeverRefused == hpc # "post"

Queue == IF hpc = "wait" THEN <<hcl>> \o reg ELSE reg
Gate == INSTANCE Admission WITH queue <- Queue, inside <- Holders

\* Clients are admitted in the order of their messages, at most S at a time.
Admitted == Gate!AdmissionSpec

\* As long as no client has been killed, each one that asks is served to the end.
EveryoneServed ==
    \A c \in Clients :
        cpc[c] = "sent" ~> cpc[c] = "left" \/ \E d \in Clients : cpc[d] = "dead"

\* A client killed while it has no request under way is noticed, and its slot
\* and its token given back.
IdleDeathNoticed ==
    \A c \in Clients :
        cpc[c] = "dead" /\ spc[c] = "read" /\ req[c] = <<>>
        ~> spc[c] = "ended" \/ ~alive

\* A client killed at any time in its session is noticed.  False of the code:
\* its handler waits for ever for a reader of the answer.
DeathNoticed ==
    \A c \in Clients :
        cpc[c] = "dead" /\ spc[c] # "none" ~> spc[c] = "ended" \/ ~alive
=============================================================================
