------------------------------ MODULE Signals ------------------------------
(***************************************************************************)
(* SIGUSR1 among the sessions of Sessions: handler_sigusr1 sets a flag,    *)
(* and a thread of its own (execute_signal) ends the sessions on the list, *)
(* frees their memory and unlinks their FIFOs while the host and the       *)
(* handlers go on.                                                         *)
(*                                                                         *)
(* A thread that finds the FIFO it wants to open unlinked, or its          *)
(* descriptor closed, takes its error path; one that already sleeps in the *)
(* call sleeps on.  Memory used after it was freed holds what it held, or  *)
(* kills the server.  Descriptors are not reused for another FIFO here, and *)
(* no client is killed.                                                    *)
(***************************************************************************)
EXTENDS Sessions

CONSTANT MaxSignals     \* signals sent to the server (bound)
ASSUME MaxSignalsAssumption == MaxSignals \in Nat

VARIABLES
    signals,    \* the signals still to be sent
    flag,       \* sigusr1_received
    tpc,        \* where execute_signal is
    tcl,        \* the node it has come to (current)
    cut,        \* the clients whose sessions it has ended
    asleep,     \* of these, the ones whose handler sleeps in read
    hasleep,    \* the host sleeps in a call that nothing of the server ends
    due         \* history: the sessions that a signal has found on the list

treatVars == <<tpc, tcl>>
signalVars == <<signals, flag, treatVars, cut, asleep, hasleep, due>>
signalsVars == <<vars, signalVars>>

TreatLocs == {"spin", "remove", "status", "sem", "clear"}

SignalsInit ==
    /\ Init
    /\ signals = MaxSignals
    /\ flag = 0
    /\ tpc = "spin" /\ tcl = NoClient
    /\ cut = {} /\ asleep = {} /\ hasleep = FALSE
    /\ due = {}

-----------------------------------------------------------------------------
(* handler_sigusr1, run by any thread that has not blocked the signal.  The *)
(* host does not block it, and if it is the one, its call starts again.     *)
(* Until a first client opens the register FIFO there is no handler: the    *)
(* signal ends the server.                                                  *)

Signal ==
    /\ signals > 0
    /\ signals' = signals - 1
    /\ due' = IF tpc = "spin" THEN due \cup Listed ELSE due
    /\ IF \A c \in Clients : cpc[c] = "new"
       THEN alive' = FALSE /\ UNCHANGED <<flag, hasleep>>
       ELSE flag' = 1 /\ hasleep' \in {hasleep, FALSE} /\ UNCHANGED alive
    /\ UNCHANGED <<reg, sem, status, listVars, hostVars, handlerVars, clientVars,
                   treatVars, cut, asleep>>

-----------------------------------------------------------------------------
(* execute_signal with remove_all_clients                                  *)

TreatTo(loc) == tpc' = loc

\* Where the walk along the list goes on.
WalkTo(c) == tcl' = c /\ TreatTo(IF c = NoClient THEN "status" ELSE "remove")

\* Mutant: an empty list is walked along, too.
TreatBeginEmpty ==
    /\ tpc = "spin" /\ flag = 1
    /\ tcl' = head /\ TreatTo("remove")
    /\ UNCHANGED <<vars, signals, flag, cut, asleep, hasleep, due>>

TreatBegin ==
    /\ tpc = "spin" /\ flag = 1
    /\ WalkTo(head)
    /\ UNCHANGED <<vars, signals, flag, cut, asleep, hasleep, due>>

\* The threads that sleep in a call on a FIFO of client c.
SleepingHandler(c) == spc[c] = "read" /\ req[c] = <<>> /\ Writer(c)
SleepingHost(c) ==
    /\ hcl = c
    /\ \/ hpc = "resp" /\ ~Reader(c)
       \/ hpc = "req" /\ ~Writer(c)

\* The list without node c.
Without(c) ==
    IF head = c THEN head' = next[c] /\ UNCHANGED next
    ELSE /\ \E b \in Listed : next[b] = c /\ next' = [next EXCEPT ![b] = next[c]]
         /\ UNCHANGED head

\* Mutant: the walk stops at the first session it has ended.
TreatRemoveOne ==
    /\ tpc = "remove"
    /\ Touch(Listed \cup {tcl})
    /\ WalkTo(NoClient)
    /\ IF tcl \in Listed
       THEN /\ Without(tcl) /\ active' = active - 1
            /\ freed' = freed \cup {tcl} /\ cut' = cut \cup {tcl}
            /\ asleep' \in {asleep, asleep \cup {c \in {tcl} : SleepingHandler(c)}}
            /\ hasleep' \in {hasleep, hasleep \/ SleepingHost(tcl)}
       ELSE UNCHANGED <<listVars, cut, asleep, hasleep>>
    /\ UNCHANGED <<reg, sem, status, hostVars, handlerVars, clientVars, signals, flag,
                   due>>

\* One session: the node after it is remembered, its own looked up, unlinked and
\* freed, its descriptors closed and its FIFOs unlinked, which is one step here
\* (Sessions has the steps of such a removal).  A thread at a call on one of them
\* may or may not be in it by now.
TreatRemove ==
    /\ tpc = "remove"
    /\ Touch(Listed \cup {tcl})
    /\ WalkTo(next[tcl])
    /\ IF tcl \in Listed
       THEN /\ Without(tcl) /\ active' = active - 1
            /\ freed' = freed \cup {tcl} /\ cut' = cut \cup {tcl}
            /\ asleep' \in {asleep, asleep \cup {c \in {tcl} : SleepingHandler(c)}}
            /\ hasleep' \in {hasleep, hasleep \/ SleepingHost(tcl)}
       ELSE UNCHANGED <<listVars, cut, asleep, hasleep>>
    /\ UNCHANGED <<reg, sem, status, hostVars, handlerVars, clientVars, signals, flag,
                   due>>

\* The subscriptions are deleted (see Store), then thread_status is cleared.
TreatStatus ==
    /\ tpc = "status"
    /\ status' = [s \in Slots |-> 0]
    /\ TreatTo("sem")
    /\ UNCHANGED <<alive, reg, sem, listVars, hostVars, handlerVars, clientVars,
                   signals, flag, tcl, cut, asleep, hasleep, due>>

\* reset_semaphore forgets who sleeps in sem_wait: no post will wake the host.
TreatSem ==
    /\ tpc = "sem"
    /\ hasleep' \in {hasleep, hasleep \/ (hpc = "wait" /\ sem = 0)}
    /\ sem' = S
    /\ TreatTo("clear")
    /\ UNCHANGED <<alive, reg, status, listVars, hostVars, handlerVars, clientVars,
                   signals, flag, tcl, cut, asleep, due>>

\* A signal that has arrived since TreatBegin is forgotten.
TreatClear ==
    /\ tpc = "clear"
    /\ flag' = 0
    /\ TreatTo("spin")
    /\ UNCHANGED <<vars, signals, tcl, cut, asleep, hasleep, due>>

TreatStep ==
    \/ TreatBegin \/ TreatRemove \/ TreatStatus \/ TreatSem \/ TreatClear

-----------------------------------------------------------------------------
(* The threads and clients of sessions that have been ended under them     *)

\* The names are gone, the descriptors closed: open and write fail, and the host
\* goes on all the same.
HostOnCut == hcl \in cut /\ hpc \in {"resp", "greet", "req"}
HostFails ==
    /\ HostOnCut /\ ~hasleep
    /\ HostTo(CASE hpc = "resp" -> "greet" [] hpc = "greet" -> "req" [] hpc = "req" -> "start")
    /\ UNCHANGED <<alive, reg, sem, status, listVars, hcl, htail, hcount,
                   handlerVars, clientVars, signalVars>>

\* A handler's read fails, which it takes for the end of the client; after a
\* failed open or write it just ends, its slot and its token kept.
HandlerOnCut(c) == c \in cut \ asleep /\ spc[c] \in {"open", "read", "resp", "answer"}
HandlerFails(c) ==
    /\ HandlerOnCut(c)
    /\ HandlerTo(c, IF spc[c] = "read" THEN "reset" ELSE "ended")
    /\ UNCHANGED <<alive, reg, sem, status, listVars, hostVars, slot, op, prev,
                   count, clientVars, signalVars>>

\* One that slept in read has got a request.
HandlerWakes(c) ==
    /\ c \in asleep /\ HandlerStep(c)
    /\ asleep' = asleep \ {c}
    /\ UNCHANGED <<signals, flag, treatVars, cut, hasleep, due>>

\* Whoever looks into a freed Client, or frees it again, may end the server.
Crash ==
    /\ \/ HostOnCut /\ ~hasleep
       \/ \E c \in cut : HandlerOnCut(c) \/ spc[c] \in {"reset", "find", "unlink"}
    /\ alive' = FALSE
    /\ UNCHANGED <<reg, sem, status, listVars, hostVars, handlerVars, clientVars,
                   signalVars>>

\* A client that finds its FIFOs gone before it has opened them ends.
ClientOpenOnCut(c) ==
    /\ c \in cut
    /\ \/ cpc[c] = "sent"
       \/ cpc[c] = "opening" /\ resp[c] # <<>>
ClientFails(c) ==
    /\ ClientOpenOnCut(c)
    /\ ClientTo(c, "refused")
    /\ UNCHANGED <<alive, reg, sem, status, listVars, hostVars, handlerVars, todo,
                   req, resp, signalVars>>

\* And so does one whose response FIFO is closed before its first answer; later
\* it reads on at the end of file, or asks a FIFO that nobody reads.
ClientCut(c) ==
    /\ c \in cut /\ cpc[c] = "opening" /\ resp[c] = <<>>
    /\ ClientTo(c, "refused")
    /\ UNCHANGED <<alive, reg, sem, status, listVars, hostVars, handlerVars, todo,
                   req, resp, signalVars>>

-----------------------------------------------------------------------------
HostGoesOn == HostStep /\ ~HostOnCut /\ ~hasleep /\ UNCHANGED signalVars
HandlerGoesOn(c) ==
    HandlerStep(c) /\ ~HandlerOnCut(c) /\ c \notin asleep /\ UNCHANGED signalVars
ClientGoesOn(c) == ClientStep(c) /\ ~ClientOpenOnCut(c) /\ UNCHANGED signalVars

HostOrFails == alive /\ (HostGoesOn \/ HostFails)
HandlerOrFails(c) == alive /\ (HandlerGoesOn(c) \/ HandlerFails(c) \/ HandlerWakes(c))
ClientOrFails(c) == alive /\ (ClientGoesOn(c) \/ ClientFails(c))

SignalsNext ==
    \/ HostOrFails
    \/ \E c \in Clients : HandlerOrFails(c) \/ ClientOrFails(c)
    \/ alive /\ (Signal \/ TreatStep \/ Crash)
    \/ alive /\ \E c \in Clients : ClientCut(c)

\* As in Sessions, and execute_signal, which never sleeps, is scheduled too.
SignalsSpec ==
    /\ SignalsInit /\ [][SignalsNext]_signalsVars
    /\ WF_signalsVars(HostOrFails) /\ WF_signalsVars(alive /\ TreatStep)
    /\ \A c \in Clients : /\ WF_signalsVars(HandlerOrFails(c))
                          /\ WF_signalsVars(ClientOrFails(c))

-----------------------------------------------------------------------------
(* Properties                                                              *)

\* The types of Sessions are kept, and those of the treatment.
SignalsTypeOK ==
    /\ TypeOK
    /\ signals \in 0..MaxSignals /\ flag \in {0, 1}
    /\ tpc \in TreatLocs
    /\ tcl \in Clients \cup {NoClient} /\ (tpc = "remove" => tcl \in Clients)
    /\ asleep \subseteq cut /\ cut \subseteq freed /\ freed \subseteq Clients
    /\ hasleep \in BOOLEAN /\ due \subseteq Clients

\* The first signal ends every session that was on the list when it came, however
\* the host and the handlers change the list until the walk along it is over.  A
\* second one may miss a session: a handler that is still unlinking a node which
\* the first has freed takes the nodes linked since off the list with it.
SignalEndsSessions == tpc = "status" => due \subseteq freed

\* After the signal the server goes on: the host comes to every client that asks
\* for a session.  False of the code: it may sleep for ever on behalf of a client
\* whose session, hardly begun, the signal has ended.
KeepsServing ==
    \A c \in Clients :
        signals = 0 /\ flag = 0 /\ (\E i \in 1..Len(reg) : reg[i] = c)
        ~> hcl = c \/ ~alive
=============================================================================
