--------------------------- MODULE SignalsProofs ---------------------------
(***************************************************************************)
(* Proofs about Signals, for any number of clients and any S: its types    *)
(* and, for one signal, that SIGUSR1 ends every session that is on the     *)
(* list when it comes, although host and handlers change the list without  *)
(* a lock under the walk of execute_signal.                                *)
(*                                                                         *)
(* The nodes are linked in the order in which clients are admitted, and    *)
(* every pointer goes forward in it (RankInv): a handler that unlinks its  *)
(* node, and may do so with a stale prev, takes nothing off the list that  *)
(* the signal has still to end (UnlinkInv), nor does the host where it     *)
(* links to a stale tail (TailInv).                                        *)
(***************************************************************************)
EXTENDS Signals, ListProofs

\* Of what Sessions promises this much is left among signals.
BaseInv == SignalsTypeOK /\ QueueInv

\* A step of the host, a handler or a client is one of Sessions.
LEMMA SessionStep ==
    ASSUME alive, \/ HostStep
                  \/ \E c \in Clients : HandlerStep(c) \/ ClientStep(c)
    PROVE  [Next]_vars
BY DEF Next

\* Those of SIGUSR1 leave the queue of clients alone, and keep the types of Sessions.
LEMMA SignalStepBase ==
    ASSUME BaseInv, \/ HostFails \/ Signal \/ TreatStep \/ Crash
                    \/ \E c \in Clients : HandlerFails(c) \/ ClientFails(c) \/ ClientCut(c)
    PROVE  (TypeOK /\ QueueInv)'
<1> USE DEF BaseInv, SignalsTypeOK, TypeOK, ServerType, ListType, HostType, HandlerType,
            ClientType, listVars, hostVars, handlerVars, clientVars
<1>1. ASSUME UNCHANGED <<reg, hcl, spc, cpc>>, hpc' # "read" => hpc # "read"
      PROVE  QueueInv'
  BY <1>1 DEF QueueInv
<1>2. CASE HostFails
  BY <1>1, <1>2 DEF HostFails, HostOnCut, HostTo, HostLocs
<1>3. CASE Signal
  BY <1>1, <1>3 DEF Signal
<1>4. CASE TreatBegin \/ TreatClear
  BY <1>1, <1>4 DEF TreatBegin, TreatClear, vars
<1>5. CASE TreatStatus
  BY <1>1, <1>5 DEF TreatStatus
<1>6. CASE TreatSem
  <2>1. sem' = S /\ UNCHANGED <<alive, reg, status, listVars, hostVars, handlerVars, clientVars>>
    BY <1>6 DEF TreatSem
  <2>2. QueueInv'
    BY <1>1, <2>1
  <2>3. sem' \in Int
    BY <2>1, SAssumption
  <2>4. ServerType'
    BY <2>1, <2>3
  <2>5. (ListType /\ HostType /\ HandlerType /\ ClientType)'
    BY <2>1
  <2> QED BY <2>2, <2>4, <2>5
<1>7. CASE TreatRemove
  <2>1. tcl \in Clients /\ next[tcl] \in Clients \cup {NoClient} /\ alive' \in BOOLEAN
    BY <1>7, TouchType DEF TreatRemove
  <2>2. UNCHANGED <<reg, sem, status, hostVars, handlerVars, clientVars>>
    BY <1>7 DEF TreatRemove
  <2>3. ListType'
    <3>1. CASE tcl \in Listed
      <4>1. Without(tcl) /\ active' = active - 1 /\ freed' = freed \cup {tcl}
        BY <1>7, <3>1 DEF TreatRemove
      <4>2. head' \in Clients \cup {NoClient} /\ next' \in [Clients -> Clients \cup {NoClient}]
        BY <2>1, <4>1 DEF Without
      <4>3. freed' \subseteq Clients
        BY <2>1, <4>1
      <4>4. active' \in Int
        BY <4>1
      <4> QED BY <4>2, <4>3, <4>4
    <3>2. CASE tcl \notin Listed
      BY <1>7, <3>2 DEF TreatRemove
    <3> QED BY <3>1, <3>2
  <2>4. QueueInv'
    BY <1>1, <2>2
  <2> QED BY <2>1, <2>2, <2>3, <2>4
<1>8. CASE Crash
  BY <1>1, <1>8 DEF Crash
<1>9. ASSUME NEW c \in Clients, ClientFails(c) \/ ClientCut(c) PROVE (TypeOK /\ QueueInv)'
  <2>1. /\ UNCHANGED <<alive, reg, sem, status, listVars, hostVars, handlerVars, todo, req, resp>>
        /\ cpc[c] # "new" /\ cpc' = [cpc EXCEPT ![c] = "refused"]
    BY <1>9 DEF ClientFails, ClientOpenOnCut, ClientCut, ClientTo
  <2>2. cpc' \in [Clients -> ClientLocs] /\ \A d \in Clients : cpc'[d] = "new" <=> cpc[d] = "new"
    BY <2>1 DEF ClientLocs
  <2>3. \A p \in 1..Len(reg) : reg[p] \in Clients
    BY LenProperties, ElementOfSeq
  <2>4. UNCHANGED <<reg, hpc, hcl, spc>> /\ (hpc # "read" => hcl \in Clients)
    BY <2>1
  <2>5. QueueInv'
    <3> USE DEF QueueInv
    <3>1. \A c1 \in Clients : cpc'[c1] = "new" => spc'[c1] = "none"
      BY <2>2, <2>4
    <3>2. hpc' # "read" => spc'[hcl'] = "none" /\ cpc'[hcl'] # "new"
      BY <2>2, <2>4
    <3>3. \A p \in 1..Len(reg) :
            /\ spc[reg[p]] = "none" /\ cpc'[reg[p]] # "new"
            /\ hpc # "read" => reg[p] # hcl
            /\ \A q \in 1..Len(reg) : q # p => reg[q] # reg[p]
      BY <2>2, <2>3
    <3> QED BY <2>4, <3>1, <3>2, <3>3
  <2> QED BY <2>1, <2>2, <2>5
<1>10. ASSUME NEW c \in Clients, HandlerFails(c) PROVE (TypeOK /\ QueueInv)'
  <2>1. /\ UNCHANGED <<alive, reg, sem, status, listVars, hostVars, slot, op, prev, count, clientVars>>
        /\ spc[c] # "none"
        /\ \E l \in {"reset", "ended"} : spc' = [spc EXCEPT ![c] = l]
    BY <1>10 DEF HandlerFails, HandlerOnCut, HandlerTo
  <2>2. /\ spc' \in [Clients -> HandlerLocs]
        /\ \A d \in Clients : spc[d] = "none" => spc'[d] = "none"
    BY <2>1 DEF HandlerLocs
  <2>3. \A d \in Clients : spc[d] = "none" <=> spc'[d] = "none"
    BY <2>1, <2>2
  <2>4. \A p \in 1..Len(reg) : reg[p] \in Clients
    BY LenProperties, ElementOfSeq
  <2>5. QueueInv'
    BY <2>1, <2>3, <2>4 DEF QueueInv
  <2> QED BY <2>1, <2>2, <2>5
<1> QED BY <1>2, <1>3, <1>4, <1>5, <1>6, <1>7, <1>8, <1>9, <1>10 DEF TreatStep

\* No step of Sessions takes back that a node has been freed.
LEMMA FreedGrows ==
    ASSUME TypeOK, \/ HostStep
                   \/ \E c \in Clients : HandlerStep(c) \/ ClientStep(c)
    PROVE  freed \subseteq freed'
<1>1. CASE HostStep
  BY <1>1 DEF HostStep, HostRead, HostWait, HostSlot, HostCheck, HostTail, HostLink, HostLoad,
       HostStore, HostOpenResp, HostGreet, HostOpenReq, HostStart, HostPost, listVars
<1>2. ASSUME NEW c \in Clients, HandlerStep(c) PROVE freed \subseteq freed'
  BY <1>2 DEF HandlerStep, HandlerOpen, HandlerRead, HandlerEOF, HandlerOpenResp,
       HandlerAnswer, HandlerReset, HandlerFind, HandlerUnlink, HandlerLoad, HandlerStore,
       HandlerPost, listVars
<1>3. ASSUME NEW c \in Clients, ClientStep(c) PROVE freed \subseteq freed'
  BY <1>3 DEF ClientStep, ClientConnect, ClientOpenResp, ClientConnected, ClientAsk,
       ClientAnswered, listVars
<1> QED BY <1>1, <1>2, <1>3

\* The variables of Signals keep their types.
LEMMA StepBase == BaseInv /\ [SignalsNext]_signalsVars => BaseInv'
<1> SUFFICES ASSUME BaseInv, [SignalsNext]_signalsVars PROVE BaseInv'
  OBVIOUS
<1> DEFINE Treated ==
      /\ signals \in 0..MaxSignals /\ flag \in {0, 1}
      /\ tpc \in TreatLocs
      /\ tcl \in Clients \cup {NoClient} /\ (tpc = "remove" => tcl \in Clients)
      /\ asleep \subseteq cut /\ cut \subseteq freed /\ freed \subseteq Clients
      /\ hasleep \in BOOLEAN /\ due \subseteq Clients
<1>0. TypeOK /\ Treated /\ QueueInv
  BY DEF BaseInv, SignalsTypeOK
<1>1. ASSUME (TypeOK /\ QueueInv)', Treated' PROVE BaseInv'
  BY <1>1 DEF BaseInv, SignalsTypeOK
<1>2. TypeOK' => freed' \subseteq Clients
  BY DEF TypeOK, ListType
\* Steps of Sessions, with signalVars as they were but for a handler woken up.
<1>3. ASSUME alive, HostStep \/ \E c \in Clients : HandlerStep(c) \/ ClientStep(c),
             UNCHANGED <<signals, flag, tpc, tcl, cut, hasleep, due>>, asleep' \subseteq asleep
      PROVE  BaseInv'
  <2>1. (TypeOK /\ QueueInv)'
    BY <1>0, <1>3, SessionStep, StepType, StepQueue
  <2>2. Treated'
    BY <1>0, <1>2, <1>3, <2>1, FreedGrows
  <2> QED BY <1>1, <2>1, <2>2
<1>4. CASE \/ alive /\ HostGoesOn
           \/ alive /\ \E c \in Clients : HandlerGoesOn(c) \/ ClientGoesOn(c) \/ HandlerWakes(c)
  BY <1>3, <1>4 DEF HostGoesOn, HandlerGoesOn, ClientGoesOn, HandlerWakes, signalVars, treatVars
<1>5. CASE HostFails \/ Crash \/ \E c \in Clients : HandlerFails(c) \/ ClientFails(c) \/ ClientCut(c)
  <2>1. (TypeOK /\ QueueInv)'
    BY <1>5, SignalStepBase
  <2>2. UNCHANGED <<freed, signals, flag, tpc, tcl, cut, asleep, hasleep, due>>
    BY <1>5 DEF HostFails, Crash, HandlerFails, ClientFails, ClientCut, signalVars, treatVars, listVars
  <2> QED BY <1>0, <1>1, <2>1, <2>2
<1>6. CASE Signal
  <2>1. (TypeOK /\ QueueInv)'
    BY <1>6, SignalStepBase
  <2>2. /\ UNCHANGED <<freed, tpc, tcl, cut, asleep>>
        /\ signals' = signals - 1 /\ signals > 0
        /\ flag' \in {0, 1}
    BY <1>0, <1>6 DEF Signal, treatVars, listVars
  <2>3. due' \subseteq Clients
    BY <1>0, <1>6 DEF Signal, Listed, Walk
  <2>4. signals' \in 0..MaxSignals
    BY <1>0, <2>2, MaxSignalsAssumption
  <2>5. hasleep' \in BOOLEAN
    BY <1>0, <1>6, Zenon DEF Signal
  <2> QED BY <1>0, <1>1, <2>1, <2>2, <2>3, <2>4, <2>5
<1>7. CASE TreatStep
  <2>1. (TypeOK /\ QueueInv)'
    BY <1>7, SignalStepBase
  <2>2. head \in Clients \cup {NoClient} /\ next \in [Clients -> Clients \cup {NoClient}]
    BY <1>0 DEF TypeOK, ListType
  <2>3. CASE TreatBegin
    <3>1. UNCHANGED <<freed, signals, flag, cut, asleep, hasleep, due>>
      BY <2>3 DEF TreatBegin, vars, listVars
    <3>2. tcl' = head /\ tpc' = (IF head = NoClient THEN "status" ELSE "remove")
      BY <2>3 DEF TreatBegin, WalkTo, TreatTo
    <3> QED BY <1>0, <1>1, <2>1, <2>2, <3>1, <3>2 DEF TreatLocs
  <2>4. CASE TreatRemove
    <3>1. UNCHANGED <<signals, flag, due>>
      BY <2>4 DEF TreatRemove
    <3>2. tcl \in Clients /\ tcl' = next[tcl]
          /\ tpc' = (IF next[tcl] = NoClient THEN "status" ELSE "remove")
      BY <1>0, <2>4 DEF TreatRemove, WalkTo, TreatTo
    <3>3. asleep' \subseteq cut' /\ cut' \subseteq freed' /\ hasleep' \in BOOLEAN
      <4>1. CASE tcl \in Listed
        <5>1. /\ freed' = freed \cup {tcl} /\ cut' = cut \cup {tcl}
              /\ asleep' \in {asleep, asleep \cup {c \in {tcl} : SleepingHandler(c)}}
              /\ hasleep' \in {hasleep, hasleep \/ SleepingHost(tcl)}
          BY <2>4, <4>1 DEF TreatRemove
        <5>2. asleep' \subseteq cut' /\ cut' \subseteq freed'
          BY <1>0, <5>1
        <5>3. hasleep' \in BOOLEAN
          BY <1>0, <5>1, Zenon DEF SleepingHost
        <5> QED BY <5>2, <5>3
      <4>2. CASE tcl \notin Listed
        BY <1>0, <2>4, <4>2 DEF TreatRemove, listVars
      <4> QED BY <4>1, <4>2
    <3> QED BY <1>0, <1>1, <1>2, <2>1, <2>2, <3>1, <3>2, <3>3 DEF TreatLocs
  <2>5. CASE TreatStatus \/ TreatSem \/ TreatClear
    <3>1. UNCHANGED <<freed, signals, tcl, cut, asleep, due>> /\ flag' \in {0, 1}
      BY <1>0, <2>5 DEF TreatStatus, TreatSem, TreatClear, vars, listVars
    <3>2. tpc' \in TreatLocs \ {"remove"}
      BY <2>5 DEF TreatStatus, TreatSem, TreatClear, TreatTo, TreatLocs
    <3>3. hasleep' \in BOOLEAN
      BY <1>0, <2>5, Zenon DEF TreatStatus, TreatSem, TreatClear
    <3> QED BY <1>0, <1>1, <2>1, <3>1, <3>2, <3>3
  <2> QED BY <1>7, <2>3, <2>4, <2>5 DEF TreatStep
<1>8. CASE UNCHANGED signalsVars
  <2>1. UNCHANGED vars /\ UNCHANGED <<freed, signals, flag, tpc, tcl, cut, asleep, hasleep, due>>
    BY <1>8 DEF signalsVars, signalVars, treatVars, vars, listVars
  <2> QED BY <1>0, <1>1, <2>1, StepType, StepQueue
<1> QED BY <1>4, <1>5, <1>6, <1>7, <1>8
        DEF SignalsNext, HostOrFails, HandlerOrFails, ClientOrFails

\* At the start.
LEMMA InitBase == SignalsInit => BaseInv
<1> SUFFICES ASSUME SignalsInit PROVE BaseInv
  OBVIOUS
<1>1. TypeOK
  BY InitType DEF SignalsInit
<1>2. QueueInv
  BY DEF SignalsInit, Init, QueueInv
<1>3. /\ signals \in 0..MaxSignals /\ flag \in {0, 1} /\ tpc \in TreatLocs \ {"remove"}
      /\ tcl \in Clients \cup {NoClient}
      /\ asleep \subseteq cut /\ cut \subseteq freed /\ freed \subseteq Clients
      /\ due \subseteq Clients
  BY MaxSignalsAssumption DEF SignalsInit, Init, TreatLocs
<1>4. hasleep \in BOOLEAN
  BY DEF SignalsInit
<1> QED BY <1>1, <1>2, <1>3, <1>4 DEF BaseInv, SignalsTypeOK

\* Every variable of the sessions and of the treatment of a signal keeps to its
\* type, and what execute_signal has ended has been freed.
THEOREM SignalsTypeCorrect == SignalsSpec => []SignalsTypeOK
<1>1. BaseInv => SignalsTypeOK
  BY DEF BaseInv
<1> QED BY <1>1, InitBase, StepBase, PTL DEF SignalsSpec

-----------------------------------------------------------------------------
(* One signal, and the list under its walk                                 *)

\* Client c has not been linked yet.
Fresh(c) ==
    /\ spc[c] = "none"
    /\ ~(hcl = c /\ hpc \in {"load", "store", "resp", "greet", "req", "start"})

\* Nothing points to the node of such a client, nor will.
FreshInv ==
    \A c \in Clients : Fresh(c) =>
        /\ head # c /\ next[c] = NoClient
        /\ \A b \in Clients : next[b] # c /\ (spc[b] = "unlink" => prev[b] # c)
        /\ hpc = "link" => htail # c

\* The signal is still to come.
Unsent == signals = 1

UnsentInv ==
    Unsent =>
        /\ tpc = "spin" /\ flag = 0 /\ cut = {} /\ due = {}
        /\ \A c \in Clients :
             /\ c \in freed => spc[c] \in {"load", "store", "post", "ended"}
             /\ spc[c] = "unlink" => c \in Listed

\* The sessions it has still to end, or would have to if it came now.
Targets == (IF Unsent THEN Listed ELSE due) \ freed

\* Pointers lead, and a handler that unlinks its node comes, from lower to higher ranks.
RankInv(r) ==
    /\ Ranked(next, r)
    /\ \A c \in Clients : spc[c] = "unlink" /\ prev[c] \in Clients => r[prev[c]] < r[c]

\* What lies behind the node that a handler is about to point past its own, and has
\* still to be ended, lies behind its own as well.
UnlinkInv(r) ==
    \A c \in Clients : spc[c] = "unlink" =>
        \A d \in Targets \ {c} :
            prev[c] = NoClient \/ r[prev[c]] < r[d] => d \in Walk(next, next[c])

\* Nothing to be ended lies behind the node that the host takes for the last one.
TailInv(r) == hpc = "link" => \A d \in Targets : htail \in Clients /\ r[d] <= r[htail]

\* What is to be ended is on the list, and the walk will come to it.
WalkInv ==
    /\ Targets \subseteq Listed
    /\ tpc = "remove" => Targets \subseteq Walk(next, tcl)
    /\ tpc = "status" => Targets = {}

EndInv ==
    /\ FreshInv /\ UnsentInv /\ WalkInv
    /\ \E r \in [Clients -> Nat] : RankInv(r) /\ UnlinkInv(r) /\ TailInv(r)

\* What the types give these proofs.
LEMMA ListTypes ==
    ASSUME BaseInv
    PROVE  /\ next \in Pointers /\ head \in Clients \cup {NoClient}
           /\ \A c \in Clients : /\ next[c] \in Clients \cup {NoClient}
                                 /\ prev[c] \in Clients \cup {NoClient}
           /\ prev \in [Clients -> Clients \cup {NoClient}]
           /\ spc \in [Clients -> HandlerLocs] /\ freed \subseteq Clients
           /\ tcl \in Clients \cup {NoClient} /\ (tpc = "remove" => tcl \in Clients)
           /\ Listed \subseteq Clients /\ Targets \subseteq Clients
           /\ htail \in Clients \cup {NoClient}
           /\ hpc # "read" => hcl \in Clients /\ spc[hcl] = "none"
           /\ NoClient \notin Clients
<1>1. Listed \subseteq Clients
  BY DEF Listed, Walk
<1>2. /\ next \in Pointers /\ head \in Clients \cup {NoClient}
      /\ prev \in [Clients -> Clients \cup {NoClient}]
      /\ spc \in [Clients -> HandlerLocs] /\ freed \subseteq Clients
      /\ htail \in Clients \cup {NoClient}
      /\ hpc # "read" => hcl \in Clients
  BY DEF BaseInv, SignalsTypeOK, TypeOK, ListType, HostType, HandlerType, Pointers
<1>3. /\ tcl \in Clients \cup {NoClient} /\ (tpc = "remove" => tcl \in Clients)
      /\ due \subseteq Clients
  BY DEF BaseInv, SignalsTypeOK
<1>4. hpc # "read" => spc[hcl] = "none"
  BY DEF BaseInv, QueueInv
<1>5. Targets \subseteq Clients
  BY <1>1, <1>3 DEF Targets
<1> QED BY <1>1, <1>2, <1>3, <1>4, <1>5, ClientsAssumption DEF Pointers

\* A client that has not been linked is not on the list.
LEMMA FreshNotListed ==
    ASSUME BaseInv, FreshInv, NEW c \in Clients, Fresh(c)
    PROVE  c \notin Listed
<1> DEFINE nodes == Clients \ {c}
<1>1. /\ next \in Pointers /\ head \in Clients \cup {NoClient}
      /\ head # c /\ \A b \in Clients : next[b] # c
      /\ \A b \in Clients : next[b] \in Clients \cup {NoClient}
  BY ListTypes DEF FreshInv
<1>2. nodes \in SUBSET Clients /\ head \in nodes \cup {NoClient}
  BY <1>1
<1>3. \A b \in nodes : next[b] \in nodes \cup {NoClient}
  BY <1>1
<1>4. Listed \subseteq nodes
  <2> HIDE DEF nodes
  <2> QED BY <1>2, <1>3, WalkLeast DEF Listed
<1> QED BY <1>4

\* A handler looks up its node and the one before it, which is on the list as yet.
LEMMA EndFind ==
    ASSUME BaseInv, EndInv, NEW c \in Clients, NEW q \in Clients \cup {NoClient},
           UNCHANGED <<head, next, freed, due, signals, hpc, hcl, htail, tpc, tcl, cut, flag>>,
           spc[c] = "find", spc' = [spc EXCEPT ![c] = "unlink"],
           prev' = [prev EXCEPT ![c] = q],
           \/ head = c /\ q = NoClient
           \/ q \in Listed /\ next[q] = c
    PROVE  EndInv'
<1>0. PICK r \in [Clients -> Nat] : RankInv(r) /\ UnlinkInv(r) /\ TailInv(r)
  BY DEF EndInv
<1> USE ListTypes
<1>1. /\ Targets' = Targets /\ Listed' = Listed
      /\ \A x \in Clients : Fresh(x)' => Fresh(x) /\ x # c
  BY DEF Targets, Listed, Unsent, Fresh
<1>2. c \in Listed
  BY WalkClosed DEF Listed
<1>3. FreshInv'
  <2> SUFFICES ASSUME NEW x \in Clients, Fresh(x)'
               PROVE  /\ head # x /\ next[x] = NoClient
                      /\ \A b \in Clients : /\ next[b] # x
                                            /\ spc'[b] = "unlink" => prev'[b] # x
                      /\ hpc = "link" => htail # x
    BY DEF FreshInv
  <2>1. Fresh(x) /\ x # c /\ x \notin Listed
    BY <1>1, FreshNotListed DEF EndInv
  <2>2. q # x
    BY <2>1
  <2> QED BY <2>1, <2>2 DEF EndInv, FreshInv
<1>4. UnsentInv'
  BY <1>1, <1>2 DEF EndInv, UnsentInv, Unsent
<1>5. WalkInv'
  BY <1>1 DEF EndInv, WalkInv
<1>6. RankInv(r)'
  BY <1>0 DEF RankInv, Ranked
<1>7. UnlinkInv(r)'
  <2> SUFFICES ASSUME NEW b \in Clients, spc'[b] = "unlink", NEW d \in Targets \ {b},
                      prev'[b] = NoClient \/ r[prev'[b]] < r[d]
               PROVE  d \in Walk(next, next[b])
    BY <1>1 DEF UnlinkInv
  <2>1. CASE b # c
    BY <1>0, <2>1 DEF UnlinkInv
  <2>2. CASE b = c
    <3>1. d \in Listed /\ d \in Clients /\ d # c
      BY <2>2 DEF EndInv, WalkInv
    <3>2. Walk(next, c) = {c} \cup Walk(next, next[c])
      BY WalkFirst
    <3>3. CASE q = NoClient
      BY <2>2, <3>1, <3>2, <3>3 DEF Listed
    <3>4. CASE q \in Listed /\ next[q] = c
      <4>1. r[q] < r[d] /\ r[q] \in Nat /\ r[d] \in Nat /\ q # d /\ q \in Clients
        BY <2>2, <3>1, <3>4
      <4>2. d \in Walk(next, q) \/ q \in Walk(next, d)
        BY <3>1, <3>4, WalkLinear DEF Listed
      <4>3. q \notin Walk(next, d)
        BY <1>0, <3>1, <4>1, WalkRanks DEF RankInv
      <4>4. Walk(next, q) = {q} \cup Walk(next, c)
        BY <3>4, <4>1, WalkFirst
      <4> QED BY <2>2, <3>1, <3>2, <4>1, <4>2, <4>3, <4>4
    <3> QED BY <3>3, <3>4
  <2> QED BY <2>1, <2>2
<1>8. TailInv(r)'
  BY <1>0, <1>1 DEF TailInv
<1> QED BY <1>3, <1>4, <1>5, <1>6, <1>7, <1>8 DEF EndInv

\* It takes its node off the list, by the one before it as of then.
LEMMA EndUnlink ==
    ASSUME BaseInv, EndInv, NEW c \in Clients,
           UNCHANGED <<due, signals, hpc, hcl, htail, prev, tpc, tcl, cut, flag>>,
           spc[c] = "unlink", spc' = [spc EXCEPT ![c] = "load"],
           freed' = freed \cup {c},
           IF prev[c] = NoClient THEN head' = next[c] /\ UNCHANGED next
           ELSE next' = [next EXCEPT ![prev[c]] = next[c]] /\ UNCHANGED head
    PROVE  EndInv'
<1>0. PICK r \in [Clients -> Nat] : RankInv(r) /\ UnlinkInv(r) /\ TailInv(r)
  BY DEF EndInv
<1> USE ListTypes
<1>1. \A x \in Clients : Fresh(x)' => Fresh(x) /\ x # c
  BY DEF Fresh
<1>2. /\ Ranked(next, r)
      /\ prev[c] \in Clients => /\ r[prev[c]] < r[c]
                                /\ next[c] \in Clients => r[prev[c]] < r[next[c]]
  BY <1>0 DEF RankInv, Ranked
<1>ptr. /\ head' \in {head, next[c]}
       /\ \A b \in Clients : next'[b] = next[b] \/ (b = prev[c] /\ next'[b] = next[c])
  <2>1. CASE prev[c] = NoClient
    BY <2>1
  <2>2. CASE prev[c] \in Clients
    BY <2>2 DEF Pointers
  <2> QED BY <2>1, <2>2
\* Walks still come to what is to be ended.
<1>3. ASSUME NEW x \in Clients \cup {NoClient}, NEW d \in Targets \ {c}, d \in Walk(next, x)
      PROVE  d \in Walk(next', x)
  <2>1. CASE prev[c] = NoClient
    BY <1>3, <2>1
  <2>2. CASE prev[c] \in Clients
    <3>1. r[d] <= r[prev[c]] \/ d \in Walk(next, next[c])
      BY <1>0, <2>2 DEF UnlinkInv
    <3>2. d \in Walk([next EXCEPT ![prev[c]] = next[c]], x)
      BY <1>2, <1>3, <2>2, <3>1, WalkBypass
    <3> QED BY <2>2, <3>2
  <2> QED BY <2>1, <2>2
<1>4. \A d \in Targets \ {c} : d \in Listed'
  <2> TAKE d \in Targets \ {c}
  <2>1. d \in Listed
    BY DEF EndInv, WalkInv
  <2>2. CASE prev[c] = NoClient
    <3>1. d \in Walk(next, next[c])
      BY <1>0, <2>2 DEF UnlinkInv
    <3> QED BY <2>2, <3>1 DEF Listed
  <2>3. CASE prev[c] \in Clients
    BY <1>3, <2>1, <2>3 DEF Listed
  <2> QED BY <2>2, <2>3
<1>5. Targets' \subseteq Targets \ {c}
  <2>1. CASE Unsent
    <3>1. c \in Listed /\ next[c] \in Listed \cup {NoClient}
      BY <2>1, WalkClosed DEF EndInv, UnsentInv, Listed
    <3>2. Listed' \subseteq Listed
      <4>1. CASE prev[c] = NoClient
        BY <3>1, <4>1, WalkFrom, WalkNone DEF Listed
      <4>2. CASE prev[c] \in Clients
        BY <3>1, <4>2, WalkShrinks DEF Listed
      <4> QED BY <4>1, <4>2
    <3> QED BY <2>1, <3>2 DEF Targets, Unsent
  <2>2. CASE ~Unsent
    BY <2>2 DEF Targets, Unsent
  <2> QED BY <2>1, <2>2
<1>6. FreshInv'
  <2> SUFFICES ASSUME NEW x \in Clients, Fresh(x)'
               PROVE  /\ head' # x /\ next'[x] = NoClient
                      /\ \A b \in Clients : /\ next'[b] # x
                                            /\ spc'[b] = "unlink" => prev'[b] # x
                      /\ hpc' = "link" => htail' # x
    BY DEF FreshInv
  <2>1. /\ head # x /\ next[x] = NoClient /\ prev[c] # x
        /\ \A b \in Clients : next[b] # x /\ (spc[b] = "unlink" => prev[b] # x)
        /\ hpc = "link" => htail # x
    BY <1>1 DEF EndInv, FreshInv
  <2>2. x # c /\ next'[x] = NoClient
    BY <1>1, <1>ptr, <2>1
  <2>3. head' # x /\ \A b \in Clients : next'[b] # x
    BY <1>ptr, <2>1, <2>2
  <2> QED BY <2>1, <2>2, <2>3
<1>7. UnsentInv'
  <2> SUFFICES ASSUME Unsent
               PROVE  /\ tpc = "spin" /\ flag = 0 /\ cut = {} /\ due = {}
                      /\ \A b \in Clients :
                           /\ b \in freed' => spc'[b] \in {"load", "store", "post", "ended"}
                           /\ spc'[b] = "unlink" => b \in Listed'
    BY DEF UnsentInv, Unsent
  <2>1. /\ tpc = "spin" /\ flag = 0 /\ cut = {} /\ due = {}
        /\ \A b \in Clients :
             /\ b \in freed => spc[b] \in {"load", "store", "post", "ended"}
             /\ spc[b] = "unlink" => b \in Listed
    BY DEF EndInv, UnsentInv
  <2>2. \A b \in Clients : spc'[b] = "unlink" => b \in Targets \ {c}
    BY <2>1 DEF Targets
  <2> QED BY <1>4, <2>1, <2>2
<1>8. WalkInv'
  <2>1. Targets' \subseteq Listed'
    BY <1>4, <1>5
  <2>2. tpc' = "remove" => Targets' \subseteq Walk(next', tcl')
    BY <1>3, <1>5 DEF EndInv, WalkInv
  <2>3. tpc' = "status" => Targets' = {}
    BY <1>5 DEF EndInv, WalkInv
  <2> QED BY <2>1, <2>2, <2>3 DEF WalkInv
<1>9. RankInv(r)'
  <2>1. Ranked(next', r)
    BY <1>2, <1>ptr DEF Ranked
  <2> QED BY <1>0, <2>1 DEF RankInv
<1>10. UnlinkInv(r)'
  <2> SUFFICES ASSUME NEW b \in Clients, spc'[b] = "unlink", NEW d \in Targets' \ {b},
                      prev[b] = NoClient \/ r[prev[b]] < r[d]
               PROVE  d \in Walk(next', next'[b])
    BY DEF UnlinkInv
  <2>1. b # c /\ d \in Targets \ {c} /\ d \in Clients /\ d \in Walk(next, next[b])
    BY <1>0, <1>5 DEF UnlinkInv
  <2>2. CASE next'[b] = next[b]
    BY <1>3, <2>1, <2>2
  <2>3. CASE next'[b] # next[b]
    <3>1. prev[c] = b /\ next'[b] = next[c]
      BY <1>ptr, <2>3
    <3>2. d # b /\ d \in Walk(next, b)
      BY <2>1, WalkFirst
    <3>3. r[b] < r[d]
      BY <1>2, <3>2, WalkRanks
    <3>4. d \in Walk(next, next[c])
      BY <1>0, <2>1, <3>1, <3>3 DEF UnlinkInv
    <3> QED BY <1>3, <2>1, <3>1, <3>4
  <2> QED BY <2>2, <2>3
<1>11. TailInv(r)'
  BY <1>0, <1>5 DEF TailInv
<1> QED BY <1>6, <1>7, <1>8, <1>9, <1>10, <1>11 DEF EndInv

\* execute_signal takes the node it has come to off the list and goes on with the next.
LEMMA EndRemove ==
    ASSUME BaseInv, EndInv, TreatRemove
    PROVE  EndInv'
<1>0. PICK r \in [Clients -> Nat] : RankInv(r) /\ UnlinkInv(r) /\ TailInv(r)
  BY DEF EndInv
<1> USE ListTypes
<1>1. /\ tpc = "remove" /\ tcl \in Clients /\ ~Unsent
      /\ tcl' = next[tcl] /\ tpc' = (IF next[tcl] = NoClient THEN "status" ELSE "remove")
      /\ UNCHANGED <<signals, due, flag, spc, prev, hpc, hcl, htail>>
  BY DEF TreatRemove, WalkTo, TreatTo, hostVars, handlerVars, EndInv, UnsentInv
<1>2. /\ Targets' = Targets \ {tcl}
      /\ \/ tcl \notin Listed /\ UNCHANGED <<head, next>>
         \/ head = tcl /\ head' = next[tcl] /\ UNCHANGED next
         \/ UNCHANGED head /\ \E b \in Listed :
              next[b] = tcl /\ next' = [next EXCEPT ![b] = next[tcl]]
  <2>1. CASE tcl \in Listed
    BY <1>1, <2>1 DEF TreatRemove, Without, Targets, Unsent
  <2>2. CASE tcl \notin Listed
    <3>1. UNCHANGED <<head, next, freed>>
      BY <2>2 DEF TreatRemove, listVars
    <3>2. tcl \notin Targets
      BY <2>2 DEF EndInv, WalkInv
    <3> QED BY <1>1, <2>2, <3>1, <3>2 DEF Targets, Unsent
  <2> QED BY <2>1, <2>2
<1>ptr. /\ head' \in {head, next[tcl]}
       /\ \A b \in Clients : next'[b] = next[b] \/ (next[b] = tcl /\ next'[b] = next[tcl])
  <2>1. CASE UNCHANGED next
    BY <1>2, <2>1
  <2>2. ASSUME NEW b \in Listed, UNCHANGED head,
               next[b] = tcl, next' = [next EXCEPT ![b] = next[tcl]]
        PROVE  \A a \in Clients : next'[a] = next[a] \/ (next[a] = tcl /\ next'[a] = next[tcl])
    BY <2>2 DEF Pointers
  <2> QED BY <1>2, <2>1, <2>2
<1>3. Ranked(next, r) /\ Targets \subseteq Listed
  BY <1>0 DEF RankInv, EndInv, WalkInv
<1>4. \A d \in Targets' : d \in Targets /\ d # tcl /\ d \in Walk(next, next[tcl])
  BY <1>1, <1>2, WalkFirst DEF EndInv, WalkInv
<1>5. ASSUME NEW x \in Clients \cup {NoClient}, NEW d \in Targets', d \in Walk(next, x)
      PROVE  d \in Walk(next', x)
  <2>1. CASE UNCHANGED next
    BY <1>5, <2>1
  <2>2. ASSUME NEW b \in Listed, next[b] = tcl, next' = [next EXCEPT ![b] = next[tcl]]
        PROVE  d \in Walk(next', x)
    <3>1. b \in Clients /\ (next[tcl] \in Clients => r[b] < r[next[tcl]])
      BY <1>1, <1>3, <2>2 DEF Ranked
    <3>2. r[b] \in Nat /\ d \in Walk(next, next[tcl]) /\ next[tcl] \in Clients \cup {NoClient}
      BY <1>1, <1>4, <3>1
    <3>3. d \in Walk([next EXCEPT ![b] = next[tcl]], x)
      BY <1>3, <1>5, <3>1, <3>2, WalkBypass
    <3> QED BY <2>2, <3>3
  <2> QED BY <1>2, <2>1, <2>2
<1>6. Targets' \subseteq Listed'
  <2> SUFFICES ASSUME NEW d \in Targets' PROVE d \in Listed'
    OBVIOUS
  <2>1. CASE UNCHANGED head
    BY <1>3, <1>4, <1>5, <2>1 DEF Listed
  <2>2. CASE head' = next[tcl] /\ UNCHANGED next
    BY <1>4, <2>2 DEF Listed
  <2> QED BY <1>2, <2>1, <2>2
<1>7. FreshInv'
  <2> SUFFICES ASSUME NEW x \in Clients, Fresh(x)'
               PROVE  /\ head' # x /\ next'[x] = NoClient
                      /\ \A b \in Clients : next'[b] # x /\ (spc[b] = "unlink" => prev[b] # x)
                      /\ hpc = "link" => htail # x
    BY <1>1 DEF FreshInv
  <2>1. /\ head # x /\ next[x] = NoClient /\ next[tcl] # x
        /\ \A b \in Clients : next[b] # x /\ (spc[b] = "unlink" => prev[b] # x)
        /\ hpc = "link" => htail # x
    BY <1>1 DEF EndInv, FreshInv, Fresh
  <2>2. next'[x] = NoClient
    BY <1>1, <1>ptr, <2>1
  <2>3. head' # x /\ \A b \in Clients : next'[b] # x
    BY <1>ptr, <2>1
  <2> QED BY <2>1, <2>2, <2>3
<1>8. UnsentInv'
  BY <1>1 DEF UnsentInv, Unsent
<1>9. WalkInv'
  <2>1. tpc' = "remove" => Targets' \subseteq Walk(next', tcl')
    BY <1>1, <1>4, <1>5
  <2>2. tpc' = "status" => Targets' = {}
    BY <1>1, <1>4, WalkNone
  <2> QED BY <1>6, <2>1, <2>2 DEF WalkInv
<1>10. RankInv(r)'
  <2>1. Ranked(next', r)
    <3> SUFFICES ASSUME NEW b \in Clients, next'[b] \in Clients PROVE r[b] < r[next'[b]]
      BY DEF Ranked
    <3>1. next[b] \in Clients => r[b] < r[next[b]] /\ r[next[b]] \in Nat
      BY <1>3 DEF Ranked
    <3>2. next[tcl] \in Clients => r[tcl] < r[next[tcl]] /\ r[next[tcl]] \in Nat
      BY <1>1, <1>3 DEF Ranked
    <3> QED BY <1>1, <1>ptr, <3>1, <3>2
  <2> QED BY <1>0, <1>1, <2>1 DEF RankInv
<1>11. UnlinkInv(r)'
  <2> SUFFICES ASSUME NEW b \in Clients, spc[b] = "unlink", NEW d \in Targets' \ {b},
                      prev[b] = NoClient \/ r[prev[b]] < r[d]
               PROVE  d \in Walk(next', next'[b])
    BY <1>1 DEF UnlinkInv
  <2>1. d \in Targets /\ d \in Walk(next, next[b]) /\ d \in Walk(next, next[tcl])
    BY <1>0, <1>4 DEF UnlinkInv
  <2>2. next'[b] \in {next[b], next[tcl]}
    BY <1>ptr
  <2> QED BY <1>1, <1>5, <2>1, <2>2
<1>12. TailInv(r)'
  BY <1>0, <1>1, <1>4 DEF TailInv
<1> QED BY <1>7, <1>8, <1>9, <1>10, <1>11, <1>12 DEF EndInv

\* The host finds the last node of the list as it is.
LEMMA EndTail ==
    ASSUME BaseInv, EndInv,
           UNCHANGED <<head, next, freed, due, signals, spc, prev, hcl, tpc, tcl, cut, flag>>,
           hpc = "tail", hpc' = "link",
           \/ head = NoClient /\ htail' = NoClient
           \/ htail' \in Listed /\ next[htail'] = NoClient
    PROVE  EndInv'
<1>0. PICK r \in [Clients -> Nat] : RankInv(r) /\ UnlinkInv(r) /\ TailInv(r)
  BY DEF EndInv
<1> USE ListTypes
<1>1. /\ Targets' = Targets /\ Listed' = Listed /\ Targets \subseteq Listed
      /\ \A x \in Clients : Fresh(x)' => Fresh(x)
  BY DEF Targets, Listed, Unsent, Fresh, EndInv, WalkInv
<1>2. \A x \in Clients : Fresh(x)' => htail' # x
  BY <1>1, FreshNotListed DEF EndInv
<1>3. FreshInv'
  BY <1>1, <1>2 DEF EndInv, FreshInv
<1>4. UnsentInv' /\ WalkInv'
  BY <1>1 DEF EndInv, UnsentInv, WalkInv, Unsent
<1>5. RankInv(r)' /\ UnlinkInv(r)'
  BY <1>0, <1>1 DEF RankInv, UnlinkInv, Ranked
<1>6. ASSUME NEW d \in Targets PROVE htail' \in Clients /\ r[d] <= r[htail']
  <2>1. d \in Listed /\ d \in Clients /\ r[d] \in Nat
    BY <1>1
  <2>2. htail' \in Listed /\ next[htail'] = NoClient /\ htail' \in Clients
    BY <2>1, ListedNone
  <2>3. d \in Walk(next, htail') \/ htail' \in Walk(next, d)
    BY <2>1, <2>2, WalkLinear DEF Listed
  <2>4. Walk(next, htail') = {htail'}
    BY <2>2, WalkFirst, WalkNone
  <2>5. htail' \in Walk(next, d) => htail' = d \/ r[d] < r[htail']
    BY <1>0, <2>1, WalkRanks DEF RankInv
  <2> QED BY <2>1, <2>2, <2>3, <2>4, <2>5
<1>7. TailInv(r)'
  BY <1>1, <1>6 DEF TailInv
<1> QED BY <1>3, <1>4, <1>5, <1>7 DEF EndInv

\* It links a node behind the one it has found, which may be the last one no more.
LEMMA EndLink ==
    ASSUME BaseInv, EndInv,
           UNCHANGED <<freed, due, signals, spc, prev, hcl, htail, tpc, tcl, cut, flag>>,
           hpc = "link", hpc' = "load",
           IF htail = NoClient THEN head' = hcl /\ UNCHANGED next
           ELSE next' = [next EXCEPT ![htail] = hcl] /\ UNCHANGED head
    PROVE  EndInv'
<1>0. PICK r \in [Clients -> Nat] : RankInv(r) /\ UnlinkInv(r) /\ TailInv(r)
  BY DEF EndInv
<1> USE ListTypes
<1>1. /\ hcl \in Clients /\ spc[hcl] = "none" /\ Fresh(hcl)
      /\ head # hcl /\ next[hcl] = NoClient /\ htail # hcl /\ hcl \notin Listed
      /\ \A b \in Clients : next[b] # hcl /\ (spc[b] = "unlink" => prev[b] # hcl)
  BY FreshNotListed DEF Fresh, EndInv, FreshInv
<1>2. Targets \subseteq Listed /\ \A d \in Targets : htail \in Clients /\ r[d] <= r[htail]
  BY <1>0 DEF EndInv, WalkInv, TailInv
<1>3. PICK q \in [Clients -> Nat] :
        /\ \A b \in Clients \ {hcl} : q[b] = r[b]
        /\ htail \in Clients => q[htail] = r[htail] /\ q[hcl] = r[htail] + 1
  <2> DEFINE above == [r EXCEPT ![hcl] = IF htail = NoClient THEN r[hcl] ELSE r[htail] + 1]
  <2>1. htail \in Clients => r[htail] + 1 \in Nat
    OBVIOUS
  <2>2. above \in [Clients -> Nat]
    BY <1>1, <2>1
  <2>3. /\ \A b \in Clients \ {hcl} : above[b] = r[b]
        /\ htail \in Clients => above[htail] = r[htail] /\ above[hcl] = r[htail] + 1
    BY <1>1
  <2> HIDE DEF above
  <2> QED BY <2>2, <2>3
<1>4. Ranked(next, q)
  <2> SUFFICES ASSUME NEW b \in Clients, next[b] \in Clients PROVE q[b] < q[next[b]]
    BY DEF Ranked
  <2>1. b # hcl /\ next[b] # hcl
    BY <1>1
  <2>2. r[b] < r[next[b]]
    BY <1>0 DEF RankInv, Ranked
  <2> QED BY <1>3, <2>1, <2>2
<1>5. /\ head' \in {head, hcl}
      /\ \A b \in Clients : next'[b] = IF b = htail THEN hcl ELSE next[b]
  <2>1. CASE htail = NoClient
    BY <2>1
  <2>2. CASE htail \in Clients
    BY <2>2 DEF Pointers
  <2> QED BY <2>1, <2>2
<1>6. ASSUME NEW x \in Clients \cup {NoClient}, NEW d \in Targets, d \in Walk(next, x)
      PROVE  d \in Walk(next', x)
  <2>1. htail \in Clients /\ d # hcl /\ d \in Clients /\ r[d] <= r[htail]
    BY <1>1, <1>2
  <2>2. q[d] <= q[htail] /\ q[htail] < q[hcl]
    BY <1>3, <2>1
  <2>3. d \in Walk([next EXCEPT ![htail] = hcl], x)
    BY <1>1, <1>3, <1>4, <1>6, <2>1, <2>2, WalkBypass
  <2> QED BY <2>1, <2>3
<1>7. Targets \subseteq Listed'
  BY <1>2, <1>6 DEF Listed
<1>8. Targets' \subseteq Targets \cup {hcl} /\ (~Unsent => Targets' = Targets)
  <2>1. CASE ~Unsent
    BY <2>1 DEF Targets, Unsent
  <2>2. CASE Unsent
    <3>1. Listed' \subseteq Listed \cup {hcl}
      <4>1. CASE htail = NoClient
        <5>1. Walk(next, hcl) = {hcl} \cup Walk(next, NoClient)
          BY <1>1, WalkFirst
        <5> QED BY <4>1, <5>1, WalkNone DEF Listed
      <4>2. CASE htail \in Clients
        BY <1>1, <4>2, WalkGrows DEF Listed
      <4> QED BY <4>1, <4>2
    <3> QED BY <2>2, <3>1 DEF Targets, Unsent
  <2> QED BY <2>1, <2>2
<1>9. hcl \in Targets' => Unsent /\ hcl \in Listed'
  BY <1>1, <1>2, <1>8 DEF Targets, Unsent
<1>10. FreshInv'
  <2> SUFFICES ASSUME NEW x \in Clients, Fresh(x)'
               PROVE  /\ head' # x /\ next'[x] = NoClient
                      /\ \A b \in Clients : next'[b] # x /\ (spc[b] = "unlink" => prev[b] # x)
    BY DEF FreshInv
  <2>1. x # hcl /\ Fresh(x)
    BY DEF Fresh
  <2>2. /\ head # x /\ next[x] = NoClient /\ htail # x
        /\ \A b \in Clients : next[b] # x /\ (spc[b] = "unlink" => prev[b] # x)
    BY <2>1 DEF EndInv, FreshInv
  <2> QED BY <1>5, <2>1, <2>2
<1>11. UnsentInv'
  <2> SUFFICES ASSUME Unsent, NEW b \in Clients, spc[b] = "unlink" PROVE b \in Listed'
    BY DEF EndInv, UnsentInv, Unsent
  <2>1. b \in Targets
    BY DEF EndInv, UnsentInv, Targets
  <2> QED BY <1>7, <2>1
<1>12. WalkInv'
  <2>1. Targets' \subseteq Listed'
    BY <1>7, <1>8, <1>9
  <2>2. tpc = "spin" \/ Targets' = Targets
    BY <1>8 DEF EndInv, UnsentInv
  <2>3. tpc' = "remove" => Targets' \subseteq Walk(next', tcl')
    BY <1>6, <2>2 DEF EndInv, WalkInv
  <2>4. tpc' = "status" => Targets' = {}
    BY <2>2 DEF EndInv, WalkInv
  <2> QED BY <2>1, <2>3, <2>4 DEF WalkInv
<1>13. RankInv(q)'
  <2>1. ASSUME NEW b \in Clients, next'[b] \in Clients PROVE q[b] < q[next'[b]]
    <3>1. CASE b = htail
      BY <1>3, <1>5, <3>1
    <3>2. CASE b # htail
      BY <1>4, <1>5, <2>1, <3>2 DEF Ranked
    <3> QED BY <3>1, <3>2
  <2>2. ASSUME NEW b \in Clients, spc[b] = "unlink", prev[b] \in Clients
        PROVE  q[prev[b]] < q[b]
    <3>1. b # hcl /\ prev[b] # hcl /\ r[prev[b]] < r[b]
      BY <1>0, <1>1, <2>2 DEF RankInv
    <3> QED BY <1>3, <2>2, <3>1
  <2> QED BY <2>1, <2>2 DEF RankInv, Ranked
<1>14. UnlinkInv(q)'
  <2> SUFFICES ASSUME NEW b \in Clients, spc[b] = "unlink", NEW d \in Targets' \ {b},
                      prev[b] = NoClient \/ q[prev[b]] < q[d]
               PROVE  d \in Walk(next', next'[b])
    BY DEF UnlinkInv
  <2>1. b # hcl /\ prev[b] # hcl
    BY <1>1
  <2>2. CASE d \in Targets
    <3>1. d \in Clients /\ d # hcl /\ htail \in Clients /\ r[d] <= r[htail]
      BY <1>1, <1>2, <2>2
    <3>2. d \in Walk(next, next[b])
      <4>1. prev[b] = NoClient \/ r[prev[b]] < r[d]
        BY <1>3, <2>1, <3>1
      <4> QED BY <1>0, <2>2, <4>1 DEF UnlinkInv
    <3>3. d \in Walk(next, b) /\ d # b
      BY <3>2, WalkFirst
    <3>4. r[b] < r[d] /\ r[b] \in Nat /\ r[d] \in Nat /\ r[htail] \in Nat
      BY <1>0, <3>1, <3>3, WalkRanks DEF RankInv
    <3>5. b # htail
      BY <3>1, <3>4
    <3> QED BY <1>5, <1>6, <2>2, <3>2, <3>5
  <2>3. CASE d = hcl
    <3>1. Unsent /\ hcl \in Listed' /\ next' \in Pointers /\ head' \in Clients \cup {NoClient}
      <4>1. next' \in Pointers
        BY <1>1 DEF Pointers
      <4> QED BY <1>1, <1>5, <1>9, <2>3, <4>1
    <3>2. b \in Listed'
      <4>1. b \in Targets
        BY <3>1 DEF EndInv, UnsentInv, Targets
      <4> QED BY <1>7, <4>1
    <3>3. hcl \in Walk(next', b) \/ b \in Walk(next', hcl)
      BY <3>1, <3>2, WalkLinear DEF Listed
    <3>4. Walk(next', hcl) = {hcl}
      <4>1. next'[hcl] = NoClient
        BY <1>1, <1>5
      <4> QED BY <1>1, <3>1, <4>1, WalkFirst, WalkNone
    <3> QED BY <2>1, <2>3, <3>1, <3>3, <3>4, WalkFirst
  <2> QED BY <1>8, <2>2, <2>3
<1>15. TailInv(q)'
  BY DEF TailInv
<1> QED BY <1>3, <1>10, <1>11, <1>12, <1>13, <1>14, <1>15 DEF EndInv

\* The signal finds on the list what it has to end.
LEMMA EndSignal ==
    ASSUME MaxSignals = 1, BaseInv, EndInv, Signal
    PROVE  EndInv'
<1>1. /\ signals = 1 /\ signals' = 0
      /\ UNCHANGED <<head, next, freed, spc, prev, hpc, hcl, htail, tpc, tcl>>
  BY DEF Signal, BaseInv, SignalsTypeOK, listVars, hostVars, handlerVars, treatVars
<1>2. tpc = "spin" /\ due' = due \cup Listed
  BY <1>1 DEF Signal, EndInv, UnsentInv, Unsent
<1>3. due = {}
  BY <1>1 DEF EndInv, UnsentInv, Unsent
<1>4. Targets' = Targets /\ Listed' = Listed
  BY <1>1, <1>2, <1>3 DEF Targets, Unsent, Listed
<1>5. FreshInv'
  BY <1>1 DEF EndInv, FreshInv, Fresh
<1>6. UnsentInv'
  BY <1>1 DEF UnsentInv, Unsent
<1>7. WalkInv'
  BY <1>1, <1>4 DEF EndInv, WalkInv
<1>8. \E r \in [Clients -> Nat] : (RankInv(r) /\ UnlinkInv(r) /\ TailInv(r))'
  BY <1>1, <1>4 DEF EndInv, RankInv, Ranked, UnlinkInv, TailInv
<1> QED BY <1>5, <1>6, <1>7, <1>8 DEF EndInv

\* Steps that leave the list, and what is to be ended, as they are.
LEMMA EndQuiet ==
    ASSUME BaseInv, EndInv,
           UNCHANGED <<head, next, freed, due, signals>>,
           \A c \in Clients :
             /\ Fresh(c)' => Fresh(c)
             /\ spc'[c] = "unlink" => spc[c] = "unlink" /\ prev'[c] = prev[c]
             /\ spc[c] \in {"load", "store", "post", "ended"}
                => spc'[c] \in {"load", "store", "post", "ended"},
           hpc' = "link" => hpc = "link" /\ htail' = htail,
           Unsent => UNCHANGED <<tpc, flag, cut>>,
           tpc' = "remove" => Targets \subseteq Walk(next, tcl'),
           tpc' = "status" => Targets = {}
    PROVE  EndInv'
<1>0. PICK r \in [Clients -> Nat] : RankInv(r) /\ UnlinkInv(r) /\ TailInv(r)
  BY DEF EndInv
<1>1. Targets' = Targets /\ Listed' = Listed
  BY DEF Targets, Unsent, Listed
<1>2. FreshInv'
  BY DEF EndInv, FreshInv
<1>3. UnsentInv'
  BY <1>1 DEF EndInv, UnsentInv, Unsent
<1>4. WalkInv'
  BY <1>1 DEF EndInv, WalkInv
<1>5. RankInv(r)' /\ UnlinkInv(r)'
  BY <1>0, <1>1 DEF RankInv, Ranked, UnlinkInv
<1>6. TailInv(r)'
  BY <1>0, <1>1 DEF TailInv
<1> QED BY <1>2, <1>3, <1>4, <1>5, <1>6 DEF EndInv

\* The same for steps that are not of execute_signal.
LEMMA EndElsewhere ==
    ASSUME BaseInv, EndInv,
           UNCHANGED <<head, next, freed, due, signals, tpc, tcl, flag, cut>>,
           \A c \in Clients :
             /\ Fresh(c)' => Fresh(c)
             /\ spc'[c] = "unlink" => spc[c] = "unlink" /\ prev'[c] = prev[c]
             /\ spc[c] \in {"load", "store", "post", "ended"}
                => spc'[c] \in {"load", "store", "post", "ended"},
           hpc' = "link" => hpc = "link" /\ htail' = htail
    PROVE  EndInv'
<1>1. /\ tpc' = "remove" => Targets \subseteq Walk(next, tcl')
      /\ tpc' = "status" => Targets = {}
  BY DEF EndInv, WalkInv
<1> QED BY <1>1, EndQuiet

\* A step of the host.
LEMMA EndHost ==
    ASSUME BaseInv, EndInv, HostStep, UNCHANGED <<signals, flag, tpc, tcl, cut, due>>
    PROVE  EndInv'
<1> USE ListTypes DEF HostTo, listVars, handlerVars
<1>1. ASSUME UNCHANGED <<head, next, freed, spc, prev, hcl>>, hpc' # "link",
             hpc \in {"load", "store", "resp", "greet", "req", "start"}
               => hpc' \in {"load", "store", "resp", "greet", "req", "start"}
      PROVE  EndInv'
  <2>1. \A c \in Clients : Fresh(c)' => Fresh(c)
    BY <1>1 DEF Fresh
  <2> QED BY <1>1, <2>1, EndElsewhere
<1>2. CASE HostRead
  <2>1. /\ UNCHANGED <<head, next, freed, spc, prev>>
        /\ hpc = "read" /\ hpc' = "wait"
    BY <1>2 DEF HostRead
  <2>2. \A c \in Clients : Fresh(c)' => Fresh(c)
    BY <2>1 DEF Fresh
  <2> QED BY <2>1, <2>2, EndElsewhere
<1>3. CASE HostWait \/ HostPost
  BY <1>1, <1>3 DEF HostWait, HostPost
<1>4. CASE HostSlot
  BY <1>1, <1>4 DEF HostSlot
<1>5. CASE HostCheck
  <2>1. Fresh(hcl) /\ hcl \in Clients
    BY <1>5 DEF HostCheck, Fresh
  <2>2. next[hcl] = NoClient
    BY <2>1 DEF EndInv, FreshInv
  <2>3. UNCHANGED next
    BY <1>5, <2>1, <2>2 DEF HostCheck, Pointers
  <2> QED BY <1>1, <1>5, <2>3 DEF HostCheck
<1>6. CASE HostTail
  BY <1>6, EndTail DEF HostTail
<1>7. CASE HostLink
  BY <1>7, EndLink DEF HostLink
<1>8. CASE HostLoad \/ HostStore \/ HostOpenResp \/ HostGreet \/ HostOpenReq
  BY <1>1, <1>8 DEF HostLoad, HostStore, HostOpenResp, HostGreet, HostOpenReq
<1>9. CASE HostStart
  <2>1. /\ UNCHANGED <<head, next, freed, hcl, prev>>
        /\ hpc = "start" /\ hpc' = "read" /\ spc' = [spc EXCEPT ![hcl] = "open"]
    BY <1>9 DEF HostStart
  <2>2. \A c \in Clients : Fresh(c)' => Fresh(c)
    BY <2>1 DEF Fresh
  <2>3. \A c \in Clients :
          /\ spc'[c] = "unlink" => spc[c] = "unlink"
          /\ spc[c] \in {"load", "store", "post", "ended"} => spc'[c] = spc[c]
    BY <2>1
  <2> QED BY <2>1, <2>2, <2>3, EndElsewhere
<1> QED BY <1>2, <1>3, <1>4, <1>5, <1>6, <1>7, <1>8, <1>9 DEF HostStep

\* A step of a handler.
LEMMA EndHandler ==
    ASSUME BaseInv, EndInv, NEW c \in Clients, HandlerStep(c),
           UNCHANGED <<signals, flag, tpc, tcl, cut, due>>
    PROVE  EndInv'
<1> USE ListTypes DEF HandlerTo, listVars, hostVars
<1>1. ASSUME UNCHANGED <<head, next, freed, hpc, hcl, htail, prev>>, spc[c] # "none",
             NEW l \in HandlerLocs \ {"none", "unlink"}, spc' = [spc EXCEPT ![c] = l],
             spc[c] \in {"load", "store", "post", "ended"}
               => l \in {"load", "store", "post", "ended"}
      PROVE  EndInv'
  <2>1. \A d \in Clients :
          /\ Fresh(d)' => Fresh(d)
          /\ spc'[d] = "unlink" => spc[d] = "unlink"
          /\ spc[d] \in {"load", "store", "post", "ended"}
             => spc'[d] \in {"load", "store", "post", "ended"}
    BY <1>1 DEF Fresh
  <2> QED BY <1>1, <2>1, EndElsewhere
<1> USE DEF HandlerLocs
<1>2. CASE HandlerOpen(c) \/ HandlerEOF(c) \/ HandlerOpenResp(c)
  BY <1>1, <1>2 DEF HandlerOpen, HandlerEOF, HandlerOpenResp
<1>3. CASE HandlerRead(c) \/ HandlerReset(c)
  BY <1>1, <1>3 DEF HandlerRead, HandlerReset
<1>4. CASE HandlerAnswer(c)
  BY <1>1, <1>4 DEF HandlerAnswer
<1>5. CASE HandlerFind(c)
  <2>1. CASE spc' = [spc EXCEPT ![c] = "post"] /\ UNCHANGED prev
    BY <1>1, <1>5, <2>1 DEF HandlerFind
  <2>2. CASE spc' = [spc EXCEPT ![c] = "unlink"] /\ head = c
             /\ prev' = [prev EXCEPT ![c] = NoClient]
    BY <1>5, <2>2, EndFind DEF HandlerFind
  <2>3. ASSUME NEW b \in Listed, spc' = [spc EXCEPT ![c] = "unlink"],
               next[b] = c, prev' = [prev EXCEPT ![c] = b]
        PROVE  EndInv'
    <3>1. b \in Clients \cup {NoClient}
      OBVIOUS
    <3> QED BY <1>5, <2>3, <3>1, EndFind DEF HandlerFind
  <2> QED BY <1>5, <2>1, <2>2, <2>3 DEF HandlerFind
<1>6. CASE HandlerUnlink(c)
  BY <1>6, EndUnlink DEF HandlerUnlink
<1>7. CASE HandlerLoad(c) \/ HandlerStore(c) \/ HandlerPost(c)
  BY <1>1, <1>7 DEF HandlerLoad, HandlerStore, HandlerPost
<1> QED BY <1>2, <1>3, <1>4, <1>5, <1>6, <1>7 DEF HandlerStep

\* Every step of the server and its clients.
LEMMA EndStep ==
    ASSUME MaxSignals = 1, BaseInv, EndInv, [SignalsNext]_signalsVars
    PROVE  EndInv'
<1> USE DEF signalVars, treatVars, listVars, hostVars, handlerVars
<1>1. ASSUME NEW c \in Clients, ClientStep(c), UNCHANGED <<signals, flag, tpc, tcl, cut, due>>
      PROVE  EndInv'
  <2>1. UNCHANGED <<head, next, freed, hpc, hcl, htail, spc, prev>>
    BY <1>1 DEF ClientStep, ClientConnect, ClientOpenResp, ClientConnected, ClientAsk, ClientAnswered
  <2> QED BY <1>1, <2>1, EndElsewhere DEF Fresh
<1>2. CASE \/ HostGoesOn
           \/ \E c \in Clients : HandlerGoesOn(c) \/ ClientGoesOn(c) \/ HandlerWakes(c)
  BY <1>1, <1>2, EndHost, EndHandler DEF HostGoesOn, HandlerGoesOn, ClientGoesOn, HandlerWakes
<1>3. CASE HostFails
  <2>1. UNCHANGED <<head, next, freed, due, signals, tpc, tcl, flag, cut, spc, prev, hcl, htail>>
        /\ hpc \in {"resp", "greet", "req"} /\ hpc' \in {"greet", "req", "start"}
    BY <1>3 DEF HostFails, HostOnCut, HostTo
  <2> QED BY <2>1, EndElsewhere DEF Fresh
<1>4. ASSUME NEW c \in Clients, HandlerFails(c) PROVE EndInv'
  <2>1. UNCHANGED <<head, next, freed, due, signals, tpc, tcl, flag, cut, prev, hpc, hcl, htail>>
        /\ spc[c] \in {"open", "read", "resp", "answer"}
        /\ \E l \in {"reset", "ended"} : spc' = [spc EXCEPT ![c] = l]
    BY <1>4 DEF HandlerFails, HandlerOnCut, HandlerTo
  <2>2. \A d \in Clients :
          /\ Fresh(d)' => Fresh(d)
          /\ spc'[d] = "unlink" => spc[d] = "unlink"
          /\ spc[d] \in {"load", "store", "post", "ended"} => spc'[d] = spc[d]
    BY <2>1, ListTypes DEF Fresh
  <2> QED BY <2>1, <2>2, EndElsewhere
<1>5. CASE Crash \/ UNCHANGED signalsVars \/ \E c \in Clients : ClientFails(c) \/ ClientCut(c)
  <2>1. UNCHANGED <<head, next, freed, due, signals, tpc, tcl, flag, cut, spc, prev, hpc, hcl, htail>>
    BY <1>5 DEF Crash, ClientFails, ClientCut, signalsVars, vars
  <2> QED BY <2>1, EndElsewhere DEF Fresh
<1>6. CASE TreatBegin
  <2>1. /\ UNCHANGED <<head, next, freed, due, signals, spc, prev, hpc, hcl, htail>>
        /\ flag = 1 /\ tcl' = head /\ tpc' = IF head = NoClient THEN "status" ELSE "remove"
    BY <1>6 DEF TreatBegin, WalkTo, TreatTo, vars
  <2>2. ~Unsent
    BY <2>1 DEF EndInv, UnsentInv
  <2>3. Targets \subseteq Listed
    BY DEF EndInv, WalkInv
  <2>4. Listed = Walk(next, tcl') /\ (tpc' = "status" => Listed = {})
    BY <2>1, ListedNone DEF Listed
  <2> QED BY <2>1, <2>2, <2>3, <2>4, EndQuiet DEF Fresh
<1>7. CASE TreatStatus \/ TreatSem \/ TreatClear
  <2>1. /\ UNCHANGED <<head, next, freed, due, signals, spc, prev, hpc, hcl, htail>>
        /\ tpc # "spin" /\ tpc' \notin {"remove", "status"}
    BY <1>7 DEF TreatStatus, TreatSem, TreatClear, TreatTo, vars
  <2>2. ~Unsent
    BY <2>1 DEF EndInv, UnsentInv
  <2> QED BY <2>1, <2>2, EndQuiet DEF Fresh
<1> QED BY <1>2, <1>3, <1>4, <1>5, <1>6, <1>7, EndRemove, EndSignal
        DEF SignalsNext, HostOrFails, HandlerOrFails, ClientOrFails, TreatStep

\* At the start there is no list.
LEMMA InitEnd ==
    ASSUME MaxSignals = 1, SignalsInit
    PROVE  EndInv
<1>1. /\ head = NoClient /\ next = [c \in Clients |-> NoClient] /\ freed = {}
      /\ spc = [c \in Clients |-> "none"] /\ prev = [c \in Clients |-> NoClient]
      /\ hpc = "read" /\ tpc = "spin" /\ flag = 0 /\ cut = {} /\ due = {}
  BY DEF SignalsInit, Init
<1>2. Listed = {} /\ Targets = {}
  BY <1>1, ListedNone DEF Targets
<1>3. FreshInv
  BY <1>1, ClientsAssumption DEF FreshInv
<1>4. UnsentInv /\ WalkInv
  BY <1>1, <1>2 DEF UnsentInv, WalkInv
<1>5. PICK r \in [Clients -> Nat] : \A c \in Clients : r[c] = 0
  <2>1. [c \in Clients |-> 0] \in [Clients -> Nat]
    OBVIOUS
  <2> QED BY <2>1
<1>6. RankInv(r) /\ UnlinkInv(r) /\ TailInv(r)
  BY <1>1, ClientsAssumption DEF RankInv, Ranked, UnlinkInv, TailInv
<1> QED BY <1>3, <1>4, <1>6 DEF EndInv

\* SIGUSR1 ends every session that is on the list when it comes: while the walk goes
\* along it, no handler takes one off before the walk has come to it, and no
\* session that the host puts on it takes another one's place.
THEOREM SignalEnds ==
    ASSUME MaxSignals = 1
    PROVE  SignalsSpec => []SignalEndsSessions
<1>1. BaseInv /\ EndInv => SignalEndsSessions
  BY DEF EndInv, WalkInv, UnsentInv, Targets, SignalEndsSessions
<1>2. SignalsInit => BaseInv /\ EndInv
  BY InitBase, InitEnd
<1>3. BaseInv /\ EndInv /\ [SignalsNext]_signalsVars => (BaseInv /\ EndInv)'
  BY StepBase, EndStep
<1> QED BY <1>1, <1>2, <1>3, PTL DEF SignalsSpec
=============================================================================
