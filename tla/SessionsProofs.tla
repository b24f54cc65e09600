--------------------------- MODULE SessionsProofs ---------------------------
(***************************************************************************)
(* Proofs about Sessions, for any number of clients and any S: its types,  *)
(* that whoever passes the semaphore finds a slot, that no two sessions    *)
(* share one, that answers match requests, and that Sessions implements    *)
(* Admission.  They rest on four invariants: a client is in one place at a *)
(* time (QueueInv), slots marked in use and sessions are one to one        *)
(* (SlotInv), every token of the semaphore is free or accounted for        *)
(* (TokenInv), and at most one message is under way between a client and   *)
(* its handler (TalkInv).  Clients may be killed at any point of it.       *)
(***************************************************************************)
EXTENDS Sessions, FiniteSetTheorems, FunctionTheorems, SequenceTheorems, TLAPS

\* Where the host has a slot in hand for its client.
Claimed == {"check", "tail", "link", "load", "store", "resp", "greet", "req", "start"}
\* Where a handler still has its slot, and where it no longer has it.
Early == {"open", "read", "resp", "answer", "reset"}
Late == {"find", "unlink", "load", "store", "post"}

QueueInv ==
    /\ \A p \in 1..Len(reg) :
         /\ spc[reg[p]] = "none" /\ cpc[reg[p]] # "new"
         /\ hpc # "read" => reg[p] # hcl
         /\ \A q \in 1..Len(reg) : q # p => reg[q] # reg[p]
    /\ hpc # "read" => spc[hcl] = "none" /\ cpc[hcl] # "new"
    /\ \A c \in Clients : cpc[c] = "new" => spc[c] = "none"

SlotInv ==
    /\ SlotExclusive
    /\ \A s \in Slots : status[s] = 1 => \E c \in Clients : Occupying(c) /\ slot[c] = s
    /\ hpc \in Claimed => status[slot[hcl]] = 0

\* The host has greeted client c, or its session has begun.
Greeted(c) == spc[c] # "none" \/ (hcl = c /\ hpc \in {"req", "start"})

\* What is in the FIFOs of client c, given where it and its handler are: nothing
\* before the greeting, one message at most after it.
Talk(c) ==
    \/ /\ cpc[c] \in {"new", "sent", "opening", "dead"} /\ ~Greeted(c)
       /\ hcl = c /\ hpc = "greet" => cpc[c] \in {"opening", "dead"}
       /\ req[c] = <<>> /\ resp[c] = <<>>
    \/ /\ cpc[c] = "opening" /\ spc[c] = "none" /\ hcl = c /\ hpc = "req"
       /\ req[c] = <<>> /\ resp[c] = <<"connect">>
    \/ /\ cpc[c] = "connected" /\ Greeted(c) /\ spc[c] \in {"none", "open", "read"}
       /\ req[c] = <<>> /\ resp[c] = <<>>
    \/ /\ cpc[c] \in Requests /\ Greeted(c) /\ spc[c] \in {"none", "open", "read"}
       /\ req[c] = <<cpc[c]>> /\ resp[c] = <<>>
    \/ /\ cpc[c] \in Requests /\ spc[c] \in {"resp", "answer"} /\ op[c] = cpc[c]
       /\ req[c] = <<>> /\ resp[c] = <<>>
    \/ /\ cpc[c] = "subscribe" /\ spc[c] = "read"
       /\ req[c] = <<>> /\ resp[c] = <<"subscribe">>
    \/ /\ cpc[c] = "disconnect" /\ spc[c] \in {"reset", "ended"} \cup Late
       /\ req[c] = <<>> /\ resp[c] = <<"disconnect">>
    \/ /\ cpc[c] = "left" /\ spc[c] \in {"reset", "ended"} \cup Late
       /\ req[c] = <<>> /\ resp[c] = <<>>
    \/ cpc[c] = "dead" /\ Greeted(c) /\ Len(req[c]) + Len(resp[c]) <= 1

TalkInv == \A c \in Clients : Talk(c)

TokenInv == sem \in Nat /\ sem + Cardinality(Holders) = S

Inv == TypeOK /\ QueueInv /\ SlotInv /\ TokenInv

\* What a FIFO holds stays of its type when a message is added to it.
LEMMA FifoTypes ==
    /\ \A s \in Seq(Clients), c \in Clients : Append(s, c) \in Seq(Clients)
    /\ \A s \in Seq(Clients) : s # <<>> => Head(s) \in Clients /\ Tail(s) \in Seq(Clients)
    /\ \A s \in Seq(Requests), r \in Requests : Append(s, r) \in Seq(Requests)
    /\ \A s \in Seq(Requests) : s # <<>> => Head(s) \in Requests
    /\ \A s \in Seq(Requests \cup {"connect"}), r \in Requests \cup {"connect"} :
         Append(s, r) \in Seq(Requests \cup {"connect"})
    /\ \A s \in Seq(Requests \cup {"connect"}) :
         s # <<>> => Tail(s) \in Seq(Requests \cup {"connect"})
BY AppendProperties, HeadTailProperties

\* The server is killed by a freed node or it is not.
LEMMA TouchType == \A nodes : Touch(nodes) => alive' \in BOOLEAN
BY DEF Touch

\* Every variable has its type at the start.
LEMMA InitType == Init => TypeOK
BY SAssumption, MaxRequestsAssumption, EmptySeq
   DEF Init, TypeOK, ServerType, ListType, HostType, HandlerType, ClientType,
       HostLocs, HandlerLocs, ClientLocs, Requests, Slots

\* Every step keeps the types.
LEMMA StepType == TypeOK /\ [Next]_vars => TypeOK'
<1> SUFFICES ASSUME TypeOK, [Next]_vars PROVE TypeOK'
  OBVIOUS
<1> USE DEF TypeOK, ServerType, ListType, HostType, HandlerType, ClientType,
            HostLocs, HandlerLocs, ClientLocs,
            listVars, hostVars, handlerVars, clientVars
<1>1. CASE HostRead
  BY <1>1, FifoTypes DEF HostRead, HostTo
<1>2. CASE HostWait
  <2>1. ServerType'
    BY <1>2 DEF HostWait
  <2>2. ListType'
    BY <1>2 DEF HostWait
  <2>3. HostType'
    BY <1>2 DEF HostWait, HostTo
  <2>4. HandlerType'
    BY <1>2 DEF HostWait
  <2>5. ClientType'
    BY <1>2 DEF HostWait
  <2> QED BY <2>1, <2>2, <2>3, <2>4, <2>5
<1>3. CASE HostSlot
  BY <1>3 DEF HostSlot, HostTo, FreeSlots
<1>4. CASE HostCheck
  BY <1>4 DEF HostCheck, HostTo
<1>5. CASE HostTail
  BY <1>5, TouchType DEF HostTail, HostTo, Listed, Walk
<1>6. CASE HostLink
  <2>1. alive' \in BOOLEAN /\ hcl \in Clients
    BY <1>6, TouchType DEF HostLink
  <2>2. head' \in Clients \cup {NoClient} /\ next' \in [Clients -> Clients \cup {NoClient}]
    BY <1>6, <2>1 DEF HostLink
  <2> QED BY <1>6, <2>1, <2>2 DEF HostLink, HostTo
<1>7. CASE HostLoad
  BY <1>7 DEF HostLoad, HostTo
<1>8. CASE HostStore
  BY <1>8, SMTT(30) DEF HostStore, HostTo
<1>9. CASE HostOpenResp
  BY <1>9 DEF HostOpenResp, HostTo
<1>10. CASE HostGreet
  <2>1. hcl \in Clients /\ resp[hcl] \in Seq(Requests \cup {"connect"})
    BY <1>10 DEF HostGreet
  <2>2. Append(resp[hcl], "connect") \in Seq(Requests \cup {"connect"})
    BY <2>1, FifoTypes
  <2> QED BY <1>10, <2>1, <2>2 DEF HostGreet, HostTo
<1>11. CASE HostOpenReq
  BY <1>11 DEF HostOpenReq, HostTo
<1>12. CASE HostStart
  BY <1>12 DEF HostStart, HostTo
<1>13. CASE HostPost
  BY <1>13, SMTT(30) DEF HostPost, HostTo
<1>14. ASSUME NEW c \in Clients, ClientConnect(c) PROVE TypeOK'
  BY <1>14, FifoTypes DEF ClientConnect, ClientTo
<1>15. ASSUME NEW c \in Clients, ClientOpenResp(c) PROVE TypeOK'
  BY <1>15 DEF ClientOpenResp, ClientTo
<1>16. ASSUME NEW c \in Clients, ClientConnected(c) PROVE TypeOK'
  BY <1>16, FifoTypes DEF ClientConnected, ClientTo
<1>17. ASSUME NEW c \in Clients, ClientAnswered(c) PROVE TypeOK'
  BY <1>17, FifoTypes DEF ClientAnswered, ClientTo
<1>18. ASSUME NEW c \in Clients, Killed(c) PROVE TypeOK'
  BY <1>18 DEF Killed, ClientTo, Requests
<1>19. ASSUME NEW c \in Clients, NEW r \in Requests, ClientAsk(c, r) PROVE TypeOK'
  <2>1. req[c] \in Seq(Requests) /\ Append(req[c], r) \in Seq(Requests)
    BY FifoTypes
  <2>2. req' \in [Clients -> Seq(Requests)] /\ todo' \in [Clients -> Int]
    BY <1>19, <2>1 DEF ClientAsk
  <2>3. cpc' \in [Clients -> ClientLocs]
    BY <1>19 DEF ClientAsk, ClientTo, Requests
  <2> QED BY <1>19, <2>2, <2>3 DEF ClientAsk
<1>20. ASSUME NEW c \in Clients, HandlerOpen(c) PROVE TypeOK'
  BY <1>20 DEF HandlerOpen, HandlerTo
<1>21. ASSUME NEW c \in Clients, HandlerRead(c) PROVE TypeOK'
  BY <1>21, FifoTypes, EmptySeq DEF HandlerRead, HandlerTo
<1>22. ASSUME NEW c \in Clients, HandlerEOF(c) PROVE TypeOK'
  BY <1>22 DEF HandlerEOF, HandlerTo
<1>23. ASSUME NEW c \in Clients, HandlerOpenResp(c) PROVE TypeOK'
  BY <1>23 DEF HandlerOpenResp, HandlerTo
<1>24. ASSUME NEW c \in Clients, HandlerAnswer(c) PROVE TypeOK'
  <2>1. Append(resp[c], op[c]) \in Seq(Requests \cup {"connect"})
    BY FifoTypes
  <2>2. alive' \in BOOLEAN /\ resp' \in [Clients -> Seq(Requests \cup {"connect"})]
    BY <1>24, <2>1 DEF HandlerAnswer
  <2>3. spc' \in [Clients -> HandlerLocs]
    BY <1>24 DEF HandlerAnswer, HandlerTo
  <2> QED BY <1>24, <2>2, <2>3 DEF HandlerAnswer
<1>25. ASSUME NEW c \in Clients, HandlerReset(c) PROVE TypeOK'
  BY <1>25 DEF HandlerReset, HandlerTo
<1>26. ASSUME NEW c \in Clients, HandlerFind(c) PROVE TypeOK'
  <2>1. alive' \in BOOLEAN
    BY <1>26, TouchType DEF HandlerFind
  <2>2. prev' \in [Clients -> Clients \cup {NoClient}]
    <3>1. Listed \subseteq Clients
      BY DEF Listed, Walk
    <3> QED BY <1>26, <3>1 DEF HandlerFind
  <2>3. spc' \in [Clients -> HandlerLocs]
    BY <1>26, ZenonT(60) DEF HandlerFind, HandlerTo
  <2> QED BY <1>26, <2>1, <2>2, <2>3 DEF HandlerFind
<1>27. ASSUME NEW c \in Clients, HandlerUnlink(c) PROVE TypeOK'
  BY <1>27, TouchType DEF HandlerUnlink, HandlerTo
<1>28. ASSUME NEW c \in Clients, HandlerLoad(c) PROVE TypeOK'
  BY <1>28 DEF HandlerLoad, HandlerTo
<1>29. ASSUME NEW c \in Clients, HandlerStore(c) PROVE TypeOK'
  BY <1>29, SMTT(30) DEF HandlerStore, HandlerTo
<1>30. ASSUME NEW c \in Clients, HandlerPost(c) PROVE TypeOK'
  BY <1>30, SMTT(30) DEF HandlerPost, HandlerTo
<1>31. CASE UNCHANGED vars
  BY <1>31 DEF vars
<1> QED BY <1>1, <1>2, <1>3, <1>4, <1>5, <1>6, <1>7, <1>8, <1>9, <1>10,
           <1>11, <1>12, <1>13, <1>14, <1>15, <1>16, <1>17, <1>18, <1>19,
           <1>20, <1>21, <1>22, <1>23, <1>24, <1>25, <1>26, <1>27, <1>28,
           <1>29, <1>30, <1>31
       DEF Next, HostStep, ClientStep, HandlerStep

\* What the steps of a client come to, for the host and the handlers.
LEMMA ClientCases ==
    ASSUME TypeOK, NEW c \in Clients, ClientStep(c) \/ Killed(c)
    PROVE  /\ UNCHANGED <<sem, status, hpc, hcl, spc, slot>>
           /\ \/ cpc[c] = "new" /\ reg' = Append(reg, c) /\ cpc' = [cpc EXCEPT ![c] = "sent"]
              \/ /\ UNCHANGED reg /\ cpc[c] # "new"
                 /\ \E l \in ClientLocs \ {"new"} : cpc' = [cpc EXCEPT ![c] = l]
<1> USE DEF ClientTo, ClientLocs, Requests, hostVars, handlerVars
<1>1. CASE ClientConnect(c)
  BY <1>1 DEF ClientConnect
<1>2. CASE ClientOpenResp(c)
  BY <1>2 DEF ClientOpenResp
<1>3. CASE ClientConnected(c)
  BY <1>3 DEF ClientConnected
<1>4. ASSUME NEW r \in Requests, ClientAsk(c, r) PROVE
          /\ UNCHANGED <<sem, status, hpc, hcl, spc, slot, reg>> /\ cpc[c] # "new"
          /\ \E l \in ClientLocs \ {"new"} : cpc' = [cpc EXCEPT ![c] = l]
  BY <1>4 DEF ClientAsk
<1>5. CASE ClientAnswered(c)
  BY <1>5 DEF ClientAnswered
<1>6. CASE Killed(c)
  BY <1>6 DEF Killed
<1> QED BY <1>1, <1>2, <1>3, <1>4, <1>5, <1>6 DEF ClientStep

\* What those of a handler come to: it serves, gives its slot back, leaves the
\* list, or gives its token back.
LEMMA HandlerCases ==
    ASSUME TypeOK, NEW c \in Clients, HandlerStep(c)
    PROVE  /\ UNCHANGED <<reg, hpc, hcl, cpc, slot>>
           /\ \/ /\ spc[c] \in Early /\ UNCHANGED <<sem, status>>
                 /\ \E l \in Early : spc' = [spc EXCEPT ![c] = l]
              \/ /\ spc[c] \in Early /\ UNCHANGED sem
                 /\ status' = [status EXCEPT ![slot[c]] = 0]
                 /\ spc' = [spc EXCEPT ![c] = "find"]
              \/ /\ spc[c] \in Late /\ UNCHANGED <<sem, status>>
                 /\ \E l \in Late : spc' = [spc EXCEPT ![c] = l]
              \/ /\ spc[c] \in Late /\ UNCHANGED status /\ sem' = sem + 1
                 /\ spc' = [spc EXCEPT ![c] = "ended"]
<1> USE DEF HandlerTo, hostVars, clientVars, listVars, Early, Late
<1>1. CASE HandlerOpen(c) \/ HandlerEOF(c) \/ HandlerOpenResp(c)
  BY <1>1 DEF HandlerOpen, HandlerEOF, HandlerOpenResp
<1>2. CASE HandlerRead(c)
  BY <1>2 DEF HandlerRead
<1>3. CASE HandlerAnswer(c)
  BY <1>3 DEF HandlerAnswer
<1>4. CASE HandlerReset(c)
  BY <1>4 DEF HandlerReset
<1>5. CASE HandlerFind(c)
  BY <1>5 DEF HandlerFind
<1>6. CASE HandlerUnlink(c)
  BY <1>6 DEF HandlerUnlink
<1>7. CASE HandlerLoad(c) \/ HandlerStore(c)
  BY <1>7 DEF HandlerLoad, HandlerStore
<1>8. CASE HandlerPost(c)
  BY <1>8 DEF HandlerPost
<1> QED BY <1>1, <1>2, <1>3, <1>4, <1>5, <1>6, <1>7, <1>8 DEF HandlerStep

\* And those of the host.
LEMMA HostCases ==
    ASSUME TypeOK, HostStep
    PROVE  /\ UNCHANGED cpc
           /\ \/ HostRead
              \/ HostWait
              \/ HostSlot
              \/ /\ hpc \in Claimed /\ hpc' \in Claimed \cup {"post"}
                 /\ UNCHANGED <<reg, hcl, sem, status, spc, slot>>
              \/ HostStart
              \/ HostPost
<1> USE DEF HostTo, handlerVars, clientVars, listVars, Claimed
<1>1. CASE HostRead \/ HostWait \/ HostSlot \/ HostStart \/ HostPost
  BY <1>1 DEF HostRead, HostWait, HostSlot, HostStart, HostPost
<1>2. CASE HostCheck
  BY <1>2 DEF HostCheck
<1>3. CASE HostTail
  BY <1>3 DEF HostTail
<1>4. CASE HostLink
  BY <1>4 DEF HostLink
<1>5. CASE HostLoad \/ HostStore
  BY <1>5 DEF HostLoad, HostStore
<1>6. CASE HostOpenResp \/ HostOpenReq
  BY <1>6 DEF HostOpenResp, HostOpenReq
<1>7. CASE HostGreet
  BY <1>7 DEF HostGreet
<1> QED BY <1>1, <1>2, <1>3, <1>4, <1>5, <1>6, <1>7 DEF HostStep

\* A client is in one place at a time: not yet started, waiting in the register
\* FIFO, with the host, or with a handler.
LEMMA StepQueue == TypeOK /\ QueueInv /\ [Next]_vars => QueueInv'
<1> SUFFICES ASSUME TypeOK, QueueInv, [Next]_vars PROVE QueueInv'
  OBVIOUS
<1>0. /\ reg \in Seq(Clients) /\ Len(reg) \in Nat
      /\ \A p \in 1..Len(reg) : reg[p] \in Clients
      /\ spc \in [Clients -> HandlerLocs] /\ cpc \in [Clients -> ClientLocs]
      /\ hpc # "read" => hcl \in Clients
  BY LenProperties, ElementOfSeq DEF TypeOK, ServerType, HandlerType, ClientType, HostType
<1> USE <1>0
<1>1. ASSUME NEW c \in Clients, ClientStep(c) \/ Killed(c) PROVE QueueInv'
  <2>1. UNCHANGED <<hpc, hcl, spc>>
    BY <1>1, ClientCases
  <2>2. CASE cpc[c] = "new" /\ reg' = Append(reg, c) /\ cpc' = [cpc EXCEPT ![c] = "sent"]
    <3>1. /\ Len(reg') = Len(reg) + 1 /\ reg'[Len(reg) + 1] = c
          /\ \A p \in 1..Len(reg) : reg'[p] = reg[p]
      BY <2>2, AppendProperties
    <3>2. /\ spc[c] = "none" /\ (hpc # "read" => hcl # c)
          /\ \A p \in 1..Len(reg) : reg[p] # c
      BY <2>2 DEF QueueInv
    <3>3. \A d \in Clients : cpc'[d] = IF d = c THEN "sent" ELSE cpc[d]
      BY <2>2
    <3>4. \A p \in 1..Len(reg') : p \in 1..Len(reg) \/ p = Len(reg) + 1
      BY <3>1
    <3>5. \A p \in 1..Len(reg') :
            /\ spc'[reg'[p]] = "none" /\ cpc'[reg'[p]] # "new"
            /\ hpc' # "read" => reg'[p] # hcl'
            /\ \A q \in 1..Len(reg') : q # p => reg'[q] # reg'[p]
      BY <2>1, <3>1, <3>2, <3>3, <3>4 DEF QueueInv
    <3> QED BY <2>1, <3>2, <3>3, <3>5 DEF QueueInv
  <2>3. ASSUME UNCHANGED reg, cpc[c] # "new", NEW l \in ClientLocs \ {"new"},
               cpc' = [cpc EXCEPT ![c] = l]
        PROVE  QueueInv'
    <3>1. \A d \in Clients : cpc'[d] = "new" <=> cpc[d] = "new"
      BY <2>3
    <3> QED BY <2>1, <2>3, <3>1 DEF QueueInv
  <2> QED BY <1>1, <2>2, <2>3, ClientCases
<1>2. ASSUME NEW c \in Clients, HandlerStep(c) PROVE QueueInv'
  <2>1. UNCHANGED <<reg, hpc, hcl, cpc>>
    BY <1>2, HandlerCases
  <2>2. /\ spc[c] # "none"
        /\ \A d \in Clients : d # c => spc'[d] = spc[d]
    BY <1>2, HandlerCases DEF Early, Late
  <2> QED BY <2>1, <2>2 DEF QueueInv
<1>3. CASE HostRead
  <2>1. /\ hpc = "read" /\ hpc' = "wait" /\ reg # <<>>
        /\ hcl' = Head(reg) /\ reg' = Tail(reg) /\ UNCHANGED <<spc, cpc>>
    BY <1>3 DEF HostRead, HostTo, handlerVars, clientVars
  <2>2. /\ Len(reg) >= 1 /\ hcl' = reg[1]
        /\ Len(reg') = Len(reg) - 1
        /\ \A p \in 1..Len(reg') : reg'[p] = reg[p + 1]
    BY <2>1, HeadTailProperties, EmptySeq
  <2>3. \A p \in 1..Len(reg') : p + 1 \in 1..Len(reg)
    BY <2>2
  <2> QED BY <2>1, <2>2, <2>3 DEF QueueInv
<1>4. CASE HostWait \/ HostSlot \/ HostPost
  <2>1. UNCHANGED <<reg, hcl, spc, cpc>> /\ hpc # "read"
    BY <1>4 DEF HostWait, HostSlot, HostPost, handlerVars, clientVars
  <2> QED BY <2>1 DEF QueueInv
<1>5. CASE HostStart
  <2>1. /\ hpc = "start" /\ hpc' = "read" /\ UNCHANGED <<reg, hcl, cpc>>
        /\ spc' = [spc EXCEPT ![hcl] = "open"]
    BY <1>5 DEF HostStart, HostTo, clientVars
  <2>2. \A d \in Clients : d # hcl => spc'[d] = spc[d]
    BY <2>1
  <2> QED BY <2>1, <2>2 DEF QueueInv
<1>6. CASE hpc \in Claimed /\ UNCHANGED <<reg, hcl, spc, cpc>>
  BY <1>6 DEF QueueInv, Claimed
<1>7. CASE UNCHANGED vars
  BY <1>7 DEF vars, hostVars, handlerVars, clientVars, QueueInv
<1> QED BY <1>1, <1>2, <1>3, <1>4, <1>5, <1>6, <1>7, HostCases DEF Next

\* A slot is marked in use if and only if it is that of one session, and the
\* one the host has in hand is not.
LEMMA StepSlots == TypeOK /\ QueueInv /\ SlotInv /\ [Next]_vars => SlotInv'
<1> SUFFICES ASSUME TypeOK, QueueInv, SlotInv, [Next]_vars PROVE SlotInv'
  OBVIOUS
<1>0. /\ spc \in [Clients -> HandlerLocs] /\ slot \in [Clients -> Slots]
      /\ status \in [Slots -> {0, 1}]
      /\ hpc # "read" => hcl \in Clients /\ spc[hcl] = "none"
  BY DEF TypeOK, HandlerType, ServerType, HostType, QueueInv
<1> USE <1>0
\* Nothing changes for the slots if the same sessions occupy the same ones.
<1>1. ASSUME UNCHANGED <<status, slot>>,
             \A c \in Clients : Occupying(c)' <=> Occupying(c),
             hpc' \in Claimed => hpc \in Claimed /\ hcl' = hcl
      PROVE  SlotInv'
  BY <1>1 DEF SlotInv, SlotExclusive
<1>2. ASSUME NEW c \in Clients, ClientStep(c) \/ Killed(c) PROVE SlotInv'
  <2>1. UNCHANGED <<status, hpc, hcl, spc, slot>>
    BY <1>2, ClientCases
  <2> QED BY <1>1, <2>1 DEF Occupying
<1>3. ASSUME NEW c \in Clients, HandlerStep(c) PROVE SlotInv'
  <2>1. UNCHANGED <<hpc, hcl, slot>> /\ \A d \in Clients : d # c => spc'[d] = spc[d]
    BY <1>3, HandlerCases
  <2>2. \A d \in Clients : d # c => (Occupying(d)' <=> Occupying(d))
    BY <2>1 DEF Occupying
  <2>3. CASE spc[c] \in Early /\ UNCHANGED status /\ spc'[c] \in Early
    <3>1. Occupying(c)' <=> Occupying(c)
      BY <2>3 DEF Occupying, Early
    <3> QED BY <1>1, <2>1, <2>2, <2>3, <3>1
  <2>4. CASE spc[c] \in Late /\ UNCHANGED status /\ spc'[c] \in Late \cup {"ended"}
    <3>1. Occupying(c)' <=> Occupying(c)
      BY <2>4 DEF Occupying, Late
    <3> QED BY <1>1, <2>1, <2>2, <2>4, <3>1
  <2>5. CASE /\ spc[c] \in Early /\ spc'[c] = "find"
             /\ status' = [status EXCEPT ![slot[c]] = 0]
    <3>1. Occupying(c) /\ ~Occupying(c)'
      BY <2>5 DEF Occupying, Early
    <3>2. \A s \in Slots : status'[s] = IF s = slot[c] THEN 0 ELSE status[s]
      BY <2>5
    <3>3. SlotExclusive'
      BY <2>1, <2>2, <3>1, <3>2 DEF SlotInv, SlotExclusive
    <3>4. \A s \in Slots : status'[s] = 1 => \E d \in Clients : Occupying(d)' /\ slot'[d] = s
      <4> SUFFICES ASSUME NEW s \in Slots, status'[s] = 1
                   PROVE  \E d \in Clients : Occupying(d)' /\ slot'[d] = s
        OBVIOUS
      <4>1. s # slot[c] /\ status[s] = 1
        BY <3>2
      <4>2. PICK d \in Clients : Occupying(d) /\ slot[d] = s
        BY <4>1 DEF SlotInv
      <4> QED BY <2>1, <2>2, <4>1, <4>2
    <3>5. hpc' \in Claimed => status'[slot'[hcl']] = 0
      <4>1. hpc \in Claimed => hcl \in Clients /\ status[slot[hcl]] = 0
        BY DEF SlotInv, Claimed
      <4> QED BY <2>1, <3>2, <4>1
    <3> QED BY <3>3, <3>4, <3>5 DEF SlotInv
  <2>6. /\ spc[c] \in Early => \/ UNCHANGED status /\ spc'[c] \in Early
                               \/ /\ spc'[c] = "find"
                                  /\ status' = [status EXCEPT ![slot[c]] = 0]
        /\ spc[c] \in Late => UNCHANGED status /\ spc'[c] \in Late \cup {"ended"}
        /\ spc[c] \in Early \cup Late
    BY <1>3, HandlerCases DEF Early, Late
  <2> QED BY <2>3, <2>4, <2>5, <2>6
<1>4. CASE HostRead \/ HostWait \/ HostPost
  <2>1. UNCHANGED <<status, spc, slot>> /\ hpc' \notin Claimed
    BY <1>4 DEF HostRead, HostWait, HostPost, HostTo, handlerVars, Claimed
  <2> QED BY <1>1, <2>1 DEF Occupying
<1>5. CASE HostSlot
  <2>1. hpc = "slot" /\ hcl \in Clients /\ UNCHANGED <<hcl, status, spc>>
    BY <1>5 DEF HostSlot
  <2>2. CASE UNCHANGED slot /\ hpc' = "read"
    BY <1>1, <2>1, <2>2 DEF Occupying, Claimed
  <2>3. ASSUME NEW s \in FreeSlots, slot' = [slot EXCEPT ![hcl] = s] PROVE SlotInv'
    <3>1. slot'[hcl] = s /\ \A c \in Clients : c # hcl => slot'[c] = slot[c]
      BY <2>1, <2>3
    <3>2. status'[s] = 0
      BY <2>1 DEF FreeSlots
    <3>3. ~Occupying(hcl) /\ \A c \in Clients : Occupying(c)' <=> Occupying(c)
      BY <2>1 DEF Occupying
    <3> QED BY <2>1, <3>1, <3>2, <3>3 DEF SlotInv, SlotExclusive
  <2> QED BY <1>5, <2>2, <2>3 DEF HostSlot, HostTo
<1>6. CASE hpc \in Claimed /\ UNCHANGED <<reg, hcl, sem, status, spc, slot>>
  BY <1>1, <1>6 DEF Occupying
<1>7. CASE HostStart
  <2>1. /\ hpc = "start" /\ hpc' = "read" /\ hcl \in Clients /\ UNCHANGED <<hcl, slot>>
        /\ spc' = [spc EXCEPT ![hcl] = "open"]
        /\ status' = [status EXCEPT ![slot[hcl]] = 1]
        /\ status[slot[hcl]] = 0
    BY <1>7 DEF HostStart, HostTo, SlotInv, Claimed
  <2>2. /\ Occupying(hcl)'
        /\ \A c \in Clients : c # hcl => (Occupying(c)' <=> Occupying(c))
    BY <2>1 DEF Occupying
  <2>3. \A s \in Slots : status'[s] = IF s = slot[hcl] THEN 1 ELSE status[s]
    BY <2>1
  <2>4. \A c \in Clients : Occupying(c) => slot[c] # slot[hcl]
    BY <2>1 DEF SlotInv, SlotExclusive
  <2>5. SlotExclusive'
    BY <2>1, <2>2, <2>3, <2>4 DEF SlotInv, SlotExclusive
  <2>6. \A s \in Slots : status'[s] = 1 => \E c \in Clients : Occupying(c)' /\ slot'[c] = s
    <3> SUFFICES ASSUME NEW s \in Slots, status'[s] = 1
                 PROVE  \E c \in Clients : Occupying(c)' /\ slot'[c] = s
      OBVIOUS
    <3>1. CASE s = slot[hcl]
      BY <2>1, <2>2, <3>1
    <3>2. CASE s # slot[hcl]
      <4>1. PICK c \in Clients : Occupying(c) /\ slot[c] = s
        BY <2>3, <3>2 DEF SlotInv
      <4> QED BY <2>1, <2>2, <3>2, <4>1
    <3> QED BY <3>1, <3>2
  <2> QED BY <2>1, <2>5, <2>6 DEF SlotInv, Claimed
<1>8. CASE UNCHANGED vars
  BY <1>1, <1>8 DEF vars, hostVars, handlerVars, Occupying
<1> QED BY <1>2, <1>3, <1>4, <1>5, <1>6, <1>7, <1>8, HostCases DEF Next

\* The holders of tokens are finitely many.
LEMMA HoldersFinite == IsFiniteSet(Holders) /\ Cardinality(Holders) \in Nat
<1>1. Holders \in SUBSET Clients
  BY DEF Holders
<1> QED BY <1>1, ClientsAssumption, FS_Subset, FS_CardinalityType

\* A free slot for whoever is past the semaphore: were all slots in use, by S
\* sessions, those and the host's client would hold S + 1 tokens.
LEMMA SlotFree == Inv => SlotAvailable
<1> SUFFICES ASSUME Inv, hpc = "slot", FreeSlots = {} PROVE FALSE
  BY DEF SlotAvailable
<1> DEFINE Occ == {c \in Clients : Occupying(c)}
<1> DEFINE f == [c \in Occ |-> slot[c]]
<1>1. hcl \in Holders /\ Occ \subseteq Holders \ {hcl}
  BY DEF Inv, TypeOK, HostType, QueueInv, Holders, Holding, Occupying
<1>2. /\ IsFiniteSet(Holders \ {hcl})
      /\ Cardinality(Holders \ {hcl}) = Cardinality(Holders) - 1
  BY <1>1, HoldersFinite, FS_RemoveElement
<1>3. IsFiniteSet(Occ) /\ Cardinality(Occ) <= Cardinality(Holders) - 1
  BY <1>1, <1>2, FS_Subset
<1>4. \A s \in Slots : \E c \in Occ : f[c] = s
  <2> SUFFICES ASSUME NEW s \in Slots PROVE \E c \in Occ : f[c] = s
    OBVIOUS
  <2>1. status[s] = 1
    BY DEF Inv, TypeOK, ServerType, FreeSlots
  <2> QED BY <2>1 DEF Inv, SlotInv
<1>5. f \in Surjection(Occ, Slots)
  <2>1. f \in [Occ -> Slots]
    BY DEF Inv, TypeOK, HandlerType
  <2> QED BY <1>4, <2>1, Fun_IsSurj
<1>6. Cardinality(Slots) <= Cardinality(Occ)
  BY <1>3, <1>5, FS_Surjection
<1>7. Cardinality(Slots) = S
  BY SAssumption, FS_Interval DEF Slots
<1>8. Cardinality(Occ) \in Nat
  BY <1>3, FS_CardinalityType
<1> QED BY <1>3, <1>6, <1>7, <1>8, HoldersFinite, SAssumption DEF Inv, TokenInv

\* Who holds a token, and who waits for one, seen from outside: a client
\* arrives, the first in the queue is admitted, one inside leaves, or nothing.
Same == UNCHANGED <<Holders, Queue, sem>>
Arrives(c) == Queue' = Append(Queue, c) /\ UNCHANGED <<Holders, sem>>
Enters ==
    /\ sem > 0 /\ sem' = sem - 1
    /\ Queue # <<>> /\ Queue' = Tail(Queue)
    /\ Head(Queue) \notin Holders /\ Holders' = Holders \cup {Head(Queue)}
Leaves(c) ==
    /\ sem' = sem + 1 /\ UNCHANGED Queue
    /\ c \in Holders /\ Holders' = Holders \ {c}

\* Every step is one of those four.
LEMMA StepHolders ==
    ASSUME Inv, [Next]_vars
    PROVE  Same \/ Enters \/ \E c \in Clients : Arrives(c) \/ Leaves(c)
<1>0. /\ reg \in Seq(Clients) /\ spc \in [Clients -> HandlerLocs]
      /\ sem \in Nat /\ hpc \in HostLocs
      /\ hpc # "read" => hcl \in Clients /\ spc[hcl] = "none"
  BY DEF Inv, TypeOK, ServerType, HandlerType, HostType, TokenInv, QueueInv
<1> USE <1>0
<1>1. ASSUME UNCHANGED <<sem, reg, hcl>>,
             hpc' = "wait" <=> hpc = "wait",
             \A c \in Clients : Holding(c)' <=> Holding(c)
      PROVE  Same
  BY <1>1 DEF Same, Holders, Queue
<1>2. ASSUME NEW c \in Clients, ClientStep(c) \/ Killed(c) PROVE Same \/ Arrives(c)
  <2>1. UNCHANGED <<sem, hpc, hcl, spc>>
    BY <1>2, ClientCases, Inv DEF Inv
  <2>2. CASE UNCHANGED reg
    BY <1>1, <2>1, <2>2 DEF Holding
  <2>3. CASE reg' = Append(reg, c)
    <3>1. UNCHANGED Holders
      BY <2>1 DEF Holders, Holding
    <3>2. CASE hpc = "wait"
      <4>1. Queue = <<hcl>> \o reg /\ Queue' = <<hcl>> \o Append(reg, c)
        BY <2>1, <2>3, <3>2 DEF Queue
      <4>2. <<hcl>> \in Seq(Clients) /\ <<c>> \in Seq(Clients)
        BY <3>2
      <4>3. Append(reg, c) = reg \o <<c>>
        BY AppendIsConcat
      <4>4. (<<hcl>> \o reg) \o <<c>> = <<hcl>> \o (reg \o <<c>>)
        BY <4>2, ConcatAssociative
      <4>5. <<hcl>> \o reg \in Seq(Clients)
        BY <4>2, ConcatProperties
      <4>6. Append(<<hcl>> \o reg, c) = (<<hcl>> \o reg) \o <<c>>
        BY <4>5, AppendIsConcat
      <4> QED BY <2>1, <3>1, <4>1, <4>3, <4>4, <4>6 DEF Arrives
    <3>3. CASE hpc # "wait"
      BY <2>1, <2>3, <3>1, <3>3 DEF Arrives, Queue
    <3> QED BY <3>2, <3>3
  <2> QED BY <1>2, <2>2, <2>3, ClientCases DEF Inv
<1>3. ASSUME NEW c \in Clients, HandlerStep(c) PROVE Same \/ Leaves(c)
  <2>1. UNCHANGED <<reg, hpc, hcl>> /\ \A d \in Clients : d # c => spc'[d] = spc[d]
    BY <1>3, HandlerCases DEF Inv
  <2>2. CASE UNCHANGED sem /\ {spc[c], spc'[c]} \subseteq Early \cup Late
    <3>1. \A d \in Clients : Holding(d)' <=> Holding(d)
      BY <2>1, <2>2 DEF Holding, Early, Late
    <3> QED BY <1>1, <2>1, <2>2, <3>1
  <2>3. CASE sem' = sem + 1 /\ spc[c] \in Late /\ spc'[c] = "ended"
    <3>1. Holding(c) /\ ~Holding(c)'
      BY <2>1, <2>3 DEF Holding, Late
    <3>2. \A d \in Clients : d # c => (Holding(d)' <=> Holding(d))
      BY <2>1 DEF Holding
    <3>3. c \in Holders /\ Holders' = Holders \ {c}
      BY <3>1, <3>2 DEF Holders
    <3> QED BY <2>1, <2>3, <3>3 DEF Leaves, Queue
  <2>4. \/ UNCHANGED sem /\ {spc[c], spc'[c]} \subseteq Early \cup Late
        \/ sem' = sem + 1 /\ spc[c] \in Late /\ spc'[c] = "ended"
    BY <1>3, HandlerCases DEF Inv, Early, Late
  <2> QED BY <2>2, <2>3, <2>4
<1>4. CASE HostRead
  <2>1. /\ hpc = "read" /\ hpc' = "wait" /\ reg # <<>>
        /\ hcl' = Head(reg) /\ reg' = Tail(reg) /\ UNCHANGED <<sem, spc>>
    BY <1>4 DEF HostRead, HostTo, handlerVars
  <2>2. <<Head(reg)>> \o Tail(reg) = reg
    <3>1. /\ Len(reg) \in Nat /\ Len(reg) >= 1 /\ Head(reg) = reg[1]
          /\ Head(reg) \in Clients /\ Tail(reg) \in Seq(Clients)
          /\ Len(Tail(reg)) = Len(reg) - 1
          /\ \A i \in 1..Len(Tail(reg)) : Tail(reg)[i] = reg[i + 1]
      BY <2>1, HeadTailProperties, EmptySeq, LenProperties
    <3>2. <<Head(reg)>> \in Seq(Clients) /\ Len(<<Head(reg)>>) = 1 /\ <<Head(reg)>>[1] = reg[1]
      BY <3>1
    <3>3. /\ <<Head(reg)>> \o Tail(reg) \in Seq(Clients)
          /\ Len(<<Head(reg)>> \o Tail(reg)) = 1 + Len(Tail(reg))
          /\ \A i \in 1..(1 + Len(Tail(reg))) :
               (<<Head(reg)>> \o Tail(reg))[i] =
                 IF i <= 1 THEN <<Head(reg)>>[i] ELSE Tail(reg)[i - 1]
      BY <3>1, <3>2, ConcatProperties
    <3>4. \A i \in 1..Len(reg) : (<<Head(reg)>> \o Tail(reg))[i] = reg[i]
      BY <3>1, <3>2, <3>3
    <3> QED BY <3>1, <3>3, <3>4, SeqEqual
  <2>3. UNCHANGED Holders
    BY <2>1 DEF Holders, Holding
  <2> QED BY <2>1, <2>2, <2>3 DEF Same, Queue
<1>5. CASE HostWait
  <2>1. /\ hpc = "wait" /\ hpc' = "slot" /\ sem > 0 /\ sem' = sem - 1
        /\ UNCHANGED <<reg, hcl, spc>>
    BY <1>5 DEF HostWait, HostTo, handlerVars
  <2>2. /\ <<hcl>> \in Seq(Clients) /\ Len(<<hcl>>) = 1 /\ <<hcl>>[1] = hcl
        /\ Len(reg) \in Nat
    BY <2>1, LenProperties
  <2>3. /\ Queue = <<hcl>> \o reg /\ Queue' = reg
        /\ Queue \in Seq(Clients) /\ Len(Queue) = 1 + Len(reg)
        /\ \A i \in 1..(1 + Len(reg)) : Queue[i] = IF i <= 1 THEN <<hcl>>[i] ELSE reg[i - 1]
    BY <2>1, <2>2, ConcatProperties DEF Queue
  <2>4. Queue # <<>>
    BY <2>2, <2>3, EmptySeq
  <2>5. Head(Queue) = hcl
    BY <2>2, <2>3, <2>4
  <2>6. /\ Tail(Queue) \in Seq(Clients) /\ Len(Tail(Queue)) = Len(reg)
        /\ \A i \in 1..Len(reg) : Tail(Queue)[i] = Queue[i + 1]
    BY <2>2, <2>3, <2>4, HeadTailProperties
  <2>7. \A i \in 1..Len(reg) : Tail(Queue)[i] = reg[i]
    BY <2>2, <2>3, <2>6
  <2>8. Tail(Queue) = reg
    BY <2>6, <2>7, SeqEqual
  <2>9. hcl \notin Holders /\ Holders' = Holders \cup {hcl}
    BY <2>1 DEF Holders, Holding
  <2> QED BY <2>1, <2>3, <2>4, <2>5, <2>8, <2>9 DEF Enters
<1>6. CASE HostSlot
  <2>1. FreeSlots # {}
    BY <1>6, SlotFree DEF SlotAvailable, HostSlot
  <2>2. hpc = "slot" /\ hpc' = "check" /\ UNCHANGED <<sem, reg, hcl, spc>>
    BY <1>6, <2>1 DEF HostSlot, HostTo
  <2> QED BY <1>1, <2>2 DEF Holding
<1>7. CASE hpc \in Claimed /\ hpc' \in Claimed \cup {"post"}
           /\ UNCHANGED <<reg, hcl, sem, status, spc, slot>>
  BY <1>1, <1>7 DEF Holding, Claimed
<1>8. CASE HostStart
  <2>1. /\ hpc = "start" /\ hpc' = "read" /\ UNCHANGED <<sem, reg, hcl>>
        /\ spc' = [spc EXCEPT ![hcl] = "open"]
    BY <1>8 DEF HostStart, HostTo
  <2>2. \A c \in Clients : Holding(c)' <=> Holding(c)
    BY <2>1 DEF Holding
  <2> QED BY <1>1, <2>1, <2>2
<1>9. CASE HostPost
  <2>1. /\ hpc = "post" /\ hpc' = "read" /\ sem' = sem + 1 /\ UNCHANGED <<reg, hcl, spc>>
    BY <1>9 DEF HostPost, HostTo, handlerVars
  <2>2. hcl \in Holders /\ Holders' = Holders \ {hcl}
    BY <2>1 DEF Holders, Holding
  <2>3. Leaves(hcl)
    BY <2>1, <2>2 DEF Leaves, Queue
  <2> QED BY <2>1, <2>3
<1>10. CASE UNCHANGED vars
  BY <1>1, <1>10 DEF vars, hostVars, handlerVars, Holding
<1>11. TypeOK
  BY DEF Inv
<1> QED BY <1>2, <1>3, <1>4, <1>5, <1>6, <1>7, <1>8, <1>9, <1>10, <1>11, HostCases DEF Next

\* Tokens are neither lost nor made.
LEMMA StepTokens == Inv /\ [Next]_vars => TokenInv'
<1> SUFFICES ASSUME Inv, [Next]_vars PROVE TokenInv'
  OBVIOUS
<1>1. sem \in Nat /\ sem + Cardinality(Holders) = S
  BY DEF Inv, TokenInv
<1>2. IsFiniteSet(Holders) /\ Cardinality(Holders) \in Nat
  BY HoldersFinite
<1>3. CASE Same
  BY <1>1, <1>3 DEF Same, TokenInv
<1>4. CASE Enters
  <2>1. Cardinality(Holders') = Cardinality(Holders) + 1
    BY <1>2, <1>4, FS_AddElement DEF Enters
  <2> QED BY <1>1, <1>2, <1>4, <2>1 DEF Enters, TokenInv
<1>5. ASSUME NEW c \in Clients, Arrives(c) PROVE TokenInv'
  BY <1>1, <1>5 DEF Arrives, TokenInv
<1>6. ASSUME NEW c \in Clients, Leaves(c) PROVE TokenInv'
  <2>1. Cardinality(Holders') = Cardinality(Holders) - 1
    BY <1>2, <1>6, FS_RemoveElement DEF Leaves
  <2> QED BY <1>1, <1>2, <1>6, <2>1 DEF Leaves, TokenInv
<1> QED BY <1>3, <1>4, <1>5, <1>6, StepHolders

\* At the start nobody holds a token.
LEMMA InitInv == Init => Inv
<1> SUFFICES ASSUME Init PROVE Inv
  OBVIOUS
<1>1. TypeOK
  BY InitType
<1>2. QueueInv
  BY DEF Init, QueueInv
<1>3. SlotInv
  BY DEF Init, SlotInv, SlotExclusive, Occupying, Claimed
<1>4. Holders = {}
  BY DEF Init, Holders, Holding
<1>5. TokenInv
  BY <1>4, SAssumption, FS_EmptySet DEF Init, TokenInv
<1> QED BY <1>1, <1>2, <1>3, <1>5 DEF Inv

\* In every reachable state.
LEMMA Invariant == Spec => []Inv
<1>1. Inv /\ [Next]_vars => Inv'
  BY StepType, StepQueue, StepSlots, StepTokens DEF Inv
<1> QED BY InitInv, <1>1, PTL DEF Spec

\* A FIFO that held nothing, or one message, after it is written or read.
LEMMA OneMessage ==
    /\ \A m : Append(<<>>, m) = <<m>>
    /\ \A m : <<m>> # <<>> /\ Head(<<m>>) = m /\ Tail(<<m>>) = <<>> /\ Len(<<m>>) = 1
    /\ Len(<<>>) = 0
OBVIOUS

\* So there is one message at most.
LEMMA TalkLen == \A c \in Clients : Talk(c) => Len(req[c]) + Len(resp[c]) <= 1
<1> SUFFICES ASSUME NEW c \in Clients, Talk(c) PROVE Len(req[c]) + Len(resp[c]) <= 1
  OBVIOUS
<1>1. \/ req[c] = <<>> /\ resp[c] = <<>>
      \/ req[c] = <<cpc[c]>> /\ resp[c] = <<>>
      \/ req[c] = <<>> /\ \E m : resp[c] = <<m>>
      \/ Len(req[c]) + Len(resp[c]) <= 1
  BY Zenon DEF Talk
<1>2. CASE req[c] = <<>> /\ resp[c] = <<>>
  BY <1>2, OneMessage
<1>3. CASE req[c] = <<cpc[c]>> /\ resp[c] = <<>>
  BY <1>3, OneMessage
<1>4. ASSUME NEW m, req[c] = <<>>, resp[c] = <<m>> PROVE Len(req[c]) + Len(resp[c]) <= 1
  BY <1>4, OneMessage
<1> QED BY <1>1, <1>2, <1>3, <1>4

\* What was said of a client stays true while nothing it speaks of changes.
LEMMA TalkSame ==
    ASSUME NEW c \in Clients, Talk(c), Greeted(c)' <=> Greeted(c),
           hcl = c /\ hpc = "req" => hcl' = c /\ hpc' = "req",
           hcl' = c /\ hpc' = "greet" => hcl = c /\ hpc = "greet",
           spc'[c] = spc[c], op'[c] = op[c], cpc'[c] = cpc[c],
           req'[c] = req[c], resp'[c] = resp[c]
    PROVE  Talk(c)'
BY DEF Talk

\* Every step keeps at most one message between a client and its handler.
LEMMA StepTalk == TypeOK /\ QueueInv /\ TalkInv /\ [Next]_vars => TalkInv'
<1> SUFFICES ASSUME TypeOK, QueueInv, TalkInv, [Next]_vars, NEW c \in Clients
             PROVE  Talk(c)'
  BY DEF TalkInv
<1>0. /\ Talk(c)
      /\ spc \in [Clients -> HandlerLocs] /\ op \in [Clients -> Requests]
      /\ cpc \in [Clients -> ClientLocs]
      /\ req \in [Clients -> Seq(Requests)]
      /\ resp \in [Clients -> Seq(Requests \cup {"connect"})]
      /\ hpc # "read" => hcl \in Clients /\ spc[hcl] = "none"
  BY DEF TypeOK, HandlerType, ClientType, HostType, TalkInv, QueueInv
<1>1. ASSUME NEW b \in Clients, ClientStep(b) \/ Killed(b) PROVE Talk(c)'
  <2>1. UNCHANGED <<hpc, hcl, spc, op>>
    BY <1>1 DEF ClientStep, ClientConnect, ClientOpenResp, ClientConnected, ClientAsk,
                ClientAnswered, Killed, hostVars, handlerVars
  <2>2. Greeted(c)' <=> Greeted(c)
    BY <2>1 DEF Greeted
  <2>3. CASE b # c
    <3>1. cpc'[c] = cpc[c] /\ req'[c] = req[c] /\ resp'[c] = resp[c]
      BY <1>0, <1>1, <2>3 DEF ClientStep, ClientConnect, ClientOpenResp, ClientConnected,
           ClientAsk, ClientAnswered, Killed, ClientTo
    <3> QED BY <1>0, <2>1, <2>2, <3>1, TalkSame
  <2>4. CASE ClientConnect(c) \/ ClientOpenResp(c)
    <3>1. /\ cpc[c] \in {"new", "sent"} /\ cpc'[c] \in {"sent", "opening"}
          /\ UNCHANGED <<req, resp>>
      BY <1>0, <2>4 DEF ClientConnect, ClientOpenResp, ClientTo
    <3> QED BY <1>0, <2>1, <2>2, <3>1 DEF Talk, Requests
  <2>5. CASE ClientConnected(c)
    <3>1. cpc[c] = "opening" /\ resp[c] # <<>>
      BY <2>5 DEF ClientConnected
    <3>2. /\ Greeted(c) /\ spc[c] = "none"
          /\ req[c] = <<>> /\ resp[c] = <<"connect">>
      BY <1>0, <3>1 DEF Talk, Requests, Greeted
    <3>3. cpc'[c] = "connected" /\ resp'[c] = <<>> /\ req'[c] = <<>>
      BY <1>0, <2>5, <3>2, OneMessage DEF ClientConnected, ClientTo
    <3> QED BY <2>1, <2>2, <3>2, <3>3 DEF Talk
  <2>6. ASSUME NEW r \in Requests, ClientAsk(c, r) PROVE Talk(c)'
    <3>1. cpc[c] = "connected"
      BY <2>6 DEF ClientAsk
    <3>2. /\ Greeted(c) /\ spc[c] \in {"none", "open", "read"}
          /\ req[c] = <<>> /\ resp[c] = <<>>
      BY <1>0, <3>1 DEF Talk, Requests
    <3>3. cpc'[c] = r /\ req'[c] = <<r>> /\ resp'[c] = <<>>
      BY <1>0, <2>6, <3>2, OneMessage DEF ClientAsk, ClientTo
    <3> QED BY <2>1, <2>2, <3>2, <3>3 DEF Talk
  <2>7. CASE ClientAnswered(c)
    <3>1. cpc[c] \in Requests /\ resp[c] # <<>>
      BY <2>7 DEF ClientAnswered
    <3>2. /\ req[c] = <<>> /\ resp[c] = <<cpc[c]>> /\ spc[c] # "none"
          /\ \/ cpc[c] = "subscribe" /\ spc[c] = "read"
             \/ cpc[c] = "disconnect" /\ spc[c] \in {"reset", "ended"} \cup Late
      BY <1>0, <3>1 DEF Talk, Requests, Late
    <3>3. /\ cpc'[c] = IF cpc[c] = "disconnect" THEN "left" ELSE "connected"
          /\ resp'[c] = <<>> /\ req'[c] = <<>>
      BY <1>0, <2>7, <3>2, OneMessage DEF ClientAnswered, ClientTo
    <3> QED BY <2>1, <2>2, <3>2, <3>3 DEF Talk, Greeted
  <2>8. CASE Killed(c)
    <3>1. cpc'[c] = "dead" /\ UNCHANGED <<req, resp>>
      BY <1>0, <2>8 DEF Killed, ClientTo
    <3>2. \/ ~Greeted(c) /\ req[c] = <<>> /\ resp[c] = <<>>
          \/ Greeted(c) /\ Len(req[c]) + Len(resp[c]) <= 1
      <4>1. ~Greeted(c) => req[c] = <<>> /\ resp[c] = <<>>
        BY <1>0 DEF Talk, Greeted, Late
      <4> QED BY <1>0, <4>1, TalkLen
    <3> QED BY <2>1, <2>2, <3>1, <3>2 DEF Talk
  <2> QED BY <1>1, <2>3, <2>4, <2>5, <2>6, <2>7, <2>8 DEF ClientStep
<1>2. ASSUME NEW b \in Clients, HandlerStep(b) PROVE Talk(c)'
  <2>1. /\ UNCHANGED <<hpc, hcl, cpc>> /\ spc[b] # "none" /\ spc'[b] # "none"
        /\ \A d \in Clients \ {b} : /\ spc'[d] = spc[d] /\ op'[d] = op[d]
                                    /\ req'[d] = req[d] /\ resp'[d] = resp[d]
    <3>1. UNCHANGED <<hpc, hcl, cpc>>
      BY <1>2, HandlerCases
    <3>2. /\ spc[b] # "none" /\ spc'[b] # "none"
          /\ \A d \in Clients \ {b} : spc'[d] = spc[d]
      BY <1>0, <1>2, HandlerCases DEF Early, Late
    <3>3. \A d \in Clients \ {b} : op'[d] = op[d] /\ req'[d] = req[d] /\ resp'[d] = resp[d]
      BY <1>0, <1>2 DEF HandlerStep, HandlerOpen, HandlerRead, HandlerEOF, HandlerOpenResp,
           HandlerAnswer, HandlerReset, HandlerFind, HandlerUnlink, HandlerLoad, HandlerStore,
           HandlerPost, clientVars
    <3> QED BY <3>1, <3>2, <3>3
  <2>2. Greeted(c)' <=> Greeted(c)
    BY <2>1 DEF Greeted
  <2>3. CASE b # c
    BY <1>0, <2>1, <2>2, <2>3, TalkSame
  <2>4. CASE b = c
    <3>1. Greeted(c)' /\ Greeted(c) /\ spc[c] # "none"
      BY <2>1, <2>2, <2>4 DEF Greeted
    <3>2. CASE HandlerOpen(c)
      <4>1. /\ spc[c] = "open" /\ spc'[c] = "read" /\ UNCHANGED <<op, req, resp>>
        BY <1>0, <3>2 DEF HandlerOpen, HandlerTo, clientVars
      <4> QED BY <1>0, <2>1, <3>1, <4>1 DEF Talk, Late
    <3>3. CASE HandlerRead(c)
      <4>1. /\ spc[c] = "read" /\ spc'[c] = "resp" /\ req[c] # <<>>
            /\ op'[c] = Head(req[c]) /\ req'[c] = <<>> /\ UNCHANGED resp
        BY <1>0, <3>3 DEF HandlerRead, HandlerTo
      <4>2. \/ cpc[c] \in Requests /\ req[c] = <<cpc[c]>> /\ resp[c] = <<>>
            \/ cpc[c] = "dead" /\ Len(req[c]) + Len(resp[c]) <= 1
        BY <1>0, <3>1, <4>1 DEF Talk
      <4>3. CASE cpc[c] \in Requests /\ req[c] = <<cpc[c]>> /\ resp[c] = <<>>
        <5>1. op'[c] = cpc[c]
          BY <4>1, <4>3, OneMessage
        <5> QED BY <2>1, <4>1, <4>3, <5>1 DEF Talk
      <4>4. CASE cpc[c] = "dead" /\ Len(req[c]) + Len(resp[c]) <= 1
        <5>1. Len(req[c]) \in Nat /\ Len(resp[c]) \in Nat
          BY <1>0, LenProperties
        <5>2. Len(req'[c]) = 0 /\ Len(resp'[c]) = Len(resp[c])
          BY <4>1, OneMessage
        <5>3. Len(req'[c]) + Len(resp'[c]) <= 1
          <6>1. \A m, n \in Nat : m + n <= 1 => 0 + n <= 1
            OBVIOUS
          <6>2. 0 + Len(resp[c]) <= 1
            BY <4>4, <5>1, <6>1
          <6> QED BY <5>2, <6>2, Zenon
        <5> QED BY <2>1, <3>1, <4>4, <5>3 DEF Talk
      <4> QED BY <4>2, <4>3, <4>4
    <3>4. CASE HandlerEOF(c)
      <4>1. /\ spc[c] = "read" /\ ~Writer(c) /\ UNCHANGED <<op, req, resp>>
        BY <3>4 DEF HandlerEOF, clientVars
      <4>2. cpc[c] = "dead" /\ Len(req[c]) + Len(resp[c]) <= 1
        BY <1>0, <3>1, <4>1 DEF Talk, Writer, Requests, Late
      <4> QED BY <2>1, <3>1, <4>1, <4>2 DEF Talk
    <3>5. CASE HandlerOpenResp(c)
      <4>1. /\ spc[c] = "resp" /\ spc'[c] = "answer" /\ UNCHANGED <<op, req, resp>>
        BY <1>0, <3>5 DEF HandlerOpenResp, HandlerTo, clientVars
      <4> QED BY <1>0, <2>1, <3>1, <4>1 DEF Talk, Late
    <3>6. CASE HandlerAnswer(c) /\ Reader(c)
      <4>1. /\ spc[c] = "answer" /\ resp'[c] = Append(resp[c], op[c]) /\ UNCHANGED req
            /\ spc'[c] = IF op[c] = "disconnect" THEN "reset" ELSE "read"
        BY <1>0, <3>6 DEF HandlerAnswer, HandlerTo
      <4>2. cpc[c] \in Requests /\ op[c] = cpc[c] /\ req[c] = <<>> /\ resp[c] = <<>>
        BY <1>0, <3>1, <3>6, <4>1 DEF Talk, Reader, Requests, Late
      <4>3. resp'[c] = <<cpc[c]>>
        BY <4>1, <4>2, OneMessage
      <4> QED BY <2>1, <4>1, <4>2, <4>3 DEF Talk, Requests
    <3>7. CASE HandlerAnswer(c) /\ ~Reader(c)
      <4>1. spc[c] = "answer" /\ UNCHANGED <<req, resp>>
        BY <3>7 DEF HandlerAnswer
      <4>2. cpc[c] = "dead" /\ Len(req[c]) + Len(resp[c]) <= 1
        BY <1>0, <3>1, <3>7, <4>1 DEF Talk, Reader, Requests, Late
      <4> QED BY <2>1, <3>1, <4>1, <4>2 DEF Talk
    <3>8. CASE \/ HandlerReset(c) \/ HandlerFind(c) \/ HandlerUnlink(c)
               \/ HandlerLoad(c) \/ HandlerStore(c) \/ HandlerPost(c)
      <4>1. /\ spc[c] \in {"reset"} \cup Late /\ spc'[c] \in Late \cup {"ended"}
            /\ UNCHANGED <<op, req, resp>>
        BY <1>0, <3>8 DEF HandlerReset, HandlerFind, HandlerUnlink, HandlerLoad,
             HandlerStore, HandlerPost, HandlerTo, clientVars, Late
      <4> QED BY <1>0, <2>1, <3>1, <4>1 DEF Talk, Late
    <3> QED BY <1>2, <2>4, <3>2, <3>3, <3>4, <3>5, <3>6, <3>7, <3>8 DEF HandlerStep
  <2> QED BY <2>3, <2>4
<1>3. CASE HostGreet
  <2>1. /\ hpc = "greet" /\ hpc' = "req" /\ hcl' = hcl /\ UNCHANGED <<spc, op, cpc, req>>
        /\ hcl \in Clients /\ spc[hcl] = "none"
    BY <1>0, <1>3 DEF HostGreet, HostTo, handlerVars
  <2>2. CASE c # hcl
    <3>1. resp'[c] = resp[c]
      BY <1>0, <1>3, <2>2 DEF HostGreet
    <3>2. Greeted(c)' <=> Greeted(c)
      BY <2>1, <2>2 DEF Greeted
    <3> QED BY <1>0, <2>1, <3>1, <3>2, TalkSame
  <2>3. CASE c = hcl
    <3>1. ~Greeted(c) /\ Greeted(c)' /\ spc'[c] = "none"
      BY <2>1, <2>3 DEF Greeted
    <3>2. /\ cpc[c] \in {"opening", "dead"}
          /\ req[c] = <<>> /\ resp[c] = <<>>
      BY <1>0, <2>1, <2>3, <3>1 DEF Talk, Late
    <3>3. CASE Reader(c)
      <4>1. resp'[c] = <<"connect">> /\ cpc[c] = "opening"
        BY <1>0, <1>3, <2>3, <3>2, <3>3, OneMessage DEF HostGreet, Reader, Requests
      <4> QED BY <2>1, <2>3, <3>1, <3>2, <4>1 DEF Talk
    <3>4. CASE ~Reader(c)
      <4>1. UNCHANGED resp
        BY <1>3, <2>3, <3>4 DEF HostGreet
      <4>2. cpc'[c] = "dead" /\ req'[c] = <<>> /\ resp'[c] = <<>>
        BY <2>1, <3>2, <3>4, <4>1 DEF Reader
      <4>3. Len(req'[c]) + Len(resp'[c]) <= 1
        BY <4>2, OneMessage
      <4> QED BY <3>1, <4>2, <4>3 DEF Talk
    <3> QED BY <3>3, <3>4
  <2> QED BY <2>2, <2>3
<1>4. CASE HostStart
  <2>1. /\ hpc = "start" /\ hpc' = "read" /\ hcl' = hcl /\ UNCHANGED <<op, cpc, req, resp>>
        /\ hcl \in Clients /\ spc[hcl] = "none"
        /\ spc'[hcl] = "open" /\ \A d \in Clients \ {hcl} : spc'[d] = spc[d]
    BY <1>0, <1>4 DEF HostStart, HostTo, clientVars
  <2>2. Greeted(c)' <=> Greeted(c)
    BY <2>1 DEF Greeted
  <2>3. CASE c # hcl
    BY <1>0, <2>1, <2>2, <2>3, TalkSame
  <2>4. CASE c = hcl
    <3>1. Greeted(c) /\ spc[c] = "none" /\ hpc = "start" /\ spc'[c] = "open"
      BY <2>1, <2>4 DEF Greeted
    <3> QED BY <1>0, <2>1, <2>2, <3>1 DEF Talk, Late
  <2> QED BY <2>3, <2>4
<1>5. CASE HostOpenReq
  <2>1. /\ hpc = "req" /\ hpc' = "start" /\ hcl' = hcl /\ Writer(hcl)
        /\ UNCHANGED <<spc, op, cpc, req, resp>>
    BY <1>5 DEF HostOpenReq, HostTo, handlerVars, clientVars
  <2>2. Greeted(c)' <=> Greeted(c)
    BY <2>1 DEF Greeted
  <2> QED BY <1>0, <2>1, <2>2 DEF Talk, Writer, Requests
<1>6. CASE HostOpenResp
  <2>1. /\ hpc = "resp" /\ hpc' = "greet" /\ hcl' = hcl /\ Reader(hcl)
        /\ UNCHANGED <<spc, op, cpc, req, resp>>
    BY <1>6 DEF HostOpenResp, HostTo, handlerVars, clientVars
  <2>2. Greeted(c)' <=> Greeted(c)
    BY <2>1 DEF Greeted
  <2> QED BY <1>0, <2>1, <2>2 DEF Talk, Reader, Requests
<1>7. CASE HostStep /\ ~HostOpenResp /\ ~HostGreet /\ ~HostStart /\ ~HostOpenReq
  <2>1. UNCHANGED <<spc, op, cpc, req, resp>>
    BY <1>7 DEF HostStep, HostRead, HostWait, HostSlot, HostCheck, HostTail, HostLink,
         HostLoad, HostStore, HostPost, handlerVars, clientVars
  <2>2. hpc \notin {"greet", "req", "start"} /\ hpc' \notin {"greet", "req", "start"}
    BY <1>7 DEF HostStep, HostRead, HostWait, HostSlot, HostCheck, HostTail, HostLink,
         HostLoad, HostStore, HostPost, HostTo
  <2>3. Greeted(c)' <=> Greeted(c)
    BY <2>1, <2>2 DEF Greeted
  <2> QED BY <1>0, <2>1, <2>2, <2>3, TalkSame
<1>8. CASE UNCHANGED vars
  BY <1>0, <1>8, TalkSame DEF vars, hostVars, handlerVars, clientVars, Greeted
<1> QED BY <1>1, <1>2, <1>3, <1>4, <1>5, <1>6, <1>7, <1>8 DEF Next

\* Every variable of the sessions keeps to its type.
THEOREM SessionsTypeCorrect == Spec => []TypeOK
<1>1. Inv => TypeOK
  BY DEF Inv
<1> QED BY Invariant, <1>1, PTL

\* find_free_thread_slot never fails after sem_wait: the branch that would lose
\* the token is dead code as long as SIGUSR1 does not reset the semaphore.
THEOREM SlotAlwaysAvailable == Spec => []SlotAvailable
BY Invariant, SlotFree, PTL

\* No two sessions share a slot, and none in use is marked free.
THEOREM SlotsExclusive == Spec => []SlotExclusive
<1>1. Inv => SlotExclusive
  BY DEF Inv, SlotInv
<1> QED BY Invariant, <1>1, PTL

\* One request and one answer at a time pass between a client and its handler,
\* and an answer is that of the request the client waits for, whoever is killed.
THEOREM AnswersMatch == Spec => []AnswerMatches
<1>1. Init => TalkInv
  BY DEF Init, TalkInv, Talk, Greeted
<1>2. Inv /\ TalkInv /\ [Next]_vars => TalkInv'
  BY StepTalk DEF Inv
<1>3. TalkInv => AnswerMatches
  <2> SUFFICES ASSUME TalkInv, NEW c \in Clients
               PROVE  /\ Len(req[c]) + Len(resp[c]) <= 1
                      /\ resp[c] # <<>> /\ cpc[c] \notin {"dead"}
                         => Head(resp[c]) = IF cpc[c] = "opening" THEN "connect" ELSE cpc[c]
    BY DEF AnswerMatches
  <2>1. Talk(c)
    BY DEF TalkInv
  <2>2. resp[c] # <<>> /\ cpc[c] # "dead"
        => resp[c] = <<IF cpc[c] = "opening" THEN "connect" ELSE cpc[c]>>
    BY <2>1 DEF Talk, Requests
  <2> QED BY <2>1, <2>2, TalkLen, OneMessage
<1> QED BY Invariant, <1>1, <1>2, <1>3, PTL DEF Spec

\* Sessions implements Admission: at most S clients inside, in the order of
\* their messages.
THEOREM AdmissionCorrect == Spec => Admitted
<1>1. Init => Gate!AdmissionInit
  <2> SUFFICES ASSUME Init PROVE Gate!AdmissionInit
    OBVIOUS
  <2>1. Holders = {} /\ Queue = <<>>
    BY DEF Init, Holders, Holding, Queue
  <2> QED BY <2>1 DEF Gate!AdmissionInit
<1>2. Inv /\ [Next]_vars => [Gate!AdmissionNext]_(Gate!admission)
  <2> SUFFICES ASSUME Inv, [Next]_vars PROVE [Gate!AdmissionNext]_(Gate!admission)
    OBVIOUS
  <2>1. CASE Same
    BY <2>1 DEF Same, Gate!admission
  <2>2. CASE Enters
    <3>1. Cardinality(Holders) < S
      BY <2>2, HoldersFinite, SAssumption DEF Inv, TokenInv, Enters
    <3>2. Gate!Cardinality(Holders) = Cardinality(Holders)
      BY DEF Gate!Cardinality, Cardinality
    <3> QED BY <2>2, <3>1, <3>2 DEF Enters, Gate!AdmissionNext, Gate!Admit
  <2>3. ASSUME NEW c \in Clients, Arrives(c) PROVE Gate!AdmissionNext
    BY <2>3 DEF Arrives, Gate!AdmissionNext, Gate!Arrive
  <2>4. ASSUME NEW c \in Clients, Leaves(c) PROVE Gate!AdmissionNext
    BY <2>4 DEF Leaves, Gate!AdmissionNext, Gate!Leave
  <2> QED BY <2>1, <2>2, <2>3, <2>4, StepHolders
<1> QED BY Invariant, <1>1, <1>2, PTL DEF Spec, Admitted, Gate!AdmissionSpec
=============================================================================
