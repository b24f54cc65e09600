----------------------------- MODULE Admission -----------------------------
(***************************************************************************)
(* What the server promises to the clients that connect: they are admitted *)
(* in the order in which they ask, never more than S at a time, and one    *)
(* that asks while S are inside waits.  Sessions implements this.          *)
(***************************************************************************)
EXTENDS Integers, Sequences, FiniteSets

CONSTANTS Clients, S

VARIABLES queue,      \* the clients that have asked, the next one first
          inside      \* the clients that hold one of the S places

admission == <<queue, inside>>

AdmissionInit == queue = <<>> /\ inside = {}

Arrive(c) == queue' = Append(queue, c) /\ UNCHANGED inside

Admit ==
    /\ queue # <<>> /\ Cardinality(inside) < S
    /\ inside' = inside \cup {Head(queue)}
    /\ queue' = Tail(queue)

Leave(c) == c \in inside /\ inside' = inside \ {c} /\ UNCHANGED queue

AdmissionNext == Admit \/ \E c \in Clients : Arrive(c) \/ Leave(c)

AdmissionSpec == AdmissionInit /\ [][AdmissionNext]_admission
=============================================================================
