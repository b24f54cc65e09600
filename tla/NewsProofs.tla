----------------------------- MODULE NewsProofs -----------------------------
(***************************************************************************)
(* Proofs about the subscriptions of Store: who is subscribed, and what    *)
(* each client was told, while the notification loops of the jobs and the  *)
(* handlers change the lists, for any keys, clients, jobs and commands.    *)
(* They rest on three invariants: each cell is in one place of one list    *)
(* (CellsInv), the loop of a WRITE stands at a cell of the list of its key *)
(* (WalkInv), and a subscriber who has not been told of the value of its   *)
(* key is ahead of that loop (NewsInv).  With one job a fourth holds:      *)
(* whoever was last told of a value is still a subscriber, and ahead of    *)
(* the loop of the DELETE that is about to remove the key (BeliefInv).     *)
(***************************************************************************)
EXTENDS StoreProofs

\* The cells of the lists are in use and each is in one place; a key that is
\* not there has no list.
CellsInv ==
    /\ \A k \in Keys : \A p \in 1..Len(subs[k]) : who[subs[k][p]] \in Clients
    /\ \A k, l \in Keys : \A p \in 1..Len(subs[k]), q \in 1..Len(subs[l]) :
         subs[k][p] = subs[l][q] => k = l /\ p = q
    /\ \A k \in Keys : value[k] = Absent => subs[k] = <<>>

\* Job j tells the subscribers of k what it has written.
Telling(j, k) == pc[j] \in Walks /\ Op(j) = "WRITE" /\ Key(j) = k

\* Job j is about to remove k, and may be telling somebody.
Removing(j, k) == pc[j] \in Walks \cup {"wrlock", "drop"} /\ Op(j) = "DELETE" /\ Key(j) = k

\* A WRITE in its notification loop stands at a cell of the list of its key.
WalkOf(j) ==
    pc[j] \in Walks /\ Op(j) = "WRITE" =>
        /\ value[Key(j)] = cmd[j].vals[idx[j]]
        /\ \E p \in 1..Len(subs[Key(j)]) : subs[Key(j)][p] = ptr[j]
        /\ pc[j] = "write" => fd[j] = who[ptr[j]]
WalkInv == \A j \in Jobs : WalkOf(j)

\* The loop of job j has still to come to a cell of client c in the list of k.
Ahead(j, c, k) ==
    \/ pc[j] = "broken"
    \/ \E p, q \in 1..Len(subs[k]) :
         /\ subs[k][p] = ptr[j] /\ who[subs[k][q]] = c
         /\ q > p \/ (q = p /\ pc[j] # "next")

\* A subscriber that has not been told of the value of its key is about to be,
\* unless the key is about to be removed.
NewsOf(c, k) ==
    c \in Subscribers(k) /\ (\A j \in Jobs : ~Removing(j, k))
    => \/ told[c][k] \in {NoNews, Lost, value[k]}
       \/ \E j \in Jobs : Telling(j, k) /\ Ahead(j, c, k)
NewsInv == \A c \in Clients, k \in Keys : NewsOf(c, k)

-----------------------------------------------------------------------------
(* The lists of cells                                                      *)

\* t is a part of the list s: what is left of it without one cell, or without
\* its end, or all of it.
Thinned(t, s) ==
    \E p \in 1..(Len(s) + 1) : \A i \in 1..Len(t) :
        IF i < p THEN i <= Len(s) /\ t[i] = s[i]
        ELSE i + 1 <= Len(s) /\ t[i] = s[i + 1]

\* A list without one cell has all the others in their order.
LEMMA RemoveAtCells ==
    ASSUME NEW s \in Seq(Cells), NEW p \in 1..Len(s)
    PROVE  LET t == RemoveAt(s, p) IN
             /\ Len(t) = Len(s) - 1
             /\ \A i \in 1..Len(t) : t[i] = IF i < p THEN s[i] ELSE s[i + 1]
<1> DEFINE a == SubSeq(s, 1, p - 1)
           b == SubSeq(s, p + 1, Len(s))
<1>0. Len(s) \in Nat /\ \A i \in 1..Len(s) : s[i] \in Cells
  BY LenProperties, ElementOfSeq
<1>1. a \in Seq(Cells) /\ Len(a) = p - 1 /\ \A i \in 1..(p - 1) : a[i] = s[i]
  <2>1. \A i \in 1..(p - 1) : s[i] \in Cells
    BY <1>0
  <2>2. /\ a \in Seq(Cells)
        /\ Len(a) = IF 1 <= p - 1 THEN p - 1 - 1 + 1 ELSE 0
        /\ \A i \in 1..(p - 1 - 1 + 1) : a[i] = s[1 + i - 1]
    BY <1>0, <2>1, SubSeqProperties
  <2> QED BY <1>0, <2>2
<1>2. /\ b \in Seq(Cells) /\ Len(b) = Len(s) - p
      /\ \A i \in 1..(Len(s) - p) : b[i] = s[p + i]
  <2>1. \A i \in (p + 1)..Len(s) : s[i] \in Cells
    BY <1>0
  <2>2. /\ b \in Seq(Cells)
        /\ Len(b) = IF p + 1 <= Len(s) THEN Len(s) - (p + 1) + 1 ELSE 0
        /\ \A i \in 1..(Len(s) - (p + 1) + 1) : b[i] = s[p + 1 + i - 1]
    BY <1>0, <2>1, SubSeqProperties
  <2> QED BY <1>0, <2>2
<1> HIDE DEF a, b
<1>3. /\ Len(a \o b) = Len(a) + Len(b)
      /\ \A i \in 1..(Len(a) + Len(b)) :
           (a \o b)[i] = IF i <= Len(a) THEN a[i] ELSE b[i - Len(a)]
  BY <1>1, <1>2, ConcatProperties
<1>4. Len(a \o b) = Len(s) - 1
  BY <1>0, <1>1, <1>2, <1>3
<1>5. ASSUME NEW i \in 1..(Len(s) - 1)
      PROVE  (a \o b)[i] = IF i < p THEN s[i] ELSE s[i + 1]
  <2>1. CASE i < p
    BY <1>0, <1>1, <1>2, <1>3, <2>1
  <2>2. CASE ~(i < p)
    <3>1. (a \o b)[i] = b[i - (p - 1)]
      BY <1>0, <1>1, <1>2, <1>3, <2>2
    <3>2. i - (p - 1) \in 1..(Len(s) - p) /\ p + (i - (p - 1)) = i + 1
      BY <1>0, <2>2
    <3> QED BY <1>2, <2>2, <3>1, <3>2
  <2> QED BY <2>1, <2>2
<1> QED BY <1>4, <1>5 DEF RemoveAt, a, b

\* Without takes at most one cell out of a list, and none of another client.
LEMMA WithoutCells ==
    ASSUME NEW s \in Seq(Cells), NEW c
    PROVE  /\ Thinned(Without(s, c), s)
           /\ \A q \in 1..Len(s) : who[s[q]] # c =>
                \E i \in 1..Len(Without(s, c)) : Without(s, c)[i] = s[q]
<1>0. Len(s) \in Nat
  BY LenProperties
<1>1. CASE \E p \in 1..Len(s) : IsFirst(s, c, p)
  <2> DEFINE p == CHOOSE r \in 1..Len(s) : IsFirst(s, c, r)
             t == RemoveAt(s, p)
  <2>1. p \in 1..Len(s) /\ IsFirst(s, c, p)
    BY <1>1
  <2>2. Without(s, c) = t
    BY <1>1 DEF Without
  <2> HIDE DEF p
  <2>3. Len(t) = Len(s) - 1 /\ \A i \in 1..Len(t) : t[i] = IF i < p THEN s[i] ELSE s[i + 1]
    BY <2>1, RemoveAtCells
  <2> HIDE DEF t
  <2>4. Thinned(t, s)
    <3>1. p \in 1..(Len(s) + 1)
      BY <1>0, <2>1
    <3>2. \A i \in 1..Len(t) : i <= Len(s) /\ i + 1 <= Len(s)
      BY <1>0, <2>3
    <3> QED BY <2>3, <3>1, <3>2 DEF Thinned
  <2>5. ASSUME NEW q \in 1..Len(s), who[s[q]] # c
        PROVE  \E i \in 1..Len(t) : t[i] = s[q]
    <3>1. q # p
      BY <2>1, <2>5 DEF IsFirst
    <3>2. CASE q < p
      <4>1. q \in 1..Len(t) /\ t[q] = s[q]
        BY <1>0, <2>1, <2>3, <3>2
      <4> QED BY <4>1
    <3>3. CASE q > p
      <4>1. q - 1 \in 1..Len(t) /\ ~(q - 1 < p) /\ q - 1 + 1 = q
        BY <1>0, <2>1, <2>3, <3>3
      <4>2. t[q - 1] = s[q]
        BY <2>3, <4>1
      <4> QED BY <4>1, <4>2
    <3> QED BY <1>0, <2>1, <3>1, <3>2, <3>3
  <2> QED BY <2>2, <2>4, <2>5
<1>2. CASE ~ \E p \in 1..Len(s) : IsFirst(s, c, p)
  <2>1. Without(s, c) = s
    BY <1>2 DEF Without
  <2>2. Len(s) + 1 \in 1..(Len(s) + 1) /\ \A i \in 1..Len(s) : i < Len(s) + 1 /\ i <= Len(s)
    BY <1>0
  <2>3. Thinned(s, s)
    BY <2>2 DEF Thinned
  <2> QED BY <2>1, <2>3
<1> QED BY <1>1, <1>2

\* An empty list and the list itself are parts of it.
LEMMA ThinnedEnds ==
    ASSUME NEW s \in Seq(Cells)
    PROVE  Thinned(<<>>, s) /\ Thinned(s, s)
<1>1. Len(s) \in Nat /\ Len(<<>>) = 0
  BY LenProperties, EmptySeq
<1>2. /\ Len(s) + 1 \in 1..(Len(s) + 1) /\ \A i \in 1..Len(s) : i < Len(s) + 1 /\ i <= Len(s)
      /\ 1..Len(<<>>) = {}
  BY <1>1
<1> QED BY <1>2 DEF Thinned

\* What thinning the lists does to their cells and to the subscribers.
LEMMA SetListsCells ==
    ASSUME TypeOK, CellsInv, NEW lists \in [Keys -> Seq(Cells)], SetLists(lists),
           \A k \in Keys : Thinned(lists[k], subs[k])
    PROVE  /\ subs' = lists
           /\ \A k \in Keys : \A p \in 1..Len(lists[k]) :
                /\ who'[lists[k][p]] = who[lists[k][p]] /\ who'[lists[k][p]] \in Clients
                /\ \E q \in 1..Len(subs[k]) : lists[k][p] = subs[k][q]
           /\ \A k, l \in Keys : \A p \in 1..Len(lists[k]), q \in 1..Len(lists[l]) :
                lists[k][p] = lists[l][q] => k = l /\ p = q
           /\ \A k \in Keys : Subscribers(k)' \subseteq Subscribers(k)
<1>0. /\ subs \in [Keys -> Seq(Cells)] /\ who \in [Cells -> Clients \cup {Nobody}]
      /\ \A k \in Keys : Len(subs[k]) \in Nat /\ Len(lists[k]) \in Nat
      /\ \A k \in Keys : \A p \in 1..Len(lists[k]) : lists[k][p] \in Cells
  BY LenProperties, ElementOfSeq DEF TypeOK, TableType
<1>1. subs' = lists
  BY DEF SetLists
<1>2. ASSUME NEW k \in Keys, NEW p \in 1..Len(lists[k])
      PROVE  \E q \in {p, p + 1} : q \in 1..Len(subs[k]) /\ lists[k][p] = subs[k][q]
  BY <1>0 DEF Thinned
<1>3. ASSUME NEW k \in Keys, NEW p \in 1..Len(lists[k])
      PROVE  /\ who'[lists[k][p]] = who[lists[k][p]] /\ who'[lists[k][p]] \in Clients
             /\ \E q \in 1..Len(subs[k]) : lists[k][p] = subs[k][q]
  <2>1. PICK q \in 1..Len(subs[k]) : lists[k][p] = subs[k][q]
    BY <1>2
  <2>2. who'[lists[k][p]] = who[lists[k][p]]
    BY <1>0 DEF SetLists
  <2>3. who[lists[k][p]] \in Clients
    BY <2>1 DEF CellsInv
  <2> QED BY <2>1, <2>2, <2>3
<1>4. ASSUME NEW k \in Keys, NEW l \in Keys,
             NEW p \in 1..Len(lists[k]), NEW q \in 1..Len(lists[l]),
             lists[k][p] = lists[l][q]
      PROVE  k = l /\ p = q
  <2>1. k = l
    <3>1. PICK x \in 1..Len(subs[k]) : lists[k][p] = subs[k][x]
      BY <1>2
    <3>2. PICK y \in 1..Len(subs[l]) : lists[l][q] = subs[l][y]
      BY <1>2
    <3>3. subs[k][x] = subs[l][y]
      BY <1>4, <3>1, <3>2
    <3> QED BY <3>3 DEF CellsInv
  <2>2. \A x, y \in 1..Len(subs[k]) : subs[k][x] = subs[k][y] => x = y
    BY DEF CellsInv
  <2>3. PICK r \in 1..(Len(subs[k]) + 1) : \A i \in 1..Len(lists[k]) :
          IF i < r THEN i <= Len(subs[k]) /\ lists[k][i] = subs[k][i]
          ELSE i + 1 <= Len(subs[k]) /\ lists[k][i] = subs[k][i + 1]
    BY DEF Thinned
  <2>4. q \in 1..Len(lists[k]) /\ lists[k][p] = lists[k][q]
    BY <1>4, <2>1
  <2>5. CASE p < r /\ q < r
    <3>1. p \in 1..Len(subs[k]) /\ q \in 1..Len(subs[k]) /\ subs[k][p] = subs[k][q]
      BY <1>0, <2>3, <2>4, <2>5
    <3> QED BY <2>1, <2>2, <3>1
  <2>6. CASE p < r /\ ~(q < r)
    <3>1. p \in 1..Len(subs[k]) /\ q + 1 \in 1..Len(subs[k]) /\ subs[k][p] = subs[k][q + 1]
      BY <1>0, <2>3, <2>4, <2>6
    <3>2. p = q + 1
      BY <2>2, <3>1
    <3> QED BY <1>0, <2>4, <2>6, <3>2
  <2>7. CASE ~(p < r) /\ q < r
    <3>1. q \in 1..Len(subs[k]) /\ p + 1 \in 1..Len(subs[k]) /\ subs[k][q] = subs[k][p + 1]
      BY <1>0, <2>3, <2>4, <2>7
    <3>2. q = p + 1
      BY <2>2, <3>1
    <3> QED BY <1>0, <2>4, <2>7, <3>2
  <2>8. CASE ~(p < r) /\ ~(q < r)
    <3>1. /\ p + 1 \in 1..Len(subs[k]) /\ q + 1 \in 1..Len(subs[k])
          /\ subs[k][p + 1] = subs[k][q + 1]
      BY <1>0, <2>3, <2>4, <2>8
    <3>2. p + 1 = q + 1
      BY <2>2, <3>1
    <3>3. p \in Int /\ q \in Int
      BY <1>0
    <3> QED BY <2>1, <3>2, <3>3
  <2> QED BY <2>1, <2>5, <2>6, <2>7, <2>8
<1>5. ASSUME NEW k \in Keys PROVE Subscribers(k)' \subseteq Subscribers(k)
  BY <1>1, <1>3, SMTT(30) DEF Subscribers
<1> QED BY <1>1, <1>3, <1>4, <1>5

-----------------------------------------------------------------------------
(* The steps                                                               *)

\* The steps of a job that change the lists, or the pairs under them.
LEMMA JobLists ==
    ASSUME NEW j \in Jobs, JobStep(j) \/ \E c \in Commands : run_job(j, c)
    PROVE  Overwrite(j) \/ NewPair(j) \/ Drop(j) \/ UNCHANGED <<value, subs, who>>
BY DEF JobStep, run_job, Wrlock, Find, OpenNotif, WriteNotif, BrokenPipe, NextCell,
   DanglingCell, WildHead, Rdlock, LookUp, Fork, Unlock, tableVars

\* The steps of anybody that change the lists, or the pairs under them, and the others.
LEMMA ListSteps ==
    ASSUME [Next]_vars
    PROVE  \/ UNCHANGED <<value, subs, who>>
           \/ \E j \in Jobs : Overwrite(j) \/ NewPair(j) \/ Drop(j)
           \/ \E c \in Clients, k \in Keys : kvs_subscribe(c, k) \/ kvs_unsubscribe(c, k)
           \/ \E c \in Clients : kvs_disconnect_client(c)
           \/ delete_all_subscriptions
<1>1. ASSUME NEW j \in Jobs, JobStep(j)
      PROVE  Overwrite(j) \/ NewPair(j) \/ Drop(j) \/ UNCHANGED <<value, subs, who>>
  BY <1>1, JobLists
<1>2. ASSUME NEW c \in Clients, Connect(c) \/ Listen(c) \/ Gone(c)
      PROVE  UNCHANGED <<value, subs, who>>
  BY <1>2 DEF Connect, Listen, Gone, tableVars
<1>3. HandlerWildHead => UNCHANGED <<value, subs, who>>
  BY DEF HandlerWildHead, tableVars
<1>4. ASSUME NEW j \in Jobs, NEW c \in Commands, run_job(j, c)
      PROVE  UNCHANGED <<value, subs, who>>
  BY <1>4 DEF run_job, tableVars
<1>5. UNCHANGED vars => UNCHANGED <<value, subs, who>>
  BY DEF vars, tableVars
<1> QED BY <1>1, <1>2, <1>3, <1>4, <1>5 DEF Next, ClientStep

\* The lists that DELETE and the handlers set are parts of what they were.
LEMMA SetListsSteps ==
    ASSUME TypeOK, ControlInv
    PROVE  /\ \A j \in Jobs : Drop(j) =>
                \E L \in [Keys -> Seq(Cells)] :
                   /\ SetLists(L) /\ L = [subs EXCEPT ![Key(j)] = <<>>]
                   /\ \A k \in Keys : Thinned(L[k], subs[k])
           /\ \A c \in Clients, k \in Keys : kvs_unsubscribe(c, k) =>
                \E L \in [Keys -> Seq(Cells)] :
                   /\ SetLists(L) /\ L = [subs EXCEPT ![k] = Without(subs[k], c)]
                   /\ \A l \in Keys : Thinned(L[l], subs[l])
           /\ \A c \in Clients : kvs_disconnect_client(c) =>
                \E L \in [Keys -> Seq(Cells)] :
                   /\ SetLists(L) /\ L = [k \in Keys |-> Without(subs[k], c)]
                   /\ \A k \in Keys : Thinned(L[k], subs[k])
           /\ delete_all_subscriptions =>
                \E L \in [Keys -> Seq(Cells)] :
                   /\ SetLists(L) /\ L = [k \in Keys |-> <<>>]
                   /\ \A k \in Keys : Thinned(L[k], subs[k])
<1>0. /\ subs \in [Keys -> Seq(Cells)] /\ <<>> \in Seq(Cells)
      /\ \A k \in Keys : Thinned(<<>>, subs[k]) /\ Thinned(subs[k], subs[k])
      /\ \A k \in Keys, c \in Clients :
           Without(subs[k], c) \in Seq(Cells) /\ Thinned(Without(subs[k], c), subs[k])
  BY EmptySeq, ThinnedEnds, WithoutType, WithoutCells DEF TypeOK, TableType
<1>1. ASSUME NEW j \in Jobs, Drop(j)
      PROVE  \E L \in [Keys -> Seq(Cells)] :
                /\ SetLists(L) /\ L = [subs EXCEPT ![Key(j)] = <<>>]
                /\ \A k \in Keys : Thinned(L[k], subs[k])
  <2> DEFINE L == [subs EXCEPT ![Key(j)] = <<>>]
  <2>1. L \in [Keys -> Seq(Cells)] /\ \A k \in Keys : Thinned(L[k], subs[k])
    BY <1>0
  <2>2. SetLists(L)
    BY <1>1 DEF Drop
  <2> QED BY <2>1, <2>2
<1>2. ASSUME NEW c \in Clients, NEW k \in Keys, kvs_unsubscribe(c, k)
      PROVE  \E L \in [Keys -> Seq(Cells)] :
                /\ SetLists(L) /\ L = [subs EXCEPT ![k] = Without(subs[k], c)]
                /\ \A l \in Keys : Thinned(L[l], subs[l])
  <2> DEFINE L == [subs EXCEPT ![k] = Without(subs[k], c)]
  <2>1. L \in [Keys -> Seq(Cells)] /\ \A l \in Keys : Thinned(L[l], subs[l])
    BY <1>0
  <2>2. SetLists(L)
    BY <1>2 DEF kvs_unsubscribe
  <2> QED BY <2>1, <2>2
<1>3. ASSUME NEW c \in Clients, kvs_disconnect_client(c)
      PROVE  \E L \in [Keys -> Seq(Cells)] :
                /\ SetLists(L) /\ L = [k \in Keys |-> Without(subs[k], c)]
                /\ \A k \in Keys : Thinned(L[k], subs[k])
  <2> DEFINE L == [k \in Keys |-> Without(subs[k], c)]
  <2>1. L \in [Keys -> Seq(Cells)] /\ \A k \in Keys : Thinned(L[k], subs[k])
    BY <1>0
  <2>2. SetLists(L)
    BY <1>3 DEF kvs_disconnect_client
  <2> QED BY <2>1, <2>2
<1>4. ASSUME delete_all_subscriptions
      PROVE  \E L \in [Keys -> Seq(Cells)] :
                /\ SetLists(L) /\ L = [k \in Keys |-> <<>>]
                /\ \A k \in Keys : Thinned(L[k], subs[k])
  <2> DEFINE L == [k \in Keys |-> <<>>]
  <2>1. L \in [Keys -> Seq(Cells)] /\ \A k \in Keys : Thinned(L[k], subs[k])
    BY <1>0
  <2>2. SetLists(L)
    BY <1>4 DEF delete_all_subscriptions
  <2> QED BY <2>1, <2>2
<1> QED BY <1>1, <1>2, <1>3, <1>4

\* What a SUBSCRIBE does to the lists: one more cell, that was free, at the end.
LEMMA SubscribeCells ==
    ASSUME TypeOK, CellsInv, NEW c \in Clients, NEW k \in Keys, kvs_subscribe(c, k),
           value[k] # Absent
    PROVE  \E x \in FreeCells :
             /\ who' = [who EXCEPT ![x] = c]
             /\ \A l \in Keys \ {k} : subs'[l] = subs[l]
             /\ Len(subs'[k]) = Len(subs[k]) + 1 /\ subs'[k][Len(subs[k]) + 1] = x
             /\ \A p \in 1..Len(subs[k]) : subs'[k][p] = subs[k][p]
             /\ \A l \in Keys : \A p \in 1..Len(subs[l]) :
                  subs[l][p] # x /\ who'[subs[l][p]] = who[subs[l][p]]
<1>0. /\ subs \in [Keys -> Seq(Cells)] /\ who \in [Cells -> Clients \cup {Nobody}]
      /\ \A l \in Keys : \A p \in 1..Len(subs[l]) : subs[l][p] \in Cells
  BY ElementOfSeq DEF TypeOK, TableType
<1>1. PICK x \in FreeCells : /\ who' = [who EXCEPT ![x] = c]
                             /\ subs' = [subs EXCEPT ![k] = Append(subs[k], x)]
  BY DEF kvs_subscribe
<1>2. x \in Cells /\ who[x] = Nobody
  BY DEF FreeCells
<1>3. /\ subs'[k] = Append(subs[k], x) /\ \A l \in Keys \ {k} : subs'[l] = subs[l]
  BY <1>0, <1>1
<1>4. /\ Len(subs'[k]) = Len(subs[k]) + 1 /\ subs'[k][Len(subs[k]) + 1] = x
      /\ \A p \in 1..Len(subs[k]) : subs'[k][p] = subs[k][p]
  BY <1>0, <1>2, <1>3, AppendProperties
<1>5. ASSUME NEW l \in Keys, NEW p \in 1..Len(subs[l])
      PROVE  subs[l][p] # x /\ who'[subs[l][p]] = who[subs[l][p]]
  <2>1. who[subs[l][p]] # Nobody
    BY NoneAssumption DEF CellsInv
  <2> QED BY <1>0, <1>1, <1>2, <2>1
<1> QED BY <1>1, <1>3, <1>4, <1>5

\* Every step keeps the lists in order.
LEMMA StepCells ==
    ASSUME TypeOK, ControlInv, CellsInv, [Next]_vars
    PROVE  CellsInv'
<1>0. /\ subs \in [Keys -> Seq(Cells)] /\ value \in [Keys -> Values \cup {Absent}]
      /\ \A k \in Keys : Len(subs[k]) \in Nat
  BY LenProperties DEF TypeOK, TableType
<1>1. CASE UNCHANGED <<value, subs, who>>
  BY <1>1 DEF CellsInv
<1>2. ASSUME NEW j \in Jobs, Overwrite(j) \/ NewPair(j) PROVE CellsInv'
  <2>1. UNCHANGED <<subs, who>>
    BY <1>2 DEF Overwrite, NewPair
  <2>2. \A k \in Keys : value'[k] = Absent => value[k] = Absent
    <3>1. Op(j) = "WRITE" /\ pc[j] # "idle"
      BY <1>2 DEF Overwrite, NewPair, ControlInv, ControlOf
    <3>2. cmd[j].vals[idx[j]] \in Values
      BY <3>1, BusyFacts
    <3> QED BY <1>0, <1>2, <3>2, NoValueAssumption DEF Overwrite, NewPair
  <2> QED BY <2>1, <2>2 DEF CellsInv
<1>3. ASSUME NEW L \in [Keys -> Seq(Cells)], SetLists(L),
             \A k \in Keys : Thinned(L[k], subs[k]),
             \A k \in Keys : value'[k] = Absent => value[k] = Absent \/ L[k] = <<>>
      PROVE  CellsInv'
  <2>1. \A k \in Keys : value'[k] = Absent => L[k] = <<>>
    <3> SUFFICES ASSUME NEW k \in Keys, value[k] = Absent PROVE L[k] = <<>>
      BY <1>3
    <3>1. Len(subs[k]) = 0
      BY EmptySeq DEF CellsInv
    <3>2. L[k] \in Seq(Cells) /\ Len(L[k]) \in Nat
      BY LenProperties
    <3>3. ~(1 \in 1..Len(L[k]))
      BY <1>3, <3>1 DEF Thinned
    <3> QED BY <3>2, <3>3, EmptySeq
  <2> QED BY <1>3, <2>1, SetListsCells, SMTT(30) DEF CellsInv
<1>4. ASSUME NEW j \in Jobs, Drop(j) PROVE CellsInv'
  <2>1. Key(j) \in Keys /\ value' = [value EXCEPT ![Key(j)] = Absent]
    BY <1>4, BusyFacts DEF Drop
  <2>2. PICK L \in [Keys -> Seq(Cells)] :
           /\ SetLists(L) /\ L = [subs EXCEPT ![Key(j)] = <<>>]
           /\ \A k \in Keys : Thinned(L[k], subs[k])
    BY <1>4, SetListsSteps
  <2>3. \A k \in Keys : value'[k] = Absent => value[k] = Absent \/ L[k] = <<>>
    BY <1>0, <2>1, <2>2
  <2> QED BY <1>3, <2>2, <2>3
<1>5. ASSUME NEW c \in Clients, NEW k \in Keys, kvs_unsubscribe(c, k) PROVE CellsInv'
  BY <1>3, <1>5, SetListsSteps DEF kvs_unsubscribe
<1>6. ASSUME NEW c \in Clients, kvs_disconnect_client(c) PROVE CellsInv'
  BY <1>3, <1>6, SetListsSteps DEF kvs_disconnect_client
<1>7. CASE delete_all_subscriptions
  BY <1>3, <1>7, SetListsSteps DEF delete_all_subscriptions
<1>8. ASSUME NEW c \in Clients, NEW k \in Keys, kvs_subscribe(c, k) PROVE CellsInv'
  <2>0. UNCHANGED value
    BY <1>8 DEF kvs_subscribe
  <2>1. CASE value[k] = Absent
    BY <1>8, <2>0, <2>1 DEF kvs_subscribe, CellsInv
  <2>2. CASE value[k] # Absent
    <3>1. PICK x \in FreeCells :
             /\ who' = [who EXCEPT ![x] = c]
             /\ \A l \in Keys \ {k} : subs'[l] = subs[l]
             /\ Len(subs'[k]) = Len(subs[k]) + 1 /\ subs'[k][Len(subs[k]) + 1] = x
             /\ \A p \in 1..Len(subs[k]) : subs'[k][p] = subs[k][p]
             /\ \A l \in Keys : \A p \in 1..Len(subs[l]) :
                  subs[l][p] # x /\ who'[subs[l][p]] = who[subs[l][p]]
      BY <1>8, <2>2, SubscribeCells
    <3>2. who'[x] = c
      BY <3>1 DEF FreeCells, TypeOK, TableType
    <3>3. \A l \in Keys : \A p \in 1..Len(subs'[l]) :
            \/ p \in 1..Len(subs[l]) /\ subs'[l][p] = subs[l][p]
            \/ l = k /\ p = Len(subs[k]) + 1 /\ subs'[l][p] = x
      BY <1>0, <3>1
    <3>4. \A l \in Keys : \A p \in 1..Len(subs'[l]) : who'[subs'[l][p]] \in Clients
      BY <3>1, <3>2, <3>3 DEF CellsInv
    <3>5. ASSUME NEW l \in Keys, NEW m \in Keys,
                 NEW p \in 1..Len(subs'[l]), NEW q \in 1..Len(subs'[m]),
                 subs'[l][p] = subs'[m][q]
          PROVE  l = m /\ p = q
      BY <3>1, <3>3, <3>5 DEF CellsInv
    <3>6. \A l \in Keys : value'[l] = Absent => subs'[l] = <<>>
      BY <2>0, <2>2, <3>1 DEF CellsInv
    <3> QED BY <3>4, <3>5, <3>6 DEF CellsInv
  <2> QED BY <2>1, <2>2
<1> QED BY <1>1, <1>2, <1>4, <1>5, <1>6, <1>7, <1>8, ListSteps

-----------------------------------------------------------------------------
(* Subscriptions                                                           *)

\* The cells that stay in a list keep their clients.
LEMMA SetListsWho ==
    ASSUME TypeOK, CellsInv, NEW lists \in [Keys -> Seq(Cells)], SetLists(lists),
           \A k \in Keys : Thinned(lists[k], subs[k]),
           NEW k \in Keys, NEW p \in 1..Len(lists[k])
    PROVE  subs' = lists /\ who'[lists[k][p]] = who[lists[k][p]]
BY SetListsCells

\* Who leaves a list of subscribers.
LEMMA StepKept ==
    ASSUME TypeOK, ControlInv, CellsInv, [Next]_vars,
           NEW c \in Clients, NEW k \in Keys, c \in Subscribers(k), c \notin Subscribers(k)'
    PROVE  \/ value'[k] = Absent
           \/ kvs_unsubscribe(c, k) \/ kvs_disconnect_client(c)
           \/ delete_all_subscriptions
<1>0. /\ subs \in [Keys -> Seq(Cells)] /\ value \in [Keys -> Values \cup {Absent}]
      /\ \A l \in Keys : Len(subs[l]) \in Nat
  BY LenProperties DEF TypeOK, TableType
<1>1. PICK p \in 1..Len(subs[k]) : who[subs[k][p]] = c
  BY DEF Subscribers
<1>2. CASE UNCHANGED <<value, subs, who>>
  BY <1>2 DEF Subscribers
<1>3. ASSUME NEW j \in Jobs, Overwrite(j) \/ NewPair(j) PROVE FALSE
  BY <1>3 DEF Overwrite, NewPair, Subscribers
<1>4. ASSUME NEW j \in Jobs, Drop(j) PROVE value'[k] = Absent
  <2>1. Key(j) \in Keys /\ value' = [value EXCEPT ![Key(j)] = Absent]
    BY <1>4, BusyFacts DEF Drop
  <2>2. CASE Key(j) = k
    BY <1>0, <2>1, <2>2
  <2>3. CASE Key(j) # k
    <3>1. PICK L \in [Keys -> Seq(Cells)] :
             /\ SetLists(L) /\ L = [subs EXCEPT ![Key(j)] = <<>>]
             /\ \A l \in Keys : Thinned(L[l], subs[l])
      BY <1>4, SetListsSteps
    <3>2. subs'[k] = subs[k] /\ L[k] = subs[k]
      BY <1>0, <2>3, <3>1 DEF SetLists
    <3>3. p \in 1..Len(L[k])
      BY <3>2
    <3>4. who'[L[k][p]] = who[L[k][p]]
      BY <3>1, <3>3, SetListsWho
    <3> QED BY <1>1, <3>2, <3>4 DEF Subscribers
  <2> QED BY <2>2, <2>3
<1>5. ASSUME NEW d \in Clients, NEW L \in [Keys -> Seq(Cells)], SetLists(L),
             \A l \in Keys : Thinned(L[l], subs[l]),
             L[k] = subs[k] \/ (L[k] = Without(subs[k], d) /\ d # c)
      PROVE  FALSE
  <2>1. subs' = L /\ \A i \in 1..Len(L[k]) : who'[L[k][i]] = who[L[k][i]]
    BY <1>5, SetListsWho DEF SetLists
  <2>2. \E i \in 1..Len(L[k]) : L[k][i] = subs[k][p]
    BY <1>0, <1>1, <1>5, WithoutCells
  <2> QED BY <1>1, <2>1, <2>2 DEF Subscribers
<1>6. ASSUME NEW d \in Clients, NEW l \in Keys, kvs_unsubscribe(d, l)
      PROVE  d = c /\ l = k
  <2>1. PICK L \in [Keys -> Seq(Cells)] :
           /\ SetLists(L) /\ L = [subs EXCEPT ![l] = Without(subs[l], d)]
           /\ \A m \in Keys : Thinned(L[m], subs[m])
    BY <1>6, SetListsSteps
  <2>2. ~(d = c /\ l = k) => L[k] = subs[k] \/ (L[k] = Without(subs[k], d) /\ d # c)
    BY <1>0, <2>1
  <2> QED BY <1>5, <2>1, <2>2
<1>7. ASSUME NEW d \in Clients, kvs_disconnect_client(d) PROVE d = c
  <2>1. PICK L \in [Keys -> Seq(Cells)] :
           /\ SetLists(L) /\ L = [m \in Keys |-> Without(subs[m], d)]
           /\ \A m \in Keys : Thinned(L[m], subs[m])
    BY <1>7, SetListsSteps
  <2>2. L[k] = Without(subs[k], d)
    BY <2>1
  <2> QED BY <1>5, <2>1, <2>2
<1>8. ASSUME NEW d \in Clients, NEW l \in Keys, kvs_subscribe(d, l) PROVE FALSE
  <2>1. CASE value[l] = Absent
    BY <1>8, <2>1 DEF kvs_subscribe, Subscribers
  <2>2. CASE value[l] # Absent
    <3>1. PICK x \in FreeCells :
             /\ \A m \in Keys \ {l} : subs'[m] = subs[m]
             /\ Len(subs'[l]) = Len(subs[l]) + 1
             /\ \A q \in 1..Len(subs[l]) : subs'[l][q] = subs[l][q]
             /\ \A m \in Keys : \A q \in 1..Len(subs[m]) :
                  who'[subs[m][q]] = who[subs[m][q]]
      BY <1>8, <2>2, SubscribeCells
    <3>2. /\ p \in 1..Len(subs'[k]) /\ subs'[k][p] = subs[k][p]
          /\ who'[subs[k][p]] = who[subs[k][p]]
      BY <1>0, <3>1, SMTT(30)
    <3> QED BY <1>1, <3>2 DEF Subscribers
  <2> QED BY <2>1, <2>2
<1> QED BY <1>2, <1>3, <1>4, <1>6, <1>7, <1>8, ListSteps

-----------------------------------------------------------------------------
(* The news                                                                *)

\* A step leaves job i where it is, or breaks the pipe it is about to write to.
SameJob(i) ==
    /\ pc'[i] = pc[i] \/ (pc[i] = "write" /\ pc'[i] = "broken")
    /\ cmd'[i] = cmd[i] /\ idx'[i] = idx[i] /\ ptr'[i] = ptr[i] /\ fd'[i] = fd[i]

\* The steps of a job that take place outside its notification loop.
Outside(j) ==
    \/ \E c \in Commands : run_job(j, c)
    \/ Wrlock(j) \/ Find(j) \/ Rdlock(j) \/ LookUp(j) \/ Fork(j) \/ Unlock(j)

\* What is said of a job that is left where it is stays as it was.
LEMMA SameJobFacts ==
    ASSUME NEW i \in Jobs, SameJob(i), NEW k
    PROVE  /\ Telling(i, k)' <=> Telling(i, k)
           /\ Removing(i, k)' <=> Removing(i, k)
           /\ Op(i)' = Op(i) /\ Key(i)' = Key(i)
<1>1. Op(i)' = Op(i) /\ Key(i)' = Key(i)
  BY DEF SameJob, Op, Key
<1>2. pc'[i] \in Walks <=> pc[i] \in Walks
  BY DEF SameJob, Walks
<1>3. pc'[i] \in Walks \cup {"wrlock", "drop"} <=> pc[i] \in Walks \cup {"wrlock", "drop"}
  BY DEF SameJob, Walks
<1> QED BY <1>1, <1>2, <1>3 DEF Telling, Removing

\* And the cells ahead of it are the same.
LEMMA AheadSame ==
    ASSUME NEW i \in Jobs, SameJob(i), UNCHANGED <<subs, who>>, NEW c, NEW k, Ahead(i, c, k)
    PROVE  Ahead(i, c, k)'
BY DEF SameJob, Ahead

\* Where a notification loop goes.
LEMMA FollowEnds ==
    ASSUME TypeOK, NEW j \in Jobs, NEW x \in Cells \cup {NoCell}, Follow(j, x)
    PROVE  /\ ptr'[j] = x
           /\ x # NoCell => pc'[j] = "open" /\ idx'[j] = idx[j]
           /\ x = NoCell /\ Op(j) = "WRITE" => pc'[j] \in {"put", "unlock"}
           /\ Op(j) # "WRITE" => pc'[j] \in {"open", "wrlock"} /\ idx'[j] = idx[j]
<1>1. ptr'[j] = x
  BY DEF Follow, TypeOK, JobType
<1>2. CASE x # NoCell
  BY <1>1, <1>2 DEF Follow, Goto, TypeOK, JobType
<1>3. CASE x = NoCell /\ Op(j) = "WRITE"
  <2>1. NextPair(j, "put")
    BY <1>3 DEF Follow
  <2> QED BY <1>1, <1>3, <2>1, NextPairCases DEF Locs
<1>4. CASE x = NoCell /\ Op(j) # "WRITE"
  BY <1>1, <1>4 DEF Follow, Goto, TypeOK, JobType
<1> QED BY <1>2, <1>3, <1>4

\* A job's step leaves the other jobs where they are.
LEMMA OtherJobs ==
    ASSUME TypeOK, ControlInv, NEW j \in Jobs, NEW i \in Jobs, i # j,
           JobStep(j) \/ \E c \in Commands : run_job(j, c)
    PROVE  SameJob(i)
<1>0. /\ pc \in [Jobs -> Locs] /\ cmd \in [Jobs -> Commands \cup {NoCmd}]
      /\ idx \in [Jobs -> Nat \ {0}] /\ ptr \in [Jobs -> Cells \cup {NoCell}]
      /\ fd \in [Jobs -> Clients \cup {Nobody}]
  BY DEF TypeOK, JobType
<1>1. CASE (\E c \in Commands : run_job(j, c)) \/ Wrlock(j) \/ Rdlock(j) \/ Fork(j) \/ Unlock(j)
  BY <1>0, <1>1 DEF run_job, Wrlock, Rdlock, Fork, Unlock, Goto, SameJob
<1>2. CASE BrokenPipe(j) \/ WildHead(j) \/ OpenNotif(j) \/ WriteNotif(j)
  BY <1>0, <1>2 DEF BrokenPipe, WildHead, OpenNotif, WriteNotif, Goto, SameJob
<1>3. CASE Overwrite(j) \/ Find(j) \/ NextCell(j) \/ DanglingCell(j)
  <2>1. cmd' = cmd /\ fd' = fd
    BY <1>3 DEF Overwrite, Find, NextCell, DanglingCell
  <2>2. pc'[i] = pc[i] /\ idx'[i] = idx[i] /\ ptr'[i] = ptr[i]
    BY <1>3, WalkFacts, FollowCases
  <2> QED BY <2>1, <2>2 DEF SameJob
<1>4. CASE NewPair(j) \/ Drop(j) \/ LookUp(j)
  <2>1. cmd' = cmd /\ fd' = fd /\ ptr' = ptr
    BY <1>4 DEF NewPair, Drop, LookUp
  <2>2. \E loc \in Locs : NextPair(j, loc)
    BY <1>4 DEF NewPair, Drop, LookUp, Locs
  <2>3. pc'[i] = pc[i] /\ idx'[i] = idx[i]
    BY <2>2, NextPairCases
  <2> QED BY <2>1, <2>3 DEF SameJob
<1> QED BY <1>1, <1>2, <1>3, <1>4 DEF JobStep

\* A client's step or a handler's leaves all of them there.  It changes the
\* lists only with nobody at the lock, and tells nobody anything.
LEMMA ClientFrame ==
    ASSUME TypeOK, ClientStep
    PROVE  /\ \A i \in Jobs : SameJob(i)
           /\ value' = value
           /\ UNCHANGED <<subs, who>> \/ writer = NoJob
           /\ \A c \in Clients, k \in Keys : told'[c][k] \in {told[c][k], NoNews}
<1>0. told \in [Clients -> [Keys -> Values \cup {Deleted, NoNews, Lost}]]
  BY DEF TypeOK, ClientType
<1>1. ASSUME NEW c \in Clients, Connect(c) \/ Gone(c) \/ kvs_disconnect_client(c)
      PROVE  /\ \A i \in Jobs : SameJob(i)
             /\ value' = value
             /\ UNCHANGED <<subs, who>> \/ writer = NoJob
             /\ \A d \in Clients, k \in Keys : told'[d][k] \in {told[d][k], NoNews}
  <2>1. UNCHANGED <<value, cmd, idx, ptr, fd>> /\ (Abandon({c}) \/ UNCHANGED pc)
    BY <1>1 DEF Connect, Gone, kvs_disconnect_client, tableVars
  <2>2. UNCHANGED <<subs, who>> \/ writer = NoJob
    BY <1>1 DEF Connect, Gone, kvs_disconnect_client, tableVars, Request, LockFree
  <2>3. \A d \in Clients, k \in Keys : told'[d][k] \in {told[d][k], NoNews}
    BY <1>0, <1>1 DEF Connect, Gone, kvs_disconnect_client
  <2> QED BY <2>1, <2>2, <2>3, AbandonCases DEF SameJob
<1>2. ASSUME NEW c \in Clients, Listen(c)
      PROVE  UNCHANGED <<value, subs, who, jobVars, told>>
  BY <1>2 DEF Listen, tableVars
<1>3. ASSUME NEW c \in Clients, NEW k \in Keys, kvs_subscribe(c, k) \/ kvs_unsubscribe(c, k)
      PROVE  /\ UNCHANGED <<value, jobVars>> /\ writer = NoJob
             /\ \A d \in Clients, l \in Keys : told'[d][l] \in {told[d][l], NoNews}
  BY <1>0, <1>3 DEF kvs_subscribe, kvs_unsubscribe, Request, LockFree
<1>4. CASE delete_all_subscriptions
  <2>1. /\ UNCHANGED <<value, cmd, idx, ptr, fd>> /\ (Abandon(Clients) \/ UNCHANGED pc)
        /\ writer = NoJob
    BY <1>4 DEF delete_all_subscriptions, Request, LockFree
  <2>2. \A d \in Clients, k \in Keys : told'[d][k] \in {told[d][k], NoNews}
    BY <1>4 DEF delete_all_subscriptions
  <2> QED BY <2>1, <2>2, AbandonCases DEF SameJob
<1>5. HandlerWildHead => UNCHANGED <<value, subs, who, jobVars, told>>
  BY DEF HandlerWildHead, tableVars
<1> QED BY <1>1, <1>2, <1>3, <1>4, <1>5 DEF ClientStep, SameJob, jobVars

\* A job that has written a pair, or is about to, holds the lock.
LEMMA WriterTells ==
    ASSUME LockDiscipline, NEW j \in Jobs,
           (pc[j] \in Walks \cup {"put"} /\ Op(j) = "WRITE") \/ pc[j] \in {"put", "drop"}
    PROVE  writer = j
BY DEF LockDiscipline, HoldsWrite, Walks

\* What a job does outside its loop: it tells nobody, before or after, changes
\* neither table nor lists, and goes on with a removal it is about to make.
LEMMA OutsideFacts ==
    ASSUME TypeOK, ControlInv, NEW j \in Jobs, Outside(j)
    PROVE  /\ UNCHANGED <<value, subs, who, told>>
           /\ ~(pc[j] \in Walks /\ Op(j) = "WRITE")
           /\ ~(pc'[j] \in Walks /\ Op(j)' = "WRITE")
           /\ \A k : Removing(j, k) => Removing(j, k)'
<1>0. /\ pc \in [Jobs -> Locs] /\ cmd \in [Jobs -> Commands \cup {NoCmd}]
      /\ ControlOf(j)
  BY DEF TypeOK, JobType, ControlInv
<1> USE DEF Walks, Removing, Op, Key
<1>1. CASE (\E c \in Commands : run_job(j, c)) \/ Rdlock(j) \/ Fork(j) \/ Unlock(j)
  BY <1>0, <1>1 DEF run_job, Rdlock, Fork, Unlock, Goto, tableVars, clientVars
<1>2. CASE Wrlock(j)
  BY <1>0, <1>2 DEF Wrlock, Goto, tableVars, clientVars
<1>3. CASE Find(j)
  <2>1. /\ cmd' = cmd /\ UNCHANGED <<value, subs, who, told>> /\ pc[j] = "find"
        /\ cmd[j].op = "DELETE"
    BY <1>0, <1>3 DEF Find, tableVars, clientVars, ControlOf
  <2> QED BY <2>1
<1>4. CASE LookUp(j)
  <2>1. /\ pc[j] = "look" /\ NextPair(j, "look") /\ UNCHANGED <<value, subs, who, told>>
    BY <1>4 DEF LookUp, tableVars, clientVars
  <2>2. pc'[j] \in {"look", "unlock"}
    BY <2>1, NextPairCases DEF Locs
  <2> QED BY <2>1, <2>2
<1> QED BY <1>1, <1>2, <1>3, <1>4 DEF Outside

\* Where a WRITE stands in its notification loop.
LEMMA TellFacts ==
    ASSUME TypeOK, ControlInv, CellsInv, WalkInv, NEW j \in Jobs,
           pc[j] \in Walks, Op(j) = "WRITE"
    PROVE  /\ Key(j) \in Keys /\ value[Key(j)] = cmd[j].vals[idx[j]]
           /\ \E p \in 1..Len(subs[Key(j)]) : subs[Key(j)][p] = ptr[j]
           /\ who[ptr[j]] \in Clients /\ ptr[j] \notin FreeCells
           /\ pc[j] = "write" => fd[j] = who[ptr[j]]
<1>1. Key(j) \in Keys
  BY BusyFacts DEF Walks
<1>2. WalkOf(j)
  BY DEF WalkInv
<1>3. PICK p \in 1..Len(subs[Key(j)]) : subs[Key(j)][p] = ptr[j]
  BY <1>2 DEF WalkOf
<1>4. who[ptr[j]] \in Clients
  BY <1>1, <1>3 DEF CellsInv
<1>5. ptr[j] \notin FreeCells
  BY <1>4, NoneAssumption DEF FreeCells
<1> QED BY <1>1, <1>2, <1>3, <1>4, <1>5 DEF WalkOf

\* The next cell of a loop is the one after it in the list of its key.
LEMMA TellNext ==
    ASSUME TypeOK, ControlInv, CellsInv, NEW j \in Jobs, NextCell(j),
           NEW p \in 1..Len(subs[Key(j)]), subs[Key(j)][p] = ptr[j]
    PROVE  /\ cmd' = cmd /\ fd' = fd /\ UNCHANGED <<value, subs, who, told>>
           /\ p < Len(subs[Key(j)]) =>
                /\ pc'[j] = "open" /\ idx'[j] = idx[j] /\ ptr'[j] = subs[Key(j)][p + 1]
           /\ ~(p < Len(subs[Key(j)])) =>
                pc'[j] \in IF Op(j) = "WRITE" THEN {"put", "unlock"} ELSE {"wrlock"}
<1> DEFINE k == Key(j)
<1>1. k \in Keys
  BY BusyFacts DEF NextCell
<1>2. subs[k] \in Seq(Cells) /\ Len(subs[k]) \in Nat
  BY <1>1, LenProperties DEF TypeOK, TableType
<1>3. PICK l \in Keys : \E q \in 1..Len(subs[l]) :
        /\ subs[l][q] = ptr[j]
        /\ Follow(j, IF q < Len(subs[l]) THEN subs[l][q + 1] ELSE NoCell)
  BY DEF NextCell
<1>4. PICK q \in 1..Len(subs[l]) :
        /\ subs[l][q] = ptr[j]
        /\ Follow(j, IF q < Len(subs[l]) THEN subs[l][q + 1] ELSE NoCell)
  BY <1>3
<1>5. l = k /\ q = p
  <2>1. subs[l][q] = subs[k][p]
    BY <1>4
  <2> QED BY <1>1, <2>1 DEF CellsInv
<1>6. Follow(j, IF p < Len(subs[k]) THEN subs[k][p + 1] ELSE NoCell)
  BY <1>4, <1>5
<1>7. cmd' = cmd /\ fd' = fd /\ UNCHANGED <<value, subs, who, told>>
  BY DEF NextCell, tableVars, clientVars
<1>8. CASE p < Len(subs[k])
  <2>1. subs[k][p + 1] \in Cells
    BY <1>2, <1>8, ElementOfSeq
  <2>2. Follow(j, subs[k][p + 1]) /\ subs[k][p + 1] # NoCell
    BY <1>6, <1>8, <2>1, NoneAssumption
  <2> QED BY <1>7, <1>8, <2>1, <2>2, FollowEnds
<1>9. CASE ~(p < Len(subs[k]))
  <2>1. Follow(j, NoCell)
    BY <1>6, <1>9
  <2>2. pc'[j] \in IF Op(j) = "WRITE" THEN {"put", "unlock"} ELSE {"wrlock"}
    <3>1. CASE Op(j) = "WRITE"
      BY <2>1, <3>1, FollowEnds
    <3>2. CASE Op(j) # "WRITE"
      BY <2>1, <3>2, FollowCases, FollowEnds, NoneAssumption
    <3> QED BY <3>1, <3>2
  <2> QED BY <1>7, <1>9, <2>2
<1> QED BY <1>8, <1>9

\* A pair that is overwritten, and where its loop begins.
LEMMA TellBegins ==
    ASSUME TypeOK, ControlInv, NEW j \in Jobs, Overwrite(j)
    PROVE  /\ Key(j) \in Keys /\ Op(j) = "WRITE" /\ writer' = writer
           /\ UNCHANGED <<cmd, subs, who, fd, told>>
           /\ value' = [value EXCEPT ![Key(j)] = cmd[j].vals[idx[j]]]
           /\ subs[Key(j)] # <<>> =>
                /\ 1 \in 1..Len(subs[Key(j)])
                /\ pc'[j] = "open" /\ idx'[j] = idx[j] /\ ptr'[j] = subs[Key(j)][1]
           /\ subs[Key(j)] = <<>> => pc'[j] \in {"put", "unlock"}
<1>1. Key(j) \in Keys /\ Op(j) = "WRITE"
  BY BusyFacts DEF Overwrite, ControlInv, ControlOf
<1>2. /\ UNCHANGED <<cmd, subs, who, fd, told, writer>>
      /\ value' = [value EXCEPT ![Key(j)] = cmd[j].vals[idx[j]]]
      /\ Follow(j, First(Key(j)))
  BY DEF Overwrite, lockVars, clientVars
<1>3. First(Key(j)) \in Cells \cup {NoCell}
  BY <1>1, FirstType
<1>4. subs[Key(j)] \in Seq(Cells)
  BY <1>1 DEF TypeOK, TableType
<1>5. CASE subs[Key(j)] # <<>>
  <2>1. 1 \in 1..Len(subs[Key(j)]) /\ subs[Key(j)][1] \in Cells
    BY <1>4, <1>5, EmptySeq, LenProperties, ElementOfSeq
  <2>2. First(Key(j)) = subs[Key(j)][1] /\ First(Key(j)) # NoCell
    BY <1>5, <2>1, NoneAssumption DEF First
  <2> QED BY <1>1, <1>2, <1>3, <1>5, <2>1, <2>2, FollowEnds
<1>6. CASE subs[Key(j)] = <<>>
  <2>1. First(Key(j)) = NoCell
    BY <1>6 DEF First
  <2> QED BY <1>1, <1>2, <1>3, <1>6, <2>1, FollowEnds
<1> QED BY <1>5, <1>6

\* A WRITE in its loop stays in the list of its key.
LEMMA StepWalk ==
    ASSUME SafeInv, CellsInv, WalkInv, [Next]_vars, NEW i \in Jobs
    PROVE  WalkOf(i)'
<1> USE DEF SafeInv
<1>0. /\ WalkOf(i)
      /\ pc \in [Jobs -> Locs] /\ fd \in [Jobs -> Clients \cup {Nobody}]
      /\ value \in [Keys -> Values \cup {Absent}]
  BY DEF WalkInv, TypeOK, JobType, TableType
<1>1. ASSUME SameJob(i), UNCHANGED <<value, subs, who>> PROVE WalkOf(i)'
  <2>1. SUFFICES ASSUME pc'[i] \in Walks, Op(i)' = "WRITE"
                 PROVE  /\ value'[Key(i)'] = cmd'[i].vals[idx'[i]]
                        /\ \E p \in 1..Len(subs'[Key(i)']) : subs'[Key(i)'][p] = ptr'[i]
                        /\ pc'[i] = "write" => fd'[i] = who'[ptr'[i]]
    BY DEF WalkOf
  <2>2. pc[i] \in Walks /\ Op(i) = "WRITE" /\ Key(i)' = Key(i)
    BY <1>1, <2>1, SameJobFacts DEF SameJob, Walks
  <2>3. pc'[i] = "write" => pc[i] = "write"
    BY <1>1 DEF SameJob
  <2> QED BY <1>0, <1>1, <2>2, <2>3 DEF WalkOf, SameJob
<1>2. ASSUME ~(pc'[i] \in Walks /\ Op(i)' = "WRITE") PROVE WalkOf(i)'
  BY <1>2 DEF WalkOf
<1>3. ASSUME SameJob(i), ~(pc[i] \in Walks /\ Op(i) = "WRITE") PROVE WalkOf(i)'
  <2>1. ~(pc'[i] \in Walks /\ Op(i)' = "WRITE")
    BY <1>3, SameJobFacts DEF SameJob, Walks
  <2> QED BY <1>2, <2>1
<1>4. CASE ClientStep
  <2>1. SameJob(i) /\ value' = value /\ (UNCHANGED <<subs, who>> \/ writer = NoJob)
    BY <1>4, ClientFrame
  <2>2. CASE writer = NoJob
    <3>1. ~(pc[i] \in Walks /\ Op(i) = "WRITE")
      BY <2>2, WriterTells, NoneAssumption
    <3> QED BY <1>3, <2>1, <3>1
  <2> QED BY <1>1, <2>1, <2>2
<1>5. ASSUME NEW j \in Jobs, j # i, JobStep(j) \/ \E c \in Commands : run_job(j, c)
      PROVE  WalkOf(i)'
  <2>1. SameJob(i)
    BY <1>5, OtherJobs
  <2>2. CASE UNCHANGED <<value, subs, who>>
    BY <1>1, <2>1, <2>2
  <2>3. CASE Overwrite(j) \/ NewPair(j) \/ Drop(j)
    <3>1. writer = j
      BY <2>3, WriterTells DEF Overwrite, NewPair, Drop
    <3>2. ~(pc[i] \in Walks /\ Op(i) = "WRITE")
      BY <1>5, <3>1, WriterTells
    <3> QED BY <1>3, <2>1, <3>2
  <2>4. UNCHANGED <<value, subs, who>> \/ Overwrite(j) \/ NewPair(j) \/ Drop(j)
    BY <1>5, JobLists
  <2> QED BY <2>2, <2>3, <2>4
<1>6. CASE Outside(i)
  BY <1>2, <1>6, OutsideFacts
<1>7. CASE BrokenPipe(i) \/ WildHead(i)
  <2>1. SameJob(i) /\ UNCHANGED <<value, subs, who>>
    BY <1>7 DEF BrokenPipe, WildHead, SameJob, tableVars
  <2> QED BY <1>1, <2>1
<1>8. CASE Overwrite(i)
  <2>1. CASE subs[Key(i)] = <<>>
    <3>1. pc'[i] \notin Walks
      BY <1>8, <2>1, TellBegins DEF Walks
    <3> QED BY <1>2, <3>1
  <2>2. CASE subs[Key(i)] # <<>>
    <3>1. /\ Key(i)' = Key(i) /\ pc'[i] = "open" /\ cmd' = cmd /\ idx'[i] = idx[i]
          /\ value'[Key(i)] = cmd[i].vals[idx[i]]
      BY <1>0, <1>8, <2>2, TellBegins DEF Key
    <3>2. \E p \in 1..Len(subs'[Key(i)]) : subs'[Key(i)][p] = ptr'[i]
      BY <1>8, <2>2, TellBegins
    <3> QED BY <3>1, <3>2 DEF WalkOf
  <2> QED BY <2>1, <2>2
<1>9. CASE NewPair(i) \/ Drop(i)
  <2>1. \E loc \in {"put", "find"} : NextPair(i, loc)
    BY <1>9 DEF NewPair, Drop
  <2>2. pc'[i] \in {"put", "find", "unlock"}
    BY <2>1, NextPairCases DEF Locs
  <2> QED BY <1>2, <2>2 DEF Walks
<1>10. CASE OpenNotif(i) \/ WriteNotif(i) \/ NextCell(i) \/ DanglingCell(i)
  <2>0. cmd' = cmd /\ Op(i)' = Op(i) /\ pc[i] \in Walks
    BY <1>10 DEF OpenNotif, WriteNotif, NextCell, DanglingCell, Op, Walks
  <2>1. CASE Op(i) # "WRITE"
    BY <1>2, <2>0, <2>1
  <2>2. CASE Op(i) = "WRITE" /\ (OpenNotif(i) \/ WriteNotif(i))
    <3>1. /\ UNCHANGED <<value, subs, who, ptr, idx>> /\ Key(i)' = Key(i)
          /\ pc'[i] \in {"next", "write"}
          /\ pc'[i] = "write" => fd'[i] = who[ptr[i]]
      BY <1>0, <2>2 DEF OpenNotif, WriteNotif, Goto, tableVars, Key
    <3> QED BY <1>0, <2>0, <2>2, <3>1 DEF WalkOf
  <2>3. CASE Op(i) = "WRITE" /\ NextCell(i)
    <3>1. PICK p \in 1..Len(subs[Key(i)]) : subs[Key(i)][p] = ptr[i]
      BY <2>0, <2>3, TellFacts
    <3>2. Key(i) \in Keys /\ value[Key(i)] = cmd[i].vals[idx[i]]
      BY <2>0, <2>3, TellFacts
    <3>3. CASE p < Len(subs[Key(i)])
      <4>1. /\ pc'[i] = "open" /\ idx'[i] = idx[i] /\ ptr'[i] = subs[Key(i)][p + 1]
            /\ UNCHANGED <<value, subs, who>> /\ Key(i)' = Key(i)
        BY <2>0, <2>3, <3>1, <3>3, TellNext DEF Key
      <4>2. Len(subs[Key(i)]) \in Nat
        BY <3>2, LenProperties DEF TypeOK, TableType
      <4>3. p + 1 \in 1..Len(subs[Key(i)])
        BY <3>3, <4>2
      <4> QED BY <2>0, <3>2, <4>1, <4>3, SMTT(30) DEF WalkOf
    <3>4. CASE ~(p < Len(subs[Key(i)]))
      <4>1. pc'[i] \in {"put", "unlock"}
        BY <2>3, <3>1, <3>4, TellNext
      <4> QED BY <1>2, <4>1 DEF Walks
    <3> QED BY <3>3, <3>4
  <2>4. CASE Op(i) = "WRITE" /\ DanglingCell(i)
    BY <2>0, <2>4, TellFacts DEF DanglingCell
  <2> QED BY <1>10, <2>1, <2>2, <2>3, <2>4
<1>11. CASE UNCHANGED vars
  BY <1>1, <1>11 DEF vars, tableVars, SameJob
<1> QED BY <1>4, <1>5, <1>6, <1>7, <1>8, <1>9, <1>10, <1>11
       DEF Next, JobStep, Outside

\* A step that tells c nothing of k, keeps the value and the removals of k and
\* lets nobody in, and where no cell of c falls behind a loop.
LEMMA NewsKept ==
    ASSUME NEW c \in Clients, NEW k \in Keys, NewsOf(c, k), value'[k] = value[k],
           told'[c][k] \in {told[c][k], NoNews},
           c \in Subscribers(k)' => c \in Subscribers(k) \/ told'[c][k] = NoNews,
           \A j \in Jobs : Removing(j, k) => Removing(j, k)',
           \A j \in Jobs : Telling(j, k) /\ Ahead(j, c, k) =>
                             Telling(j, k)' /\ Ahead(j, c, k)'
    PROVE  NewsOf(c, k)'
BY DEF NewsOf

\* Whoever becomes a subscriber has no news yet.
LEMMA Newcomers ==
    ASSUME TypeOK, ControlInv, CellsInv, ClientStep,
           NEW c \in Clients, NEW k \in Keys, c \in Subscribers(k)'
    PROVE  c \in Subscribers(k) \/ told'[c][k] = NoNews
<1>0. /\ subs \in [Keys -> Seq(Cells)]
      /\ told \in [Clients -> [Keys -> Values \cup {Deleted, NoNews, Lost}]]
      /\ \A l \in Keys : Len(subs[l]) \in Nat
  BY LenProperties DEF TypeOK, TableType, ClientType
<1>1. CASE UNCHANGED <<subs, who>>
  BY <1>1 DEF Subscribers
<1>2. ASSUME NEW L \in [Keys -> Seq(Cells)], SetLists(L),
             \A l \in Keys : Thinned(L[l], subs[l])
      PROVE  c \in Subscribers(k)
  BY <1>2, SetListsCells
<1>3. ASSUME NEW d \in Clients, NEW l \in Keys, kvs_unsubscribe(d, l)
      PROVE  c \in Subscribers(k)
  BY <1>2, <1>3, SetListsSteps
<1>4. ASSUME NEW d \in Clients, kvs_disconnect_client(d) PROVE c \in Subscribers(k)
  BY <1>2, <1>4, SetListsSteps
<1>5. CASE delete_all_subscriptions
  BY <1>2, <1>5, SetListsSteps
<1>6. ASSUME NEW d \in Clients, NEW l \in Keys, kvs_subscribe(d, l), value[l] # Absent
      PROVE  c \in Subscribers(k) \/ told'[c][k] = NoNews
  <2>1. told' = [told EXCEPT ![d][l] = NoNews]
    BY <1>6 DEF kvs_subscribe
  <2>2. PICK x \in FreeCells :
           /\ who' = [who EXCEPT ![x] = d]
           /\ \A m \in Keys \ {l} : subs'[m] = subs[m]
           /\ Len(subs'[l]) = Len(subs[l]) + 1 /\ subs'[l][Len(subs[l]) + 1] = x
           /\ \A p \in 1..Len(subs[l]) : subs'[l][p] = subs[l][p]
           /\ \A m \in Keys : \A p \in 1..Len(subs[m]) :
                subs[m][p] # x /\ who'[subs[m][p]] = who[subs[m][p]]
    BY <1>6, SubscribeCells
  <2>3. PICK p \in 1..Len(subs'[k]) : who'[subs'[k][p]] = c
    BY DEF Subscribers
  <2>4. CASE p \in 1..Len(subs[k])
    <3>1. who[subs[k][p]] = c
      BY <2>2, <2>3, <2>4
    <3> QED BY <2>4, <3>1 DEF Subscribers
  <2>5. CASE p \notin 1..Len(subs[k])
    <3>1. k = l /\ p = Len(subs[k]) + 1
      BY <1>0, <2>2, <2>5
    <3>2. who'[x] = d
      BY <2>2 DEF FreeCells, TypeOK, TableType
    <3>3. d = c
      BY <2>2, <2>3, <3>1, <3>2
    <3> QED BY <1>0, <2>1, <3>1, <3>3
  <2> QED BY <2>4, <2>5
<1>7. ASSUME NEW d \in Clients, NEW l \in Keys, kvs_subscribe(d, l), value[l] = Absent
      PROVE  UNCHANGED <<subs, who>>
  BY <1>7 DEF kvs_subscribe
<1>8. ASSUME NEW d \in Clients, Connect(d) \/ Listen(d) \/ Gone(d)
      PROVE  UNCHANGED <<subs, who>>
  BY <1>8 DEF Connect, Listen, Gone, tableVars
<1>9. HandlerWildHead => UNCHANGED <<subs, who>>
  BY DEF HandlerWildHead, tableVars
<1> QED BY <1>1, <1>3, <1>4, <1>5, <1>6, <1>7, <1>8, <1>9 DEF ClientStep

\* A step of a notification loop: of a DELETE it is about a key that is about
\* to go; of a WRITE it tells the client of its cell, or goes on to the next.
LEMMA LoopNews ==
    ASSUME SafeInv, CellsInv, WalkInv, NewsInv, NEW j \in Jobs,
           OpenNotif(j) \/ WriteNotif(j) \/ NextCell(j) \/ DanglingCell(j),
           NEW c \in Clients, NEW k \in Keys
    PROVE  NewsOf(c, k)'
<1> USE DEF SafeInv
<1>0. /\ NewsOf(c, k) /\ JobStep(j)
      /\ pc \in [Jobs -> Locs] /\ fd \in [Jobs -> Clients \cup {Nobody}]
      /\ told \in [Clients -> [Keys -> Values \cup {Deleted, NoNews, Lost}]]
      /\ subs \in [Keys -> Seq(Cells)]
      /\ cmd' = cmd /\ UNCHANGED <<value, subs, who>> /\ pc[j] \in Walks
      /\ Op(j)' = Op(j) /\ Op(j) \in {"WRITE", "DELETE"} /\ Key(j) \in Keys
    BY BusyFacts DEF NewsInv, TypeOK, JobType, TableType, ClientType, JobStep, OpenNotif,
       WriteNotif, NextCell, DanglingCell, tableVars, Walks, Op, ControlInv, ControlOf
<1>1. \A i \in Jobs \ {j} :
        /\ Removing(i, k)' <=> Removing(i, k)
        /\ Telling(i, k)' <=> Telling(i, k)
        /\ Ahead(i, c, k) => Ahead(i, c, k)'
  BY <1>0, OtherJobs, SameJobFacts, AheadSame
<1>2. Subscribers(k)' = Subscribers(k)
  BY <1>0 DEF Subscribers
<1>3. ASSUME Key(j) # k, told'[c][k] = told[c][k] PROVE NewsOf(c, k)'
  <2>1. ~Telling(j, k) /\ ~Removing(j, k)
    BY <1>3 DEF Telling, Removing
  <2>2. \A i \in Jobs : Removing(i, k) => Removing(i, k)'
    BY <1>1, <2>1
  <2>3. \A i \in Jobs : Telling(i, k) /\ Ahead(i, c, k) => Telling(i, k)' /\ Ahead(i, c, k)'
    BY <1>1, <2>1
  <2> QED BY <1>0, <1>2, <1>3, <2>2, <2>3, NewsKept
<1>4. Key(j) # k => told'[c][k] = told[c][k]
  BY <1>0 DEF OpenNotif, WriteNotif, NextCell, DanglingCell, clientVars
<1>5. CASE Op(j) = "DELETE"
  <2>1. pc'[j] \in {"write", "next", "open", "wrlock"} /\ idx'[j] = idx[j]
    <3>1. CASE OpenNotif(j) \/ WriteNotif(j)
      BY <1>0, <3>1 DEF OpenNotif, WriteNotif, Goto
    <3>2. CASE NextCell(j) \/ DanglingCell(j)
      BY <1>5, <3>2, WalkFacts, FollowEnds
    <3> QED BY <3>1, <3>2
  <2>2. CASE Key(j) = k
    <3>1. Removing(j, k)'
      BY <1>0, <1>5, <2>1, <2>2 DEF Removing, Walks, Op, Key
    <3> QED BY <3>1 DEF NewsOf
  <2> QED BY <1>3, <1>4, <2>2
<1>6. CASE Op(j) = "WRITE" /\ Key(j) = k
  <2>1. /\ value[k] = cmd[j].vals[idx[j]]
        /\ who[ptr[j]] \in Clients /\ ptr[j] \notin FreeCells
        /\ pc[j] = "write" => fd[j] = who[ptr[j]]
    BY <1>0, <1>6, TellFacts
  <2>2. PICK p \in 1..Len(subs[k]) : subs[k][p] = ptr[j]
    BY <1>0, <1>6, TellFacts
  <2>3. \A q \in 1..Len(subs[k]) : subs[k][q] = ptr[j] => q = p
    BY <2>2 DEF CellsInv
  <2>4. \A i \in Jobs : Removing(i, k) => Removing(i, k)'
    BY <1>1, <1>6 DEF Removing
  <2>5. writer = j
    BY <1>0, <1>6, WriterTells
  <2>6. \A i \in Jobs : Telling(i, k) => i = j
    BY <2>5, WriterTells DEF Telling
  <2>7. ASSUME told'[c][k] \in {Lost, value[k]} PROVE NewsOf(c, k)'
    BY <1>0, <2>7 DEF NewsOf
  <2>8. ASSUME told'[c][k] = told[c][k],
               Telling(j, k) /\ Ahead(j, c, k) => Telling(j, k)' /\ Ahead(j, c, k)'
        PROVE  NewsOf(c, k)'
    <3>1. \A i \in Jobs : Telling(i, k) /\ Ahead(i, c, k) => Telling(i, k)' /\ Ahead(i, c, k)'
      BY <2>6, <2>8
    <3> QED BY <1>0, <1>2, <2>4, <2>8, <3>1, NewsKept
  <2>9. CASE OpenNotif(j)
    <3>1. /\ pc[j] = "open" /\ UNCHANGED <<idx, ptr>> /\ pc'[j] \in {"write", "next"}
          /\ pc'[j] = "write" => told' = told
          /\ pc'[j] = "next" => told' = [told EXCEPT ![who[ptr[j]]][k] = Lost]
      BY <1>0, <1>6, <2>9 DEF OpenNotif, Goto
    <3>2. Telling(j, k)'
      BY <1>0, <1>6, <3>1 DEF Telling, Walks, Op, Key
    <3>3. CASE pc'[j] = "write"
      <4>1. Ahead(j, c, k) => Ahead(j, c, k)'
        BY <1>0, <3>1, <3>3 DEF Ahead
      <4> QED BY <2>8, <3>1, <3>2, <3>3, <4>1
    <3>4. CASE pc'[j] = "next" /\ c = who[ptr[j]]
      <4>1. told'[c][k] = Lost
        BY <1>0, <3>1, <3>4
      <4> QED BY <2>7, <4>1
    <3>5. CASE pc'[j] = "next" /\ c # who[ptr[j]]
      <4>1. told'[c][k] = told[c][k]
        BY <1>0, <3>1, <3>5
      <4>2. Ahead(j, c, k) => Ahead(j, c, k)'
        BY <1>0, <2>2, <3>1, <3>5 DEF Ahead
      <4> QED BY <2>8, <3>2, <4>1, <4>2
    <3> QED BY <3>1, <3>3, <3>4, <3>5
  <2>10. CASE WriteNotif(j)
    <3>1. /\ pc[j] = "write" /\ UNCHANGED <<idx, ptr>> /\ pc'[j] = "next"
          /\ \E n \in {value[k], Lost} : told' = [told EXCEPT ![who[ptr[j]]][k] = n]
      BY <1>0, <1>6, <2>1, <2>10 DEF WriteNotif, Goto
    <3>2. Telling(j, k)'
      BY <1>0, <1>6, <3>1 DEF Telling, Walks, Op, Key
    <3>3. CASE c = who[ptr[j]]
      <4>1. told'[c][k] \in {Lost, value[k]}
        BY <1>0, <3>1, <3>3
      <4> QED BY <2>7, <4>1
    <3>4. CASE c # who[ptr[j]]
      <4>1. told'[c][k] = told[c][k]
        BY <1>0, <3>1, <3>4
      <4>2. Ahead(j, c, k) => Ahead(j, c, k)'
        BY <1>0, <2>2, <3>1, <3>4 DEF Ahead
      <4> QED BY <2>8, <3>2, <4>1, <4>2
    <3> QED BY <3>3, <3>4
  <2>11. CASE NextCell(j)
    <3>0. Len(subs[k]) \in Nat /\ told' = told /\ pc[j] = "next"
      BY <1>0, <2>11, LenProperties DEF NextCell, clientVars
    <3>1. ASSUME Ahead(j, c, k)
          PROVE  /\ p < Len(subs[k])
                 /\ \E q \in 1..Len(subs[k]) : q > p /\ who[subs[k][q]] = c
      BY <2>3, <3>0, <3>1 DEF Ahead
    <3>2. CASE Ahead(j, c, k)
      <4>1. PICK q \in 1..Len(subs[k]) : q > p /\ who[subs[k][q]] = c
        BY <3>1, <3>2
      <4>2. pc'[j] = "open" /\ idx'[j] = idx[j] /\ ptr'[j] = subs[k][p + 1]
        BY <1>6, <2>2, <2>11, <3>1, <3>2, TellNext
      <4>3. Telling(j, k)'
        BY <1>0, <1>6, <4>2 DEF Telling, Walks, Op, Key
      <4>4. p + 1 \in 1..Len(subs[k]) /\ (q > p + 1 \/ q = p + 1)
        BY <3>0, <4>1
      <4>5. \E r, s \in 1..Len(subs[k]) : /\ subs[k][r] = ptr'[j] /\ who[subs[k][s]] = c
                                          /\ s > r \/ (s = r /\ pc'[j] # "next")
        BY <4>1, <4>2, <4>4
      <4>6. Ahead(j, c, k)'
        BY <1>0, <4>5 DEF Ahead
      <4> QED BY <2>8, <3>0, <4>3, <4>6
    <3>3. CASE ~Ahead(j, c, k)
      BY <2>8, <3>0, <3>3
    <3> QED BY <3>2, <3>3
  <2>12. ~DanglingCell(j)
    BY <2>1 DEF DanglingCell
  <2> QED BY <2>9, <2>10, <2>11, <2>12
<1> QED BY <1>0, <1>3, <1>4, <1>5, <1>6

\* Every step keeps the subscribers informed, or about to be.
LEMMA StepNews ==
    ASSUME SafeInv, CellsInv, WalkInv, NewsInv, [Next]_vars,
           NEW c \in Clients, NEW k \in Keys
    PROVE  NewsOf(c, k)'
<1> USE DEF SafeInv
<1>0. /\ NewsOf(c, k)
      /\ pc \in [Jobs -> Locs] /\ fd \in [Jobs -> Clients \cup {Nobody}]
      /\ value \in [Keys -> Values \cup {Absent}]
      /\ told \in [Clients -> [Keys -> Values \cup {Deleted, NoNews, Lost}]]
      /\ subs \in [Keys -> Seq(Cells)]
  BY DEF NewsInv, TypeOK, JobType, TableType, ClientType
<1>1. ASSUME \A i \in Jobs : SameJob(i), UNCHANGED <<value, subs, who>>,
             told'[c][k] \in {told[c][k], NoNews}
      PROVE  NewsOf(c, k)'
  <2>1. Subscribers(k)' = Subscribers(k)
    BY <1>1 DEF Subscribers
  <2>2. \A j \in Jobs : /\ Removing(j, k) => Removing(j, k)'
                        /\ Telling(j, k) => Telling(j, k)'
    BY <1>1, SameJobFacts
  <2>3. \A j \in Jobs : Ahead(j, c, k) => Ahead(j, c, k)'
    BY <1>1, AheadSame
  <2> QED BY <1>0, <1>1, <2>1, <2>2, <2>3, NewsKept
<1>2. CASE ClientStep
  <2>1. /\ \A i \in Jobs : SameJob(i)
        /\ value' = value /\ (UNCHANGED <<subs, who>> \/ writer = NoJob)
        /\ told'[c][k] \in {told[c][k], NoNews}
    BY <1>2, ClientFrame
  <2>2. CASE UNCHANGED <<subs, who>>
    BY <1>1, <2>1, <2>2
  <2>3. CASE writer = NoJob
    <3>1. \A j \in Jobs : ~Telling(j, k)
      BY <2>3, WriterTells, NoneAssumption DEF Telling
    <3>2. \A j \in Jobs : Removing(j, k) => Removing(j, k)'
      BY <2>1, SameJobFacts
    <3>3. c \in Subscribers(k)' => c \in Subscribers(k) \/ told'[c][k] = NoNews
      BY <1>2, Newcomers
    <3> QED BY <1>0, <2>1, <3>1, <3>2, <3>3, NewsKept
  <2> QED BY <2>1, <2>2, <2>3
<1>3. ASSUME NEW j \in Jobs, JobStep(j) \/ \E d \in Commands : run_job(j, d)
      PROVE  NewsOf(c, k)'
  <2>0. \A i \in Jobs \ {j} :
          /\ SameJob(i)
          /\ Removing(i, k)' <=> Removing(i, k)
          /\ Telling(i, k)' <=> Telling(i, k)
          /\ UNCHANGED <<subs, who>> /\ Ahead(i, c, k) => Ahead(i, c, k)'
    BY <1>3, OtherJobs, SameJobFacts, AheadSame
  <2>1. CASE Outside(j)
    <3>1. /\ UNCHANGED <<value, subs, who, told>>
          /\ ~Telling(j, k) /\ (Removing(j, k) => Removing(j, k)')
      BY <2>1, OutsideFacts DEF Telling
    <3>2. Subscribers(k)' = Subscribers(k)
      BY <3>1 DEF Subscribers
    <3>3. \A i \in Jobs : Removing(i, k) => Removing(i, k)'
      BY <2>0, <3>1
    <3>4. \A i \in Jobs : Telling(i, k) /\ Ahead(i, c, k) => Telling(i, k)' /\ Ahead(i, c, k)'
      BY <2>0, <3>1
    <3> QED BY <1>0, <3>1, <3>2, <3>3, <3>4, NewsKept
  <2>2. CASE BrokenPipe(j) \/ WildHead(j)
    <3>1. SameJob(j) /\ UNCHANGED <<value, subs, who, told>>
      BY <2>2 DEF BrokenPipe, WildHead, SameJob, tableVars, clientVars
    <3> QED BY <1>1, <2>0, <3>1
  <2>3. CASE Overwrite(j)
    <3>1. /\ Key(j) \in Keys /\ Op(j) = "WRITE" /\ pc[j] = "put"
          /\ UNCHANGED <<cmd, subs, who, told>>
          /\ value' = [value EXCEPT ![Key(j)] = cmd[j].vals[idx[j]]]
      BY <2>3, TellBegins DEF Overwrite
    <3>2. Subscribers(k)' = Subscribers(k)
      BY <3>1 DEF Subscribers
    <3>3. CASE Key(j) # k
      <4>1. ~Telling(j, k) /\ ~Removing(j, k) /\ value'[k] = value[k]
        BY <1>0, <3>1, <3>3 DEF Telling, Removing
      <4>2. \A i \in Jobs : Removing(i, k) => Removing(i, k)'
        BY <2>0, <4>1
      <4>3. \A i \in Jobs : Telling(i, k) /\ Ahead(i, c, k) => Telling(i, k)' /\ Ahead(i, c, k)'
        BY <2>0, <3>1, <4>1
      <4> QED BY <1>0, <3>1, <3>2, <4>1, <4>2, <4>3, NewsKept
    <3>4. CASE Key(j) = k /\ c \in Subscribers(k)
      <4>1. PICK q \in 1..Len(subs[k]) : who[subs[k][q]] = c
        BY <3>4 DEF Subscribers
      <4>2. Len(subs[k]) \in Nat /\ subs[k] # <<>>
        BY <1>0, <4>1, LenProperties, EmptySeq
      <4>3. /\ 1 \in 1..Len(subs[k]) /\ pc'[j] = "open" /\ idx'[j] = idx[j]
            /\ ptr'[j] = subs[k][1]
        BY <2>3, <3>4, <4>2, TellBegins
      <4>4. Telling(j, k)'
        BY <3>1, <3>4, <4>3 DEF Telling, Walks, Op, Key
      <4>5. q > 1 \/ q = 1
        BY <4>2
      <4>6. \E p, r \in 1..Len(subs[k]) : /\ subs[k][p] = ptr'[j] /\ who[subs[k][r]] = c
                                          /\ r > p \/ (r = p /\ pc'[j] # "next")
        BY <4>1, <4>3, <4>5
      <4>7. Ahead(j, c, k)'
        BY <3>1, <4>6 DEF Ahead
      <4> QED BY <4>4, <4>7 DEF NewsOf
    <3>5. CASE c \notin Subscribers(k)
      BY <3>2, <3>5 DEF NewsOf
    <3> QED BY <3>3, <3>4, <3>5
  <2>4. CASE NewPair(j)
    <3>1. /\ Key(j) \in Keys /\ Op(j) = "WRITE" /\ pc[j] = "put" /\ value[Key(j)] = Absent
          /\ UNCHANGED <<subs, who, told>>
          /\ value' = [value EXCEPT ![Key(j)] = cmd[j].vals[idx[j]]]
      BY <2>4, BusyFacts DEF NewPair, ControlInv, ControlOf, clientVars
    <3>2. Subscribers(k)' = Subscribers(k)
      BY <3>1 DEF Subscribers
    <3>3. CASE Key(j) # k
      <4>1. ~Telling(j, k) /\ ~Removing(j, k) /\ value'[k] = value[k]
        BY <1>0, <3>1, <3>3 DEF Telling, Removing
      <4>2. \A i \in Jobs : Removing(i, k) => Removing(i, k)'
        BY <2>0, <4>1
      <4>3. \A i \in Jobs : Telling(i, k) /\ Ahead(i, c, k) => Telling(i, k)' /\ Ahead(i, c, k)'
        BY <2>0, <3>1, <4>1
      <4> QED BY <1>0, <3>1, <3>2, <4>1, <4>2, <4>3, NewsKept
    <3>4. CASE Key(j) = k
      <4>1. subs[k] = <<>>
        BY <3>1, <3>4 DEF CellsInv
      <4>2. c \notin Subscribers(k)
        BY <4>1, EmptySeq DEF Subscribers
      <4> QED BY <3>2, <4>2 DEF NewsOf
    <3> QED BY <3>3, <3>4
  <2>5. CASE Drop(j)
    <3>1. /\ Key(j) \in Keys /\ Op(j) = "DELETE" /\ pc[j] = "drop" /\ UNCHANGED told
          /\ value' = [value EXCEPT ![Key(j)] = Absent]
      BY <2>5, BusyFacts DEF Drop, ControlInv, ControlOf, clientVars
    <3>2. PICK L \in [Keys -> Seq(Cells)] :
             /\ SetLists(L) /\ L = [subs EXCEPT ![Key(j)] = <<>>]
             /\ \A l \in Keys : Thinned(L[l], subs[l])
      BY <2>5, SetListsSteps
    <3>3. CASE Key(j) # k
      <4>1. ~Removing(j, k) /\ value'[k] = value[k]
        BY <1>0, <3>1, <3>3 DEF Removing
      <4>2. \A i \in Jobs : Removing(i, k) => Removing(i, k)'
        BY <2>0, <4>1
      <4>3. writer = j
        BY <3>1, WriterTells
      <4>4. \A i \in Jobs : ~Telling(i, k)
        BY <3>1, <4>3, WriterTells DEF Telling
      <4>5. Subscribers(k)' \subseteq Subscribers(k)
        BY <3>2, SetListsCells
      <4> QED BY <1>0, <3>1, <4>1, <4>2, <4>4, <4>5, NewsKept
    <3>4. CASE Key(j) = k
      <4>1. subs'[k] = <<>>
        BY <1>0, <3>2, <3>4 DEF SetLists
      <4>2. c \notin Subscribers(k)'
        BY <4>1, EmptySeq DEF Subscribers
      <4> QED BY <4>2 DEF NewsOf
    <3> QED BY <3>3, <3>4
  <2>6. CASE OpenNotif(j) \/ WriteNotif(j) \/ NextCell(j) \/ DanglingCell(j)
    BY <2>6, LoopNews
  <2> QED BY <1>3, <2>1, <2>2, <2>3, <2>4, <2>5, <2>6 DEF JobStep, Outside
<1>4. CASE UNCHANGED vars
  <2>1. \A i \in Jobs : SameJob(i)
    BY <1>4 DEF vars, SameJob
  <2> QED BY <1>1, <1>4, <2>1 DEF vars, tableVars, clientVars
<1> QED BY <1>2, <1>3, <1>4 DEF Next

\* Nothing is listed, told or removed at the start.
LEMMA InitNews == Init => CellsInv /\ WalkInv /\ NewsInv
<1> SUFFICES ASSUME Init PROVE CellsInv /\ WalkInv /\ NewsInv
  OBVIOUS
<1>1. \A k \in Keys : subs[k] = <<>> /\ Len(subs[k]) = 0
  BY EmptySeq DEF Init
<1>2. CellsInv
  BY <1>1 DEF CellsInv
<1>3. WalkInv
  BY DEF Init, WalkInv, WalkOf, Walks
<1>4. \A k \in Keys : Subscribers(k) = {}
  BY <1>1 DEF Subscribers
<1> QED BY <1>2, <1>3, <1>4 DEF NewsInv, NewsOf

\* In every reachable state.
LEMMA NewsInvariant == Spec => [](SafeInv /\ CellsInv /\ WalkInv /\ NewsInv)
<1>1. /\ SafeInv /\ CellsInv /\ WalkInv /\ NewsInv /\ [Next]_vars
      => CellsInv' /\ WalkInv' /\ NewsInv'
  <2> SUFFICES ASSUME SafeInv, CellsInv, WalkInv, NewsInv, [Next]_vars
               PROVE  CellsInv' /\ WalkInv' /\ NewsInv'
    OBVIOUS
  <2>1. CellsInv'
    BY StepCells DEF SafeInv
  <2>2. WalkInv'
    BY StepWalk DEF WalkInv
  <2>3. NewsInv'
    BY StepNews DEF NewsInv
  <2> QED BY <2>1, <2>2, <2>3
<1> QED BY <1>1, InitNews, SafeInvariant, PTL DEF Spec

\* A subscriber of a key that is there has last been told of its value, unless
\* the news was refused by its FIFO or is on its way: for any number of jobs,
\* though none of them keeps the lists from changing under a DELETE's loop.
THEOREM SubscribersUpToDate == Spec => []UpToDate
<1>1. TypeOK /\ NewsInv => UpToDate
  <2> SUFFICES ASSUME TypeOK, NewsInv, NEW c \in Clients, NEW k \in Keys,
                      c \in Subscribers(k), \A j \in Jobs : ~Announcing(j, k)
               PROVE  told[c][k] \in {NoNews, Lost, value[k]}
    BY DEF UpToDate
  <2>1. \A j \in Jobs : ~Telling(j, k) /\ ~Removing(j, k)
    BY DEF Announcing, Telling, Removing, Walks
  <2> QED BY <2>1 DEF NewsInv, NewsOf
<1>2. SafeInv => TypeOK
  BY DEF SafeInv
<1> QED BY <1>1, <1>2, NewsInvariant, PTL

\* A subscription ends by a request of its own client, with its session, with
\* its key or with SIGUSR1: no other client's request takes it away.
THEOREM SubscriptionsKept == Spec => SubscriptionKept
<1>1. SafeInv /\ CellsInv /\ [Next]_vars
      => [\A c \in Clients, k \in Keys :
             c \in Subscribers(k) /\ c \notin Subscribers(k)'
             => \/ value'[k] = Absent
                \/ kvs_unsubscribe(c, k) \/ kvs_disconnect_client(c)
                \/ delete_all_subscriptions]_vars
  BY StepKept DEF SafeInv
<1> QED BY <1>1, NewsInvariant, PTL DEF Spec, SubscriptionKept

-----------------------------------------------------------------------------
(* What the clients of one job believe                                     *)

\* A DELETE in its notification loop stands at a cell of the list of its key.
LeaveOf(j) ==
    pc[j] \in Walks /\ Op(j) = "DELETE" =>
        /\ \E p \in 1..Len(subs[Key(j)]) : subs[Key(j)][p] = ptr[j]
        /\ pc[j] = "write" => fd[j] = who[ptr[j]]

\* Who was last told of a value of k is a subscriber of k; if k is about to be
\* removed, the loop has still to come to that client.
BeliefOf(c, k) ==
    told[c][k] \in Values =>
        /\ c \in Subscribers(k)
        /\ \A j \in Jobs : Removing(j, k) => pc[j] \in Walks /\ Ahead(j, c, k)

\* Both, as long as no cell was freed while a loop stood at it.
BeliefInv ==
    ~dangling => /\ \A j \in Jobs : LeaveOf(j)
                 /\ \A c \in Clients, k \in Keys : BeliefOf(c, k)

\* Taking cells out of a list keeps the others in their order.
LEMMA ThinnedOrder ==
    ASSUME TypeOK, CellsInv, NEW L \in [Keys -> Seq(Cells)], NEW k \in Keys,
           Thinned(L[k], subs[k]),
           NEW p \in 1..Len(subs[k]), NEW q \in 1..Len(subs[k]),
           NEW x \in 1..Len(L[k]), NEW y \in 1..Len(L[k]),
           L[k][x] = subs[k][p], L[k][y] = subs[k][q]
    PROVE  (q > p => y > x) /\ (q = p => y = x)
<1>0. Len(subs[k]) \in Nat /\ Len(L[k]) \in Nat
  BY LenProperties DEF TypeOK, TableType
<1>1. PICK r \in 1..(Len(subs[k]) + 1) : \A i \in 1..Len(L[k]) :
        IF i < r THEN i <= Len(subs[k]) /\ L[k][i] = subs[k][i]
        ELSE i + 1 <= Len(subs[k]) /\ L[k][i] = subs[k][i + 1]
  BY DEF Thinned
<1>2. ASSUME NEW i \in 1..Len(L[k]), NEW m \in 1..Len(subs[k]), L[k][i] = subs[k][m]
      PROVE  m = IF i < r THEN i ELSE i + 1
  <2>1. CASE i < r
    <3>1. i \in 1..Len(subs[k]) /\ subs[k][i] = subs[k][m]
      BY <1>0, <1>1, <1>2, <2>1
    <3> QED BY <2>1, <3>1 DEF CellsInv
  <2>2. CASE ~(i < r)
    <3>1. i + 1 \in 1..Len(subs[k]) /\ subs[k][i + 1] = subs[k][m]
      BY <1>0, <1>1, <1>2, <2>2
    <3> QED BY <2>2, <3>1 DEF CellsInv
  <2> QED BY <2>1, <2>2
<1>3. p = (IF x < r THEN x ELSE x + 1) /\ q = IF y < r THEN y ELSE y + 1
  BY <1>2
<1> QED BY <1>0, <1>3

\* Where any loop stands that no freed cell has lost.
LEMMA StandFacts ==
    ASSUME TypeOK, ControlInv, CellsInv, NEW j \in Jobs, WalkOf(j), LeaveOf(j),
           pc[j] \in Walks
    PROVE  /\ Key(j) \in Keys /\ Op(j) \in {"WRITE", "DELETE"}
           /\ \E p \in 1..Len(subs[Key(j)]) : subs[Key(j)][p] = ptr[j]
           /\ who[ptr[j]] \in Clients /\ ptr[j] \notin FreeCells
           /\ who[ptr[j]] \in Subscribers(Key(j))
           /\ pc[j] = "write" => fd[j] = who[ptr[j]]
<1>1. Key(j) \in Keys /\ Op(j) \in {"WRITE", "DELETE"}
  BY BusyFacts DEF Walks, ControlInv, ControlOf
<1>2. PICK p \in 1..Len(subs[Key(j)]) : subs[Key(j)][p] = ptr[j]
  BY <1>1 DEF WalkOf, LeaveOf
<1>3. who[ptr[j]] \in Clients /\ who[ptr[j]] \in Subscribers(Key(j))
  BY <1>1, <1>2 DEF CellsInv, Subscribers
<1>4. ptr[j] \notin FreeCells
  BY <1>3, NoneAssumption DEF FreeCells
<1> QED BY <1>1, <1>2, <1>3, <1>4 DEF WalkOf, LeaveOf

\* A step that leaves the job and the lists alone.
LEMMA SameBelief ==
    ASSUME TypeOK, NEW j \in Jobs, Jobs = {j}, LeaveOf(j), SameJob(j),
           UNCHANGED <<subs, who>>,
           NEW c \in Clients, NEW k \in Keys, BeliefOf(c, k),
           told'[c][k] \in {told[c][k], NoNews}
    PROVE  LeaveOf(j)' /\ BeliefOf(c, k)'
<1>1. pc'[j] \in Walks => pc[j] \in Walks
  BY DEF SameJob, Walks
<1>2. pc[j] \in Walks => pc'[j] \in Walks
  BY DEF SameJob, Walks
<1>3. /\ Op(j)' = Op(j) /\ Key(j)' = Key(j) /\ ptr'[j] = ptr[j] /\ fd'[j] = fd[j]
      /\ pc'[j] = "write" => pc[j] = "write"
      /\ Removing(j, k)' <=> Removing(j, k)
  BY SameJobFacts DEF SameJob
<1>4. LeaveOf(j)'
  BY <1>1, <1>3 DEF LeaveOf
<1>5. ASSUME told'[c][k] \in Values PROVE BeliefOf(c, k)'
  <2>1. told[c][k] \in Values
    BY <1>5, NoValueAssumption
  <2>2. c \in Subscribers(k)'
    BY <2>1 DEF BeliefOf, Subscribers
  <2>3. Removing(j, k) => pc[j] \in Walks /\ Ahead(j, c, k)
    BY <2>1 DEF BeliefOf
  <2>4. Removing(j, k)' => pc'[j] \in Walks /\ Ahead(j, c, k)'
    BY <1>2, <1>3, <2>3, AheadSame
  <2> QED BY <2>2, <2>4 DEF BeliefOf
<1> QED BY <1>4, <1>5 DEF BeliefOf

\* A handler takes cells out of the lists, none of them where a loop stands.
LEMMA ThinnedBelief ==
    ASSUME TypeOK, ControlInv, CellsInv, NEW j \in Jobs, Jobs = {j},
           WalkOf(j), LeaveOf(j), SameJob(j),
           NEW L \in [Keys -> Seq(Cells)], SetLists(L),
           \A l \in Keys : Thinned(L[l], subs[l]), ~dangling',
           NEW c \in Clients, NEW k \in Keys, BeliefOf(c, k),
           told'[c][k] \in {told[c][k], NoNews},
           \/ told'[c][k] = NoNews
           \/ L[k] = subs[k]
           \/ \E d \in Clients \ {c} : L[k] = Without(subs[k], d)
    PROVE  LeaveOf(j)' /\ BeliefOf(c, k)'
<1>0. /\ subs \in [Keys -> Seq(Cells)] /\ who \in [Cells -> Clients \cup {Nobody}]
      /\ ptr \in [Jobs -> Cells \cup {NoCell}]
      /\ \A l \in Keys : Len(subs[l]) \in Nat /\ Len(L[l]) \in Nat
  BY LenProperties DEF TypeOK, TableType, JobType
<1>1. /\ subs' = L
      /\ \A l \in Keys : \A p \in 1..Len(L[l]) :
           /\ who'[L[l][p]] = who[L[l][p]]
           /\ \E q \in 1..Len(subs[l]) : L[l][p] = subs[l][q]
  <2>1. subs' = L
    BY DEF SetLists
  <2>2. ASSUME NEW l \in Keys, NEW p \in 1..Len(L[l])
        PROVE  /\ who'[L[l][p]] = who[L[l][p]]
               /\ \E q \in 1..Len(subs[l]) : L[l][p] = subs[l][q]
    <3>1. who'[L[l][p]] = who[L[l][p]]
      BY SetListsWho
    <3>2. \E q \in {p, p + 1} : q \in 1..Len(subs[l]) /\ L[l][p] = subs[l][q]
      BY <1>0 DEF Thinned
    <3> QED BY <3>1, <3>2
  <2> QED BY <2>1, <2>2
<1>2. /\ pc'[j] \in Walks <=> pc[j] \in Walks
      /\ Op(j)' = Op(j) /\ Key(j)' = Key(j) /\ ptr'[j] = ptr[j] /\ fd'[j] = fd[j]
      /\ pc'[j] = "write" => pc[j] = "write"
      /\ pc[j] = "next" <=> pc'[j] = "next"
      /\ pc[j] = "broken" => pc'[j] = "broken"
      /\ Removing(j, k)' <=> Removing(j, k)
  BY SameJobFacts DEF SameJob, Walks
<1>3. ASSUME pc[j] \in Walks
      PROVE  /\ Key(j) \in Keys
             /\ \E x \in 1..Len(L[Key(j)]) : L[Key(j)][x] = ptr[j]
             /\ who'[ptr[j]] = who[ptr[j]]
  <2>1. /\ Key(j) \in Keys /\ ptr[j] # NoCell /\ ptr[j] \in Cells
        /\ \E p \in 1..Len(subs[Key(j)]) : subs[Key(j)][p] = ptr[j]
    BY <1>3, StandFacts, NoneAssumption DEF ControlInv, ControlOf
  <2>2. who'[ptr[j]] # Nobody
    BY <2>1 DEF SetLists
  <2>3. PICK l \in Keys : \E x \in 1..Len(L[l]) : L[l][x] = ptr[j]
    BY <2>1, <2>2 DEF SetLists
  <2>4. PICK x \in 1..Len(L[l]) : L[l][x] = ptr[j]
    BY <2>3
  <2>5. PICK q \in 1..Len(subs[l]) : subs[l][q] = ptr[j]
    BY <1>1, <2>4
  <2>6. PICK p \in 1..Len(subs[Key(j)]) : subs[Key(j)][p] = ptr[j]
    BY <2>1
  <2>7. l = Key(j)
    <3>1. subs[l][q] = subs[Key(j)][p]
      BY <2>5, <2>6
    <3> QED BY <2>1, <3>1 DEF CellsInv
  <2> QED BY <1>1, <2>1, <2>4, <2>7
<1>4. LeaveOf(j)'
  <2> SUFFICES ASSUME pc'[j] \in Walks, Op(j)' = "DELETE"
               PROVE  /\ \E p \in 1..Len(subs'[Key(j)']) : subs'[Key(j)'][p] = ptr'[j]
                      /\ pc'[j] = "write" => fd'[j] = who'[ptr'[j]]
    BY DEF LeaveOf
  <2>1. pc[j] = "write" => fd[j] = who[ptr[j]]
    BY <1>2 DEF LeaveOf
  <2> QED BY <1>1, <1>2, <1>3, <2>1
<1>5. ASSUME told'[c][k] \in Values PROVE BeliefOf(c, k)'
  <2>0. told[c][k] \in Values /\ told'[c][k] # NoNews
    BY <1>5, NoValueAssumption
  <2>1. \A q \in 1..Len(subs[k]) : who[subs[k][q]] = c =>
          \E y \in 1..Len(L[k]) : L[k][y] = subs[k][q]
    <3>1. CASE L[k] = subs[k]
      BY <3>1
    <3>2. ASSUME NEW d \in Clients \ {c}, L[k] = Without(subs[k], d)
          PROVE  \A q \in 1..Len(subs[k]) : who[subs[k][q]] = c =>
                   \E y \in 1..Len(L[k]) : L[k][y] = subs[k][q]
      BY <1>0, <3>2, WithoutCells
    <3> QED BY <2>0, <3>1, <3>2
  <2>2. PICK q0 \in 1..Len(subs[k]) : who[subs[k][q0]] = c
    BY <2>0 DEF BeliefOf, Subscribers
  <2>3. PICK y0 \in 1..Len(L[k]) : L[k][y0] = subs[k][q0]
    BY <2>1, <2>2
  <2>4. c \in Subscribers(k)'
    BY <1>1, <2>2, <2>3 DEF Subscribers
  <2>5. ASSUME Removing(j, k)' PROVE pc'[j] \in Walks /\ Ahead(j, c, k)'
    <3>1. pc[j] \in Walks /\ Ahead(j, c, k) /\ Key(j) = k
      BY <1>2, <2>0, <2>5 DEF BeliefOf, Removing
    <3>2. CASE pc[j] = "broken"
      BY <1>2, <3>1, <3>2 DEF Ahead
    <3>3. CASE pc[j] # "broken"
      <4>1. PICK p, q \in 1..Len(subs[k]) :
              /\ subs[k][p] = ptr[j] /\ who[subs[k][q]] = c
              /\ q > p \/ (q = p /\ pc[j] # "next")
        BY <3>1, <3>3 DEF Ahead
      <4>2. PICK x \in 1..Len(L[k]) : L[k][x] = ptr[j]
        BY <1>3, <3>1
      <4>3. PICK y \in 1..Len(L[k]) : L[k][y] = subs[k][q]
        BY <2>1, <4>1
      <4>4. (q > p => y > x) /\ (q = p => y = x)
        <5>1. L[k][x] = subs[k][p] /\ L[k][y] = subs[k][q]
          BY <4>1, <4>2, <4>3
        <5>2. Thinned(L[k], subs[k])
          OBVIOUS
        <5> QED BY <5>1, <5>2, ThinnedOrder, SMTT(30)
      <4>5. who'[L[k][y]] = c
        BY <1>1, <4>1, <4>3
      <4>6. y > x \/ (y = x /\ pc'[j] # "next")
        BY <1>2, <4>1, <4>4
      <4>7. \E m, n \in 1..Len(subs'[k]) :
              /\ subs'[k][m] = ptr'[j] /\ who'[subs'[k][n]] = c
              /\ n > m \/ (n = m /\ pc'[j] # "next")
        BY <1>1, <1>2, <4>2, <4>5, <4>6
      <4> QED BY <1>2, <3>1, <4>7 DEF Ahead
    <3> QED BY <3>2, <3>3
  <2> QED BY <2>4, <2>5 DEF BeliefOf
<1> QED BY <1>4, <1>5 DEF BeliefOf

\* The steps of the clients and of their handlers.
LEMMA ClientBelief ==
    ASSUME SafeInv, CellsInv, NEW j \in Jobs, Jobs = {j}, WalkOf(j), LeaveOf(j),
           ClientStep, ~dangling',
           NEW c \in Clients, NEW k \in Keys, BeliefOf(c, k)
    PROVE  LeaveOf(j)' /\ BeliefOf(c, k)'
<1> USE DEF SafeInv
<1>0. /\ subs \in [Keys -> Seq(Cells)]
      /\ told \in [Clients -> [Keys -> Values \cup {Deleted, NoNews, Lost}]]
      /\ SameJob(j) /\ told'[c][k] \in {told[c][k], NoNews}
      /\ \A l \in Keys : Len(subs[l]) \in Nat
  BY ClientFrame, LenProperties DEF TypeOK, TableType, ClientType
<1>1. CASE UNCHANGED <<subs, who>>
  BY <1>0, <1>1, SameBelief
<1>2. ASSUME NEW d \in Clients, NEW l \in Keys, kvs_unsubscribe(d, l)
      PROVE  LeaveOf(j)' /\ BeliefOf(c, k)'
  <2>1. PICK L \in [Keys -> Seq(Cells)] :
           /\ SetLists(L) /\ L = [subs EXCEPT ![l] = Without(subs[l], d)]
           /\ \A m \in Keys : Thinned(L[m], subs[m])
    BY <1>2, SetListsSteps
  <2>2. CASE l # k
    <3>1. L[k] = subs[k]
      BY <1>0, <2>1, <2>2
    <3> QED BY <1>0, <2>1, <3>1, ThinnedBelief
  <2>3. CASE l = k /\ d # c
    <3>1. L[k] = Without(subs[k], d) /\ d \in Clients \ {c}
      BY <1>0, <2>1, <2>3
    <3> QED BY <1>0, <2>1, <3>1, ThinnedBelief
  <2>4. CASE l = k /\ d = c
    <3>1. told'[c][k] = NoNews
      BY <1>0, <1>2, <2>4 DEF kvs_unsubscribe
    <3> QED BY <1>0, <2>1, <3>1, ThinnedBelief
  <2> QED BY <2>2, <2>3, <2>4
<1>3. ASSUME NEW d \in Clients, kvs_disconnect_client(d)
      PROVE  LeaveOf(j)' /\ BeliefOf(c, k)'
  <2>1. PICK L \in [Keys -> Seq(Cells)] :
           /\ SetLists(L) /\ L = [m \in Keys |-> Without(subs[m], d)]
           /\ \A m \in Keys : Thinned(L[m], subs[m])
    BY <1>3, SetListsSteps
  <2>2. CASE d # c
    <3>1. L[k] = Without(subs[k], d) /\ d \in Clients \ {c}
      BY <2>1, <2>2
    <3> QED BY <1>0, <2>1, <3>1, ThinnedBelief
  <2>3. CASE d = c
    <3>1. told'[c][k] = NoNews
      BY <1>0, <1>3, <2>3 DEF kvs_disconnect_client
    <3> QED BY <1>0, <2>1, <3>1, ThinnedBelief
  <2> QED BY <2>2, <2>3
<1>4. CASE delete_all_subscriptions
  <2>1. PICK L \in [Keys -> Seq(Cells)] :
           SetLists(L) /\ \A m \in Keys : Thinned(L[m], subs[m])
    BY <1>4, SetListsSteps
  <2>2. told'[c][k] = NoNews
    BY <1>4 DEF delete_all_subscriptions
  <2> QED BY <1>0, <2>1, <2>2, ThinnedBelief
<1>5. ASSUME NEW d \in Clients, NEW l \in Keys, kvs_subscribe(d, l), value[l] # Absent
      PROVE  LeaveOf(j)' /\ BeliefOf(c, k)'
  <2>1. PICK x \in FreeCells :
           /\ \A m \in Keys \ {l} : subs'[m] = subs[m]
           /\ Len(subs'[l]) = Len(subs[l]) + 1
           /\ \A p \in 1..Len(subs[l]) : subs'[l][p] = subs[l][p]
           /\ \A m \in Keys : \A p \in 1..Len(subs[m]) :
                who'[subs[m][p]] = who[subs[m][p]]
    BY <1>5, SubscribeCells
  <2>2. \A m \in Keys : \A p \in 1..Len(subs[m]) :
          /\ p \in 1..Len(subs'[m]) /\ subs'[m][p] = subs[m][p]
          /\ who'[subs'[m][p]] = who[subs[m][p]]
    <3> SUFFICES ASSUME NEW m \in Keys, NEW p \in 1..Len(subs[m])
                 PROVE  /\ p \in 1..Len(subs'[m]) /\ subs'[m][p] = subs[m][p]
                        /\ who'[subs'[m][p]] = who[subs[m][p]]
      OBVIOUS
    <3>1. p \in 1..Len(subs'[m]) /\ subs'[m][p] = subs[m][p]
      BY <1>0, <2>1
    <3> QED BY <2>1, <3>1
  <2>3. UNCHANGED jobVars
    BY <1>5 DEF kvs_subscribe
  <2>4. LeaveOf(j)'
    <3> SUFFICES ASSUME pc[j] \in Walks, Op(j) = "DELETE"
                 PROVE  /\ \E p \in 1..Len(subs'[Key(j)]) : subs'[Key(j)][p] = ptr[j]
                        /\ pc[j] = "write" => fd[j] = who'[ptr[j]]
      BY <2>3 DEF LeaveOf, jobVars, Op, Key
    <3>1. Key(j) \in Keys /\ (pc[j] = "write" => fd[j] = who[ptr[j]])
      BY StandFacts
    <3>2. PICK p \in 1..Len(subs[Key(j)]) : subs[Key(j)][p] = ptr[j]
      BY StandFacts
    <3> QED BY <2>2, <3>1, <3>2
  <2>5. ASSUME told'[c][k] \in Values PROVE BeliefOf(c, k)'
    <3>1. told[c][k] \in Values
      BY <1>0, <2>5, NoValueAssumption
    <3>2. c \in Subscribers(k)'
      <4>1. PICK q \in 1..Len(subs[k]) : who[subs[k][q]] = c
        BY <3>1 DEF BeliefOf, Subscribers
      <4> QED BY <2>2, <4>1 DEF Subscribers
    <3>3. ASSUME Removing(j, k)' PROVE pc'[j] \in Walks /\ Ahead(j, c, k)'
      <4>1. pc[j] \in Walks /\ Ahead(j, c, k)
        BY <1>0, <3>1, <3>3, SameJobFacts DEF BeliefOf
      <4>2. CASE pc[j] = "broken"
        BY <2>3, <4>1, <4>2 DEF Ahead, jobVars
      <4>3. CASE pc[j] # "broken"
        <5>1. PICK p, q \in 1..Len(subs[k]) :
                /\ subs[k][p] = ptr[j] /\ who[subs[k][q]] = c
                /\ q > p \/ (q = p /\ pc[j] # "next")
          BY <4>1, <4>3 DEF Ahead
        <5>2. \E m, n \in 1..Len(subs'[k]) :
                /\ subs'[k][m] = ptr[j] /\ who'[subs'[k][n]] = c
                /\ n > m \/ (n = m /\ pc[j] # "next")
          BY <2>2, <5>1
        <5> QED BY <2>3, <4>1, <5>2 DEF Ahead, jobVars
      <4> QED BY <4>2, <4>3
    <3> QED BY <3>2, <3>3 DEF BeliefOf
  <2> QED BY <2>4, <2>5 DEF BeliefOf
<1>6. ASSUME NEW d \in Clients, NEW l \in Keys, kvs_subscribe(d, l), value[l] = Absent
      PROVE  UNCHANGED <<subs, who>>
  BY <1>6 DEF kvs_subscribe
<1>7. ASSUME NEW d \in Clients, Connect(d) \/ Listen(d) \/ Gone(d)
      PROVE  UNCHANGED <<subs, who>>
  BY <1>7 DEF Connect, Listen, Gone, tableVars
<1>8. HandlerWildHead => UNCHANGED <<subs, who>>
  BY DEF HandlerWildHead, tableVars
<1> QED BY <1>1, <1>2, <1>3, <1>4, <1>5, <1>6, <1>7, <1>8 DEF ClientStep

\* The steps of the job before and after its notification loop.
LEMMA OutsideBelief ==
    ASSUME SafeInv, CellsInv, NEW j \in Jobs, Jobs = {j}, LeaveOf(j), Outside(j),
           \A c \in Clients, k \in Keys : BeliefOf(c, k)
    PROVE  LeaveOf(j)' /\ \A c \in Clients, k \in Keys : BeliefOf(c, k)'
<1> USE DEF SafeInv
<1>0. /\ UNCHANGED <<value, subs, who, told>>
      /\ pc \in [Jobs -> Locs] /\ cmd \in [Jobs -> Commands \cup {NoCmd}]
      /\ subs \in [Keys -> Seq(Cells)] /\ ControlOf(j)
  BY OutsideFacts DEF TypeOK, JobType, TableType, ControlInv
<1>1. ASSUME NEW c \in Clients, NEW k \in Keys,
             told[c][k] \in Values =>
               (Removing(j, k)' => pc'[j] \in Walks /\ Ahead(j, c, k)')
      PROVE  BeliefOf(c, k)'
  <2>1. c \in Subscribers(k) => c \in Subscribers(k)'
    BY <1>0 DEF Subscribers
  <2>2. BeliefOf(c, k)
    OBVIOUS
  <2> QED BY <1>0, <1>1, <2>1, <2>2 DEF BeliefOf
<1>2. ASSUME pc'[j] \notin Walks, \A k : Removing(j, k)' => Removing(j, k) /\ pc[j] \notin Walks
      PROVE  LeaveOf(j)' /\ \A c \in Clients, k \in Keys : BeliefOf(c, k)'
  <2>1. LeaveOf(j)'
    BY <1>2 DEF LeaveOf
  <2>2. ASSUME NEW c \in Clients, NEW k \in Keys, told[c][k] \in Values PROVE ~Removing(j, k)'
    <3>1. BeliefOf(c, k)
      OBVIOUS
    <3> QED BY <1>2, <2>2, <3>1 DEF BeliefOf
  <2> QED BY <1>1, <2>1, <2>2
<1>3. ASSUME pc'[j] \in {"idle", "find", "rdlock", "look", "unlock"}
      PROVE  LeaveOf(j)' /\ \A c \in Clients, k \in Keys : BeliefOf(c, k)'
  BY <1>2, <1>3 DEF Removing, Walks
<1>4. CASE Rdlock(j) \/ Fork(j) \/ Unlock(j)
  <2>1. pc'[j] \in {"look", "unlock", "idle"}
    BY <1>0, <1>4 DEF Rdlock, Fork, Unlock, Goto
  <2> QED BY <1>3, <2>1
<1>5. CASE LookUp(j)
  <2>1. NextPair(j, "look")
    BY <1>5 DEF LookUp
  <2>2. pc'[j] \in {"look", "unlock"}
    BY <2>1, NextPairCases DEF Locs
  <2> QED BY <1>3, <2>2
<1>6. ASSUME NEW d \in Commands, run_job(j, d)
      PROVE  LeaveOf(j)' /\ \A c \in Clients, k \in Keys : BeliefOf(c, k)'
  <2>1. /\ pc'[j] = CASE d.op = "WRITE" -> "wrlock"
                      [] d.op = "DELETE" -> "find"
                      [] OTHER -> "rdlock"
        /\ Op(j)' = d.op
    BY <1>0, <1>6 DEF run_job, Goto, Op
  <2>2. pc'[j] \notin Walks /\ (Op(j)' = "DELETE" => pc'[j] = "find")
    BY <2>1 DEF Walks
  <2>3. \A k : ~Removing(j, k)'
    BY <2>2 DEF Removing, Walks
  <2> QED BY <1>2, <2>2, <2>3
<1>7. CASE Wrlock(j)
  <2>1. /\ pc[j] = "wrlock" /\ pc'[j] \in {"put", "drop"} /\ UNCHANGED <<cmd, idx>>
    BY <1>0, <1>7 DEF Wrlock, Goto
  <2>2. pc'[j] \notin Walks /\ pc[j] \notin Walks
    BY <2>1 DEF Walks
  <2>3. \A k : Removing(j, k)' => Removing(j, k)
    BY <2>1 DEF Removing, Op, Key
  <2> QED BY <1>2, <2>2, <2>3
<1>8. CASE Find(j)
  <2>0. PICK l \in Keys : l = Key(j)
    BY <1>8, BusyFacts DEF Find
  <2>1. /\ Op(j) = "DELETE" /\ l \in Keys /\ pc[j] = "find" /\ UNCHANGED <<cmd, fd>>
        /\ Follow(j, IF value[l] = Absent THEN NoCell ELSE First(l))
    BY <1>0, <1>8, <2>0 DEF Find, ControlOf
  <2>2. First(l) \in Cells \cup {NoCell} /\ subs[l] \in Seq(Cells)
    BY <1>0, <2>1, FirstType
  <2>3. \A k : Removing(j, k)' => k = l
    <3>1. idx'[j] = idx[j]
      BY <2>1, <2>2, FollowEnds
    <3> QED BY <2>0, <2>1, <3>1 DEF Removing, Key
  <2>4. CASE subs[l] = <<>>
    <3>1. Follow(j, NoCell)
      BY <2>1, <2>4 DEF First
    <3>2. pc'[j] \notin Walks
      BY <2>1, <3>1, FollowCases, FollowEnds, NoneAssumption DEF Walks
    <3>3. \A c : c \notin Subscribers(l)
      BY <2>4, EmptySeq DEF Subscribers
    <3>4. \A c \in Clients : told[c][l] \notin Values
      BY <2>1, <3>3 DEF BeliefOf
    <3>5. LeaveOf(j)'
      BY <3>2 DEF LeaveOf
    <3> QED BY <1>1, <2>3, <3>4, <3>5
  <2>5. CASE subs[l] # <<>>
    <3>1. value[l] # Absent
      BY <2>1, <2>5 DEF CellsInv
    <3>2. 1 \in 1..Len(subs[l]) /\ subs[l][1] \in Cells /\ subs[l][1] # NoCell
      BY <2>2, <2>5, EmptySeq, LenProperties, ElementOfSeq, NoneAssumption
    <3>3. Follow(j, subs[l][1])
      BY <2>1, <2>5, <3>1 DEF First
    <3>4. pc'[j] = "open" /\ ptr'[j] = subs[l][1] /\ idx'[j] = idx[j]
      BY <3>2, <3>3, FollowEnds
    <3>5. LeaveOf(j)'
      <4>1. Key(j)' = l /\ subs' = subs
        BY <1>0, <2>0, <2>1, <3>4 DEF Key
      <4>2. \E p \in 1..Len(subs'[l]) : subs'[l][p] = ptr'[j]
        BY <3>2, <3>4, <4>1
      <4> QED BY <3>4, <4>1, <4>2 DEF LeaveOf
    <3>6. ASSUME NEW c \in Clients, told[c][l] \in Values
          PROVE  pc'[j] \in Walks /\ Ahead(j, c, l)'
      <4>1. BeliefOf(c, l)
        BY <2>1
      <4>2. PICK q \in 1..Len(subs[l]) : who[subs[l][q]] = c
        BY <3>6, <4>1 DEF BeliefOf, Subscribers
      <4>3. q > 1 \/ q = 1
        OBVIOUS
      <4>4. \E m, n \in 1..Len(subs'[l]) :
              /\ subs'[l][m] = ptr'[j] /\ who'[subs'[l][n]] = c
              /\ n > m \/ (n = m /\ pc'[j] # "next")
        BY <1>0, <3>2, <3>4, <4>2, <4>3
      <4> QED BY <3>4, <4>4 DEF Ahead, Walks
    <3> QED BY <1>1, <2>3, <3>5, <3>6
  <2> QED BY <2>4, <2>5
<1> QED BY <1>4, <1>5, <1>6, <1>7, <1>8 DEF Outside

\* The steps of the loop: a DELETE tells the client of its cell that the key is
\* gone, or goes on to the next; a WRITE tells a subscriber.
LEMMA LoopBelief ==
    ASSUME SafeInv, CellsInv, NEW j \in Jobs, Jobs = {j}, WalkOf(j), LeaveOf(j),
           OpenNotif(j) \/ WriteNotif(j) \/ NextCell(j) \/ DanglingCell(j),
           \A c \in Clients, k \in Keys : BeliefOf(c, k)
    PROVE  LeaveOf(j)' /\ \A c \in Clients, k \in Keys : BeliefOf(c, k)'
<1> USE DEF SafeInv
<1> DEFINE l == Key(j)
<1>0. /\ pc \in [Jobs -> Locs] /\ fd \in [Jobs -> Clients \cup {Nobody}]
      /\ told \in [Clients -> [Keys -> Values \cup {Deleted, NoNews, Lost}]]
      /\ subs \in [Keys -> Seq(Cells)]
      /\ cmd' = cmd /\ UNCHANGED <<value, subs, who>> /\ pc[j] \in Walks
      /\ Op(j)' = Op(j)
  BY DEF TypeOK, JobType, TableType, ClientType, OpenNotif, WriteNotif, NextCell,
     DanglingCell, tableVars, Walks, Op
<1>1. /\ l \in Keys /\ Op(j) \in {"WRITE", "DELETE"}
      /\ who[ptr[j]] \in Clients /\ ptr[j] \notin FreeCells
      /\ who[ptr[j]] \in Subscribers(l)
      /\ pc[j] = "write" => fd[j] = who[ptr[j]]
  BY <1>0, StandFacts
<1>2. PICK p \in 1..Len(subs[l]) : subs[l][p] = ptr[j]
  BY <1>0, StandFacts
<1>3. \A q \in 1..Len(subs[l]) : subs[l][q] = ptr[j] => q = p
  BY <1>1, <1>2 DEF CellsInv
<1>4. Len(subs[l]) \in Nat /\ \A k \in Keys : Subscribers(k)' = Subscribers(k)
  BY <1>0, <1>1, LenProperties DEF Subscribers
<1>5. ASSUME NEW c \in Clients, NEW k \in Keys,
             told'[c][k] = told[c][k] \/ told'[c][k] \notin Values \/ c \in Subscribers(k),
             told'[c][k] \in Values =>
               (Removing(j, k)' => pc'[j] \in Walks /\ Ahead(j, c, k)')
      PROVE  BeliefOf(c, k)'
  <2>1. BeliefOf(c, k)
    OBVIOUS
  <2>2. told'[c][k] \in Values => c \in Subscribers(k)'
    BY <1>4, <1>5, <2>1 DEF BeliefOf
  <2> QED BY <1>5, <2>2 DEF BeliefOf
<1>6. ASSUME NEW c \in Clients, told[c][l] \in Values, Op(j) = "DELETE"
      PROVE  Ahead(j, c, l)
  <2>1. BeliefOf(c, l)
    BY <1>1
  <2>2. Removing(j, l)
    BY <1>0, <1>6 DEF Removing
  <2> QED BY <1>6, <2>1, <2>2 DEF BeliefOf
<1> HIDE DEF l
<1>7. CASE OpenNotif(j)
  <2>1. /\ pc[j] = "open" /\ UNCHANGED <<idx, ptr>>
        /\ \/ pc'[j] = "write" /\ told' = told /\ fd'[j] = who[ptr[j]]
           \/ pc'[j] = "next" /\ told' = [told EXCEPT ![who[ptr[j]]][l] = Lost]
    BY <1>0, <1>7 DEF OpenNotif, Goto, l
  <2>2. Key(j)' = l /\ pc'[j] \in Walks
    BY <1>0, <2>1 DEF Key, Walks, l
  <2>3. LeaveOf(j)'
    BY <1>0, <1>2, <2>1, <2>2 DEF LeaveOf
  <2>4. ASSUME NEW c \in Clients, NEW k \in Keys PROVE BeliefOf(c, k)'
    <3>1. told'[c][k] = told[c][k] \/ told'[c][k] \notin Values
      <4>1. told' = [told EXCEPT ![who[ptr[j]]][l] = Lost]
            => told'[c][k] = told[c][k] \/ told'[c][k] = Lost
        BY <1>0, <1>1
      <4> QED BY <2>1, <4>1, NoValueAssumption
    <3>2. ASSUME told'[c][k] \in Values, Removing(j, k)' PROVE Ahead(j, c, k)'
      <4>1. k = l /\ told[c][l] \in Values /\ Op(j) = "DELETE"
        BY <1>0, <2>2, <3>1, <3>2 DEF Removing
      <4>2. PICK q \in 1..Len(subs[l]) : who[subs[l][q]] = c /\ (q > p \/ q = p)
        BY <1>3, <1>6, <2>1, <4>1 DEF Ahead
      <4>3. q > p \/ (q = p /\ pc'[j] # "next")
        <5>1. CASE pc'[j] = "write"
          BY <4>2, <5>1
        <5>2. CASE pc'[j] = "next"
          <6>1. told'[who[ptr[j]]][l] = Lost
            BY <1>0, <1>1, <2>1, <5>2
          <6>2. c # who[ptr[j]]
            BY <3>2, <4>1, <6>1, NoValueAssumption
          <6> QED BY <1>2, <4>2, <6>2
        <5> QED BY <2>1, <5>1, <5>2
      <4>4. \E m, n \in 1..Len(subs'[l]) :
              /\ subs'[l][m] = ptr'[j] /\ who'[subs'[l][n]] = c
              /\ n > m \/ (n = m /\ pc'[j] # "next")
        BY <1>0, <1>2, <2>1, <4>2, <4>3
      <4> QED BY <4>1, <4>4 DEF Ahead
    <3> QED BY <1>5, <2>2, <3>1, <3>2
  <2> QED BY <2>3, <2>4
<1>8. CASE WriteNotif(j)
  <2>1. /\ pc[j] = "write" /\ UNCHANGED <<idx, ptr>> /\ pc'[j] = "next"
        /\ \E n \in {IF Op(j) = "WRITE" THEN cmd[j].vals[idx[j]] ELSE Deleted, Lost} :
             told' = [told EXCEPT ![who[ptr[j]]][l] = n]
    BY <1>0, <1>1, <1>8 DEF WriteNotif, Goto, l
  <2>2. Key(j)' = l /\ pc'[j] \in Walks
    BY <1>0, <2>1 DEF Key, Walks, l
  <2>3. LeaveOf(j)'
    BY <1>0, <1>2, <2>1, <2>2 DEF LeaveOf
  <2>4. ASSUME NEW c \in Clients, NEW k \in Keys PROVE BeliefOf(c, k)'
    <3>1. told'[c][k] = told[c][k] \/ (c = who[ptr[j]] /\ k = l)
      BY <1>0, <1>1, <2>1
    <3>2. told'[c][k] = told[c][k] \/ c \in Subscribers(k)
      BY <1>1, <3>1
    <3>3. ASSUME told'[c][k] \in Values, Removing(j, k)' PROVE Ahead(j, c, k)'
      <4>1. k = l /\ Op(j) = "DELETE"
        BY <1>0, <2>2, <3>3 DEF Removing
      <4>2. told'[who[ptr[j]]][l] \in {Deleted, Lost}
        BY <1>0, <1>1, <2>1, <4>1
      <4>3. c # who[ptr[j]]
        BY <3>3, <4>1, <4>2, NoValueAssumption
      <4>4. told[c][l] \in Values
        BY <3>1, <3>3, <4>1, <4>3
      <4>5. PICK q \in 1..Len(subs[l]) : who[subs[l][q]] = c /\ (q > p \/ q = p)
        BY <1>3, <1>6, <2>1, <4>1, <4>4 DEF Ahead
      <4>6. q > p
        BY <1>2, <4>3, <4>5
      <4>7. \E m, n \in 1..Len(subs'[l]) :
              /\ subs'[l][m] = ptr'[j] /\ who'[subs'[l][n]] = c
              /\ n > m \/ (n = m /\ pc'[j] # "next")
        BY <1>0, <1>2, <2>1, <4>5, <4>6
      <4> QED BY <4>1, <4>7 DEF Ahead
    <3> QED BY <1>5, <2>2, <3>2, <3>3
  <2> QED BY <2>3, <2>4
<1>9. CASE NextCell(j)
  <2>0. told' = told /\ pc[j] = "next"
    BY <1>9 DEF NextCell, clientVars
  <2>1. p \in 1..Len(subs[Key(j)]) /\ subs[Key(j)][p] = ptr[j]
    BY <1>2 DEF l
  <2>2. CASE Op(j) = "WRITE"
    <3>1. LeaveOf(j)' /\ \A k : ~Removing(j, k)'
      BY <1>0, <2>2 DEF LeaveOf, Removing
    <3> QED BY <1>5, <2>0, <3>1
  <2>3. CASE Op(j) = "DELETE" /\ p < Len(subs[l])
    <3>1. pc'[j] = "open" /\ idx'[j] = idx[j] /\ ptr'[j] = subs[l][p + 1]
      BY <1>9, <2>1, <2>3, TellNext DEF l
    <3>2. Key(j)' = l /\ pc'[j] \in Walks /\ p + 1 \in 1..Len(subs[l])
      BY <1>0, <1>4, <2>3, <3>1 DEF Key, Walks, l
    <3>3. LeaveOf(j)'
      BY <1>0, <3>1, <3>2 DEF LeaveOf
    <3>4. ASSUME NEW c \in Clients, NEW k \in Keys, told[c][k] \in Values, Removing(j, k)'
          PROVE  Ahead(j, c, k)'
      <4>1. k = l
        BY <3>2, <3>4 DEF Removing
      <4>2. PICK q \in 1..Len(subs[l]) : who[subs[l][q]] = c /\ q > p
        BY <1>3, <1>6, <2>0, <2>3, <3>4, <4>1 DEF Ahead
      <4>3. q > p + 1 \/ q = p + 1
        BY <1>4, <4>2
      <4>4. \E m, n \in 1..Len(subs'[l]) :
              /\ subs'[l][m] = ptr'[j] /\ who'[subs'[l][n]] = c
              /\ n > m \/ (n = m /\ pc'[j] # "next")
        BY <1>0, <3>1, <3>2, <4>2, <4>3
      <4> QED BY <4>1, <4>4 DEF Ahead
    <3> QED BY <1>5, <2>0, <3>2, <3>3, <3>4
  <2>4. CASE Op(j) = "DELETE" /\ ~(p < Len(subs[l]))
    <3>1. pc'[j] = "wrlock"
      BY <1>9, <2>1, <2>4, TellNext DEF l
    <3>2. idx'[j] = idx[j]
      <4>1. PICK x \in Cells \cup {NoCell} : Follow(j, x)
        BY <1>9, WalkFacts
      <4> QED BY <2>4, <4>1, FollowEnds
    <3>3. Key(j)' = l /\ pc'[j] \notin Walks
      BY <1>0, <3>1, <3>2 DEF Key, Walks, l
    <3>4. LeaveOf(j)'
      BY <3>3 DEF LeaveOf
    <3>5. \A c \in Clients : told[c][l] \notin Values
      BY <1>3, <1>4, <1>6, <2>0, <2>4 DEF Ahead
    <3>6. \A k : Removing(j, k)' => k = l
      BY <3>3 DEF Removing
    <3> QED BY <1>5, <2>0, <3>4, <3>5, <3>6
  <2> QED BY <1>1, <2>2, <2>3, <2>4
<1>10. ~DanglingCell(j)
  BY <1>1 DEF DanglingCell
<1> QED BY <1>7, <1>8, <1>9, <1>10

\* That a cell was freed under a loop is never forgotten.
LEMMA DanglingStays ==
    ASSUME [Next]_vars, dangling
    PROVE  dangling'
<1>1. ASSUME NEW lists, SetLists(lists) PROVE dangling'
  BY <1>1 DEF SetLists
<1>2. ASSUME NEW j \in Jobs, NEW c \in Commands, run_job(j, c) PROVE dangling'
  BY <1>2 DEF run_job, ghosts
<1>3. ASSUME NEW j \in Jobs, JobStep(j) PROVE dangling'
  <2>1. CASE Drop(j)
    BY <1>1, <2>1 DEF Drop
  <2>2. CASE ~Drop(j)
    BY <1>3, <2>2 DEF JobStep, Wrlock, Overwrite, NewPair, Find, OpenNotif, WriteNotif,
       BrokenPipe, NextCell, DanglingCell, WildHead, Rdlock, LookUp, Fork, Unlock, ghosts
  <2> QED BY <2>1, <2>2
<1>4. ASSUME NEW c \in Clients, Connect(c) \/ Listen(c) \/ Gone(c) PROVE dangling'
  BY <1>4 DEF Connect, Listen, Gone, ghosts
<1>5. ASSUME NEW c \in Clients, kvs_disconnect_client(c) PROVE dangling'
  BY <1>1, <1>5 DEF kvs_disconnect_client
<1>6. ASSUME NEW c \in Clients, NEW k \in Keys, kvs_subscribe(c, k) \/ kvs_unsubscribe(c, k)
      PROVE  dangling'
  BY <1>1, <1>6 DEF kvs_subscribe, kvs_unsubscribe, ghosts
<1>7. delete_all_subscriptions => dangling'
  BY <1>1 DEF delete_all_subscriptions
<1>8. HandlerWildHead => dangling'
  BY DEF HandlerWildHead, ghosts
<1>9. CASE UNCHANGED vars
  BY <1>9 DEF vars, ghosts
<1> QED BY <1>2, <1>3, <1>4, <1>5, <1>6, <1>7, <1>8, <1>9 DEF Next, ClientStep

\* Every step of the one job, and of the clients, keeps what they believe
\* grounded in their subscriptions.
LEMMA StepBelief ==
    ASSUME SafeInv, CellsInv, WalkInv, BeliefInv, [Next]_vars, NEW j, Jobs = {j}
    PROVE  BeliefInv'
<1> SUFFICES ASSUME ~dangling'
             PROVE  LeaveOf(j)' /\ \A c \in Clients, k \in Keys : BeliefOf(c, k)'
  BY DEF BeliefInv
<1> USE DEF SafeInv
<1>0. j \in Jobs /\ WalkOf(j)
  BY DEF WalkInv
<1>1. LeaveOf(j) /\ \A c \in Clients, k \in Keys : BeliefOf(c, k)
  BY <1>0, DanglingStays DEF BeliefInv
<1>2. /\ pc \in [Jobs -> Locs] /\ subs \in [Keys -> Seq(Cells)]
      /\ \A k \in Keys : Len(subs[k]) \in Nat
      /\ told \in [Clients -> [Keys -> Values \cup {Deleted, NoNews, Lost}]]
  BY LenProperties DEF TypeOK, JobType, TableType, ClientType
<1>3. CASE ClientStep
  <2>1. ASSUME NEW c \in Clients, NEW k \in Keys PROVE LeaveOf(j)' /\ BeliefOf(c, k)'
    BY <1>0, <1>1, <1>3, ClientBelief
  <2>2. LeaveOf(j)'
    <3>1. CASE pc'[j] \in Walks
      <4>1. SameJob(j)
        BY <1>0, <1>3, ClientFrame
      <4>2. pc[j] \in Walks
        BY <3>1, <4>1 DEF SameJob, Walks
      <4>3. Key(j) \in Keys /\ who[ptr[j]] \in Clients
        BY <1>0, <1>1, <4>2, StandFacts
      <4> QED BY <2>1, <4>3
    <3>2. CASE pc'[j] \notin Walks
      BY <3>2 DEF LeaveOf
    <3> QED BY <3>1, <3>2
  <2> QED BY <2>1, <2>2
<1>4. ASSUME SameJob(j), UNCHANGED <<subs, who, told>>
      PROVE  LeaveOf(j)' /\ \A c \in Clients, k \in Keys : BeliefOf(c, k)'
  <2>1. ASSUME NEW c \in Clients, NEW k \in Keys PROVE LeaveOf(j)' /\ BeliefOf(c, k)'
    BY <1>0, <1>1, <1>4, SameBelief
  <2>2. LeaveOf(j)'
    <3>1. CASE pc'[j] \in Walks
      <4>1. pc[j] \in Walks
        BY <1>4, <3>1 DEF SameJob, Walks
      <4>2. Key(j) \in Keys /\ who[ptr[j]] \in Clients
        BY <1>0, <1>1, <4>1, StandFacts
      <4> QED BY <2>1, <4>2
    <3>2. CASE pc'[j] \notin Walks
      BY <3>2 DEF LeaveOf
    <3> QED BY <3>1, <3>2
  <2> QED BY <2>1, <2>2
<1>5. CASE UNCHANGED vars \/ BrokenPipe(j) \/ WildHead(j)
  <2>1. SameJob(j) /\ UNCHANGED <<subs, who, told>>
    BY <1>5 DEF vars, BrokenPipe, WildHead, SameJob, tableVars, clientVars
  <2> QED BY <1>4, <2>1
<1>6. CASE Outside(j)
  BY <1>0, <1>1, <1>6, OutsideBelief
<1>7. CASE OpenNotif(j) \/ WriteNotif(j) \/ NextCell(j) \/ DanglingCell(j)
  BY <1>0, <1>1, <1>7, LoopBelief
<1>8. CASE Overwrite(j) \/ NewPair(j)
  <2>1. UNCHANGED <<cmd, subs, who, told>> /\ Op(j) = "WRITE"
    BY <1>0, <1>8 DEF Overwrite, NewPair, clientVars, ControlInv, ControlOf
  <2>2. Op(j)' = "WRITE"
    BY <2>1 DEF Op
  <2>3. LeaveOf(j)' /\ \A k : ~Removing(j, k)'
    BY <2>2 DEF LeaveOf, Removing
  <2>4. ASSUME NEW c \in Clients, NEW k \in Keys PROVE BeliefOf(c, k)'
    <3>1. BeliefOf(c, k) /\ Subscribers(k)' = Subscribers(k)
      BY <1>1, <2>1 DEF Subscribers
    <3> QED BY <2>1, <2>3, <3>1 DEF BeliefOf
  <2> QED BY <2>3, <2>4
<1>9. CASE Drop(j)
  <2>0. PICK l \in Keys : l = Key(j)
    BY <1>0, <1>9, BusyFacts DEF Drop
  <2>1. /\ Op(j) = "DELETE" /\ pc[j] = "drop" /\ UNCHANGED <<cmd, told>>
        /\ NextPair(j, "find")
    BY <1>0, <1>9 DEF Drop, clientVars, ControlInv, ControlOf
  <2>2. pc'[j] \in {"find", "unlock"}
    BY <1>0, <2>1, NextPairCases DEF Locs
  <2>3. LeaveOf(j)' /\ \A k : ~Removing(j, k)'
    BY <2>2 DEF LeaveOf, Removing, Walks
  <2>4. PICK L \in [Keys -> Seq(Cells)] :
           /\ SetLists(L) /\ L = [subs EXCEPT ![l] = <<>>]
           /\ \A k \in Keys : Thinned(L[k], subs[k])
    BY <1>0, <1>9, <2>0, SetListsSteps
  <2>5. ASSUME NEW c \in Clients, NEW k \in Keys, told[c][k] \in Values
        PROVE  c \in Subscribers(k)'
    <3>1. c \in Subscribers(k) /\ (Removing(j, k) => pc[j] \in Walks)
      BY <1>0, <1>1, <2>5 DEF BeliefOf
    <3>2. k # l
      BY <2>0, <2>1, <3>1 DEF Removing, Walks
    <3>3. PICK q \in 1..Len(subs[k]) : who[subs[k][q]] = c
      BY <3>1 DEF Subscribers
    <3>4. L[k] = subs[k] /\ q \in 1..Len(L[k])
      BY <1>2, <2>4, <3>2
    <3>5. subs' = L /\ who'[L[k][q]] = who[L[k][q]]
      BY <2>4, <3>4, SetListsWho
    <3> QED BY <3>3, <3>4, <3>5 DEF Subscribers
  <2> QED BY <2>1, <2>3, <2>5 DEF BeliefOf
<1>10. \/ ClientStep \/ UNCHANGED vars \/ JobStep(j)
       \/ \E c \in Commands : run_job(j, c)
  BY DEF Next
<1>11. JobStep(j) => \/ BrokenPipe(j) \/ WildHead(j) \/ Outside(j)
                     \/ OpenNotif(j) \/ WriteNotif(j) \/ NextCell(j) \/ DanglingCell(j)
                     \/ Overwrite(j) \/ NewPair(j) \/ Drop(j)
  BY DEF JobStep, Outside
<1>12. (\E c \in Commands : run_job(j, c)) => Outside(j)
  BY DEF Outside
<1> QED BY <1>3, <1>5, <1>6, <1>7, <1>8, <1>9, <1>10, <1>11, <1>12

\* With one job, a client whose last news of a key was a value believes the
\* truth whenever that job is idle, unless a cell was freed under the job's
\* loop: every change is told, before the command ends, to whoever believes
\* otherwise.  With two jobs this is false (run store_race).
THEOREM OneJobNoFalseBelief ==
    ASSUME NEW j, Jobs = {j}
    PROVE  Spec => []NoFalseBelief
<1>1. Init => BeliefInv
  <2> SUFFICES ASSUME Init PROVE BeliefInv
    OBVIOUS
  <2>1. \A i \in Jobs : LeaveOf(i)
    BY DEF Init, LeaveOf, Walks
  <2>2. \A c \in Clients, k \in Keys : told[c][k] \notin Values
    BY NoValueAssumption DEF Init
  <2> QED BY <2>1, <2>2 DEF BeliefInv, BeliefOf
<1>2. SafeInv /\ CellsInv /\ WalkInv /\ BeliefInv /\ [Next]_vars => BeliefInv'
  BY StepBelief
<1>3. SafeInv /\ NewsInv /\ BeliefInv => NoFalseBelief
  <2> SUFFICES ASSUME SafeInv, NewsInv, BeliefInv, NEW c \in Clients, NEW k \in Keys,
                      told[c][k] \in Values, ~dangling, \A i \in Jobs : pc[i] = "idle"
               PROVE  value[k] = told[c][k]
    BY DEF NoFalseBelief
  <2>1. c \in Subscribers(k)
    BY DEF BeliefInv, BeliefOf
  <2>2. \A i \in Jobs : ~Removing(i, k) /\ ~Telling(i, k)
    BY DEF Removing, Telling, Walks
  <2>3. told[c][k] \in {NoNews, Lost, value[k]}
    BY <2>1, <2>2 DEF NewsInv, NewsOf
  <2> QED BY <2>3, NoValueAssumption
<1> QED BY <1>1, <1>2, <1>3, NewsInvariant, PTL DEF Spec
=============================================================================
