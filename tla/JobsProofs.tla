----------------------------- MODULE JobsProofs -----------------------------
(***************************************************************************)
(* Proofs about Jobs, for any directory, any number of job threads and     *)
(* buffers of any size: what Backups promises also holds when its commands *)
(* come from job files (JobsStep), no job file is run twice (ClaimInv),    *)
(* and what bck_name takes whole keeps backups apart while the directory   *)
(* fits into its buffer (BegunInv, and SameName about the snprintf).       *)
(***************************************************************************)
EXTENDS Jobs, BackupsProofs, SequenceTheorems

\* Every step of the job threads is a step of the backups, or none.
LEMMA JobsStep == [JobsNext]_jobsVars => [Next]_vars
<1> SUFFICES ASSUME [JobsNext]_jobsVars PROVE [Next]_vars
  OBVIOUS
<1>1. CASE ChildExit
  BY <1>1 DEF ChildExit, Next
<1>2. ASSUME NEW j \in Jobs, ThreadStep(j) PROVE [Next]_vars
  <2>1. CASE Command(j)
    BY <2>1 DEF Command, Next, JobStep
  <2>2. CASE NamedFork(j)
    BY <2>2 DEF NamedFork, Next, JobStep
  <2>3. CASE DirLock(j) \/ ReadDir(j) \/ EntryFiles(j) \/ EntryPaths(j) \/ DirUnlock(j)
             \/ Open(j) \/ BackupName(j) \/ EndOfFile(j) \/ Leave(j)
    BY <2>3 DEF DirLock, ReadDir, EntryFiles, EntryPaths, DirUnlock, Open, BackupName,
                EndOfFile, Leave
  <2> QED BY <1>2, <2>1, <2>2, <2>3 DEF ThreadStep
<1>3. CASE UNCHANGED jobsVars
  BY <1>3 DEF jobsVars
<1> QED BY <1>1, <1>2, <1>3 DEF JobsNext

\* The number of children is bounded whatever the job files and the directory.
THEOREM JobsChildrenBounded == JobsSpec => []ChildrenBounded
<1>1. JobsInit => Init
  BY DEF JobsInit
<1>2. Inv => ChildrenBounded
  BY DEF Inv
<1> QED BY <1>1, <1>2, JobsStep, Safety, PTL DEF JobsSpec

-----------------------------------------------------------------------------
\* A pointer into the buffer leads to a part of an entry, and a character of it
\* or the end of an empty one.
LEMMA PointerFacts ==
    ASSUME NEW p \in Pointers
    PROVE  /\ p.entry \in Entries /\ p.entry \in Seq(Seq(Chars))
           /\ p.part \in 1..Len(p.entry) /\ p.from \in Nat \ {0}
<1>1. PICK e \in Entries : p \in {StartOf(e)} \cup Within(e)
  BY DEF Pointers
<1>2. e \in Seq(Seq(Chars)) /\ Len(e) \in Nat \ {0}
  BY EntriesAssumption, EmptySeq
<1>3. CASE p = StartOf(e)
  BY <1>2, <1>3 DEF StartOf
<1>4. CASE p \in Within(e)
  <2>1. PICK i \in 1..Len(e) : p \in {[entry |-> e, part |-> i, from |-> k] : k \in 1..Len(e[i])}
    BY <1>4 DEF Within
  <2>2. PICK k \in 1..Len(e[i]) : p = [entry |-> e, part |-> i, from |-> k]
    BY <2>1
  <2>3. e[i] \in Seq(Chars) /\ Len(e[i]) \in Nat
    BY <1>2, <2>1
  <2>4. k \in Nat \ {0} /\ p.entry = e /\ p.part = i /\ p.from = k
    BY <2>2, <2>3
  <2> QED BY <1>2, <2>1, <2>4
<1> QED BY <1>1, <1>3, <1>4

\* A thread's own d_name leads to the start of its entry.
LEMMA StartIsPointer ==
    ASSUME NEW e \in Entries
    PROVE  StartOf(e) \in Pointers /\ StartOf(e).entry = e
BY DEF Pointers, StartOf

\* The token is made of characters of the name.
LEMMA TokenType ==
    ASSUME NEW p \in Pointers \cup {Elsewhere}
    PROVE  Token(p) \in Seq(Chars)
<1>1. CASE p = Elsewhere \/ TokenPart(p) = {}
  BY <1>1, EmptySeq DEF Token
<1>2. CASE p # Elsewhere /\ TokenPart(p) # {}
  <2>1. First(p) \in TokenPart(p)
    BY <1>2 DEF First
  <2>2. First(p) \in (p.part)..Len(p.entry) /\ p.entry[First(p)] \in Seq(Chars)
    BY <1>2, <2>1, PointerFacts DEF TokenPart
  <2>3. CASE First(p) = p.part
    <3> DEFINE w == p.entry[First(p)]
    <3>1. w \in Seq(Chars) /\ p.from \in Nat \ {0} /\ Len(w) \in Nat
      BY <1>2, <2>2, PointerFacts
    <3>2. \A i \in (p.from)..Len(w) : w[i] \in Chars
      BY <3>1
    <3>3. SubSeq(w, p.from, Len(w)) \in Seq(Chars)
      <4> HIDE DEF w
      <4> QED BY <3>1, <3>2, SubSeqProperties
    <3> QED BY <1>2, <2>3, <3>3 DEF Token, Rest
  <2>4. CASE First(p) # p.part
    BY <1>2, <2>2, <2>4 DEF Token, Rest
  <2> QED BY <2>3, <2>4
<1> QED BY <1>1, <1>2

\* The '\0' of strtok leaves some part of a name, and the other names alone.
LEMMA CutFacts ==
    ASSUME NEW p \in Pointers \cup {Elsewhere}, left \in [Entries -> Nat],
           \A e \in Entries : left[e] \in 1..Len(e)
    PROVE  /\ Cut(p) \in [Entries -> Nat] /\ \A e \in Entries : Cut(p)[e] \in 1..Len(e)
           /\ \A e \in Entries : Cut(p)[e] = left[e] \/ (p # Elsewhere /\ e = p.entry)
<1>1. CASE Cut(p) = left
  BY <1>1
<1>2. CASE Cut(p) # left
  <2>1. p # Elsewhere /\ TokenPart(p) # {} /\ Cut(p) = [left EXCEPT ![p.entry] = First(p)]
    BY <1>2 DEF Cut
  <2>2. First(p) \in TokenPart(p)
    BY <2>1 DEF First
  <2>3. p.entry \in Entries /\ First(p) \in 1..Len(p.entry) /\ First(p) \in Nat
    BY <2>1, <2>2, PointerFacts DEF TokenPart
  <2> QED BY <2>1, <2>3
<1> QED BY <1>1, <1>2

\* What the whole name of a backup is, character by character.
LEMMA WholeNameFacts ==
    ASSUME NEW t \in Seq(Chars), NEW n \in Numbers
    PROVE  LET w == WholeName(t, n)
               d == Len(Decimal[n])
           IN  /\ w \in Seq(Chars \cup {"."}) /\ d \in Nat /\ Len(t) \in Nat
               /\ Decimal[n] \in Seq(Chars \ {"-"})
               /\ Len(w) = Len(t) + d + 5
               /\ \A i \in 1..Len(t) : w[i] = t[i] /\ w[i] # "."
               /\ w[Len(t) + 1] = "-"
               /\ \A i \in 1..d : /\ w[Len(t) + 1 + i] = Decimal[n][i]
                                   /\ w[Len(t) + 1 + i] \notin {".", "-"}
               /\ w[Len(t) + d + 2] = "." /\ w[Len(t) + d + 3] = "b"
               /\ w[Len(t) + d + 4] = "c" /\ w[Len(t) + d + 5] = "k"
<1> DEFINE A == Chars \cup {"."}
           D == Decimal[n]
           t1 == t \o <<"-">>
           t2 == t1 \o D
           w == t2 \o <<".", "b", "c", "k">>
<1>1. /\ "." \notin Chars /\ {"-", "b", "c", "k"} \subseteq Chars
      /\ t \in Seq(A) /\ D \in Seq(Chars \ {"-"}) /\ D \in Seq(A)
      /\ Len(t) \in Nat /\ Len(D) \in Nat
      /\ \A i \in 1..Len(t) : t[i] \in Chars
      /\ \A i \in 1..Len(D) : D[i] \in Chars \ {"-"}
  BY EntriesAssumption, DecimalAssumption
<1>2. /\ <<"-">> \in Seq(A) /\ Len(<<"-">>) = 1 /\ <<"-">>[1] = "-"
      /\ <<".", "b", "c", "k">> \in Seq(A) /\ Len(<<".", "b", "c", "k">>) = 4
  BY <1>1
<1>3. /\ t1 \in Seq(A) /\ Len(t1) = Len(t) + 1
      /\ \A i \in 1..Len(t) : t1[i] = t[i]
      /\ t1[Len(t) + 1] = "-"
  BY <1>1, <1>2, ConcatProperties
<1> HIDE DEF t1
<1>4. /\ t2 \in Seq(A) /\ Len(t2) = Len(t) + 1 + Len(D)
      /\ \A i \in 1..(Len(t) + 1) : t2[i] = t1[i]
      /\ \A i \in 1..Len(D) : t2[Len(t) + 1 + i] = D[i]
  <2> HIDE DEF D
  <2>1. /\ t2 \in Seq(A) /\ Len(t2) = Len(t1) + Len(D)
        /\ \A i \in 1..(Len(t1) + Len(D)) : t2[i] = IF i <= Len(t1) THEN t1[i] ELSE D[i - Len(t1)]
    <3>1. t1 \in Seq(A) /\ D \in Seq(A)
      BY <1>1, <1>3
    <3> HIDE DEF A
    <3> QED BY <3>1, ConcatProperties
  <2>2. \A i \in 1..Len(D) :
          /\ Len(t) + 1 + i \in 1..(Len(t1) + Len(D)) /\ ~(Len(t) + 1 + i <= Len(t1))
          /\ (Len(t) + 1 + i) - Len(t1) = i
    BY <1>1, <1>3
  <2>3. \A i \in 1..(Len(t) + 1) : i \in 1..(Len(t1) + Len(D)) /\ i <= Len(t1)
    BY <1>1, <1>3
  <2> HIDE DEF t2
  <2> QED BY <1>3, <2>1, <2>2, <2>3
<1> HIDE DEF t2, D
<1>5. /\ w \in Seq(A) /\ Len(w) = Len(t) + Len(D) + 5
      /\ \A i \in 1..(Len(t) + 1 + Len(D)) : w[i] = t2[i]
      /\ \A k \in 1..4 : w[Len(t) + 1 + Len(D) + k] = <<".", "b", "c", "k">>[k]
  BY <1>1, <1>2, <1>4, ConcatProperties
<1> HIDE DEF w
<1>6. w[Len(t) + 1] = "-" /\ \A i \in 1..Len(t) : w[i] = t[i]
  <2>1. \A i \in 1..(Len(t) + 1) : i \in 1..(Len(t) + 1 + Len(D))
    BY <1>1
  <2>2. \A i \in 1..(Len(t) + 1) : w[i] = t1[i]
    BY <1>4, <1>5, <2>1
  <2>3. Len(t) + 1 \in 1..(Len(t) + 1) /\ \A i \in 1..Len(t) : i \in 1..(Len(t) + 1)
    BY <1>1
  <2> QED BY <1>3, <2>2, <2>3
<1>7. \A i \in 1..Len(D) : w[Len(t) + 1 + i] = D[i]
  BY <1>1, <1>4, <1>5
<1>8. /\ w[Len(t) + 1 + Len(D) + 1] = "." /\ w[Len(t) + 1 + Len(D) + 2] = "b"
      /\ w[Len(t) + 1 + Len(D) + 3] = "c" /\ w[Len(t) + 1 + Len(D) + 4] = "k"
  BY <1>5
<1>9. w = WholeName(t, n) /\ D = Decimal[n]
  BY DEF w, t2, t1, D, WholeName
<1>10. /\ Len(t) + 1 + Len(D) + 1 = Len(t) + Len(D) + 2
       /\ Len(t) + 1 + Len(D) + 2 = Len(t) + Len(D) + 3
       /\ Len(t) + 1 + Len(D) + 3 = Len(t) + Len(D) + 4
       /\ Len(t) + 1 + Len(D) + 4 = Len(t) + Len(D) + 5
  BY <1>1
<1>11. /\ w[Len(t) + Len(D) + 2] = "." /\ w[Len(t) + Len(D) + 3] = "b"
       /\ w[Len(t) + Len(D) + 4] = "c" /\ w[Len(t) + Len(D) + 5] = "k"
  BY <1>8, <1>10
<1>12. /\ \A i \in 1..Len(t) : w[i] = t[i] /\ w[i] # "."
       /\ \A i \in 1..Len(D) : w[Len(t) + 1 + i] = D[i] /\ w[Len(t) + 1 + i] \notin {".", "-"}
  BY <1>1, <1>6, <1>7
<1>13. w \in Seq(Chars \cup {"."})
  BY <1>5
<1> HIDE DEF A
<1> QED BY <1>1, <1>5, <1>6, <1>9, <1>11, <1>12, <1>13

\* Its only dot is that of ".bck".
LEMMA OneDot ==
    ASSUME NEW t \in Seq(Chars), NEW n \in Numbers,
           NEW i \in 1..Len(WholeName(t, n)), WholeName(t, n)[i] = "."
    PROVE  i = Len(t) + Len(Decimal[n]) + 2
<1> DEFINE w == WholeName(t, n)
           a == Len(t)
           d == Len(Decimal[n])
<1>1. a \in Nat /\ d \in Nat /\ Len(w) = a + d + 5
  BY WholeNameFacts
<1>2. /\ \A k \in 1..a : w[k] # "."
      /\ w[a + 1] # "."
      /\ \A k \in 1..d : w[a + 1 + k] # "."
      /\ w[a + d + 3] # "." /\ w[a + d + 4] # "." /\ w[a + d + 5] # "."
  BY WholeNameFacts
<1>3. i \in Int /\ 1 <= i /\ i <= a + d + 5 /\ w[i] = "."
  BY <1>1
<1> HIDE DEF w, a, d
<1>4. i \notin 1..a /\ i # a + 1 /\ i # a + d + 3 /\ i # a + d + 4 /\ i # a + d + 5
  BY <1>2, <1>3
<1>5. ~(a + 2 <= i /\ i <= a + d + 1)
  <2> SUFFICES ASSUME a + 2 <= i, i <= a + d + 1 PROVE FALSE
    OBVIOUS
  <2>1. i - a - 1 \in 1..d /\ a + 1 + (i - a - 1) = i
    BY <1>1, <1>3
  <2> QED BY <1>2, <1>3, <2>1
<1>6. i = a + d + 2
  BY <1>1, <1>3, <1>4, <1>5
<1> QED BY <1>6 DEF a, d

\* Where the '-' is in a name: before the number, and not in it.
LEMMA DashPlace ==
    ASSUME NEW t \in Seq(Chars), NEW n \in Numbers
    PROVE  /\ Len(t) \in Nat /\ Len(Decimal[n]) \in Nat
           /\ Len(WholeName(t, n)) = Len(t) + Len(Decimal[n]) + 5
           /\ WholeName(t, n)[Len(t) + 1] = "-"
           /\ \A i \in 1..Len(Decimal[n]) : WholeName(t, n)[Len(t) + 1 + i] # "-"
BY WholeNameFacts

\* The numbers of two equal names begin at the same place.
LEMMA SameDash ==
    ASSUME NEW t \in Seq(Chars), NEW u \in Seq(Chars), NEW m \in Numbers, NEW n \in Numbers,
           WholeName(t, m) = WholeName(u, n)
    PROVE  ~(Len(t) < Len(u))
<1> DEFINE v == WholeName(t, m)
           w == WholeName(u, n)
<1>1. /\ Len(t) \in Nat /\ Len(Decimal[m]) \in Nat /\ Len(v) = Len(t) + Len(Decimal[m]) + 5
      /\ \A i \in 1..Len(Decimal[m]) : v[Len(t) + 1 + i] # "-"
  BY DashPlace
<1>2. /\ Len(u) \in Nat /\ Len(Decimal[n]) \in Nat /\ Len(w) = Len(u) + Len(Decimal[n]) + 5
      /\ w[Len(u) + 1] = "-"
  BY DashPlace
<1>3. v = w
  OBVIOUS
<1> HIDE DEF v, w
<1>4. /\ Len(v) = Len(u) + Len(Decimal[n]) + 5 /\ v[Len(u) + 1] = "-"
  BY <1>2, <1>3
<1> SUFFICES ASSUME Len(t) < Len(u) PROVE FALSE
  OBVIOUS
<1>5. /\ Len(u) - Len(t) \in 1..Len(Decimal[m])
      /\ Len(t) + 1 + (Len(u) - Len(t)) = Len(u) + 1
  BY <1>4, <1>1, <1>2
<1> QED BY <1>4, <1>5, <1>1

\* Where the numbers are in a name.
LEMMA NumberPlace ==
    ASSUME NEW t \in Seq(Chars), NEW n \in Numbers
    PROVE  /\ Decimal[n] \in Seq(Chars \ {"-"}) /\ Len(Decimal[n]) \in Nat /\ Len(t) \in Nat
           /\ Len(WholeName(t, n)) = Len(t) + Len(Decimal[n]) + 5
           /\ \A i \in 1..Len(Decimal[n]) : WholeName(t, n)[Len(t) + 1 + i] = Decimal[n][i]
BY WholeNameFacts

\* Names whose numbers begin at the same place have the same number.
LEMMA SameDecimal ==
    ASSUME NEW t \in Seq(Chars), NEW u \in Seq(Chars), NEW m \in Numbers, NEW n \in Numbers,
           WholeName(t, m) = WholeName(u, n), Len(t) = Len(u)
    PROVE  Decimal[m] = Decimal[n]
<1> DEFINE v == WholeName(t, m)
           w == WholeName(u, n)
<1>1. /\ Decimal[m] \in Seq(Chars \ {"-"}) /\ Len(Decimal[m]) \in Nat /\ Len(t) \in Nat
      /\ Len(v) = Len(t) + Len(Decimal[m]) + 5
      /\ \A i \in 1..Len(Decimal[m]) : v[Len(t) + 1 + i] = Decimal[m][i]
  BY NumberPlace
<1>2. /\ Decimal[n] \in Seq(Chars \ {"-"}) /\ Len(Decimal[n]) \in Nat /\ Len(u) \in Nat
      /\ Len(w) = Len(u) + Len(Decimal[n]) + 5
      /\ \A i \in 1..Len(Decimal[n]) : w[Len(u) + 1 + i] = Decimal[n][i]
  BY NumberPlace
<1>3. v = w
  OBVIOUS
<1> HIDE DEF v, w
<1>4. Len(Decimal[m]) = Len(Decimal[n])
  BY <1>1, <1>2, <1>3
<1>5. \A i \in 1..Len(Decimal[m]) : Decimal[m][i] = Decimal[n][i]
  BY <1>1, <1>2, <1>3, <1>4
<1> QED BY <1>1, <1>2, <1>4, <1>5, SeqEqual

\* bck_name tells apart the tokens and numbers of which it takes the whole name:
\* no other name is cut off to that one either.
LEMMA SameName ==
    ASSUME NEW t \in Seq(Chars), NEW u \in Seq(Chars), NEW m \in Numbers, NEW n \in Numbers,
           BckName(t, m) = BckName(u, n), Len(WholeName(t, m)) <= Room
    PROVE  t = u /\ m = n
<1> DEFINE A == Chars \cup {"."}
           v == WholeName(t, m)
           w == WholeName(u, n)
<1>1. v \in Seq(A) /\ w \in Seq(A) /\ Len(v) \in Nat /\ Len(w) \in Nat /\ Room \in Nat
  BY WholeNameFacts, BufferAssumption
<1>2. BckName(t, m) = v
  BY <1>1, SubSeqFull DEF BckName
<1>3. v = w
  <2>1. CASE Len(w) <= Room
    BY <1>1, <1>2, <2>1, SubSeqFull DEF BckName
  <2>2. CASE ~(Len(w) <= Room)
    <3>1. v = SubSeq(w, 1, Room)
      BY <1>2, <2>2 DEF BckName
    <3>2. \A i \in 1..Room : w[i] \in A
      <4> HIDE DEF w, A
      <4> QED BY <1>1, <2>2
    <3>3. Len(v) = Room /\ \A i \in 1..Room : v[i] = w[i]
      <4> HIDE DEF v, w, A
      <4>1. /\ Len(SubSeq(w, 1, Room)) = IF 1 <= Room THEN Room - 1 + 1 ELSE 0
            /\ \A i \in 1..(Room - 1 + 1) : SubSeq(w, 1, Room)[i] = w[1 + i - 1]
        BY <1>1, <3>2, SubSeqProperties
      <4> QED BY <1>1, <3>1, <4>1
    <3> DEFINE i == Len(t) + Len(Decimal[m]) + 2
    <3>4. Len(v) = i + 3 /\ i \in 1..Len(v) /\ v[i] = "."
      <4>1. /\ Len(t) \in Nat /\ Len(Decimal[m]) \in Nat
            /\ Len(v) = Len(t) + Len(Decimal[m]) + 5
            /\ v[Len(t) + Len(Decimal[m]) + 2] = "."
        BY WholeNameFacts
      <4> HIDE DEF v
      <4> QED BY <4>1
    <3>5. i \in 1..Len(w) /\ w[i] = "."
      <4> HIDE DEF v, w, i
      <4> QED BY <1>1, <2>2, <3>3, <3>4
    <3>6. i = Len(u) + Len(Decimal[n]) + 2
      BY <3>5, OneDot
    <3>7. Len(w) = i + 3
      <4>1. /\ Len(u) \in Nat /\ Len(Decimal[n]) \in Nat
            /\ Len(w) = Len(u) + Len(Decimal[n]) + 5
        BY WholeNameFacts
      <4> HIDE DEF w, i
      <4> QED BY <3>6, <4>1
    <3> HIDE DEF v, w, i
    <3> QED BY <1>1, <2>2, <3>3, <3>4, <3>7
  <2> QED BY <2>1, <2>2
<1>4. Len(t) = Len(u)
  BY <1>3, SameDash, WholeNameFacts
<1>5. t = u
  <2>1. \A i \in 1..Len(t) : t[i] = u[i]
    BY <1>3, <1>4, WholeNameFacts
  <2> QED BY <1>4, <2>1, SeqEqual
<1>6. Decimal[m] = Decimal[n]
  BY <1>3, <1>4, SameDecimal
<1> QED BY <1>5, <1>6, DecimalAssumption

\* What the names of backups are made of.
LEMMA BckNameType ==
    ASSUME NEW t \in Seq(Chars), NEW n \in Numbers
    PROVE  BckName(t, n) \in Seq(Chars \cup {"."})
<1> DEFINE A == Chars \cup {"."}
           w == WholeName(t, n)
           l == IF Len(w) <= Room THEN Len(w) ELSE Room
<1>1. w \in Seq(A) /\ Len(w) \in Nat /\ Room \in Nat
  BY WholeNameFacts, BufferAssumption
<1>2. l \in Nat /\ l <= Len(w) /\ BckName(t, n) = SubSeq(w, 1, l)
  BY <1>1 DEF BckName
<1> HIDE DEF A, w, l
<1>3. \A k \in 1..l : w[k] \in A
  BY <1>1, <1>2
<1>4. SubSeq(w, 1, l) \in Seq(A)
  BY <1>2, <1>3, SubSeqProperties
<1> QED BY <1>2, <1>4 DEF A

-----------------------------------------------------------------------------
DirType ==
    /\ dirmutex \in Jobs \cup {Nobody}
    /\ unread \subseteq Entries /\ buffer \subseteq Entries
    /\ left \in [Entries -> Nat] /\ \A e \in Entries : left[e] \in 1..Len(e)
    /\ fills \in Nat
    /\ at \in [Jobs -> DirLocs]
    /\ name \in [Jobs -> {NoEntry, Elsewhere} \cup Pointers]
    /\ path \in [Jobs -> {NoEntry} \cup Shortened]
FileType ==
    /\ file_backups \in [Jobs -> Nat]
    /\ ran \in [Entries -> Nat]
    /\ begun \in [Entries -> Seq(Seq(Chars \cup {"."}))]

\* What a thread has, from place to place.
PlaceInv ==
    \A j \in Jobs :
        /\ at[j] \in {"entry", "copy"} => \E e \in Entries : name[j] = StartOf(e)
        /\ at[j] \in {"unlock", "open", "run", "fork"} => name[j] # NoEntry /\ path[j] # NoEntry
        /\ at[j] \in {"run", "fork"} => path[j] \in Entries \ Broken

\* directory_mutex is held from before readdir until the path is copied.
MutexInv ==
    \A j \in Jobs : at[j] \in {"readdir", "entry", "copy", "unlock", "leave"} => dirmutex = j

\* The backups of a file are numbered within the commands of its thread.
WorkInv ==
    \A j \in Jobs :
        /\ done[j] <= MaxCommands
        /\ at[j] \notin {"run", "fork", "gone"} => pc[j] = "idle"
        /\ at[j] = "run" => file_backups[j] + (IF pc[j] = "idle" THEN 0 ELSE 1) <= done[j]
        /\ at[j] = "fork" => pc[j] = "fork" /\ file_backups[j] <= done[j]

\* A thread's entry, of which the file has not been run yet.
Holds(j) == at[j] \in {"entry", "copy", "unlock", "open"}
Claimed(j) == IF at[j] \in {"entry", "copy"} THEN name[j].entry ELSE path[j]

\* When EachOnce is promised, a job file's entry is in the directory, in the
\* buffer or with one thread, and has not been run; or it has.
Promised == fills <= 1 \/ Distinguishable
ClaimInv ==
    /\ buffer \cap unread = {}
    /\ Promised =>
         /\ \A f \in JobFiles : f \in buffer \cup unread => ran[f] = 0
         /\ \A j \in Jobs : Holds(j) /\ Claimed(j) \in JobFiles =>
              Claimed(j) \notin buffer \cup unread /\ ran[Claimed(j)] = 0
         /\ \A j, k \in Jobs :
              Holds(j) /\ Holds(k) /\ j # k /\ Claimed(j) \in JobFiles => Claimed(j) # Claimed(k)

\* As long as the buffer has been filled but once, only names of files that have
\* been run are cut, and a thread's d_name leads to the entry its path comes from.
LeftInv == fills <= 1 => \A e \in Entries : left[e] = Len(e) \/ (e \in JobFiles /\ ran[e] > 0)
NameInv ==
    /\ fills = 0 => buffer = {} /\ \A j \in Jobs : name[j] = NoEntry
    /\ fills <= 1 => \A j \in Jobs :
         /\ at[j] = "copy" => name[j].entry \in JobFiles
         /\ at[j] \in {"unlock", "open", "run", "fork"} =>
              path[j] \in JobFiles /\ name[j] = StartOf(path[j])

\* The file of a thread in run_job has been opened, and is nobody else's.
RunInv ==
    fills <= 1 => \A j \in Jobs : at[j] \in {"run", "fork"} =>
        /\ ran[path[j]] > 0
        /\ \A k \in Jobs \ {j} : at[k] \in {"run", "fork"} => path[k] # path[j]

\* The backups of a file have the names of its token and their numbers.
BegunInv ==
    fills <= 1 =>
        /\ \A f \in JobFiles :
             /\ ran[f] = 0 => begun[f] = <<>>
             /\ Len(begun[f]) <= MaxCommands
             /\ \A n \in 1..Len(begun[f]) : begun[f][n] = BckName(Token(StartOf(f)), n)
        /\ \A j \in Jobs : at[j] \in {"run", "fork"} => Len(begun[path[j]]) = file_backups[j]

JobsInv ==
    /\ DirType /\ FileType /\ PlaceInv /\ MutexInv /\ WorkInv
    /\ ClaimInv /\ EachOnce /\ LeftInv /\ NameInv /\ RunInv /\ BegunInv

\* At the start all entries are unread, and whole.
LEMMA DirInit == JobsInit => JobsInv
<1> SUFFICES ASSUME JobsInit PROVE JobsInv
  OBVIOUS
<1>1. \A e \in Entries : Len(e) \in Nat \ {0}
  BY EntriesAssumption, EmptySeq
<1>2. DirType
  BY <1>1 DEF JobsInit, DirType, DirLocs
<1>3. FileType
  BY EmptySeq DEF JobsInit, FileType
<1>4. PlaceInv /\ MutexInv /\ EachOnce /\ NameInv /\ RunInv
  BY DEF JobsInit, PlaceInv, MutexInv, EachOnce, NameInv, RunInv, JobFiles
<1>5. WorkInv
  BY MaxCommandsAssumption DEF JobsInit, Init, WorkInv
<1>6. ClaimInv
  BY DEF JobsInit, ClaimInv, Holds, JobFiles
<1>7. LeftInv
  BY DEF JobsInit, LeftInv
<1>8. BegunInv
  BY MaxCommandsAssumption, EmptySeq DEF JobsInit, BegunInv, JobFiles
<1> QED BY <1>2, <1>3, <1>4, <1>5, <1>6, <1>7, <1>8 DEF JobsInv

\* What a thread may find when it calls readdir.
LEMMA ReadDirCases ==
    ASSUME NEW j \in Jobs, JobsInv, ReadDir(j)
    PROVE  /\ at[j] = "readdir" /\ dirmutex = j
           /\ UNCHANGED <<vars, dirmutex, left, path, file_backups, ran, begun>>
           /\ fills' \in {fills, fills + 1}
           /\ name' \in [Jobs -> {NoEntry, Elsewhere} \cup Pointers]
           /\ \A k \in Jobs \ {j} : name[k] # NoEntry => name'[k] # NoEntry
           /\ fills' <= 1 => \A k \in Jobs \ {j} : name'[k] = name[k]
           /\ fills' = 0 => buffer' = {} /\ name' = name
           /\ \/ /\ at' = [at EXCEPT ![j] = "leave"]
                 /\ UNCHANGED <<unread, buffer, name>>
              \/ /\ at' = [at EXCEPT ![j] = "entry"]
                 /\ \E e \in (buffer \cup unread) \ (buffer' \cup unread') : name'[j] = StartOf(e)
                 /\ buffer' \cup unread' \subseteq buffer \cup unread
                 /\ buffer' \cap unread' = {}
<1>0. /\ at[j] = "readdir" /\ NextEntry(j)
      /\ UNCHANGED <<vars, dirmutex, left, path, file_backups, ran, begun>>
  BY DEF ReadDir, NextEntry, fileVars
<1>1. /\ dirmutex = j /\ at \in [Jobs -> DirLocs]
      /\ name \in [Jobs -> {NoEntry, Elsewhere} \cup Pointers]
      /\ unread \subseteq Entries /\ buffer \subseteq Entries /\ fills \in Nat
      /\ buffer \cap unread = {} /\ (fills = 0 => buffer = {} /\ \A k \in Jobs : name[k] = NoEntry)
  BY <1>0 DEF JobsInv, DirType, MutexInv, ClaimInv, NameInv
<1>2. CASE /\ \E e \in buffer : buffer' = buffer \ {e} /\ name' = [name EXCEPT ![j] = StartOf(e)]
           /\ GoAt(j, "entry") /\ UNCHANGED <<unread, fills>>
  <2>1. PICK e \in buffer : buffer' = buffer \ {e} /\ name' = [name EXCEPT ![j] = StartOf(e)]
    BY <1>2
  <2>2. e \in Entries /\ StartOf(e) \in Pointers
    BY <1>1, StartIsPointer
  <2>3. /\ name' \in [Jobs -> {NoEntry, Elsewhere} \cup Pointers] /\ name'[j] = StartOf(e)
        /\ \A k \in Jobs \ {j} : name'[k] = name[k]
    BY <1>1, <2>1, <2>2
  <2> QED BY <1>0, <1>1, <1>2, <2>1, <2>3 DEF GoAt
<1>3. CASE buffer = {} /\ (\E batch \in SUBSET unread : Refill(j, batch)) /\ GoAt(j, "entry")
  <2>1. PICK batch \in SUBSET unread : Refill(j, batch)
    BY <1>3
  <2>2. PICK e \in batch :
          /\ buffer' = batch \ {e}
          /\ \E moved \in [Jobs -> {NoEntry, Elsewhere} \cup UNION {Within(b) : b \in batch}] :
               name' = [k \in Jobs |-> IF k = j THEN StartOf(e)
                                       ELSE IF moved[k] = NoEntry \/ name[k] = NoEntry
                                            THEN name[k] ELSE moved[k]]
    BY <2>1 DEF Refill
  <2>3. unread' = unread \ batch /\ fills' = fills + 1
    BY <2>1 DEF Refill
  <2>4. PICK moved \in [Jobs -> {NoEntry, Elsewhere} \cup UNION {Within(b) : b \in batch}] :
          name' = [k \in Jobs |-> IF k = j THEN StartOf(e)
                                  ELSE IF moved[k] = NoEntry \/ name[k] = NoEntry
                                       THEN name[k] ELSE moved[k]]
    BY <2>2
  <2>5. StartOf(e) \in Pointers /\ UNION {Within(b) : b \in batch} \subseteq Pointers
    BY <1>1, <2>2, StartIsPointer DEF Pointers
  <2>6. \A k \in Jobs : moved[k] \in {NoEntry, Elsewhere} \cup Pointers
    BY <2>4, <2>5
  <2>7. name' \in [Jobs -> {NoEntry, Elsewhere} \cup Pointers] /\ name'[j] = StartOf(e)
    BY <1>1, <2>4, <2>5, <2>6
  <2>8. \A k \in Jobs \ {j} : name[k] # NoEntry => name'[k] # NoEntry
    BY <2>4
  <2>9. fills' <= 1 => fills = 0
    BY <1>1, <2>3
  <2>10. fills = 0 => \A k \in Jobs \ {j} : name'[k] = name[k]
    BY <1>1, <2>4
  <2>11. fills' # 0
    BY <1>1, <2>3
  <2> QED BY <1>0, <1>1, <1>3, <2>2, <2>3, <2>7, <2>8, <2>9, <2>10, <2>11 DEF GoAt
<1>4. CASE GoAt(j, "leave") /\ UNCHANGED <<unread, buffer, fills, name>>
  BY <1>0, <1>1, <1>4 DEF GoAt
<1> QED BY <1>0, <1>2, <1>3, <1>4 DEF NextEntry

\* What each other step does to the entries and the history.
LEMMA PathFacts ==
    ASSUME JobsInv, NEW j \in Jobs, EntryPaths(j)
    PROVE  \E e \in Entries :
             /\ name[j] = StartOf(e) /\ name[j].entry = e
             /\ path' = [path EXCEPT ![j] = SubSeq(e, 1, left[e])]
             /\ left[e] \in 1..Len(e)
             /\ SubSeq(e, 1, left[e]) \in Shortened /\ SubSeq(e, 1, left[e]) # NoEntry
             /\ left[e] = Len(e) => SubSeq(e, 1, left[e]) = e
<1>1. at[j] = "copy" /\ path' = [path EXCEPT ![j] = Shown(name[j])]
  BY DEF EntryPaths
<1>2. PICK e \in Entries : name[j] = StartOf(e)
  BY <1>1 DEF JobsInv, PlaceInv
<1>3. name[j].entry = e /\ name[j] # Elsewhere
  BY <1>2, StartIsPointer, NoNameAssumption
<1>4. Shown(name[j]) = SubSeq(e, 1, left[e])
  BY <1>3 DEF Shown
<1>5. left[e] \in 1..Len(e)
  BY DEF JobsInv, DirType
<1>6. SubSeq(e, 1, left[e]) \in Shortened
  BY <1>5 DEF Shortened
<1>7. left[e] = Len(e) => SubSeq(e, 1, left[e]) = e
  BY EntriesAssumption, SubSeqFull
<1> QED BY <1>1, <1>2, <1>3, <1>4, <1>5, <1>6, <1>7, NoNameAssumption

LEMMA NamingFacts ==
    ASSUME TypeOK, JobsInv, NEW j \in Jobs, BackupName(j)
    PROVE  /\ at[j] = "run" /\ pc[j] = "fork" /\ at' = [at EXCEPT ![j] = "fork"]
           /\ path[j] \in Entries /\ name[j] \in Pointers \cup {Elsewhere}
           /\ file_backups' = [file_backups EXCEPT ![j] = @ + 1]
           /\ file_backups'[j] = file_backups[j] + 1 /\ file_backups'[j] <= done[j]
           /\ file_backups'[j] \in Numbers
           /\ BckName(Token(name[j]), file_backups'[j]) \in Seq(Chars \cup {"."})
           /\ begun' = [begun EXCEPT ![path[j]] =
                          Append(@, BckName(Token(name[j]), file_backups'[j]))]
           /\ left' = Cut(name[j])
           /\ UNCHANGED <<vars, dirmutex, unread, buffer, fills, name, path, ran>>
<1>1. /\ at[j] = "run" /\ pc[j] = "fork" /\ at' = [at EXCEPT ![j] = "fork"]
      /\ file_backups' = [file_backups EXCEPT ![j] = @ + 1]
      /\ begun' = [begun EXCEPT ![path[j]] = Append(@, BckName(Token(name[j]), file_backups'[j]))]
      /\ left' = Cut(name[j])
      /\ UNCHANGED <<vars, dirmutex, unread, buffer, fills, name, path, ran>>
  BY DEF BackupName, GoAt, streamVars
<1>2. path[j] \in Entries /\ name[j] \in Pointers \cup {Elsewhere}
  BY <1>1 DEF JobsInv, PlaceInv, DirType
<1>3. /\ file_backups \in [Jobs -> Nat] /\ done \in [Jobs -> Nat]
      /\ done[j] <= MaxCommands /\ file_backups[j] + 1 <= done[j]
  BY <1>1 DEF JobsInv, WorkInv, FileType, TypeOK
<1>4. /\ file_backups'[j] = file_backups[j] + 1 /\ file_backups'[j] <= done[j]
      /\ file_backups'[j] \in Numbers
  BY <1>1, <1>3, MaxCommandsAssumption DEF Numbers
<1>5. BckName(Token(name[j]), file_backups'[j]) \in Seq(Chars \cup {"."})
  BY <1>2, <1>4, TokenType, BckNameType
<1> QED BY <1>1, <1>2, <1>4, <1>5

\* Types are kept by every step of a thread.
LEMMA DirTypeStep ==
    ASSUME TypeOK, JobsInv, NEW j \in Jobs, ThreadStep(j)
    PROVE  (DirType /\ FileType)'
<1>0. DirType /\ FileType
  BY DEF JobsInv
<1> USE DEF DirType, FileType
<1>1. CASE DirLock(j)
  BY <1>0, <1>1 DEF DirLock, GoAt, DirLocs, fileVars
<1>2. CASE ReadDir(j)
  <2>1. at' = [at EXCEPT ![j] = "leave"] \/ at' = [at EXCEPT ![j] = "entry"]
    BY <1>2, ReadDirCases
  <2>2. at' \in [Jobs -> DirLocs]
    BY <1>0, <2>1 DEF DirLocs
  <2>3. unread' \subseteq Entries /\ buffer' \subseteq Entries /\ fills' \in Nat
    <3>1. fills' \in {fills, fills + 1} /\ (buffer' \cup unread') \subseteq (buffer \cup unread)
      BY <1>2, ReadDirCases
    <3> QED BY <1>0, <3>1
  <2>4. name' \in [Jobs -> {NoEntry, Elsewhere} \cup Pointers]
    BY <1>2, ReadDirCases
  <2>5. UNCHANGED <<dirmutex, left, path, file_backups, ran, begun>>
    BY <1>2, ReadDirCases
  <2> QED BY <1>0, <2>2, <2>3, <2>4, <2>5
<1>3. CASE EntryFiles(j)
  BY <1>0, <1>3 DEF EntryFiles, GoAt, DirLocs, streamVars, fileVars
<1>4. CASE EntryPaths(j)
  <2>1. path' \in [Jobs -> {NoEntry} \cup Shortened]
    BY <1>0, <1>4, PathFacts
  <2>2. at' \in [Jobs -> DirLocs]
    BY <1>0, <1>4 DEF EntryPaths, GoAt, DirLocs
  <2> QED BY <1>0, <1>4, <2>1, <2>2 DEF EntryPaths, streamVars, fileVars
<1>5. CASE DirUnlock(j)
  BY <1>0, <1>5 DEF DirUnlock, GoAt, DirLocs, fileVars
<1>6. CASE Open(j)
  <2>1. at' \in [Jobs -> DirLocs]
    BY <1>0, <1>6 DEF Open, GoAt, DirLocs
  <2>2. ran' \in [Entries -> Nat] /\ file_backups' \in [Jobs -> Nat]
    <3>1. CASE path[j] \in Entries \ Broken
      <4>1. /\ ran' = [ran EXCEPT ![path[j]] = @ + 1] /\ path[j] \in Entries
            /\ file_backups' = [file_backups EXCEPT ![j] = 0]
        BY <1>6, <3>1 DEF Open
      <4> QED BY <1>0, <4>1
    <3>2. CASE path[j] \notin Entries \ Broken
      BY <1>0, <1>6, <3>2 DEF Open
    <3> QED BY <3>1, <3>2
  <2> QED BY <1>0, <1>6, <2>1, <2>2 DEF Open, streamVars
<1>7. CASE Command(j)
  BY <1>0, <1>7 DEF Command, streamVars, fileVars
<1>8. CASE BackupName(j)
  <2>0. /\ left \in [Entries -> Nat] /\ \A e \in Entries : left[e] \in 1..Len(e)
        /\ begun \in [Entries -> Seq(Seq(Chars \cup {"."}))]
        /\ at \in [Jobs -> DirLocs] /\ file_backups \in [Jobs -> Nat]
    BY <1>0
  <2> HIDE DEF DirType, FileType
  <2>1. left' \in [Entries -> Nat] /\ \A e \in Entries : left'[e] \in 1..Len(e)
    <3>1. left' = Cut(name[j]) /\ name[j] \in Pointers \cup {Elsewhere}
      BY <1>8, NamingFacts
    <3> QED BY <2>0, <3>1, CutFacts
  <2>2. begun' \in [Entries -> Seq(Seq(Chars \cup {"."}))]
    <3>1. Append(begun[path[j]], BckName(Token(name[j]), file_backups'[j])) \in Seq(Seq(Chars \cup {"."}))
      BY <1>8, <2>0, NamingFacts, AppendProperties
    <3>2. begun' = [begun EXCEPT ![path[j]] = Append(begun[path[j]], BckName(Token(name[j]), file_backups'[j]))]
      BY <1>8, NamingFacts
    <3> QED BY <2>0, <3>1, <3>2
  <2>3. at' \in [Jobs -> DirLocs] /\ file_backups' \in [Jobs -> Nat]
    <3>1. at' = [at EXCEPT ![j] = "fork"] /\ file_backups' = [file_backups EXCEPT ![j] = @ + 1]
      BY <1>8, NamingFacts
    <3> QED BY <2>0, <3>1 DEF DirLocs
  <2>4. UNCHANGED <<dirmutex, unread, buffer, fills, name, path, ran>>
    BY <1>8, NamingFacts
  <2> QED BY <1>0, <2>1, <2>2, <2>3, <2>4 DEF DirType, FileType
<1>9. CASE NamedFork(j)
  BY <1>0, <1>9 DEF NamedFork, GoAt, DirLocs, streamVars, fileVars
<1>10. CASE EndOfFile(j)
  BY <1>0, <1>10 DEF EndOfFile, GoAt, DirLocs, streamVars, fileVars
<1>11. CASE Leave(j)
  BY <1>0, <1>11 DEF Leave, GoAt, DirLocs, fileVars
<1> HIDE DEF DirType, FileType
<1> QED BY <1>1, <1>2, <1>3, <1>4, <1>5, <1>6, <1>7, <1>8, <1>9, <1>10, <1>11 DEF ThreadStep

\* So are the mutex and what goes with each place.
LEMMA PlaceStep ==
    ASSUME JobsInv, NEW j \in Jobs, ThreadStep(j)
    PROVE  (MutexInv /\ PlaceInv)'
<1>0. /\ Nobody \notin Jobs /\ at \in [Jobs -> DirLocs] /\ MutexInv /\ PlaceInv
      /\ name \in [Jobs -> {NoEntry, Elsewhere} \cup Pointers]
      /\ path \in [Jobs -> {NoEntry} \cup Shortened]
  BY JobsAssumption DEF JobsInv, DirType
<1> USE DEF MutexInv, PlaceInv
<1>1. CASE DirLock(j)
  BY <1>0, <1>1 DEF DirLock, GoAt
<1>2. CASE ReadDir(j)
  <2>1. MutexInv'
    BY <1>0, <1>2, ReadDirCases
  <2>2. \A k \in Jobs \ {j} : at'[k] = at[k] /\ at[k] \notin {"entry", "copy"}
    BY <1>0, <1>2, ReadDirCases
  <2>3. at'[j] = "leave" \/ (at'[j] = "entry" /\ \E e \in Entries : name'[j] = StartOf(e))
    <3>1. unread \subseteq Entries /\ buffer \subseteq Entries
      BY DEF JobsInv, DirType
    <3>2. CASE at' = [at EXCEPT ![j] = "leave"]
      BY <1>0, <3>2
    <3>3. CASE /\ at' = [at EXCEPT ![j] = "entry"]
               /\ \E e \in (buffer \cup unread) \ (buffer' \cup unread') : name'[j] = StartOf(e)
      BY <1>0, <3>1, <3>3
    <3> QED BY <1>2, <3>2, <3>3, ReadDirCases
  <2> QED BY <1>0, <1>2, <2>1, <2>2, <2>3, ReadDirCases
<1>3. CASE EntryFiles(j)
  BY <1>0, <1>3 DEF EntryFiles, GoAt, streamVars
<1>4. CASE EntryPaths(j)
  <2>1. \/ at' = [at EXCEPT ![j] = "unlock"]
        \/ at' = [k \in Jobs |-> "gone"]
    BY <1>4 DEF EntryPaths, GoAt
  <2>2. UNCHANGED <<dirmutex, name>> /\ at[j] = "copy"
    BY <1>4 DEF EntryPaths, streamVars
  <2>3. path'[j] # NoEntry /\ name[j] # NoEntry /\ \A k \in Jobs \ {j} : path'[k] = path[k]
    <3>1. PICK e \in Entries :
            /\ name[j] = StartOf(e) /\ path' = [path EXCEPT ![j] = SubSeq(e, 1, left[e])]
            /\ SubSeq(e, 1, left[e]) # NoEntry
      BY <1>4, PathFacts
    <3>2. name[j] # NoEntry
      BY <3>1, StartIsPointer, NoNameAssumption
    <3> QED BY <1>0, <3>1, <3>2
  <2> QED BY <1>0, <2>1, <2>2, <2>3
<1>5. CASE DirUnlock(j)
  BY <1>0, <1>5 DEF DirUnlock, GoAt
<1>6. CASE Open(j)
  BY <1>0, <1>6 DEF Open, GoAt, streamVars
<1>7. CASE Command(j)
  BY <1>0, <1>7 DEF Command, streamVars
<1>8. CASE BackupName(j)
  BY <1>0, <1>8 DEF BackupName, GoAt, streamVars
<1>9. CASE NamedFork(j)
  BY <1>0, <1>9 DEF NamedFork, GoAt, streamVars
<1>10. CASE EndOfFile(j)
  BY <1>0, <1>10 DEF EndOfFile, GoAt, streamVars
<1>11. CASE Leave(j)
  BY <1>0, <1>11 DEF Leave, GoAt
<1> HIDE DEF MutexInv, PlaceInv
<1> QED BY <1>1, <1>2, <1>3, <1>4, <1>5, <1>6, <1>7, <1>8, <1>9, <1>10, <1>11 DEF ThreadStep

\* The commands of a thread are counted before their backups.
LEMMA WorkStep ==
    ASSUME TypeOK, JobsInv, NEW j \in Jobs, ThreadStep(j)
    PROVE  WorkInv'
<1>0. /\ WorkInv /\ at \in [Jobs -> DirLocs] /\ file_backups \in [Jobs -> Nat]
      /\ pc \in [Jobs -> Locs] /\ done \in [Jobs -> Nat] /\ MaxCommands \in Nat
  BY MaxCommandsAssumption DEF JobsInv, DirType, FileType, TypeOK
<1> USE DEF WorkInv
<1>1. CASE DirLock(j) \/ EntryFiles(j) \/ DirUnlock(j) \/ EndOfFile(j) \/ Leave(j)
  BY <1>0, <1>1 DEF DirLock, EntryFiles, DirUnlock, EndOfFile, Leave, GoAt, vars, fileVars
<1>2. CASE ReadDir(j)
  BY <1>0, <1>2, ReadDirCases DEF vars
<1>3. CASE EntryPaths(j)
  BY <1>0, <1>3 DEF EntryPaths, GoAt, vars, fileVars
<1>4. CASE Open(j)
  BY <1>0, <1>4 DEF Open, GoAt, vars
<1>5. CASE Command(j)
  <2>1. at[j] = "run" /\ UNCHANGED <<at, file_backups>>
    BY <1>5 DEF Command, fileVars
  <2>2. CASE Backup(j)
    <3>1. /\ pc[j] = "idle" /\ done[j] < MaxCommands
          /\ pc' = [pc EXCEPT ![j] = "lock"] /\ done' = [done EXCEPT ![j] = @ + 1]
      BY <2>2 DEF Backup, Goto
    <3>2. done'[j] = done[j] + 1 /\ \A k \in Jobs \ {j} : done'[k] = done[k] /\ pc'[k] = pc[k]
      BY <1>0, <3>1
    <3> QED BY <1>0, <2>1, <3>1, <3>2
  <2>3. CASE Lock(j) \/ Count(j) \/ Wait(j) \/ Unlock(j)
    <3>1. pc[j] # "idle" /\ done' = done /\ \E l \in Locs \ {"idle"} : pc' = [pc EXCEPT ![j] = l]
      BY <2>3 DEF Lock, Count, Wait, Unlock, Goto, Locs
    <3> QED BY <1>0, <2>1, <3>1
  <2> QED BY <1>5, <2>2, <2>3 DEF Command
<1>6. CASE BackupName(j)
  BY <1>0, <1>6, NamingFacts DEF vars
<1>7. CASE NamedFork(j)
  BY <1>0, <1>7 DEF NamedFork, Fork, Goto, GoAt, fileVars
<1> HIDE DEF WorkInv
<1> QED BY <1>1, <1>2, <1>3, <1>4, <1>5, <1>6, <1>7 DEF ThreadStep

\* The buffer is never filled less often.
LEMMA FillsGrow ==
    ASSUME JobsInv, NEW j \in Jobs, ThreadStep(j)
    PROVE  fills' \in {fills, fills + 1} /\ fills \in Nat /\ (~ReadDir(j) => UNCHANGED <<fills, buffer, unread>>)
<1>1. fills \in Nat
  BY DEF JobsInv, DirType
<1>2. CASE ReadDir(j)
  BY <1>1, <1>2, ReadDirCases
<1>3. CASE ~ReadDir(j)
  BY <1>1, <1>3 DEF ThreadStep, DirLock, EntryFiles, EntryPaths, DirUnlock, Open, Command, BackupName,
                    NamedFork, EndOfFile, Leave, streamVars
<1> QED BY <1>2, <1>3

\* A step that gives no thread an entry and runs no file.
LEMMA ClaimKept ==
    ASSUME JobsInv, Promised' => Promised, UNCHANGED <<buffer, unread, ran>>,
           Promised' => \A k \in Jobs : (Holds(k))' /\ (Claimed(k))' \in JobFiles =>
                          Holds(k) /\ (Claimed(k))' = Claimed(k)
    PROVE  (ClaimInv /\ EachOnce)'
<1>1. ClaimInv /\ EachOnce
  BY DEF JobsInv
<1>2. EachOnce'
  BY <1>1 DEF EachOnce, Promised
<1>3. (buffer \cap unread = {})'
  BY <1>1 DEF ClaimInv
<1>4. ASSUME Promised'
      PROVE  /\ \A f \in JobFiles : f \in buffer' \cup unread' => ran'[f] = 0
             /\ \A k \in Jobs : (Holds(k))' /\ (Claimed(k))' \in JobFiles =>
                  (Claimed(k))' \notin buffer' \cup unread' /\ ran'[(Claimed(k))'] = 0
             /\ \A k, l \in Jobs :
                  (Holds(k))' /\ (Holds(l))' /\ k # l /\ (Claimed(k))' \in JobFiles
                    => (Claimed(k))' # (Claimed(l))'
  <2>1. /\ \A f \in JobFiles : f \in buffer \cup unread => ran[f] = 0
        /\ \A k \in Jobs : Holds(k) /\ Claimed(k) \in JobFiles =>
             Claimed(k) \notin buffer \cup unread /\ ran[Claimed(k)] = 0
        /\ \A k, l \in Jobs :
             Holds(k) /\ Holds(l) /\ k # l /\ Claimed(k) \in JobFiles => Claimed(k) # Claimed(l)
    BY <1>1, <1>4 DEF ClaimInv
  <2>2. \A k \in Jobs : (Holds(k))' /\ (Claimed(k))' \in JobFiles =>
          Holds(k) /\ (Claimed(k))' = Claimed(k)
    BY <1>4
  <2> HIDE DEF Holds, Claimed
  <2>3. \A k, l \in Jobs :
          (Holds(k))' /\ (Holds(l))' /\ k # l /\ (Claimed(k))' \in JobFiles
            => (Claimed(k))' # (Claimed(l))'
    BY <2>1, <2>2
  <2> QED BY <2>1, <2>2, <2>3
<1> QED BY <1>2, <1>3, <1>4 DEF ClaimInv, Promised

\* The path of a thread that holds a job file's entry is that of this entry, or
\* of no job file: what is left of a name is only ever one's own.
LEMMA CopyWhole ==
    ASSUME JobsInv, NEW j \in Jobs, EntryPaths(j), Promised, path'[j] \in JobFiles
    PROVE  path'[j] = name[j].entry
<1>1. PICK e \in Entries :
        /\ name[j].entry = e
        /\ path' = [path EXCEPT ![j] = SubSeq(e, 1, left[e])]
        /\ left[e] \in 1..Len(e)
        /\ left[e] = Len(e) => SubSeq(e, 1, left[e]) = e
  BY PathFacts
<1>2. path'[j] = SubSeq(e, 1, left[e])
  BY <1>1 DEF JobsInv, DirType
<1>3. CASE Distinguishable
  BY <1>1, <1>2, <1>3 DEF Distinguishable
<1>4. CASE fills <= 1
  <2>1. at[j] = "copy" /\ e \in JobFiles
    BY <1>1, <1>4 DEF EntryPaths, JobsInv, NameInv
  <2>2. Claimed(j) = e /\ Holds(j)
    BY <1>1, <2>1 DEF Claimed, Holds
  <2>3. ran[e] = 0
    BY <1>4, <2>1, <2>2 DEF JobsInv, ClaimInv, Promised
  <2>4. left[e] = Len(e)
    BY <1>4, <2>3 DEF JobsInv, LeftInv
  <2> QED BY <1>1, <1>2, <2>4
<1> QED BY <1>3, <1>4 DEF Promised

\* No step gives an entry to a second thread, or runs its file again.
LEMMA ClaimStep ==
    ASSUME JobsInv, NEW j \in Jobs, ThreadStep(j)
    PROVE  (ClaimInv /\ EachOnce)'
<1>0. /\ Promised' => Promised
      /\ at \in [Jobs -> DirLocs] /\ ran \in [Entries -> Nat]
      /\ path \in [Jobs -> {NoEntry} \cup Shortened]
  <2>1. fills' <= 1 => fills <= 1
    BY FillsGrow
  <2>2. Distinguishable' = Distinguishable
    BY DEF Distinguishable, JobFiles, JobName
  <2> QED BY <2>1, <2>2 DEF Promised, JobsInv, DirType, FileType
<1>1. CASE DirLock(j) \/ Command(j) \/ BackupName(j) \/ NamedFork(j) \/ EndOfFile(j) \/ Leave(j)
  <2>1. /\ UNCHANGED <<buffer, unread, ran>>
        /\ ~(Holds(j))' /\ \A k \in Jobs \ {j} : at'[k] = at[k] /\ name'[k] = name[k] /\ path'[k] = path[k]
    <3>1. name \in [Jobs -> {NoEntry, Elsewhere} \cup Pointers]
      BY DEF JobsInv, DirType
    <3> QED BY <1>0, <1>1, <3>1 DEF DirLock, Command, BackupName, NamedFork, EndOfFile, Leave,
               GoAt, Holds, streamVars, fileVars
  <2>2. \A k \in Jobs : (Holds(k))' => Holds(k) /\ (Claimed(k))' = Claimed(k)
    BY <2>1 DEF Holds, Claimed
  <2> QED BY <1>0, <2>1, <2>2, ClaimKept
<1>2. CASE EntryFiles(j) \/ DirUnlock(j)
  <2>1. UNCHANGED <<buffer, unread, ran>>
    BY <1>2 DEF EntryFiles, DirUnlock, streamVars, fileVars
  <2>2. \A k \in Jobs : (Holds(k))' => Holds(k) /\ (Claimed(k))' = Claimed(k)
    BY <1>0, <1>2 DEF EntryFiles, DirUnlock, GoAt, Holds, Claimed
  <2> QED BY <1>0, <2>1, <2>2, ClaimKept
<1>3. CASE EntryPaths(j)
  <2>1. /\ UNCHANGED <<buffer, unread, ran, name>> /\ at[j] = "copy"
        /\ at' = [at EXCEPT ![j] = "unlock"] \/ at' = [k \in Jobs |-> "gone"]
        /\ \A k \in Jobs \ {j} : path'[k] = path[k]
    BY <1>0, <1>3 DEF EntryPaths, GoAt, streamVars, fileVars
  <2>2. ASSUME Promised', NEW k \in Jobs, (Holds(k))', (Claimed(k))' \in JobFiles
        PROVE  Holds(k) /\ (Claimed(k))' = Claimed(k)
    <3>1. at' = [at EXCEPT ![j] = "unlock"]
      BY <2>1, <2>2 DEF Holds
    <3>2. CASE k # j
      BY <1>0, <2>1, <2>2, <3>1, <3>2 DEF Holds, Claimed
    <3>3. CASE k = j
      <4>1. Holds(j) /\ Claimed(j) = name[j].entry /\ (Claimed(j))' = path'[j]
        BY <1>0, <2>1, <3>1 DEF Holds, Claimed
      <4>2. path'[j] = name[j].entry
        BY <1>0, <1>3, <2>2, <3>3, <4>1, CopyWhole
      <4> QED BY <3>3, <4>1, <4>2
    <3> QED BY <3>2, <3>3
  <2> QED BY <1>0, <2>1, <2>2, ClaimKept
<1>4. CASE ReadDir(j)
  <2>1. \A k \in Jobs \ {j} : at[k] \notin {"entry", "copy"} /\ at'[k] = at[k]
    BY <1>0, <1>4, ReadDirCases DEF JobsInv, MutexInv
  <2>2. \A k \in Jobs \ {j} : (Holds(k))' = Holds(k) /\ (Claimed(k))' = Claimed(k)
    BY <1>4, <2>1, ReadDirCases DEF Holds, Claimed
  <2>3. CASE at' = [at EXCEPT ![j] = "leave"] /\ UNCHANGED <<unread, buffer, name>>
    <3>1. ~(Holds(j))'
      BY <1>0, <2>3 DEF Holds
    <3>2. \A k \in Jobs : (Holds(k))' => Holds(k) /\ (Claimed(k))' = Claimed(k)
      BY <2>2, <3>1
    <3> QED BY <1>0, <1>4, <2>3, <3>2, ReadDirCases, ClaimKept
  <2>4. CASE /\ at' = [at EXCEPT ![j] = "entry"]
             /\ \E e \in (buffer \cup unread) \ (buffer' \cup unread') : name'[j] = StartOf(e)
             /\ buffer' \cup unread' \subseteq buffer \cup unread
             /\ buffer' \cap unread' = {}
    <3>1. PICK e \in (buffer \cup unread) \ (buffer' \cup unread') : name'[j] = StartOf(e)
      BY <2>4
    <3>2. (Claimed(j))' = e
      BY <1>0, <2>4, <3>1 DEF Claimed, StartOf
    <3>3. ran' = ran
      BY <1>4, ReadDirCases
    <3>4. EachOnce'
      BY <1>0, <3>3 DEF JobsInv, EachOnce, Promised
    <3>5. ASSUME Promised'
          PROVE  /\ \A f \in JobFiles : f \in buffer' \cup unread' => ran'[f] = 0
                 /\ \A k \in Jobs : (Holds(k))' /\ (Claimed(k))' \in JobFiles =>
                      (Claimed(k))' \notin buffer' \cup unread' /\ ran'[(Claimed(k))'] = 0
                 /\ \A k, l \in Jobs :
                      (Holds(k))' /\ (Holds(l))' /\ k # l /\ (Claimed(k))' \in JobFiles
                        => (Claimed(k))' # (Claimed(l))'
      <4>1. /\ \A f \in JobFiles : f \in buffer \cup unread => ran[f] = 0
            /\ \A k \in Jobs : Holds(k) /\ Claimed(k) \in JobFiles =>
                 Claimed(k) \notin buffer \cup unread /\ ran[Claimed(k)] = 0
            /\ \A k, l \in Jobs :
                 Holds(k) /\ Holds(l) /\ k # l /\ Claimed(k) \in JobFiles => Claimed(k) # Claimed(l)
        BY <1>0, <3>5 DEF JobsInv, ClaimInv
      <4>2. \A k \in Jobs : (Holds(k))' /\ (Claimed(k))' \in JobFiles =>
              (Claimed(k))' \notin buffer' \cup unread' /\ ran'[(Claimed(k))'] = 0
        BY <2>2, <2>4, <3>1, <3>2, <3>3, <4>1
      <4>3. \A k \in Jobs \ {j} : (Holds(k))' /\ (Claimed(k))' \in JobFiles => (Claimed(k))' # e
        BY <2>2, <3>1, <4>1
      <4>4. \A k, l \in Jobs :
              (Holds(k))' /\ (Holds(l))' /\ k # l /\ (Claimed(k))' \in JobFiles
                => (Claimed(k))' # (Claimed(l))'
        BY <2>2, <3>2, <4>1, <4>3
      <4> QED BY <2>4, <3>3, <4>1, <4>2, <4>4
    <3> QED BY <2>4, <3>4, <3>5 DEF ClaimInv, Promised
  <2> QED BY <1>4, <2>3, <2>4, ReadDirCases
<1>5. CASE Open(j)
  <2>1. UNCHANGED <<buffer, unread, path, name, fills>>
    BY <1>5 DEF Open, streamVars
  <2>2. /\ Holds(j) /\ Claimed(j) = path[j] /\ ~(Holds(j))'
        /\ \A k \in Jobs \ {j} : (Holds(k))' = Holds(k) /\ (Claimed(k))' = Claimed(k)
    BY <1>0, <1>5, <2>1 DEF Open, GoAt, Holds, Claimed
  <2>3. CASE ran' = ran
    BY <1>0, <2>1, <2>2, <2>3, ClaimKept
  <2>4. CASE path[j] \in Entries /\ ran' = [ran EXCEPT ![path[j]] = @ + 1]
    <3>1. /\ ran'[path[j]] = ran[path[j]] + 1
          /\ \A f \in JobFiles : f # path[j] => ran'[f] = ran[f]
      BY <1>0, <2>4 DEF JobFiles
    <3>2. ASSUME Promised
          PROVE  /\ \A f \in JobFiles : ran'[f] <= 1
                 /\ \A f \in JobFiles : f \in buffer' \cup unread' => ran'[f] = 0
                 /\ \A k \in Jobs : (Holds(k))' /\ (Claimed(k))' \in JobFiles =>
                      (Claimed(k))' \notin buffer' \cup unread' /\ ran'[(Claimed(k))'] = 0
                 /\ \A k, l \in Jobs :
                      (Holds(k))' /\ (Holds(l))' /\ k # l /\ (Claimed(k))' \in JobFiles
                        => (Claimed(k))' # (Claimed(l))'
      <4>1. /\ \A f \in JobFiles : f \in buffer \cup unread => ran[f] = 0
            /\ \A k \in Jobs : Holds(k) /\ Claimed(k) \in JobFiles =>
                 Claimed(k) \notin buffer \cup unread /\ ran[Claimed(k)] = 0
            /\ \A k, l \in Jobs :
                 Holds(k) /\ Holds(l) /\ k # l /\ Claimed(k) \in JobFiles => Claimed(k) # Claimed(l)
            /\ \A f \in JobFiles : ran[f] <= 1
        BY <3>2 DEF JobsInv, ClaimInv, EachOnce, Promised
      <4>2. path[j] \in JobFiles => ran[path[j]] = 0 /\ path[j] \notin buffer \cup unread
        BY <2>2, <4>1
      <4>3. \A k \in Jobs \ {j} : Holds(k) /\ Claimed(k) \in JobFiles => Claimed(k) # path[j]
        BY <2>2, <4>1
      <4>4. \A f \in JobFiles : ran'[f] <= 1
        BY <3>1, <4>1, <4>2
      <4>5. \A f \in JobFiles : f \in buffer' \cup unread' => ran'[f] = 0
        BY <2>1, <3>1, <4>1, <4>2
      <4>6. \A k \in Jobs : (Holds(k))' /\ (Claimed(k))' \in JobFiles =>
              (Claimed(k))' \notin buffer' \cup unread' /\ ran'[(Claimed(k))'] = 0
        BY <2>1, <2>2, <3>1, <4>1, <4>3
      <4>7. \A k, l \in Jobs :
              (Holds(k))' /\ (Holds(l))' /\ k # l /\ (Claimed(k))' \in JobFiles
                => (Claimed(k))' # (Claimed(l))'
        BY <2>2, <4>1
      <4> QED BY <4>4, <4>5, <4>6, <4>7
    <3> QED BY <1>0, <2>1, <3>2 DEF JobsInv, ClaimInv, EachOnce, Promised
  <2> QED BY <1>5, <2>3, <2>4 DEF Open
<1> QED BY <1>1, <1>2, <1>3, <1>4, <1>5 DEF ThreadStep

\* The d_name of a thread stays what it was.
LEMMA NameStep ==
    ASSUME JobsInv, NEW j \in Jobs, ThreadStep(j)
    PROVE  NameInv'
<1>0. /\ at \in [Jobs -> DirLocs] /\ NameInv /\ MutexInv
      /\ name \in [Jobs -> {NoEntry, Elsewhere} \cup Pointers]
      /\ path \in [Jobs -> {NoEntry} \cup Shortened]
  BY DEF JobsInv, DirType
<1> USE DEF NameInv
<1>1. CASE ReadDir(j)
  <2>1. \A k \in Jobs : at'[k] \in {"copy", "unlock", "open", "run", "fork"} =>
          k # j /\ at'[k] = at[k] /\ path'[k] = path[k]
    BY <1>0, <1>1, ReadDirCases
  <2>2. fills' <= 1 => fills <= 1 /\ \A k \in Jobs \ {j} : name'[k] = name[k]
    BY <1>1, FillsGrow, ReadDirCases
  <2>3. fills' = 0 => buffer' = {} /\ name' = name /\ fills = 0
    BY <1>1, FillsGrow, ReadDirCases
  <2> QED BY <1>0, <2>1, <2>2, <2>3
<1>2. CASE ~ReadDir(j)
  <2>0. UNCHANGED <<fills, buffer>>
    BY <1>2, FillsGrow
  <2>1. fills = 0 => \A k \in Jobs : name'[k] = NoEntry
    BY <1>0, <1>2 DEF ThreadStep, DirLock, EntryFiles, EntryPaths, DirUnlock, Open, Command,
                      BackupName, NamedFork, EndOfFile, Leave, streamVars
  <2>2. ASSUME fills <= 1, NEW k \in Jobs
        PROVE  /\ at'[k] = "copy" => name'[k].entry \in JobFiles
               /\ at'[k] \in {"unlock", "open", "run", "fork"} =>
                    path'[k] \in JobFiles /\ name'[k] = StartOf(path'[k])
    <3>1. CASE EntryFiles(j)
      <4>1. at[j] = "entry" /\ UNCHANGED <<name, path>>
            /\ at' = [at EXCEPT ![j] = IF JobName(Shown(name[j])) THEN "copy" ELSE "readdir"]
        BY <3>1 DEF EntryFiles, GoAt
      <4>2. ASSUME JobName(Shown(name[j])) PROVE name[j].entry \in JobFiles
        <5>1. PICK e \in Entries : name[j] = StartOf(e)
          BY <4>1 DEF JobsInv, PlaceInv
        <5>2. name[j].entry = e /\ name[j] # Elsewhere /\ Shown(name[j]) = SubSeq(e, 1, left[e])
          BY <5>1, StartIsPointer, NoNameAssumption DEF Shown
        <5>3. left[e] = Len(e) \/ e \in JobFiles
          BY <2>2 DEF JobsInv, LeftInv
        <5>4. left[e] = Len(e) => SubSeq(e, 1, left[e]) = e
          BY EntriesAssumption, SubSeqFull
        <5> QED BY <4>2, <5>2, <5>3, <5>4 DEF JobFiles
      <4> QED BY <1>0, <2>2, <4>1, <4>2
    <3>2. CASE EntryPaths(j)
      <4>1. /\ UNCHANGED name /\ at[j] = "copy" /\ \A l \in Jobs \ {j} : path'[l] = path[l]
            /\ at' = [at EXCEPT ![j] = "unlock"] \/ at' = [l \in Jobs |-> "gone"]
        BY <1>0, <3>2 DEF EntryPaths, GoAt
      <4>2. PICK e \in Entries :
              /\ name[j] = StartOf(e) /\ name[j].entry = e
              /\ path' = [path EXCEPT ![j] = SubSeq(e, 1, left[e])]
              /\ left[e] = Len(e) => SubSeq(e, 1, left[e]) = e
        BY <3>2, PathFacts
      <4>3. e \in JobFiles
        BY <1>0, <2>2, <4>1, <4>2
      <4>4. Holds(j) /\ Claimed(j) = e
        BY <4>1, <4>2 DEF Holds, Claimed
      <4>5. ran[e] = 0
        BY <2>2, <4>3, <4>4 DEF JobsInv, ClaimInv, Promised
      <4>6. path'[j] = e
        BY <1>0, <2>2, <4>2, <4>5 DEF JobsInv, LeftInv
      <4> QED BY <1>0, <2>2, <4>1, <4>2, <4>3, <4>6
    <3>3. CASE DirLock(j) \/ DirUnlock(j) \/ Open(j) \/ EndOfFile(j) \/ Leave(j)
      BY <1>0, <2>2, <3>3 DEF DirLock, DirUnlock, Open, EndOfFile, Leave, GoAt
    <3>4. CASE Command(j) \/ BackupName(j) \/ NamedFork(j)
      BY <1>0, <2>2, <3>4 DEF Command, BackupName, NamedFork, GoAt
    <3> QED BY <1>2, <3>1, <3>2, <3>3, <3>4 DEF ThreadStep
  <2> QED BY <1>0, <2>0, <2>1, <2>2
<1> QED BY <1>1, <1>2

\* Only the names of files that have been run are cut.
LEMMA LeftStep ==
    ASSUME TypeOK, JobsInv, NEW j \in Jobs, ThreadStep(j)
    PROVE  LeftInv'
<1>0. /\ ran \in [Entries -> Nat] /\ LeftInv
  BY DEF JobsInv, FileType
<1>1. fills' <= 1 => fills <= 1
  BY FillsGrow
<1>2. \A e \in Entries : ran'[e] \in Nat /\ (ran[e] > 0 => ran'[e] > 0)
  <2>1. CASE ran' = ran
    BY <1>0, <2>1
  <2>2. CASE Open(j) /\ path[j] \in Entries /\ ran' = [ran EXCEPT ![path[j]] = @ + 1]
    BY <1>0, <2>2
  <2>3. ran' = ran \/ (Open(j) /\ path[j] \in Entries /\ ran' = [ran EXCEPT ![path[j]] = @ + 1])
    <3>1. CASE Open(j)
      BY <3>1 DEF Open
    <3>2. CASE ReadDir(j)
      BY <3>2, ReadDirCases
    <3>3. CASE ~Open(j) /\ ~ReadDir(j)
      BY <3>3 DEF ThreadStep, DirLock, EntryFiles, EntryPaths, DirUnlock, Command, BackupName,
                  NamedFork, EndOfFile, Leave, fileVars
    <3> QED BY <3>1, <3>2, <3>3
  <2> QED BY <2>1, <2>2, <2>3
<1>3. CASE BackupName(j)
  <2>1. /\ at[j] = "run" /\ left' = Cut(name[j]) /\ name[j] \in Pointers \cup {Elsewhere}
        /\ ran' = ran
    BY <1>3, NamingFacts
  <2>2. ASSUME fills <= 1
        PROVE  name[j] = StartOf(path[j]) /\ path[j] \in JobFiles /\ ran[path[j]] > 0
    BY <2>1, <2>2 DEF JobsInv, NameInv, RunInv
  <2>3. \A e \in Entries : left'[e] = left[e] \/ (name[j] # Elsewhere /\ e = name[j].entry)
    BY <2>1, CutFacts DEF JobsInv, DirType
  <2>4. fills <= 1 => name[j].entry = path[j]
    BY <2>2 DEF StartOf
  <2> QED BY <1>0, <1>1, <2>1, <2>2, <2>3, <2>4 DEF LeftInv
<1>4. CASE ~BackupName(j)
  <2>1. left' = left
    <3>1. CASE ReadDir(j)
      BY <3>1, ReadDirCases
    <3>2. CASE ~ReadDir(j)
      BY <1>4, <3>2 DEF ThreadStep, DirLock, EntryFiles, EntryPaths, DirUnlock, Open, Command,
                        NamedFork, EndOfFile, Leave
    <3> QED BY <3>1, <3>2
  <2> QED BY <1>0, <1>1, <1>2, <2>1 DEF LeftInv
<1> QED BY <1>3, <1>4

\* What has been run and begun stays as it was, but for the thread that opens a
\* file or names a backup.
LEMMA RunKept ==
    ASSUME JobsInv, NEW j \in Jobs, ThreadStep(j), ~Open(j), ~BackupName(j)
    PROVE  /\ UNCHANGED <<ran, begun, file_backups>>
           /\ \A k \in Jobs : at'[k] \in {"run", "fork"} =>
                at[k] \in {"run", "fork"} /\ path'[k] = path[k]
<1>0. at \in [Jobs -> DirLocs] /\ path \in [Jobs -> {NoEntry} \cup Shortened]
  BY DEF JobsInv, DirType
<1>1. CASE ReadDir(j)
  BY <1>0, <1>1, ReadDirCases
<1>2. CASE EntryPaths(j)
  BY <1>0, <1>2 DEF EntryPaths, GoAt, fileVars
<1>3. CASE DirLock(j) \/ EntryFiles(j) \/ DirUnlock(j) \/ EndOfFile(j) \/ Leave(j)
  BY <1>0, <1>3 DEF DirLock, EntryFiles, DirUnlock, EndOfFile, Leave, GoAt, fileVars
<1>4. CASE Command(j) \/ NamedFork(j)
  BY <1>0, <1>4 DEF Command, NamedFork, GoAt, fileVars
<1> QED BY <1>1, <1>2, <1>3, <1>4 DEF ThreadStep

\* The thread that opens a file.
LEMMA OpenFacts ==
    ASSUME JobsInv, NEW j \in Jobs, Open(j)
    PROVE  /\ UNCHANGED <<name, path, begun, fills>>
           /\ \A k \in Jobs \ {j} : at'[k] = at[k] /\ file_backups'[k] = file_backups[k]
           /\ \/ at'[j] = "gone" /\ UNCHANGED <<ran, file_backups>>
              \/ /\ at'[j] = "run" /\ file_backups'[j] = 0 /\ path[j] \in Entries
                 /\ ran' = [ran EXCEPT ![path[j]] = @ + 1]
           /\ fills <= 1 =>
                /\ path[j] \in JobFiles /\ ran[path[j]] = 0
                /\ \A k \in Jobs \ {j} : at[k] \in {"run", "fork"} => path[k] # path[j]
<1>0. at \in [Jobs -> DirLocs] /\ file_backups \in [Jobs -> Nat]
  BY DEF JobsInv, DirType, FileType
<1>1. at[j] = "open" /\ UNCHANGED <<name, path, begun, fills>>
  BY DEF Open, streamVars
<1>2. ASSUME fills <= 1
      PROVE  /\ path[j] \in JobFiles /\ ran[path[j]] = 0
             /\ \A k \in Jobs \ {j} : at[k] \in {"run", "fork"} => path[k] # path[j]
  <2>1. path[j] \in JobFiles
    BY <1>1, <1>2 DEF JobsInv, NameInv
  <2>2. Holds(j) /\ Claimed(j) = path[j]
    BY <1>1 DEF Holds, Claimed
  <2>3. ran[path[j]] = 0
    BY <1>2, <2>1, <2>2 DEF JobsInv, ClaimInv, Promised
  <2> QED BY <1>2, <2>1, <2>3 DEF JobsInv, RunInv
<1>3. CASE path[j] \in Entries \ Broken
  BY <1>0, <1>1, <1>2, <1>3 DEF Open, GoAt
<1>4. CASE path[j] \notin Entries \ Broken
  BY <1>0, <1>1, <1>2, <1>4 DEF Open, GoAt
<1> QED BY <1>3, <1>4

\* Two threads never run the same file.
LEMMA RunStep ==
    ASSUME TypeOK, JobsInv, NEW j \in Jobs, ThreadStep(j)
    PROVE  RunInv'
<1>0. ran \in [Entries -> Nat] /\ RunInv /\ at \in [Jobs -> DirLocs]
  BY DEF JobsInv, DirType, FileType
<1> SUFFICES ASSUME fills' <= 1
             PROVE  \A k \in Jobs : at'[k] \in {"run", "fork"} =>
                      /\ ran'[path'[k]] > 0
                      /\ \A l \in Jobs \ {k} : at'[l] \in {"run", "fork"} => path'[l] # path'[k]
  BY DEF RunInv
<1>1. fills <= 1
  BY FillsGrow
<1>2. \A k \in Jobs : at[k] \in {"run", "fork"} =>
        /\ ran[path[k]] > 0 /\ path[k] \in Entries
        /\ \A l \in Jobs \ {k} : at[l] \in {"run", "fork"} => path[l] # path[k]
  BY <1>0, <1>1 DEF RunInv, JobsInv, PlaceInv
<1>3. CASE Open(j)
  <2>1. CASE at'[j] = "gone" /\ UNCHANGED <<ran, file_backups>>
    BY <1>2, <1>3, <2>1, OpenFacts
  <2>2. CASE /\ at'[j] = "run" /\ path[j] \in Entries
             /\ ran' = [ran EXCEPT ![path[j]] = @ + 1]
    <3>1. ran'[path[j]] > 0 /\ \A f \in Entries : ran[f] > 0 => ran'[f] > 0
      BY <1>0, <2>2
    <3> QED BY <1>1, <1>2, <1>3, <2>2, <3>1, OpenFacts
  <2> QED BY <1>3, <2>1, <2>2, OpenFacts
<1>4. CASE BackupName(j)
  <2>1. \A k \in Jobs : at'[k] \in {"run", "fork"} => at[k] \in {"run", "fork"}
    BY <1>0, <1>4, NamingFacts
  <2> QED BY <1>2, <1>4, <2>1, NamingFacts
<1>5. CASE ~Open(j) /\ ~BackupName(j)
  BY <1>2, <1>5, RunKept
<1> QED BY <1>3, <1>4, <1>5

\* A backup's name is appended to those of its file, under the next number.
LEMMA BegunStep ==
    ASSUME TypeOK, JobsInv, NEW j \in Jobs, ThreadStep(j)
    PROVE  BegunInv'
<1>0. /\ ran \in [Entries -> Nat] /\ BegunInv /\ at \in [Jobs -> DirLocs]
      /\ begun \in [Entries -> Seq(Seq(Chars \cup {"."}))] /\ file_backups \in [Jobs -> Nat]
      /\ JobFiles \subseteq Entries
  BY DEF JobsInv, DirType, FileType, JobFiles
<1>1. CASE ~(fills' <= 1)
  BY <1>1 DEF BegunInv
<1>2. CASE fills' <= 1
  <2>1. fills <= 1
    BY <1>2, FillsGrow
  <2>2. \A f \in JobFiles :
          /\ ran[f] = 0 => begun[f] = <<>>
          /\ Len(begun[f]) <= MaxCommands
          /\ \A n \in 1..Len(begun[f]) : begun[f][n] = BckName(Token(StartOf(f)), n)
    BY <1>0, <2>1 DEF BegunInv
  <2>3. \A k \in Jobs : at[k] \in {"run", "fork"} => Len(begun[path[k]]) = file_backups[k]
    BY <1>0, <2>1 DEF BegunInv
  <2>4. CASE Open(j)
    <3>1. begun' = begun /\ path' = path
      BY <2>4, OpenFacts
    <3>2. \A f \in JobFiles : ran'[f] = 0 => ran[f] = 0
      <4>1. ran' = ran \/ (path[j] \in Entries /\ ran' = [ran EXCEPT ![path[j]] = @ + 1])
        BY <2>4, OpenFacts
      <4> QED BY <1>0, <4>1
    <3>3. \A k \in Jobs : at'[k] \in {"run", "fork"} => Len(begun[path[k]]) = file_backups'[k]
      <4>1. ASSUME NEW k \in Jobs \ {j}, at'[k] \in {"run", "fork"}
            PROVE  Len(begun[path[k]]) = file_backups'[k]
        BY <2>3, <2>4, <4>1, OpenFacts
      <4>2. ASSUME at'[j] \in {"run", "fork"} PROVE Len(begun[path[j]]) = file_backups'[j]
        <5>1. file_backups'[j] = 0 /\ path[j] \in JobFiles /\ ran[path[j]] = 0
          BY <2>1, <2>4, <4>2, OpenFacts
        <5>2. begun[path[j]] = <<>>
          BY <2>2, <5>1
        <5> QED BY <5>1, <5>2, EmptySeq
      <4> QED BY <4>1, <4>2
    <3> QED BY <2>2, <3>1, <3>2, <3>3 DEF BegunInv
  <2>5. CASE BackupName(j)
    <3> DEFINE p == path[j]
               b == BckName(Token(name[j]), file_backups'[j])
    <3>1. /\ at[j] = "run" /\ UNCHANGED <<path, ran, fills>> /\ p \in Entries
          /\ at' = [at EXCEPT ![j] = "fork"]
          /\ file_backups' = [file_backups EXCEPT ![j] = @ + 1]
          /\ file_backups'[j] = file_backups[j] + 1 /\ file_backups'[j] \in Numbers
          /\ b \in Seq(Chars \cup {"."})
          /\ begun' = [begun EXCEPT ![p] = Append(@, b)]
      BY <2>5, NamingFacts
    <3>2. /\ p \in JobFiles /\ name[j] = StartOf(p) /\ ran[p] > 0
          /\ \A k \in Jobs \ {j} : at[k] \in {"run", "fork"} => path[k] # p
      BY <2>1, <3>1 DEF JobsInv, NameInv, RunInv
    <3>3. Len(begun[p]) = file_backups[j] /\ b = BckName(Token(StartOf(p)), Len(begun[p]) + 1)
      BY <2>3, <3>1, <3>2
    <3>4. Len(begun[p]) + 1 <= MaxCommands
      BY <3>1, <3>3, MaxCommandsAssumption DEF Numbers
    <3> HIDE DEF b
    <3>5. begun'[p] = Append(begun[p], b) /\ \A f \in Entries : f # p => begun'[f] = begun[f]
      <4> HIDE DEF p
      <4> QED BY <1>0, <3>1
    <3>6. begun[p] \in Seq(Seq(Chars \cup {"."})) /\ Len(begun[p]) \in Nat
      <4> HIDE DEF p
      <4> QED BY <1>0, <3>1
    <3> HIDE DEF p
    <3>7. /\ Len(begun'[p]) = Len(begun[p]) + 1
          /\ \A n \in 1..Len(begun[p]) : begun'[p][n] = begun[p][n]
          /\ begun'[p][Len(begun[p]) + 1] = b
      BY <3>1, <3>5, <3>6, AppendProperties
    <3>8. \A n \in 1..Len(begun'[p]) : begun'[p][n] = BckName(Token(StartOf(p)), n)
      <4>1. \A n \in 1..Len(begun'[p]) : n \in 1..Len(begun[p]) \/ n = Len(begun[p]) + 1
        BY <3>6, <3>7
      <4> QED BY <2>2, <3>2, <3>3, <3>7, <4>1
    <3>9. ~(ran'[p] = 0)
      BY <1>0, <3>1, <3>2
    <3>10. \A f \in JobFiles :
             /\ ran'[f] = 0 => begun'[f] = <<>>
             /\ Len(begun'[f]) <= MaxCommands
             /\ \A n \in 1..Len(begun'[f]) : begun'[f][n] = BckName(Token(StartOf(f)), n)
      <4>1. Len(begun'[p]) <= MaxCommands
        BY <3>4, <3>7
      <4> QED BY <1>0, <2>2, <3>1, <3>5, <3>8, <3>9, <4>1
    <3>11. \A k \in Jobs : at'[k] \in {"run", "fork"} => Len(begun'[path'[k]]) = file_backups'[k]
      <4>1. ASSUME NEW k \in Jobs \ {j}, at'[k] \in {"run", "fork"}
            PROVE  Len(begun'[path[k]]) = file_backups'[k]
        <5>1. at[k] = at'[k] /\ file_backups'[k] = file_backups[k]
          BY <1>0, <3>1, <4>1
        <5>2. path[k] # p /\ path[k] \in Entries
          BY <3>2, <4>1, <5>1 DEF JobsInv, PlaceInv
        <5> QED BY <2>3, <3>5, <4>1, <5>1, <5>2
      <4>2. Len(begun'[path[j]]) = file_backups'[j]
        BY <3>1, <3>3, <3>7 DEF p
      <4> QED BY <3>1, <4>1, <4>2
    <3> QED BY <3>10, <3>11 DEF BegunInv
  <2>6. CASE ~Open(j) /\ ~BackupName(j)
    BY <2>2, <2>3, <2>6, RunKept DEF BegunInv
  <2> QED BY <2>4, <2>5, <2>6
<1> QED BY <1>1, <1>2

\* Together.
LEMMA DirStep == TypeOK /\ JobsInv /\ [JobsNext]_jobsVars => JobsInv'
<1> SUFFICES ASSUME TypeOK, JobsInv, [JobsNext]_jobsVars PROVE JobsInv'
  OBVIOUS
<1>1. CASE \E j \in Jobs : ThreadStep(j)
  BY <1>1, DirTypeStep, PlaceStep, WorkStep, ClaimStep, NameStep, LeftStep, RunStep, BegunStep
     DEF JobsInv
<1>2. CASE ChildExit \/ UNCHANGED jobsVars
  <2>1. UNCHANGED <<dirmutex, unread, buffer, fills, left, at, name, path, file_backups, ran,
                    begun, pc, done>>
    BY <1>2 DEF ChildExit, Exit, jobsVars, vars, streamVars, fileVars
  <2>2. (DirType /\ FileType /\ PlaceInv /\ MutexInv)'
    BY <2>1 DEF JobsInv, DirType, FileType, PlaceInv, MutexInv
  <2>3. WorkInv'
    BY <2>1 DEF JobsInv, WorkInv
  <2>4. (ClaimInv /\ EachOnce)'
    BY <2>1 DEF JobsInv, ClaimInv, EachOnce, Holds, Claimed, Promised, Distinguishable, JobFiles, JobName
  <2>5. (LeftInv /\ NameInv /\ RunInv)'
    BY <2>1 DEF JobsInv, LeftInv, NameInv, RunInv
  <2>6. BegunInv'
    BY <2>1 DEF JobsInv, BegunInv
  <2> QED BY <2>2, <2>3, <2>4, <2>5, <2>6 DEF JobsInv
<1> QED BY <1>1, <1>2 DEF JobsNext

\* All of it is an invariant.
LEMMA JobsInvariant == JobsSpec => [](Inv /\ JobsInv)
<1>1. JobsInit => Init
  BY DEF JobsInit
<1>2. Inv => TypeOK
  BY DEF Inv
<1> QED BY <1>1, <1>2, JobsStep, Safety, DirInit, DirStep, PTL DEF JobsSpec

\* Every variable of the jobs keeps to its type, and a thread in run_job has a
\* file that it has opened.
THEOREM JobsTypeCorrect == JobsSpec => []JobsTypeOK
<1>1. Inv /\ JobsInv => JobsTypeOK
  BY DEF Inv, JobsInv, DirType, FileType, PlaceInv, JobsTypeOK
<1> QED BY <1>1, JobsInvariant, PTL

\* No job file is run twice: directory_mutex keeps the entry a thread has got
\* from being overwritten until its path is copied, however small the buffer,
\* and what a backup cuts off a name makes another job file's of it only in a
\* directory that has such names.
THEOREM FilesRunOnce == JobsSpec => []EachOnce
<1>1. JobsInv => EachOnce
  BY DEF JobsInv
<1> QED BY <1>1, JobsInvariant, PTL

\* A backup that bck_name has the whole name of shares its file with those of the
\* same number of job files that begin with the same part, and no others, cut
\* off or not, as long as the directory fits into the buffer of its stream.
THEOREM BackupsKeptApart == JobsSpec => []BackupsApart
<1>1. JobsInv => BackupsApart
  <2> SUFFICES ASSUME JobsInv, fills <= 1, NEW e \in JobFiles, NEW f \in JobFiles,
                      NEW m \in 1..Len(begun[e]), NEW n \in 1..Len(begun[f]),
                      begun[e][m] = begun[f][n], Len(WholeName(Token(StartOf(e)), m)) <= Room
               PROVE  Token(StartOf(e)) = Token(StartOf(f)) /\ m = n
    BY DEF BackupsApart
  <2>1. e \in Entries /\ f \in Entries
    BY DEF JobFiles
  <2>2. /\ begun[e][m] = BckName(Token(StartOf(e)), m) /\ Len(begun[e]) <= MaxCommands
        /\ begun[f][n] = BckName(Token(StartOf(f)), n) /\ Len(begun[f]) <= MaxCommands
    BY DEF JobsInv, BegunInv
  <2>3. Len(begun[e]) \in Nat /\ Len(begun[f]) \in Nat
    BY <2>1 DEF JobsInv, FileType
  <2>4. m \in Numbers /\ n \in Numbers
    BY <2>2, <2>3, MaxCommandsAssumption DEF Numbers
  <2>5. Token(StartOf(e)) \in Seq(Chars) /\ Token(StartOf(f)) \in Seq(Chars)
    BY <2>1, StartIsPointer, TokenType
  <2>6. BckName(Token(StartOf(e)), m) = BckName(Token(StartOf(f)), n)
    BY <2>2
  <2> QED BY <2>4, <2>5, <2>6, SameName
<1> QED BY <1>1, JobsInvariant, PTL
=============================================================================
