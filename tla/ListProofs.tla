----------------------------- MODULE ListProofs -----------------------------
(***************************************************************************)
(* Proofs about the list of sessions, for any number of clients and any S: *)
(* what a walk along it comes to, and that the list and activeClients are  *)
(* exact, and nobody refused, until two threads have met in changing them. *)
(* No lock keeps them apart; that they meet is the only thing that can go  *)
(* wrong.                                                                  *)
(***************************************************************************)
EXTENDS SessionsProofs, ListChanges

Pointers == [Clients -> Clients \cup {NoClient}]

\* The nodes a walk comes to are closed under the pointers, and the first is one of them.
LEMMA WalkClosed ==
    ASSUME NEW f \in Pointers, NEW x \in Clients \cup {NoClient}
    PROVE  /\ Walk(f, x) \in SUBSET Clients
           /\ x \in Walk(f, x) \cup {NoClient}
           /\ \A b \in Walk(f, x) : f[b] \in Walk(f, x) \cup {NoClient}
BY DEF Walk, Pointers

\* Whatever nodes are closed under the pointers, and have the first one among them,
\* have all of them.
LEMMA WalkLeast ==
    ASSUME NEW f, NEW x, NEW nodes \in SUBSET Clients,
           x \in nodes \cup {NoClient},
           \A b \in nodes : f[b] \in nodes \cup {NoClient}
    PROVE  Walk(f, x) \subseteq nodes
BY DEF Walk

\* A walk from NULL comes to nothing.
LEMMA WalkNone == \A f : Walk(f, NoClient) = {}
<1> SUFFICES ASSUME NEW f PROVE Walk(f, NoClient) = {}
  OBVIOUS
<1> DEFINE nodes == {}
<1>1. nodes \in SUBSET Clients /\ NoClient \in nodes \cup {NoClient}
  OBVIOUS
<1>2. \A b \in nodes : f[b] \in nodes \cup {NoClient}
  OBVIOUS
<1>3. Walk(f, NoClient) \subseteq nodes
  <2> HIDE DEF nodes
  <2> QED BY <1>1, <1>2, WalkLeast
<1> QED BY <1>3

\* A walk may be gone on with from any node of it.
LEMMA WalkFrom ==
    ASSUME NEW f \in Pointers, NEW x \in Clients \cup {NoClient}, NEW y \in Walk(f, x)
    PROVE  Walk(f, y) \subseteq Walk(f, x)
BY WalkClosed, WalkLeast

\* A walk from a node: the node, and a walk from the next one.
LEMMA WalkFirst ==
    ASSUME NEW f \in Pointers, NEW x \in Clients
    PROVE  /\ Walk(f, x) = {x} \cup Walk(f, f[x])
           /\ Walk(f, f[x]) \subseteq Walk(f, x)
<1>1. f[x] \in Clients \cup {NoClient}
  BY DEF Pointers
<1>2. Walk(f, x) \subseteq {x} \cup Walk(f, f[x])
  <2> DEFINE nodes == {x} \cup Walk(f, f[x])
  <2>1. nodes \in SUBSET Clients /\ x \in nodes \cup {NoClient}
    BY <1>1, WalkClosed
  <2>2. \A b \in nodes : f[b] \in nodes \cup {NoClient}
    BY <1>1, WalkClosed
  <2>3. Walk(f, x) \subseteq nodes
    <3> HIDE DEF nodes
    <3> QED BY <2>1, <2>2, WalkLeast
  <2> QED BY <2>3
<1>3. x \in Walk(f, x) /\ f[x] \in Walk(f, x) \cup {NoClient}
  BY WalkClosed, ClientsAssumption
<1>4. Walk(f, f[x]) \subseteq Walk(f, x)
  BY <1>3, WalkFrom, WalkNone
<1> QED BY <1>2, <1>3, <1>4

\* Of two nodes of a walk one comes after the other.
LEMMA WalkLinear ==
    ASSUME NEW f \in Pointers, NEW x \in Clients \cup {NoClient},
           NEW y \in Walk(f, x), NEW z \in Walk(f, x)
    PROVE  y \in Walk(f, z) \/ z \in Walk(f, y)
<1> DEFINE nodes == {b \in Walk(f, x) : y \in Walk(f, b) \/ b \in Walk(f, y)}
<1>1. /\ Walk(f, x) \in SUBSET Clients /\ x \in Walk(f, x) \cup {NoClient}
      /\ \A b \in Walk(f, x) : f[b] \in Walk(f, x) \cup {NoClient}
  BY WalkClosed
<1>2. y \in Clients /\ \A b \in Walk(f, y) : f[b] \in Walk(f, y) \cup {NoClient}
  BY <1>1, WalkClosed
<1>3. y \in Walk(f, y)
  BY <1>1, WalkClosed, ClientsAssumption
<1>4. nodes \in SUBSET Clients /\ x \in nodes \cup {NoClient}
  BY <1>1
<1>5. ASSUME NEW b \in nodes PROVE f[b] \in nodes \cup {NoClient}
  <2>1. b \in Clients /\ f[b] \in Walk(f, x) \cup {NoClient}
    BY <1>1
  <2>2. CASE b \in Walk(f, y)
    BY <1>2, <2>1, <2>2
  <2>3. CASE y \in Walk(f, b) /\ b \notin Walk(f, y)
    <3>1. y # b
      BY <1>3, <2>3
    <3>2. y \in Walk(f, f[b])
      BY <2>1, <2>3, <3>1, WalkFirst
    <3> QED BY <2>1, <3>2
  <2> QED BY <2>2, <2>3
<1>6. Walk(f, x) \subseteq nodes
  <2> HIDE DEF nodes
  <2> QED BY <1>4, <1>5, WalkLeast
<1> QED BY <1>6

\* A walk along no list comes to nothing, along a list of one node to that one.
LEMMA ListedNone == head = NoClient => Listed = {}
BY WalkNone DEF Listed

LEMMA ListedOne ==
    ASSUME next \in Pointers, NEW c \in Clients, head = c, next[c] = NoClient
    PROVE  Listed = {c}
BY WalkFirst, WalkNone DEF Listed

-----------------------------------------------------------------------------
\* Pointers f only lead to nodes of a higher rank.
Ranked(f, r) == \A c \in Clients : f[c] \in Clients => r[c] < r[f[c]]

\* So all that comes later in a walk ranks higher.
LEMMA WalkRanks ==
    ASSUME NEW f \in Pointers, NEW r \in [Clients -> Nat], Ranked(f, r), NEW x \in Clients
    PROVE  \A y \in Walk(f, x) : y = x \/ r[x] < r[y]
<1> DEFINE nodes == {y \in Clients : y = x \/ r[x] < r[y]}
<1>1. nodes \in SUBSET Clients /\ x \in nodes \cup {NoClient}
  OBVIOUS
<1>2. ASSUME NEW b \in nodes PROVE f[b] \in nodes \cup {NoClient}
  <2>1. b \in Clients /\ r[b] \in Nat /\ r[x] \in Nat /\ r[x] <= r[b]
    OBVIOUS
  <2>2. f[b] \in Clients => r[f[b]] \in Nat /\ r[b] < r[f[b]]
    BY <2>1 DEF Ranked
  <2>3. f[b] \in Clients \cup {NoClient}
    BY <2>1 DEF Pointers
  <2> QED BY <2>1, <2>2, <2>3
<1>3. Walk(f, x) \subseteq nodes
  <2> HIDE DEF nodes
  <2> QED BY <1>1, <1>2, WalkLeast
<1> QED BY <1>3

\* When node p is made to point past nodes, to z, a walk still comes to whatever
\* it came to before that lies no later than p, or is to be reached from z.
LEMMA WalkBypass ==
    ASSUME NEW f \in Pointers, NEW r \in [Clients -> Nat], Ranked(f, r),
           NEW p \in Clients, NEW z \in Clients \cup {NoClient},
           z \in Clients => r[p] < r[z],
           NEW x \in Clients \cup {NoClient}, NEW d \in Walk(f, x),
           r[d] <= r[p] \/ d \in Walk(f, z)
    PROVE  d \in Walk([f EXCEPT ![p] = z], x)
<1> DEFINE g == [f EXCEPT ![p] = z]
<1>1. d \in Clients /\ \A b \in Clients : r[b] \in Nat /\ f[b] \in Clients \cup {NoClient}
  BY WalkClosed DEF Pointers
<1>2. g[p] = z /\ \A b \in Clients : b # p => g[b] = f[b]
  BY DEF Pointers
<1> SUFFICES ASSUME NEW nodes \in SUBSET Clients, x \in nodes \cup {NoClient},
                    \A b \in nodes : g[b] \in nodes \cup {NoClient}
             PROVE  d \in nodes
  BY <1>1 DEF Walk
<1> HIDE DEF g
<1>3. CASE p \notin nodes
  <2>1. \A b \in nodes : f[b] \in nodes \cup {NoClient}
    BY <1>2, <1>3
  <2> QED BY <2>1, WalkLeast
<1>4. CASE p \in nodes /\ r[d] <= r[p]
  <2> DEFINE more == nodes \cup {b \in Clients : r[p] < r[b]}
  <2>1. more \in SUBSET Clients /\ x \in more \cup {NoClient}
    OBVIOUS
  <2>2. ASSUME NEW b \in more PROVE f[b] \in more \cup {NoClient}
    <3>1. f[b] \in Clients => r[b] < r[f[b]]
      BY DEF Ranked
    <3>2. CASE b \in nodes /\ b # p
      BY <1>2, <3>2
    <3>3. CASE b = p \/ r[p] < r[b]
      BY <1>1, <3>1, <3>3
    <3> QED BY <3>2, <3>3
  <2>3. Walk(f, x) \subseteq more
    <3> HIDE DEF more
    <3> QED BY <2>1, <2>2, WalkLeast
  <2> QED BY <1>1, <1>4, <2>3
<1>5. CASE p \in nodes /\ d \in Walk(f, z)
  <2> DEFINE later == {b \in nodes : r[p] < r[b]}
  <2>1. z \in nodes \cup {NoClient}
    BY <1>2, <1>5
  <2>2. later \in SUBSET Clients /\ z \in later \cup {NoClient}
    BY <2>1
  <2>3. ASSUME NEW b \in later PROVE f[b] \in later \cup {NoClient}
    <3>1. b \in Clients /\ b # p /\ r[p] < r[b]
      BY <1>1
    <3>2. f[b] \in nodes \cup {NoClient}
      BY <1>2, <3>1
    <3>3. f[b] \in Clients => r[b] < r[f[b]]
      BY <3>1 DEF Ranked
    <3> QED BY <1>1, <3>1, <3>2, <3>3
  <2>4. Walk(f, z) \subseteq later
    <3> HIDE DEF later
    <3> QED BY <2>2, <2>3, WalkLeast
  <2> QED BY <1>5, <2>4
<1> QED BY <1>3, <1>4, <1>5

\* A node that is made to point to another one of the walk adds nothing to it.
LEMMA WalkShrinks ==
    ASSUME NEW f \in Pointers, NEW x \in Clients \cup {NoClient}, NEW p \in Clients,
           NEW z \in Walk(f, x) \cup {NoClient}
    PROVE  Walk([f EXCEPT ![p] = z], x) \subseteq Walk(f, x)
<1> DEFINE g == [f EXCEPT ![p] = z]
<1>1. /\ Walk(f, x) \in SUBSET Clients /\ x \in Walk(f, x) \cup {NoClient}
      /\ \A b \in Walk(f, x) : f[b] \in Walk(f, x) \cup {NoClient}
  BY WalkClosed
<1>2. \A b \in Walk(f, x) : g[b] \in Walk(f, x) \cup {NoClient}
  BY <1>1 DEF Pointers
<1> QED BY <1>1, <1>2, WalkLeast

\* Nothing but z and what lies behind z is added where a node is made to point to z.
LEMMA WalkGrows ==
    ASSUME NEW f \in Pointers, NEW x \in Clients \cup {NoClient}, NEW p \in Clients,
           NEW z \in Clients, f[z] = NoClient, p # z
    PROVE  Walk([f EXCEPT ![p] = z], x) \subseteq Walk(f, x) \cup {z}
<1> DEFINE g == [f EXCEPT ![p] = z]
           nodes == Walk(f, x) \cup {z}
<1>1. /\ Walk(f, x) \in SUBSET Clients /\ x \in Walk(f, x) \cup {NoClient}
      /\ \A b \in Walk(f, x) : f[b] \in Walk(f, x) \cup {NoClient}
  BY WalkClosed
<1>2. nodes \in SUBSET Clients /\ x \in nodes \cup {NoClient}
  BY <1>1
<1>3. \A b \in nodes : g[b] \in nodes \cup {NoClient}
  BY <1>1 DEF Pointers
<1>4. Walk(g, x) \subseteq nodes
  <2> HIDE DEF g, nodes
  <2> QED BY <1>2, <1>3, WalkLeast
<1> QED BY <1>4

\* A pointer that is not on the way does not matter.
LEMMA WalkElsewhere ==
    ASSUME NEW f \in Pointers, NEW x \in Clients \cup {NoClient}, NEW p \in Clients \ Walk(f, x),
           NEW z \in Clients \cup {NoClient}
    PROVE  Walk([f EXCEPT ![p] = z], x) = Walk(f, x)
<1> DEFINE g == [f EXCEPT ![p] = z]
<1>1. g \in Pointers /\ \A b \in Clients : b # p => g[b] = f[b]
  BY DEF Pointers
<1>2. /\ Walk(f, x) \in SUBSET Clients /\ x \in Walk(f, x) \cup {NoClient}
      /\ \A b \in Walk(f, x) : f[b] \in Walk(f, x) \cup {NoClient}
  BY WalkClosed
<1> HIDE DEF g
<1>3. /\ Walk(g, x) \in SUBSET Clients /\ x \in Walk(g, x) \cup {NoClient}
      /\ \A b \in Walk(g, x) : g[b] \in Walk(g, x) \cup {NoClient}
  BY <1>1, WalkClosed
<1>4. \A b \in Walk(f, x) : g[b] \in Walk(f, x) \cup {NoClient}
  BY <1>1, <1>2
<1>5. Walk(g, x) \subseteq Walk(f, x)
  BY <1>2, <1>4, WalkLeast
<1>6. \A b \in Walk(g, x) : f[b] \in Walk(g, x) \cup {NoClient}
  BY <1>1, <1>3, <1>5
<1>7. Walk(f, x) \subseteq Walk(g, x)
  BY <1>3, <1>6, WalkLeast, ZenonT(60)
<1> QED BY <1>5, <1>7 DEF g

\* No node comes before the first one, and no two before the same one.
LEMMA OneBefore ==
    ASSUME NEW f \in Pointers, NEW r \in [Clients -> Nat], Ranked(f, r),
           NEW x \in Clients \cup {NoClient}, NEW b \in Walk(f, x), NEW c \in Clients, f[b] = c
    PROVE  c # x /\ \A d \in Walk(f, x) : f[d] = c => d = b
<1>1. /\ \A d \in Walk(f, x) : d \in Clients
      /\ \A d \in Clients : r[d] \in Nat /\ (f[d] = c => r[d] < r[c])
  BY WalkClosed DEF Ranked
<1>2. ASSUME NEW d \in Walk(f, x), NEW e \in Walk(f, x), f[d] = c, f[e] = c, e \in Walk(f, d)
      PROVE  d = e
  <2>1. d = e \/ e \in Walk(f, c)
    BY <1>1, <1>2, WalkFirst
  <2>2. e \in Walk(f, c) => c = e \/ r[c] < r[e]
    BY <1>1, WalkRanks
  <2> QED BY <1>1, <1>2, <2>1, <2>2
<1>3. c # x
  <2> SUFFICES ASSUME c = x PROVE FALSE
    OBVIOUS
  <2>1. b = c \/ r[c] < r[b]
    BY WalkRanks
  <2> QED BY <1>1, <2>1
<1> QED BY <1>2, <1>3, WalkLinear

\* Taking the first node off a list takes off no other, ...
LEMMA UnlinkFirst ==
    ASSUME NEW f \in Pointers, NEW r \in [Clients -> Nat], Ranked(f, r), NEW c \in Clients
    PROVE  Walk(f, f[c]) = Walk(f, c) \ {c}
<1>1. f[c] \in Clients \cup {NoClient}
  BY DEF Pointers
<1>2. c \notin Walk(f, f[c])
  <2> SUFFICES ASSUME c \in Walk(f, f[c]) PROVE FALSE
    OBVIOUS
  <2>1. f[c] \in Clients
    BY <1>1, WalkNone
  <2>2. c = f[c] \/ r[f[c]] < r[c]
    BY <2>1, WalkRanks
  <2>3. r[c] < r[f[c]] /\ r[c] \in Nat /\ r[f[c]] \in Nat
    BY <2>1 DEF Ranked
  <2> QED BY <2>2, <2>3
<1> QED BY <1>2, WalkFirst

\* ... nor does pointing past a node.
LEMMA UnlinkNext ==
    ASSUME NEW f \in Pointers, NEW r \in [Clients -> Nat], Ranked(f, r),
           NEW x \in Clients \cup {NoClient}, NEW b \in Walk(f, x), NEW c \in Clients, f[b] = c
    PROVE  /\ Walk([f EXCEPT ![b] = f[c]], x) = Walk(f, x) \ {c}
           /\ Ranked([f EXCEPT ![b] = f[c]], r)
<1> DEFINE g == [f EXCEPT ![b] = f[c]]
<1>1. /\ Walk(f, x) \in SUBSET Clients /\ x \in Walk(f, x) \cup {NoClient}
      /\ \A d \in Walk(f, x) : f[d] \in Walk(f, x) \cup {NoClient}
  BY WalkClosed
<1>2. b \in Clients /\ c \in Walk(f, x) /\ f[c] \in Walk(f, x) \cup {NoClient}
  BY <1>1, ClientsAssumption
<1>3. g[b] = f[c] /\ \A d \in Clients : d # b => g[d] = f[d]
  BY <1>2 DEF Pointers
<1>4. /\ r[b] \in Nat /\ r[c] \in Nat /\ r[b] < r[c]
      /\ f[c] \in Clients => r[f[c]] \in Nat /\ r[c] < r[f[c]]
  BY <1>2 DEF Ranked
<1>5. c # x /\ \A d \in Walk(f, x) : f[d] = c => d = b
  BY OneBefore
<1> HIDE DEF g
<1>6. Walk(g, x) \subseteq Walk(f, x) \ {c}
  <2> DEFINE nodes == Walk(f, x) \ {c}
  <2>1. nodes \in SUBSET Clients /\ x \in nodes \cup {NoClient}
    BY <1>1, <1>5
  <2>2. f[c] # c
    BY <1>2, <1>4
  <2>3. \A d \in nodes : g[d] \in nodes \cup {NoClient}
    BY <1>1, <1>2, <1>3, <1>5, <2>2
  <2>4. Walk(g, x) \subseteq nodes
    <3> HIDE DEF nodes
    <3> QED BY <2>1, <2>3, WalkLeast
  <2> QED BY <2>4
<1>7. ASSUME NEW d \in Walk(f, x) \ {c} PROVE d \in Walk(g, x)
  <2>1. d \in Clients /\ r[d] \in Nat
    BY <1>1
  <2>2. r[d] <= r[b] \/ d \in Walk(f, f[c])
    <3>1. CASE b \in Walk(f, d)
      BY <1>4, <2>1, <3>1, WalkRanks
    <3>2. CASE d \in Walk(f, b)
      <4>1. d = b \/ d \in Walk(f, c)
        BY <1>2, <3>2, WalkFirst
      <4>2. d \in Walk(f, c) => d \in Walk(f, f[c])
        BY <1>2, WalkFirst
      <4> QED BY <1>4, <4>1, <4>2
    <3> QED BY <3>1, <3>2, WalkLinear
  <2>3. f[c] \in Clients => r[b] < r[f[c]]
    BY <1>4
  <2> QED BY <1>1, <1>2, <2>2, <2>3, WalkBypass DEF g
<1>8. Ranked(g, r)
  BY <1>3, <1>4 DEF Ranked
<1> QED BY <1>6, <1>7, <1>8 DEF g

\* A node that is linked behind the last one of a list is added to it.
LEMMA LinkLast ==
    ASSUME NEW f \in Pointers, NEW r \in [Clients -> Nat], Ranked(f, r),
           NEW x \in Clients \cup {NoClient}, NEW t \in Walk(f, x), f[t] = NoClient,
           NEW z \in Clients \ Walk(f, x), f[z] = NoClient
    PROVE  /\ Walk([f EXCEPT ![t] = z], x) = Walk(f, x) \cup {z}
           /\ \E q \in [Clients -> Nat] : Ranked([f EXCEPT ![t] = z], q)
<1> DEFINE g == [f EXCEPT ![t] = z]
<1> DEFINE q == [r EXCEPT ![z] = r[t] + r[z] + 1]
<1>1. t \in Clients /\ t # z /\ Walk(f, x) \in SUBSET Clients
  BY WalkClosed
<1>2. /\ g \in Pointers /\ g[t] = z /\ \A d \in Clients : d # t => g[d] = f[d]
  BY <1>1 DEF Pointers
<1>3. /\ q \in [Clients -> Nat] /\ \A d \in Clients : r[d] \in Nat /\ q[d] \in Nat
      /\ q[z] = r[t] + r[z] + 1 /\ \A d \in Clients : d # z => q[d] = r[d]
  BY <1>1
<1> HIDE DEF g, q
<1>4. q[t] < q[z] /\ r[z] <= q[z]
  BY <1>1, <1>3
<1>5. Ranked(f, q)
  <2> SUFFICES ASSUME NEW c \in Clients, f[c] \in Clients PROVE q[c] < q[f[c]]
    BY DEF Ranked
  <2>1. r[c] < r[f[c]] /\ c # z
    BY ClientsAssumption DEF Ranked
  <2> QED BY <1>3, <1>4, <2>1
<1>6. Ranked(g, q)
  BY <1>2, <1>4, <1>5 DEF Ranked
<1>7. Walk(g, x) \subseteq Walk(f, x) \cup {z}
  BY <1>1, WalkGrows DEF g
<1>8. ASSUME NEW d \in Walk(f, x) PROVE d \in Walk(g, x)
  <2>1. d \in Clients
    BY <1>1
  <2>2. q[d] <= q[t]
    <3>1. CASE t \in Walk(f, d)
      BY <1>1, <1>3, <1>5, <2>1, <3>1, WalkRanks
    <3>2. CASE d \in Walk(f, t)
      <4>1. d = t
        BY <1>1, <3>2, WalkFirst, WalkNone
      <4> QED BY <1>1, <1>3, <4>1
    <3> QED BY <3>1, <3>2, WalkLinear
  <2> QED BY <1>1, <1>3, <1>4, <1>5, <2>2, WalkBypass DEF g
<1>9. z \in Walk(g, x)
  <2>1. t \in Walk(g, x)
    BY <1>8
  <2> QED BY <1>2, <2>1, WalkClosed, ClientsAssumption
<1> QED BY <1>3, <1>6, <1>7, <1>8, <1>9 DEF g

-----------------------------------------------------------------------------
(* The list when changes do not meet                                       *)

\* Whose node is on the list, and who is counted in activeClients: the sessions, but
\* for the time that the host is adding one, or a handler is ending its own.
Told == {"resp", "greet", "req", "start"}
Members ==
    {c \in Clients : \/ spc[c] \in Early \cup {"find", "unlink"}
                     \/ c = hcl /\ hpc \in Told \cup {"load", "store"}}
Counted ==
    {c \in Clients : \/ spc[c] \in Early \cup {"find", "unlink", "load", "store"}
                     \/ c = hcl /\ hpc \in Told}

\* What the host has found is the end of the list, and what the handler of client c
\* has found stands before its node.
TailFound == IF htail = NoClient THEN head = NoClient
             ELSE htail \in Listed /\ next[htail] = NoClient
PrevFound(c) == IF prev[c] = NoClient THEN head = c
                ELSE prev[c] \in Listed /\ next[prev[c]] = c

SerialInv ==
    /\ Listed = Members /\ active = Cardinality(Counted)
    /\ \E r \in [Clients -> Nat] : Ranked(next, r)
    /\ hpc # "post"
    /\ hpc \in {"tail", "link"} => next[hcl] = NoClient
    /\ hpc = "link" => TailFound
    /\ hpc = "store" => hcount = active
    /\ \A c \in Clients : /\ spc[c] = "unlink" => PrevFound(c)
                          /\ spc[c] = "store" => count[c] = active

LEMMA SerialTypes ==
    ASSUME Inv
    PROVE  /\ next \in Pointers /\ head \in Clients \cup {NoClient} /\ active \in Int
           /\ spc \in [Clients -> HandlerLocs] /\ hpc \in HostLocs
           /\ prev \in [Clients -> Clients \cup {NoClient}] /\ count \in [Clients -> Int]
           /\ htail \in Clients \cup {NoClient}
           /\ hpc # "read" => hcl \in Clients /\ spc[hcl] = "none"
           /\ IsFiniteSet(Counted) /\ Cardinality(Counted) \in Nat
<1>1. Counted \in SUBSET Clients
  BY DEF Counted
<1>2. IsFiniteSet(Counted) /\ Cardinality(Counted) \in Nat
  BY <1>1, ClientsAssumption, FS_Subset, FS_CardinalityType
<1> QED BY <1>2 DEF Inv, TypeOK, ListType, HostType, HandlerType, QueueInv, Pointers

\* Steps that leave the list and the count alone.
LEMMA SerialQuiet ==
    ASSUME SerialInv, UNCHANGED <<head, next, active>>,
           Members' = Members, Counted' = Counted, hpc' # "post",
           hpc' \in {"tail", "link"} => next[hcl'] = NoClient,
           hpc' = "link" => TailFound',
           hpc' = "store" => hcount' = active,
           \A c \in Clients : /\ spc'[c] = "unlink" => PrevFound(c)'
                              /\ spc'[c] = "store" => count'[c] = active
    PROVE  SerialInv'
<1>1. Listed' = Listed
  BY DEF Listed
<1> QED BY <1>1 DEF SerialInv

\* At the start there is no list.
LEMMA SerialInit == Init => SerialInv /\ OneChanges
<1> SUFFICES ASSUME Init PROVE SerialInv /\ OneChanges
  OBVIOUS
<1>1. Listed = {} /\ Members = {} /\ Counted = {}
  BY WalkNone DEF Init, Listed, Members, Counted, Early, Told
<1>2. [c \in Clients |-> 0] \in [Clients -> Nat] /\ Ranked(next, [c \in Clients |-> 0])
  BY ClientsAssumption DEF Init, Ranked
<1> QED BY <1>1, <1>2, FS_EmptySet DEF Init, SerialInv, OneChanges, HostChanging, Changing

LEMMA SerialStutter ==
    ASSUME SerialInv, UNCHANGED <<head, next, active, hpc, hcl, htail, hcount, spc, prev, count>>
    PROVE  SerialInv'
<1>1. Members' = Members /\ Counted' = Counted /\ Listed' = Listed
  BY DEF Members, Counted, Listed
<1> QED BY <1>1, SerialQuiet DEF SerialInv, TailFound, PrevFound

\* No step of a client touches the list.
LEMMA SerialClient ==
    ASSUME SerialInv, NEW c \in Clients, ClientStep(c) \/ Killed(c)
    PROVE  SerialInv'
<1>1. UNCHANGED <<head, next, active, hpc, hcl, htail, hcount, spc, prev, count>>
  BY DEF ClientStep, ClientConnect, ClientOpenResp, ClientConnected, ClientAsk,
         ClientAnswered, Killed, listVars, hostVars, handlerVars
<1> QED BY <1>1, SerialStutter

\* Steps of a handler that leave the list alone.
LEMMA SerialServing ==
    ASSUME Inv, SerialInv, NEW c \in Clients,
           \/ HandlerOpen(c) \/ HandlerRead(c) \/ HandlerEOF(c) \/ HandlerOpenResp(c)
           \/ HandlerAnswer(c) \/ HandlerReset(c) \/ HandlerPost(c)
    PROVE  SerialInv'
<1>1. /\ UNCHANGED <<head, next, active, hpc, hcl, htail, hcount, prev, count>>
      /\ \/ spc[c] \in Early /\ \E l \in Early \cup {"find"} : spc' = [spc EXCEPT ![c] = l]
         \/ spc[c] = "post" /\ spc' = [spc EXCEPT ![c] = "ended"]
  BY DEF HandlerOpen, HandlerRead, HandlerEOF, HandlerOpenResp, HandlerAnswer, HandlerReset,
         HandlerPost, HandlerTo, Early, listVars, hostVars
<1>2. /\ \A d \in Clients : d # c => spc'[d] = spc[d]
      /\ \/ spc[c] \in Early /\ spc'[c] \in Early \cup {"find"}
         \/ spc[c] = "post" /\ spc'[c] = "ended"
  BY <1>1, SerialTypes
<1>3. Members' = Members /\ Counted' = Counted /\ Listed' = Listed
  BY <1>1, <1>2 DEF Members, Counted, Listed, Early
<1>4. \A d \in Clients : spc'[d] \in {"unlink", "store"} => spc'[d] = spc[d]
  BY <1>2 DEF Early
<1> QED BY <1>1, <1>3, <1>4, SerialQuiet DEF SerialInv, TailFound, PrevFound

\* A handler that changes it finds nobody else doing so.
LEMMA SerialAlone ==
    ASSUME Inv, OneChanges, NEW c \in Clients, spc[c] \in {"find", "unlink", "load", "store"}
    PROVE  /\ hpc \notin {"tail", "link", "load", "store"}
           /\ \A d \in Clients : d # c => spc[d] \notin {"find", "unlink", "load", "store"}
BY DEF OneChanges, HostChanging, Changing

LEMMA SerialEnding ==
    ASSUME Inv, OneChanges, SerialInv, NEW c \in Clients,
           HandlerFind(c) \/ HandlerUnlink(c) \/ HandlerLoad(c) \/ HandlerStore(c)
    PROVE  SerialInv'
<1>1. /\ spc[c] \in {"find", "unlink", "load", "store"}
      /\ UNCHANGED <<hpc, hcl, htail, hcount>>
  BY DEF HandlerFind, HandlerUnlink, HandlerLoad, HandlerStore, hostVars
<1>2. /\ hpc \notin {"tail", "link", "load", "store"}
      /\ \A d \in Clients : d # c => spc[d] \notin {"find", "unlink", "load", "store"}
      /\ hpc # "post"
  BY <1>1, SerialAlone DEF SerialInv
<1>3. /\ next \in Pointers /\ head \in Clients \cup {NoClient} /\ active \in Int
      /\ spc \in [Clients -> HandlerLocs] /\ prev \in [Clients -> Clients \cup {NoClient}]
      /\ count \in [Clients -> Int] /\ IsFiniteSet(Counted) /\ Cardinality(Counted) \in Nat
      /\ hpc # "read" => hcl \in Clients /\ spc[hcl] = "none"
  BY SerialTypes
<1>4. Listed = Members /\ active = Cardinality(Counted)
  BY DEF SerialInv
<1>5. PICK r \in [Clients -> Nat] : Ranked(next, r)
  BY DEF SerialInv
<1>6. c # hcl \/ hpc = "read"
  BY <1>1, <1>3
<1>7. CASE HandlerFind(c)
  <2>1. spc[c] = "find" /\ c \in Listed /\ UNCHANGED <<head, next, active>>
    BY <1>4, <1>7 DEF HandlerFind, Members, listVars
  <2>2. /\ spc' = [spc EXCEPT ![c] = "unlink"]
        /\ \/ head = c /\ prev' = [prev EXCEPT ![c] = NoClient]
           \/ \E b \in Listed : next[b] = c /\ prev' = [prev EXCEPT ![c] = b]
    BY <1>7, <2>1 DEF HandlerFind, HandlerTo
  <2>3. spc'[c] = "unlink" /\ \A d \in Clients : d # c => spc'[d] = spc[d]
    BY <1>3, <2>2
  <2>4. Members' = Members /\ Counted' = Counted /\ Listed' = Listed
    BY <1>1, <2>1, <2>3 DEF Members, Counted, Listed
  <2>5. PrevFound(c)'
    <3>1. Listed \subseteq Clients
      BY DEF Listed, Walk
    <3> QED BY <1>3, <2>1, <2>2, <2>4, <3>1, ClientsAssumption DEF PrevFound
  <2>6. \A d \in Clients : /\ spc'[d] = "unlink" => d = c
                           /\ spc'[d] # "store"
    BY <1>2, <2>3
  <2> QED BY <1>1, <1>2, <2>1, <2>4, <2>5, <2>6, SerialQuiet
<1>8. CASE HandlerUnlink(c)
  <2>1. /\ spc[c] = "unlink" /\ spc' = [spc EXCEPT ![c] = "load"] /\ UNCHANGED active
        /\ IF prev[c] = NoClient THEN head' = next[c] /\ UNCHANGED next
           ELSE next' = [next EXCEPT ![prev[c]] = next[c]] /\ UNCHANGED head
    BY <1>8 DEF HandlerUnlink, HandlerTo
  <2>2. spc'[c] = "load" /\ \A d \in Clients : d # c => spc'[d] = spc[d]
    BY <1>3, <2>1
  <2>3. PrevFound(c)
    BY <2>1 DEF SerialInv
  <2>4. Listed' = Listed \ {c} /\ Ranked(next', r)
    <3>1. CASE prev[c] = NoClient
      <4>1. head = c /\ head' = next[c] /\ next' = next
        BY <2>1, <2>3, <3>1 DEF PrevFound
      <4> QED BY <1>3, <1>5, <4>1, UnlinkFirst DEF Listed
    <3>2. CASE prev[c] # NoClient
      <4>1. PICK b : b = prev[c]
        OBVIOUS
      <4>2. /\ b \in Walk(next, head) /\ next[b] = c /\ head' = head
            /\ next' = [next EXCEPT ![b] = next[c]]
        BY <2>1, <2>3, <3>2, <4>1 DEF PrevFound, Listed
      <4> DEFINE g == [next EXCEPT ![b] = next[c]]
      <4>3. Walk(g, head) = Walk(next, head) \ {c} /\ Ranked(g, r)
        <5>1. /\ b \in Walk(next, head) /\ next[b] = c /\ c \in Clients
              /\ next \in Pointers /\ head \in Clients \cup {NoClient}
              /\ r \in [Clients -> Nat] /\ Ranked(next, r)
          BY <1>3, <1>5, <4>2
        <5> QED BY ONLY <5>1, UnlinkNext
      <4>4. next' = g
        BY <4>2
      <4> HIDE DEF g
      <4> QED BY <4>2, <4>3, <4>4 DEF Listed
    <3> QED BY <3>1, <3>2
  <2>5. Members' = Members \ {c} /\ Counted' = Counted
    BY <1>1, <1>2, <1>6, <2>1, <2>2 DEF Members, Counted, Early, Told
  <2>6. \A d \in Clients : spc'[d] \notin {"unlink", "store"}
    BY <1>2, <2>2
  <2> QED BY <1>1, <1>2, <1>4, <2>1, <2>4, <2>5, <2>6 DEF SerialInv
<1>9. CASE HandlerLoad(c)
  <2>1. /\ spc[c] = "load" /\ spc' = [spc EXCEPT ![c] = "store"]
        /\ count' = [count EXCEPT ![c] = active] /\ UNCHANGED <<head, next, active>>
    BY <1>9 DEF HandlerLoad, HandlerTo, listVars
  <2>2. /\ spc'[c] = "store" /\ count'[c] = active
        /\ \A d \in Clients : d # c => spc'[d] = spc[d]
    BY <1>3, <2>1
  <2>3. Members' = Members /\ Counted' = Counted
    BY <1>1, <2>1, <2>2 DEF Members, Counted, Early, Told
  <2>4. \A d \in Clients : spc'[d] # "unlink" /\ (spc'[d] = "store" => d = c)
    BY <1>2, <2>2
  <2> QED BY <1>1, <1>2, <2>1, <2>2, <2>3, <2>4, SerialQuiet
<1>10. CASE HandlerStore(c)
  <2>1. /\ spc[c] = "store" /\ spc' = [spc EXCEPT ![c] = "post"]
        /\ active' = count[c] - 1 /\ UNCHANGED <<head, next>>
    BY <1>10 DEF HandlerStore, HandlerTo
  <2>2. spc'[c] = "post" /\ \A d \in Clients : d # c => spc'[d] = spc[d]
    BY <1>3, <2>1
  <2>3. Members' = Members /\ Counted' = Counted \ {c} /\ c \in Counted
    BY <1>1, <1>2, <1>6, <2>1, <2>2 DEF Members, Counted, Early, Told
  <2>4. active' = Cardinality(Counted')
    <3>1. Cardinality(Counted \ {c}) = Cardinality(Counted) - 1
      BY <1>3, <2>3, FS_RemoveElement
    <3>2. active' = active - 1
      BY <2>1 DEF SerialInv
    <3> QED BY <1>4, <2>3, <3>1, <3>2
  <2>5. \A d \in Clients : spc'[d] \notin {"unlink", "store"}
    BY <1>2, <2>2
  <2>6. Listed' = Listed
    BY <2>1 DEF Listed
  <2> QED BY <1>1, <1>2, <1>4, <1>5, <2>1, <2>3, <2>4, <2>5, <2>6 DEF SerialInv
<1> QED BY <1>7, <1>8, <1>9, <1>10

\* The host finds a place free where the semaphore has let it in: whoever is counted
\* holds a token, and the host one of its own.
LEMMA SerialRoom ==
    ASSUME Inv, SerialInv, hpc = "check"
    PROVE  active < S
<1>1. hcl \in Clients /\ spc[hcl] = "none" /\ hcl \in Holders
  BY SerialTypes DEF Holders, Holding
<1>2. IsFiniteSet(Holders) /\ Cardinality(Holders) \in Nat /\ Cardinality(Holders) <= S
  BY HoldersFinite, SAssumption DEF Inv, TokenInv
<1>3. Counted \in SUBSET (Holders \ {hcl})
  BY <1>1 DEF Counted, Holders, Holding, Early, Told
<1>4. /\ IsFiniteSet(Holders \ {hcl})
      /\ Cardinality(Holders \ {hcl}) = Cardinality(Holders) - 1
  BY <1>1, <1>2, FS_RemoveElement
<1>5. Cardinality(Counted) <= Cardinality(Holders) - 1
  BY <1>3, <1>4, FS_Subset
<1> QED BY <1>2, <1>5, SAssumption, SerialTypes DEF SerialInv

\* The steps of the host that leave the list alone.
LEMMA SerialBefore ==
    ASSUME Inv, SerialInv, HostRead \/ HostWait \/ HostSlot
    PROVE  SerialInv'
<1>1. /\ UNCHANGED <<head, next, active, spc, prev, count>>
      /\ hpc \in {"read", "wait", "slot"} /\ hpc' \in {"read", "wait", "slot", "check"}
  BY DEF HostRead, HostWait, HostSlot, HostTo, listVars, handlerVars
<1>2. Members' = Members /\ Counted' = Counted /\ Listed' = Listed
  BY <1>1 DEF Members, Counted, Listed, Told
<1> QED BY <1>1, <1>2, SerialQuiet DEF SerialInv, PrevFound

LEMMA SerialAfter ==
    ASSUME Inv, SerialInv, HostOpenResp \/ HostGreet \/ HostOpenReq \/ HostStart
    PROVE  SerialInv'
<1>1. /\ UNCHANGED <<head, next, active, prev, count, hcl>>
      /\ hpc \in Told
      /\ \/ hpc' \in Told /\ UNCHANGED spc
         \/ hpc' = "read" /\ spc' = [spc EXCEPT ![hcl] = "open"]
  BY DEF HostOpenResp, HostGreet, HostOpenReq, HostStart, HostTo, Told, listVars, handlerVars
<1>2. /\ hcl \in Clients /\ spc[hcl] = "none" /\ spc \in [Clients -> HandlerLocs]
  BY <1>1, SerialTypes DEF Told
<1>3. /\ \A c \in Clients : c # hcl => spc'[c] = spc[c]
      /\ \/ hpc' \in Told /\ spc'[hcl] = "none"
         \/ hpc' = "read" /\ spc'[hcl] = "open"
  BY <1>1, <1>2
<1>4. Members' = Members /\ Counted' = Counted /\ Listed' = Listed
  BY <1>1, <1>2, <1>3 DEF Members, Counted, Listed, Told, Early
<1>5. hpc' \notin {"post", "tail", "link", "store"}
  BY <1>3 DEF Told
<1>6. \A c \in Clients : spc'[c] \in {"unlink", "store"} => spc'[c] = spc[c]
  BY <1>3
<1> QED BY <1>1, <1>4, <1>5, <1>6, SerialQuiet DEF SerialInv, PrevFound

\* Those that change it.
LEMMA SerialCheck ==
    ASSUME Inv, SerialInv, HostCheck
    PROVE  SerialInv'
<1>1. hpc = "check" /\ active < S /\ active \in Int
  BY SerialRoom, SerialTypes DEF HostCheck
<1>2. /\ next' = [next EXCEPT ![hcl] = NoClient] /\ hpc' = "tail"
      /\ UNCHANGED <<head, active, hcl, htail, hcount, spc, prev, count>>
  BY <1>1, SAssumption DEF HostCheck, HostTo, handlerVars
<1>3. /\ next \in Pointers /\ head \in Clients \cup {NoClient}
      /\ hcl \in Clients /\ spc[hcl] = "none"
  BY <1>1, SerialTypes
<1>4. Listed = Members /\ hcl \notin Listed
  BY <1>1, <1>3 DEF SerialInv, Members, Early, Told
<1>5. Members' = Members /\ Counted' = Counted
  BY <1>1, <1>2 DEF Members, Counted, Told
<1>6. Listed' = Listed
  <2> DEFINE g == [next EXCEPT ![hcl] = NoClient]
  <2>1. hcl \in Clients \ Walk(next, head)
    BY <1>3, <1>4 DEF Listed
  <2>2. Walk(g, head) = Walk(next, head)
    BY <1>3, <2>1, WalkElsewhere
  <2>3. next' = g /\ head' = head
    BY <1>2
  <2> HIDE DEF g
  <2> QED BY <2>2, <2>3 DEF Listed
<1>7. /\ next'[hcl] = NoClient /\ \A c \in Clients : c # hcl => next'[c] = next[c]
  BY <1>2, <1>3 DEF Pointers
<1>8. PICK r \in [Clients -> Nat] : Ranked(next, r)
  BY DEF SerialInv
<1>9. Ranked(next', r)
  BY <1>7, <1>8, ClientsAssumption DEF Ranked
<1>10. ASSUME NEW c \in Clients, spc'[c] = "unlink" PROVE PrevFound(c)'
  <2>1. PrevFound(c)
    BY <1>2, <1>10 DEF SerialInv
  <2>2. prev[c] # NoClient => prev[c] \in Clients /\ prev[c] # hcl
    BY <1>4, <2>1 DEF PrevFound, Members
  <2> QED BY <1>2, <1>6, <1>7, <2>1, <2>2 DEF PrevFound
<1> QED BY <1>2, <1>4, <1>5, <1>6, <1>7, <1>9, <1>10 DEF SerialInv

LEMMA SerialTail ==
    ASSUME Inv, SerialInv, HostTail
    PROVE  SerialInv'
<1>1. /\ hpc = "tail" /\ hpc' = "link"
      /\ UNCHANGED <<head, next, active, hcl, hcount, spc, prev, count>>
      /\ \/ head = NoClient /\ htail' = NoClient
         \/ \E c \in Listed : next[c] = NoClient /\ htail' = c
  BY DEF HostTail, HostTo, listVars, handlerVars
<1>2. Members' = Members /\ Counted' = Counted /\ Listed' = Listed
  BY <1>1 DEF Members, Counted, Listed, Told
<1>3. TailFound'
  <2>1. Listed \subseteq Clients
    BY DEF Listed, Walk
  <2> QED BY <1>1, <1>2, <2>1, ClientsAssumption DEF TailFound
<1> QED BY <1>1, <1>2, <1>3, SerialQuiet DEF SerialInv, PrevFound

LEMMA SerialLink ==
    ASSUME Inv, OneChanges, SerialInv, HostLink
    PROVE  SerialInv'
<1>1. /\ hpc = "link" /\ hpc' = "load" /\ UNCHANGED <<active, hcl, hcount, spc, prev, count>>
      /\ IF htail = NoClient THEN head' = hcl /\ UNCHANGED next
         ELSE next' = [next EXCEPT ![htail] = hcl] /\ UNCHANGED head
  BY DEF HostLink, HostTo, handlerVars
<1>2. /\ next \in Pointers /\ head \in Clients \cup {NoClient}
      /\ hcl \in Clients /\ spc[hcl] = "none" /\ next[hcl] = NoClient
  BY <1>1, SerialTypes DEF SerialInv
<1>3. Listed = Members /\ hcl \notin Listed /\ active = Cardinality(Counted)
  BY <1>1, <1>2 DEF SerialInv, Members, Early, Told
<1>4. Members' = Members \cup {hcl} /\ Counted' = Counted
  BY <1>1, <1>2 DEF Members, Counted, Told
<1>5. PICK r \in [Clients -> Nat] : Ranked(next, r)
  BY DEF SerialInv
<1>6. TailFound
  BY <1>1 DEF SerialInv
<1>7. Listed' = Listed \cup {hcl} /\ \E q \in [Clients -> Nat] : Ranked(next', q)
  <2>1. CASE htail = NoClient
    <3>1. head = NoClient /\ head' = hcl /\ next' = next
      BY <1>1, <1>6, <2>1 DEF TailFound
    <3>2. Listed = {} /\ Walk(next, hcl) = {hcl}
      BY <1>2, <3>1, ListedNone, WalkFirst, WalkNone
    <3> QED BY <1>5, <3>1, <3>2 DEF Listed
  <2>2. CASE htail # NoClient
    <3>1. PICK t : t = htail
      OBVIOUS
    <3>2. /\ t \in Walk(next, head) /\ next[t] = NoClient /\ head' = head
          /\ next' = [next EXCEPT ![t] = hcl]
      BY <1>1, <1>6, <2>2, <3>1 DEF TailFound, Listed
    <3>3. hcl \in Clients \ Walk(next, head)
      BY <1>2, <1>3 DEF Listed
    <3> DEFINE g == [next EXCEPT ![t] = hcl]
    <3>4. /\ Walk(g, head) = Walk(next, head) \cup {hcl}
          /\ \E q \in [Clients -> Nat] : Ranked(g, q)
      BY <1>2, <1>5, <3>2, <3>3, LinkLast
    <3>5. next' = g
      BY <3>2
    <3> HIDE DEF g
    <3> QED BY <3>2, <3>4, <3>5 DEF Listed
  <2> QED BY <2>1, <2>2
<1>8. \A c \in Clients : spc[c] \notin {"find", "unlink", "load", "store"}
  BY <1>1 DEF OneChanges, HostChanging, Changing
<1> QED BY <1>1, <1>3, <1>4, <1>7, <1>8 DEF SerialInv

LEMMA SerialCount ==
    ASSUME Inv, OneChanges, SerialInv, HostLoad \/ HostStore
    PROVE  SerialInv'
<1>1. /\ hpc \in {"load", "store"} /\ hcl \in Clients /\ spc[hcl] = "none"
      /\ \A c \in Clients : spc[c] \notin {"find", "unlink", "load", "store"}
      /\ UNCHANGED <<head, next, hcl, spc>>
  BY SerialTypes DEF OneChanges, HostChanging, Changing, HostLoad, HostStore, listVars, handlerVars
<1>2. IsFiniteSet(Counted) /\ Cardinality(Counted) \in Nat /\ active = Cardinality(Counted)
  BY SerialTypes DEF SerialInv
<1>3. CASE HostLoad
  <2>1. hpc = "load" /\ hpc' = "store" /\ hcount' = active /\ UNCHANGED active
    BY <1>3 DEF HostLoad, HostTo, listVars
  <2>2. Members' = Members /\ Counted' = Counted
    BY <1>1, <2>1 DEF Members, Counted, Told
  <2> QED BY <1>1, <2>1, <2>2, SerialQuiet
<1>4. CASE HostStore
  <2>1. hpc = "store" /\ hpc' = "resp" /\ active' = active + 1
    BY <1>4 DEF HostStore, HostTo, SerialInv
  <2>2. Members' = Members /\ Counted' = Counted \cup {hcl} /\ hcl \notin Counted
    BY <1>1, <2>1 DEF Members, Counted, Told, Early
  <2>3. Cardinality(Counted') = Cardinality(Counted) + 1
    BY <1>2, <2>2, FS_AddElement
  <2>4. Listed' = Listed
    BY <1>1 DEF Listed
  <2> QED BY <1>1, <1>2, <2>1, <2>2, <2>3, <2>4 DEF SerialInv
<1> QED BY <1>3, <1>4

\* All steps that leave one thread at most in the middle of a change.
LEMMA SerialStep ==
    ASSUME Inv, OneChanges, SerialInv, [Next]_vars, OneChanges'
    PROVE  SerialInv'
<1>1. Inv'
  BY StepType, StepQueue, StepSlots, StepTokens DEF Inv
<1>2. CASE UNCHANGED vars
  <2>1. UNCHANGED <<head, next, active, hpc, hcl, htail, hcount, spc, prev, count>>
    BY <1>2 DEF vars, listVars, hostVars, handlerVars
  <2> QED BY <2>1, SerialStutter
<1>3. CASE Next
  <2>1. CASE HostStep
    <3>1. ~HostPost
      BY DEF HostPost, SerialInv
    <3> QED BY <1>1, <2>1, <3>1, SerialBefore, SerialCheck, SerialTail, SerialLink,
               SerialCount, SerialAfter DEF HostStep
  <2>2. ASSUME NEW c \in Clients, HandlerStep(c) PROVE SerialInv'
    BY <2>2, SerialServing, SerialEnding DEF HandlerStep
  <2> QED BY <1>1, <1>3, <2>1, <2>2, SerialClient DEF Next
<1> QED BY <1>2, <1>3

\* Until two changes have met.
UnmetInv == ~met => OneChanges /\ SerialInv

LEMMA UnmetInvariant == MetSpec => [](Inv /\ UnmetInv)
<1>1. MetInit => Inv /\ UnmetInv
  BY InitInv, SerialInit DEF MetInit, UnmetInv
<1>2. Inv /\ UnmetInv /\ [Next /\ Note]_<<vars, met>> => (Inv /\ UnmetInv)'
  <2> SUFFICES ASSUME Inv, UnmetInv, [Next /\ Note]_<<vars, met>> PROVE (Inv /\ UnmetInv)'
    OBVIOUS
  <2>1. [Next]_vars /\ Inv'
    BY StepType, StepQueue, StepSlots, StepTokens DEF Inv
  <2>2. ASSUME ~met' PROVE ~met /\ OneChanges'
    <3>1. CASE UNCHANGED <<vars, met>>
      <4>1. ~met /\ OneChanges
        BY <2>2, <3>1 DEF UnmetInv
      <4>2. UNCHANGED <<hpc, spc>>
        BY <3>1 DEF vars, hostVars, handlerVars
      <4> QED BY <4>1, <4>2 DEF OneChanges, HostChanging, Changing
    <3>2. CASE Next /\ Note
      BY <2>2, <3>2 DEF Note
    <3> QED BY <3>1, <3>2
  <2>3. ASSUME ~met' PROVE OneChanges' /\ SerialInv'
    BY <2>1, <2>2, <2>3, SerialStep DEF UnmetInv
  <2> QED BY <2>1, <2>3 DEF UnmetInv
<1> QED BY <1>1, <1>2, PTL DEF MetSpec

\* Whatever the number of sessions, no client is turned away while a place is free
\* before host and handlers have met in changing the list and activeClients: the
\* semaphore lets the host in only after a handler has taken its session off both.
THEOREM RefusedOnlyIfMet == MetSpec => []NobodyRefused
<1>1. UnmetInv => NobodyRefused
  BY DEF UnmetInv, SerialInv, NobodyRefused, NeverRefused
<1> QED BY <1>1, UnmetInvariant, PTL

\* Nor have list and activeClients differed before that from the sessions there are,
\* whenever nobody was in the middle of changing them: what goes wrong with them in
\* the code takes two threads in there at once.
THEOREM ListExactUntilMet == MetSpec => []ListRight
<1>1. Inv /\ UnmetInv => ListRight
  <2> SUFFICES ASSUME Inv, SerialInv, ~HostChanging, Changing = {}
               PROVE  /\ active = Cardinality(Listed)
                      /\ Listed = {c \in Clients : Occupying(c)}
                           \cup (IF hpc \in {"resp", "greet", "req", "start"} THEN {hcl} ELSE {})
    BY DEF ListRight, UnmetInv
  <2>1. /\ hpc \notin {"tail", "link", "load", "store"}
        /\ \A c \in Clients : spc[c] \notin {"find", "unlink", "load", "store"}
        /\ hpc # "read" => hcl \in Clients
    BY SerialTypes DEF HostChanging, Changing
  <2>2. Listed = Members /\ active = Cardinality(Counted)
    BY DEF SerialInv
  <2>3. Members = Counted
    BY <2>1 DEF Members, Counted, Told
  <2>4. Members = {c \in Clients : Occupying(c)}
                    \cup (IF hpc \in {"resp", "greet", "req", "start"} THEN {hcl} ELSE {})
    BY <2>1 DEF Members, Occupying, Early, Told
  <2> QED BY <2>2, <2>3, <2>4
<1> QED BY <1>1, UnmetInvariant, PTL
=============================================================================
