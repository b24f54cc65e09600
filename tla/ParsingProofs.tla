--------------------------- MODULE ParsingProofs ---------------------------
(***************************************************************************)
(* Proofs about Parsing, for every text and every size of the arrays: what *)
(* the parsers store fits, and each command is read from the start of a    *)
(* line, from a part of the text of its own, and as it is written there.   *)
(***************************************************************************)
EXTENDS Parsing, WellFoundedInduction, SequenceTheorems, TLAPS

TextEnd == Len(text) + 1

\* The places between a keyword and the end of its command.
Inside == Places \ {"next", "end", "stopped"}

Ops == {"none", "wait", "write", "read", "delete", "show", "backup", "help",
        "subscribe", "unsubscribe", "delay", "disconnect"}

\* What an array for strings takes.
Short == {s \in STRING : Len(s) \in Nat /\ Len(s) < MaxString}

PlaceInv ==
    /\ input \in Inputs
    /\ at \in Places
    /\ pos \in 1..TextEnd /\ from \in 1..pos
    /\ op \in Ops
    /\ at = "number" /\ side = "client" => op = "delay"

\* How far the arrays are filled where.
ListInv ==
    /\ keys \in Seq(Short) /\ values \in Seq(Short)
    /\ Len(values) <= Len(keys) /\ Len(keys) <= Limit
    /\ at \in {"list", "pair"} => Len(keys) = 0
    /\ at = "key" => Len(keys) < Limit /\ (op = "write" => Len(values) = Len(keys))
    /\ at = "value" => op = "write" /\ Len(values) = Len(keys) - 1
    /\ at = "after" => op = "write"
    /\ at \in {"after", "full", "eol"} /\ op = "write" => Len(values) = Len(keys)

Taken == [op : Ops, keys : Seq(Short), values : Seq(Short), from : Nat, to : Nat]

\* Where the commands read so far end, and that they do not overlap.
TakenInv ==
    /\ accepted \in Seq(Taken)
    /\ \A i \in 1..Len(accepted) :
         /\ accepted[i].to <= pos
         /\ at \in Inside => accepted[i].to <= from
    /\ CommandsApart

IInv == PlaceInv /\ ListInv /\ TakenInv /\ LineStarts

-----------------------------------------------------------------------------
(* Texts and positions                                                     *)

\* A set of numbers has a least one.
LEMMA LeastElement ==
    ASSUME NEW T, T \subseteq Nat, T # {}
    PROVE  \E i \in T : \A k \in T : i <= k
<1> DEFINE R == {ss \in Nat \X Nat : ss[1] < ss[2]}
<1>1. IsWellFoundedOn(R, Nat)
  BY NatLessThanWellFounded DEF OpToRel
<1>2. PICK i \in T : \A k \in T : <<k, i>> \notin R
  <2> HIDE DEF R
  <2> QED BY <1>1, WFMin
<1>3. ASSUME NEW k \in T PROVE i <= k
  <2>1. <<k, i>> \notin R
    BY <1>2
  <2>2. i \in Nat /\ k \in Nat
    OBVIOUS
  <2>3. ~(k < i)
    BY <2>1, <2>2
  <2> QED BY <2>2, <2>3
<1> QED BY <1>3

\* And a greatest one, if it is bounded.
LEMMA GreatestElement ==
    ASSUME NEW T, T \subseteq Nat, T # {}, NEW b \in Nat, \A k \in T : k <= b
    PROVE  \E i \in T : \A k \in T : k <= i
<1> DEFINE Bounds == {n \in Nat : \A k \in T : k <= n}
<1>1. Bounds \subseteq Nat /\ b \in Bounds
  OBVIOUS
<1>2. PICK n \in Bounds : \A m \in Bounds : n <= m
  <2> HIDE DEF Bounds
  <2> QED BY <1>1, LeastElement
<1>3. n \in Nat /\ \A k \in T : k <= n
  BY <1>2
<1>4. n \in T
  <2> SUFFICES ASSUME n \notin T PROVE FALSE
    OBVIOUS
  <2>1. \A k \in T : k \in Nat /\ k <= n - 1
    BY <1>3
  <2>2. n - 1 \in Nat
    <3>1. PICK k \in T : TRUE
      OBVIOUS
    <3> QED BY <1>3, <2>1, <3>1
  <2>3. n - 1 \in Bounds
    BY <2>1, <2>2
  <2> QED BY <1>2, <1>3, <2>3
<1> QED BY <1>3, <1>4

\* The length of a text is a number.
LEMMA LengthType ==
    ASSUME input \in Inputs
    PROVE  Len(text) \in Nat /\ side \in {"server", "client"}
BY InputsAssumption DEF text, side

\* The end of file is behind the text and nowhere else.
LEMMA EndIsBehind ==
    ASSUME input \in Inputs, NEW p \in Nat \ {0}
    PROVE  CharAt(p) = EOF <=> p > Len(text)
<1>1. Len(text) \in Nat
  BY LengthType
<1>2. CASE p > Len(text)
  BY <1>1, <1>2 DEF CharAt, At
<1>3. CASE p <= Len(text)
  <2>1. CharAt(p) = SubSeq(text, p, p)
    BY <1>3 DEF CharAt, At
  <2>2. p \in 1..Len(text)
    BY <1>1, <1>3
  <2>3. SubSeq(text, p, p) # "EOF"
    BY <2>2, TextAssumption DEF text
  <2> QED BY <1>1, <1>3, <2>1, <2>3 DEF EOF
<1> QED BY <1>1, <1>2, <1>3

Landed(p) == CharAt(p - 1) = "\n" \/ p = TextEnd

\* cleanup stops behind the end of a line or at the end of the text.
LEMMA CleanupLands ==
    ASSUME input \in Inputs, NEW p \in 1..TextEnd
    PROVE  Cleanup(p) \in p..TextEnd /\ Landed(Cleanup(p))
<1>1. Len(text) \in Nat
  BY LengthType
<1>2. CASE NewlinesFrom(p) = {}
  BY <1>1, <1>2 DEF Cleanup, TextEnd, Landed
<1>3. CASE NewlinesFrom(p) # {}
  <2> DEFINE first == CHOOSE i \in NewlinesFrom(p) : \A k \in NewlinesFrom(p) : i <= k
  <2>1. NewlinesFrom(p) \subseteq Nat
    BY <1>1 DEF NewlinesFrom, TextEnd
  <2>2. first \in NewlinesFrom(p)
    BY <1>3, <2>1, LeastElement
  <2>3. Cleanup(p) = 1 + first
    BY <1>3 DEF Cleanup
  <2>4. first \in p..Len(text) /\ CharAt(first) = "\n"
    BY <2>2 DEF NewlinesFrom
  <2> HIDE DEF first
  <2>5. Cleanup(p) \in p..TextEnd /\ Cleanup(p) - 1 = first
    BY <1>1, <2>3, <2>4 DEF TextEnd
  <2> QED BY <2>4, <2>5 DEF Landed
<1> QED BY <1>2, <1>3

\* Reading on does not leave the text.
LEMMA AheadType ==
    ASSUME input \in Inputs, pos \in 1..TextEnd, NEW n \in Nat
    PROVE  /\ Ahead(n) \in pos..TextEnd
           /\ pos + n <= TextEnd => Ahead(n) = pos + n
           /\ pos + n >= TextEnd => Ahead(n) = TextEnd
BY LengthType DEF Ahead, TextEnd

\* A string that ends in time is in the text, and short enough.
LEMMA StringFits ==
    ASSUME input \in Inputs, pos \in 1..TextEnd, NEW q, StringEnds(q)
    PROVE  q \in pos..Len(text) /\ String(q) \in Short
<1>1. Len(text) \in Nat /\ MaxString \in Nat \ {0}
  BY LengthType, LimitsAssumption
<1>2. q \in Nat \ {0} /\ q >= pos /\ q - pos \in 0..(MaxString - 1)
  BY <1>1 DEF StringEnds, TextEnd
<1>3. CharAt(q) # EOF
  BY DEF StringEnds, Delims, Comma, EOF
<1>4. q \in pos..Len(text)
  BY <1>1, <1>2, <1>3, EndIsBehind DEF TextEnd
<1>5. pos \in 1..Len(text) /\ pos + (q - pos) - 1 = q - 1 /\ q - 1 <= Len(text)
  BY <1>1, <1>2, <1>4 DEF TextEnd
<1>6. SubSeq(text, pos, q - 1) \in STRING /\ Len(SubSeq(text, pos, q - 1)) = q - pos
  <2>1. PICK n \in 0..(MaxString - 1) : n = q - pos
    BY <1>2
  <2>2. pos + n - 1 = q - 1
    BY <1>2, <1>5, <2>1
  <2>3. pos + n - 1 <= Len(input.text)
    BY <1>5, <2>2 DEF text
  <2>4. /\ SubSeq(input.text, pos, pos + n - 1) \in STRING
        /\ Len(SubSeq(input.text, pos, pos + n - 1)) = n
    BY <1>5, <2>3, TextAssumption DEF text
  <2> QED BY <2>1, <2>2, <2>4 DEF text
<1> QED BY <1>1, <1>2, <1>4, <1>6 DEF String, Short

\* How long the keywords are.
LEMMA WordLength ==
    ASSUME input \in Inputs, NEW w \in Words
    PROVE  /\ Len(Keyword[w.op]) \in 1..12
           /\ w.place # "bare" => Len(Keyword[w.op]) >= 5
<1>1. PICK n : n = Len(Keyword[w.op])
  OBVIOUS
<1>2. n \in (IF w.place = "bare" THEN 1 ELSE 5)..12
  BY <1>1, LengthType, WordsAssumption DEF Words
<1>3. n \in 1..12 /\ (w.place # "bare" => n >= 5)
  BY <1>2
<1> QED BY <1>1, <1>3

\* How far get_next reads before it knows that there is no keyword.
LEMMA ReadsType ==
    ASSUME input \in Inputs, NEW c
    PROVE  Reads(c) \in Nat /\ Reads(c) <= 12
<1>1. Tries(c) \subseteq Nat /\ \A k \in Tries(c) : k <= 12
  <2>1. \A w \in Words : Len(Keyword[w.op]) \in 1..12
    BY WordLength
  <2>2. Tries(c) \subseteq 1..12
    BY <2>1 DEF Tries
  <2> QED BY <2>2
<1>2. Tries(c) # {} =>
        (CHOOSE n \in Tries(c) : \A m \in Tries(c) : m <= n) \in Tries(c)
  BY <1>1, GreatestElement
<1> QED BY <1>1, <1>2 DEF Reads

-----------------------------------------------------------------------------
(* The three ways in which a step of the parser ends                       *)

\* What has been taken stays as it is when no command is.
LEMMA TakenStays ==
    ASSUME IInv, UNCHANGED accepted, pos' \in Nat, pos' >= pos,
           at' \in Inside => \/ at \in Inside /\ from' = from
                             \/ from' = pos
    PROVE  TakenInv'
<1>1. accepted \in Seq(Taken) /\ pos \in Nat
  BY LengthType DEF IInv, PlaceInv, TakenInv, TextEnd
<1>2. ASSUME NEW i \in 1..Len(accepted)
      PROVE  accepted[i].to <= pos' /\ (at' \in Inside => accepted[i].to <= from')
  <2>1. accepted[i] \in Taken
    BY <1>1
  <2>2. accepted[i].to \in Nat
    BY <2>1 DEF Taken
  <2>3. accepted[i].to <= pos /\ (at \in Inside => accepted[i].to <= from)
    BY DEF IInv, TakenInv
  <2> QED BY <1>1, <2>2, <2>3
<1>3. CommandsApart'
  BY DEF IInv, TakenInv, CommandsApart
<1> QED BY <1>1, <1>2, <1>3 DEF TakenInv

\* Where the text is the same, so are its characters.
LEMMA SameText ==
    ASSUME UNCHANGED input
    PROVE  /\ text' = text /\ side' = side /\ TextEnd' = TextEnd /\ Limit' = Limit
           /\ \A p : CharAt(p)' = CharAt(p)
BY DEF text, side, TextEnd, Limit, CharAt

\* A rejected line is skipped to its end.
LEMMA Rejected ==
    ASSUME IInv, NEW p \in pos..TextEnd, Reject(p)
    PROVE  IInv'
<1>1. /\ Len(text) \in Nat /\ pos \in 1..TextEnd /\ from \in 1..pos
      /\ input \in Inputs
  BY LengthType DEF IInv, PlaceInv
<1>2. p \in 1..TextEnd
  BY <1>1 DEF TextEnd
<1>3. pos' \in p..TextEnd /\ Landed(pos')
  BY <1>1, <1>2, CleanupLands DEF Reject
<1>4. at' = "next" /\ UNCHANGED <<input, op, keys, values, from, accepted>>
  BY DEF Reject, Goto
<1>5. PlaceInv'
  BY <1>1, <1>3, <1>4, SameText DEF IInv, PlaceInv, Places, TextEnd
<1>6. ListInv'
  BY <1>4, SameText DEF IInv, ListInv
<1>7. TakenInv'
  <2>1. pos' \in Nat /\ pos' >= pos
    BY <1>1, <1>3 DEF TextEnd
  <2> QED BY <1>4, <2>1, TakenStays DEF Inside
<1>8. LineStarts'
  BY <1>3, <1>4, SameText DEF LineStarts, Landed, TextEnd, CharAt
<1> QED BY <1>5, <1>6, <1>7, <1>8 DEF IInv

\* The parser goes on to another place.
LEMMA Expected ==
    ASSUME IInv, NEW place \in Places, NEW p \in pos..TextEnd, Expect(place, p),
           place = "next" => Landed(p),
           place \in Inside => at \in Inside,
           place # "number",
           ListInv'
    PROVE  IInv'
<1>1. /\ Len(text) \in Nat /\ pos \in 1..TextEnd /\ from \in 1..pos
      /\ input \in Inputs
  BY LengthType DEF IInv, PlaceInv
<1>2. at' = place /\ pos' = p /\ UNCHANGED <<input, op, keys, values, from, accepted>>
  BY DEF Expect, Goto
<1>3. PlaceInv'
  BY <1>1, <1>2, SameText DEF IInv, PlaceInv, Places, TextEnd
<1>4. TakenInv'
  <2>1. pos' \in Nat /\ pos' >= pos
    BY <1>1, <1>2 DEF TextEnd
  <2> QED BY <1>2, <2>1, TakenStays
<1>5. LineStarts'
  BY <1>2, SameText DEF LineStarts, Landed, TextEnd, CharAt
<1> QED BY <1>3, <1>4, <1>5 DEF IInv

\* A command is accepted, and the parser stands at the start of a line; or it
\* is a DELAY, whose line may go on.
LEMMA Accepted ==
    ASSUME IInv, NEW p \in pos..TextEnd, Accept(p), at \in Inside,
           Landed(p) \/ (side = "client" /\ op = "delay")
    PROVE  IInv'
<1> DEFINE c == [op |-> op, keys |-> keys, values |-> values, from |-> from, to |-> p]
           n == Len(accepted)
<1>1. /\ Len(text) \in Nat /\ pos \in 1..TextEnd /\ from \in 1..pos
      /\ input \in Inputs /\ accepted \in Seq(Taken) /\ n \in Nat
  BY LengthType DEF IInv, PlaceInv, TakenInv
<1>2. /\ pos' = p /\ accepted' = Append(accepted, c)
      /\ UNCHANGED <<input, op, keys, values, from>>
      /\ at' = IF op = "disconnect" THEN "end" ELSE "next"
  BY DEF Accept, Goto
<1>3. c \in Taken
  <2>1. p \in Nat /\ from \in Nat
    BY <1>1 DEF TextEnd
  <2>2. op \in Ops /\ keys \in Seq(Short) /\ values \in Seq(Short)
    BY DEF IInv, PlaceInv, ListInv
  <2> QED BY <2>1, <2>2 DEF Taken
<1> HIDE DEF c
<1>4. /\ accepted' \in Seq(Taken) /\ Len(accepted') = n + 1
      /\ accepted'[n + 1] = c
      /\ \A i \in 1..n : accepted'[i] = accepted[i]
  BY <1>1, <1>2, <1>3
<1>5. c.from = from /\ c.to = p /\ c.op = op
  BY DEF c
<1>6. PlaceInv'
  BY <1>1, <1>2, SameText DEF IInv, PlaceInv, Places, TextEnd
<1>7. ListInv'
  BY <1>2, SameText DEF IInv, ListInv
<1>8. \A i \in 1..n : accepted[i].to \in Nat /\ accepted[i].to <= from
  <2> TAKE i \in 1..n
  <2>1. accepted[i] \in Taken
    BY <1>1
  <2> QED BY <2>1 DEF IInv, TakenInv, Taken
<1>9. TakenInv'
  <2>1. \A i \in 1..(n + 1) : accepted'[i].to <= p
    <3> TAKE i \in 1..(n + 1)
    <3>1. CASE i = n + 1
      BY <1>1, <1>4, <1>5, <3>1 DEF TextEnd
    <3>2. CASE i \in 1..n
      BY <1>1, <1>4, <1>8, <3>2 DEF TextEnd
    <3> QED BY <1>1, <3>1, <3>2
  <2>2. CommandsApart'
    <3>1. ASSUME NEW i \in 2..(n + 1) PROVE accepted'[i - 1].to <= accepted'[i].from
      <4>1. i - 1 \in 1..n /\ accepted'[i - 1] = accepted[i - 1]
        BY <1>1, <1>4
      <4>2. CASE i = n + 1
        BY <1>4, <1>5, <1>8, <4>1, <4>2
      <4>3. CASE i \in 2..n
        BY <1>4, <4>1, <4>3 DEF IInv, TakenInv, CommandsApart
      <4> QED BY <1>1, <4>2, <4>3
    <3> QED BY <1>4, <3>1 DEF CommandsApart
  <2>3. at' \notin Inside
    BY <1>2 DEF Inside
  <2> QED BY <1>2, <1>4, <2>1, <2>2, <2>3 DEF TakenInv
<1>10. LineStarts'
  <2>1. CASE Landed(p)
    BY <1>2, <2>1, SameText DEF LineStarts, Landed, TextEnd, CharAt
  <2>2. CASE side = "client" /\ op = "delay"
    <3>1. /\ n + 1 \in 1..Len(accepted')
          /\ accepted'[n + 1].op = "delay" /\ accepted'[n + 1].to = pos'
      BY <1>1, <1>2, <1>4, <1>5, <2>2
    <3>2. pos' \in Nat
      BY <1>1, <1>2 DEF TextEnd
    <3>3. \A q : q \notin accepted'[n + 1].to..(pos' - 1)
      BY <3>1, <3>2
    <3>4. side' = "client"
      BY <1>2, <2>2, SameText
    <3>5. accepted'[n + 1].to <= pos'
      BY <3>1, <3>2
    <3> QED BY <3>1, <3>3, <3>4, <3>5 DEF LineStarts, CharAt
  <2> QED BY <2>1, <2>2
<1> QED BY <1>6, <1>7, <1>9, <1>10 DEF IInv

\* A string has been stored, and the command goes on.
LEMMA Stored ==
    ASSUME IInv, at \in Inside, at' \in Inside, at' # "number",
           NEW q \in pos..Len(text), pos' = q + 1,
           UNCHANGED <<input, op, from, accepted>>, ListInv'
    PROVE  IInv'
<1>1. /\ Len(text) \in Nat /\ pos \in 1..TextEnd /\ from \in 1..pos
      /\ input \in Inputs
  BY LengthType DEF IInv, PlaceInv
<1>2. pos' \in pos..TextEnd
  BY <1>1 DEF TextEnd
<1>3. PlaceInv'
  BY <1>1, <1>2, SameText DEF IInv, PlaceInv, Inside, TextEnd
<1>4. TakenInv'
  <2>1. pos' \in Nat /\ pos' >= pos
    BY <1>1, <1>2 DEF TextEnd
  <2> QED BY <2>1, TakenStays
<1>5. LineStarts'
  BY DEF LineStarts, Inside
<1> QED BY <1>3, <1>4, <1>5 DEF IInv

-----------------------------------------------------------------------------
(* The steps                                                               *)

\* What all steps use of where the parser is.
LEMMA Position ==
    ASSUME IInv
    PROVE  /\ input \in Inputs /\ Len(text) \in Nat /\ side \in {"server", "client"}
           /\ pos \in 1..TextEnd /\ pos \in Nat \ {0} /\ from \in 1..pos
           /\ Ahead(1) \in pos..TextEnd
           /\ Char # EOF => pos <= Len(text) /\ Ahead(1) = pos + 1
           /\ Char = EOF => Ahead(1) = TextEnd /\ pos = TextEnd
<1>1. input \in Inputs /\ Len(text) \in Nat /\ pos \in 1..TextEnd /\ from \in 1..pos
  BY LengthType DEF IInv, PlaceInv
<1>2. pos \in Nat \ {0}
  BY <1>1 DEF TextEnd
<1> QED BY <1>1, <1>2, AheadType, EndIsBehind, LengthType, SMTT(30) DEF Char, TextEnd

\* The keywords, and where the parser goes from them.
LEMMA WordForms ==
    ASSUME NEW s \in {"server", "client"}, NEW w \in WordsOf(s)
    PROVE  /\ w.op \in Ops /\ w.place \in {"number", "list", "bare"}
           /\ w.place = "number" /\ s = "client" => w.op = "delay"
<1>1. CASE s = "server"
  <2>1. \A v \in WordsOf(s) : v.op \in Ops
    BY <1>1 DEF WordsOf, Ops
  <2>2. \A v \in WordsOf(s) : v.place \in {"number", "list", "bare"}
    BY <1>1 DEF WordsOf
  <2> QED BY <1>1, <2>1, <2>2
<1>2. CASE s = "client"
  <2>1. \A v \in WordsOf(s) : v.op \in Ops
    BY <1>2 DEF WordsOf, Ops
  <2>2. \A v \in WordsOf(s) : v.place \in {"number", "list", "bare"}
    BY <1>2 DEF WordsOf
  <2>3. \A v \in WordsOf(s) : v.place = "number" => v.op = "delay"
    BY <1>2 DEF WordsOf
  <2> QED BY <2>1, <2>2, <2>3
<1> QED BY <1>1, <1>2

LEMMA GetNextWordStep == IInv /\ GetNextWord => IInv'
<1> SUFFICES ASSUME IInv, GetNextWord PROVE IInv'
  OBVIOUS
<1>1. PICK w \in Words : /\ Found(w) /\ op' = w.op /\ pos' = pos + Len(Keyword[w.op])
                         /\ at' = w.place
  BY DEF GetNextWord, Goto
<1>2. at = "next" /\ from' = pos /\ keys' = <<>> /\ values' = <<>>
      /\ UNCHANGED <<input, accepted>>
  BY DEF GetNextWord
<1>3. Len(Keyword[w.op]) \in 1..12
  BY <1>1, Position, WordLength
<1>4. pos' \in (pos + 1)..TextEnd
  <2>1. pos + Len(Keyword[w.op]) - 1 <= Len(text)
    BY <1>1 DEF Found, FoundIn
  <2>2. PICK n \in 1..12 : n = Len(Keyword[w.op])
    BY <1>3
  <2>3. pos' = pos + n /\ pos + n - 1 <= Len(text)
    BY <1>1, <2>1, <2>2
  <2> QED BY <2>3, Position DEF TextEnd
<1>5. op' \in Ops /\ at' \in {"number", "list", "bare"}
      /\ (at' = "number" /\ side = "client" => op' = "delay")
  BY <1>1, Position, WordForms DEF Words
<1>6. PlaceInv'
  BY <1>2, <1>4, <1>5, Position, SameText DEF PlaceInv, Places, TextEnd
<1>7. ListInv'
  <2>1. keys' \in Seq(Short) /\ values' \in Seq(Short) /\ Len(keys') = 0 /\ Len(values') = 0
    BY <1>2
  <2>2. Limit' \in Nat
    BY LimitsAssumption DEF Limit
  <2> QED BY <1>5, <2>1, <2>2 DEF ListInv
<1>8. TakenInv'
  <2>1. pos' \in Nat /\ pos' >= pos
    BY <1>4, Position DEF TextEnd
  <2> QED BY <1>2, <2>1, TakenStays
<1>9. LineStarts'
  BY <1>5 DEF LineStarts
<1> QED BY <1>6, <1>7, <1>8, <1>9 DEF IInv

LEMMA GetNextEmptyStep == IInv /\ GetNextEmpty => IInv'
<1> SUFFICES ASSUME IInv, GetNextEmpty PROVE IInv'
  OBVIOUS
<1>1. at = "next" /\ Char \in {"#", "\n"}
  BY DEF GetNextEmpty
<1>2. Char # EOF
  BY <1>1 DEF EOF
<1>3. pos + 1 \in 1..TextEnd /\ pos + 1 >= pos
  BY <1>2, Position DEF TextEnd
<1>4. ASSUME NEW p \in pos..TextEnd, Expect("next", p), Landed(p) PROVE IInv'
  <2>1. ListInv'
    BY <1>4, SameText DEF Expect, Goto, IInv, ListInv
  <2> QED BY <1>4, <2>1, Expected DEF Places, Inside
<1>5. CASE Char = "#"
  <2>1. Cleanup(pos + 1) \in pos..TextEnd /\ Landed(Cleanup(pos + 1))
    BY <1>3, CleanupLands, Position DEF TextEnd
  <2> QED BY <1>4, <1>5, <2>1 DEF GetNextEmpty
<1>6. CASE Char = "\n"
  <2>1. PICK p : p = pos + 1
    OBVIOUS
  <2>2. Landed(pos + 1)
    <3>1. p - 1 = pos
      BY <2>1, Position
    <3>2. CharAt(p - 1) = "\n"
      BY <1>6, <3>1 DEF Char
    <3> QED BY <2>1, <3>2 DEF Landed
  <2>3. pos + 1 \in pos..TextEnd
    BY <1>3, Position DEF TextEnd
  <2> QED BY <1>4, <1>6, <2>2, <2>3 DEF GetNextEmpty
<1> QED BY <1>1, <1>5, <1>6

LEMMA GetNextInvalidStep == IInv /\ GetNextInvalid => IInv'
<1> SUFFICES ASSUME IInv, GetNextInvalid PROVE IInv'
  OBVIOUS
<1>1. Ahead(Reads(Char)) \in pos..TextEnd
  BY Position, ReadsType, AheadType
<1> QED BY <1>1, Rejected DEF GetNextInvalid

LEMMA GetNextEOCStep == IInv /\ GetNextEOC => IInv'
<1> SUFFICES ASSUME IInv, GetNextEOC PROVE IInv'
  OBVIOUS
<1>1. Expect("end", pos) /\ pos \in pos..TextEnd
  BY Position DEF GetNextEOC, TextEnd
<1>2. ListInv'
  BY <1>1, SameText DEF Expect, Goto, IInv, ListInv
<1> QED BY <1>1, <1>2, Expected DEF Places, Inside

LEMMA BareStep == IInv /\ Bare => IInv'
<1> SUFFICES ASSUME IInv, Bare PROVE IInv'
  OBVIOUS
<1>1. CASE Char \in {"\n", EOF}
  <2>1. Landed(Ahead(1))
    <3>1. CASE Char = EOF
      BY <3>1, Position DEF Landed
    <3>2. CASE Char = "\n" /\ Char # EOF
      <4>1. Ahead(1) - 1 = pos
        BY <3>2, Position
      <4> QED BY <3>2, <4>1 DEF Landed, Char
    <3> QED BY <1>1, <3>1, <3>2
  <2> QED BY <1>1, <2>1, Accepted, Position DEF Bare, Inside, Places
<1>2. CASE Char \notin {"\n", EOF}
  BY <1>2, Rejected, Position DEF Bare
<1> QED BY <1>1, <1>2

LEMMA OpenListStep == IInv /\ OpenList => IInv'
<1> SUFFICES ASSUME IInv, OpenList PROVE IInv'
  OBVIOUS
<1>1. CASE Char = "["
  <2> DEFINE place == IF op = "write" THEN "pair" ELSE "key"
  <2>1. Expect(place, pos + 1) /\ at = "list"
    BY <1>1 DEF OpenList
  <2>2. Char # EOF
    BY <1>1 DEF EOF
  <2>3. pos + 1 \in pos..TextEnd
    BY <2>2, Position DEF TextEnd
  <2>4. ListInv'
    <3>1. Len(keys) = 0 /\ Len(values) <= 0 /\ Len(values) \in Nat
      BY <2>1 DEF IInv, ListInv
    <3>2. Limit \in Nat \ {0}
      BY LimitsAssumption DEF Limit
    <3> QED BY <2>1, <3>1, <3>2, SameText DEF Expect, Goto, IInv, ListInv
  <2> QED BY <2>1, <2>3, <2>4, Expected DEF Places, Inside
<1>2. CASE Char # "["
  BY <1>2, Rejected, Position DEF OpenList
<1> QED BY <1>1, <1>2

LEMMA OpenPairStep == IInv /\ OpenPair => IInv'
<1> SUFFICES ASSUME IInv, OpenPair PROVE IInv'
  OBVIOUS
<1>1. CASE Char = "("
  <2>1. Expect("key", pos + 1) /\ at = "pair"
    BY <1>1 DEF OpenPair
  <2>2. Char # EOF
    BY <1>1 DEF EOF
  <2>3. pos + 1 \in pos..TextEnd
    BY <2>2, Position DEF TextEnd
  <2>4. ListInv'
    <3>1. Len(keys) = 0 /\ Len(values) <= 0 /\ Len(values) \in Nat
      BY <2>1 DEF IInv, ListInv
    <3>2. Limit \in Nat \ {0}
      BY LimitsAssumption DEF Limit
    <3> QED BY <2>1, <3>1, <3>2, SameText DEF Expect, Goto, IInv, ListInv
  <2> QED BY <2>1, <2>3, <2>4, Expected DEF Places, Inside
<1>2. CASE Char # "("
  BY <1>2, Rejected, Position DEF OpenPair
<1> QED BY <1>1, <1>2

\* Where a line is skipped from, when a string of it has been read or not.
LEMMA StringPlaces ==
    ASSUME IInv
    PROVE  /\ \A q : StringEnds(q) =>
                /\ q \in pos..Len(text) /\ String(q) \in Short
                /\ q + 1 \in pos..TextEnd /\ Cleanup(q + 1) \in pos..TextEnd
           /\ Ahead(MaxString) \in pos..TextEnd
           /\ Cleanup(Ahead(MaxString)) \in pos..TextEnd
<1>1. ASSUME NEW q, StringEnds(q)
      PROVE  /\ q \in pos..Len(text) /\ String(q) \in Short
             /\ q + 1 \in pos..TextEnd /\ Cleanup(q + 1) \in pos..TextEnd
  <2>1. q \in pos..Len(text) /\ String(q) \in Short
    BY <1>1, Position, StringFits
  <2>2. q + 1 \in pos..TextEnd /\ q + 1 \in 1..TextEnd
    BY <2>1, Position DEF TextEnd
  <2>3. Cleanup(q + 1) \in (q + 1)..TextEnd
    BY <2>2, Position, CleanupLands
  <2>4. Cleanup(q + 1) \in pos..TextEnd
    BY <2>1, <2>2, <2>3, Position DEF TextEnd
  <2> QED BY <2>1, <2>2, <2>4
<1>2. Ahead(MaxString) \in pos..TextEnd
  BY Position, AheadType, LimitsAssumption
<1>3. Cleanup(Ahead(MaxString)) \in pos..TextEnd
  <2>1. Ahead(MaxString) \in 1..TextEnd
    BY <1>2, Position DEF TextEnd
  <2>2. Cleanup(Ahead(MaxString)) \in Ahead(MaxString)..TextEnd
    BY <2>1, Position, CleanupLands
  <2> QED BY <1>2, <2>2, Position DEF TextEnd
<1> QED BY <1>1, <1>2, <1>3

LEMMA PairKeyStep == IInv /\ PairKey => IInv'
<1> SUFFICES ASSUME IInv, PairKey PROVE IInv'
  OBVIOUS
<1>1. at = "key" /\ op = "write"
  BY DEF PairKey
<1>2. ASSUME NEW q, StringEnds(q), keys' = Append(keys, String(q)), pos' = q + 1,
             Goto("value"), UNCHANGED <<input, op, values, from, accepted>>
      PROVE  IInv'
  <2>1. q \in pos..Len(text) /\ String(q) \in Short
    BY <1>2, StringPlaces
  <2>2. /\ keys \in Seq(Short) /\ values \in Seq(Short) /\ Len(keys) < Limit
        /\ Len(values) = Len(keys) /\ Limit \in Nat
    BY <1>1, LimitsAssumption DEF IInv, ListInv, Limit
  <2>3. keys' \in Seq(Short) /\ Len(keys') = Len(keys) + 1
    BY <1>2, <2>1, <2>2
  <2>4. ListInv'
    BY <1>1, <1>2, <2>2, <2>3, SameText DEF ListInv, Goto
  <2> QED BY <1>1, <1>2, <2>1, <2>4, Stored DEF Goto, Inside, Places
<1> QED BY <1>2, Rejected, StringPlaces DEF PairKey

LEMMA PairValueStep == IInv /\ PairValue => IInv'
<1> SUFFICES ASSUME IInv, PairValue PROVE IInv'
  OBVIOUS
<1>1. at = "value" /\ op = "write"
  BY DEF PairValue, IInv, ListInv
<1>2. ASSUME NEW q, StringEnds(q), values' = Append(values, String(q)), pos' = q + 1,
             Goto("after"), UNCHANGED <<input, op, keys, from, accepted>>
      PROVE  IInv'
  <2>1. q \in pos..Len(text) /\ String(q) \in Short
    BY <1>2, StringPlaces
  <2>2. /\ keys \in Seq(Short) /\ values \in Seq(Short) /\ Len(keys) <= Limit
        /\ Len(values) = Len(keys) - 1
    BY <1>1 DEF IInv, ListInv
  <2>3. values' \in Seq(Short) /\ Len(values') = Len(keys)
    BY <1>2, <2>1, <2>2
  <2>4. ListInv'
    BY <1>1, <1>2, <2>2, <2>3, SameText DEF ListInv, Goto
  <2> QED BY <1>1, <1>2, <2>1, <2>4, Stored DEF Goto, Inside, Places
<1> QED BY <1>2, Rejected, StringPlaces DEF PairValue

LEMMA AfterPairStep == IInv /\ AfterPair => IInv'
<1> SUFFICES ASSUME IInv, AfterPair PROVE IInv'
  OBVIOUS
<1>1. at = "after" /\ op = "write"
  BY DEF AfterPair, IInv, ListInv
<1>2. ASSUME Char # EOF, NEW place \in {"key", "full"}, Expect(place, pos + 1),
             place = "key" => Len(keys) < Limit
      PROVE  IInv'
  <2>1. pos + 1 \in pos..TextEnd
    BY <1>2, Position DEF TextEnd
  <2>2. ListInv'
    BY <1>1, <1>2, SameText DEF Expect, Goto, IInv, ListInv
  <2> QED BY <1>1, <1>2, <2>1, <2>2, Expected DEF Places, Inside
<1>3. CASE Char = "(" /\ Expect(IF Len(keys) < Limit THEN "key" ELSE "full", pos + 1)
  BY <1>2, <1>3 DEF EOF
<1>4. CASE Char = "]" /\ Expect("full", pos + 1)
  BY <1>2, <1>4 DEF EOF
<1>5. CASE Reject(Ahead(1))
  BY <1>5, Rejected, Position
<1> QED BY <1>3, <1>4, <1>5 DEF AfterPair

LEMMA ListKeyStep == IInv /\ ListKey => IInv'
<1> SUFFICES ASSUME IInv, ListKey PROVE IInv'
  OBVIOUS
<1>1. at = "key" /\ op # "write"
  BY DEF ListKey
<1>2. ASSUME NEW q, StringEnds(q), keys' = Append(keys, String(q)), pos' = q + 1,
             NEW place \in {"key", "full"}, Goto(place),
             place = "key" => Len(keys') < Limit,
             UNCHANGED <<input, op, values, from, accepted>>
      PROVE  IInv'
  <2>1. q \in pos..Len(text) /\ String(q) \in Short
    BY <1>2, StringPlaces
  <2>2. /\ keys \in Seq(Short) /\ values \in Seq(Short) /\ Len(keys) < Limit
        /\ Len(values) <= Len(keys) /\ Limit \in Nat
    BY <1>1, LimitsAssumption DEF IInv, ListInv, Limit
  <2>3. keys' \in Seq(Short) /\ Len(keys') = Len(keys) + 1
    BY <1>2, <2>1, <2>2
  <2>4. ListInv'
    BY <1>1, <1>2, <2>2, <2>3, SameText DEF ListInv, Goto
  <2> QED BY <1>1, <1>2, <2>1, <2>4, Stored DEF Goto, Inside, Places
<1>3. CASE StringFails /\ Reject(Ahead(MaxString))
  BY <1>3, Rejected, StringPlaces
<1>4. ASSUME NEW q, StringEnds(q), Reject(q + 1) PROVE IInv'
  BY <1>4, Rejected, StringPlaces
<1>5. ASSUME NEW q, StringEnds(q), keys' = Append(keys, String(q)), pos' = q + 1,
             Goto(IF CharAt(q) = Comma /\ Len(keys') < Limit THEN "key" ELSE "full"),
             UNCHANGED <<input, op, values, from, accepted>>
      PROVE  IInv'
  <2>1. CASE CharAt(q) = Comma /\ Len(keys') < Limit
    BY <1>2, <1>5, <2>1
  <2>2. CASE ~(CharAt(q) = Comma /\ Len(keys') < Limit)
    BY <1>2, <1>5, <2>2
  <2> QED BY <2>1, <2>2
<1> QED BY <1>3, <1>4, <1>5 DEF ListKey

LEMMA FullStep == IInv /\ Full => IInv'
<1> SUFFICES ASSUME IInv, Full PROVE IInv'
  OBVIOUS
<1>1. pos \in pos..TextEnd /\ at = "full"
  BY Position DEF Full, TextEnd
<1>2. CASE Expect("eol", pos)
  <2>1. ListInv'
    BY <1>1, <1>2, SameText DEF Expect, Goto, IInv, ListInv
  <2> QED BY <1>1, <1>2, <2>1, Expected DEF Places, Inside
<1>3. CASE Reject(pos)
  BY <1>1, <1>3, Rejected
<1> QED BY <1>2, <1>3 DEF Full

LEMMA EndOfLineStep == IInv /\ EndOfLine => IInv'
<1> SUFFICES ASSUME IInv, EndOfLine PROVE IInv'
  OBVIOUS
<1>1. CASE Char = "\n"
  <2>1. Char # EOF
    BY <1>1 DEF EOF
  <2>2. PICK p : p = pos + 1
    OBVIOUS
  <2>3. p \in pos..TextEnd /\ p - 1 = pos
    BY <2>1, <2>2, Position DEF TextEnd
  <2>4. Landed(p)
    BY <1>1, <2>3 DEF Landed, Char
  <2>5. Accept(p) /\ at \in Inside
    BY <1>1, <2>2 DEF EndOfLine, Inside, Places
  <2> QED BY <2>3, <2>4, <2>5, Accepted
<1>2. CASE Char # "\n"
  BY <1>2, Rejected, Position DEF EndOfLine
<1> QED BY <1>1, <1>2

\* Spaces and newlines are no digits.
LEMMA SpaceAndLine == " " \notin Digits /\ "\n" \notin Digits
BY DEF Digits, Digit

LEMMA NumberStep == IInv /\ Number => IInv'
<1> SUFFICES ASSUME IInv, Number PROVE IInv'
  OBVIOUS
<1> DEFINE line(q) == side = "server" /\ CharAt(q) = " "
<1>1. PICK q \in pos..TextEnd :
        /\ NumberEnds(q)
        /\ \/ /\ WellEnded(q)
              /\ Accept(IF line(q) THEN Cleanup(q + 1) ELSE Ahead(q - pos + 1))
           \/ Reject(Ahead(q - pos + 1))
  BY DEF Number, TextEnd
<1>2. at = "number" /\ at \in Inside
  BY DEF Number, Inside, Places
<1>3. /\ q \in Nat \ {0} /\ q - pos + 1 \in Nat /\ q - pos + 1 >= 1
      /\ pos + (q - pos + 1) = q + 1
  BY Position DEF TextEnd
<1>4. Ahead(q - pos + 1) \in pos..TextEnd
  BY <1>3, Position, AheadType
<1>5. CharAt(q) # EOF => q \in 1..Len(text) /\ q + 1 \in 1..TextEnd
  BY <1>3, Position, EndIsBehind DEF TextEnd
<1>6. CASE Reject(Ahead(q - pos + 1))
  BY <1>4, <1>6, Rejected
<1>7. CASE line(q) /\ Accept(Cleanup(q + 1))
  <2>1. CharAt(q) # EOF
    BY <1>7 DEF EOF
  <2>2. Cleanup(q + 1) \in (q + 1)..TextEnd /\ Landed(Cleanup(q + 1))
    BY <1>5, <2>1, Position, CleanupLands
  <2>3. Cleanup(q + 1) \in pos..TextEnd
    BY <1>3, <2>2, Position DEF TextEnd
  <2> QED BY <1>2, <1>7, <2>2, <2>3, Accepted
<1>8. CASE ~line(q) /\ WellEnded(q) /\ Accept(Ahead(q - pos + 1))
  <2>1. CASE side = "client"
    <3>1. op = "delay"
      BY <1>2, <2>1 DEF IInv, PlaceInv
    <3> QED BY <1>2, <1>4, <1>8, <2>1, <3>1, Accepted
  <2>2. CASE side = "server"
    <3>1. CASE CharAt(q) = EOF
      <4>1. q > Len(text)
        BY <1>3, <3>1, Position, EndIsBehind
      <4>2. pos + (q - pos + 1) >= TextEnd
        BY <1>3, <4>1, Position DEF TextEnd
      <4>3. Ahead(q - pos + 1) = TextEnd
        BY <1>3, <4>2, Position, AheadType
      <4>4. Landed(Ahead(q - pos + 1))
        BY <4>3 DEF Landed
      <4> QED BY <1>2, <1>4, <1>8, <4>4, Accepted
    <3>2. CASE CharAt(q) # EOF
      <4>1. CharAt(q) = "\n"
        BY <1>8, <2>2, <3>2 DEF WellEnded
      <4>2. pos + (q - pos + 1) <= TextEnd
        BY <1>3, <1>5, <3>2, Position DEF TextEnd
      <4>3. Ahead(q - pos + 1) = pos + (q - pos + 1)
        BY <1>3, <4>2, Position, AheadType
      <4>4. Ahead(q - pos + 1) - 1 = q
        BY <1>3, <4>3, Position
      <4>5. Landed(Ahead(q - pos + 1))
        BY <4>1, <4>4 DEF Landed
      <4> QED BY <1>2, <1>4, <1>8, <4>5, Accepted
    <3> QED BY <3>1, <3>2
  <2> QED BY <2>1, <2>2, Position
<1> QED BY <1>1, <1>6, <1>7, <1>8

LEMMA OverrunStep == IInv /\ Overrun => IInv'
<1> SUFFICES ASSUME IInv, Overrun PROVE IInv'
  OBVIOUS
<1>1. at' = "stopped" /\ UNCHANGED <<input, pos, op, keys, values, from, accepted>>
  BY DEF Overrun, Goto
<1>2. PlaceInv'
  BY <1>1, SameText DEF IInv, PlaceInv, Places, TextEnd
<1>3. ListInv'
  BY <1>1, SameText DEF IInv, ListInv
<1>4. TakenInv'
  BY <1>1 DEF IInv, TakenInv, Inside, CommandsApart
<1>5. LineStarts'
  BY <1>1 DEF LineStarts
<1> QED BY <1>2, <1>3, <1>4, <1>5 DEF IInv

-----------------------------------------------------------------------------
(* The theorems                                                            *)

LEMMA InitInv == Init => IInv
<1> SUFFICES ASSUME Init PROVE IInv
  OBVIOUS
<1>1. /\ input \in Inputs /\ pos = 1 /\ from = 1 /\ at = "next" /\ op = "none"
      /\ keys = <<>> /\ values = <<>> /\ accepted = <<>>
  BY DEF Init
<1>2. Len(text) \in Nat
  BY <1>1, LengthType
<1>3. PlaceInv
  BY <1>1, <1>2 DEF PlaceInv, Places, Ops, TextEnd
<1>4. ListInv
  <2>1. Limit \in Nat
    BY LimitsAssumption DEF Limit
  <2> QED BY <1>1, <2>1 DEF ListInv
<1>5. TakenInv
  BY <1>1 DEF TakenInv, CommandsApart
<1>6. LineStarts
  BY <1>1 DEF LineStarts
<1> QED BY <1>3, <1>4, <1>5, <1>6 DEF IInv

LEMMA StepInv == IInv /\ [Next]_vars => IInv'
<1> SUFFICES ASSUME IInv, [Next]_vars PROVE IInv'
  OBVIOUS
<1>1. CASE Next
  BY <1>1, GetNextWordStep, GetNextEmptyStep, GetNextInvalidStep, GetNextEOCStep,
     BareStep, OpenListStep, OpenPairStep, PairKeyStep, PairValueStep, AfterPairStep,
     ListKeyStep, FullStep, EndOfLineStep, NumberStep, OverrunStep DEF Next
<1>2. CASE UNCHANGED vars
  BY <1>2, SameText DEF vars, IInv, PlaceInv, ListInv, TakenInv, CommandsApart,
     LineStarts, CharAt, TextEnd
<1> QED BY <1>1, <1>2

\* What the parsers hold fits into their arrays, whatever the text.
THEOREM ParsingTypeCorrect == Spec => []ParsingTypeOK
<1>1. IInv => ParsingTypeOK
  <2> SUFFICES ASSUME IInv PROVE ParsingTypeOK
    OBVIOUS
  <2>1. /\ \A i \in 1..Len(keys) : keys[i] \in Short
        /\ \A i \in 1..Len(values) : values[i] \in Short
    BY DEF IInv, ListInv
  <2>2. \A s \in Short : Len(s) < MaxString
    BY DEF Short
  <2> QED BY <2>1, <2>2 DEF ParsingTypeOK, IInv, PlaceInv, ListInv, TextEnd
<1> QED BY <1>1, InitInv, StepInv, PTL DEF Spec

\* Whatever the text, the next command is read from the start of a line, but for
\* what a client's DELAY has left.
THEOREM CommandsStartLines == Spec => []LineStarts
<1>1. IInv => LineStarts
  BY DEF IInv
<1> QED BY <1>1, InitInv, StepInv, PTL DEF Spec

\* Whatever the text, no part of it is carried out twice.
THEOREM CommandsDisjoint == Spec => []CommandsApart
<1>1. IInv => CommandsApart
  BY DEF IInv, TakenInv
<1> QED BY <1>1, InitInv, StepInv, PTL DEF Spec

-----------------------------------------------------------------------------
(* What a command is read from                                             *)

\* The places behind the keyword of a command with a list.
Held == {"list", "pair", "key", "value", "after", "full", "eol"}
Opened == from + Len(Keyword[op])
Spots == from..(pos - 1)

WordInv ==
    /\ at \in Held =>
         /\ Opened \in from..pos /\ FoundIn(text, from, op)
         /\ IF at = "list" THEN pos = Opened ELSE CharAt(Opened) = "["
         /\ op # "write" => values = <<>>
    /\ at \in {"bare", "number"} => keys = <<>>

\* The keys read so far stand one after the other, each up to its place in m.
ListSpelt(m) ==
    /\ m[0] = Opened /\ m[Len(keys)] = pos - 1
    /\ \A i \in 1..Len(keys) :
         /\ Stands(text, keys[i], m[i - 1], m[i])
         /\ CharAt(m[i]) \in {Comma, "]"} /\ (i < Len(keys) => CharAt(m[i]) = Comma)

\* So do the keys and values of pairs, the keys up to m, the values up to v.
PairsSpelt(m, v) ==
    /\ v[0] = Opened
    /\ \A i \in 1..Len(keys) :
         /\ Stands(text, keys[i], v[i - 1] + 1, m[i])
         /\ CharAt(v[i - 1] + 1) = "(" /\ CharAt(m[i]) = Comma
    /\ \A i \in 1..Len(values) :
         Stands(text, values[i], m[i], v[i]) /\ CharAt(v[i]) = ")"
    /\ at \in {"pair", "after"} => v[Len(values)] = pos - 1
    /\ at = "value" => m[Len(keys)] = pos - 1
    /\ at \in {"key", "full", "eol"} => v[Len(values)] = pos - 2

SpeltInv ==
    /\ at \in Held \ {"list"} /\ op = "write" =>
         \E m \in [1..Len(keys) -> Spots], v \in [0..Len(values) -> Spots] : PairsSpelt(m, v)
    /\ at \in Held \ {"list"} /\ op # "write" =>
         \E m \in [0..Len(keys) -> Spots] : ListSpelt(m)

\* The character before the one to be read, where it matters.  A list that does
\* not end with its last place is as long as the array.
LastInv ==
    /\ at = "pair" => op = "write"
    /\ at = "key" /\ op = "write" => CharAt(pos - 1) = "("
    /\ at \in {"value", "after"} => Len(keys) > 0
    /\ at = "key" /\ op # "write" => Len(keys) = 0 \/ CharAt(pos - 1) = Comma
    /\ at \in {"full", "eol"} =>
         /\ Len(keys) > 0
         /\ CharAt(pos - 1) \in {"]", IF op = "write" THEN "(" ELSE Comma}
         /\ Len(keys) < Limit \/ at = "eol" => CharAt(pos - 1) = "]"

Handed == {accepted[i] : i \in 1..Len(accepted)}
WrittenInv == \A c \in Handed : c.keys # <<>> => Written(text, c)

TextInv == WordInv /\ SpeltInv /\ LastInv /\ WrittenInv

LEMMA WrittenStays ==
    ASSUME WrittenInv, UNCHANGED <<input, accepted>>
    PROVE  WrittenInv'
<1>1. Handed' = Handed
  BY DEF Handed
<1>2. text' = text
  BY SameText
<1> QED BY <1>1, <1>2 DEF WrittenInv

\* Between two commands nothing is held.
LEMMA NothingHeld ==
    ASSUME at' \in {"next", "end", "stopped"}
    PROVE  WordInv' /\ SpeltInv' /\ LastInv'
<1>1. at' \notin Held /\ at' \notin {"bare", "number"}
  BY DEF Held
<1>2. WordInv'
  BY <1>1 DEF WordInv
<1>3. SpeltInv'
  BY <1>1 DEF SpeltInv
<1>4. LastInv'
  <2>1. at' \notin {"pair", "key", "value", "after", "full", "eol"}
    OBVIOUS
  <2> QED BY <2>1 DEF LastInv
<1> QED BY <1>2, <1>3, <1>4

LEMMA LineLeft ==
    ASSUME TextInv, UNCHANGED <<input, accepted>>, at' \in {"next", "end", "stopped"}
    PROVE  TextInv'
<1> QED BY NothingHeld, WrittenStays DEF TextInv

LEMMA RejectedText ==
    ASSUME TextInv, NEW p, Reject(p)
    PROVE  TextInv'
BY LineLeft DEF Reject, Goto

\* A command goes to the program.
LEMMA AcceptedText ==
    ASSUME IInv, TextInv, NEW p, Accept(p),
           keys # <<>> => Written(text, [op |-> op, keys |-> keys, values |-> values,
                                         from |-> from, to |-> p])
    PROVE  TextInv'
<1> DEFINE c == [op |-> op, keys |-> keys, values |-> values, from |-> from, to |-> p]
<1>1. accepted' = Append(accepted, c) /\ UNCHANGED input /\ at' \in {"next", "end"}
  BY DEF Accept, Goto
<1>2. WordInv' /\ SpeltInv' /\ LastInv'
  BY <1>1, NothingHeld
<1>3. WrittenInv'
  <2>1. PICK d : d = c
    OBVIOUS
  <2>2. accepted' = Append(accepted, d) /\ d.keys = keys /\ accepted \in Seq(Taken)
    BY <1>1, <2>1 DEF IInv, TakenInv
  <2>3. Handed' = Handed \cup {d}
    BY <2>2 DEF Handed
  <2>4. keys # <<>> => Written(text, d)
    BY <2>1
  <2>5. text' = text
    BY <1>1, SameText
  <2> HIDE DEF c
  <2> QED BY <2>2, <2>3, <2>4, <2>5 DEF TextInv, WrittenInv
<1> QED BY <1>2, <1>3 DEF TextInv

-----------------------------------------------------------------------------
(* The steps, and what they leave of a command                             *)

LEMMA GetNextWordText == IInv /\ TextInv /\ GetNextWord => TextInv'
<1> SUFFICES ASSUME IInv, TextInv, GetNextWord PROVE TextInv'
  OBVIOUS
<1>1. PICK w \in Words : /\ Found(w) /\ op' = w.op /\ pos' = pos + Len(Keyword[w.op])
                         /\ at' = w.place
  BY DEF GetNextWord, Goto
<1>2. from' = pos /\ keys' = <<>> /\ values' = <<>> /\ UNCHANGED <<input, accepted>>
  BY DEF GetNextWord
<1>3. Len(Keyword[w.op]) \in 1..12
  BY <1>1, Position, WordLength
<1>4. w.place \in {"number", "list", "bare"}
  BY <1>1, Position, WordForms DEF Words
<1>5. Opened' = pos' /\ pos' \in pos..pos'
  <2>1. PICK n \in 1..12 : n = Len(Keyword[w.op])
    BY <1>3
  <2>2. Opened' = pos + n /\ pos' = pos + n
    BY <1>1, <1>2, <2>1 DEF Opened
  <2>3. pos \in Nat
    BY Position
  <2> QED BY <2>1, <2>2, <2>3
<1>6. FoundIn(text, pos, w.op)
  BY <1>1 DEF Found
<1>7. WordInv'
  BY <1>1, <1>2, <1>4, <1>5, <1>6, SameText DEF WordInv, Held
<1>8. at' \notin Held \ {"list"}
  BY <1>1, <1>4 DEF Held
<1>9. SpeltInv'
  BY <1>8 DEF SpeltInv
<1>10. LastInv'
  <2>1. at' \notin {"pair", "key", "value", "after", "full", "eol"}
    BY <1>8 DEF Held
  <2> QED BY <2>1 DEF LastInv
<1> QED BY <1>2, <1>7, <1>9, <1>10, WrittenStays DEF TextInv

LEMMA GetNextEmptyText == IInv /\ TextInv /\ GetNextEmpty => TextInv'
BY LineLeft DEF GetNextEmpty, Expect, Goto

LEMMA GetNextInvalidText == IInv /\ TextInv /\ GetNextInvalid => TextInv'
BY RejectedText DEF GetNextInvalid

LEMMA GetNextEOCText == IInv /\ TextInv /\ GetNextEOC => TextInv'
BY LineLeft DEF GetNextEOC, Expect, Goto

LEMMA BareText == IInv /\ TextInv /\ Bare => TextInv'
<1> SUFFICES ASSUME IInv, TextInv, Bare PROVE TextInv'
  OBVIOUS
<1>1. keys = <<>>
  BY DEF Bare, TextInv, WordInv
<1> QED BY <1>1, AcceptedText, RejectedText DEF Bare

LEMMA NumberText == IInv /\ TextInv /\ Number => TextInv'
<1> SUFFICES ASSUME IInv, TextInv, Number PROVE TextInv'
  OBVIOUS
<1>1. at = "number"
  BY DEF Number
<1>2. keys = <<>>
  BY <1>1 DEF TextInv, WordInv
<1>3. PICK q : \/ Accept(IF side = "server" /\ CharAt(q) = " " THEN Cleanup(q + 1)
                         ELSE Ahead(q - pos + 1))
               \/ Reject(Ahead(q - pos + 1))
  BY DEF Number
<1> QED BY <1>2, <1>3, AcceptedText, RejectedText

LEMMA OverrunText == IInv /\ TextInv /\ Overrun => TextInv'
BY LineLeft DEF Overrun, Goto

\* Places around the character that is read.
LEMMA Around ==
    ASSUME NEW a \in Nat, NEW b \in Nat, a <= b
    PROVE  /\ a - 1 < b /\ a - 1 + 1 = a /\ a - 2 + 1 = a - 1 /\ a - 2 + 2 = a
           /\ b + 1 - 1 = b
OBVIOUS

\* A string that is read stands where it is read.
LEMMA StringStands ==
    ASSUME IInv, NEW q, StringEnds(q)
    PROVE  Stands(text, SubSeq(text, pos, q - 1), pos - 1, q)
<1>1. pos \in Nat \ {0} /\ MaxString \in Nat /\ q \in Nat
  BY Position, LimitsAssumption DEF StringEnds
<1>2. pos - 1 < q /\ q - (pos - 1) <= MaxString /\ pos - 1 + 1 = pos
  BY <1>1 DEF StringEnds
<1>3. \A p \in pos..(q - 1) : At(text, p) \notin Delims
  BY DEF StringEnds, CharAt
<1> QED BY <1>2, <1>3 DEF Stands

\* The places grow with the position.
LEMMA Wider ==
    ASSUME NEW a \in Nat, NEW b \in Nat, NEW c \in Nat, b <= c
    PROVE  /\ a..(b - 1) \subseteq a..(c - 1)
           /\ a <= b => c \in a..(c + 1 - 1)
OBVIOUS

\* What the steps inside a list use: that its text and its beginning stay.
LEMMA GoneOn ==
    ASSUME IInv, TextInv, at \in Held \ {"list"}, at' \in Held \ {"list"},
           pos' \in Nat, pos <= pos', UNCHANGED <<input, op, from, accepted>>,
           op = "write" \/ UNCHANGED values
    PROVE  /\ WordInv' /\ WrittenInv'
           /\ Opened' = Opened /\ Opened \in Nat /\ from \in Nat /\ from <= Opened
           /\ Spots \subseteq Spots'
           /\ \A p : CharAt(p)' = CharAt(p)
           /\ text' = text
<1>1. /\ from \in 1..pos /\ pos \in Nat \ {0} /\ Len(text) \in Nat /\ pos' \in Nat
      /\ pos' >= pos /\ from' = from /\ from \in Nat
  BY Position DEF TextEnd
<1>2. /\ Opened \in from..pos /\ FoundIn(text, from, op)
      /\ CharAt(Opened) = "[" /\ (op # "write" => values = <<>>)
  BY DEF TextInv, WordInv
<1>3. Opened' = Opened /\ Opened \in from..pos'
  BY <1>1, <1>2 DEF Opened
<1>4. (\A p : CharAt(p)' = CharAt(p)) /\ text' = text
  BY SameText
<1>5. WordInv'
  <2>1. at' \notin {"bare", "number"} /\ at' # "list"
    BY DEF Held
  <2> QED BY <1>2, <1>3, <1>4, <2>1 DEF WordInv
<1>6. Spots \subseteq Spots'
  <2>1. from..(pos - 1) \subseteq from..(pos' - 1)
    BY <1>1, Wider
  <2> QED BY <1>1, <2>1 DEF Spots
<1> QED BY <1>1, <1>2, <1>3, <1>4, <1>5, <1>6, WrittenStays DEF TextInv

LEMMA OpenListText == IInv /\ TextInv /\ OpenList => TextInv'
<1> SUFFICES ASSUME IInv, TextInv, OpenList PROVE TextInv'
  OBVIOUS
<1>1. CASE Reject(Ahead(1))
  BY <1>1, RejectedText
<1>2. CASE Char = "[" /\ Expect(IF op = "write" THEN "pair" ELSE "key", pos + 1)
  <2>1. /\ at' = IF op = "write" THEN "pair" ELSE "key"
        /\ pos' = pos + 1 /\ UNCHANGED <<input, op, keys, values, from, accepted>>
    BY <1>2 DEF Expect, Goto
  <2>2. at = "list"
    BY DEF OpenList
  <2>3. Opened = pos /\ FoundIn(text, from, op) /\ (op # "write" => values = <<>>)
    BY <2>2 DEF TextInv, WordInv, Held
  <2>4. from \in 1..pos /\ pos \in Nat \ {0}
    BY Position
  <2>5. Opened' = pos /\ CharAt(Opened)' = "["
    <3>1. PICK p : p = pos
      OBVIOUS
    <3>2. Opened' = p
      BY <2>1, <2>3, <3>1 DEF Opened
    <3>3. CharAt(p)' = "["
      BY <1>2, <2>1, <3>1, SameText DEF Char
    <3> QED BY <3>1, <3>2, <3>3 DEF CharAt
  <2>6. WordInv'
    <3>1. Opened' \in from'..pos'
      BY <2>1, <2>4, <2>5
    <3>2. FoundIn(text, from, op)'
      BY <2>1, <2>3, SameText
    <3> QED BY <2>1, <2>3, <2>5, <3>1, <3>2 DEF WordInv
  <2>7. /\ Len(keys') = 0 /\ Len(values') = 0
    BY <2>1, <2>2 DEF IInv, ListInv
  <2>8. pos \in Spots' /\ pos' - 1 = pos
    BY <2>1, <2>4 DEF Spots
  <2>9. SpeltInv'
    <3>1. PICK u : u = [i \in 0..0 |-> pos]
      OBVIOUS
    <3>2. PICK w : w = [i \in 1..0 |-> pos]
      OBVIOUS
    <3>3. u \in [0..0 -> Spots'] /\ w \in [1..0 -> Spots'] /\ u[0] = pos
      BY <2>8, <3>1, <3>2
    <3>4. CASE op = "write"
      <4>1. PairsSpelt(w, u)'
        BY <2>1, <2>5, <2>7, <2>8, <3>3, <3>4 DEF PairsSpelt
      <4> QED BY <2>1, <2>7, <3>3, <3>4, <4>1 DEF SpeltInv
    <3>5. CASE op # "write"
      <4>1. ListSpelt(u)'
        BY <2>5, <2>7, <2>8, <3>3 DEF ListSpelt
      <4> QED BY <2>1, <2>7, <3>3, <3>5, <4>1 DEF SpeltInv
    <3> QED BY <3>4, <3>5
  <2>10. LastInv'
    BY <2>1, <2>7 DEF LastInv
  <2> QED BY <2>1, <2>6, <2>9, <2>10, WrittenStays DEF TextInv
<1> QED BY <1>1, <1>2 DEF OpenList

\* What was to be read is what has been read.
LEMMA LastChar ==
    ASSUME UNCHANGED input, pos \in Nat, pos' = pos + 1
    PROVE  CharAt(pos - 1)' = Char
<1>1. PICK p : p = pos
  OBVIOUS
<1>2. pos' - 1 = p
  BY <1>1
<1>3. CharAt(p)' = Char
  BY <1>1, SameText DEF Char
<1> QED BY <1>2, <1>3 DEF CharAt

\* A step that stores nothing of a pair leaves the pairs before it as they are.
LEMMA PairsStay ==
    ASSUME IInv, TextInv, op = "write", at \in Held \ {"list"}, at' \in Held \ {"list"},
           pos' \in Nat, pos <= pos', UNCHANGED <<input, op, keys, values, from, accepted>>,
           \A m, v : PairsSpelt(m, v) =>
              /\ at' \in {"pair", "after"} => v[Len(values)] = pos' - 1
              /\ at' = "value" => m[Len(keys)] = pos' - 1
              /\ at' \in {"key", "full", "eol"} => v[Len(values)] = pos' - 2,
           LastInv'
    PROVE  TextInv'
<1>1. PICK m \in [1..Len(keys) -> Spots], v \in [0..Len(values) -> Spots] : PairsSpelt(m, v)
  BY DEF TextInv, SpeltInv
<1>2. /\ WordInv' /\ WrittenInv' /\ Opened' = Opened
      /\ Spots \subseteq Spots' /\ text' = text
      /\ \A p : CharAt(p)' = CharAt(p)
  BY GoneOn
<1>3. PairsSpelt(m, v)'
  BY <1>1, <1>2 DEF PairsSpelt
<1>4. m \in [1..Len(keys) -> Spots'] /\ v \in [0..Len(values) -> Spots']
  BY <1>1, <1>2
<1>5. SpeltInv'
  BY <1>3, <1>4 DEF SpeltInv
<1> QED BY <1>2, <1>5 DEF TextInv

LEMMA OpenPairText == IInv /\ TextInv /\ OpenPair => TextInv'
<1> SUFFICES ASSUME IInv, TextInv, OpenPair PROVE TextInv'
  OBVIOUS
<1>1. CASE Reject(Ahead(1))
  BY <1>1, RejectedText
<1>2. CASE Char = "(" /\ Expect("key", pos + 1)
  <2>1. at = "pair" /\ at' = "key" /\ pos' = pos + 1
        /\ UNCHANGED <<input, op, keys, values, from, accepted>>
    BY <1>2 DEF OpenPair, Expect, Goto
  <2>2. op = "write"
    BY <2>1 DEF TextInv, LastInv
  <2>3. Char # EOF
    BY <1>2 DEF EOF
  <2>4. pos \in Nat /\ pos' - 1 = pos /\ pos' - 2 = pos - 1
        /\ pos' \in Nat /\ pos <= pos'
    BY <2>1, Position
  <2>5. CharAt(pos - 1)' = "("
    BY <1>2, <2>1, <2>4, LastChar
  <2>6. LastInv'
    BY <2>1, <2>2, <2>5 DEF LastInv
  <2>7. \A m, v : PairsSpelt(m, v) => v[Len(values)] = pos' - 2
    BY <2>1, <2>4 DEF PairsSpelt
  <2>8. at \in Held \ {"list"} /\ at' \in Held \ {"list"}
    BY <2>1 DEF Held
  <2> QED BY <2>1, <2>2, <2>4, <2>6, <2>7, <2>8, PairsStay
<1> QED BY <1>1, <1>2 DEF OpenPair

LEMMA AfterPairText == IInv /\ TextInv /\ AfterPair => TextInv'
<1> SUFFICES ASSUME IInv, TextInv, AfterPair PROVE TextInv'
  OBVIOUS
<1>1. CASE Reject(Ahead(1))
  BY <1>1, RejectedText
<1>2. ASSUME NEW place \in {"key", "full"}, Char \in {"(", "]"}, Expect(place, pos + 1),
             place = "key" => Char = "(",
             place = "full" => Char = "]" \/ ~(Len(keys) < Limit)
      PROVE  TextInv'
  <2>1. at = "after" /\ at' = place /\ pos' = pos + 1
        /\ UNCHANGED <<input, op, keys, values, from, accepted>>
    BY <1>2 DEF AfterPair, Expect, Goto
  <2>2. op = "write" /\ Len(keys) \in Nat /\ Len(values) = Len(keys) /\ Limit \in Nat \ {0}
        /\ Len(keys) <= Limit
    BY <2>1, LimitsAssumption DEF IInv, ListInv, Limit
  <2>3. Char # EOF
    BY <1>2 DEF EOF
  <2>4. pos \in Nat /\ pos' - 1 = pos /\ pos' - 2 = pos - 1
        /\ pos' \in Nat /\ pos <= pos'
    BY <2>1, Position
  <2>5. CharAt(pos - 1)' = Char
    BY <2>1, <2>4, LastChar
  <2>6. Len(keys)' = Len(keys) /\ Limit' = Limit
    BY <2>1, SameText
  <2>7. LastInv'
    <3>1. Len(keys) > 0
      BY <2>1 DEF TextInv, LastInv
    <3> QED BY <1>2, <2>1, <2>2, <2>5, <2>6, <3>1 DEF LastInv
  <2>8. \A m, v : PairsSpelt(m, v) => v[Len(values)] = pos' - 2
    BY <2>1, <2>4 DEF PairsSpelt
  <2>9. at \in Held \ {"list"} /\ at' \in Held \ {"list"}
    BY <1>2, <2>1 DEF Held
  <2>10. at' \in {"key", "full"}
    BY <1>2, <2>1
  <2> QED BY <2>1, <2>2, <2>4, <2>7, <2>8, <2>9, <2>10, PairsStay
<1>3. CASE Char = "(" /\ Expect(IF Len(keys) < Limit THEN "key" ELSE "full", pos + 1)
  BY <1>2, <1>3
<1>4. CASE Char = "]" /\ Expect("full", pos + 1)
  BY <1>2, <1>4
<1> QED BY <1>1, <1>3, <1>4 DEF AfterPair

LEMMA PairKeyText == IInv /\ TextInv /\ PairKey => TextInv'
<1> SUFFICES ASSUME IInv, TextInv, PairKey PROVE TextInv'
  OBVIOUS
<1>1. at = "key" /\ op = "write"
  BY DEF PairKey
<1>2. ASSUME NEW q, StringEnds(q), CharAt(q) = Comma, keys' = Append(keys, String(q)),
             pos' = q + 1, Goto("value"), UNCHANGED <<input, op, values, from, accepted>>
      PROVE  TextInv'
  <2> DEFINE n == Len(keys)
  <2>1. /\ at \in Held \ {"list"} /\ at' = "value" /\ at' \in Held \ {"list"}
        /\ UNCHANGED <<input, op, from, accepted>>
    BY <1>1, <1>2 DEF Held, Goto
  <2>2. /\ pos \in Nat \ {0} /\ from \in Nat /\ from <= pos
        /\ q \in Nat /\ pos <= q
    BY <1>2, StringPlaces, Position
  <2>3. q = pos' - 1 /\ pos' \in Nat /\ pos <= pos'
    BY <1>2, <2>2
  <2>4. /\ keys \in Seq(Short) /\ String(q) \in Short /\ n \in Nat /\ Len(values) = n
    BY <1>1, <1>2, StringPlaces DEF IInv, ListInv
  <2>5. /\ Len(keys') = n + 1 /\ keys'[n + 1] = SubSeq(text, pos, q - 1)
        /\ \A i \in 1..n : keys'[i] = keys[i]
    <3>1. /\ Len(keys') = n + 1 /\ keys'[n + 1] = String(q)
          /\ \A i \in 1..n : keys'[i] = keys[i]
      BY <1>2, <2>4
    <3> QED BY <3>1 DEF String
  <2>6. /\ WordInv' /\ WrittenInv' /\ Opened' = Opened
        /\ Spots \subseteq Spots' /\ text' = text
        /\ \A p : CharAt(p)' = CharAt(p)
        /\ from \in Nat
    BY <1>1, <1>2, <2>1, <2>2, <2>3, GoneOn
  <2>7. PICK m \in [1..n -> Spots], v \in [0..n -> Spots] : PairsSpelt(m, v)
    BY <1>1, <2>1, <2>4 DEF TextInv, SpeltInv
  <2>8. PICK l : l = [i \in 1..(n + 1) |-> IF i = n + 1 THEN q ELSE m[i]]
    OBVIOUS
  <2>9. q \in Spots'
    <3>1. q \in from..(q + 1 - 1)
      BY <2>2, Wider
    <3> QED BY <1>2, <2>1, <3>1 DEF Spots
  <2>10. l \in [1..(n + 1) -> Spots'] /\ v \in [0..n -> Spots']
    BY <2>6, <2>7, <2>8, <2>9
  <2>11. v[n] = pos - 2 /\ CharAt(pos - 1) = "("
    BY <1>1, <2>4, <2>7 DEF PairsSpelt, TextInv, LastInv
  <2>12. v[n] + 1 = pos - 1 /\ v[n] + 2 = pos /\ pos - 1 < q
    BY <2>2, <2>11, Around
  <2>13. ASSUME NEW i \in 1..(n + 1)
         PROVE  /\ Stands(text, keys'[i], v[i - 1] + 1, l[i])
                /\ CharAt(v[i - 1] + 1) = "(" /\ CharAt(l[i]) = Comma
    <3>1. CASE i = n + 1
      <4>1. l[i] = q /\ i - 1 = n
        BY <2>4, <2>8, <3>1
      <4>2. Stands(text, keys'[i], pos - 1, q)
        BY <1>2, <2>5, <3>1, StringStands
      <4> QED BY <1>2, <2>5, <2>11, <2>12, <3>1, <4>1, <4>2
    <3>2. CASE i \in 1..n
      <4>1. l[i] = m[i] /\ keys'[i] = keys[i]
        BY <2>4, <2>5, <2>8, <3>2
      <4> QED BY <2>7, <3>2, <4>1 DEF PairsSpelt
    <3> QED BY <2>4, <3>1, <3>2, SMTT(30)
  <2>14. l[n + 1] = q
    BY <2>4, <2>8
  <2>15. PairsSpelt(l, v)'
    <3>1. PICK k : k = keys'
      OBVIOUS
    <3>2. \A i \in 1..n : l[i] = m[i]
      BY <2>4, <2>8
    <3> QED BY <1>2, <2>1, <2>3, <2>4, <2>5, <2>6, <2>7, <2>13, <2>14, <3>2 DEF PairsSpelt
  <2>16. SpeltInv'
    BY <1>1, <1>2, <2>4, <2>5, <2>10, <2>15 DEF SpeltInv
  <2>17. LastInv'
    BY <2>1, <2>4, <2>5 DEF LastInv
  <2> QED BY <2>6, <2>16, <2>17 DEF TextInv
<1> QED BY <1>2, RejectedText DEF PairKey

LEMMA PairValueText == IInv /\ TextInv /\ PairValue => TextInv'
<1> SUFFICES ASSUME IInv, TextInv, PairValue PROVE TextInv'
  OBVIOUS
<1>1. at = "value"
  BY DEF PairValue
<1>2. ASSUME NEW q, StringEnds(q), CharAt(q) = ")", values' = Append(values, String(q)),
             pos' = q + 1, Goto("after"), UNCHANGED <<input, op, keys, from, accepted>>
      PROVE  TextInv'
  <2> DEFINE n == Len(keys)
  <2>1. /\ at \in Held \ {"list"} /\ at' = "after" /\ at' \in Held \ {"list"}
        /\ UNCHANGED <<input, op, from, accepted>>
    BY <1>1, <1>2 DEF Held, Goto
  <2>2. /\ pos \in Nat \ {0} /\ from \in Nat /\ from <= pos
        /\ q \in Nat /\ pos <= q
    BY <1>2, StringPlaces, Position
  <2>3. q = pos' - 1 /\ pos' \in Nat /\ pos <= pos'
    BY <1>2, <2>2
  <2>4. /\ values \in Seq(Short) /\ String(q) \in Short
        /\ n \in Nat \ {0} /\ Len(values) = n - 1 /\ op = "write"
    BY <1>1, <1>2, StringPlaces DEF IInv, ListInv
  <2>5. /\ Len(values') = n /\ values'[n] = SubSeq(text, pos, q - 1)
        /\ \A i \in 1..(n - 1) : values'[i] = values[i]
    <3>1. /\ Len(values') = n /\ values'[n] = String(q)
          /\ \A i \in 1..(n - 1) : values'[i] = values[i]
      BY <1>2, <2>4
    <3> QED BY <3>1 DEF String
  <2>6. /\ WordInv' /\ WrittenInv' /\ Opened' = Opened
        /\ Spots \subseteq Spots' /\ text' = text
        /\ \A p : CharAt(p)' = CharAt(p)
        /\ from \in Nat
    BY <2>1, <2>2, <2>3, <2>4, GoneOn
  <2>7. PICK m \in [1..n -> Spots], v \in [0..(n - 1) -> Spots] : PairsSpelt(m, v)
    BY <2>1, <2>4 DEF TextInv, SpeltInv
  <2>8. PICK r : r = [i \in 0..n |-> IF i = n THEN q ELSE v[i]]
    OBVIOUS
  <2>9. q \in Spots'
    <3>1. q \in from..(q + 1 - 1)
      BY <2>2, Wider
    <3> QED BY <1>2, <2>1, <3>1 DEF Spots
  <2>10. m \in [1..n -> Spots'] /\ r \in [0..n -> Spots']
    BY <2>4, <2>6, <2>7, <2>8, <2>9
  <2>11. m[n] = pos - 1 /\ m[n] < q /\ m[n] + 1 = pos
    <3>1. m[n] = pos - 1
      BY <1>1, <2>7 DEF PairsSpelt
    <3> QED BY <2>2, <3>1, Around
  <2>12. r[n] = q /\ \A i \in 0..(n - 1) : r[i] = v[i]
    BY <2>4, <2>8
  <2>13. ASSUME NEW i \in 1..n
         PROVE  /\ Stands(text, keys[i], r[i - 1] + 1, m[i])
                /\ CharAt(r[i - 1] + 1) = "(" /\ CharAt(m[i]) = Comma
    <3>1. r[i - 1] = v[i - 1]
      BY <2>4, <2>12
    <3> QED BY <2>7, <3>1 DEF PairsSpelt
  <2>14. ASSUME NEW i \in 1..n
         PROVE  /\ Stands(text, values'[i], m[i], r[i])
                /\ CharAt(r[i]) = ")"
    <3>1. CASE i = n
      <4>1. Stands(text, values'[i], pos - 1, q)
        BY <1>2, <2>5, <3>1, StringStands
      <4> QED BY <1>2, <2>11, <2>12, <3>1, <4>1
    <3>2. CASE i \in 1..(n - 1)
      <4>1. r[i] = v[i] /\ values'[i] = values[i]
        BY <2>4, <2>5, <2>12, <3>2
      <4> QED BY <2>4, <2>7, <3>2, <4>1 DEF PairsSpelt
    <3> QED BY <2>4, <3>1, <3>2
  <2>15. r[0] = Opened
    BY <2>4, <2>7, <2>12 DEF PairsSpelt
  <2>16. PairsSpelt(m, r)'
    BY <1>2, <2>1, <2>3, <2>4, <2>5, <2>6, <2>12, <2>13, <2>14, <2>15 DEF PairsSpelt
  <2>17. SpeltInv'
    BY <1>2, <2>4, <2>5, <2>10, <2>16 DEF SpeltInv
  <2>18. LastInv'
    BY <1>2, <2>1, <2>4 DEF LastInv
  <2> QED BY <2>6, <2>17, <2>18 DEF TextInv
<1> QED BY <1>2, RejectedText DEF PairValue

LEMMA ListKeyText == IInv /\ TextInv /\ ListKey => TextInv'
<1> SUFFICES ASSUME IInv, TextInv, ListKey PROVE TextInv'
  OBVIOUS
<1>1. at = "key" /\ op # "write"
  BY DEF ListKey
<1>2. ASSUME NEW q, StringEnds(q), CharAt(q) \in {Comma, "]"},
             keys' = Append(keys, String(q)), pos' = q + 1,
             NEW place \in {"key", "full"}, Goto(place),
             place = "key" => CharAt(q) = Comma,
             place = "full" => CharAt(q) = "]" \/ ~(Len(keys') < Limit),
             UNCHANGED <<input, op, values, from, accepted>>
      PROVE  TextInv'
  <2> DEFINE n == Len(keys)
  <2>1. /\ at \in Held \ {"list"} /\ at' = place /\ at' \in Held \ {"list"}
        /\ UNCHANGED <<input, op, from, accepted>>
    BY <1>1, <1>2 DEF Held, Goto
  <2>2. /\ pos \in Nat \ {0} /\ from \in Nat /\ from <= pos
        /\ q \in Nat /\ pos <= q
    BY <1>2, StringPlaces, Position
  <2>3. q = pos' - 1 /\ pos' \in Nat /\ pos <= pos'
    BY <1>2, <2>2
  <2>4. keys \in Seq(Short) /\ String(q) \in Short /\ n \in Nat
    BY <1>2, StringPlaces DEF IInv, ListInv
  <2>5. /\ Len(keys') = n + 1 /\ keys'[n + 1] = SubSeq(text, pos, q - 1)
        /\ \A i \in 1..n : keys'[i] = keys[i]
    <3>1. /\ Len(keys') = n + 1 /\ keys'[n + 1] = String(q)
          /\ \A i \in 1..n : keys'[i] = keys[i]
      BY <1>2, <2>4
    <3> QED BY <3>1 DEF String
  <2>6. /\ WordInv' /\ WrittenInv' /\ Opened' = Opened
        /\ Spots \subseteq Spots' /\ text' = text
        /\ \A p : CharAt(p)' = CharAt(p)
    BY <1>1, <1>2, <2>1, <2>2, <2>3, GoneOn
  <2>7. PICK m \in [0..n -> Spots] : ListSpelt(m)
    BY <1>1, <2>1 DEF TextInv, SpeltInv
  <2>8. PICK l : l = [i \in 0..(n + 1) |-> IF i = n + 1 THEN q ELSE m[i]]
    OBVIOUS
  <2>9. q \in Spots'
    <3>1. q \in from..(q + 1 - 1)
      BY <2>2, Wider
    <3> QED BY <1>2, <2>1, <3>1 DEF Spots
  <2>10. l \in [0..(n + 1) -> Spots']
    BY <2>4, <2>6, <2>7, <2>8, <2>9
  <2>11. l[n + 1] = q /\ \A i \in 0..n : l[i] = m[i]
    BY <2>4, <2>8
  <2>12. m[n] = pos - 1 /\ m[n] + 1 = pos /\ m[n] < q
    <3>1. m[n] = pos - 1
      BY <2>7 DEF ListSpelt
    <3> QED BY <2>2, <3>1, Around
  <2>13. n = 0 \/ CharAt(m[n]) = Comma
    BY <1>1, <2>12 DEF TextInv, LastInv
  <2>14. ASSUME NEW i \in 1..(n + 1)
         PROVE  /\ Stands(text, keys'[i], l[i - 1], l[i])
                /\ CharAt(l[i]) \in {Comma, "]"} /\ (i < n + 1 => CharAt(l[i]) = Comma)
    <3>1. CASE i = n + 1
      <4>1. i - 1 = n /\ ~(i < n + 1) /\ l[i - 1] = m[n] /\ l[i] = q
        BY <2>4, <2>11, <3>1
      <4>2. Stands(text, keys'[i], pos - 1, q)
        BY <1>2, <2>5, <3>1, StringStands
      <4> QED BY <1>2, <2>12, <3>1, <4>1, <4>2
    <3>2. CASE i \in 1..n
      <4>1. l[i - 1] = m[i - 1] /\ l[i] = m[i] /\ keys'[i] = keys[i]
        BY <2>4, <2>5, <2>11, <3>2
      <4>2. CharAt(m[i]) = Comma
        <5>1. CASE i = n
          BY <2>4, <2>13, <3>2, <5>1
        <5>2. CASE i < n
          BY <2>7, <3>2, <5>2 DEF ListSpelt
        <5> QED BY <2>4, <3>2, <5>1, <5>2
      <4> QED BY <2>7, <3>2, <4>1, <4>2 DEF ListSpelt
    <3> QED BY <2>4, <3>1, <3>2
  <2>15. l[0] = Opened
    BY <2>4, <2>7, <2>11 DEF ListSpelt
  <2>16. ListSpelt(l)'
    BY <2>3, <2>5, <2>6, <2>11, <2>14, <2>15 DEF ListSpelt
  <2>17. SpeltInv'
    BY <1>1, <1>2, <2>5, <2>10, <2>16 DEF SpeltInv
  <2>18. CharAt(pos - 1)' = CharAt(q)
    BY <2>3, <2>6 DEF CharAt
  <2>19. Len(keys)' = n + 1 /\ n + 1 > 0 /\ Limit' = Limit
    BY <2>1, <2>4, <2>5, SameText
  <2>20. LastInv'
    BY <1>1, <1>2, <2>1, <2>18, <2>19 DEF LastInv
  <2> QED BY <2>6, <2>17, <2>20 DEF TextInv
<1>3. ASSUME NEW q, StringEnds(q), CharAt(q) \in {Comma, "]"},
             keys' = Append(keys, String(q)), pos' = q + 1,
             Goto(IF CharAt(q) = Comma /\ Len(keys') < Limit THEN "key" ELSE "full"),
             UNCHANGED <<input, op, values, from, accepted>>
      PROVE  TextInv'
  <2>1. CASE CharAt(q) = Comma /\ Len(keys') < Limit
    BY <1>2, <1>3, <2>1
  <2>2. CASE ~(CharAt(q) = Comma /\ Len(keys') < Limit)
    BY <1>2, <1>3, <2>2
  <2> QED BY <2>1, <2>2
<1> QED BY <1>3, RejectedText DEF ListKey

LEMMA FullText == IInv /\ TextInv /\ Full => TextInv'
<1> SUFFICES ASSUME IInv, TextInv, Full PROVE TextInv'
  OBVIOUS
<1>1. CASE Reject(pos)
  BY <1>1, RejectedText
<1>2. CASE /\ ~(Len(keys) = Limit /\ (side = "server" \/ CharAt(pos - 1) # "]"))
           /\ Expect("eol", pos)
  <2>1. at = "full" /\ at' = "eol" /\ pos' = pos
        /\ UNCHANGED <<input, op, keys, values, from, accepted>>
    BY <1>2 DEF Full, Expect, Goto
  <2>2. /\ Len(keys) > 0 /\ Len(keys) <= Limit /\ Len(keys) \in Nat /\ Limit \in Nat
        /\ Len(keys) < Limit => CharAt(pos - 1) = "]"
    BY <2>1, LimitsAssumption DEF TextInv, LastInv, IInv, ListInv, Limit
  <2>3. CharAt(pos - 1) = "]"
    BY <1>2, <2>2
  <2>4. CharAt(pos - 1)' = "]"
    BY <2>1, <2>3, SameText DEF CharAt
  <2>5. LastInv'
    BY <2>1, <2>2, <2>4 DEF LastInv
  <2>6. at \in Held \ {"list"} /\ at' \in Held \ {"list"}
    BY <2>1 DEF Held
  <2>7. pos \in Nat
    BY Position
  <2>8. CASE op = "write"
    <3>1. \A m, v : PairsSpelt(m, v) => v[Len(values)] = pos' - 2
      BY <2>1 DEF PairsSpelt
    <3> QED BY <2>1, <2>5, <2>6, <2>7, <2>8, <3>1, PairsStay
  <2>9. CASE op # "write"
    <3>1. PICK m \in [0..Len(keys) -> Spots] : ListSpelt(m)
      BY <2>6, <2>9 DEF TextInv, SpeltInv
    <3>2. /\ WordInv' /\ WrittenInv' /\ Opened' = Opened
          /\ Spots \subseteq Spots' /\ text' = text
          /\ \A p : CharAt(p)' = CharAt(p)
      BY <2>1, <2>6, <2>7, GoneOn
    <3>3. ListSpelt(m)'
      BY <2>1, <3>1, <3>2 DEF ListSpelt
    <3>4. SpeltInv'
      BY <2>1, <2>9, <3>1, <3>2, <3>3 DEF SpeltInv
    <3> QED BY <2>5, <3>2, <3>4 DEF TextInv
  <2> QED BY <2>8, <2>9
<1> QED BY <1>1, <1>2 DEF Full

\* A command at the end of its line is as it is written there.
LEMMA CommandWritten ==
    ASSUME IInv, TextInv, at = "eol", Char = "\n",
           NEW c, c = [op |-> op, keys |-> keys, values |-> values,
                       from |-> from, to |-> pos + 1]
    PROVE  Written(text, c)
<1> DEFINE n == Len(keys)
<1>1. /\ c.op = op /\ c.keys = keys /\ c.values = values /\ c.from = from
      /\ c.to = pos + 1
  OBVIOUS
<1>2. /\ pos \in Nat \ {0} /\ from \in Nat /\ n \in Nat
      /\ op = "write" => Len(values) = n
  BY Position DEF IInv, ListInv
<1>3. /\ FoundIn(text, from, op) /\ CharAt(Opened) = "["
      /\ (op # "write" => values = <<>>)
      /\ n > 0 /\ CharAt(pos - 1) = "]"
  BY DEF TextInv, WordInv, LastInv, Held
<1>4. Bracket(c) = Opened
  BY <1>1 DEF Bracket, Opened
<1>5. Spots \subseteq c.from..c.to
  BY <1>1, <1>2 DEF Spots
<1>6. ASSUME NEW chars, NEW p \in Spots, CharAt(p) \in chars PROVE p \in Marks(text, c, chars)
  BY <1>5, <1>6 DEF Marks, CharAt
<1>7. CASE op = "write"
  <2>1. PICK m \in [1..n -> Spots], v \in [0..n -> Spots] : PairsSpelt(m, v)
    BY <1>2, <1>7 DEF TextInv, SpeltInv, Held
  <2>2. m \in [1..n -> Marks(text, c, {Comma})]
    <3>1. \A i \in 1..n : m[i] \in Spots /\ CharAt(m[i]) \in {Comma}
      BY <2>1 DEF PairsSpelt
    <3>2. \A i \in 1..n : m[i] \in Marks(text, c, {Comma})
      BY <1>6, <3>1
    <3> QED BY <2>1, <3>2
  <2>3. v \in [0..n -> Marks(text, c, {"[", ")"})]
    <3>1. ASSUME NEW i \in 0..n PROVE v[i] \in Marks(text, c, {"[", ")"})
      <4>1. v[i] \in Spots
        BY <2>1
      <4>2. CharAt(v[i]) \in {"[", ")"}
        <5>1. CASE i = 0
          BY <1>3, <2>1, <5>1 DEF PairsSpelt
        <5>2. CASE i \in 1..n
          BY <1>2, <1>7, <2>1, <5>2 DEF PairsSpelt
        <5> QED BY <1>2, <5>1, <5>2
      <4> QED BY <1>6, <4>1, <4>2
    <3> QED BY <2>1, <3>1
  <2>4. v[n] = pos - 2 /\ v[n] + 1 = pos - 1 /\ v[n] + 3 = pos + 1
    <3>1. v[n] = pos - 2
      BY <1>2, <1>7, <2>1 DEF PairsSpelt
    <3> QED BY <1>2, <3>1
  <2>5. PairsAt(text, c, m, v)
    BY <1>1, <1>2, <1>3, <1>4, <1>7, <2>1, <2>4 DEF PairsAt, PairsSpelt, CharAt
  <2>6. PairsWritten(text, c)
    BY <1>1, <2>2, <2>3, <2>5 DEF PairsWritten
  <2> QED BY <1>1, <1>2, <1>3, <1>4, <1>7, <2>6 DEF Written, Char, CharAt
<1>8. CASE op # "write"
  <2>1. PICK m \in [0..n -> Spots] : ListSpelt(m)
    BY <1>8 DEF TextInv, SpeltInv, Held
  <2>2. m \in [0..n -> Marks(text, c, {"[", Comma, "]"})]
    <3>1. ASSUME NEW i \in 0..n PROVE m[i] \in Marks(text, c, {"[", Comma, "]"})
      <4>1. m[i] \in Spots
        BY <2>1
      <4>2. CharAt(m[i]) \in {"[", Comma, "]"}
        <5>1. CASE i = 0
          BY <1>3, <2>1, <5>1 DEF ListSpelt
        <5>2. CASE i \in 1..n
          BY <2>1, <5>2 DEF ListSpelt
        <5> QED BY <1>2, <5>1, <5>2
      <4> QED BY <1>6, <4>1, <4>2
    <3> QED BY <2>1, <3>1
  <2>3. m[n] = pos - 1 /\ m[n] + 2 = pos + 1
    <3>1. m[n] = pos - 1
      BY <2>1 DEF ListSpelt
    <3> QED BY <1>2, <3>1
  <2>4. ASSUME NEW i \in 1..n PROVE CharAt(m[i]) = IF i < n THEN Comma ELSE "]"
    <3>1. CASE i < n
      BY <2>1, <3>1 DEF ListSpelt
    <3>2. CASE i = n
      BY <1>2, <1>3, <2>3, <3>2
    <3> QED BY <1>2, <3>1, <3>2
  <2>5. ListAt(text, c, m)
    BY <1>1, <1>4, <2>1, <2>3, <2>4 DEF ListAt, ListSpelt, CharAt
  <2>6. ListWritten(text, c)
    BY <1>1, <2>2, <2>5 DEF ListWritten
  <2> QED BY <1>1, <1>2, <1>3, <1>4, <1>8, <2>6 DEF Written, Char, CharAt
<1> QED BY <1>7, <1>8

LEMMA EndOfLineText == IInv /\ TextInv /\ EndOfLine => TextInv'
<1> SUFFICES ASSUME IInv, TextInv, EndOfLine PROVE TextInv'
  OBVIOUS
<1>1. CASE Char = "\n" /\ Accept(pos + 1)
  BY <1>1, CommandWritten, AcceptedText DEF EndOfLine
<1>2. CASE Reject(Ahead(1))
  BY <1>2, RejectedText
<1> QED BY <1>1, <1>2 DEF EndOfLine

LEMMA InitText == Init => TextInv
BY DEF Init, TextInv, WordInv, SpeltInv, LastInv, WrittenInv, Handed, Held

LEMMA StepText == IInv /\ TextInv /\ [Next]_vars => TextInv'
<1> SUFFICES ASSUME IInv, TextInv, [Next]_vars PROVE TextInv'
  OBVIOUS
<1>1. CASE Next
  BY <1>1, GetNextWordText, GetNextEmptyText, GetNextInvalidText, GetNextEOCText,
     BareText, OpenListText, OpenPairText, PairKeyText, PairValueText, AfterPairText,
     ListKeyText, FullText, EndOfLineText, NumberText, OverrunText DEF Next
<1>2. CASE UNCHANGED vars
  <2>1. UNCHANGED <<input, pos, at, op, keys, values, from, accepted>>
    BY <1>2 DEF vars
  <2>2. WrittenInv'
    BY <2>1, WrittenStays DEF TextInv
  <2>3. WordInv'
    BY <2>1, SameText DEF TextInv, WordInv, Opened, CharAt
  <2>4. LastInv'
    BY <2>1, SameText DEF TextInv, LastInv, CharAt
  <2>5. /\ \A m, v : PairsSpelt(m, v)' <=> PairsSpelt(m, v)
        /\ \A m : ListSpelt(m)' <=> ListSpelt(m)
        /\ Spots' = Spots
    BY <2>1, SameText DEF PairsSpelt, ListSpelt, Spots, Opened
  <2>6. SpeltInv'
    BY <2>1, <2>5 DEF TextInv, SpeltInv
  <2> QED BY <2>2, <2>3, <2>4, <2>6 DEF TextInv
<1> QED BY <1>1, <1>2

\* Whatever the text, a command with a list is handed over as it is written, key
\* by key, and from a part of the text of its own.
THEOREM AcceptedWritten == Spec => []AcceptedIsText
<1>1. Init => IInv /\ TextInv
  BY InitInv, InitText
<1>2. IInv /\ TextInv /\ [Next]_vars => (IInv /\ TextInv)'
  BY StepInv, StepText
<1>3. IInv /\ TextInv => AcceptedIsText
  <2> SUFFICES ASSUME IInv, TextInv PROVE AcceptedIsText
    OBVIOUS
  <2>1. CommandsApart
    BY DEF IInv, TakenInv
  <2>2. \A i \in 1..Len(accepted) : accepted[i] \in Handed
    BY DEF Handed
  <2> QED BY <2>1, <2>2 DEF TextInv, WrittenInv, AcceptedIsText
<1> QED BY <1>1, <1>2, <1>3, PTL DEF Spec

-----------------------------------------------------------------------------
(* Reading what has been written by the rules                              *)

\* How much of the command c has been read.
ReadOf(c) ==
    /\ Len(keys) <= Len(c.keys)
    /\ \A i \in 1..Len(keys) : keys[i] = c.keys[i]
    /\ \A i \in 1..Len(values) : values[i] = c.values[i]
    /\ at = "key" => Len(keys) < Len(c.keys)
    /\ at \in {"full", "eol"} => Len(keys) = Len(c.keys)

\* The parser is at the place of the text that comes next in the command c.
ListPlace(c, m) == ListAt(text, c, m) /\ pos = m[Len(keys)] + 1
PairPlace(c, m, v) ==
    /\ PairsAt(text, c, m, v)
    /\ at \in {"pair", "after"} => pos = v[Len(values)] + 1
    /\ at \in {"key", "full", "eol"} => pos = v[Len(values)] + 2
    /\ at = "value" => pos = m[Len(keys)] + 1
Placed(c) ==
    IF op = "write"
    THEN \E m \in [1..Len(c.keys) -> Marks(text, c, {Comma})],
            v \in [0..Len(c.keys) -> Marks(text, c, {"[", ")"})] : PairPlace(c, m, v)
    ELSE \E m \in [0..Len(c.keys) -> Marks(text, c, {"[", Comma, "]"})] : ListPlace(c, m)

InPlace(c, w) ==
    IF at \in {"bare", "number", "list"}
    THEN at = w.place /\ pos = Bracket(c) /\ keys = <<>> /\ values = <<>>
    ELSE /\ w.place = "list" /\ ReadOf(c) /\ Placed(c)
         /\ op # "write" => values = <<>>

\* The command that the file i has in the line from s to e.
InLine(i, n, s, e) ==
    LET c == i.file[n[e]]
    IN  [op |-> c.op, keys |-> c.keys, values |-> c.values, from |-> s, to |-> e]

\* Commands of the file are read from a on, where the lines of n begin: k commands
\* before that, of which the first d count for nothing.
Reading(g) ==
    /\ g.a \in Starts(text) /\ Counts(input, g.a, g.n)
    /\ g.k \in Int /\ g.d \in Nat

\* Where a line is read.
OnLine(g, e, w) ==
    /\ from \in LinesFrom(text, g.a) /\ Follows(text, from, e)
    /\ LineOf(input, g.n, from, e, w)
    /\ Len(accepted) = g.k + g.n[from] /\ op = w.op
    /\ \E c \in {InLine(input, g.n, from, e)} : InPlace(c, w)

\* What has been read since is what the file has there.
FileSoFar(g) ==
    \A i \in 1..Len(accepted) : i > g.k + g.d => Command(accepted[i]) = input.file[i - g.k]

ReadInv(g) ==
    /\ FileSoFar(g)
    /\ at = "next" => pos \in LinesFrom(text, g.a) /\ Len(accepted) = g.k + g.n[pos]
    /\ at # "stopped"
    /\ at = "end" => Len(accepted) = g.k + Len(input.file)
    /\ at \in Inside => \E e \in LinesFrom(text, g.a), w \in Words : OnLine(g, e, w)

\* The commands of a file.
LEMMA FileForms ==
    ASSUME input \in Inputs
    PROVE  /\ Len(input.file) \in Nat
           /\ input.file = [i \in 1..Len(input.file) |-> input.file[i]]
           /\ \A i \in 1..Len(input.file) :
                /\ input.file[i].keys \in Seq(STRING) /\ input.file[i].values \in Seq(STRING)
                /\ input.file[i] = [op |-> input.file[i].op, keys |-> input.file[i].keys,
                                    values |-> input.file[i].values]
<1> DEFINE Recs == [op : STRING, keys : Seq(STRING), values : Seq(STRING)]
<1>1. input.file \in Seq(Recs)
  BY InputsAssumption
<1>2. \A r \in Recs : /\ r.keys \in Seq(STRING) /\ r.values \in Seq(STRING)
                      /\ r = [op |-> r.op, keys |-> r.keys, values |-> r.values]
  OBVIOUS
<1> HIDE DEF Recs
<1>3. /\ Len(input.file) \in Nat /\ \A i \in 1..Len(input.file) : input.file[i] \in Recs
      /\ input.file = [i \in 1..Len(input.file) |-> input.file[i]]
  BY <1>1
<1> QED BY <1>2, <1>3

\* Where lines start.
LEMMA StartsType ==
    ASSUME input \in Inputs
    PROVE  /\ Starts(text) \subseteq 1..TextEnd /\ 1 \in Starts(text) /\ TextEnd \in Starts(text)
           /\ \A p \in Starts(text) : p = 1 \/ Landed(p)
           /\ \A p \in 1..Len(text) : CharAt(p) = "\n" => p + 1 \in Starts(text)
<1>1. Len(text) \in Nat
  BY LengthType
<1>2. ASSUME NEW p \in Starts(text) PROVE p \in 1..TextEnd /\ (p = 1 \/ Landed(p))
  <2>1. CASE p \in {1, TextEnd}
    BY <1>1, <2>1 DEF TextEnd, Landed
  <2>2. ASSUME NEW k \in 1..Len(text), At(text, k) = "\n", p = k + 1
        PROVE  p \in 1..TextEnd /\ Landed(p)
    <3>1. p - 1 = k /\ p \in 1..TextEnd
      BY <1>1, <2>2 DEF TextEnd
    <3> QED BY <2>2, <3>1 DEF Landed, CharAt
  <2> QED BY <2>1, <2>2 DEF Starts, TextEnd
<1> QED BY <1>1, <1>2 DEF Starts, TextEnd, CharAt

\* Behind the start of a line there is the start of another.
LEMMA NextStart ==
    ASSUME input \in Inputs, NEW s \in Starts(text), s <= Len(text)
    PROVE  \E e \in Starts(text) : Follows(text, s, e)
<1> DEFINE Later == {p \in Starts(text) : s < p}
<1>1. Later \subseteq Nat /\ TextEnd \in Later /\ Starts(text) \subseteq Nat
  BY LengthType, StartsType DEF TextEnd
<1>2. PICK e \in Later : \A p \in Later : e <= p
  <2> HIDE DEF Later
  <2> QED BY <1>1, LeastElement
<1>3. \A p \in Starts(text) : p <= s \/ e <= p
  BY <1>1, <1>2
<1> QED BY <1>2, <1>3 DEF Follows

\* cleanup stops where the next line starts.
LEMMA LineCleared ==
    ASSUME input \in Inputs, NEW s \in Starts(text), NEW e \in Starts(text),
           Follows(text, s, e), NEW p \in Nat, s < p, p <= e, CharAt(p - 1) # "\n"
    PROVE  Cleanup(p) = e
<1>1. /\ Len(text) \in Nat /\ s \in Nat /\ s >= 1 /\ e \in Nat /\ p \in 1..TextEnd
      /\ e <= TextEnd
  BY LengthType, StartsType DEF TextEnd
<1>2. e = TextEnd \/ (e - 1 \in p..Len(text) /\ CharAt(e - 1) = "\n")
  <2>1. e = 1 \/ Landed(e)
    BY StartsType
  <2>2. CASE e # TextEnd
    <3>1. CharAt(e - 1) = "\n"
      BY <1>1, <2>1, <2>2 DEF Landed
    <3>2. e # p
      BY <3>1
    <3> QED BY <1>1, <2>2, <3>1, <3>2 DEF TextEnd
  <2> QED BY <2>2
<1>3. CASE NewlinesFrom(p) = {}
  <2>1. e = TextEnd
    BY <1>2, <1>3 DEF NewlinesFrom
  <2> QED BY <1>3, <2>1 DEF Cleanup, TextEnd
<1>4. CASE NewlinesFrom(p) # {}
  <2> DEFINE first == CHOOSE i \in NewlinesFrom(p) : \A k \in NewlinesFrom(p) : i <= k
  <2>1. NewlinesFrom(p) \subseteq Nat
    BY <1>1 DEF NewlinesFrom, TextEnd
  <2>2. first \in NewlinesFrom(p) /\ \A k \in NewlinesFrom(p) : first <= k
    BY <1>4, <2>1, LeastElement
  <2>3. Cleanup(p) = 1 + first
    BY <1>4 DEF Cleanup
  <2> HIDE DEF first
  <2>4. first \in p..Len(text) /\ CharAt(first) = "\n"
    BY <2>2 DEF NewlinesFrom
  <2>5. first \in Nat /\ first >= p /\ first <= Len(text) /\ first \in 1..Len(text)
    BY <1>1, <2>4 DEF TextEnd
  <2>6. first + 1 \in Starts(text)
    BY <2>4, <2>5, StartsType
  <2>7. e <= first + 1
    BY <1>1, <2>5, <2>6 DEF Follows
  <2>8. CASE e = TextEnd
    BY <1>1, <2>3, <2>5, <2>7, <2>8 DEF TextEnd
  <2>9. CASE e - 1 \in p..Len(text) /\ CharAt(e - 1) = "\n"
    <3>1. first <= e - 1
      BY <2>2, <2>9 DEF NewlinesFrom
    <3> QED BY <1>1, <2>3, <2>5, <2>7, <3>1
  <2> QED BY <1>2, <2>8, <2>9
<1> QED BY <1>3, <1>4

\* Lines start where lines start.
LEMMA LinesType ==
    ASSUME input \in Inputs, NEW a \in Starts(text)
    PROVE  /\ LinesFrom(text, a) \subseteq Starts(text) /\ LinesFrom(text, a) \subseteq Nat \ {0}
           /\ a \in LinesFrom(text, a) /\ TextEnd \in LinesFrom(text, a)
           /\ \A s \in LinesFrom(text, a), e \in Starts(text) :
                s < e => e \in LinesFrom(text, a)
<1>1. /\ Starts(text) \subseteq Nat \ {0} /\ TextEnd \in Starts(text) /\ a <= TextEnd
      /\ a \in Nat
  BY LengthType, StartsType DEF TextEnd
<1> QED BY <1>1 DEF LinesFrom

\* The commands of a file are counted line by line.
LEMMA ReadingType ==
    ASSUME input \in Inputs, NEW g, Reading(g)
    PROVE  /\ \A p \in LinesFrom(text, g.a) : g.n[p] \in Nat /\ g.n[p] <= Len(input.file)
           /\ g.n[g.a] = 0 /\ g.n[TextEnd] = Len(input.file)
           /\ g.a \in Starts(text) /\ g.k \in Int /\ g.d \in Nat
           /\ \A s, e \in LinesFrom(text, g.a) : Follows(text, s, e) =>
                IF CharAt(s) \in {"#", "\n"} THEN g.n[e] = g.n[s]
                ELSE \E w \in Words : LineOf(input, g.n, s, e, w)
<1>1. g.n \in [LinesFrom(text, g.a) -> 0..Len(input.file)] /\ Counts(input, g.a, g.n)
  BY DEF Reading, Counts, text
<1>2. Len(input.file) \in Nat
  BY FileForms
<1> QED BY <1>1, <1>2 DEF Reading, Counts, NoCommandAt, text, Words, side, TextEnd, CharAt

LEMMA ReadingLines ==
    ASSUME input \in Inputs, NEW g, Reading(g), NEW e \in LinesFrom(text, g.a)
    PROVE  e \in Starts(text) /\ e \in Nat \ {0} /\ e <= TextEnd
<1>1. e \in Starts(text) /\ e \in Nat \ {0}
  BY ReadingType, LinesType
<1> QED BY <1>1, LengthType, StartsType DEF TextEnd

\* What is known of a command while its line is read.
LEMMA LineForms ==
    ASSUME IInv, NEW g, Reading(g), NEW e \in LinesFrom(text, g.a), NEW w \in Words,
           OnLine(g, e, w), NEW c, c = InLine(input, g.n, from, e)
    PROVE  /\ c.op = op /\ w.op = op /\ c.from = from /\ c.to = e
           /\ c.keys \in Seq(STRING) /\ c.values \in Seq(STRING)
           /\ ByTheRules(side, text, c, w) /\ InPlace(c, w)
           /\ g.n[e] = Len(accepted) - g.k + 1 /\ g.n[e] \in 1..Len(input.file)
           /\ Command(c) = input.file[g.n[e]]
           /\ op = "disconnect" => g.n[e] = Len(input.file)
           /\ from \in LinesFrom(text, g.a) /\ Follows(text, from, e)
<1>1. /\ from \in LinesFrom(text, g.a) /\ Follows(text, from, e) /\ LineOf(input, g.n, from, e, w)
      /\ Len(accepted) = g.k + g.n[from] /\ op = w.op /\ InPlace(c, w)
  BY DEF OnLine
<1>2. /\ g.n[from] \in Nat /\ g.n[e] \in Nat /\ g.n[e] <= Len(input.file) /\ Len(input.file) \in Nat
  BY <1>1, ReadingType, FileForms, Position
<1>3. g.n[e] = g.n[from] + 1 /\ (w.op = "disconnect" => g.n[e] = Len(input.file))
  BY <1>1 DEF LineOf
<1>4. g.n[e] \in 1..Len(input.file)
  BY <1>2, <1>3
<1>5. /\ c.op = input.file[g.n[e]].op /\ c.keys = input.file[g.n[e]].keys
      /\ c.values = input.file[g.n[e]].values /\ c.from = from /\ c.to = e
  BY DEF InLine
<1>6. Command(c) = input.file[g.n[e]] /\ c.keys \in Seq(STRING) /\ c.values \in Seq(STRING)
  BY <1>4, <1>5, FileForms, Position, SMTT(30) DEF Command
<1>7. ByTheRules(side, text, c, w)
  BY <1>1 DEF LineOf, InLine, side, text
<1>8. c.op = w.op
  BY <1>7 DEF ByTheRules
<1>9. g.n[e] = Len(accepted) - g.k + 1
  <2>1. g.k \in Int
    BY ReadingType, Position
  <2> QED BY <1>1, <1>2, <1>3, <2>1
<1> QED BY <1>1, <1>3, <1>4, <1>5, <1>6, <1>7, <1>8, <1>9

\* The parser goes on with the command of the line.
LEMMA Going ==
    ASSUME IInv, NEW g, Reading(g), ReadInv(g), at' \in Inside,
           UNCHANGED <<input, op, from, accepted>>,
           NEW e \in LinesFrom(text, g.a), NEW w \in Words, OnLine(g, e, w),
           NEW c, c = InLine(input, g.n, from, e), InPlace(c, w)'
    PROVE  ReadInv(g)'
<1>1. text' = text /\ Words' = Words /\ FileSoFar(g)'
  BY SameText DEF ReadInv, FileSoFar, Words, side
<1>2. c = InLine(input', g.n, from', e)
  OBVIOUS
<1>3. OnLine(g, e, w)'
  BY <1>1, <1>2 DEF OnLine
<1> QED BY <1>1, <1>3 DEF ReadInv, Inside

\* The command of the line is accepted.
LEMMA AcceptedRule ==
    ASSUME IInv, NEW g, Reading(g), ReadInv(g),
           NEW e \in LinesFrom(text, g.a), NEW w \in Words, OnLine(g, e, w),
           NEW c, c = InLine(input, g.n, from, e), keys = c.keys, values = c.values,
           Accept(e)
    PROVE  ReadInv(g)'
<1> DEFINE k == Len(accepted)
<1>1. PICK d : d = [op |-> op, keys |-> keys, values |-> values, from |-> from, to |-> e]
  OBVIOUS
<1>2. /\ accepted' = Append(accepted, d) /\ pos' = e /\ UNCHANGED input
      /\ at' = IF op = "disconnect" THEN "end" ELSE "next"
      /\ accepted \in Seq(Taken)
  BY <1>1 DEF Accept, Goto, IInv, TakenInv
<1>3. /\ k \in Nat /\ Len(accepted') = k + 1 /\ accepted'[k + 1] = d
      /\ \A i \in 1..k : accepted'[i] = accepted[i]
  BY <1>2
<1>4. /\ c.op = op /\ g.n[e] = k - g.k + 1 /\ g.n[e] \in 1..Len(input.file)
      /\ Command(c) = input.file[g.n[e]]
      /\ op = "disconnect" => g.n[e] = Len(input.file)
  BY LineForms
<1>5. Command(d) = input.file[k + 1 - g.k] /\ k + 1 = g.k + g.n[e]
  <2>1. g.k \in Int /\ k - g.k + 1 = k + 1 - g.k /\ k + 1 = g.k + (k - g.k + 1)
    BY <1>3, ReadingType, Position
  <2> QED BY <1>1, <1>4, <2>1 DEF Command
<1>6. FileSoFar(g)'
  <2>1. ASSUME NEW i \in 1..(k + 1), i > g.k + g.d
        PROVE  Command(accepted'[i]) = input.file[i - g.k]
    <3>1. CASE i = k + 1
      <4>1. accepted'[i] = d /\ i = k + 1
        BY <1>3, <3>1
      <4>2. PICK b : b = k + 1 - g.k
        OBVIOUS
      <4>3. i - g.k = b
        <5>1. PICK z \in Int : z = g.k
          BY ReadingType, Position
        <5>2. PICK y \in Nat : y = k
          BY <1>3
        <5> QED BY <4>1, <4>2, <5>1, <5>2
      <4>4. Command(d) = input.file[b]
        BY <1>5, <4>2
      <4> QED BY <4>1, <4>3, <4>4
    <3>2. CASE i \in 1..k
      BY <1>3, <2>1, <3>2 DEF ReadInv, FileSoFar
    <3> QED BY <1>3, <3>1, <3>2
  <2> QED BY <1>2, <1>3, <2>1 DEF FileSoFar, Command
<1>7. text' = text
  BY <1>2, SameText
<1>8. at' \notin Inside
  BY <1>2 DEF Inside
<1>9. at' = "end" => Len(accepted') = g.k + Len(input'.file)
  BY <1>2, <1>3, <1>4, <1>5
<1> QED BY <1>2, <1>3, <1>5, <1>6, <1>7, <1>8, <1>9 DEF ReadInv

-----------------------------------------------------------------------------
(* The steps through what has been written by the rules                    *)

\* What a keyword that is found looks like.
LEMMA WordFound ==
    ASSUME input \in Inputs, NEW p \in 1..Len(text), NEW v \in Words, FoundIn(text, p, v.op),
           NEW z, z = p + Len(Keyword[v.op]) - 1
    PROVE  /\ p <= z /\ z <= p + 11 /\ z <= Len(text) /\ CharAt(p) \notin {"#", "\n"}
           /\ \A k \in p..z : CharAt(k) # "\n"
           /\ \A w \in Words : FoundIn(text, p, w.op) => v = w
           /\ v.place # "bare" => /\ CharAt(z) = " "
                                  /\ \A k \in p..(z - 1) : CharAt(k) \notin Delims
<1>1. Len(Keyword[v.op]) \in 1..12 /\ Len(text) \in Nat
  BY LengthType, WordLength
<1>2. p <= z /\ z <= p + 11 /\ p \in p..z
  <2>1. PICK n \in 1..12 : n = Len(Keyword[v.op])
    BY <1>1
  <2>2. z = p + n - 1 /\ p \in Nat
    BY <1>1, <2>1
  <2> QED BY <2>2
<1>3. z <= Len(text)
  BY DEF FoundIn
<1>4. p \in 1..Len(input.text) /\ v \in WordsOf(input.side) /\ FoundIn(input.text, p, v.op)
  BY DEF Words, side, text
<1>5. /\ At(text, p) # "#" /\ \A k \in p..z : At(text, k) # "\n"
      /\ \A w \in Words : FoundIn(text, p, w.op) => v = w
      /\ v.place # "bare" => /\ At(text, z) = " "
                             /\ \A k \in p..(z - 1) : At(text, k) \notin Delims
  BY <1>4, KeywordsAssumption DEF Words, side, text
<1> QED BY <1>2, <1>3, <1>5 DEF CharAt

\* At the start of a line the parser finds what is written there.
LEMMA AtStart ==
    ASSUME IInv, NEW g, Reading(g), ReadInv(g), at = "next", Char # EOF
    PROVE  /\ pos \in LinesFrom(text, g.a) /\ Len(accepted) = g.k + g.n[pos]
           /\ \E e \in LinesFrom(text, g.a) :
                /\ Follows(text, pos, e)
                /\ IF Char \in {"#", "\n"} THEN g.n[e] = g.n[pos] /\ ~\E v \in Words : Found(v)
                   ELSE \E w \in Words : /\ LineOf(input, g.n, pos, e, w)
                                         /\ \A v \in Words : Found(v) <=> v = w
<1>1. /\ input \in Inputs /\ pos \in Nat /\ pos \in 1..Len(text) /\ pos <= Len(text)
      /\ pos \in LinesFrom(text, g.a) /\ Len(accepted) = g.k + g.n[pos]
      /\ g.a \in Starts(text)
  BY Position, ReadingType DEF ReadInv, TextEnd
<1>2. PICK e \in LinesFrom(text, g.a) : Follows(text, pos, e)
  <2>1. pos \in Starts(text)
    BY <1>1, LinesType
  <2>2. PICK e \in Starts(text) : Follows(text, pos, e)
    BY <1>1, <2>1, NextStart
  <2> QED BY <1>1, <2>2, LinesType DEF Follows
<1>3. ASSUME NEW v \in Words, Found(v)
      PROVE  Char \notin {"#", "\n"} /\ \A w \in Words : Found(w) => v = w
  <2>1. PICK z : z = pos + Len(Keyword[v.op]) - 1
    OBVIOUS
  <2> QED BY <1>1, <1>3, <2>1, WordFound DEF Found, Char
<1>4. ASSUME NEW w \in Words, LineOf(input, g.n, pos, e, w) PROVE Found(w)
  <2>1. ByTheRules(side, text, InLine(input, g.n, pos, e), w)
    BY <1>4 DEF LineOf, InLine, side, text
  <2> QED BY <2>1 DEF ByTheRules, InLine, Found
<1>5. IF Char \in {"#", "\n"} THEN g.n[e] = g.n[pos]
      ELSE \E w \in Words : LineOf(input, g.n, pos, e, w)
  BY <1>1, <1>2, ReadingType DEF Char
<1> QED BY <1>1, <1>2, <1>3, <1>4, <1>5

LEMMA GetNextWordRule ==
    ASSUME IInv, NEW g, Reading(g), ReadInv(g), GetNextWord
    PROVE  ReadInv(g)'
<1>1. PICK v \in Words : /\ Found(v) /\ op' = v.op /\ pos' = pos + Len(Keyword[v.op])
                         /\ at' = v.place
  BY DEF GetNextWord, Goto
<1>2. /\ at = "next" /\ from' = pos /\ keys' = <<>> /\ values' = <<>>
      /\ UNCHANGED <<input, accepted>>
  BY DEF GetNextWord
<1>3. Len(Keyword[v.op]) \in 1..12 /\ v.place \in {"number", "list", "bare"}
  BY <1>1, Position, WordLength, WordForms DEF Words
<1>4. Char # EOF
  <2>1. pos + Len(Keyword[v.op]) - 1 <= Len(text)
    BY <1>1 DEF Found, FoundIn
  <2>2. PICK k \in 1..12 : k = Len(Keyword[v.op])
    BY <1>3
  <2>3. pos + k - 1 <= Len(text)
    BY <2>1, <2>2
  <2>4. pos <= Len(text)
    BY <2>3, Position
  <2> QED BY <2>4, Position DEF TextEnd
<1>5. PICK e \in LinesFrom(text, g.a) : Follows(text, pos, e) /\ LineOf(input, g.n, pos, e, v)
  BY <1>1, <1>2, <1>4, AtStart
<1>6. pos \in LinesFrom(text, g.a) /\ Len(accepted) = g.k + g.n[pos]
  BY <1>2, <1>4, AtStart
<1>7. PICK c : c = InLine(input, g.n, pos, e)
  OBVIOUS
<1>8. c = InLine(input', g.n, from', e)
  BY <1>2, <1>7
<1>9. text' = text /\ Words' = Words /\ FileSoFar(g)'
  BY <1>2, SameText DEF ReadInv, FileSoFar, Words, side
<1>10. c.from = pos /\ c.op = v.op
  BY <1>5, <1>7 DEF InLine, LineOf, ByTheRules
<1>11. InPlace(c, v)'
  BY <1>1, <1>2, <1>3, <1>10 DEF InPlace, Bracket
<1>12. OnLine(g, e, v)'
  BY <1>1, <1>2, <1>5, <1>6, <1>8, <1>9, <1>11 DEF OnLine
<1>13. at' # "next" /\ at' # "end" /\ at' # "stopped"
  BY <1>1, <1>3
<1> QED BY <1>9, <1>12, <1>13 DEF ReadInv

LEMMA GetNextEmptyRule ==
    ASSUME IInv, NEW g, Reading(g), ReadInv(g), GetNextEmpty
    PROVE  ReadInv(g)'
<1>1. /\ at = "next" /\ Char \in {"#", "\n"} /\ at' = "next"
      /\ pos' = (IF Char = "#" THEN Cleanup(pos + 1) ELSE pos + 1)
      /\ UNCHANGED <<input, accepted>>
  BY DEF GetNextEmpty, Expect, Goto
<1>2. Char # EOF
  BY <1>1 DEF EOF
<1>3. /\ pos \in LinesFrom(text, g.a) /\ Len(accepted) = g.k + g.n[pos]
      /\ \E e \in LinesFrom(text, g.a) : Follows(text, pos, e) /\ g.n[e] = g.n[pos]
  BY <1>1, <1>2, AtStart
<1>4. PICK e \in LinesFrom(text, g.a) : Follows(text, pos, e) /\ g.n[e] = g.n[pos]
  BY <1>3
<1>5. /\ pos \in Nat /\ pos <= Len(text) /\ pos \in 1..Len(text) /\ Len(text) \in Nat
      /\ pos + 1 \in Nat /\ pos < pos + 1 /\ pos + 1 - 1 = pos /\ input \in Inputs
  BY <1>2, Position DEF TextEnd
<1>6. e \in Nat /\ pos < e /\ pos + 1 <= e
  <2>1. e \in Nat /\ pos < e
    BY <1>4, <1>5, ReadingLines DEF Follows
  <2> QED BY <1>5, <2>1
<1>7. pos' = e
  <2>1. CASE Char = "#"
    <3>1. PICK p \in Nat : p = pos + 1
      BY <1>5
    <3>2. CharAt(p - 1) # "\n"
      <4>1. p - 1 = pos
        BY <1>5, <3>1
      <4>2. CharAt(p - 1) = Char
        BY <4>1 DEF Char
      <4> QED BY <2>1, <4>2
    <3>3. Cleanup(p) = e
      <4>1. pos \in Starts(text) /\ e \in Starts(text)
        BY <1>3, <1>4, <1>5, ReadingLines
      <4> QED BY <1>4, <1>5, <1>6, <3>1, <3>2, <4>1, LineCleared
    <3> QED BY <1>1, <2>1, <3>1, <3>3
  <2>2. CASE Char = "\n"
    <3>1. pos + 1 \in Starts(text)
      BY <1>5, <2>2, StartsType DEF Char
    <3>2. e <= pos + 1
      BY <1>4, <1>5, <3>1 DEF Follows
    <3> QED BY <1>1, <1>5, <1>6, <2>2, <3>2
  <2> QED BY <1>1, <2>1, <2>2
<1>8. text' = text /\ FileSoFar(g)'
  BY <1>1, SameText DEF ReadInv, FileSoFar
<1> QED BY <1>1, <1>3, <1>4, <1>7, <1>8 DEF ReadInv, Inside

LEMMA GetNextInvalidRule ==
    ASSUME IInv, NEW g, Reading(g), ReadInv(g), GetNextInvalid
    PROVE  FALSE
<1>1. at = "next" /\ Char \notin {"#", "\n", EOF} /\ ~\E w \in Words : Found(w)
  BY DEF GetNextInvalid
<1> QED BY <1>1, AtStart

LEMMA GetNextEOCRule ==
    ASSUME IInv, NEW g, Reading(g), ReadInv(g), GetNextEOC
    PROVE  ReadInv(g)'
<1>1. /\ at = "next" /\ Char = EOF /\ at' = "end" /\ UNCHANGED <<input, accepted>>
  BY DEF GetNextEOC, Expect, Goto
<1>2. pos = TextEnd /\ Len(accepted) = g.k + g.n[pos]
  BY <1>1, Position DEF ReadInv
<1>3. Len(accepted) = g.k + Len(input.file)
  BY <1>2, ReadingType, Position
<1>4. FileSoFar(g)'
  BY <1>1 DEF ReadInv, FileSoFar
<1> QED BY <1>1, <1>3, <1>4 DEF ReadInv, Inside

\* The line of a command without a list.
LEMMA AloneLine ==
    ASSUME IInv, NEW g, Reading(g), ReadInv(g), at \in {"bare", "number", "list"}
    PROVE  \E e \in LinesFrom(text, g.a), w \in Words :
              /\ OnLine(g, e, w) /\ at = w.place
              /\ \A c : c = InLine(input, g.n, from, e) =>
                    pos = Bracket(c) /\ keys = <<>> /\ values = <<>>
<1>1. PICK e \in LinesFrom(text, g.a), w \in Words : OnLine(g, e, w)
  BY DEF ReadInv, Inside, Places
<1>2. PICK c : c = InLine(input, g.n, from, e)
  OBVIOUS
<1>3. InPlace(c, w)
  BY <1>1, <1>2, LineForms
<1> QED
  <2>1. at = w.place /\ pos = Bracket(c) /\ keys = <<>> /\ values = <<>>
    BY <1>3 DEF InPlace
  <2> QED BY <1>1, <1>2, <2>1

LEMMA BareRule ==
    ASSUME IInv, NEW g, Reading(g), ReadInv(g), Bare
    PROVE  ReadInv(g)'
<1>1. at = "bare"
  BY DEF Bare
<1>2. PICK e \in LinesFrom(text, g.a), w \in Words :
         /\ OnLine(g, e, w) /\ at = w.place
         /\ \A c : c = InLine(input, g.n, from, e) =>
               pos = Bracket(c) /\ keys = <<>> /\ values = <<>>
  BY <1>1, AloneLine
<1>3. PICK c : c = InLine(input, g.n, from, e)
  OBVIOUS
<1>4. ByTheRules(side, text, c, w) /\ c.to = e /\ pos = Bracket(c)
  BY <1>2, <1>3, LineForms
<1>5. keys = c.keys /\ values = c.values /\ Alone(text, c)
  BY <1>1, <1>2, <1>3, <1>4 DEF ByTheRules
<1>6. Char \in {"\n", EOF} /\ Ahead(1) = e
  <2>1. CASE At(text, pos) = "\n" /\ e = pos + 1
    <3>1. Char = "\n" /\ Char # EOF
      BY <2>1 DEF Char, CharAt, EOF
    <3> QED BY <2>1, <3>1, Position
  <2>2. CASE pos = TextEnd /\ e = pos
    <3>1. Char = EOF
      BY <2>2, Position, EndIsBehind DEF Char, TextEnd
    <3> QED BY <2>2, <3>1, Position
  <2> QED BY <1>4, <1>5, <2>1, <2>2 DEF Alone, TextEnd
<1>7. Accept(e)
  BY <1>6 DEF Bare
<1> QED BY <1>2, <1>3, <1>5, <1>7, AcceptedRule

LEMMA NumberRule ==
    ASSUME IInv, NEW g, Reading(g), ReadInv(g), Number
    PROVE  ReadInv(g)'
<1>1. at = "number"
  BY DEF Number
<1>2. PICK e \in LinesFrom(text, g.a), w \in Words :
         /\ OnLine(g, e, w) /\ at = w.place
         /\ \A c : c = InLine(input, g.n, from, e) =>
               pos = Bracket(c) /\ keys = <<>> /\ values = <<>>
  BY <1>1, AloneLine
<1>3. PICK c : c = InLine(input, g.n, from, e)
  OBVIOUS
<1>4. /\ ByTheRules(side, text, c, w) /\ c.to = e /\ pos = Bracket(c)
      /\ from \in LinesFrom(text, g.a) /\ Follows(text, from, e)
  BY <1>2, <1>3, LineForms
<1>5. keys = c.keys /\ values = c.values /\ Numbered(side, text, c)
  BY <1>1, <1>2, <1>3, <1>4 DEF ByTheRules
<1>6. PICK q \in pos..(e - 1) :
         /\ q - pos < NumberBuffer /\ Value(text, pos, q) <= MaxUint
         /\ \A p \in pos..(q - 1) : CharAt(p) \in Digits
         /\ \/ CharAt(q) = "\n" /\ e = q + 1
            \/ CharAt(q) = " " /\ side = "server"
  BY <1>4, <1>5 DEF Numbered, CharAt
<1>7. q \in pos..(e - 1) /\ \A p \in pos..(q - 1) : CharAt(p) \in Digits
  BY <1>6
<1>8. /\ pos \in Nat \ {0} /\ e \in Nat /\ e <= TextEnd /\ q \in Nat /\ pos <= q
      /\ q + 1 <= e /\ Len(text) \in Nat /\ input \in Inputs /\ from \in Nat /\ from <= pos
  <2>1. e \in Nat \ {0} /\ e <= TextEnd
    BY Position, ReadingLines
  <2> QED BY <1>7, <2>1, Position
<1>9. CharAt(q) \notin Digits /\ CharAt(q) # EOF /\ Known(q) /\ Small(q) /\ WellEnded(q)
  BY <1>6, SpaceAndLine DEF EOF, Known, Small, WellEnded
<1>10. ASSUME NEW r \in pos..(Len(text) + 1), NumberEnds(r) PROVE r = q
  <2>1. ~(q < r)
    BY <1>8, <1>9, <1>10 DEF NumberEnds
  <2>2. ~(r < q)
    BY <1>7, <1>8, <1>10 DEF NumberEnds
  <2> QED BY <1>8, <2>1, <2>2
<1>11. Accept(IF side = "server" /\ CharAt(q) = " " THEN Cleanup(q + 1)
              ELSE Ahead(q - pos + 1))
  BY <1>9, <1>10 DEF Number
<1>12. CASE CharAt(q) = "\n" /\ e = q + 1
  <2>1. q - pos + 1 \in Nat /\ pos + (q - pos + 1) = q + 1
    BY <1>8
  <2>2. Ahead(q - pos + 1) = q + 1
    BY <1>8, <1>12, <2>1, Position, AheadType
  <2>3. Accept(e)
    BY <1>11, <1>12, <2>2
  <2> QED BY <1>2, <1>3, <1>5, <2>3, AcceptedRule
<1>13. CASE CharAt(q) = " " /\ side = "server"
  <2>1. PICK p \in Nat : p = q + 1
    BY <1>8
  <2>2. p - 1 = q /\ from < p /\ p <= e
    BY <1>8, <2>1
  <2>3. CharAt(p - 1) # "\n"
    BY <1>13, <2>2
  <2>4. Cleanup(p) = e
    <3>1. from \in Starts(text) /\ e \in Starts(text)
      BY <1>4, <1>8, ReadingLines
    <3> QED BY <1>4, <1>8, <2>2, <2>3, <3>1, LineCleared
  <2>5. Accept(e)
    BY <1>11, <1>13, <2>1, <2>4
  <2> QED BY <1>2, <1>3, <1>5, <2>5, AcceptedRule
<1> QED BY <1>6, <1>12, <1>13

\* What the rules say of a command with a list.
LEMMA ListForms ==
    ASSUME IInv, NEW g, Reading(g), NEW e \in LinesFrom(text, g.a), NEW w \in Words,
           OnLine(g, e, w), NEW c, c = InLine(input, g.n, from, e), w.place = "list"
    PROVE  /\ Written(text, c) /\ Len(c.keys) \in Nat \ {0} /\ Limit \in Nat
           /\ Len(c.keys) < Limit \/ (side = "client" /\ Len(c.keys) = 1)
           /\ from \in Nat \ {0} /\ e \in Nat
           /\ \A chars : Marks(text, c, chars) \subseteq Nat \ {0}
<1>1. /\ ByTheRules(side, text, c, w) /\ c.to = e /\ c.from = from
      /\ from \in LinesFrom(text, g.a)
  <2>1. ByTheRules(side, text, c, w)
    BY LineForms
  <2>2. c.to = e /\ c.from = from
    BY LineForms, SMTT(30)
  <2>3. from \in LinesFrom(text, g.a)
    BY LineForms
  <2> QED BY <2>1, <2>2, <2>3
<1>2. from \in Nat \ {0} /\ e \in Nat
  BY <1>1, Position, ReadingLines
<1>3. Written(text, c) /\ Len(c.keys) \in 1..(IF side = "server" THEN MaxPairs - 1 ELSE 1)
  BY <1>1 DEF ByTheRules
<1>4. MaxPairs \in Nat \ {0}
  BY LimitsAssumption
<1>6. \A chars : Marks(text, c, chars) \subseteq Nat \ {0}
  BY <1>1, <1>2 DEF Marks
<1>7. CASE side = "server"
  BY <1>2, <1>3, <1>4, <1>6, <1>7 DEF Limit
<1>8. CASE side = "client"
  <2>1. side # "server" /\ Len(c.keys) = 1
    BY <1>3, <1>8
  <2> QED BY <1>2, <1>3, <1>6, <1>8, <2>1 DEF Limit
<1> QED BY <1>7, <1>8, Position

\* The line of a command with a list, behind its "[".
LEMMA ListLine ==
    ASSUME IInv, NEW g, Reading(g), ReadInv(g), at \in Held \ {"list"}
    PROVE  \E e \in LinesFrom(text, g.a), w \in Words :
              /\ OnLine(g, e, w) /\ w.place = "list"
              /\ \A c : c = InLine(input, g.n, from, e) =>
                    ReadOf(c) /\ Placed(c) /\ (op # "write" => values = <<>>)
<1>1. at \in Inside /\ at \notin {"bare", "number", "list"}
  BY DEF Held, Inside, Places
<1>2. PICK e \in LinesFrom(text, g.a), w \in Words : OnLine(g, e, w)
  BY <1>1 DEF ReadInv
<1>3. PICK c : c = InLine(input, g.n, from, e)
  OBVIOUS
<1>4. InPlace(c, w)
  BY <1>2, <1>3, LineForms
<1> QED BY <1>1, <1>2, <1>3, <1>4 DEF InPlace

\* The string that stands where the parser reads is the one that it reads.
LEMMA StringFound ==
    ASSUME IInv, NEW s, NEW a \in Nat, NEW b \in Nat, Stands(text, s, a, b),
           pos = a + 1, CharAt(b) \in Delims
    PROVE  /\ StringEnds(b) /\ String(b) = s /\ ~StringFails
           /\ \A q : StringEnds(q) => q = b
<1>1. /\ pos \in Nat \ {0} /\ input \in Inputs /\ Len(text) \in Nat /\ MaxString \in Nat
  BY Position, LimitsAssumption
<1>2. /\ a < b /\ b - a <= MaxString /\ s = SubSeq(text, a + 1, b - 1)
      /\ \A p \in (a + 1)..(b - 1) : CharAt(p) \notin Delims
  BY DEF Stands, CharAt
<1>3. pos <= b /\ b \in pos..(pos + MaxString - 1)
  BY <1>1, <1>2
<1>4. b <= Len(text)
  <2>1. CharAt(b) # EOF
    BY DEF Delims, Comma, EOF
  <2> QED BY <1>1, <1>3, <2>1, EndIsBehind
<1>5. \A p \in pos..(b - 1) : CharAt(p) \notin Delims \cup {EOF}
  <2> TAKE p \in pos..(b - 1)
  <2>1. p \in Nat \ {0} /\ ~(p > Len(text)) /\ p \in (a + 1)..(b - 1)
    BY <1>1, <1>4
  <2> QED BY <1>1, <1>2, <2>1, EndIsBehind
<1>6. StringEnds(b) /\ String(b) = s
  BY <1>2, <1>3, <1>5 DEF StringEnds, String
<1>7. ASSUME NEW q, StringEnds(q) PROVE q = b
  <2>1. q \in Nat /\ pos <= q
    BY <1>1, <1>7 DEF StringEnds
  <2>2. ~(b < q)
    BY <1>1, <1>3, <1>7, <2>1 DEF StringEnds
  <2>3. ~(q < b)
    BY <1>1, <1>5, <1>7, <2>1 DEF StringEnds
  <2> QED BY <2>1, <2>2, <2>3
<1> QED BY <1>3, <1>6, <1>7 DEF StringFails

LEMMA OpenListRule ==
    ASSUME IInv, NEW g, Reading(g), ReadInv(g), OpenList
    PROVE  ReadInv(g)'
<1>1. at = "list"
  BY DEF OpenList
<1>2. PICK e \in LinesFrom(text, g.a), w \in Words :
         /\ OnLine(g, e, w) /\ at = w.place
         /\ \A c : c = InLine(input, g.n, from, e) =>
               pos = Bracket(c) /\ keys = <<>> /\ values = <<>>
  BY <1>1, AloneLine
<1>3. PICK c : c = InLine(input, g.n, from, e)
  OBVIOUS
<1>4. /\ Written(text, c) /\ Len(c.keys) \in Nat \ {0} /\ pos = Bracket(c)
      /\ keys = <<>> /\ values = <<>> /\ w.place = "list" /\ c.op = op
      /\ \A chars : Marks(text, c, chars) \subseteq Nat \ {0}
  <2>1. w.place = "list" /\ pos = Bracket(c) /\ keys = <<>> /\ values = <<>>
    BY <1>1, <1>2, <1>3
  <2>2. c.op = op
    <3>1. OnLine(g, e, w)
      BY <1>2
    <3> QED BY <1>3, <3>1, LineForms
  <2>3. /\ Written(text, c) /\ Len(c.keys) \in Nat \ {0}
        /\ \A chars : Marks(text, c, chars) \subseteq Nat \ {0}
    BY <1>2, <1>3, <2>1, ListForms
  <2> QED BY <2>1, <2>2, <2>3
<1>5. Char = "["
  BY <1>4 DEF Written, Char, CharAt
<1>6. /\ at' = (IF op = "write" THEN "pair" ELSE "key") /\ pos' = pos + 1
      /\ UNCHANGED <<input, op, keys, values, from, accepted>>
  BY <1>5 DEF OpenList, Expect, Goto
<1>7. /\ Len(keys') = 0 /\ Len(values') = 0 /\ text' = text
  BY <1>4, <1>6, SameText
<1>8. ReadOf(c)'
  BY <1>4, <1>6, <1>7 DEF ReadOf
<1>9. CASE op = "write"
  <2>1. PICK m \in [1..Len(c.keys) -> Marks(text, c, {Comma})],
             v \in [0..Len(c.keys) -> Marks(text, c, {"[", ")"})] : PairsAt(text, c, m, v)
    BY <1>4, <1>9 DEF Written, PairsWritten
  <2>2. PairPlace(c, m, v)'
    BY <1>4, <1>6, <1>7, <1>9, <2>1 DEF PairPlace, PairsAt
  <2>3. InPlace(c, w)'
    BY <1>4, <1>6, <1>7, <1>8, <1>9, <2>1, <2>2 DEF InPlace, Placed
  <2> QED BY <1>2, <1>3, <1>6, <1>9, <2>3, Going DEF Inside, Places
<1>10. CASE op # "write"
  <2>1. PICK m \in [0..Len(c.keys) -> Marks(text, c, {"[", Comma, "]"})] : ListAt(text, c, m)
    BY <1>4, <1>10 DEF Written, ListWritten
  <2>2. ListPlace(c, m)'
    BY <1>4, <1>6, <1>7, <1>10, <2>1 DEF ListPlace, ListAt
  <2>3. InPlace(c, w)'
    BY <1>4, <1>6, <1>7, <1>8, <1>10, <2>1, <2>2 DEF InPlace, Placed
  <2> QED BY <1>2, <1>3, <1>6, <1>10, <2>3, Going DEF Inside, Places
<1> QED BY <1>9, <1>10

\* What is known of the command c while its list is read from a line up to e.
ListOf(c, e) ==
    /\ ReadOf(c)
    /\ Len(c.keys) \in Nat \ {0} /\ Limit \in Nat
    /\ Len(c.keys) < Limit \/ (side = "client" /\ Len(c.keys) = 1)
    /\ Written(text, c) /\ c.to = e /\ c.op = op
    /\ c.keys \in Seq(STRING) /\ c.values \in Seq(STRING)

PairsFrom(c, m, v) ==
    /\ m \in [1..Len(c.keys) -> Marks(text, c, {Comma})]
    /\ v \in [0..Len(c.keys) -> Marks(text, c, {"[", ")"})]
    /\ PairPlace(c, m, v)
    /\ \A i \in 1..Len(c.keys) : m[i] \in Nat /\ CharAt(m[i]) = Comma
    /\ \A i \in 0..Len(c.keys) : v[i] \in Nat

KeysFrom(c, m) ==
    /\ m \in [0..Len(c.keys) -> Marks(text, c, {"[", Comma, "]"})]
    /\ ListPlace(c, m)
    /\ \A i \in 0..Len(c.keys) : m[i] \in Nat

\* Where the parser is in a command with a list.
LEMMA ListLineForms ==
    ASSUME IInv, TextInv, NEW g, Reading(g), ReadInv(g), at \in Held \ {"list"}
    PROVE  \E e \in LinesFrom(text, g.a), w \in Words :
              /\ OnLine(g, e, w) /\ w.place = "list"
              /\ \A c : c = InLine(input, g.n, from, e) =>
                    /\ ListOf(c, e)
                    /\ op = "write" => \E m, v : PairsFrom(c, m, v)
                    /\ op # "write" => values = <<>> /\ \E m : KeysFrom(c, m)
<1>1. PICK e \in LinesFrom(text, g.a), w \in Words :
         /\ OnLine(g, e, w) /\ w.place = "list"
         /\ \A c : c = InLine(input, g.n, from, e) =>
               ReadOf(c) /\ Placed(c) /\ (op # "write" => values = <<>>)
  BY ListLine
<1>2. SUFFICES ASSUME NEW c, c = InLine(input, g.n, from, e)
               PROVE  /\ ListOf(c, e)
                      /\ op = "write" => \E m, v : PairsFrom(c, m, v)
                      /\ op # "write" => values = <<>> /\ \E m : KeysFrom(c, m)
  BY <1>1
<1>3. ReadOf(c) /\ Placed(c) /\ (op # "write" => values = <<>>)
  BY <1>1, <1>2
<1>4. \A chars : Marks(text, c, chars) \subseteq Nat
  BY <1>1, <1>2, ListForms
<1>5. ListOf(c, e)
  <2>1. /\ Written(text, c) /\ Len(c.keys) \in Nat \ {0} /\ Limit \in Nat
        /\ Len(c.keys) < Limit \/ (side = "client" /\ Len(c.keys) = 1)
    BY <1>1, <1>2, ListForms
  <2>2. c.to = e /\ c.op = op
    BY <1>1, <1>2, LineForms
  <2>3. c.keys \in Seq(STRING) /\ c.values \in Seq(STRING)
    BY <1>1, <1>2, LineForms
  <2> QED BY <1>3, <2>1, <2>2, <2>3 DEF ListOf
<1>6. ASSUME op = "write" PROVE \E m, v : PairsFrom(c, m, v)
  <2>1. PICK m \in [1..Len(c.keys) -> Marks(text, c, {Comma})],
             v \in [0..Len(c.keys) -> Marks(text, c, {"[", ")"})] : PairPlace(c, m, v)
    BY <1>3, <1>6 DEF Placed
  <2>2. \A i \in 1..Len(c.keys) : m[i] \in Nat /\ CharAt(m[i]) = Comma
    BY <1>4, <2>1 DEF Marks, CharAt
  <2>3. \A i \in 0..Len(c.keys) : v[i] \in Nat
    BY <1>4, <2>1
  <2> QED BY <2>1, <2>2, <2>3 DEF PairsFrom
<1>7. ASSUME op # "write" PROVE \E m : KeysFrom(c, m)
  <2>1. PICK m \in [0..Len(c.keys) -> Marks(text, c, {"[", Comma, "]"})] : ListPlace(c, m)
    BY <1>3, <1>7 DEF Placed
  <2>2. \A i \in 0..Len(c.keys) : m[i] \in Nat
    BY <1>4, <2>1
  <2> QED BY <2>1, <2>2 DEF KeysFrom
<1> QED BY <1>3, <1>5, <1>6, <1>7

\* The parser goes on in a command with pairs.
LEMMA PairGoing ==
    ASSUME IInv, NEW g, Reading(g), ReadInv(g), op = "write",
           UNCHANGED <<input, op, from, accepted>>, at' \in Held \ {"list"},
           NEW e \in LinesFrom(text, g.a), NEW w \in Words, OnLine(g, e, w), w.place = "list",
           NEW c, c = InLine(input, g.n, from, e),
           NEW m, NEW v, PairsFrom(c, m, v), PairPlace(c, m, v)', ReadOf(c)'
    PROVE  ReadInv(g)'
<1>1. text' = text /\ at' \in Inside /\ at' \notin {"bare", "number", "list"}
  BY SameText DEF Held, Inside, Places
<1>2. Placed(c)'
  BY <1>1 DEF Placed, PairsFrom
<1>3. InPlace(c, w)'
  BY <1>1, <1>2 DEF InPlace
<1> QED BY <1>1, <1>3, Going

\* And in one with a list of keys.
LEMMA KeyGoing ==
    ASSUME IInv, NEW g, Reading(g), ReadInv(g), op # "write", values = <<>>,
           UNCHANGED <<input, op, values, from, accepted>>, at' \in Held \ {"list"},
           NEW e \in LinesFrom(text, g.a), NEW w \in Words, OnLine(g, e, w), w.place = "list",
           NEW c, c = InLine(input, g.n, from, e),
           NEW m, KeysFrom(c, m), ListPlace(c, m)', ReadOf(c)'
    PROVE  ReadInv(g)'
<1>1. text' = text /\ at' \in Inside /\ at' \notin {"bare", "number", "list"}
  BY SameText DEF Held, Inside, Places
<1>2. Placed(c)'
  BY <1>1 DEF Placed, KeysFrom
<1>3. InPlace(c, w)'
  BY <1>1, <1>2 DEF InPlace
<1> QED BY <1>1, <1>3, Going

LEMMA OpenPairRule ==
    ASSUME IInv, TextInv, NEW g, Reading(g), ReadInv(g), OpenPair
    PROVE  ReadInv(g)'
<1>1. at = "pair" /\ op = "write" /\ at \in Held \ {"list"}
  BY DEF OpenPair, TextInv, LastInv, Held
<1>2. /\ keys \in Seq(Short) /\ values \in Seq(Short) /\ Len(keys) = 0 /\ Len(values) = 0
  BY <1>1 DEF IInv, ListInv
<1>3. PICK e \in LinesFrom(text, g.a), w \in Words :
         /\ OnLine(g, e, w) /\ w.place = "list"
         /\ \A c : c = InLine(input, g.n, from, e) =>
               ListOf(c, e) /\ \E m, v : PairsFrom(c, m, v)
  BY <1>1, ListLineForms
<1>4. PICK c : c = InLine(input, g.n, from, e)
  OBVIOUS
<1>5. PICK m, v : PairsFrom(c, m, v)
  BY <1>3, <1>4
<1>6. ReadOf(c) /\ Len(c.keys) \in Nat \ {0}
  BY <1>3, <1>4 DEF ListOf
<1>7. pos = v[0] + 1 /\ CharAt(v[0] + 1) = "(" /\ v[0] \in Nat
  <2>1. 1 \in 1..Len(c.keys) /\ 0 \in 0..Len(c.keys)
    BY <1>6
  <2>2. v[0] \in Nat /\ PairsAt(text, c, m, v) /\ pos = v[0] + 1
    BY <1>1, <1>2, <1>5, <2>1 DEF PairsFrom, PairPlace
  <2> QED BY <2>1, <2>2 DEF PairsAt, CharAt
<1>8. /\ at' = "key" /\ pos' = pos + 1
      /\ UNCHANGED <<input, op, keys, values, from, accepted>>
  BY <1>7 DEF OpenPair, Expect, Goto, Char
<1>9. ReadOf(c)'
  BY <1>2, <1>6, <1>8 DEF ReadOf
<1>10. PairPlace(c, m, v)'
  <2>1. text' = text
    BY <1>8, SameText
  <2> QED BY <1>2, <1>5, <1>7, <1>8, <2>1 DEF PairsFrom, PairPlace
<1> QED BY <1>1, <1>3, <1>4, <1>5, <1>8, <1>9, <1>10, PairGoing DEF Held

\* A list by the rules is read to its end before the arrays are full.
LEMMA RoomLeft ==
    ASSUME NEW a \in Nat, NEW b \in Nat, NEW room \in Nat, a < b, b < room \/ b = 1
    PROVE  (a > 0 => a < room) /\ (a + 1 < b => a + 1 < room)
OBVIOUS

LEMMA PairKeyRule ==
    ASSUME IInv, TextInv, NEW g, Reading(g), ReadInv(g), PairKey
    PROVE  ReadInv(g)'
<1> DEFINE k == Len(keys)
<1>1. at = "key" /\ op = "write" /\ at \in Held \ {"list"}
  BY DEF PairKey, Held
<1>2. keys \in Seq(Short) /\ k \in Nat /\ Len(values) = k
  BY <1>1 DEF IInv, ListInv
<1>3. PICK e \in LinesFrom(text, g.a), w \in Words :
         /\ OnLine(g, e, w) /\ w.place = "list"
         /\ \A c : c = InLine(input, g.n, from, e) =>
               ListOf(c, e) /\ \E m, v : PairsFrom(c, m, v)
  BY <1>1, ListLineForms
<1>4. PICK c : c = InLine(input, g.n, from, e)
  OBVIOUS
<1>5. PICK m, v : PairsFrom(c, m, v)
  BY <1>3, <1>4
<1>6. /\ ReadOf(c) /\ Len(c.keys) \in Nat /\ k < Len(c.keys)
      /\ k + 1 \in 1..Len(c.keys) /\ k \in 0..Len(c.keys)
  <2>1. ReadOf(c) /\ Len(c.keys) \in Nat
    BY <1>3, <1>4 DEF ListOf
  <2>2. k < Len(c.keys)
    BY <1>1, <2>1 DEF ReadOf
  <2> QED BY <1>2, <2>1, <2>2
<1>7. /\ v[k] \in Nat /\ m[k + 1] \in Nat /\ CharAt(m[k + 1]) = Comma
      /\ pos = v[k] + 2
      /\ Stands(text, c.keys[k + 1], v[k] + 1, m[k + 1])
  <2>1. k + 1 - 1 = k
    BY <1>2
  <2>2. pos = v[k] + 2
    BY <1>1, <1>2, <1>5 DEF PairsFrom, PairPlace
  <2>3. Stands(text, c.keys[k + 1], v[k + 1 - 1] + 1, m[k + 1])
    BY <1>5, <1>6, SMTT(30) DEF PairsFrom, PairPlace, PairsAt
  <2> QED BY <1>5, <1>6, <2>1, <2>2, <2>3 DEF PairsFrom
<1>8. /\ StringEnds(m[k + 1]) /\ String(m[k + 1]) = c.keys[k + 1] /\ ~StringFails
      /\ \A q : StringEnds(q) => q = m[k + 1]
  <2>1. v[k] + 1 \in Nat /\ pos = v[k] + 1 + 1
    BY <1>7
  <2>2. CharAt(m[k + 1]) \in Delims
    BY <1>7 DEF Delims
  <2> QED BY <1>7, <2>1, <2>2, StringFound
<1>9. /\ keys' = Append(keys, c.keys[k + 1]) /\ pos' = m[k + 1] + 1 /\ at' = "value"
      /\ UNCHANGED <<input, op, values, from, accepted>>
  BY <1>7, <1>8 DEF PairKey, Goto
<1>10. Len(keys') = k + 1 /\ \A i \in 1..(k + 1) : keys'[i] = c.keys[i]
  <2>1. String(m[k + 1]) \in Short
    BY <1>8, StringPlaces
  <2>2. /\ Len(keys') = k + 1 /\ keys'[k + 1] = c.keys[k + 1]
        /\ \A i \in 1..k : keys'[i] = keys[i]
    BY <1>2, <1>8, <1>9, <2>1
  <2> QED BY <1>2, <1>6, <2>2 DEF ReadOf
<1>11. ReadOf(c)'
  BY <1>2, <1>6, <1>9, <1>10 DEF ReadOf
<1>12. PairPlace(c, m, v)'
  <2>1. text' = text
    BY <1>9, SameText
  <2> QED BY <1>5, <1>9, <1>10, <2>1 DEF PairsFrom, PairPlace
<1> QED BY <1>1, <1>3, <1>4, <1>5, <1>9, <1>11, <1>12, PairGoing DEF Held

LEMMA PairValueRule ==
    ASSUME IInv, TextInv, NEW g, Reading(g), ReadInv(g), PairValue
    PROVE  ReadInv(g)'
<1> DEFINE k == Len(keys)
<1>1. at = "value" /\ op = "write" /\ at \in Held \ {"list"}
  BY DEF PairValue, Held, IInv, ListInv
<1>2. values \in Seq(Short) /\ k \in Nat \ {0} /\ Len(values) = k - 1
  BY <1>1 DEF IInv, ListInv
<1>3. PICK e \in LinesFrom(text, g.a), w \in Words :
         /\ OnLine(g, e, w) /\ w.place = "list"
         /\ \A c : c = InLine(input, g.n, from, e) =>
               ListOf(c, e) /\ \E m, v : PairsFrom(c, m, v)
  BY <1>1, ListLineForms
<1>4. PICK c : c = InLine(input, g.n, from, e)
  OBVIOUS
<1>5. PICK m, v : PairsFrom(c, m, v)
  BY <1>3, <1>4
<1>6. ReadOf(c) /\ Len(c.keys) \in Nat /\ k \in 1..Len(c.keys) /\ k \in 0..Len(c.keys)
  <2>1. ReadOf(c) /\ Len(c.keys) \in Nat
    BY <1>3, <1>4 DEF ListOf
  <2> QED BY <1>2, <2>1 DEF ReadOf
<1>7. /\ m[k] \in Nat /\ v[k] \in Nat /\ pos = m[k] + 1 /\ CharAt(v[k]) = ")"
      /\ Stands(text, c.values[k], m[k], v[k])
  BY <1>1, <1>5, <1>6 DEF PairsFrom, PairPlace, PairsAt, CharAt
<1>8. /\ StringEnds(v[k]) /\ String(v[k]) = c.values[k] /\ ~StringFails
      /\ \A q : StringEnds(q) => q = v[k]
  BY <1>7, StringFound DEF Delims
<1>9. /\ values' = Append(values, c.values[k]) /\ pos' = v[k] + 1 /\ at' = "after"
      /\ UNCHANGED <<input, op, keys, from, accepted>>
  BY <1>7, <1>8 DEF PairValue, Goto
<1>10. Len(values') = k /\ \A i \in 1..k : values'[i] = c.values[i]
  <2>1. String(v[k]) \in Short
    BY <1>8, StringPlaces
  <2>2. /\ Len(values') = k /\ values'[k] = c.values[k]
        /\ \A i \in 1..(k - 1) : values'[i] = values[i]
    BY <1>2, <1>8, <1>9, <2>1
  <2> QED BY <1>2, <1>6, <2>2 DEF ReadOf
<1>11. ReadOf(c)'
  BY <1>6, <1>9, <1>10 DEF ReadOf
<1>12. PairPlace(c, m, v)'
  <2>1. text' = text
    BY <1>9, SameText
  <2> QED BY <1>5, <1>9, <1>10, <2>1 DEF PairsFrom, PairPlace
<1> QED BY <1>1, <1>3, <1>4, <1>5, <1>9, <1>11, <1>12, PairGoing DEF Held

LEMMA AfterPairRule ==
    ASSUME IInv, TextInv, NEW g, Reading(g), ReadInv(g), AfterPair
    PROVE  ReadInv(g)'
<1> DEFINE k == Len(keys)
<1>1. at = "after" /\ op = "write" /\ at \in Held \ {"list"}
  BY DEF AfterPair, Held, IInv, ListInv
<1>2. keys \in Seq(Short) /\ k \in Nat /\ Len(values) = k
  BY <1>1 DEF IInv, ListInv
<1>3. PICK e \in LinesFrom(text, g.a), w \in Words :
         /\ OnLine(g, e, w) /\ w.place = "list"
         /\ \A c : c = InLine(input, g.n, from, e) =>
               ListOf(c, e) /\ \E m, v : PairsFrom(c, m, v)
  BY <1>1, ListLineForms
<1>4. PICK c : c = InLine(input, g.n, from, e)
  OBVIOUS
<1>5. PICK m, v : PairsFrom(c, m, v)
  BY <1>3, <1>4
<1>6. /\ ReadOf(c) /\ Len(c.keys) \in Nat \ {0} /\ Limit \in Nat
      /\ Len(c.keys) < Limit \/ Len(c.keys) = 1
      /\ k <= Len(c.keys) /\ k \in 0..Len(c.keys) /\ k > 0
  <2>1. /\ ReadOf(c) /\ Len(c.keys) \in Nat \ {0} /\ Limit \in Nat
        /\ Len(c.keys) < Limit \/ Len(c.keys) = 1
    BY <1>3, <1>4 DEF ListOf
  <2>2. k <= Len(c.keys) /\ k > 0
    BY <1>1, <2>1 DEF ReadOf, TextInv, LastInv
  <2> QED BY <1>2, <2>1, <2>2
<1>7. pos = v[k] + 1 /\ v[k] \in Nat
  BY <1>1, <1>2, <1>5, <1>6 DEF PairsFrom, PairPlace
<1>8. ASSUME NEW place \in {"key", "full"}, Expect(place, pos + 1),
             place = "key" => k < Len(c.keys), place = "full" => k = Len(c.keys)
      PROVE  ReadInv(g)'
  <2>1. /\ at' = place /\ pos' = pos + 1
        /\ UNCHANGED <<input, op, keys, values, from, accepted>>
    BY <1>8 DEF Expect, Goto
  <2>2. ReadOf(c)'
    BY <1>6, <1>8, <2>1 DEF ReadOf
  <2>3. PairPlace(c, m, v)'
    <3>1. text' = text
      BY <2>1, SameText
    <3> QED BY <1>2, <1>5, <1>7, <1>8, <2>1, <3>1 DEF PairsFrom, PairPlace
  <2>4. at' \in Held \ {"list"}
    BY <1>8, <2>1 DEF Held
  <2> QED BY <1>1, <1>3, <1>4, <1>5, <2>1, <2>2, <2>3, <2>4, PairGoing
<1>9. CASE k < Len(c.keys)
  <2>1. k + 1 \in 1..Len(c.keys) /\ k + 1 - 1 = k
    BY <1>2, <1>6, <1>9
  <2>2. Char = "("
    BY <1>5, <1>7, <2>1 DEF PairsFrom, PairPlace, PairsAt, Char, CharAt
  <2>3. k < Limit
    BY <1>2, <1>6, <1>9, RoomLeft
  <2>4. Expect("key", pos + 1)
    BY <2>2, <2>3 DEF AfterPair
  <2> QED BY <1>8, <1>9, <2>4
<1>10. CASE k = Len(c.keys)
  <2>1. Char = "]"
    BY <1>5, <1>7, <1>10 DEF PairsFrom, PairPlace, PairsAt, Char, CharAt
  <2>2. Expect("full", pos + 1)
    BY <2>1 DEF AfterPair
  <2> QED BY <1>8, <1>10, <2>2
<1> QED BY <1>2, <1>6, <1>9, <1>10

LEMMA ListKeyRule ==
    ASSUME IInv, TextInv, NEW g, Reading(g), ReadInv(g), ListKey
    PROVE  ReadInv(g)'
<1> DEFINE k == Len(keys)
<1>1. at = "key" /\ op # "write" /\ at \in Held \ {"list"}
  BY DEF ListKey, Held
<1>2. keys \in Seq(Short) /\ k \in Nat
  BY <1>1 DEF IInv, ListInv
<1>3. PICK e \in LinesFrom(text, g.a), w \in Words :
         /\ OnLine(g, e, w) /\ w.place = "list"
         /\ \A c : c = InLine(input, g.n, from, e) =>
               ListOf(c, e) /\ values = <<>> /\ \E m : KeysFrom(c, m)
  BY <1>1, ListLineForms
<1>4. PICK c : c = InLine(input, g.n, from, e)
  OBVIOUS
<1>5. PICK m : KeysFrom(c, m)
  BY <1>3, <1>4
<1>6. /\ ReadOf(c) /\ Len(c.keys) \in Nat /\ k < Len(c.keys) /\ Limit \in Nat
      /\ Len(c.keys) < Limit \/ Len(c.keys) = 1
      /\ k + 1 \in 1..Len(c.keys) /\ k \in 0..Len(c.keys) /\ k + 1 \in 0..Len(c.keys)
  <2>1. /\ ReadOf(c) /\ Len(c.keys) \in Nat /\ Limit \in Nat
        /\ Len(c.keys) < Limit \/ Len(c.keys) = 1
    BY <1>3, <1>4 DEF ListOf
  <2>2. k < Len(c.keys)
    BY <1>1, <2>1 DEF ReadOf
  <2> QED BY <1>2, <2>1, <2>2
<1>7. /\ m[k] \in Nat /\ m[k + 1] \in Nat /\ pos = m[k] + 1
      /\ CharAt(m[k + 1]) = (IF k + 1 < Len(c.keys) THEN Comma ELSE "]")
      /\ Stands(text, c.keys[k + 1], m[k], m[k + 1])
  <2>1. k + 1 - 1 = k
    BY <1>2
  <2> QED BY <1>5, <1>6, <2>1 DEF KeysFrom, ListPlace, ListAt, CharAt
<1>8. /\ StringEnds(m[k + 1]) /\ String(m[k + 1]) = c.keys[k + 1] /\ ~StringFails
      /\ \A q : StringEnds(q) => q = m[k + 1]
  BY <1>7, StringFound, ZenonT(60) DEF Delims
<1>9. CharAt(m[k + 1]) \in {Comma, "]"}
  BY <1>7
<1>10. /\ keys' = Append(keys, c.keys[k + 1]) /\ pos' = m[k + 1] + 1
       /\ at' = (IF CharAt(m[k + 1]) = Comma /\ Len(keys') < Limit THEN "key" ELSE "full")
       /\ UNCHANGED <<input, op, values, from, accepted>>
  BY <1>8, <1>9 DEF ListKey, Goto
<1>11. Len(keys') = k + 1 /\ \A i \in 1..(k + 1) : keys'[i] = c.keys[i]
  <2>1. String(m[k + 1]) \in Short
    BY <1>8, StringPlaces
  <2>2. /\ Len(keys') = k + 1 /\ keys'[k + 1] = c.keys[k + 1]
        /\ \A i \in 1..k : keys'[i] = keys[i]
    BY <1>2, <1>8, <1>10, <2>1
  <2> QED BY <1>2, <1>6, <2>2 DEF ReadOf
<1>12. /\ at' \in {"key", "full"}
       /\ at' = "key" => k + 1 < Len(c.keys)
       /\ at' = "full" => k + 1 = Len(c.keys)
  <2>1. CASE k + 1 < Len(c.keys)
    <3>1. k + 1 < Limit
      BY <1>2, <1>6, <2>1, RoomLeft
    <3>2. CharAt(m[k + 1]) = Comma
      BY <1>7, <2>1
    <3>3. at' = "key"
      BY <1>10, <1>11, <3>1, <3>2
    <3> QED BY <2>1, <3>3
  <2>2. CASE k + 1 = Len(c.keys)
    <3>1. CharAt(m[k + 1]) = "]"
      BY <1>2, <1>7, <2>2
    <3>2. "]" # Comma
      BY DEF Comma
    <3>3. at' = "full"
      BY <1>10, <3>1, <3>2
    <3> QED BY <2>2, <3>3
  <2> QED BY <1>2, <1>6, <2>1, <2>2
<1>13. ReadOf(c)'
  BY <1>3, <1>4, <1>6, <1>10, <1>11, <1>12 DEF ReadOf
<1>14. ListPlace(c, m)'
  <2>1. text' = text
    BY <1>10, SameText
  <2> QED BY <1>5, <1>10, <1>11, <2>1 DEF KeysFrom, ListPlace
<1>15. at' \in Held \ {"list"}
  BY <1>12 DEF Held
<1> QED BY <1>1, <1>3, <1>4, <1>5, <1>10, <1>13, <1>14, <1>15, KeyGoing

LEMMA FullRule ==
    ASSUME IInv, TextInv, NEW g, Reading(g), ReadInv(g), Full
    PROVE  ReadInv(g)'
<1> DEFINE k == Len(keys)
<1>1. at = "full" /\ at \in Held \ {"list"}
  BY DEF Full, Held
<1>2. PICK e \in LinesFrom(text, g.a), w \in Words :
         /\ OnLine(g, e, w) /\ w.place = "list"
         /\ \A c : c = InLine(input, g.n, from, e) =>
               /\ ListOf(c, e)
               /\ op = "write" => \E m, v : PairsFrom(c, m, v)
               /\ op # "write" => values = <<>> /\ \E m : KeysFrom(c, m)
  BY <1>1, ListLineForms
<1>3. PICK c : c = InLine(input, g.n, from, e)
  OBVIOUS
<1>4. /\ ReadOf(c) /\ Len(c.keys) \in Nat \ {0} /\ Limit \in Nat /\ k = Len(c.keys)
      /\ Len(c.keys) < Limit \/ (side = "client" /\ Len(c.keys) = 1)
  BY <1>1, <1>2, <1>3 DEF ListOf, ReadOf
<1>5. CASE op = "write"
  <2>1. PICK m, v : PairsFrom(c, m, v)
    BY <1>2, <1>3, <1>5
  <2>2. Len(values) = k
    BY <1>1, <1>5 DEF IInv, ListInv
  <2>3. pos = v[k] + 2 /\ v[k] \in Nat /\ CharAt(v[k] + 1) = "]"
    <3>1. k \in 0..Len(c.keys)
      BY <1>4
    <3> QED BY <1>1, <1>4, <2>1, <2>2, <3>1 DEF PairsFrom, PairPlace, PairsAt, CharAt
  <2>4. pos - 1 = v[k] + 1
    BY <2>3
  <2>5. Expect("eol", pos)
    <3>1. CharAt(pos - 1) = "]"
      BY <2>3, <2>4
    <3>2. k = Limit => side # "server"
      BY <1>4
    <3> QED BY <3>1, <3>2 DEF Full
  <2>6. /\ at' = "eol" /\ pos' = pos
        /\ UNCHANGED <<input, op, keys, values, from, accepted>>
    BY <2>5 DEF Expect, Goto
  <2>7. ReadOf(c)'
    BY <1>4, <2>6 DEF ReadOf
  <2>8. PairPlace(c, m, v)'
    <3>1. text' = text
      BY <2>6, SameText
    <3> QED BY <2>1, <2>2, <2>3, <2>6, <3>1 DEF PairsFrom, PairPlace
  <2> QED BY <1>2, <1>3, <1>5, <2>1, <2>6, <2>7, <2>8, PairGoing DEF Held
<1>6. CASE op # "write"
  <2>1. PICK m : KeysFrom(c, m)
    BY <1>2, <1>3, <1>6
  <2>2. values = <<>>
    BY <1>2, <1>3, <1>6
  <2>3. pos = m[k] + 1 /\ m[k] \in Nat /\ CharAt(m[k]) = "]"
    <3>1. k \in 0..Len(c.keys) /\ k \in 1..Len(c.keys) /\ ~(k < Len(c.keys))
      BY <1>4
    <3> QED BY <2>1, <3>1 DEF KeysFrom, ListPlace, ListAt, CharAt
  <2>4. pos - 1 = m[k]
    BY <2>3
  <2>5. Expect("eol", pos)
    <3>1. CharAt(pos - 1) = "]"
      BY <2>3, <2>4
    <3>2. k = Limit => side # "server"
      BY <1>4
    <3> QED BY <3>1, <3>2 DEF Full
  <2>6. /\ at' = "eol" /\ pos' = pos
        /\ UNCHANGED <<input, op, keys, values, from, accepted>>
    BY <2>5 DEF Expect, Goto
  <2>7. ReadOf(c)'
    BY <1>4, <2>6 DEF ReadOf
  <2>8. ListPlace(c, m)'
    <3>1. text' = text
      BY <2>6, SameText
    <3> QED BY <2>1, <2>6, <3>1 DEF KeysFrom, ListPlace
  <2> QED BY <1>2, <1>3, <1>6, <2>1, <2>2, <2>6, <2>7, <2>8, KeyGoing DEF Held
<1> QED BY <1>5, <1>6

\* What is read is what is written when it is so place by place.
LEMMA SameStrings ==
    ASSUME NEW s \in Seq(Short), NEW z \in Seq(STRING), Len(s) = Len(z),
           \A i \in 1..Len(s) : s[i] = z[i]
    PROVE  s = z
OBVIOUS

LEMMA EndOfLineRule ==
    ASSUME IInv, TextInv, NEW g, Reading(g), ReadInv(g), EndOfLine
    PROVE  ReadInv(g)'
<1> DEFINE k == Len(keys)
<1>1. at = "eol" /\ at \in Held \ {"list"}
  BY DEF EndOfLine, Held
<1>2. PICK e \in LinesFrom(text, g.a), w \in Words :
         /\ OnLine(g, e, w) /\ w.place = "list"
         /\ \A c : c = InLine(input, g.n, from, e) =>
               /\ ListOf(c, e)
               /\ op = "write" => \E m, v : PairsFrom(c, m, v)
               /\ op # "write" => values = <<>> /\ \E m : KeysFrom(c, m)
  BY <1>1, ListLineForms
<1>3. PICK c : c = InLine(input, g.n, from, e)
  OBVIOUS
<1>4. /\ ReadOf(c) /\ k = Len(c.keys) /\ k \in Nat /\ Written(text, c) /\ c.to = e
      /\ c.op = op /\ c.keys \in Seq(STRING) /\ c.values \in Seq(STRING)
  BY <1>1, <1>2, <1>3 DEF ListOf, ReadOf
<1>5. keys \in Seq(Short) /\ values \in Seq(Short)
  BY DEF IInv, ListInv
<1>6. keys = c.keys
  BY <1>4, <1>5, SameStrings DEF ReadOf
<1>7. values = c.values /\ pos + 1 = e /\ e - 1 = pos
  <2>1. CASE op = "write"
    <3>1. PICK m, v : PairsFrom(c, m, v)
      BY <1>2, <1>3, <2>1
    <3>2. Len(values) = k /\ Len(c.values) = k
      BY <1>1, <1>4, <2>1 DEF IInv, ListInv, Written
    <3>3. values = c.values
      BY <1>4, <1>5, <3>2 DEF ReadOf
    <3>4. pos = v[k] + 2 /\ v[k] \in Nat /\ e = v[k] + 3
      <4>1. k \in 0..Len(c.keys)
        BY <1>4
      <4> QED BY <1>1, <1>4, <3>1, <3>2, <4>1 DEF PairsFrom, PairPlace, PairsAt
    <3> QED BY <3>3, <3>4
  <2>2. CASE op # "write"
    <3>1. PICK m : KeysFrom(c, m)
      BY <1>2, <1>3, <2>2
    <3>2. values = c.values
      BY <1>2, <1>3, <1>4, <2>2 DEF Written
    <3>3. pos = m[k] + 1 /\ m[k] \in Nat /\ e = m[k] + 2
      <4>1. k \in 0..Len(c.keys)
        BY <1>4
      <4> QED BY <1>4, <3>1, <4>1 DEF KeysFrom, ListPlace, ListAt
    <3> QED BY <3>2, <3>3
  <2> QED BY <2>1, <2>2
<1>8. Char = "\n"
  BY <1>4, <1>7 DEF Written, Char, CharAt
<1>9. Accept(e)
  BY <1>7, <1>8 DEF EndOfLine
<1> QED BY <1>2, <1>3, <1>6, <1>7, <1>9, AcceptedRule

\* What is written by the rules overruns no buffer.
LEMMA NumberRoom ==
    ASSUME IInv, NEW g, Reading(g), ReadInv(g), at = "number"
    PROVE  ~NumberOverruns
<1>1. at = "number"
  OBVIOUS
<1>2. PICK e \in LinesFrom(text, g.a), w \in Words :
         /\ OnLine(g, e, w) /\ at = w.place
         /\ \A c : c = InLine(input, g.n, from, e) =>
               pos = Bracket(c) /\ keys = <<>> /\ values = <<>>
  BY <1>1, AloneLine
<1>3. PICK c : c = InLine(input, g.n, from, e)
  OBVIOUS
<1>4. /\ ByTheRules(side, text, c, w) /\ c.to = e /\ pos = Bracket(c)
      /\ from \in LinesFrom(text, g.a) /\ Follows(text, from, e)
  BY <1>2, <1>3, LineForms
<1>5. Numbered(side, text, c)
  BY <1>2, <1>4 DEF ByTheRules
<1>6. PICK q \in pos..(e - 1) :
         /\ q - pos < NumberBuffer
         /\ \A p \in pos..(q - 1) : CharAt(p) \in Digits
         /\ CharAt(q) = "\n" \/ CharAt(q) = " "
  BY <1>4, <1>5 DEF Numbered, CharAt
<1>7. q \in pos..(e - 1) /\ \A p \in pos..(q - 1) : CharAt(p) \in Digits
  BY <1>6
<1>8. pos \in Nat \ {0} /\ q \in Nat /\ pos <= q
  <2>1. e \in Nat \ {0}
    BY Position, ReadingLines
  <2> QED BY <1>7, <2>1, Position
<1>9. CharAt(q) \notin Digits /\ Known(q)
  BY <1>6, SpaceAndLine DEF EOF, Known
<1>10. ASSUME NEW r \in pos..(Len(text) + 1), NumberEnds(r) PROVE r = q
  <2>0. r \in Nat /\ pos <= r
    BY <1>8, Position
  <2>1. ~(q < r)
    BY <1>8, <1>9, <1>10, <2>0 DEF NumberEnds
  <2>2. ~(r < q)
    BY <1>7, <1>8, <1>10, <2>0 DEF NumberEnds
  <2> QED BY <1>8, <2>0, <2>1, <2>2
<1> QED BY <1>9, <1>10 DEF NumberOverruns

LEMMA StringRoom ==
    ASSUME NEW b, StringEnds(b)
    PROVE  ~StringOverruns
BY DEF StringEnds, StringOverruns

LEMMA PairRoom ==
    ASSUME IInv, TextInv, NEW g, Reading(g), ReadInv(g), at \in {"key", "value"}, op = "write"
    PROVE  \E b : StringEnds(b)
<1> DEFINE k == Len(keys)
<1>1. at \in Held \ {"list"}
  BY DEF Held
<1>2. k \in Nat /\ Len(values) \in Nat /\ Len(values) = IF at = "key" THEN k ELSE k - 1
  BY DEF IInv, ListInv
<1>3. PICK e \in LinesFrom(text, g.a), w \in Words :
         /\ OnLine(g, e, w) /\ w.place = "list"
         /\ \A c : c = InLine(input, g.n, from, e) =>
               ListOf(c, e) /\ \E m, v : PairsFrom(c, m, v)
  BY <1>1, ListLineForms
<1>4. PICK c : c = InLine(input, g.n, from, e)
  OBVIOUS
<1>5. PICK m, v : PairsFrom(c, m, v)
  BY <1>3, <1>4
<1>6. ReadOf(c) /\ Len(c.keys) \in Nat
  BY <1>3, <1>4 DEF ListOf
<1>7. CASE at = "key"
  <2>1. k + 1 \in 1..Len(c.keys) /\ k \in 0..Len(c.keys) /\ k + 1 - 1 = k
    BY <1>2, <1>6, <1>7 DEF ReadOf
  <2>2. /\ v[k] \in Nat /\ m[k + 1] \in Nat /\ CharAt(m[k + 1]) = Comma
        /\ pos = v[k] + 2
    BY <1>2, <1>5, <1>7, <2>1 DEF PairsFrom, PairPlace
  <2>3. Stands(text, c.keys[k + 1], v[k + 1 - 1] + 1, m[k + 1])
    BY <1>5, <2>1 DEF PairsFrom, PairPlace, PairsAt
  <2>4. v[k] + 1 \in Nat /\ pos = v[k] + 1 + 1 /\ CharAt(m[k + 1]) \in Delims
    BY <2>2 DEF Delims
  <2> QED BY <2>1, <2>2, <2>3, <2>4, StringFound
<1>8. CASE at = "value"
  <2>1. k \in 1..Len(c.keys) /\ k \in 0..Len(c.keys)
    BY <1>2, <1>6, <1>8 DEF ReadOf
  <2>2. /\ m[k] \in Nat /\ v[k] \in Nat /\ pos = m[k] + 1 /\ CharAt(v[k]) = ")"
        /\ Stands(text, c.values[k], m[k], v[k])
    BY <1>5, <1>8, <2>1 DEF PairsFrom, PairPlace, PairsAt, CharAt
  <2> QED BY <2>2, StringFound DEF Delims
<1> QED BY <1>7, <1>8

LEMMA KeyRoom ==
    ASSUME IInv, TextInv, NEW g, Reading(g), ReadInv(g), at = "key", op # "write"
    PROVE  \E b : StringEnds(b)
<1> DEFINE k == Len(keys)
<1>1. at \in Held \ {"list"}
  BY DEF Held
<1>2. k \in Nat
  BY DEF IInv, ListInv
<1>3. PICK e \in LinesFrom(text, g.a), w \in Words :
         /\ OnLine(g, e, w) /\ w.place = "list"
         /\ \A c : c = InLine(input, g.n, from, e) =>
               ListOf(c, e) /\ values = <<>> /\ \E m : KeysFrom(c, m)
  BY <1>1, ListLineForms
<1>4. PICK c : c = InLine(input, g.n, from, e)
  OBVIOUS
<1>5. PICK m : KeysFrom(c, m)
  BY <1>3, <1>4
<1>6. ReadOf(c) /\ Len(c.keys) \in Nat
  BY <1>3, <1>4 DEF ListOf
<1>7. k + 1 \in 1..Len(c.keys) /\ k \in 0..Len(c.keys) /\ k + 1 \in 0..Len(c.keys)
  BY <1>2, <1>6 DEF ReadOf
<1>8. /\ m[k] \in Nat /\ m[k + 1] \in Nat /\ pos = m[k] + 1
      /\ CharAt(m[k + 1]) = (IF k + 1 < Len(c.keys) THEN Comma ELSE "]")
      /\ Stands(text, c.keys[k + 1], m[k], m[k + 1])
  <2>1. k + 1 - 1 = k
    BY <1>2
  <2> QED BY <1>5, <1>7, <2>1 DEF KeysFrom, ListPlace, ListAt, CharAt
<1> QED BY <1>8, StringFound DEF Delims

LEMMA OverrunRule ==
    ASSUME IInv, TextInv, NEW g, Reading(g), ReadInv(g), Overrun
    PROVE  ReadInv(g)'
<1> SUFFICES ASSUME at \in {"key", "value"}, StringOverruns PROVE FALSE
  BY NumberRoom DEF Overrun
<1>1. at = "value" => op = "write"
  BY DEF IInv, ListInv
<1> QED BY <1>1, StringRoom, PairRoom, KeyRoom

-----------------------------------------------------------------------------
(* A file by the rules is read as it was meant                             *)

LEMMA InputKept == [Next]_vars => UNCHANGED input
BY DEF Next, vars, GetNextWord, GetNextEmpty, GetNextInvalid, GetNextEOC, Bare,
   OpenList, OpenPair, PairKey, PairValue, AfterPair, ListKey, Full, EndOfLine, Number,
   Overrun, Expect, Accept, Reject

\* What holds of the place in a file goes on to hold, whatever is read next.
LEMMA StepRead ==
    ASSUME IInv, TextInv, NEW g, Reading(g), ReadInv(g), [Next]_vars
    PROVE  Reading(g)' /\ ReadInv(g)'
<1>1. UNCHANGED input /\ text' = text
  BY InputKept, SameText
<1>2. Reading(g)'
  BY <1>1 DEF Reading
<1>3. CASE Next
  BY <1>2, <1>3, GetNextWordRule, GetNextEmptyRule, GetNextInvalidRule,
     GetNextEOCRule, BareRule, OpenListRule, OpenPairRule, PairKeyRule, PairValueRule,
     AfterPairRule, ListKeyRule, FullRule, EndOfLineRule, NumberRule, OverrunRule DEF Next
<1>4. CASE UNCHANGED vars
  <2>1. UNCHANGED <<input, pos, at, op, keys, values, from, accepted>>
    BY <1>4 DEF vars
  <2>2. text' = text /\ Words' = Words /\ FileSoFar(g)'
    BY <2>1, SameText DEF ReadInv, FileSoFar, Words, side
  <2>3. CASE at \in Inside
    <3>1. PICK e \in LinesFrom(text, g.a), w \in Words : OnLine(g, e, w)
      BY <2>3 DEF ReadInv
    <3>2. PICK c : c = InLine(input, g.n, from, e)
      OBVIOUS
    <3>3. InPlace(c, w)
      BY <3>1, <3>2, LineForms
    <3>4. InPlace(c, w)'
      BY <2>1, <2>2, <3>3 DEF InPlace, ReadOf, Placed, PairPlace, ListPlace
    <3>5. at' \in Inside
      BY <2>1, <2>3
    <3>6. ReadInv(g)'
      BY <2>1, <3>1, <3>2, <3>4, <3>5, Going
    <3> QED BY <1>2, <3>6
  <2>4. CASE at \notin Inside
    BY <1>2, <2>1, <2>2, <2>4 DEF ReadInv
  <2> QED BY <2>3, <2>4
<1> QED BY <1>3, <1>4

\* At the end all the commands from a on have been read.
LEMMA ReadDone ==
    ASSUME IInv, NEW g, Reading(g), ReadInv(g), Done
    PROVE  Len(accepted) = g.k + Len(input.file)
<1>1. CASE at = "end"
  BY <1>1 DEF ReadInv
<1>2. CASE at = "next" /\ Char = EOF
  <2>1. pos = TextEnd
    BY <1>2, Position
  <2>2. g.n[TextEnd] = Len(input.file)
    BY ReadingType, Position
  <2> QED BY <1>2, <2>1, <2>2 DEF ReadInv
<1> QED BY <1>1, <1>2 DEF Done

\* Nothing has been read yet.
Whole(g) == Reading(g) /\ g.a = 1 /\ g.k = 0 /\ g.d = 0
RuleInv == \A g : Whole(g) => ReadInv(g)

LEMMA InitRule == Init => RuleInv
<1> SUFFICES ASSUME Init, NEW g, Whole(g) PROVE ReadInv(g)
  BY DEF RuleInv
<1>1. input \in Inputs /\ pos = 1 /\ at = "next" /\ accepted = <<>>
  BY DEF Init
<1>2. g.a = 1 /\ g.k = 0 /\ g.d = 0 /\ Reading(g)
  BY DEF Whole
<1>3. g.n[1] = 0 /\ 1 \in LinesFrom(text, g.a)
  BY <1>1, <1>2, ReadingType, LinesType
<1> QED BY <1>1, <1>2, <1>3 DEF ReadInv, FileSoFar, Inside

LEMMA StepRule == IInv /\ TextInv /\ RuleInv /\ [Next]_vars => RuleInv'
<1> SUFFICES ASSUME IInv, TextInv, RuleInv, [Next]_vars, NEW g, Whole(g)'
             PROVE  ReadInv(g)'
  BY DEF RuleInv
<1>1. UNCHANGED input /\ text' = text
  BY InputKept, SameText
<1>2. Whole(g)
  BY <1>1 DEF Whole, Reading
<1>3. ReadInv(g) /\ Reading(g)
  BY <1>2 DEF RuleInv, Whole
<1> QED BY <1>3, StepRead

\* A file made by the rules is read as it was meant: whatever its commands and
\* however they are spread over lines, comments and empty lines, the program gets
\* all of them, once and in order.
THEOREM FilesRead == Spec => []RulesRead
<1>1. Init => IInv /\ TextInv /\ RuleInv
  BY InitInv, InitText, InitRule
<1>2. IInv /\ TextInv /\ RuleInv /\ [Next]_vars => (IInv /\ TextInv /\ RuleInv)'
  BY StepInv, StepText, StepRule
<1>3. IInv /\ TextInv /\ RuleInv => RulesRead
  <2> SUFFICES ASSUME IInv, RuleInv, RuledFrom(input, 1)
               PROVE  at # "stopped" /\ (Done => Commands = input.file)
    BY DEF RulesRead
  <2>1. PICK g : g = [a |-> 1, n |-> CommandsBefore(input.text, 1), k |-> 0, d |-> 0]
    OBVIOUS
  <2>2. g.a = 1 /\ g.n = CommandsBefore(input.text, 1) /\ g.k = 0 /\ g.d = 0
    BY <2>1
  <2>3. Reading(g)
    <3>1. 1 \in Starts(text)
      BY Position, StartsType
    <3> QED BY <2>2, <3>1 DEF Reading, RuledFrom
  <2>4. ReadInv(g)
    BY <2>2, <2>3 DEF RuleInv, Whole
  <2>5. Len(input.file) \in Nat /\ input.file = [i \in 1..Len(input.file) |-> input.file[i]]
    BY FileForms, Position
  <2>6. ASSUME Done PROVE Len(accepted) = Len(input.file)
    <3>1. Len(accepted) = g.k + Len(input.file)
      BY <2>3, <2>4, <2>6, ReadDone
    <3> QED BY <2>2, <2>5, <3>1
  <2>7. ASSUME Done, NEW i \in 1..Len(accepted) PROVE Command(accepted[i]) = input.file[i]
    <3>1. i > g.k + g.d /\ i - g.k = i
      BY <2>2, <2>5, <2>6, <2>7
    <3> QED BY <2>4, <2>7, <3>1 DEF ReadInv, FileSoFar
  <2>8. at # "stopped"
    BY <2>4 DEF ReadInv
  <2> QED BY <2>5, <2>6, <2>7, <2>8 DEF Commands
<1> QED BY <1>1, <1>2, <1>3, PTL DEF Spec

-----------------------------------------------------------------------------
(* What damage costs                                                       *)

\* Two lines at a and b begin with the keywords of commands with arguments, and s
\* is behind them.
Guards(a, b, s) ==
    /\ a \in Starts(text) /\ b \in Starts(text) /\ s \in Starts(text)
    /\ Follows(text, a, b) /\ Follows(text, b, s)
    /\ \A p \in {a, b} : \E w \in Words : w.place # "bare" /\ FoundIn(text, p, w.op)
    /\ side = "client" => \A p \in 1..(a - 1) : ~FoundIn(text, p, "disconnect")

\* What ends a string that is wanted.
Closing == {Comma, ")", "]"}

\* What the line of such a keyword looks like.
LEMMA GuardLine ==
    ASSUME input \in Inputs, NEW p \in Starts(text), NEW e \in Starts(text),
           Follows(text, p, e), NEW w \in Words, w.place # "bare", FoundIn(text, p, w.op)
    PROVE  /\ p \in 1..Len(text) /\ p + 5 <= e
           /\ e # TextEnd => p + 6 <= e
           /\ CharAt(p) \notin {"#", "\n"}
           /\ \E z \in p..(e - 1) :
                /\ CharAt(z) \in Delims \ Closing
                /\ \A k \in p..(z - 1) : CharAt(k) \notin Delims
                /\ e # TextEnd => z + 2 <= e
<1>1. /\ Len(text) \in Nat /\ p \in 1..TextEnd /\ e \in 1..TextEnd /\ p < e
      /\ p \in Nat /\ e \in Nat
  BY LengthType, StartsType DEF TextEnd, Follows
<1>2. p \in 1..Len(text)
  BY <1>1 DEF TextEnd
<1>3. PICK n : n = Len(Keyword[w.op]) /\ n \in 1..12 /\ n >= 5
  BY WordLength
<1>4. PICK z : z = p + n - 1
  OBVIOUS
<1>5. /\ p <= z /\ z <= Len(text) /\ CharAt(p) \notin {"#", "\n"}
      /\ \A k \in p..z : CharAt(k) # "\n"
      /\ \A k \in p..(z - 1) : CharAt(k) \notin Delims
  BY <1>2, <1>3, <1>4, WordFound
<1>6. z \in Nat /\ p + 4 <= z
  BY <1>1, <1>3, <1>4
<1>7. e # TextEnd => z + 2 <= e
  <2> SUFFICES ASSUME e # TextEnd PROVE z + 2 <= e
    OBVIOUS
  <2>1. e # 1
    BY <1>1
  <2>2. CharAt(e - 1) = "\n"
    BY <2>1, StartsType DEF Landed
  <2>3. e - 1 \notin p..z
    BY <1>5, <2>2
  <2> QED BY <1>1, <1>6, <2>3
<1>8. z + 1 <= e
  BY <1>1, <1>5, <1>6, <1>7 DEF TextEnd
<1>9. z \in p..(e - 1)
  BY <1>1, <1>5, <1>6, <1>8
<1>10. CharAt(z) \in Delims \ Closing
  <2>1. CharAt(z) = " "
    BY <1>2, <1>3, <1>4, WordFound
  <2>2. " " \notin {",", ")", "]"}
    OBVIOUS
  <2> QED BY <2>1, <2>2 DEF Delims, Closing, Comma
<1>11. p + 5 <= e /\ (e # TextEnd => p + 6 <= e)
  BY <1>1, <1>6, <1>7, <1>8
<1> QED BY <1>2, <1>5, <1>7, <1>9, <1>10, <1>11

\* The places of two such lines.
LEMMA GuardForms ==
    ASSUME input \in Inputs, NEW a, NEW b, NEW s, Guards(a, b, s)
    PROVE  /\ a \in Nat \ {0} /\ b \in Nat /\ s \in Nat /\ a < b /\ b < s
           /\ b <= Len(text) /\ s <= TextEnd /\ (s = TextEnd \/ a + 12 <= s)
           /\ a = 1 \/ CharAt(a - 1) = "\n"
           /\ \A p \in Starts(text) : p <= s => p < a \/ p \in {a, b, s}
           /\ \E z \in a..(b - 1) :
                /\ CharAt(z) \in Delims \ Closing /\ z + 2 <= b
                /\ \A k \in a..(z - 1) : CharAt(k) \notin Delims
<1>1. /\ a \in Starts(text) /\ b \in Starts(text) /\ s \in Starts(text)
      /\ Follows(text, a, b) /\ Follows(text, b, s)
  BY DEF Guards
<1>2. PICK w \in Words : w.place # "bare" /\ FoundIn(text, a, w.op)
  BY DEF Guards
<1>3. PICK v \in Words : v.place # "bare" /\ FoundIn(text, b, v.op)
  BY DEF Guards
<1>4. /\ Len(text) \in Nat /\ a \in Nat \ {0} /\ b \in Nat /\ s \in Nat /\ a < b /\ b < s
      /\ s <= TextEnd /\ TextEnd = Len(text) + 1
  BY <1>1, LengthType, StartsType DEF TextEnd, Follows
<1>5. /\ a \in 1..Len(text) /\ (b # TextEnd => a + 6 <= b)
      /\ \E z \in a..(b - 1) :
           /\ CharAt(z) \in Delims \ Closing
           /\ \A k \in a..(z - 1) : CharAt(k) \notin Delims
           /\ b # TextEnd => z + 2 <= b
  BY <1>1, <1>2, GuardLine
<1>6. b \in 1..Len(text) /\ (s # TextEnd => b + 6 <= s)
  BY <1>1, <1>3, GuardLine
<1>7. b # TextEnd
  BY <1>4, <1>6
<1>8. s = TextEnd \/ a + 12 <= s
  BY <1>4, <1>5, <1>6, <1>7
<1>9. a = 1 \/ CharAt(a - 1) = "\n"
  <2>1. a # TextEnd
    BY <1>4, <1>5
  <2> QED BY <1>1, <2>1, StartsType DEF Landed
<1>10. ASSUME NEW p \in Starts(text), p <= s PROVE p < a \/ p \in {a, b, s}
  <2>1. p <= a \/ b <= p
    BY <1>1 DEF Follows
  <2>2. p <= b \/ s <= p
    BY <1>1 DEF Follows
  <2>3. p \in Nat
    BY <1>10, StartsType DEF TextEnd
  <2> QED BY <1>4, <1>10, <2>1, <2>2, <2>3
<1> QED BY <1>4, <1>5, <1>6, <1>7, <1>8, <1>9, <1>10

\* cleanup goes no further than to the next start of a line.
LEMMA Reached ==
    ASSUME input \in Inputs, NEW p \in 1..TextEnd, NEW e \in Starts(text),
           p < e \/ e = TextEnd
    PROVE  Cleanup(p) \in Starts(text) /\ p <= Cleanup(p) /\ Cleanup(p) <= e
<1>1. Len(text) \in Nat /\ p \in Nat \ {0} /\ TextEnd \in Nat /\ e \in 1..TextEnd
  BY LengthType, StartsType DEF TextEnd
<1>2. PICK x : x = Cleanup(p)
  OBVIOUS
<1>3. x \in p..TextEnd /\ Landed(x)
  BY <1>2, CleanupLands
<1>4. x \in Nat /\ p <= x /\ x <= TextEnd
  BY <1>1, <1>3
<1>5. x \in Starts(text)
  <2>1. CASE x = TextEnd \/ x = 1
    BY <2>1, StartsType
  <2>2. CASE x # TextEnd /\ x # 1
    <3>1. CharAt(x - 1) = "\n" /\ x - 1 \in 1..Len(text) /\ x - 1 + 1 = x
      BY <1>1, <1>3, <1>4, <2>2 DEF Landed, TextEnd
    <3>2. PICK y \in 1..Len(text) : y = x - 1 /\ CharAt(y) = "\n" /\ y + 1 = x
      BY <3>1
    <3> QED BY <3>2, StartsType
  <2> QED BY <2>1, <2>2
<1>6. x <= e
  <2>1. CASE e = TextEnd
    BY <1>4, <2>1
  <2>2. CASE e # TextEnd
    <3>1. p < e /\ e # 1
      BY <1>1, <2>2
    <3>2. CharAt(e - 1) = "\n"
      BY <2>2, <3>1, StartsType DEF Landed
    <3>3. e - 1 \in NewlinesFrom(p)
      BY <1>1, <2>2, <3>1, <3>2 DEF NewlinesFrom, TextEnd
    <3>4. NewlinesFrom(p) \subseteq Nat
      BY <1>1 DEF NewlinesFrom
    <3>5. PICK f \in NewlinesFrom(p) : (\A k \in NewlinesFrom(p) : f <= k) /\ x = 1 + f
      <4>1. PICK f : f = (CHOOSE i \in NewlinesFrom(p) : \A k \in NewlinesFrom(p) : i <= k)
        OBVIOUS
      <4>2. f \in NewlinesFrom(p) /\ \A k \in NewlinesFrom(p) : f <= k
        BY <3>3, <3>4, <4>1, LeastElement
      <4>3. x = 1 + f
        BY <1>2, <3>3, <4>1 DEF Cleanup
      <4> QED BY <4>2, <4>3
    <3>6. f <= e - 1 /\ f \in Nat
      BY <3>3, <3>4, <3>5
    <3> QED BY <1>1, <3>5, <3>6
  <2> QED BY <2>1, <2>2
<1> QED BY <1>2, <1>4, <1>5, <1>6

\* Before the line at a, or at the start of one of the next.
Moved(a, b, s) == (pos < a /\ at # "end") \/ (at = "next" /\ pos \in {a, b, s})

\* A rejection before s leads there.
LEMMA RejectedBefore ==
    ASSUME IInv, NEW a, NEW b, NEW s, Guards(a, b, s),
           NEW p \in 1..TextEnd, p < s \/ s = TextEnd, Reject(p)
    PROVE  Moved(a, b, s)'
<1>1. at' = "next" /\ pos' = Cleanup(p)
  BY DEF Reject, Goto
<1>2. input \in Inputs /\ s \in Starts(text)
  BY Position DEF Guards
<1>3. PICK x : x = Cleanup(p) /\ x \in Starts(text) /\ x <= s
  BY <1>2, Reached
<1>4. x < a \/ x \in {a, b, s}
  BY <1>2, <1>3, GuardForms
<1> QED BY <1>1, <1>3, <1>4 DEF Moved

\* What a command is being read from is its keyword; a server has no DISCONNECT.
BehindInv == at \in Inside => FoundIn(text, from, op) /\ (op = "disconnect" => side = "client")

LEMMA GoesOn ==
    ASSUME Next
    PROVE  GetNextWord \/ (UNCHANGED <<input, op, from>> /\ (at' \in Inside => at \in Inside))
<1>1. ASSUME GetNextEmpty \/ GetNextInvalid \/ GetNextEOC
      PROVE  UNCHANGED <<input, op, from>> /\ at' \notin Inside
  BY <1>1 DEF GetNextEmpty, GetNextInvalid, GetNextEOC, Expect, Reject, Goto, Inside
<1>2. ASSUME Bare \/ EndOfLine \/ Number \/ OpenList \/ OpenPair \/ AfterPair \/ Full
      PROVE  UNCHANGED <<input, op, from>>
  BY <1>2 DEF Bare, EndOfLine, Number, OpenList, OpenPair, AfterPair, Full, Expect, Reject, Accept
<1>3. ASSUME PairKey \/ PairValue \/ ListKey PROVE UNCHANGED <<input, op, from>>
  BY <1>3 DEF PairKey, PairValue, ListKey, Reject
<1>5. ASSUME Overrun PROVE UNCHANGED <<input, op, from>> /\ at' \notin Inside
  BY <1>5 DEF Overrun, Goto, Inside
<1>4. ASSUME Bare \/ EndOfLine \/ Number \/ OpenList \/ OpenPair \/ AfterPair \/ Full
             \/ PairKey \/ PairValue \/ ListKey
      PROVE  at \in Inside
  BY <1>4 DEF Bare, EndOfLine, Number, OpenList, OpenPair, AfterPair, Full, PairKey, PairValue,
     ListKey, Inside, Places
<1> QED BY <1>1, <1>2, <1>3, <1>4, <1>5 DEF Next

LEMMA StepBehind == IInv /\ BehindInv /\ [Next]_vars => BehindInv'
<1> SUFFICES ASSUME IInv, BehindInv, [Next]_vars PROVE BehindInv'
  OBVIOUS
<1>1. CASE GetNextWord
  <2>1. PICK w \in Words : Found(w) /\ op' = w.op
    BY <1>1 DEF GetNextWord
  <2>2. UNCHANGED input /\ from' = pos
    BY <1>1 DEF GetNextWord
  <2>3. side \in {"server", "client"} /\ (side = "server" => w.op # "disconnect")
    BY <2>1, Position DEF Words, WordsOf
  <2> QED BY <2>1, <2>2, <2>3, SameText DEF BehindInv, Found
<1>2. CASE UNCHANGED <<input, op, from>> /\ (at' \in Inside => at \in Inside)
  BY <1>2, SameText DEF BehindInv
<1>3. CASE UNCHANGED vars
  BY <1>3, SameText DEF BehindInv, vars
<1> QED BY <1>1, <1>2, <1>3, GoesOn

\* Before a line the parser is not at the end of the one before it.
LEMMA Nearby ==
    ASSUME IInv, NEW a, NEW b, NEW s, Guards(a, b, s), pos < a
    PROVE  /\ pos \in Nat \ {0} /\ a \in Nat /\ pos <= Len(text) /\ Len(text) \in Nat
           /\ a <= Len(text) /\ TextEnd = Len(text) + 1 /\ TextEnd \in Nat
           /\ CharAt(a - 1) = "\n" /\ Char # EOF
           /\ Ahead(1) = pos + 1 /\ pos + 1 <= a /\ pos + 1 \in 1..TextEnd
           /\ Char # "\n" => pos + 1 < a
           /\ a < b /\ b < s /\ b \in Nat /\ s \in Nat
<1>1. /\ pos \in Nat \ {0} /\ Len(text) \in Nat /\ input \in Inputs
      /\ TextEnd = Len(text) + 1
  BY Position DEF TextEnd
<1>2. /\ a \in Nat /\ b \in Nat /\ s \in Nat /\ a < b /\ b < s /\ b <= Len(text)
      /\ a = 1 \/ CharAt(a - 1) = "\n"
  BY <1>1, GuardForms
<1>3. CharAt(a - 1) = "\n" /\ pos + 1 <= a /\ pos <= Len(text) /\ a <= Len(text)
  BY <1>1, <1>2
<1>4. Char # EOF
  <2>1. ~(pos > Len(text))
    BY <1>1, <1>3
  <2> QED BY <1>1, <2>1, EndIsBehind DEF Char
<1>5. Ahead(1) = pos + 1 /\ pos + 1 \in 1..TextEnd /\ TextEnd \in Nat
  BY <1>1, <1>3, <1>4, Position
<1>6. Char # "\n" => pos + 1 < a
  <2> SUFFICES ASSUME pos + 1 = a PROVE Char = "\n"
    BY <1>1, <1>2, <1>3
  <2>1. a - 1 = pos
    BY <1>1
  <2> QED BY <1>3, <2>1 DEF Char
<1> QED BY <1>1, <1>2, <1>3, <1>4, <1>5, <1>6

\* The next character is not the last of the line, or what follows is one.
LEMMA WentOn ==
    ASSUME IInv, NEW a, NEW b, NEW s, Guards(a, b, s), pos < a,
           Char # "\n", pos' = pos + 1, at' # "end"
    PROVE  Moved(a, b, s)'
BY Nearby DEF Moved

LEMMA RejectedAhead ==
    ASSUME IInv, NEW a, NEW b, NEW s, Guards(a, b, s), pos < a, Reject(Ahead(1))
    PROVE  Moved(a, b, s)'
<1>1. PICK p \in 1..TextEnd : p = Ahead(1) /\ p < s
  BY Nearby
<1> QED BY <1>1, RejectedBefore

\* The guards keep out of what is accepted before them.
LEMMA AcceptedBefore ==
    ASSUME IInv, BehindInv, NEW a, NEW b, NEW s, Guards(a, b, s), pos < a, at \in Inside,
           NEW p \in Nat, p <= a, Accept(p)
    PROVE  Moved(a, b, s)'
<1>1. pos' = p /\ at' = IF op = "disconnect" THEN "end" ELSE "next"
  BY DEF Accept, Goto
<1>2. op # "disconnect"
  <2> SUFFICES ASSUME op = "disconnect" PROVE FALSE
    OBVIOUS
  <2>1. FoundIn(text, from, "disconnect") /\ side = "client"
    BY DEF BehindInv
  <2>2. from \in 1..(a - 1)
    <3>1. from \in 1..pos /\ pos \in Nat /\ a \in Nat
      BY Position, Nearby
    <3> QED BY <3>1
  <2> QED BY <2>1, <2>2 DEF Guards
<1>3. a \in Nat
  BY Nearby
<1> QED BY <1>1, <1>2, <1>3 DEF Moved

LEMMA GetNextWordBefore ==
    ASSUME IInv, NEW a, NEW b, NEW s, Guards(a, b, s), pos < a, GetNextWord
    PROVE  Moved(a, b, s)'
<1>1. PICK w \in Words : /\ Found(w) /\ pos' = pos + Len(Keyword[w.op]) /\ at' = w.place
  BY DEF GetNextWord, Goto
<1>2. PICK n \in 1..12 : n = Len(Keyword[w.op])
  BY Position, WordLength
<1>3. at' # "end"
  BY <1>1, Position, WordForms DEF Words
<1>4. /\ pos \in Nat \ {0} /\ a \in Nat /\ pos \in 1..Len(text) /\ pos <= a - 1
      /\ CharAt(a - 1) = "\n"
  BY Nearby
<1>5. PICK z : z = pos + n - 1
  OBVIOUS
<1>6. \A k \in pos..z : CharAt(k) # "\n"
  <2>1. FoundIn(text, pos, w.op) /\ input \in Inputs
    BY <1>1, Position DEF Found
  <2> QED BY <1>2, <1>4, <1>5, <2>1, WordFound
<1>7. a - 1 \notin pos..z
  BY <1>4, <1>6
<1>8. pos' < a
  BY <1>1, <1>2, <1>4, <1>5, <1>7
<1> QED BY <1>3, <1>8 DEF Moved

LEMMA GetNextEmptyBefore ==
    ASSUME IInv, NEW a, NEW b, NEW s, Guards(a, b, s), pos < a, GetNextEmpty
    PROVE  Moved(a, b, s)'
<1>1. /\ at' = "next" /\ Char \in {"#", "\n"}
      /\ pos' = (IF Char = "#" THEN Cleanup(pos + 1) ELSE pos + 1)
  BY DEF GetNextEmpty, Expect, Goto
<1>2. CASE Char = "#"
  <2>1. PICK p \in 1..TextEnd : p = pos + 1 /\ p < s
    BY Nearby
  <2>2. s \in Starts(text) /\ input \in Inputs
    BY Position DEF Guards
  <2>3. PICK x : x = Cleanup(p) /\ x \in Starts(text) /\ x <= s
    BY <2>1, <2>2, Reached
  <2>4. x < a \/ x \in {a, b, s}
    BY <2>2, <2>3, GuardForms
  <2> QED BY <1>1, <1>2, <2>1, <2>3, <2>4 DEF Moved
<1>3. CASE Char = "\n"
  <2>1. Char # "#"
    BY <1>3
  <2>2. pos' = pos + 1 /\ pos \in Nat /\ a \in Nat /\ pos + 1 <= a
    BY <1>1, <2>1, Nearby
  <2> QED BY <1>1, <2>2 DEF Moved
<1> QED BY <1>1, <1>2, <1>3

\* What get_next reads in vain is over before the second of two lines is.
LEMMA GetNextInvalidBefore ==
    ASSUME IInv, NEW a, NEW b, NEW s, Guards(a, b, s), pos < a, GetNextInvalid
    PROVE  Moved(a, b, s)'
<1>1. PICK n \in Nat : n = Reads(Char) /\ n <= 12
  BY Position, ReadsType
<1>2. PICK p : p = Ahead(n)
  OBVIOUS
<1>3. Reject(p)
  BY <1>1, <1>2 DEF GetNextInvalid
<1>4. p \in pos..TextEnd /\ (pos + n <= TextEnd => p = pos + n) /\ (pos + n >= TextEnd => p = TextEnd)
  BY <1>2, Position, AheadType
<1>5. pos \in Nat \ {0} /\ a \in Nat /\ pos < a /\ s \in Nat /\ TextEnd \in Nat
  BY Nearby
<1>6. s = TextEnd \/ a + 12 <= s
  BY Position, GuardForms
<1>7. p \in 1..TextEnd
  BY <1>4, <1>5
<1>8. p < s \/ s = TextEnd
  <2>1. CASE a + 12 <= s
    <3>1. s <= TextEnd
      BY Position, GuardForms
    <3> QED BY <1>1, <1>4, <1>5, <2>1, <3>1
  <2> QED BY <1>6, <2>1
<1> QED BY <1>3, <1>7, <1>8, RejectedBefore

\* A string that has been begun before the lines ends with the keyword in the
\* first of them if it has not ended before, and then it is none that is wanted.
LEMMA StringBefore ==
    ASSUME IInv, NEW a, NEW b, NEW s, Guards(a, b, s), pos < a
    PROVE  /\ \A q : StringEnds(q) =>
                /\ q + 1 \in 1..TextEnd /\ q + 1 < b
                /\ CharAt(q) \in Closing => q + 1 < a
           /\ StringFails => Ahead(MaxString) \in 1..TextEnd /\ Ahead(MaxString) < b
<1>1. /\ pos \in Nat \ {0} /\ a \in Nat /\ b \in Nat /\ pos < a /\ a < b /\ b < s
      /\ Len(text) \in Nat /\ TextEnd = Len(text) + 1 /\ CharAt(a - 1) = "\n"
      /\ input \in Inputs
  BY Nearby, Position
<1>2. PICK z \in a..(b - 1) :
         /\ CharAt(z) \in Delims \ Closing /\ z + 2 <= b
         /\ \A k \in a..(z - 1) : CharAt(k) \notin Delims
  BY <1>1, GuardForms
<1>3. z \in Nat /\ a <= z /\ z <= Len(text)
  <2>1. b <= Len(text)
    BY <1>1, GuardForms
  <2> QED BY <1>1, <1>2, <2>1
<1>4. ASSUME NEW q, StringEnds(q)
      PROVE  /\ q + 1 \in 1..TextEnd /\ q + 1 < b
             /\ CharAt(q) \in Closing => q + 1 < a
  <2>1. q \in pos..Len(text) /\ q + 1 \in pos..TextEnd
    BY <1>4, StringPlaces
  <2>2. q \in Nat /\ pos <= q
    BY <1>1, <2>1
  <2>3. CharAt(q) \in Delims /\ \A p \in pos..(q - 1) : CharAt(p) \notin Delims
    BY <1>4 DEF StringEnds
  <2>4. q <= z
    <3> SUFFICES ASSUME z < q PROVE FALSE
      BY <1>3, <2>2
    <3>1. z \in pos..(q - 1)
      BY <1>1, <1>3, <2>2
    <3> QED BY <1>2, <2>3, <3>1
  <2>5. CharAt(q) \in Closing => q < a
    <3> SUFFICES ASSUME CharAt(q) \in Closing, a <= q PROVE FALSE
      BY <1>1, <2>2
    <3>1. q # z
      BY <1>2
    <3>2. q \in a..(z - 1)
      BY <1>1, <1>3, <2>2, <2>4, <3>1
    <3> QED BY <1>2, <2>3, <3>2
  <2>6. CharAt(q) # "\n"
    BY <2>3 DEF Delims, Comma
  <2>7. q # a - 1
    BY <1>1, <2>6
  <2> QED BY <1>1, <1>2, <2>1, <2>2, <2>4, <2>5, <2>7
<1>5. ASSUME StringFails PROVE Ahead(MaxString) \in 1..TextEnd /\ Ahead(MaxString) < b
  <2>1. PICK n \in Nat : n = MaxString
    BY LimitsAssumption
  <2>2. PICK p : p = Ahead(n)
    OBVIOUS
  <2>3. p \in pos..TextEnd /\ (pos + n <= TextEnd => p = pos + n)
    BY <2>1, <2>2, Position, AheadType
  <2>4. z > pos + n - 1
    <3> SUFFICES ASSUME z <= pos + n - 1 PROVE FALSE
      BY <1>1, <1>3, <2>1
    <3> DEFINE Ends == {q \in pos..z : CharAt(q) \in Delims}
    <3>1. Ends \subseteq Nat /\ z \in Ends
      BY <1>1, <1>2, <1>3
    <3>2. PICK f \in Ends : \A q \in Ends : f <= q
      <4> HIDE DEF Ends
      <4> QED BY <3>1, LeastElement
    <3>3. f \in Nat /\ pos <= f /\ f <= z /\ CharAt(f) \in Delims
      BY <1>1, <1>3, <3>2
    <3>4. \A k \in pos..(f - 1) : CharAt(k) \notin Delims
      BY <1>1, <1>3, <3>2, <3>3
    <3>5. \A k \in pos..(f - 1) : CharAt(k) # EOF
      <4> TAKE k \in pos..(f - 1)
      <4>1. k \in Nat \ {0} /\ ~(k > Len(text))
        BY <1>1, <1>3, <3>3
      <4> QED BY <1>1, <4>1, EndIsBehind
    <3>6. f \in pos..(pos + MaxString - 1)
      BY <1>1, <1>3, <2>1, <3>3
    <3>7. StringEnds(f)
      BY <3>3, <3>4, <3>5, <3>6 DEF StringEnds
    <3> QED BY <1>5, <3>6, <3>7 DEF StringFails
  <2>5. p = pos + n /\ p < b
    BY <1>1, <1>2, <1>3, <2>1, <2>3, <2>4
  <2>6. p \in 1..TextEnd
    BY <1>1, <2>3
  <2> QED BY <2>1, <2>2, <2>5, <2>6
<1> QED BY <1>4, <1>5

\* A rejection in the lines before b, of the rest of the line and another one or not.
LEMMA RejectedTwice ==
    ASSUME IInv, NEW a, NEW b, NEW s, Guards(a, b, s), NEW p \in 1..TextEnd, p < b,
           Reject(p) \/ Reject(Cleanup(p))
    PROVE  Moved(a, b, s)'
<1>1. /\ input \in Inputs /\ b \in Starts(text) /\ b \in Nat /\ s \in Nat /\ b < s
      /\ TextEnd \in Nat
  <2>1. Len(text) \in Nat /\ input \in Inputs
    BY Position
  <2>2. b \in Nat /\ s \in Nat /\ b < s
    BY <2>1, GuardForms
  <2> QED BY <2>1, <2>2 DEF Guards, TextEnd
<1>2. CASE Reject(p)
  BY <1>1, <1>2, RejectedBefore
<1>3. CASE Reject(Cleanup(p))
  <2>1. PICK x : x = Cleanup(p)
    OBVIOUS
  <2>2. x \in Starts(text) /\ x <= b
    BY <1>1, <2>1, Reached
  <2>3. x \in 1..TextEnd
    BY <1>1, <2>2, StartsType
  <2>4. x < s
    BY <1>1, <2>2, <2>3
  <2> QED BY <1>3, <2>1, <2>3, <2>4, RejectedBefore
<1> QED BY <1>2, <1>3

LEMMA StringReadBefore ==
    ASSUME IInv, NEW a, NEW b, NEW s, Guards(a, b, s), pos < a, PairKey \/ PairValue \/ ListKey
    PROVE  Moved(a, b, s)'
<1>1. ASSUME StringFails, Reject(Ahead(MaxString)) \/ Reject(Cleanup(Ahead(MaxString)))
      PROVE  Moved(a, b, s)'
  <2>1. PICK p \in 1..TextEnd : p = Ahead(MaxString) /\ p < b
    BY <1>1, StringBefore
  <2> QED BY <1>1, <2>1, RejectedTwice
<1>2. ASSUME NEW q, StringEnds(q), Reject(q + 1) \/ Reject(Cleanup(q + 1))
      PROVE  Moved(a, b, s)'
  <2>1. PICK p \in 1..TextEnd : p = q + 1 /\ p < b
    BY <1>2, StringBefore
  <2> QED BY <1>2, <2>1, RejectedTwice
<1>3. ASSUME NEW q, StringEnds(q), CharAt(q) \in Closing, pos' = q + 1, at' # "end"
      PROVE  Moved(a, b, s)'
  BY <1>3, StringBefore DEF Moved
<1>4. CASE PairKey
  BY <1>1, <1>2, <1>3, <1>4 DEF PairKey, Goto, Closing
<1>5. CASE PairValue
  BY <1>1, <1>2, <1>3, <1>5 DEF PairValue, Goto, Closing
<1>6. CASE ListKey
  BY <1>1, <1>2, <1>3, <1>6 DEF ListKey, Goto, Closing
<1> QED BY <1>4, <1>5, <1>6

LEMMA NumberBefore ==
    ASSUME IInv, BehindInv, NEW a, NEW b, NEW s, Guards(a, b, s), pos < a, Number
    PROVE  Moved(a, b, s)'
<1>1. PICK q \in pos..TextEnd :
        /\ NumberEnds(q)
        /\ \/ Accept(IF side = "server" /\ CharAt(q) = " " THEN Cleanup(q + 1)
                     ELSE Ahead(q - pos + 1))
           \/ Reject(Ahead(q - pos + 1))
  BY DEF Number, TextEnd
<1>2. /\ pos \in Nat \ {0} /\ a \in Nat /\ pos < a /\ a <= Len(text) /\ Len(text) \in Nat
      /\ TextEnd = Len(text) + 1 /\ CharAt(a - 1) = "\n" /\ a < s /\ s \in Nat /\ a < b /\ b < s
      /\ b \in Nat /\ input \in Inputs
  BY Nearby, Position
<1>3. q \in Nat /\ q + 1 <= a /\ pos <= q
  <2>0. q \in pos..TextEnd
    BY <1>1
  <2>1. q \in Nat /\ pos <= q
    BY <1>2, <2>0
  <2>2. ~(a - 1 < q)
    <3> SUFFICES ASSUME a - 1 < q PROVE FALSE
      OBVIOUS
    <3>1. a - 1 \in pos..(q - 1)
      BY <1>2, <2>1
    <3>2. CharAt(a - 1) \in Digits
      BY <1>1, <3>1 DEF NumberEnds
    <3> QED BY <1>2, <3>2, SpaceAndLine
  <2> QED BY <1>2, <2>1, <2>2
<1>4. PICK p \in 1..TextEnd : p = Ahead(q - pos + 1) /\ p = q + 1
  <2>1. q - pos + 1 \in Nat /\ pos + (q - pos + 1) = q + 1 /\ q + 1 <= TextEnd /\ q + 1 \in 1..TextEnd
    BY <1>2, <1>3
  <2> QED BY <2>1, Position, AheadType
<1>5. at \in Inside
  BY DEF Number, Inside, Places
<1>6. CASE Reject(p)
  BY <1>2, <1>3, <1>4, <1>6, RejectedBefore
<1>7. CASE Accept(p)
  BY <1>2, <1>3, <1>4, <1>5, <1>7, AcceptedBefore
<1>8. CASE CharAt(q) = " " /\ Accept(Cleanup(q + 1))
  <2>1. CharAt(q) # "\n"
    BY <1>8
  <2>2. p < a
    <3>1. q # a - 1
      BY <1>2, <2>1
    <3> QED BY <1>2, <1>3, <1>4, <3>1
  <2>3. a \in Starts(text)
    BY DEF Guards
  <2>4. PICK x : x = Cleanup(p) /\ x \in Starts(text) /\ x <= a
    BY <1>2, <2>2, <2>3, Reached
  <2>5. x \in Nat
    BY <1>2, <2>4, StartsType
  <2> QED BY <1>4, <1>5, <1>8, <2>4, <2>5, AcceptedBefore
<1> QED BY <1>1, <1>4, <1>6, <1>7, <1>8

\* No step goes by both lines at once, or ends in the middle of one.
LEMMA StepBefore ==
    ASSUME IInv, BehindInv, NEW a, NEW b, NEW s, Guards(a, b, s), pos < a, Next
    PROVE  Moved(a, b, s)'
<1>1. CASE GetNextEOC
  BY <1>1, Nearby DEF GetNextEOC
<1>2. CASE Bare
  <2>1. at \in Inside
    BY <1>2 DEF Bare, Inside, Places
  <2>2. PICK p \in Nat : p = Ahead(1) /\ p <= a
    BY Nearby
  <2> QED BY <1>2, <2>1, <2>2, AcceptedBefore, RejectedAhead DEF Bare
<1>3. CASE EndOfLine
  <2>1. at \in Inside
    BY <1>3 DEF EndOfLine, Inside, Places
  <2>2. PICK p \in Nat : p = pos + 1 /\ p <= a
    BY Nearby
  <2> QED BY <1>3, <2>1, <2>2, AcceptedBefore, RejectedAhead DEF EndOfLine
<1>4. CASE OpenList
  <2>1. CASE Char = "["
    BY <1>4, <2>1, WentOn DEF OpenList, Expect, Goto
  <2> QED BY <1>4, <2>1, RejectedAhead DEF OpenList
<1>5. CASE OpenPair
  <2>1. CASE Char = "("
    BY <1>5, <2>1, WentOn DEF OpenPair, Expect, Goto
  <2> QED BY <1>5, <2>1, RejectedAhead DEF OpenPair
<1>6. CASE AfterPair
  <2>1. CASE Char \in {"(", "]"}
    BY <1>6, <2>1, WentOn DEF AfterPair, Expect, Goto
  <2> QED BY <1>6, <2>1, RejectedAhead DEF AfterPair
<1>7. CASE Full
  <2>1. CASE Reject(pos)
    <3>1. pos \in 1..TextEnd /\ pos < s
      BY Nearby, Position
    <3> QED BY <2>1, <3>1, RejectedBefore
  <2>2. CASE Expect("eol", pos)
    BY <2>2 DEF Expect, Goto, Moved
  <2> QED BY <1>7, <2>1, <2>2 DEF Full
<1>8. CASE Overrun
  BY <1>8 DEF Overrun, Goto, Moved
<1> QED BY <1>1, <1>2, <1>3, <1>4, <1>5, <1>6, <1>7, <1>8, GetNextWordBefore, GetNextEmptyBefore,
        GetNextInvalidBefore, StringReadBefore, NumberBefore DEF Next

-----------------------------------------------------------------------------
(* The commands behind the damage                                          *)

\* Behind the damage the commands of a file are read, but for two of them.
Behind(a, n) ==
    \E k \in Int : \E g \in {[a |-> a, n |-> n, k |-> k, d |-> 2]} :
        k + 2 >= 0 /\ Reading(g) /\ ReadInv(g)
Spared(a, n) == a \in Starts(text) /\ Counts(input, a, n) /\ Guarded(input, a)
DamageInv == \A a, n : Spared(a, n) => (pos < a /\ at # "end") \/ Behind(a, n)

\* The lines of the guards are counted as commands.
LEMMA GuardsCount ==
    ASSUME input \in Inputs, NEW a, NEW n, Spared(a, n)
    PROVE  \E b, s : /\ Guards(a, b, s)
                     /\ n[a] = 0 /\ n[b] = 1 /\ n[s] = 2 /\ {a, b, s} \subseteq LinesFrom(text, a)
                     /\ Len(input.file) >= 2
<1>1. /\ a \in Starts(text) /\ Counts(input, a, n) /\ Guarded(input, a)
  BY DEF Spared
<1>2. PICK b, s \in Starts(text) :
         /\ Follows(text, a, b) /\ Follows(text, b, s)
         /\ \A p \in {a, b} : \E w \in Words : w.place # "bare" /\ FoundIn(text, p, w.op)
  BY <1>1 DEF Guarded, text, Words, side
<1>3. side = "client" => \A p \in 1..(a - 1) : ~FoundIn(text, p, "disconnect")
  BY <1>1 DEF Guarded, text, side
<1>4. Guards(a, b, s)
  BY <1>1, <1>2, <1>3 DEF Guards
<1>5. /\ a \in LinesFrom(text, a) /\ b \in LinesFrom(text, a) /\ s \in LinesFrom(text, a)
  <2>1. a < b /\ b < s
    BY <1>2 DEF Follows
  <2> QED BY <1>1, <1>2, <2>1, LinesType
<1>6. PICK g : g = [a |-> a, n |-> n, k |-> 0, d |-> 0]
  OBVIOUS
<1>7. Reading(g) /\ g.n = n /\ g.a = a
  BY <1>1, <1>6 DEF Reading
<1>8. ASSUME NEW p \in {a, b}, NEW e \in LinesFrom(text, a), Follows(text, p, e)
      PROVE  n[e] = n[p] + 1
  <2>1. p \in LinesFrom(text, a) /\ p \in Starts(text) /\ e \in Starts(text)
    BY <1>1, <1>2, <1>5, <1>8, LinesType
  <2>2. PICK v \in Words : v.place # "bare" /\ FoundIn(text, p, v.op)
    BY <1>2
  <2>3. CharAt(p) \notin {"#", "\n"}
    BY <1>8, <2>1, <2>2, GuardLine
  <2>4. \E w \in Words : LineOf(input, n, p, e, w)
    BY <1>7, <1>8, <2>1, <2>3, ReadingType
  <2> QED BY <2>4 DEF LineOf
<1>9. n[a] = 0 /\ n[b] = 1
  <2>1. n[a] = 0
    BY <1>7, ReadingType
  <2>2. n[b] = n[a] + 1
    BY <1>2, <1>5, <1>8
  <2> QED BY <2>1, <2>2
<1>10. n[s] = 2
  <2>1. n[s] = n[b] + 1
    BY <1>2, <1>5, <1>8
  <2> QED BY <1>9, <2>1
<1>11. Len(input.file) >= 2
  <2>1. n[s] <= Len(input.file)
    BY <1>5, <1>7, ReadingType
  <2> QED BY <1>10, <2>1, FileForms
<1> QED BY <1>4, <1>5, <1>9, <1>10, <1>11

\* Where one of the lines is reached, the commands of the file begin.
LEMMA Entered ==
    ASSUME input \in Inputs, accepted \in Seq(Taken), NEW a, NEW n, Spared(a, n),
           NEW b, NEW s, n[a] = 0, n[b] = 1, n[s] = 2, {a, b, s} \subseteq LinesFrom(text, a),
           at = "next", pos \in {a, b, s}
    PROVE  Behind(a, n)
<1>1. PICK m \in 0..2 : m = n[pos]
  OBVIOUS
<1>2. PICK l \in Nat : l = Len(accepted)
  OBVIOUS
<1>3. PICK k \in Int : k = l - m
  BY <1>1, <1>2
<1>4. PICK g : g = [a |-> a, n |-> n, k |-> k, d |-> 2]
  OBVIOUS
<1>5. g.a = a /\ g.n = n /\ g.k = k /\ g.d = 2
  BY <1>4
<1>6. Reading(g)
  BY <1>5 DEF Reading, Spared
<1>7. k + 2 >= 0 /\ k + m = l /\ \A i \in 1..l : ~(i > k + 2)
  BY <1>1, <1>2, <1>3
<1>8. ReadInv(g)
  BY <1>1, <1>2, <1>5, <1>7 DEF ReadInv, FileSoFar, Inside
<1> QED BY <1>4, <1>6, <1>7, <1>8 DEF Behind

\* So it goes on from a step that ends before the lines or at one of them.
MovedInv ==
    input \in Inputs /\ accepted \in Seq(Taken) =>
        \A a, n, b, s :
            /\ Spared(a, n) /\ n[a] = 0 /\ n[b] = 1 /\ n[s] = 2
            /\ {a, b, s} \subseteq LinesFrom(text, a) /\ Moved(a, b, s)
            => (pos < a /\ at # "end") \/ Behind(a, n)

LEMMA MovedOn == MovedInv
BY Entered DEF MovedInv, Moved

LEMMA InitDamage == Init => DamageInv
<1> SUFFICES ASSUME Init, NEW a, NEW n, Spared(a, n)
             PROVE  (pos < a /\ at # "end") \/ Behind(a, n)
  BY DEF DamageInv
<1>1. /\ input \in Inputs /\ pos = 1 /\ at = "next" /\ accepted = <<>>
      /\ accepted \in Seq(Taken)
  BY DEF Init
<1>2. PICK b, s : /\ Guards(a, b, s)
                  /\ n[a] = 0 /\ n[b] = 1 /\ n[s] = 2 /\ {a, b, s} \subseteq LinesFrom(text, a)
  BY <1>1, GuardsCount
<1>3. a \in Nat \ {0}
  BY <1>1, <1>2, GuardForms
<1>4. Moved(a, b, s)
  BY <1>1, <1>3 DEF Moved
<1> QED BY <1>1, <1>2, <1>4, MovedOn DEF MovedInv

LEMMA StepDamage == IInv /\ TextInv /\ BehindInv /\ DamageInv /\ [Next]_vars => DamageInv'
<1> SUFFICES ASSUME IInv, TextInv, BehindInv, DamageInv, [Next]_vars, NEW a, NEW n, Spared(a, n)'
             PROVE  ((pos < a /\ at # "end") \/ Behind(a, n))'
  BY DEF DamageInv
<1>1. UNCHANGED input /\ text' = text
  BY InputKept, SameText
<1>2. Spared(a, n)
  BY <1>1 DEF Spared
<1>3. CASE Behind(a, n)
  <2>1. PICK k \in Int : \E g \in {[a |-> a, n |-> n, k |-> k, d |-> 2]} :
                            k + 2 >= 0 /\ Reading(g) /\ ReadInv(g)
    BY <1>3 DEF Behind
  <2>2. PICK g : /\ g = [a |-> a, n |-> n, k |-> k, d |-> 2]
                 /\ k + 2 >= 0 /\ Reading(g) /\ ReadInv(g)
    BY <2>1
  <2>3. Reading(g)' /\ ReadInv(g)'
    BY <2>2, StepRead
  <2> QED BY <2>2, <2>3 DEF Behind
<1>4. CASE pos < a /\ at # "end" /\ Next
  <2>1. PICK b, s : /\ Guards(a, b, s)
                    /\ n[a] = 0 /\ n[b] = 1 /\ n[s] = 2 /\ {a, b, s} \subseteq LinesFrom(text, a)
    BY <1>2, Position, GuardsCount
  <2>2. Moved(a, b, s)'
    BY <1>4, <2>1, StepBefore
  <2>3. input' \in Inputs /\ accepted' \in Seq(Taken)
    BY StepInv DEF IInv, PlaceInv, TakenInv
  <2>4. {a, b, s} \subseteq LinesFrom(text', a)
    BY <1>1, <2>1
  <2>5. MovedInv'
    BY MovedOn, PTL
  <2> QED BY <2>1, <2>2, <2>3, <2>4, <2>5 DEF MovedInv
<1>5. CASE pos < a /\ at # "end" /\ UNCHANGED vars
  BY <1>5 DEF vars
<1> QED BY <1>2, <1>3, <1>4, <1>5 DEF DamageInv

\* Whatever a text has before two lines of commands with arguments, from which on
\* it is made by the rules: no more than these two are lost with what is rejected,
\* and the program gets all that are behind them, once and in order.
THEOREM DamageEnds == Spec => []DamageContained
<1>1. Init => IInv /\ TextInv /\ BehindInv /\ DamageInv
  BY InitInv, InitText, InitDamage DEF Init, BehindInv, Inside
<1>2. IInv /\ TextInv /\ BehindInv /\ DamageInv /\ [Next]_vars
        => (IInv /\ TextInv /\ BehindInv /\ DamageInv)'
  BY StepInv, StepText, StepBehind, StepDamage
<1>3. IInv /\ DamageInv => DamageContained
  <2>0. ASSUME DamageInv, at = "stopped", NEW a \in Starts(text), Guarded(input, a),
               RuledFrom(input, a)
        PROVE  pos < a
    <3>1. PICK n : n = CommandsBefore(input.text, a)
      OBVIOUS
    <3>2. Spared(a, n)
      BY <2>0, <3>1 DEF Spared, RuledFrom
    <3>3. ~Behind(a, n)
      BY <2>0 DEF Behind, ReadInv
    <3> QED BY <2>0, <3>2, <3>3 DEF DamageInv
  <2> SUFFICES ASSUME IInv, DamageInv, Done, NEW a \in Starts(text),
                      Guarded(input, a), RuledFrom(input, a)
               PROVE  \E k \in 0..Len(accepted) :
                         SubSeq(Commands, k + 1, Len(accepted))
                            = SubSeq(input.file, 3, Len(input.file))
    BY <2>0 DEF DamageContained
  <2>1. PICK n : n = CommandsBefore(input.text, a)
    OBVIOUS
  <2>2. Spared(a, n)
    BY <2>1 DEF Spared, RuledFrom
  <2>3. PICK b, s : Guards(a, b, s) /\ Len(input.file) >= 2
    BY <2>2, Position, GuardsCount
  <2>4. ~(pos < a /\ at # "end")
    <3> SUFFICES ASSUME pos < a, at = "next", Char = EOF PROVE FALSE
      BY DEF Done
    <3> QED BY <2>3, Nearby
  <2>5. Behind(a, n)
    BY <2>2, <2>4 DEF DamageInv
  <2>6. PICK k \in Int : \E g \in {[a |-> a, n |-> n, k |-> k, d |-> 2]} :
                            k + 2 >= 0 /\ Reading(g) /\ ReadInv(g)
    BY <2>5 DEF Behind
  <2>7. PICK g : /\ g = [a |-> a, n |-> n, k |-> k, d |-> 2]
                 /\ k + 2 >= 0 /\ Reading(g) /\ ReadInv(g)
    BY <2>6
  <2>8. g.k = k /\ g.d = 2
    BY <2>7
  <2>9. PICK l \in Nat : l = Len(accepted)
    BY DEF IInv, TakenInv
  <2>10. PICK f \in Nat : f = Len(input.file) /\ f >= 2
    BY <2>3, Position, FileForms
  <2>11. l = k + f
    BY <2>7, <2>8, <2>9, <2>10, ReadDone
  <2>12. k + 2 \in 0..l
    BY <2>7, <2>10, <2>11
  <2>13. \A i \in 1..l : i > k + 2 => Command(accepted[i]) = input.file[i - k]
    BY <2>7, <2>8, <2>9 DEF ReadInv, FileSoFar
  <2>14. SubSeq(Commands, k + 2 + 1, l) = SubSeq(input.file, 3, f)
    <3>1. PICK j \in Nat : j = k + 2
      BY <2>12
    <3>2. SubSeq(Commands, j + 1, l) = [i \in 1..(l - j) |-> Commands[i + j]]
      BY <2>9, <2>12, <3>1
    <3>3. SubSeq(input.file, 3, f) = [i \in 1..(f - 2) |-> input.file[i + 2]]
      BY <2>10
    <3>4. l - j = f - 2
      BY <2>10, <2>11, <3>1
    <3>5. ASSUME NEW i \in 1..(f - 2) PROVE Commands[i + j] = input.file[i + 2]
      <4>1. PICK y : y = i + j
        OBVIOUS
      <4>2. y \in 1..l /\ y > k + 2 /\ y - k = i + 2
        BY <2>9, <2>10, <2>11, <3>1, <4>1
      <4>3. Commands[y] = Command(accepted[y])
        BY <2>9, <4>2 DEF Commands
      <4> QED BY <2>13, <4>1, <4>2, <4>3
    <3> QED BY <3>1, <3>2, <3>3, <3>4, <3>5
  <2> QED BY <2>9, <2>10, <2>12, <2>14
<1> QED BY <1>1, <1>2, <1>3, PTL DEF Spec
=============================================================================
