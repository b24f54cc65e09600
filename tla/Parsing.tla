------------------------------ MODULE Parsing ------------------------------
(***************************************************************************)
(* The two parsers: of job files (server/parser.c under run_job) and of a  *)
(* client's input (client/parser.c under process_stdin, the input being a  *)
(* file).  They read one character at a time and never go back, so that    *)
(* what a rejected line leaves unread is what the next command is read     *)
(* from.  A text is a string, of which TLC takes characters with SubSeq.   *)
(***************************************************************************)
EXTENDS Integers, Sequences, FiniteSets, SequencesExt

CONSTANTS
    Inputs,     \* [side, text, file]: who reads what, and the commands that it
                \* was written for
    MaxPairs,   \* MAX_WRITE_SIZE
    MaxString,  \* MAX_STRING_SIZE
    MaxUint,    \* UINT_MAX
    NumberBuffer \* the size of read_uint's buf

ASSUME InputsAssumption ==
    \A i \in Inputs :
        /\ i.side \in {"server", "client"} /\ Len(i.text) \in Nat
        /\ i.file \in Seq([op : STRING, keys : Seq(STRING), values : Seq(STRING)])
\* Texts are strings, which TLA+ takes for sequences of characters.
ASSUME TextAssumption ==
    \A i \in Inputs : \A p \in 1..Len(i.text) :
        /\ SubSeq(i.text, p, p) # "EOF"
        /\ \A n \in 0..(MaxString - 1) :
             p + n - 1 <= Len(i.text) => /\ SubSeq(i.text, p, p + n - 1) \in STRING
                                         /\ Len(SubSeq(i.text, p, p + n - 1)) = n
ASSUME LimitsAssumption ==
    MaxPairs \in Nat \ {0} /\ MaxString \in Nat \ {0} /\ MaxUint \in Nat /\ NumberBuffer \in Nat

VARIABLES
    input,          \* the program's input
    pos,            \* the position of the next character to be read
    at,             \* what the parser expects next
    op,             \* the command it is reading
    keys, values,   \* what it has read of it
    from,           \* where get_next began
    accepted        \* the commands handed to the program

vars == <<input, pos, at, op, keys, values, from, accepted>>
side == input.side
text == input.text

Places == {"next", "bare", "list", "pair", "key", "value", "after", "full",
           "eol", "number", "end", "stopped"}

Init ==
    /\ input \in Inputs
    /\ pos = 1 /\ from = 1
    /\ at = "next" /\ op = "none"
    /\ keys = <<>> /\ values = <<>>
    /\ accepted = <<>>

-----------------------------------------------------------------------------
(* Reading                                                                 *)

EOF == "EOF"
At(t, p) == IF p <= Len(t) THEN SubSeq(t, p, p) ELSE EOF
CharAt(p) == At(text, p)
Char == CharAt(pos)
\* The position after n more characters, as far as there are any.
Ahead(n) == IF pos + n <= Len(text) THEN pos + n ELSE Len(text) + 1

NewlinesFrom(p) == {i \in p..Len(text) : CharAt(i) = "\n"}

\* cleanup: where the reader is after it has skipped to the end of the line.
Cleanup(p) ==
    IF NewlinesFrom(p) = {} THEN Len(text) + 1
    ELSE 1 + (CHOOSE i \in NewlinesFrom(p) : \A k \in NewlinesFrom(p) : i <= k)

\* What separates keys, and a key from its value.
Comma == ","
Delims == {" ", Comma, ")", "]"}

\* What read_string reads: the string up to a delimiter, and the position of
\* this one if it comes soon enough for the buffer.  The buffer takes MaxString
\* characters before it gives up.
StringEnds(q) ==
    /\ q \in pos..(pos + MaxString - 1)
    /\ CharAt(q) \in Delims
    /\ \A p \in pos..(q - 1) : CharAt(p) \notin Delims \cup {EOF}
String(q) == SubSeq(text, pos, q - 1)

\* Where it is when it has found none.
StringFails == ~\E q \in pos..(pos + MaxString - 1) : StringEnds(q)

Goto(place) == at' = place

\* The rest of the line is skipped, "Invalid command" printed.
Reject(p) ==
    /\ pos' = Cleanup(p)
    /\ Goto("next")
    /\ UNCHANGED <<input, op, keys, values, from, accepted>>

\* The command goes to the program; a client ends with its DISCONNECT.
Accept(p) ==
    /\ pos' = p
    /\ accepted' = Append(accepted, [op |-> op, keys |-> keys, values |-> values,
                                     from |-> from, to |-> p])
    /\ Goto(IF op = "disconnect" THEN "end" ELSE "next")
    /\ UNCHANGED <<input, op, keys, values, from>>

Expect(place, p) ==
    /\ pos' = p
    /\ Goto(place)
    /\ UNCHANGED <<input, op, keys, values, from, accepted>>

-----------------------------------------------------------------------------
(* get_next                                                                *)

\* What get_next compares with.
Keyword ==
    [wait |-> "WAIT ", write |-> "WRITE ", read |-> "READ ", delete |-> "DELETE ",
     show |-> "SHOW", backup |-> "BACKUP", help |-> "HELP",
     subscribe |-> "SUBSCRIBE ", unsubscribe |-> "UNSUBSCRIBE ",
     delay |-> "DELAY ", disconnect |-> "DISCONNECT"]

\* The commands of each side, and what is expected behind their keywords.
WordsOf(s) ==
    IF s = "server"
    THEN {[op |-> "wait",   place |-> "number"],
          [op |-> "write",  place |-> "list"],
          [op |-> "read",   place |-> "list"],
          [op |-> "delete", place |-> "list"],
          [op |-> "show",   place |-> "bare"],
          [op |-> "backup", place |-> "bare"],
          [op |-> "help",   place |-> "bare"]}
    ELSE {[op |-> "subscribe",   place |-> "list"],
          [op |-> "unsubscribe", place |-> "list"],
          [op |-> "delay",       place |-> "number"],
          [op |-> "disconnect",  place |-> "bare"]}
Words == WordsOf(side)
ASSUME WordsAssumption ==
    \A s \in {"server", "client"} : \A w \in WordsOf(s) :
        Len(Keyword[w.op]) \in (IF w.place = "bare" THEN 1 ELSE 5)..12

\* How many characters get_next reads that finds this first one: the second try
\* ("WRITE " after "WAIT ", "DISCONNECT" after "DELAY ") reads on from the first.
Tries(c) == {Len(Keyword[w.op]) : w \in {v \in Words : SubSeq(Keyword[v.op], 1, 1) = c}}
Reads(c) == IF Tries(c) = {} THEN 1 ELSE CHOOSE n \in Tries(c) : \A m \in Tries(c) : m <= n

FoundIn(t, p, o) ==
    /\ p + Len(Keyword[o]) - 1 <= Len(t)
    /\ SubSeq(t, p, p + Len(Keyword[o]) - 1) = Keyword[o]
Found(w) == FoundIn(text, pos, w.op)

\* What is written at a place begins with one keyword of a side at most.  No
\* keyword begins with a "#" or contains a newline; those of commands with
\* arguments end with a space.
ASSUME KeywordsAssumption ==
    \A i \in Inputs : \A p \in 1..Len(i.text), v \in WordsOf(i.side) :
        FoundIn(i.text, p, v.op) =>
            LET z == p + Len(Keyword[v.op]) - 1
            IN  /\ At(i.text, p) # "#"
                /\ \A k \in p..z : At(i.text, k) # "\n"
                /\ \A w \in WordsOf(i.side) : FoundIn(i.text, p, w.op) => v = w
                /\ v.place # "bare" => /\ At(i.text, z) = " "
                                      /\ \A k \in p..(z - 1) : At(i.text, k) \notin Delims

GetNextWord ==
    /\ at = "next"
    /\ \E w \in Words :
         /\ Found(w)
         /\ op' = w.op
         /\ pos' = pos + Len(Keyword[w.op])
         /\ Goto(w.place)
    /\ from' = pos /\ keys' = <<>> /\ values' = <<>>
    /\ UNCHANGED <<input, accepted>>

GetNextEmpty ==
    /\ at = "next" /\ Char \in {"#", "\n"}
    /\ Expect("next", IF Char = "#" THEN Cleanup(pos + 1) ELSE pos + 1)

\* Mutant: the keyword is looked at only as far as its first letter.
GetNextInvalidShort ==
    /\ at = "next" /\ Char \notin {"#", "\n", EOF}
    /\ ~\E w \in Words : Found(w)
    /\ Expect("next", Ahead(1))

\* No keyword: what has been read to see this may contain the end of the line,
\* and then the next line is skipped.
GetNextInvalid ==
    /\ at = "next" /\ Char \notin {"#", "\n", EOF}
    /\ ~\E w \in Words : Found(w)
    /\ Reject(Ahead(Reads(Char)))

\* EOC ends a job file; a client goes on asking for ever.
GetNextEOC ==
    /\ at = "next" /\ Char = EOF /\ side = "server"
    /\ Expect("end", pos)

\* SHOW, BACKUP, HELP and DISCONNECT: nothing else on the line.
Bare ==
    /\ at = "bare"
    /\ IF Char \in {"\n", EOF} THEN Accept(Ahead(1)) ELSE Reject(Ahead(1))

-----------------------------------------------------------------------------
(* parse_write, parse_read_delete, parse_list                              *)

Limit == IF side = "server" THEN MaxPairs ELSE 1

OpenList ==
    /\ at = "list"
    /\ IF Char = "[" THEN Expect(IF op = "write" THEN "pair" ELSE "key", pos + 1)
       ELSE Reject(Ahead(1))

OpenPair ==
    /\ at = "pair"
    /\ IF Char = "(" THEN Expect("key", pos + 1) ELSE Reject(Ahead(1))

\* The key of a pair must end at a comma.  When it does not, parse_pair skips
\* the rest of the line and parse_write skips another one.
PairKey ==
    /\ at = "key" /\ op = "write"
    /\ \/ \E q \in pos..(pos + MaxString - 1) :
            /\ StringEnds(q)
            /\ IF CharAt(q) = Comma THEN /\ keys' = Append(keys, String(q))
                                     /\ pos' = q + 1 /\ Goto("value")
                                     /\ UNCHANGED <<input, op, values, from, accepted>>
               ELSE Reject(Cleanup(q + 1))
       \/ StringFails /\ Reject(Cleanup(Ahead(MaxString)))

\* Mutant: a value may end at a comma as well.
PairValueComma ==
    /\ at = "value"
    /\ \/ \E q \in pos..(pos + MaxString - 1) :
            /\ StringEnds(q)
            /\ IF CharAt(q) \in {Comma, ")"} THEN /\ values' = Append(values, String(q))
                                              /\ pos' = q + 1 /\ Goto("after")
                                              /\ UNCHANGED <<input, op, keys, from, accepted>>
               ELSE Reject(Cleanup(q + 1))
       \/ StringFails /\ Reject(Cleanup(Ahead(MaxString)))

\* Mutant: a value that has not ended costs one line more.
PairValueSkipping ==
    /\ at = "value"
    /\ \/ \E q \in pos..(pos + MaxString - 1) :
            /\ StringEnds(q)
            /\ IF CharAt(q) = ")" THEN /\ values' = Append(values, String(q))
                                     /\ pos' = q + 1 /\ Goto("after")
                                     /\ UNCHANGED <<input, op, keys, from, accepted>>
               ELSE Reject(Cleanup(q + 1))
       \/ StringFails /\ Reject(Cleanup(Cleanup(Ahead(MaxString))))

PairValue ==
    /\ at = "value"
    /\ \/ \E q \in pos..(pos + MaxString - 1) :
            /\ StringEnds(q)
            /\ IF CharAt(q) = ")" THEN /\ values' = Append(values, String(q))
                                     /\ pos' = q + 1 /\ Goto("after")
                                     /\ UNCHANGED <<input, op, keys, from, accepted>>
               ELSE Reject(Cleanup(q + 1))
       \/ StringFails /\ Reject(Cleanup(Ahead(MaxString)))

\* Mutant: the pairs are not counted.
AfterPairUncounted ==
    /\ at = "after"
    /\ \/ Char = "(" /\ Expect("key", pos + 1)
       \/ Char = "]" /\ Expect("full", pos + 1)
       \/ Char \notin {"(", "]"} /\ Reject(Ahead(1))

AfterPair ==
    /\ at = "after"
    /\ \/ Char = "(" /\ Expect(IF Len(keys) < Limit THEN "key" ELSE "full", pos + 1)
       \/ Char = "]" /\ Expect("full", pos + 1)
       \/ Char \notin {"(", "]"} /\ Reject(Ahead(1))

\* Mutant: a string is read for as long as no delimiter comes.
ListKeyEndless ==
    /\ at = "key" /\ op # "write"
    /\ \E q \in pos..(pos + MaxString - 1) :
         /\ StringEnds(q)
         /\ IF CharAt(q) \in {Comma, "]"}
            THEN /\ keys' = Append(keys, String(q))
                 /\ pos' = q + 1
                 /\ Goto(IF CharAt(q) = Comma /\ Len(keys') < Limit THEN "key" ELSE "full")
                 /\ UNCHANGED <<input, op, values, from, accepted>>
            ELSE Reject(q + 1)

\* A key of a list ends at a comma or at the end of the list.
ListKey ==
    /\ at = "key" /\ op # "write"
    /\ \/ \E q \in pos..(pos + MaxString - 1) :
            /\ StringEnds(q)
            /\ IF CharAt(q) \in {Comma, "]"}
               THEN /\ keys' = Append(keys, String(q))
                    /\ pos' = q + 1
                    /\ Goto(IF CharAt(q) = Comma /\ Len(keys') < Limit THEN "key" ELSE "full")
                    /\ UNCHANGED <<input, op, values, from, accepted>>
               ELSE Reject(q + 1)
       \/ StringFails /\ Reject(Ahead(MaxString))

\* The server rejects a list of MaxPairs, ended or not; the client only one that
\* has not ended with its key.
Full ==
    /\ at = "full"
    /\ IF Len(keys) = Limit /\ (side = "server" \/ CharAt(pos - 1) # "]")
       THEN Reject(pos) ELSE Expect("eol", pos)

EndOfLine ==
    /\ at = "eol"
    /\ IF Char = "\n" THEN Accept(pos + 1) ELSE Reject(Ahead(1))

-----------------------------------------------------------------------------
(* parse_wait, parse_delay                                                 *)

Digit == [c \in {"0", "1", "2", "3", "4", "5", "6", "7", "8", "9"} |->
            CASE c = "0" -> 0 [] c = "1" -> 1 [] c = "2" -> 2 [] c = "3" -> 3 [] c = "4" -> 4
              [] c = "5" -> 5 [] c = "6" -> 6 [] c = "7" -> 7 [] c = "8" -> 8 [] c = "9" -> 9]
Digits == DOMAIN Digit

\* strtoul: the number whose digits stand from a to before b.
Value(t, a, b) ==
    LET upto[p \in a..b] == IF p = a THEN 0 ELSE 10 * upto[p - 1] + Digit[At(t, p - 1)]
    IN  upto[b]

\* read_uint: the digits, if any, and the character after them, at q.
NumberEnds(q) ==
    /\ q \in pos..(Len(text) + 1)
    /\ CharAt(q) \notin Digits
    /\ \A p \in pos..(q - 1) : CharAt(p) \in Digits

\* Its buffer has room for the '\0' behind the digits, which is put where the
\* character after them was read: at the end of the text there is none.
Known(q) == q - pos < NumberBuffer /\ CharAt(q) # EOF
Small(q) == Value(text, pos, q) <= MaxUint

\* A server wants the line to end, or a thread to be named, which it ignores.
WellEnded(q) == side = "server" => CharAt(q) \in {" ", "\n", EOF}

\* Mutant: the rest of the line is skipped whatever ends the number.
NumberSkipping ==
    /\ at = "number"
    /\ \E q \in pos..(Len(text) + 1) :
         /\ NumberEnds(q)
         /\ \/ WellEnded(q) /\ Small(q) /\ Accept(Cleanup(Ahead(q - pos + 1)))
            \/ ~(WellEnded(q) /\ Small(q)) /\ Reject(Ahead(q - pos + 1))

\* When the digits are not ended in the buffer, the number may be anything.
Number ==
    /\ at = "number"
    /\ \E q \in pos..(Len(text) + 1) :
         /\ NumberEnds(q)
         /\ \/ /\ WellEnded(q) /\ (Small(q) \/ ~Known(q))
               /\ Accept(IF side = "server" /\ CharAt(q) = " " THEN Cleanup(q + 1)
                         ELSE Ahead(q - pos + 1))
            \/ /\ ~WellEnded(q) \/ ~Small(q) \/ ~Known(q)
               /\ Reject(Ahead(q - pos + 1))

-----------------------------------------------------------------------------
(* Buffers overrun                                                         *)

\* Mutant: the buffers of the strings are one shorter than those of the keys.
StringOverrunsShort ==
    \A p \in pos..(pos + MaxString - 2) : CharAt(p) \notin Delims \cup {EOF}

\* read_string has filled its buffer and puts the '\0' behind it; the digits, and
\* the character after them, do not fit into read_uint's buf, or strtoul does not
\* find an end of them there.
StringOverruns ==
    \A p \in pos..(pos + MaxString - 1) : CharAt(p) \notin Delims \cup {EOF}
NumberOverruns == \E q \in pos..(Len(text) + 1) : NumberEnds(q) /\ ~Known(q)

\* This is undefined.  The program may go on with the bytes it has overwritten, as
\* above: those behind a string are padding, and the '\0' of 16 digits is written
\* over a zero byte.  Or it is stopped, by the stack protector or by the address
\* sanitizer that server/Makefile builds it with.
Overrun ==
    /\ \/ at \in {"key", "value"} /\ StringOverruns
       \/ at = "number" /\ NumberOverruns
    /\ Goto("stopped")
    /\ UNCHANGED <<input, pos, op, keys, values, from, accepted>>

Next ==
    \/ GetNextWord \/ GetNextEmpty \/ GetNextInvalid \/ GetNextEOC
    \/ Bare \/ OpenList \/ OpenPair \/ PairKey \/ PairValue \/ AfterPair
    \/ ListKey \/ Full \/ EndOfLine \/ Number \/ Overrun

Spec == Init /\ [][Next]_vars /\ WF_vars(Next)

-----------------------------------------------------------------------------
(* Properties                                                              *)

\* What the parser has in its hands: no more keys and values than the arrays keys
\* and values take, each short enough for its row of them with its '\0', and a
\* place in the text.  The buffers of read_string and read_uint are not these
\* arrays: see Overrun.
ParsingTypeOK ==
    /\ at \in Places
    /\ pos \in 1..(Len(text) + 1) /\ from \in 1..pos
    /\ Len(keys) <= Limit /\ Len(values) <= Len(keys)
    /\ \A i \in 1..Len(keys) : Len(keys[i]) < MaxString
    /\ \A i \in 1..Len(values) : Len(values[i]) < MaxString
    /\ at = "value" => Len(values) = Len(keys) - 1
    /\ at \in {"after", "full", "eol"} /\ op = "write" => Len(values) = Len(keys)

\* Between two commands the parser stands at the start of a line or at the end
\* of the text, whatever the text: what is left of a rejected line is never read
\* as a command.  A client's DELAY is the exception: parse_delay does not look
\* at the character that ended the number.
LineStarts ==
    at = "next" =>
        \/ pos = 1 \/ CharAt(pos - 1) = "\n" \/ pos = Len(text) + 1
        \/ /\ side = "client"
           /\ \E i \in 1..Len(accepted) : /\ accepted[i].op = "delay"
                                          /\ accepted[i].to <= pos
                                          /\ ~\E p \in accepted[i].to..(pos - 1) :
                                                CharAt(p) = "\n"

\* No two commands are read from the same piece of the text.
CommandsApart ==
    \A i \in 2..Len(accepted) : accepted[i - 1].to <= accepted[i].from

\* The string s stands between the places a and b, and leaves one for the '\0'.
Stands(t, s, a, b) ==
    /\ a < b /\ b - a <= MaxString
    /\ \A p \in (a + 1)..(b - 1) : At(t, p) \notin Delims
    /\ s = SubSeq(t, a + 1, b - 1)

\* Where the command c has its "[", and where one of some characters.
Bracket(c) == c.from + Len(Keyword[c.op])
Marks(t, c, chars) == {p \in c.from..c.to : At(t, p) \in chars}

\* The keys of c stand one after the other, each up to a comma or the "]" at m.
ListAt(t, c, m) ==
    LET n == Len(c.keys)
    IN  /\ m[0] = Bracket(c) /\ c.to = m[n] + 2
        /\ \A i \in 1..n : /\ Stands(t, c.keys[i], m[i - 1], m[i])
                           /\ At(t, m[i]) = IF i < n THEN Comma ELSE "]"
ListWritten(t, c) ==
    \E m \in [0..Len(c.keys) -> Marks(t, c, {"[", Comma, "]"})] : ListAt(t, c, m)

\* So do its pairs, each in parentheses, with a comma at m and the ")" at v.
PairsAt(t, c, m, v) ==
    LET n == Len(c.keys)
    IN  /\ v[0] = Bracket(c) /\ At(t, v[n] + 1) = "]" /\ c.to = v[n] + 3
        /\ \A i \in 1..n : /\ At(t, v[i - 1] + 1) = "(" /\ At(t, v[i]) = ")"
                           /\ Stands(t, c.keys[i], v[i - 1] + 1, m[i])
                           /\ Stands(t, c.values[i], m[i], v[i])
PairsWritten(t, c) ==
    \E m \in [1..Len(c.keys) -> Marks(t, c, {Comma})],
       v \in [0..Len(c.keys) -> Marks(t, c, {"[", ")"})] : PairsAt(t, c, m, v)

Written(t, c) ==
    /\ FoundIn(t, c.from, c.op)
    /\ At(t, Bracket(c)) = "[" /\ At(t, c.to - 1) = "\n"
    /\ IF c.op = "write" THEN Len(c.values) = Len(c.keys) /\ PairsWritten(t, c)
                         ELSE c.values = <<>> /\ ListWritten(t, c)

\* Whatever the text, an accepted command with a list is what its part of the
\* text says, character by character: all its keys and values, in the order they
\* were written, and nothing of the lines around it.
AcceptedIsText ==
    /\ CommandsApart
    /\ \A i \in 1..Len(accepted) : accepted[i].keys # <<>> => Written(text, accepted[i])

\* What the rules ask of a command that has no list: nothing else on its line,
\* or a number that is no more than UINT_MAX, of less than 16 digits, behind which
\* a server's line may go on.
Alone(t, c) ==
    LET b == Bracket(c)
    IN  \/ At(t, b) = "\n" /\ c.to = b + 1
        \/ b = Len(t) + 1 /\ c.to = b
Numbered(s, t, c) ==
    \E q \in Bracket(c)..(c.to - 1) :
        /\ q - Bracket(c) < NumberBuffer /\ Value(t, Bracket(c), q) <= MaxUint
        /\ \A p \in Bracket(c)..(q - 1) : At(t, p) \in Digits
        /\ \/ At(t, q) = "\n" /\ c.to = q + 1
           \/ At(t, q) = " " /\ s = "server"

\* The command c is written by the rules: its list, if w wants one, leaves a
\* place free in a server's arrays.
ByTheRules(s, t, c, w) ==
    /\ w.op = c.op /\ FoundIn(t, c.from, c.op)
    /\ IF w.place = "list"
       THEN Written(t, c) /\ Len(c.keys) \in 1..(IF s = "server" THEN MaxPairs - 1 ELSE 1)
       ELSE /\ c.keys = <<>> /\ c.values = <<>>
            /\ IF w.place = "bare" THEN Alone(t, c) ELSE Numbered(s, t, c)

\* Where the lines of a text start (behind its end, too), and which follows which.
Starts(t) == {1, Len(t) + 1} \cup {p + 1 : p \in {k \in 1..Len(t) : At(t, k) = "\n"}}
Follows(t, s, e) == s < e /\ \A p \in Starts(t) : p <= s \/ e <= p

\* The line from s to e is the next command of the file i, of which n[s] are
\* written before it.  Nothing is behind a client's DISCONNECT.
LineOf(i, n, s, e, w) ==
    /\ n[e] = n[s] + 1
    /\ LET c == i.file[n[e]]
       IN  ByTheRules(i.side, i.text, [op |-> c.op, keys |-> c.keys, values |-> c.values,
                                       from |-> s, to |-> e], w)
    /\ w.op = "disconnect" => n[e] = Len(i.file)

\* From a on, the lines of a text are the commands of its file, in order, each
\* by the rules, and comments and empty lines.
LinesFrom(t, a) == {p \in Starts(t) : a <= p}
NoCommandAt(t, p) == At(t, p) \in {"#", "\n"}
CommandsBefore(t, a) ==
    [p \in LinesFrom(t, a) |-> Cardinality({q \in LinesFrom(t, a) : q < p /\ ~NoCommandAt(t, q)})]
Counts(i, a, n) ==
    /\ n \in [LinesFrom(i.text, a) -> 0..Len(i.file)]
    /\ n[a] = 0 /\ n[Len(i.text) + 1] = Len(i.file)
    /\ \A s, e \in LinesFrom(i.text, a) : Follows(i.text, s, e) =>
         IF NoCommandAt(i.text, s) THEN n[e] = n[s]
         ELSE \E w \in WordsOf(i.side) : LineOf(i, n, s, e, w)
RuledFrom(i, a) == Counts(i, a, CommandsBefore(i.text, a))

\* Two commands with arguments stand in the lines at a, and no DISCONNECT before.
Guarded(i, a) ==
    /\ \E b, s \in Starts(i.text) :
         /\ Follows(i.text, a, b) /\ Follows(i.text, b, s)
         /\ \A p \in {a, b} :
              \E w \in WordsOf(i.side) : w.place # "bare" /\ FoundIn(i.text, p, w.op)
    /\ i.side = "client" => \A p \in 1..(a - 1) : ~FoundIn(i.text, p, "disconnect")

Done == at = "end" \/ (at = "next" /\ Char = EOF)
Command(c) == [op |-> c.op, keys |-> c.keys, values |-> c.values]
Commands == [i \in 1..Len(accepted) |-> Command(accepted[i])]

\* The commands of a file made by the rules (lists that leave a place free in the
\* arrays, strings and numbers that leave one for the '\0') are carried out, all of
\* them, once, and in order, and no buffer is overrun on the way.
RulesRead == RuledFrom(input, 1) => /\ at # "stopped"
                                    /\ Done => Commands = input.file

\* Whatever is written in the lines before, rejected or not, it costs no more
\* than two commands of the lines made by the rules behind it, if these begin
\* with two that have arguments: the others are carried out, all of them, once,
\* in order, and nothing else after them.  If a buffer is overrun, then by what
\* begins before these lines.
DamageContained ==
    Done \/ at = "stopped" =>
        \A a \in Starts(text) : Guarded(input, a) /\ RuledFrom(input, a) =>
            \/ at = "stopped" /\ pos < a
            \/ /\ Done
               /\ \E k \in 0..Len(accepted) :
                    SubSeq(Commands, k + 1, Len(accepted)) = SubSeq(input.file, 3, Len(input.file))

\* Every text is read to its end, or the program stopped.
FileEnds == <>(Done \/ at = "stopped")
=============================================================================
