----------------------------- MODULE MCParsing -----------------------------
EXTENDS Parsing

Cmd(o, k, v) == [op |-> o, keys |-> k, values |-> v]

\* A command and a line it can be written in.
ServerLines ==
    {<<Cmd("write", <<"a">>, <<"b">>), "WRITE [(a,b)]\n">>,
     <<Cmd("write", <<"a", "cc">>, <<"", "b">>), "WRITE [(a,)(cc,b)]\n">>,
     <<Cmd("read", <<"aaa", "[b">>, <<>>), "READ [aaa,[b]\n">>,
     <<Cmd("delete", <<"">>, <<>>), "DELETE []\n">>,
     <<Cmd("wait", <<>>, <<>>), "WAIT 7 1\n">>,
     <<Cmd("wait", <<>>, <<>>), "WAIT 012\n">>,
     <<Cmd("wait", <<>>, <<>>), "WAIT \n">>,
     <<Cmd("show", <<>>, <<>>), "SHOW\n">>,
     <<Cmd("backup", <<>>, <<>>), "BACKUP\n">>,
     <<Cmd("help", <<>>, <<>>), "HELP\n">>}
ClientLines ==
    {<<Cmd("subscribe", <<"a">>, <<>>), "SUBSCRIBE [a]\n">>,
     <<Cmd("unsubscribe", <<"bb">>, <<>>), "UNSUBSCRIBE [bb]\n">>,
     <<Cmd("delay", <<>>, <<>>), "DELAY 12\n">>,
     <<Cmd("disconnect", <<>>, <<>>), "DISCONNECT\n">>}
\* Lines of no command.
NoCommand == {"# WRITE [(a,b)]\n", "\n"}

LinesOf(s) == IF s = "server" THEN ServerLines ELSE ClientLines

\* One line by the rules and another, with or without one of no command between
\* them; a client's last command is its DISCONNECT.
ByRule ==
    {[side |-> s, text |-> l[2] \o n \o m[2], file |-> <<l[1], m[1]>>] :
        <<s, l, m, n>> \in UNION {{t} \X (LinesOf(t) \ {x \in LinesOf(t) : x[1].op = "disconnect"})
                                      \X LinesOf(t) \X (NoCommand \cup {""}) : t \in {"server", "client"}}}

\* The last command may lack its newline if it has no list.
Unended ==
    {[side |-> "server", text |-> "READ [a]\nSHOW",
      file |-> <<Cmd("read", <<"a">>, <<>>), Cmd("show", <<>>, <<>>)>>],
     [side |-> "client", text |-> "DISCONNECT",
      file |-> <<Cmd("disconnect", <<>>, <<>>)>>]}

Odd == {"", " ", "\n", ",", ")", "]", "(", "[", "7", "W", "a"}

\* A line with one character replaced, left out or put in, or cut off.
Edits(t) ==
    {SubSeq(t, 1, i - 1) \o c \o SubSeq(t, j, Len(t)) :
        <<i, c, j>> \in {<<k, o, n>> \in (1..Len(t)) \X Odd \X (1..(Len(t) + 1)) : n \in {k, k + 1}}}
    \cup {SubSeq(t, 1, k) \o "\n" : k \in 1..(Len(t) - 1)}

\* Such a line before lines by the rules.  Without its newline it has damaged the
\* next one as well.
Before(e, cmds) == IF SubSeq(e, Len(e), Len(e)) = "\n" THEN cmds ELSE Tail(cmds)
Damaged ==
    {[side |-> "server", text |-> e \o "READ [a,b]\nREAD [b]\nWAIT 7 1\nHELP\n",
      file |-> Before(e, <<Cmd("read", <<"a", "b">>, <<>>), Cmd("read", <<"b">>, <<>>),
                           Cmd("wait", <<>>, <<>>), Cmd("help", <<>>, <<>>)>>)] :
        e \in UNION {Edits(l[2]) : l \in ServerLines}}
    \cup
    {[side |-> "client", text |-> e \o "UNSUBSCRIBE [a]\nDELAY 5\nSUBSCRIBE [b]\nDISCONNECT\n",
      file |-> Before(e, <<Cmd("unsubscribe", <<"a">>, <<>>), Cmd("delay", <<>>, <<>>),
                           Cmd("subscribe", <<"b">>, <<>>), Cmd("disconnect", <<>>, <<>>)>>)] :
        e \in UNION {Edits(l[2]) : l \in {m \in ClientLines : m[1].op # "disconnect"}}}

\* Lists as long as the arrays and longer, numbers and strings that are too long
\* or nearly so, and texts that end in a command.
Extreme ==
    {[side |-> t[1], text |-> t[2], file |-> <<>>] :
        t \in {<<"server", "READ [a,b,c]\n">>, <<"server", "READ [a,b,c,d]\n">>,
              <<"server", "WRITE [(a,b)(a,b)(a,b)]\n">>,
              <<"server", "WRITE [(a,b)(a,b)(a,b)(a,b)]\n">>,
              <<"client", "SUBSCRIBE [a,b]\n">>, <<"server", "WAIT 7">>,
              <<"server", "WAIT 0012\nSHOW\n">>,
              <<"client", "DELAY 13\nDELAY 9999 1\nDISCONNECT\n">>, <<"client", "DELAY 77">>,
              <<"client", "SUBSCRIBE [aaa]\nSUBSCRIBE [aaaa]\nDISCONNECT\n">>,
              <<"server", "READ [aaaa">>, <<"server", "WRITE [(aaa,aaaa)]\nSHOW\n">>, <<"server", "READ [aa">>,
              <<"client", "SUBSCRIBE [a]">>, <<"client", "DIS">>,
              <<"server", "WRITE [(a,b)">>, <<"server", "W">>}}

MCInputs == ByRule \cup Unended \cup Damaged \cup Extreme

\* The texts that are meant to be by the rules are, and the damaged ones are
\* behind the damage.
ASSUME RulesAssumption ==
    /\ \A i \in ByRule \cup Unended : RuledFrom(i, 1)
    /\ \A i \in Damaged : \E a \in Starts(i.text) : RuledFrom(i, a) /\ Guarded(i, a)
=============================================================================
