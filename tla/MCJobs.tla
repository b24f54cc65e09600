------------------------------- MODULE MCJobs -------------------------------
(* A small instance of Jobs for TLC.                                       *)
EXTENDS Jobs, TLC

\* a.b.job, length.job and d.job, which cannot be opened, the suffix abbreviated.
\* Room is what length-1.bck is cut off at before its number, and a-1.bck fills.
Suffix == <<"j">>
a_b == << <<"a">>, <<"b">>, Suffix >>
lng == << <<"l", "e", "n", "g", "t", "h">>, Suffix >>
d == << <<"d">>, Suffix >>
MCEntries == {a_b, lng, d}
MCBroken == {d}
MCChars == {"a", "b", "c", "d", "e", "g", "h", "j", "k", "l", "n", "t", "-", "1", "2"}
MCDecimal == [n \in 1..2 |-> << <<"1", "2">>[n] >>]
=============================================================================
