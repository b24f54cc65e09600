------------------------------ MODULE MCStore ------------------------------
(* Small instances of Store for TLC.                                       *)
EXTENDS Store, TLC

CONSTANTS a, b, v1, v2

Cmd(op, keys, vals) == [op |-> op, keys |-> keys, vals |-> vals]

\* Commands on one key, for the runs about notifications.
NewsCommands == {Cmd("WRITE", <<a>>, <<v1>>), Cmd("WRITE", <<a>>, <<v2>>),
                 Cmd("DELETE", <<a>>, <<>>)}

\* Commands on two keys, each in an order of its own and with a key named
\* twice, for the runs about the table.  SHOW visits every key, as BACKUP.
TableCommands == {Cmd("WRITE", <<a, b>>, <<v1, v1>>), Cmd("WRITE", <<b, a, b>>, <<v1, v2, v2>>),
                  Cmd("DELETE", <<a, b>>, <<>>), Cmd("DELETE", <<b, b>>, <<>>),
                  Cmd("READ", <<b, a>>, <<>>), Cmd("SHOW", <<a, b>>, <<>>),
                  Cmd("BACKUP", <<a, b>>, <<>>)}

Perms == Permutations(Jobs) \cup Permutations(Clients) \cup Permutations(Cells)
\* Where the commands treat the values alike, as NewsCommands do.
NewsPerms == Perms \cup Permutations(Values)
=============================================================================
