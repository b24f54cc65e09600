--------------------------- MODULE MCListChanges ---------------------------
(* Small instances of ListChanges for TLC.                                 *)
EXTENDS ListChanges, TLC

Perms == Permutations(Clients)
=============================================================================
