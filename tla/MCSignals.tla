----------------------------- MODULE MCSignals -----------------------------
(* Small instances of Signals for TLC.                                     *)
EXTENDS Signals, TLC

Perms == Permutations(Clients)
=============================================================================
