---------------------------- MODULE MCKeptWalks ----------------------------
(* Small instances of KeptWalks for TLC. *)
EXTENDS KeptWalks, TLC

CONSTANTS t1, t2

MCThreads == {t1, t2}
ThreadSymmetry == Permutations(MCThreads)
=============================================================================
