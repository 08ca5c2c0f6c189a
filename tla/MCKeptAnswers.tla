--------------------------- MODULE MCKeptAnswers ---------------------------
(* Small instances of KeptAnswers for TLC. *)
EXTENDS KeptAnswers, TLC

CONSTANTS t1, t2

MCThreads == {t1, t2}
ThreadSymmetry == Permutations(MCThreads)
=============================================================================
