----------------------------- MODULE MCJournal -----------------------------
(* Small instances of Journal for TLC. *)
EXTENDS Journal, TLC

CONSTANTS p1, p2, c1

TwoProcesses == {p1, p2}
OneContent == {c1}
AsFound == OneContent \cup {Garbled}
ProcessSymmetry == Permutations(TwoProcesses)
=============================================================================
