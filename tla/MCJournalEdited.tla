-------------------------- MODULE MCJournalEdited --------------------------
(* Small instances of JournalEdited for TLC. *)
EXTENDS JournalEdited, TLC

CONSTANTS p1, c1, c2

OneProcess == {p1}
OneContent == {c1}
TwoContents == {c1, c2}
NoContent == {}
ContentSymmetry == Permutations(TwoContents)
=============================================================================
