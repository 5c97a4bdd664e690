----------------------------- MODULE MCFileInfo -----------------------------
(* Instances of FileInfo for TLC.                                          *)
EXTENDS FileInfo, TLC

CONSTANTS a1, a2, r1

\* Three files; a namesake whose inode is the number of an unused entry.
MCFiles == {[ino |-> 8, name |-> "a"], [ino |-> 9, name |-> "b"],
            [ino |-> 10, name |-> "c"], [ino |-> 7, name |-> "b"]}

AdderSymmetry == Permutations(Adders)
=============================================================================
