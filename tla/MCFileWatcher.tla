---------------------------- MODULE MCFileWatcher ---------------------------
(* Small instances of FileWatcher for TLC.                                 *)
EXTENDS FileWatcher, TLC
CONSTANTS a, b, s1, s2, t1, t2

Symmetric == Permutations(Sub) \cup Permutations(Task)
=============================================================================
