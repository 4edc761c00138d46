---------------------------- MODULE MCPtySession ----------------------------
(* Small instances of PtySession for TLC.                                  *)
EXTENDS PtySession, TLC
CONSTANTS t1, t2

Symmetric == Permutations(Terminals)
=============================================================================
