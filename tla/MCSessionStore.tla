--------------------------- MODULE MCSessionStore ---------------------------
(* Small instances of SessionStore for TLC.                                *)
EXTENDS SessionStore, TLC
CONSTANTS c1, c2, l1, t1, t2, r0, r1
=============================================================================
