---------------------------- MODULE MCContentSync ---------------------------
(* Small instances of ContentSync for TLC.                                 *)
EXTENDS ContentSync, TLC
CONSTANTS w1, w2, e1, r1, MaxMarked, MaxActs

\* A behaviour without attention marks has MaxEdits edits and MaxFaults faults;
\* one with marks has MaxActs of the edits, marks and faults together.
VARIABLE marking

Marked ==
  /\ used'.edits <= MaxMarked
  /\ used'.edits + used'.faults + Cardinality(used'.marks) <= MaxActs
ScenesInit == marking \in BOOLEAN /\ Init
ScenesNext ==
  /\ Next /\ UNCHANGED marking
  /\ IF marking THEN Marked ELSE used'.marks = {}
ScenesSpec == ScenesInit /\ [][ScenesNext]_<<vars, marking>>

Symmetric == Permutations(Window)
=============================================================================
