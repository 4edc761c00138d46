------------------------------ MODULE MCRefSync -----------------------------
(* Small instances of RefSync for TLC.                                     *)
EXTENDS RefSync, TLC
CONSTANTS w1, w2, a, b

\* The ids are handed out in a fixed order and every window does the same, so
\* both may be permuted.
IdSym == Permutations(Id)
WindowSym == Permutations(Window)
Symmetric == IdSym \cup WindowSym
MCRefLists == RefLists(Id)
NoRefsYet == <<>>

\* What the users of the two windows do.
Both(kinds) == [w \in Conn |-> kinds]
Roots == Both({"root"})
RootsAndAdoptions == Both({"root", "adopt"})
AllOperations == Both(OpKinds)

\* An operation takes the first free slot: RefSync does not tell them apart.
FirstFree ==
  \A w \in Window, k \in Slot :
    win[w].job[k] = NoJob /\ win'[w].job[k] # NoJob =>
      \A j \in Slot : j < k => win[w].job[j] # NoJob
SlotSpec == RefInit /\ [][RefNext /\ FirstFree]_allVars
=============================================================================
