------------------------------ MODULE AppTrees ------------------------------
(* The window's worktrees and branches, as MCApp's runs and the proofs     *)
(* about them see them.                                                    *)
EXTENDS Naturals
CONSTANTS Name, MaxKeys, MaxWork, MaxSwitch, Slot, MaxOps, MaxFaults

ASSUME TreesAssumption ==
  /\ {MaxKeys, MaxWork, MaxSwitch, MaxOps, MaxFaults} \subseteq Nat
  /\ Name \subseteq Nat \ {0} /\ {1, 2, 3} \subseteq Name /\ Slot \subseteq Nat

VARIABLES
  tree, branch, entry, op, owed, waived, doubtful, sure, works, switches, begun, faults

Trees == INSTANCE Worktrees
treeVars == <<tree, branch, entry, op, owed, waived, doubtful, sure, works, switches, begun>>

(* Merged work is not lost, and an open workspace has a worktree.          *)
WorktreesKept == Trees!WorktreesKept
=============================================================================
