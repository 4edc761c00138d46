-------------------------- MODULE Worktrees_proofs --------------------------
(***************************************************************************)
(* What the window's operations on worktrees leave of the work and of the  *)
(* workspaces, for any names, workspaces, operations at a time, edits and  *)
(* faults: WorktreesKept of the window's worktrees (Worktrees).            *)
(*                                                                         *)
(* The argument.  PlacesInv says where everything is.  A workspace keeps   *)
(* its path and its parent for good, workspaces are made in the order of   *)
(* their keys, and an operation counts the worktrees it is about among its *)
(* own: so what it read of them is still so, or another operation met it   *)
(* there and they are doubtful.  An open workspace's worktree is there,    *)
(* unless a removal that is past its git command is about to drop it, and  *)
(* the frames of a removal go from a workspace to its descendants, each    *)
(* key above the one before.                                               *)
(*                                                                         *)
(* WorkInv says where the work is.  Owed work is in files that git tracks  *)
(* or on a branch that no merge-and-remove is about to delete: one that    *)
(* still works as it found things (Own) merged its branch first, and by    *)
(* then what it found uncommitted was committed to that branch.            *)
(***************************************************************************)
EXTENDS AppTrees, SequenceTheorems, WellFoundedInduction, TLAPS

Least == {p \in Nat \X Nat : p[1] < p[2]}

LEMMA LeastOfSome ==
  ASSUME NEW S \in SUBSET Nat, S # {}
  PROVE  \E m \in S : \A k \in S : m <= k
<1>1. IsWellFoundedOn(Least, Nat)
  BY NatLessThanWellFounded DEF Least, OpToRel
<1>2. PICK x \in S : \A y \in S : ~(<<y, x>> \in Least)
  <2> HIDE DEF Least
  <2> QED
    BY Zenon, <1>1, WFMin
<1>3. ASSUME NEW k \in S PROVE x <= k
  <2>1. k \in Nat /\ x \in Nat /\ ~(k < x)
    BY Zenon, <1>2 DEF Least
  <2> QED
    BY <2>1
<1> QED
  BY <1>3

-----------------------------------------------------------------------------
(* What the variables hold.                                                *)

Name0 == Name \cup {0}
Key0 == Trees!Key \cup {0}
Statuses == {"none", "loading", "loaded", "opError", "error", "dismissed", "gone"}
OpKinds == {"none", "new", "branch", "remote", "adopt", "autoOpen", "remove", "mergeRemove",
            "mergeKeep"}
OpStages == {"idle", "listed", "lock", "base", "add", "adopt", "parent", "dirty", "status",
             "commit", "merge", "keep", "enter", "head", "tree", "branch", "drop", "file"}
TreeRec == [here : BOOLEAN, head : Name0, tracked : SUBSET Nat, untracked : SUBSET Nat,
            stuck : BOOLEAN]
BranchRec == [here : BOOLEAN, work : SUBSET Nat]
EntryRec == [status : Statuses, path : Name0, branch : Name0, parent : Key0, detached : BOOLEAN]
FrameRec == [ws : Key0, data : EntryRec, kids : SUBSET Trees!Key, head : Name0]
OpRec == [kind : OpKinds, at : OpStages, ws : Key0, trees : SUBSET Name, saved : EntryRec,
          from : Key0, base : Name0, detached : BOOLEAN, keepBranch : BOOLEAN,
          keepTree : BOOLEAN, squash : BOOLEAN, listed : [Name -> Name0], frames : Seq(FrameRec)]

TreesTyped ==
  /\ tree \in [Name -> TreeRec] /\ branch \in [Name -> BranchRec]
  /\ entry \in [Trees!Key -> EntryRec] /\ op \in [Slot -> OpRec]
  /\ owed \in SUBSET Nat /\ waived \in SUBSET Nat /\ works \in Nat

LEMMA TreeNumbers ==
  /\ 0 \notin Name /\ Name \subseteq Nat /\ 0 \notin Trees!Key /\ Trees!Key \subseteq Nat
  /\ 1 \in Name /\ 2 \in Name /\ 3 \in Name
BY TreesAssumption DEF Trees!Key

LEMMA NoRecords ==
  /\ Trees!NoTree \in TreeRec /\ Trees!NoEntry \in EntryRec /\ Trees!NoOp \in OpRec
  /\ Trees!NoOp.kind = "none" /\ Trees!NoOp.at = "idle" /\ Trees!NoOp.trees = {} /\ Trees!NoOp.frames = <<>>
<1>1. Trees!NoTree \in TreeRec
  BY DEF Trees!NoTree, TreeRec, Name0
<1>2. Trees!NoEntry \in EntryRec
  BY DEF Trees!NoEntry, EntryRec, Name0, Key0, Statuses
<1>3. [p \in Name |-> 0] \in [Name -> Name0] /\ <<>> \in Seq(FrameRec)
  BY DEF Name0
<1>4. Trees!NoOp \in OpRec
  <2> HIDE DEF Trees!NoEntry
  <2> QED
    BY <1>2, <1>3 DEF Trees!NoOp, OpRec, Name0, Key0, OpKinds, OpStages
<1> QED
  BY <1>1, <1>2, <1>4 DEF Trees!NoOp

(* What a step of operation i does to the operations.                      *)
LEMMA GotoSays ==
  ASSUME TreesTyped, NEW i \in Slot, NEW at \in OpStages, Trees!Goto(i, at)
  PROVE  /\ op' \in [Slot -> OpRec] /\ \A j \in Slot \ {i} : op'[j] = op[j]
         /\ op'[i] = [op[i] EXCEPT !.at = at]
         /\ op'[i].at = at /\ op'[i].kind = op[i].kind /\ op'[i].ws = op[i].ws
         /\ op'[i].trees = op[i].trees /\ op'[i].saved = op[i].saved
         /\ op'[i].from = op[i].from /\ op'[i].base = op[i].base
         /\ op'[i].listed = op[i].listed /\ op'[i].frames = op[i].frames
<1> DEFINE e == [op[i] EXCEPT !.at = at]
<1>1. op[i] \in OpRec
  BY DEF TreesTyped
<1>2. /\ e \in OpRec /\ e.at = at /\ e.kind = op[i].kind /\ e.ws = op[i].ws
      /\ e.trees = op[i].trees /\ e.saved = op[i].saved
      /\ e.from = op[i].from /\ e.base = op[i].base
      /\ e.listed = op[i].listed /\ e.frames = op[i].frames
  BY <1>1 DEF OpRec
<1>3. op' = [op EXCEPT ![i] = e]
  BY DEF Trees!Goto
<1> HIDE DEF e
<1>4. op' \in [Slot -> OpRec] /\ (\A j \in Slot \ {i} : op'[j] = op[j]) /\ op'[i] = e
  BY <1>2, <1>3 DEF TreesTyped
<1> QED
  BY <1>2, <1>4 DEF e

LEMMA EndsSays ==
  ASSUME TreesTyped, NEW i \in Slot, Trees!Ends(i)
  PROVE  /\ op' \in [Slot -> OpRec] /\ \A j \in Slot \ {i} : op'[j] = op[j]
         /\ op'[i] = Trees!NoOp /\ op'[i].kind = "none" /\ op'[i].at = "idle" /\ op'[i].trees = {}
BY NoRecords DEF Trees!Ends, TreesTyped

LEMMA BeginSays ==
  ASSUME TreesTyped, NEW o, o \in OpRec, Trees!Begin(o)
  PROVE  \E i \in Slot :
         /\ op[i].at = "idle"
         /\ op' \in [Slot -> OpRec] /\ \A j \in Slot \ {i} : op'[j] = op[j]
         /\ op'[i].at = "lock" /\ op'[i].kind = o.kind /\ op'[i].ws = o.ws
         /\ op'[i].trees = o.trees /\ op'[i].saved = o.saved
         /\ op'[i].from = o.from /\ op'[i].base = o.base
         /\ op'[i].listed = o.listed /\ op'[i].frames = o.frames
         /\ doubtful' = doubtful \cup {p \in o.trees : \E j \in Slot : p \in op[j].trees}
<1> DEFINE e == [o EXCEPT !.at = "lock"]
<1>1. /\ e \in OpRec /\ e.at = "lock" /\ e.kind = o.kind /\ e.ws = o.ws
      /\ e.trees = o.trees /\ e.saved = o.saved
      /\ e.from = o.from /\ e.base = o.base
      /\ e.listed = o.listed /\ e.frames = o.frames
  BY DEF OpRec, OpStages
<1>2. PICK i \in Trees!Idle : op' = [op EXCEPT ![i] = e]
  BY Zenon DEF Trees!Begin
<1> HIDE DEF e
<1>3. i \in Slot /\ op[i].at = "idle"
  BY DEF Trees!Idle
<1>4. op' \in [Slot -> OpRec] /\ (\A j \in Slot \ {i} : op'[j] = op[j]) /\ op'[i] = e
  BY <1>1, <1>2, <1>3 DEF TreesTyped
<1>5. doubtful' = doubtful \cup {p \in o.trees : \E j \in Slot : p \in op[j].trees}
  BY DEF Trees!Begin, Trees!Meets, Trees!Busy
<1> QED
  BY <1>1, <1>3, <1>4, <1>5

-----------------------------------------------------------------------------
(* Where the workspaces are.  A key keeps its place for good; an operation *)
(* has the places that it is about among its worktrees, and what it reads  *)
(* of one is still so unless another operation met it there.               *)
Placed(k) == entry[k].status \in {"loaded", "opError", "gone"}
Removals == {"remove", "mergeRemove", "mergeKeep"}
Removal == {"enter", "head", "tree", "branch", "drop", "file"}

EntriesOK ==
  \A k \in Trees!Key : Placed(k) =>
    /\ entry[k].path \in Name /\ entry[k].parent < k
    /\ entry[k].parent # 0 => Placed(entry[k].parent)

Subject(i, k) ==
  /\ k \in Trees!Key /\ Placed(k) /\ entry[k].path \in op[i].trees
  /\ entry[k].parent # 0 => entry[entry[k].parent].path \in op[i].trees
  /\ op[i].kind = "remove" \/ op[i].at \notin {"lock", "parent"} =>
       /\ op[i].saved.path = entry[k].path /\ op[i].saved.parent = entry[k].parent
       /\ op[i].saved.status \in {"loaded", "opError"}
       /\ op[i].at \in {"lock", "dirty", "status", "commit", "merge"} =>
            Trees!Open(k) \/ entry[k].path \in doubtful
  /\ op[i].at \in {"dirty", "status", "commit", "merge"} =>
       /\ op[i].base \in op[i].trees
       /\ op[i].base = op[i].saved.path => op[i].base \in doubtful

(* Workspaces are made in the order of their keys.                         *)
Filled == \A k, j \in Trees!Key : entry[k].status = "none" /\ k < j => entry[j].status = "none"
Sorted(s) == \A x, y \in 1..Len(s) : x < y => s[y].ws < s[x].ws
KidsAfter(s) == \A x \in 1..Len(s) : \A j \in s[x].kids : s[x].ws < j

FrameOK(i, f) ==
  f.ws \in Trees!Key /\ Placed(f.ws) /\ entry[f.ws].path = f.data.path /\ f.data.path \in op[i].trees
Standing(f) == f.data.path \in doubtful \/ Trees!Open(f.ws)

FramesOK(i) ==
  op[i].at \in Removal =>
    /\ op[i].kind \in {"remove", "mergeRemove"} /\ op[i].frames # <<>>
    /\ Sorted(op[i].frames) /\ KidsAfter(op[i].frames)
    /\ \A x \in 2..Len(op[i].frames) : FrameOK(i, op[i].frames[x]) /\ Standing(op[i].frames[x])
    /\ op[i].at # "enter" => FrameOK(i, op[i].frames[1])
    /\ op[i].at \in {"head", "tree", "branch", "drop"} => Standing(op[i].frames[1])
    /\ op[i].at \in {"head", "tree"} => op[i].frames[1].data.path # 1
    /\ op[i].at = "branch" => op[i].frames[1].head \in Name

ListedOK(i, n) ==
  /\ n \in op[i].trees
  /\ n \in doubtful \/ (tree[n].here
                        /\ (op[i].kind = "adopt" => \A k \in Trees!Key : Trees!Open(k) => entry[k].path # n))

AdoptOK(i) ==
  op[i].kind \in {"adopt", "autoOpen"} =>
    /\ op[i].from \in Trees!Key /\ Placed(op[i].from)
    /\ op[i].at \in {"lock", "adopt"} => \A n \in Name : op[i].listed[n] # 0 => ListedOK(i, n)

CreateOK(i) ==
  op[i].kind \in Trees!Creating =>
    /\ op[i].ws \in Trees!Key /\ entry[op[i].ws].status \in {"loading", "dismissed"}
    /\ op[i].from \in Trees!Key /\ Placed(op[i].from) /\ op[i].from < op[i].ws
    /\ op[i].base \in Name /\ op[i].base \in op[i].trees

OpOK(i) ==
  /\ op[i].kind \in Removals => Subject(i, op[i].ws)
  /\ FramesOK(i) /\ AdoptOK(i) /\ CreateOK(i)

Apart ==
  \A i, j \in Slot : i # j =>
    /\ \A p \in op[i].trees : p \in op[j].trees => p \in doubtful
    /\ op[i].kind \in Trees!Creating /\ op[j].kind \in Trees!Creating => op[i].ws # op[j].ws

Unique ==
  \A k, j \in Trees!Key : Trees!Open(k) /\ Trees!Open(j) /\ entry[k].path = entry[j].path =>
    k = j \/ entry[k].path \in doubtful

Removes(i, k) == op[i].at \in {"branch", "drop"} /\ op[i].frames[1].ws = k
Backed(k) == entry[k].path \in doubtful \/ tree[entry[k].path].here \/ \E i \in Slot : Removes(i, k)

PlacesInv ==
  /\ TreesTyped /\ EntriesOK /\ Filled /\ Apart /\ Unique
  /\ \A i \in Slot : OpOK(i)
  /\ \A k \in Trees!Key : Trees!Open(k) => Backed(k)
  /\ tree[1].here

(* A step keeps every place, and what was doubtful.                        *)
Steady ==
  /\ doubtful \subseteq doubtful'
  /\ \A k \in Trees!Key : Placed(k) =>
       Placed(k)' /\ entry'[k].path = entry[k].path /\ entry'[k].parent = entry[k].parent

LEMMA OpenIsPlaced ==
  ASSUME NEW k, Trees!Open(k)
  PROVE  k \in Trees!Key /\ Placed(k)
BY DEF Trees!Open, Placed

(* What is so of operation j stays so in a step of others that does nothing*)
(* in its worktrees.                                                       *)
LEMMA OpStays ==
  ASSUME PlacesInv, NEW j \in Slot, op'[j] = op[j], Steady,
         \A n \in op[j].trees : n \in doubtful' \/ (tree[n].here => tree'[n].here),
         \A k \in Trees!Key : entry[k].path \in op[j].trees =>
           entry[k].path \in doubtful' \/ (Trees!Open(k) => Trees!Open(k)'),
         \A k \in Trees!Key : Trees!Open(k)' /\ entry'[k].path \in op[j].trees =>
           entry'[k].path \in doubtful' \/ Trees!Open(k),
         op[j].kind \in Trees!Creating => entry'[op[j].ws].status \in {"loading", "dismissed"}
  PROVE  OpOK(j)'
<1>1. OpOK(j) /\ EntriesOK
  BY DEF PlacesInv
<1>2. ASSUME op[j].kind \in Removals PROVE Subject(j, op[j].ws)'
  <2>1. Subject(j, op[j].ws)
    BY <1>1, <1>2 DEF OpOK
  <2>2. entry[op[j].ws].parent # 0 => entry[op[j].ws].parent \in Trees!Key
    BY <2>1 DEF PlacesInv, TreesTyped, EntryRec, Key0, Subject
  <2>3. entry[op[j].ws].parent # 0 => Placed(entry[op[j].ws].parent)
    BY <1>1, <2>1 DEF EntriesOK, Subject
  <2> QED
    BY <2>1, <2>2, <2>3 DEF Subject, Steady
<1>3. FramesOK(j)'
  <2>1. ASSUME NEW f, FrameOK(j, f) PROVE FrameOK(j, f)'
    BY <2>1 DEF FrameOK, Steady
  <2>2. ASSUME NEW f, FrameOK(j, f), Standing(f) PROVE Standing(f)'
    BY <2>2 DEF FrameOK, Standing, Steady
  <2> QED
    BY <1>1, <2>1, <2>2 DEF OpOK, FramesOK, Removal
<1>4. AdoptOK(j)'
  <2>1. ASSUME NEW n \in Name, ListedOK(j, n) PROVE ListedOK(j, n)'
    <3>1. ASSUME NEW k \in Trees!Key, Trees!Open(k)', entry'[k].path = n, n \notin doubtful'
          PROVE  Trees!Open(k) /\ entry[k].path = n
      BY <2>1, <3>1, OpenIsPlaced DEF ListedOK, Steady
    <3> QED
      BY <2>1, <3>1 DEF ListedOK, Steady
  <2> QED
    BY <1>1, <2>1 DEF OpOK, AdoptOK, Steady
<1>5. CreateOK(j)'
  BY <1>1 DEF OpOK, CreateOK, Steady
<1> QED
  BY <1>2, <1>3, <1>4, <1>5 DEF OpOK

LEMMA ApartSays ==
  ASSUME PlacesInv, NEW i \in Slot, NEW j \in Slot \ {i}, NEW p, p \in op[i].trees, p \in op[j].trees
  PROVE  p \in doubtful
BY DEF PlacesInv, Apart

(* A step of operation i.                                                  *)
LEMMA OthersStay ==
  ASSUME PlacesInv, NEW i \in Slot, \A j \in Slot \ {i} : op'[j] = op[j], Steady,
         \A n \in Name : tree[n].here /\ ~tree'[n].here => n \in op[i].trees,
         \A k \in Trees!Key : Trees!Open(k) /\ ~Trees!Open(k)' => entry[k].path \in op[i].trees,
         \A k \in Trees!Key : Trees!Open(k)' /\ ~Trees!Open(k) => entry'[k].path \in op[i].trees,
         \A j \in Slot \ {i} : op[j].kind \in Trees!Creating =>
           entry'[op[j].ws].status \in {"loading", "dismissed"}
  PROVE  \A j \in Slot \ {i} : OpOK(j)'
<1> TAKE j \in Slot \ {i}
<1>1. \A p \in op[j].trees : p \in op[i].trees => p \in doubtful'
  BY ApartSays DEF Steady
<1>2. op[j].trees \subseteq Name
  BY DEF PlacesInv, TreesTyped, OpRec
<1> QED
  BY <1>1, <1>2, OpStays

LEMMA ApartStays ==
  ASSUME PlacesInv, NEW i \in Slot, \A j \in Slot \ {i} : op'[j] = op[j], doubtful \subseteq doubtful',
         op'[i].trees \subseteq op[i].trees,
         op'[i].kind \in Trees!Creating => op[i].kind \in Trees!Creating /\ op'[i].ws = op[i].ws
  PROVE  Apart'
BY DEF PlacesInv, Apart

LEMMA BackedStays ==
  ASSUME NEW k \in Trees!Key, Backed(k), entry'[k].path = entry[k].path, doubtful \subseteq doubtful',
         tree[entry[k].path].here => tree'[entry[k].path].here,
         \A i \in Slot : Removes(i, k) => Removes(i, k)'
  PROVE  Backed(k)'
BY DEF Backed

-----------------------------------------------------------------------------
(* The steps of git alone, and those that change what an entry says of its *)
(* branch or its error.                                                    *)
LEMMA GitKeepsPlaces ==
  ASSUME PlacesInv, UNCHANGED <<entry, op, doubtful>>, TreesTyped',
         \A n \in Name : tree[n].here => tree'[n].here
  PROVE  PlacesInv'
<1>1. Steady
  BY DEF Steady, Placed
<1>2. \A k : Trees!Open(k)' <=> Trees!Open(k)
  BY DEF Trees!Open
<1>3. ASSUME NEW j \in Slot PROVE OpOK(j)'
  <2>1. op[j].trees \subseteq Name
    BY DEF PlacesInv, TreesTyped, OpRec
  <2>2. op[j].kind \in Trees!Creating => entry'[op[j].ws].status \in {"loading", "dismissed"}
    BY DEF PlacesInv, OpOK, CreateOK
  <2> QED
    BY <1>1, <1>2, <2>1, <2>2, OpStays
<1>4. EntriesOK' /\ Filled' /\ Apart' /\ Unique'
  BY <1>2 DEF PlacesInv, EntriesOK, Filled, Apart, Unique, Placed
<1>5. ASSUME NEW k \in Trees!Key, Trees!Open(k)' PROVE Backed(k)'
  <2>1. Trees!Open(k) /\ entry[k].path \in Name
    BY <1>2, <1>5, OpenIsPlaced DEF PlacesInv, EntriesOK
  <2>2. Backed(k)
    BY <2>1 DEF PlacesInv
  <2> QED
    BY <2>1, <2>2, BackedStays DEF Removes
<1> QED
  BY <1>3, <1>4, <1>5, TreeNumbers DEF PlacesInv

-----------------------------------------------------------------------------
(* What the steps of git do.                                               *)
LEMMA TreeTyped ==
  ASSUME TreesTyped, NEW p \in Name
  PROVE  /\ tree[p] \in TreeRec /\ tree[p].here \in BOOLEAN /\ tree[p].head \in Name0
         /\ tree[p].tracked \in SUBSET Nat /\ tree[p].untracked \in SUBSET Nat
         /\ branch[p] \in BranchRec /\ branch[p].here \in BOOLEAN /\ branch[p].work \in SUBSET Nat
BY DEF TreesTyped, TreeRec, BranchRec

LEMMA TreeOfSays ==
  ASSUME NEW b \in Name0
  PROVE  /\ Trees!TreeOf(b) \in TreeRec /\ Trees!TreeOf(b).here /\ Trees!TreeOf(b).head = b
         /\ Trees!TreeOf(b).tracked = {} /\ Trees!TreeOf(b).untracked = {}
<1> DEFINE e == [Trees!NoTree EXCEPT !.here = TRUE]
<1>1. e \in TreeRec /\ e.here /\ e.tracked = {} /\ e.untracked = {}
  BY Zenon, NoRecords DEF Trees!NoTree, TreeRec
<1> HIDE DEF e
<1>2. [e EXCEPT !.head = b] \in TreeRec
  BY <1>1 DEF TreeRec
<1>3. /\ [e EXCEPT !.head = b].here /\ [e EXCEPT !.head = b].head = b
      /\ [e EXCEPT !.head = b].tracked = {} /\ [e EXCEPT !.head = b].untracked = {}
  BY <1>1 DEF TreeRec
<1>4. Trees!TreeOf(b) = [e EXCEPT !.head = b]
  BY DEF Trees!TreeOf, e
<1> QED
  BY <1>2, <1>3, <1>4

LEMMA EditSays ==
  ASSUME TreesTyped, NEW p \in Name, Trees!Edit(p)
  PROVE  /\ works' = works + 1 /\ works' \in Nat
         /\ tree' \in [Name -> TreeRec] /\ \A q \in Name \ {p} : tree'[q] = tree[q]
         /\ tree[p].here /\ tree'[p].here /\ tree'[p].head = tree[p].head
         /\ \/ tree'[p].tracked = tree[p].tracked \cup {works'} /\ tree'[p].untracked = tree[p].untracked
            \/ tree'[p].untracked = tree[p].untracked \cup {works'} /\ tree'[p].tracked = tree[p].tracked
<1> DEFINE t == [tree[p] EXCEPT !.tracked = @ \cup {works'}]
           u == [tree[p] EXCEPT !.untracked = @ \cup {works'}]
<1>1. works' = works + 1 /\ works' \in Nat /\ tree[p].here /\ tree[p] \in TreeRec
  BY DEF Trees!Edit, TreesTyped
<1>2. /\ t \in TreeRec /\ t.here = tree[p].here /\ t.head = tree[p].head
      /\ t.tracked = tree[p].tracked \cup {works'} /\ t.untracked = tree[p].untracked
  BY Zenon, <1>1 DEF TreeRec
<1>3. /\ u \in TreeRec /\ u.here = tree[p].here /\ u.head = tree[p].head
      /\ u.untracked = tree[p].untracked \cup {works'} /\ u.tracked = tree[p].tracked
  BY Zenon, <1>1 DEF TreeRec
<1>4. tree' = [tree EXCEPT ![p] = t] \/ tree' = [tree EXCEPT ![p] = u]
  BY DEF Trees!Edit
<1> HIDE DEF t, u
<1> QED
  BY Zenon, <1>1, <1>2, <1>3, <1>4 DEF TreesTyped

LEMMA BranchSays ==
  ASSUME TreesTyped, NEW b \in Name, NEW new \in SUBSET Nat,
         branch' = [branch EXCEPT ![b].work = new]
  PROVE  /\ branch' \in [Name -> BranchRec] /\ \A c \in Name \ {b} : branch'[c] = branch[c]
         /\ branch'[b].here = branch[b].here /\ branch'[b].work = new
<1> DEFINE e == [branch[b] EXCEPT !.work = new]
<1>1. branch[b] \in BranchRec
  BY DEF TreesTyped
<1>2. e \in BranchRec /\ e.here = branch[b].here /\ e.work = new
  BY <1>1 DEF BranchRec
<1>3. branch' = [branch EXCEPT ![b] = e]
  OBVIOUS
<1> HIDE DEF e
<1> QED
  BY <1>2, <1>3 DEF TreesTyped

LEMMA CommitSays ==
  ASSUME TreesTyped, NEW p \in Name, Trees!Commit(p), tree[p].head \in Name
  PROVE  /\ tree' \in [Name -> TreeRec] /\ \A q \in Name \ {p} : tree'[q] = tree[q]
         /\ tree'[p].here /\ tree[p].here /\ tree'[p].head = tree[p].head
         /\ tree'[p].tracked = {} /\ tree'[p].untracked = {}
         /\ branch' \in [Name -> BranchRec]
         /\ \A b \in Name \ {tree[p].head} : branch'[b] = branch[b]
         /\ branch'[tree[p].head].here = branch[tree[p].head].here
         /\ branch'[tree[p].head].work
              = (branch[tree[p].head].work \cup tree[p].tracked) \cup tree[p].untracked
<1> DEFINE h == tree[p].head
           new == (branch[h].work \cup tree[p].tracked) \cup tree[p].untracked
<1>1. tree' = [tree EXCEPT ![p] = Trees!TreeOf(h)] /\ tree[p].here /\ h \in Name0
  BY DEF Trees!Commit, Name0
<1>2. tree' \in [Name -> TreeRec] /\ tree'[p] = Trees!TreeOf(h) /\ \A q \in Name \ {p} : tree'[q] = tree[q]
  BY <1>1, TreeOfSays DEF TreesTyped
<1>3. branch' = [branch EXCEPT ![h].work = new] /\ new \in SUBSET Nat
  BY TreeTyped DEF Trees!Commit
<1> HIDE DEF h, new
<1>4. /\ branch' \in [Name -> BranchRec] /\ \A c \in Name \ {h} : branch'[c] = branch[c]
      /\ branch'[h].here = branch[h].here /\ branch'[h].work = new
  BY Zenon, <1>3, BranchSays DEF h
<1> QED
  BY <1>1, <1>2, <1>4, TreeOfSays DEF h, new

LEMMA HeadSays ==
  ASSUME TreesTyped, NEW p \in Name, NEW b \in Name
  PROVE  /\ [tree[p] EXCEPT !.head = b] \in TreeRec
         /\ [tree[p] EXCEPT !.head = b].here = tree[p].here /\ [tree[p] EXCEPT !.head = b].head = b
         /\ [tree[p] EXCEPT !.head = b].tracked = tree[p].tracked
         /\ [tree[p] EXCEPT !.head = b].untracked = tree[p].untracked
<1>1. tree[p] \in TreeRec
  BY DEF TreesTyped
<1> QED
  BY <1>1 DEF TreeRec, Name0

LEMMA SwitchSays ==
  ASSUME TreesTyped, NEW p \in Name, Trees!Switch(p), tree[p].head \in Name
  PROVE  \E b \in Name :
         /\ ~Trees!CheckedOut(b) /\ Trees!Disturbs({p}, {b})
         /\ tree' \in [Name -> TreeRec] /\ \A q \in Name \ {p} : tree'[q] = tree[q]
         /\ tree[p].here /\ tree'[p].here /\ tree'[p].head = b
         /\ tree'[p].tracked = tree[p].tracked /\ tree'[p].untracked = tree[p].untracked
         /\ branch' \in [Name -> BranchRec] /\ \A c \in Name \ {b} : branch'[c] = branch[c]
         /\ branch'[b].here
         /\ branch'[b].work = IF branch[b].here THEN branch[b].work ELSE branch[tree[p].head].work
<1>1. PICK b \in Name :
         /\ ~Trees!CheckedOut(b) /\ Trees!Disturbs({p}, {b})
         /\ tree' = [tree EXCEPT ![p].head = b]
         /\ branch' = IF branch[b].here THEN branch
                      ELSE [branch EXCEPT ![b] = [here |-> TRUE, work |-> branch[tree[p].head].work]]
  BY Zenon DEF Trees!Switch
<1> DEFINE e == [tree[p] EXCEPT !.head = b]
           f == [here |-> TRUE, work |-> branch[tree[p].head].work]
<1>2. tree' = [tree EXCEPT ![p] = e]
  BY <1>1
<1>3. /\ e \in TreeRec /\ e.here = tree[p].here /\ e.head = b
      /\ e.tracked = tree[p].tracked /\ e.untracked = tree[p].untracked
  BY HeadSays
<1> HIDE DEF e
<1>4. /\ tree' \in [Name -> TreeRec] /\ (\A q \in Name \ {p} : tree'[q] = tree[q]) /\ tree'[p] = e
  BY <1>2, <1>3 DEF TreesTyped
<1>5. f \in BranchRec /\ f.here /\ f.work = branch[tree[p].head].work
  BY TreeTyped DEF BranchRec
<1>6. branch' = IF branch[b].here THEN branch ELSE [branch EXCEPT ![b] = f]
  BY <1>1
<1> HIDE DEF f
<1>7. /\ branch' \in [Name -> BranchRec] /\ \A c \in Name \ {b} : branch'[c] = branch[c]
      /\ branch'[b].here
      /\ branch'[b].work = IF branch[b].here THEN branch[b].work ELSE branch[tree[p].head].work
  BY <1>5, <1>6 DEF TreesTyped
<1>8. tree[p].here
  BY DEF Trees!Switch
<1>9. /\ tree'[p].here /\ tree'[p].head = b
      /\ tree'[p].tracked = tree[p].tracked /\ tree'[p].untracked = tree[p].untracked
  BY Zenon, <1>3, <1>4, <1>8
<1> HIDE DEF Trees!Switch, Trees!CheckedOut, Trees!Disturbs
<1> WITNESS b \in Name
<1> QED
  BY <1>1, <1>4, <1>7, <1>8, <1>9

LEMMA RenameSays ==
  ASSUME TreesTyped, NEW k \in Trees!Key, Trees!RenameBranch(k)
  PROVE  \E old, new \in Name :
         /\ branch[old].here /\ ~branch[new].here /\ Trees!Disturbs({}, {old, new})
         /\ tree' \in [Name -> TreeRec]
         /\ \A p \in Name : /\ tree'[p].here = tree[p].here
                            /\ tree'[p].head = IF tree[p].here /\ tree[p].head = old THEN new ELSE tree[p].head
                            /\ tree'[p].tracked = tree[p].tracked /\ tree'[p].untracked = tree[p].untracked
                            /\ ~tree[p].here => tree'[p] = tree[p]
         /\ branch' \in [Name -> BranchRec]
         /\ \A c \in Name \ {old, new} : branch'[c] = branch[c]
         /\ branch'[new] = branch[old] /\ ~branch'[old].here /\ branch'[old].work = {}
<1> DEFINE old == entry[k].branch
           none == [here |-> FALSE, work |-> {}]
<1>1. entry[k].branch \in Name0
  BY DEF TreesTyped, EntryRec
<1>2. old \in Name /\ branch[old].here
  BY <1>1 DEF Trees!RenameBranch, Name0
<1>3. PICK new \in Name :
         /\ ~branch[new].here /\ Trees!Disturbs({}, {old, new})
         /\ branch' = [branch EXCEPT ![new] = branch[old], ![old] = none]
         /\ tree' = [p \in Name |-> IF tree[p].here /\ tree[p].head = old
                                  THEN [tree[p] EXCEPT !.head = new] ELSE tree[p]]
  BY Zenon DEF Trees!RenameBranch
<1> HIDE DEF old
<1>4. none \in BranchRec /\ ~none.here /\ none.work = {}
  BY DEF BranchRec
<1> HIDE DEF none
<1>5. /\ branch' \in [Name -> BranchRec] /\ \A c \in Name \ {old, new} : branch'[c] = branch[c]
      /\ branch'[new] = branch[old] /\ branch'[old] = none
  BY <1>2, <1>3, <1>4 DEF TreesTyped
<1>6. ASSUME NEW p \in Name
      PROVE  /\ tree'[p] \in TreeRec /\ tree'[p].here = tree[p].here
             /\ tree'[p].head = IF tree[p].here /\ tree[p].head = old THEN new ELSE tree[p].head
             /\ tree'[p].tracked = tree[p].tracked /\ tree'[p].untracked = tree[p].untracked
             /\ ~tree[p].here => tree'[p] = tree[p]
  BY <1>3, HeadSays, TreeTyped
<1>7. tree' \in [Name -> TreeRec]
  BY <1>3, <1>6
<1> USE <1>2
<1> WITNESS old \in Name, new \in Name
<1> QED
  BY <1>2, <1>3, <1>4, <1>5, <1>6, <1>7

LEMMA StuckSays ==
  ASSUME TreesTyped, NEW p \in Name, NEW b \in BOOLEAN, tree' = [tree EXCEPT ![p].stuck = b]
  PROVE  /\ tree' \in [Name -> TreeRec] /\ \A q \in Name \ {p} : tree'[q] = tree[q]
         /\ tree'[p].here = tree[p].here /\ tree'[p].head = tree[p].head
         /\ tree'[p].tracked = tree[p].tracked /\ tree'[p].untracked = tree[p].untracked
<1> DEFINE e == [tree[p] EXCEPT !.stuck = b]
<1>1. tree[p] \in TreeRec
  BY TreeTyped
<1>2. /\ e \in TreeRec /\ e.here = tree[p].here /\ e.head = tree[p].head
      /\ e.tracked = tree[p].tracked /\ e.untracked = tree[p].untracked
  BY <1>1 DEF TreeRec
<1>3. tree' = [tree EXCEPT ![p] = e]
  OBVIOUS
<1> HIDE DEF e
<1> QED
  BY <1>2, <1>3 DEF TreesTyped

-----------------------------------------------------------------------------
(* A step that opens and closes nothing, and removes no worktree.          *)
Opens ==
  \A k \in Trees!Key : /\ Trees!Open(k)' <=> Trees!Open(k)
                       /\ entry'[k].status = "none" <=> entry[k].status = "none"

LEMMA SteadyEntries ==
  ASSUME PlacesInv, Steady, \A k \in Trees!Key : Placed(k)' => Placed(k)
  PROVE  EntriesOK'
<1>1. \A k \in Trees!Key : entry[k].parent \in Key0
  BY DEF PlacesInv, TreesTyped, EntryRec
<1> QED
  BY <1>1 DEF PlacesInv, EntriesOK, Steady, Key0

LEMMA EasyStep ==
  ASSUME PlacesInv, TreesTyped', Steady, Opens, \A k \in Trees!Key : Placed(k)' => Placed(k),
         \A n \in Name : tree[n].here => tree'[n].here,
         NEW i \in Slot, \A j \in Slot \ {i} : op'[j] = op[j], OpOK(i)',
         op'[i].trees \subseteq op[i].trees,
         op'[i].kind \in Trees!Creating => op[i].kind \in Trees!Creating /\ op'[i].ws = op[i].ws,
         \A k \in Trees!Key : Removes(i, k) => Removes(i, k)',
         \A j \in Slot \ {i} : op[j].kind \in Trees!Creating =>
           entry'[op[j].ws].status \in {"loading", "dismissed"}
  PROVE  PlacesInv'
<1>1. \A j \in Slot \ {i} : OpOK(j)'
  BY OthersStay DEF Opens
<1>2. EntriesOK' /\ Filled' /\ Apart'
  BY SteadyEntries, ApartStays DEF Steady, PlacesInv, Filled, Opens
<1>3. Unique'
  BY OpenIsPlaced DEF PlacesInv, Unique, Opens, Steady
<1>4. ASSUME NEW k \in Trees!Key, Trees!Open(k)' PROVE Backed(k)'
  <2>1. Trees!Open(k) /\ Backed(k) /\ Placed(k) /\ entry[k].path \in Name /\ entry'[k].path = entry[k].path
    BY <1>4, OpenIsPlaced DEF PlacesInv, EntriesOK, Opens, Steady
  <2>2. \A j \in Slot : Removes(j, k) => Removes(j, k)'
    BY DEF Removes
  <2> QED
    BY <2>1, <2>2, BackedStays DEF Steady
<1> QED
  BY <1>1, <1>2, <1>3, <1>4, TreeNumbers DEF PlacesInv

LEMMA EntryStep ==
  ASSUME PlacesInv, TreesTyped', UNCHANGED <<op, tree, doubtful>>, Steady, Opens,
         \A k \in Trees!Key : Placed(k)' => Placed(k),
         \A j \in Slot : op[j].kind \in Trees!Creating => entry'[op[j].ws].status \in {"loading", "dismissed"}
  PROVE  PlacesInv'
<1>1. \A j \in Slot : OpOK(j)'
  BY OpStays DEF Opens
<1>2. EntriesOK' /\ Filled' /\ Apart' /\ Unique'
  BY SteadyEntries, OpenIsPlaced DEF PlacesInv, Filled, Apart, Unique, Opens, Steady
<1>3. ASSUME NEW k \in Trees!Key, Trees!Open(k)' PROVE Backed(k)'
  <2>1. Trees!Open(k) /\ Backed(k) /\ Placed(k) /\ entry'[k].path = entry[k].path
    BY <1>3, OpenIsPlaced DEF PlacesInv, Opens, Steady
  <2> QED
    BY <2>1, BackedStays DEF Removes
<1> QED
  BY <1>1, <1>2, <1>3 DEF PlacesInv

LEMMA StatusSays ==
  ASSUME TreesTyped, NEW k \in Trees!Key, NEW st \in Statuses, entry' = [entry EXCEPT ![k].status = st]
  PROVE  /\ entry' \in [Trees!Key -> EntryRec] /\ \A l \in Trees!Key \ {k} : entry'[l] = entry[l]
         /\ entry'[k].status = st /\ entry'[k].path = entry[k].path
         /\ entry'[k].branch = entry[k].branch /\ entry'[k].parent = entry[k].parent
<1> DEFINE e == [entry[k] EXCEPT !.status = st]
<1>1. entry[k] \in EntryRec
  BY DEF TreesTyped
<1>2. /\ e \in EntryRec /\ e.status = st /\ e.path = entry[k].path
      /\ e.branch = entry[k].branch /\ e.parent = entry[k].parent
  BY <1>1 DEF EntryRec
<1>3. entry' = [entry EXCEPT ![k] = e]
  OBVIOUS
<1> HIDE DEF e
<1> QED
  BY <1>2, <1>3 DEF TreesTyped

LEMMA EntryBranchSays ==
  ASSUME TreesTyped, NEW k \in Trees!Key, NEW b \in Name0, entry' = [entry EXCEPT ![k].branch = b]
  PROVE  /\ entry' \in [Trees!Key -> EntryRec] /\ \A l \in Trees!Key \ {k} : entry'[l] = entry[l]
         /\ entry'[k].status = entry[k].status /\ entry'[k].path = entry[k].path
         /\ entry'[k].branch = b /\ entry'[k].parent = entry[k].parent
<1> DEFINE e == [entry[k] EXCEPT !.branch = b]
<1>1. entry[k] \in EntryRec
  BY DEF TreesTyped
<1>2. /\ e \in EntryRec /\ e.status = entry[k].status /\ e.path = entry[k].path
      /\ e.branch = b /\ e.parent = entry[k].parent
  BY <1>1 DEF EntryRec
<1>3. entry' = [entry EXCEPT ![k] = e]
  OBVIOUS
<1> HIDE DEF e
<1> QED
  BY <1>2, <1>3 DEF TreesTyped

(* An entry made anew, or put back as it was read.                         *)
PutEntry(k, e, st) == entry' = [entry EXCEPT ![k] = [e EXCEPT !.status = st]]

LEMMA EntrySays ==
  ASSUME TreesTyped, NEW k \in Trees!Key, NEW e, e \in EntryRec, NEW st \in Statuses, PutEntry(k, e, st)
  PROVE  /\ entry' \in [Trees!Key -> EntryRec] /\ \A l \in Trees!Key \ {k} : entry'[l] = entry[l]
         /\ entry'[k].status = st /\ entry'[k].path = e.path
         /\ entry'[k].branch = e.branch /\ entry'[k].parent = e.parent
<1> DEFINE f == [e EXCEPT !.status = st]
<1>2. /\ f \in EntryRec /\ f.status = st /\ f.path = e.path
      /\ f.branch = e.branch /\ f.parent = e.parent
  BY DEF EntryRec
<1>3. entry' = [entry EXCEPT ![k] = f]
  BY DEF PutEntry
<1> HIDE DEF f
<1> QED
  BY <1>2, <1>3 DEF TreesTyped

GitOK ==
  /\ \A b \in Name : ~branch[b].here => branch[b].work = {}
  /\ \A p \in Name : ~tree[p].here => tree[p].tracked = {} /\ tree[p].untracked = {}
  /\ \A p \in Name : tree[p].here => tree[p].head \in Name /\ branch[tree[p].head].here
  /\ \A p, q \in Name : tree[p].here /\ tree[q].here /\ tree[p].head = tree[q].head => p = q

LEMMA AgentKeepsPlaces ==
  ASSUME PlacesInv, GitOK, NEW p \in Name,
         Trees!Edit(p) \/ Trees!Commit(p) \/ Trees!Switch(p) \/ Trees!Resolve(p)
  PROVE  PlacesInv'
<1> USE DEF PlacesInv
<1>1. CASE Trees!Edit(p)
  <2>1. TreesTyped' /\ \A n \in Name : tree[n].here => tree'[n].here
    BY <1>1, EditSays DEF TreesTyped, Trees!Edit, Trees!history
  <2> QED
    BY <1>1, <2>1, GitKeepsPlaces DEF Trees!Edit, Trees!history
<1>2. CASE Trees!Commit(p)
  <2>1. tree[p].head \in Name
    BY <1>2 DEF Trees!Commit, GitOK
  <2>2. TreesTyped' /\ \A n \in Name : tree[n].here => tree'[n].here
    BY Zenon, <1>2, <2>1, CommitSays DEF TreesTyped, Trees!Commit, Trees!history, Trees!bounds
  <2> QED
    BY <1>2, <2>2, GitKeepsPlaces DEF Trees!Commit, Trees!history
<1>3. CASE Trees!Switch(p)
  <2>1. tree[p].head \in Name
    BY <1>3 DEF Trees!Switch, GitOK
  <2>2. TreesTyped' /\ \A n \in Name : tree[n].here => tree'[n].here
    BY Zenon, <1>3, <2>1, SwitchSays DEF TreesTyped, Trees!Switch
  <2> QED
    BY <1>3, <2>2, GitKeepsPlaces DEF Trees!Switch
<1>4. CASE Trees!Resolve(p)
  <2>1. TreesTyped' /\ \A n \in Name : tree[n].here => tree'[n].here
    BY Zenon, <1>4, StuckSays DEF TreesTyped, Trees!Resolve, Trees!history, Trees!bounds
  <2> QED
    BY <1>4, <2>1, GitKeepsPlaces DEF Trees!Resolve, Trees!history
<1> QED
  BY <1>1, <1>2, <1>3, <1>4

LEMMA RenameKeepsPlaces ==
  ASSUME PlacesInv, NEW k \in Trees!Key, Trees!RenameBranch(k)
  PROVE  PlacesInv'
<1>1. TreesTyped' /\ \A n \in Name : tree[n].here => tree'[n].here
  BY Zenon, RenameSays DEF PlacesInv, TreesTyped, Trees!RenameBranch
<1> QED
  BY <1>1, GitKeepsPlaces DEF Trees!RenameBranch

LEMMA CreationWaits ==
  ASSUME PlacesInv, NEW j \in Slot, op[j].kind \in Trees!Creating
  PROVE  op[j].ws \in Trees!Key /\ entry[op[j].ws].status \in {"loading", "dismissed"}
BY DEF PlacesInv, OpOK, CreateOK

LEMMA EntryKeepsPlaces ==
  ASSUME PlacesInv, GitOK, NEW k \in Trees!Key,
         Trees!RefreshGitInfo(k) \/ Trees!ClearError(k) \/ Trees!Dismiss(k)
  PROVE  PlacesInv'
<1>1. CASE Trees!RefreshGitInfo(k)
  <2>1. Trees!Open(k) /\ UNCHANGED <<tree, branch, op, owed, waived, doubtful, works>>
    BY <1>1 DEF Trees!RefreshGitInfo, Trees!history, Trees!bounds
  <2>2. entry[k].path \in Name
    BY <2>1, OpenIsPlaced DEF PlacesInv, EntriesOK
  <2>3. PICK b \in Name0 : entry' = [entry EXCEPT ![k].branch = b]
    BY <1>1, <2>2, TreeTyped DEF Trees!RefreshGitInfo, PlacesInv, Name0
  <2>4. /\ entry' \in [Trees!Key -> EntryRec] /\ \A l \in Trees!Key \ {k} : entry'[l] = entry[l]
        /\ entry'[k].status = entry[k].status /\ entry'[k].path = entry[k].path
        /\ entry'[k].parent = entry[k].parent
    BY Zenon, <2>3, EntryBranchSays DEF PlacesInv
  <2>5. TreesTyped' /\ Steady /\ Opens /\ \A l \in Trees!Key : Placed(l)' => Placed(l)
    BY <2>1, <2>4 DEF PlacesInv, TreesTyped, Steady, Opens, Placed, Trees!Open
  <2> QED
    BY <2>1, <2>4, <2>5, EntryStep, CreationWaits
<1>2. CASE Trees!ClearError(k)
  <2>1. /\ entry' \in [Trees!Key -> EntryRec] /\ \A l \in Trees!Key \ {k} : entry'[l] = entry[l]
        /\ entry'[k].status = "loaded" /\ entry'[k].path = entry[k].path
        /\ entry'[k].parent = entry[k].parent /\ entry[k].status = "opError"
    BY Zenon, <1>2, StatusSays DEF PlacesInv, Trees!ClearError, Statuses
  <2>2. UNCHANGED <<tree, branch, op, owed, waived, doubtful, works>>
    BY <1>2 DEF Trees!ClearError, Trees!history, Trees!bounds
  <2>3. TreesTyped' /\ Steady /\ Opens /\ \A l \in Trees!Key : Placed(l)' => Placed(l)
    BY <2>1, <2>2 DEF PlacesInv, TreesTyped, Steady, Opens, Placed, Trees!Open
  <2>4. \A j \in Slot : op[j].kind \in Trees!Creating => op[j].ws \in Trees!Key \ {k}
    BY <2>1, CreationWaits
  <2> QED
    BY <2>1, <2>2, <2>3, <2>4, EntryStep, CreationWaits
<1>3. CASE Trees!Dismiss(k)
  <2>1. PutEntry(k, Trees!NoEntry, "dismissed") /\ entry[k].status \in {"error", "loading"}
    BY <1>3 DEF Trees!Dismiss, PutEntry
  <2>2. /\ entry' \in [Trees!Key -> EntryRec] /\ \A l \in Trees!Key \ {k} : entry'[l] = entry[l]
        /\ entry'[k].status = "dismissed" /\ entry[k].status \in {"error", "loading"}
    BY <2>1, EntrySays, NoRecords DEF PlacesInv, Statuses
  <2>3. UNCHANGED <<tree, branch, op, owed, waived, doubtful, works>>
    BY <1>3 DEF Trees!Dismiss, Trees!history, Trees!bounds
  <2>4. TreesTyped' /\ Steady /\ Opens /\ \A l \in Trees!Key : Placed(l)' => Placed(l)
    BY <2>2, <2>3 DEF PlacesInv, TreesTyped, Steady, Opens, Placed, Trees!Open
  <2> QED
    BY <2>2, <2>3, <2>4, EntryStep, CreationWaits
<1> QED
  BY <1>1, <1>2, <1>3

-----------------------------------------------------------------------------
(* The steps of operations.  A step of i that may open or close workspaces,*)
(* or remove a worktree.                                                   *)
Opening(k) ==
  \/ entry[k].path \in doubtful
  \/ tree[entry[k].path].here /\ \A j \in Trees!Key : Trees!Open(j) /\ entry[j].path = entry[k].path => j = k

LEMMA OperationStep ==
  ASSUME PlacesInv, TreesTyped', Steady, EntriesOK', Filled',
         NEW i \in Slot, \A j \in Slot \ {i} : op'[j] = op[j], OpOK(i)',
         \A n \in Name : tree[n].here /\ ~tree'[n].here => n \in op[i].trees /\ n # 1,
         \A k \in Trees!Key : Trees!Open(k) /\ ~Trees!Open(k)' => entry[k].path \in op[i].trees,
         \A k \in Trees!Key : Trees!Open(k)' /\ ~Trees!Open(k) => entry'[k].path \in op[i].trees /\ Opening(k)',
         \A j \in Slot \ {i} : op[j].kind \in Trees!Creating =>
           entry'[op[j].ws].status \in {"loading", "dismissed"},
         \A p \in op'[i].trees : \A j \in Slot \ {i} :
           p \in op[j].trees => p \in op[i].trees \/ p \in doubtful',
         op'[i].kind \in Trees!Creating => \A j \in Slot \ {i} : op[j].kind \in Trees!Creating => op'[i].ws # op[j].ws,
         \A k \in Trees!Key : Trees!Open(k) /\ Trees!Open(k)' => Backed(k)'
  PROVE  PlacesInv'
<1>1. \A j \in Slot \ {i} : OpOK(j)'
  BY OthersStay
<1>2. Apart'
  <2>1. ASSUME NEW j \in Slot \ {i}, NEW p \in op'[i].trees, p \in op[j].trees PROVE p \in doubtful'
    BY <2>1, ApartSays DEF Steady
  <2>2. ASSUME NEW j \in Slot \ {i}, NEW l \in Slot \ {i}, j # l
        PROVE  /\ \A p \in op'[j].trees : p \in op'[l].trees => p \in doubtful'
               /\ op'[j].kind \in Trees!Creating /\ op'[l].kind \in Trees!Creating => op'[j].ws # op'[l].ws
    BY <2>2 DEF PlacesInv, Apart, Steady
  <2> QED
    BY <2>1, <2>2 DEF Apart
<1>3. Unique'
  <2> SUFFICES ASSUME NEW k \in Trees!Key, NEW j \in Trees!Key, Trees!Open(k)', Trees!Open(j)',
                      entry'[k].path = entry'[j].path,
                      k # j, entry'[k].path \notin doubtful'
               PROVE  FALSE
    BY DEF Unique
  <2>1. Trees!Open(k) /\ Trees!Open(j)
    BY DEF Opening
  <2> QED
    BY <2>1, OpenIsPlaced DEF PlacesInv, Unique, Steady
<1>4. ASSUME NEW k \in Trees!Key, Trees!Open(k)', ~Trees!Open(k) PROVE Backed(k)'
  BY <1>4 DEF Opening, Backed
<1> QED
  BY <1>1, <1>2, <1>3, <1>4, TreeNumbers DEF PlacesInv

(* A call begins, or goes on with the worktrees that were chosen.          *)
LEMMA BeginStep ==
  ASSUME PlacesInv, TreesTyped', Steady, Opens, \A k \in Trees!Key : Placed(k)' => Placed(k),
         UNCHANGED tree,
         NEW i \in Slot, op[i].at \notin Removal, \A j \in Slot \ {i} : op'[j] = op[j], OpOK(i)',
         \A p \in op'[i].trees : \A j \in Slot : p \in op[j].trees => p \in doubtful',
         op'[i].kind \in Trees!Creating => \A j \in Slot \ {i} : op[j].kind \in Trees!Creating => op'[i].ws # op[j].ws,
         \A j \in Slot \ {i} : op[j].kind \in Trees!Creating =>
           entry'[op[j].ws].status \in {"loading", "dismissed"}
  PROVE  PlacesInv'
<1>1. EntriesOK' /\ Filled'
  BY SteadyEntries DEF PlacesInv, Filled, Opens
<1>2. ASSUME NEW k \in Trees!Key, Trees!Open(k), Trees!Open(k)' PROVE Backed(k)'
  <2>1. Backed(k) /\ Placed(k) /\ entry'[k].path = entry[k].path
    BY <1>2, OpenIsPlaced DEF PlacesInv, Steady
  <2>2. \A j \in Slot : Removes(j, k) => Removes(j, k)'
    BY DEF Removes, Removal
  <2> QED
    BY <2>1, <2>2, BackedStays DEF Steady
<1> QED
  BY <1>1, <1>2, OperationStep DEF Opens

(* The workspace of an operation that failed or goes on is put back.       *)
LEMMA PutBackStep ==
  ASSUME PlacesInv, TreesTyped', NEW i \in Slot, \A j \in Slot \ {i} : op'[j] = op[j], OpOK(i)',
         NEW k, k = op[i].ws, op[i].kind \in Removals,
         op[i].at \in {"lock", "dirty", "status", "commit", "merge"} \/ entry[k].path \in doubtful',
         op[i].at \notin {"branch", "drop"},
         op[i].kind = "remove" \/ op[i].at \notin {"lock", "parent"},
         doubtful \subseteq doubtful',
         \A n \in Name : tree[n].here => tree'[n].here,
         \A l \in Trees!Key \ {k} : entry'[l] = entry[l],
         entry'[k].status \in {"loaded", "opError"}, entry'[k].path = op[i].saved.path,
         entry'[k].parent = op[i].saved.parent,
         op'[i].trees \subseteq op[i].trees, op'[i].kind \notin Trees!Creating
  PROVE  PlacesInv'
<1>1. Subject(i, k)
  BY DEF PlacesInv, OpOK
<1>2. /\ k \in Trees!Key /\ Placed(k) /\ entry[k].path \in op[i].trees
      /\ entry'[k].path = entry[k].path /\ entry'[k].parent = entry[k].parent
  BY <1>1 DEF Subject
<1>3. Trees!Open(k) \/ entry[k].path \in doubtful'
  BY <1>1 DEF Subject
<1>4. Trees!Open(k)' /\ Placed(k)' /\ \A l \in Trees!Key \ {k} : (Trees!Open(l)' <=> Trees!Open(l)) /\ (Placed(l)' <=> Placed(l))
  BY <1>2 DEF Trees!Open, Placed
<1>5. Steady
  BY <1>2, <1>4 DEF Steady
<1>6. EntriesOK'
  BY <1>2, <1>4, <1>5, SteadyEntries
<1>7. Filled'
  BY <1>2 DEF PlacesInv, Filled, Placed
<1>8. \A l \in Trees!Key : Trees!Open(l)' /\ ~Trees!Open(l) => entry'[l].path \in op[i].trees /\ Opening(l)'
  BY <1>2, <1>3, <1>4 DEF Opening
<1>9. \A j \in Slot : op[j].kind \in Trees!Creating => op[j].ws # k
  BY <1>2, CreationWaits DEF Placed
<1>10. ASSUME NEW l \in Trees!Key, Trees!Open(l) PROVE Backed(l)'
  <2>1. Backed(l) /\ Placed(l) /\ entry'[l].path = entry[l].path /\ entry[l].path \in Name
    BY <1>5, <1>10, OpenIsPlaced DEF PlacesInv, Steady, EntriesOK
  <2>2. \A j \in Slot : Removes(j, l) => Removes(j, l)'
    BY DEF Removes
  <2> QED
    BY <2>1, <2>2, BackedStays
<1> QED
  BY <1>4, <1>5, <1>6, <1>7, <1>8, <1>9, <1>10, OperationStep, CreationWaits

LEMMA FrameSays ==
  ASSUME NEW k \in Key0
  PROVE  Trees!Frame(k) \in FrameRec /\ Trees!Frame(k).ws = k /\ Trees!Frame(k).kids = {}
BY NoRecords DEF Trees!Frame, FrameRec, Name0

SetsFrames(i, at, frames) == op' = [op EXCEPT ![i].at = at, ![i].frames = frames]

LEMMA FramesSet ==
  ASSUME TreesTyped, NEW i \in Slot, NEW at \in OpStages, NEW frames \in Seq(FrameRec),
         SetsFrames(i, at, frames)
  PROVE  /\ op' \in [Slot -> OpRec] /\ \A j \in Slot \ {i} : op'[j] = op[j]
         /\ op'[i].at = at /\ op'[i].kind = op[i].kind /\ op'[i].ws = op[i].ws
         /\ op'[i].trees = op[i].trees /\ op'[i].saved = op[i].saved
         /\ op'[i].frames = frames
<1> DEFINE e == [op[i] EXCEPT !.at = at]
<1>1. op[i] \in OpRec
  BY DEF TreesTyped
<1>2. /\ e \in OpRec /\ e.at = at /\ e.kind = op[i].kind /\ e.ws = op[i].ws /\ e.trees = op[i].trees
      /\ e.saved = op[i].saved
  BY Zenon, <1>1 DEF OpRec
<1>3. op' = [op EXCEPT ![i] = [e EXCEPT !.frames = frames]]
  BY Zenon DEF SetsFrames
<1> HIDE DEF e
<1> DEFINE f == [e EXCEPT !.frames = frames]
<1>4. /\ f \in OpRec /\ f.at = e.at /\ f.kind = e.kind /\ f.ws = e.ws /\ f.trees = e.trees
      /\ f.saved = e.saved /\ f.frames = frames
  BY <1>2 DEF OpRec
<1>5. op' = [op EXCEPT ![i] = f]
  BY <1>3
<1> HIDE DEF f
<1>6. op' \in [Slot -> OpRec] /\ (\A j \in Slot \ {i} : op'[j] = op[j]) /\ op'[i] = f
  BY <1>4, <1>5 DEF TreesTyped
<1> QED
  BY <1>2, <1>4, <1>6

LEMMA EnterSays ==
  ASSUME TreesTyped, NEW i \in Slot, Trees!EnterFrames(i)
  PROVE  /\ op' \in [Slot -> OpRec] /\ \A j \in Slot \ {i} : op'[j] = op[j]
         /\ op'[i].at = "enter" /\ op'[i].kind = op[i].kind /\ op'[i].ws = op[i].ws
         /\ op'[i].trees = op[i].trees /\ op'[i].saved = op[i].saved
         /\ op'[i].frames \in Seq(FrameRec) /\ Len(op'[i].frames) = 1
         /\ op'[i].frames[1].ws = op[i].ws /\ op'[i].frames[1].kids = {}
<1> DEFINE frames == <<Trees!Frame(op[i].ws)>>
<1>1. op[i].ws \in Key0
  BY DEF TreesTyped, OpRec
<1>2. frames \in Seq(FrameRec) /\ Len(frames) = 1 /\ frames[1].ws = op[i].ws /\ frames[1].kids = {}
  BY <1>1, FrameSays
<1>3. SetsFrames(i, "enter", frames) /\ "enter" \in OpStages
  BY DEF Trees!EnterFrames, SetsFrames, OpStages
<1> HIDE DEF frames
<1> QED
  BY <1>2, <1>3, FramesSet

(* What a removal that enters its first call stands on.                    *)
LEMMA EnterStands ==
  ASSUME PlacesInv, NEW i \in Slot, Trees!EnterFrames(i), op[i].kind \in {"remove", "mergeRemove"},
         op[i].kind = "remove" \/ op[i].at = "merge", Steady
  PROVE  OpOK(i)'
<1>1. /\ op'[i].at = "enter" /\ op'[i].kind = op[i].kind /\ op'[i].ws = op[i].ws
      /\ op'[i].trees = op[i].trees /\ op'[i].saved = op[i].saved
      /\ op'[i].frames \in Seq(FrameRec) /\ Len(op'[i].frames) = 1
      /\ op'[i].frames[1].kids = {}
  BY EnterSays DEF PlacesInv
<1>2. Subject(i, op[i].ws) /\ EntriesOK
  BY DEF PlacesInv, OpOK, Removals
<1>3. entry[op[i].ws].parent # 0 => entry[op[i].ws].parent \in Trees!Key /\ Placed(entry[op[i].ws].parent)
  BY <1>2 DEF PlacesInv, TreesTyped, EntryRec, Key0, Subject, EntriesOK
<1>4. Subject(i, op[i].ws)'
  BY <1>1, <1>2, <1>3 DEF Subject, Steady
<1>5. FramesOK(i)' /\ AdoptOK(i)' /\ CreateOK(i)'
  BY <1>1 DEF FramesOK, Sorted, KidsAfter, AdoptOK, CreateOK, Trees!Creating
<1> QED
  BY <1>1, <1>4, <1>5 DEF OpOK

LEMMA IdleStands ==
  ASSUME NEW i \in Slot, op'[i].kind = "none", op'[i].at = "idle"
  PROVE  OpOK(i)'
BY DEF OpOK, Removals, FramesOK, Removal, AdoptOK, CreateOK, Trees!Creating

LEMMA ErrorSays ==
  ASSUME TreesTyped, NEW i \in Slot, op[i].ws \in Trees!Key, Trees!OperationError(i)
  PROVE  /\ entry' \in [Trees!Key -> EntryRec] /\ \A l \in Trees!Key \ {op[i].ws} : entry'[l] = entry[l]
         /\ entry'[op[i].ws].status = "opError" /\ entry'[op[i].ws].path = op[i].saved.path
         /\ entry'[op[i].ws].parent = op[i].saved.parent
<1>1. op[i].saved \in EntryRec /\ "opError" \in Statuses
  BY DEF TreesTyped, OpRec, Statuses
<1>2. PutEntry(op[i].ws, op[i].saved, "opError")
  BY DEF Trees!OperationError, PutEntry
<1> QED
  BY <1>1, <1>2, EntrySays

LEMMA FailStep ==
  ASSUME PlacesInv, NEW i \in Slot, Trees!OperationError(i), Trees!Ends(i), op[i].kind \in Removals,
         op[i].at \in {"lock", "dirty", "status", "commit", "merge"}
           \/ (op[i].at = "file" /\ op[i].trees \subseteq doubtful'),
         op[i].kind = "remove" \/ op[i].at # "lock",
         tree' \in [Name -> TreeRec], branch' \in [Name -> BranchRec],
         owed' \in SUBSET Nat, waived' \in SUBSET Nat, works' \in Nat, doubtful \subseteq doubtful',
         \A n \in Name : tree[n].here => tree'[n].here
  PROVE  PlacesInv'
<1>1. op[i].ws \in Trees!Key /\ entry[op[i].ws].path \in op[i].trees
  BY DEF PlacesInv, OpOK, Subject
<1>2. /\ entry' \in [Trees!Key -> EntryRec] /\ \A l \in Trees!Key \ {op[i].ws} : entry'[l] = entry[l]
      /\ entry'[op[i].ws].status = "opError" /\ entry'[op[i].ws].path = op[i].saved.path
      /\ entry'[op[i].ws].parent = op[i].saved.parent
  BY <1>1, ErrorSays DEF PlacesInv
<1>3. /\ op' \in [Slot -> OpRec] /\ \A j \in Slot \ {i} : op'[j] = op[j]
      /\ op'[i].kind = "none" /\ op'[i].at = "idle" /\ op'[i].trees = {}
  BY EndsSays DEF PlacesInv
<1>4. TreesTyped' /\ OpOK(i)' /\ op'[i].kind \notin Trees!Creating
  BY <1>2, <1>3, IdleStands DEF TreesTyped, Trees!Creating
<1> QED
  BY <1>1, <1>2, <1>3, <1>4, PutBackStep

(* A merge or a removal goes on, and nothing changes that is about places. *)
LEMMA GoesOn ==
  ASSUME PlacesInv, NEW i \in Slot, NEW at \in OpStages, Trees!Goto(i, at), UNCHANGED entry,
         TreesTyped', OpOK(i)', doubtful \subseteq doubtful', op[i].at \notin {"branch", "drop"},
         \A n \in Name : tree[n].here => tree'[n].here
  PROVE  PlacesInv'
<1>1. /\ \A j \in Slot \ {i} : op'[j] = op[j]
      /\ op'[i].kind = op[i].kind /\ op'[i].ws = op[i].ws /\ op'[i].trees = op[i].trees
  BY Zenon, GotoSays DEF PlacesInv
<1>2. Steady /\ Opens /\ \A k \in Trees!Key : Placed(k)' => Placed(k)
  BY DEF Steady, Opens, Placed, Trees!Open
<1>3. \A k \in Trees!Key : ~Removes(i, k)
  BY DEF Removes
<1> QED
  BY <1>1, <1>2, <1>3, EasyStep, CreationWaits

LEMMA MergingStands ==
  ASSUME PlacesInv, NEW i \in Slot, op[i].kind \in Trees!Merging,
         op[i].at \in {"dirty", "status", "commit", "merge"}, NEW at \in {"status", "commit", "merge", "keep"},
         Trees!Goto(i, at), UNCHANGED entry, doubtful \subseteq doubtful'
  PROVE  OpOK(i)'
<1>1. /\ op'[i].at = at /\ op'[i].kind = op[i].kind /\ op'[i].ws = op[i].ws
      /\ op'[i].trees = op[i].trees /\ op'[i].saved = op[i].saved /\ op'[i].base = op[i].base
  BY Zenon, GotoSays DEF PlacesInv, OpStages
<1>2. Subject(i, op[i].ws)
  BY DEF PlacesInv, OpOK, Removals, Trees!Merging
<1>3. Subject(i, op[i].ws)'
  <2>1. \A k : (Trees!Open(k) => Trees!Open(k)') /\ (Placed(k) => Placed(k)')
    BY DEF Trees!Open, Placed
  <2> QED
    BY <1>1, <1>2, <2>1 DEF Subject, Trees!Merging
<1>4. FramesOK(i)' /\ AdoptOK(i)' /\ CreateOK(i)'
  BY <1>1 DEF FramesOK, Removal, AdoptOK, CreateOK, Trees!Creating, Trees!Merging
<1> QED
  BY <1>1, <1>3, <1>4 DEF OpOK

-----------------------------------------------------------------------------
(* The merge.                                                              *)
SetsTracked(p, new) == tree' = [tree EXCEPT ![p].tracked = new]

LEMMA TrackedSays ==
  ASSUME TreesTyped, NEW p \in Name, NEW new \in SUBSET Nat, SetsTracked(p, new)
  PROVE  /\ tree' \in [Name -> TreeRec] /\ \A q \in Name \ {p} : tree'[q] = tree[q]
         /\ tree'[p].here = tree[p].here /\ tree'[p].head = tree[p].head
         /\ tree'[p].tracked = new /\ tree'[p].untracked = tree[p].untracked
<1> DEFINE e == [tree[p] EXCEPT !.tracked = new]
<1>1. tree[p] \in TreeRec
  BY TreeTyped
<1>2. /\ e \in TreeRec /\ e.here = tree[p].here /\ e.head = tree[p].head
      /\ e.tracked = new /\ e.untracked = tree[p].untracked
  BY <1>1 DEF TreeRec
<1>3. tree' = [tree EXCEPT ![p] = e]
  BY DEF SetsTracked
<1> HIDE DEF e
<1> QED
  BY <1>2, <1>3 DEF TreesTyped

LEMMA CleanSays ==
  ASSUME TreesTyped, NEW p \in Name, tree' = [tree EXCEPT ![p].tracked = {}, ![p].stuck = FALSE]
  PROVE  /\ tree' \in [Name -> TreeRec] /\ \A q \in Name \ {p} : tree'[q] = tree[q]
         /\ tree'[p].here = tree[p].here /\ tree'[p].head = tree[p].head
         /\ tree'[p].tracked = {} /\ tree'[p].untracked = tree[p].untracked
<1> DEFINE e == [tree[p] EXCEPT !.tracked = {}]
           f == [e EXCEPT !.stuck = FALSE]
<1>1. tree[p] \in TreeRec
  BY TreeTyped
<1>2. /\ e \in TreeRec /\ e.here = tree[p].here /\ e.head = tree[p].head
      /\ e.tracked = {} /\ e.untracked = tree[p].untracked
  BY <1>1 DEF TreeRec
<1>3. tree' = [tree EXCEPT ![p] = f]
  BY Zenon
<1> HIDE DEF e
<1>4. /\ f \in TreeRec /\ f.here = e.here /\ f.head = e.head
      /\ f.tracked = {} /\ f.untracked = e.untracked
  BY Zenon, <1>2 DEF TreeRec
<1> HIDE DEF f
<1> QED
  BY Zenon, <1>2, <1>3, <1>4 DEF TreesTyped

LEMMA CommitAllSays ==
  ASSUME TreesTyped, GitOK, NEW i \in Slot, Trees!CommitAll(i), NEW p \in Name, p = op[i].saved.path
  PROVE  \/ Trees!OperationError(i) /\ Trees!Ends(i) /\ UNCHANGED <<tree, branch>>
         \/ /\ Trees!Goto(i, "merge") /\ UNCHANGED entry
            /\ tree[p].here /\ tree[p].head \in Name
            /\ tree' \in [Name -> TreeRec] /\ \A q \in Name \ {p} : tree'[q] = tree[q]
            /\ tree'[p].here = tree[p].here /\ tree'[p].head = tree[p].head
            /\ tree'[p].tracked = {} /\ tree'[p].untracked = tree[p].untracked
            /\ branch' \in [Name -> BranchRec]
            /\ \A b \in Name \ {tree[p].head} : branch'[b] = branch[b]
            /\ branch'[tree[p].head].here = branch[tree[p].head].here
            /\ branch'[tree[p].head].work = branch[tree[p].head].work \cup tree[p].tracked
<1>1. CASE tree[p].here /\ (tree[p].tracked # {} \/ tree[p].stuck)
  <2> DEFINE h == tree[p].head
             new == branch[h].work \cup tree[p].tracked
  <2>1. /\ branch' = [branch EXCEPT ![h].work = new]
        /\ tree' = [tree EXCEPT ![p].tracked = {}, ![p].stuck = FALSE]
        /\ Trees!Goto(i, "merge") /\ UNCHANGED entry
    BY Zenon, <1>1 DEF Trees!CommitAll
  <2>2. h \in Name
    BY <1>1 DEF GitOK
  <2>3. new \in SUBSET Nat
    BY <2>2, TreeTyped
  <2> HIDE DEF h, new
  <2>4. /\ branch' \in [Name -> BranchRec] /\ \A c \in Name \ {h} : branch'[c] = branch[c]
        /\ branch'[h].here = branch[h].here /\ branch'[h].work = new
    BY Zenon, <2>1, <2>2, <2>3, BranchSays
  <2>5. /\ tree' \in [Name -> TreeRec] /\ \A q \in Name \ {p} : tree'[q] = tree[q]
        /\ tree'[p].here = tree[p].here /\ tree'[p].head = tree[p].head
        /\ tree'[p].tracked = {} /\ tree'[p].untracked = tree[p].untracked
    BY Zenon, <2>1, CleanSays
  <2> QED
    BY Zenon, <1>1, <2>1, <2>2, <2>4, <2>5 DEF h, new
<1>2. CASE ~(tree[p].here /\ (tree[p].tracked # {} \/ tree[p].stuck))
  BY Zenon, <1>2 DEF Trees!CommitAll
<1> QED
  BY Zenon, <1>1, <1>2

LEMMA MergeSays ==
  ASSUME TreesTyped, GitOK, NEW i \in Slot, Trees!MergeBranch(i), NEW p \in Name, p = op[i].base,
         NEW b, b = op[i].saved.branch
  PROVE  \/ Trees!OperationError(i) /\ Trees!Ends(i) /\ UNCHANGED <<tree, branch>>
         \/ /\ Trees!AfterMerge(i) /\ UNCHANGED entry
            /\ tree[p].here /\ tree[p].head \in Name /\ b \in Name /\ branch[b].here
            /\ tree' \in [Name -> TreeRec] /\ \A q \in Name \ {p} : tree'[q] = tree[q]
            /\ tree'[p].here = tree[p].here /\ tree'[p].head = tree[p].head
            /\ tree'[p].untracked = tree[p].untracked
            /\ branch' \in [Name -> BranchRec]
            /\ \A c \in Name \ {tree[p].head} : branch'[c] = branch[c]
            /\ branch'[tree[p].head].here = branch[tree[p].head].here
            /\ \/ /\ tree'[p].tracked = tree[p].tracked \cup (branch[b].work \ branch[tree[p].head].work)
                  /\ branch' = branch
               \/ /\ branch'[tree[p].head].work = branch[tree[p].head].work \cup branch[b].work
                  /\ tree' = tree
<1>0. b \in Name0
  BY DEF TreesTyped, OpRec, EntryRec
<1>1. CASE tree[p].here /\ ~tree[p].stuck /\ b # 0 /\ (b # 0 => branch[b].here)
  <2> DEFINE h == tree[p].head
             new == branch[h].work \cup branch[b].work
             more == tree[p].tracked \cup (branch[b].work \ branch[h].work)
  <2>1. /\ \/ SetsTracked(p, more) /\ branch' = branch
           \/ branch' = [branch EXCEPT ![h].work = new] /\ tree' = tree
        /\ Trees!AfterMerge(i) /\ UNCHANGED entry
    BY Zenon, <1>1 DEF Trees!MergeBranch, SetsTracked
  <2>2. h \in Name /\ b \in Name
    BY <1>0, <1>1 DEF GitOK, Name0
  <2>3. new \in SUBSET Nat /\ more \in SUBSET Nat
    BY <2>2, TreeTyped
  <2> HIDE DEF h, new, more
  <2>4. CASE SetsTracked(p, more) /\ branch' = branch
    <3>1. /\ tree' \in [Name -> TreeRec] /\ \A q \in Name \ {p} : tree'[q] = tree[q]
          /\ tree'[p].here = tree[p].here /\ tree'[p].head = tree[p].head
          /\ tree'[p].tracked = more /\ tree'[p].untracked = tree[p].untracked
      BY Zenon, <2>3, <2>4, TrackedSays
    <3> QED
      BY Zenon, <1>1, <2>1, <2>2, <2>4, <3>1 DEF h, more, TreesTyped
  <2>5. CASE branch' = [branch EXCEPT ![h].work = new] /\ tree' = tree
    <3>1. /\ branch' \in [Name -> BranchRec] /\ \A c \in Name \ {h} : branch'[c] = branch[c]
          /\ branch'[h].here = branch[h].here /\ branch'[h].work = new
      BY Zenon, <2>2, <2>3, <2>5, BranchSays
    <3> QED
      BY Zenon, <1>1, <2>1, <2>2, <2>5, <3>1 DEF h, new, TreesTyped
  <2> QED
    BY <2>1, <2>4, <2>5
<1>2. CASE ~(tree[p].here /\ ~tree[p].stuck /\ b # 0 /\ (b # 0 => branch[b].here))
  BY Zenon, <1>2 DEF Trees!MergeBranch
<1> QED
  BY <1>1, <1>2

(* The step of a merge that read what it is about.                         *)
LEMMA MergeReads ==
  ASSUME PlacesInv, NEW i \in Slot, op[i].kind \in Trees!Merging,
         op[i].at \in {"dirty", "status", "commit", "merge"}
  PROVE  /\ Subject(i, op[i].ws) /\ op[i].trees \subseteq Name
         /\ op[i].saved.path \in Name /\ op[i].saved.path \in op[i].trees
         /\ op[i].base \in Name /\ op[i].base \in op[i].trees
         /\ op[i].kind \in Removals /\ op[i].kind # "remove"
<1>1. Subject(i, op[i].ws) /\ op[i].kind \in Removals /\ op[i].kind # "remove"
  BY DEF PlacesInv, OpOK, Removals, Trees!Merging
<1>2. op[i].trees \subseteq Name
  BY DEF PlacesInv, TreesTyped, OpRec
<1> QED
  BY <1>1, <1>2 DEF Subject

ReadsParent(i, k, p) ==
  op' = [op EXCEPT ![i].saved = entry[k], ![i].base = entry[p].path, ![i].at = "dirty"]

LEMMA CheckParentSays ==
  ASSUME TreesTyped, NEW i \in Slot, NEW k \in Trees!Key, NEW p \in Trees!Key, ReadsParent(i, k, p)
  PROVE  /\ op' \in [Slot -> OpRec] /\ \A j \in Slot \ {i} : op'[j] = op[j]
         /\ op'[i].at = "dirty" /\ op'[i].kind = op[i].kind /\ op'[i].ws = op[i].ws
         /\ op'[i].trees = op[i].trees /\ op'[i].saved = entry[k] /\ op'[i].base = entry[p].path
<1> DEFINE e == [op[i] EXCEPT !.saved = entry[k]]
           f == [e EXCEPT !.base = entry[p].path]
           g == [f EXCEPT !.at = "dirty"]
<1>1. op[i] \in OpRec /\ entry[k] \in EntryRec /\ entry[p].path \in Name0
  BY DEF TreesTyped, EntryRec
<1>2. /\ e \in OpRec /\ e.at = op[i].at /\ e.kind = op[i].kind /\ e.ws = op[i].ws
      /\ e.trees = op[i].trees /\ e.saved = entry[k]
  BY <1>1 DEF OpRec
<1>3. op' = [op EXCEPT ![i] = g]
  BY Zenon DEF ReadsParent
<1> HIDE DEF e
<1>4. /\ f \in OpRec /\ f.at = e.at /\ f.kind = e.kind /\ f.ws = e.ws
      /\ f.trees = e.trees /\ f.saved = e.saved /\ f.base = entry[p].path
  BY Zenon, <1>1, <1>2 DEF OpRec
<1> HIDE DEF f
<1>5. /\ g \in OpRec /\ g.at = "dirty" /\ g.kind = f.kind /\ g.ws = f.ws
      /\ g.trees = f.trees /\ g.saved = f.saved /\ g.base = f.base
  BY <1>4 DEF OpRec, OpStages
<1> HIDE DEF g
<1>6. op' \in [Slot -> OpRec] /\ (\A j \in Slot \ {i} : op'[j] = op[j]) /\ op'[i] = g
  BY <1>3, <1>5 DEF TreesTyped
<1> QED
  BY <1>2, <1>4, <1>5, <1>6

LEMMA EndStep ==
  ASSUME PlacesInv, NEW i \in Slot, Trees!Ends(i), op[i].at \notin {"branch", "drop"},
         entry' \in [Trees!Key -> EntryRec], Steady, Opens, \A k \in Trees!Key : Placed(k)' => Placed(k),
         \A j \in Slot \ {i} : op[j].kind \in Trees!Creating => entry'[op[j].ws] = entry[op[j].ws],
         tree' \in [Name -> TreeRec], branch' \in [Name -> BranchRec],
         owed' \in SUBSET Nat, waived' \in SUBSET Nat, works' \in Nat,
         \A n \in Name : tree[n].here => tree'[n].here
  PROVE  PlacesInv'
<1>1. /\ op' \in [Slot -> OpRec] /\ \A j \in Slot \ {i} : op'[j] = op[j]
      /\ op'[i].kind = "none" /\ op'[i].at = "idle" /\ op'[i].trees = {}
  BY EndsSays DEF PlacesInv
<1>2. TreesTyped' /\ OpOK(i)' /\ op'[i].kind \notin Trees!Creating
  BY <1>1, IdleStands DEF TreesTyped, Trees!Creating
<1>3. \A k \in Trees!Key : ~Removes(i, k)
  BY DEF Removes
<1> QED
  BY <1>1, <1>2, <1>3, EasyStep, CreationWaits

LEMMA CheckParentKeepsPlaces ==
  ASSUME PlacesInv, NEW i \in Slot, Trees!CheckParent(i)
  PROVE  PlacesInv'
<1> DEFINE k == op[i].ws
           p == entry[k].parent
<1>0. /\ UNCHANGED <<tree, branch, entry, owed, waived, doubtful, works>>
      /\ op[i].kind \in Trees!Merging /\ op[i].at = "parent"
  BY DEF Trees!CheckParent, Trees!history, Trees!bounds, Trees!At
<1>1. Steady /\ Opens /\ \A l \in Trees!Key : Placed(l)' => Placed(l)
  BY <1>0 DEF Steady, Opens, Placed, Trees!Open
<1>2. CASE Trees!Ends(i)
  BY <1>0, <1>1, <1>2, EndStep DEF PlacesInv, TreesTyped
<1>3. CASE ~Trees!Ends(i)
  <2>1. Trees!Open(k) /\ Trees!IsWorktree(k) /\ Trees!Open(p) /\ ReadsParent(i, k, p)
    BY <1>3 DEF Trees!CheckParent, ReadsParent
  <2>2. k \in Trees!Key /\ p \in Trees!Key
    BY <2>1, OpenIsPlaced
  <2> HIDE DEF p
  <2>3. /\ op' \in [Slot -> OpRec] /\ \A j \in Slot \ {i} : op'[j] = op[j]
        /\ op'[i].at = "dirty" /\ op'[i].kind = op[i].kind /\ op'[i].ws = op[i].ws
        /\ op'[i].trees = op[i].trees /\ op'[i].saved = entry[k] /\ op'[i].base = entry[p].path
    BY <2>1, <2>2, CheckParentSays DEF PlacesInv
  <2>4. Subject(i, k) /\ EntriesOK
    BY <1>0 DEF PlacesInv, OpOK, Removals, Trees!Merging
  <2>5. /\ entry[p].path \in op[i].trees
        /\ entry[p].path = entry[k].path => entry[p].path \in doubtful
    <3>1. p \in Nat /\ p < k /\ k \in Nat /\ p # 0
      BY <2>1, <2>2, <2>4, TreeNumbers, OpenIsPlaced DEF EntriesOK, p
    <3> QED
      BY <2>1, <2>2, <2>4, <3>1 DEF PlacesInv, Unique, Subject, p
  <2>6. entry[k].status \in {"loaded", "opError"}
    BY <2>1 DEF Trees!Open
  <2>7. Subject(i, k)'
    BY <1>0, <2>1, <2>3, <2>4, <2>5, <2>6 DEF Subject, Placed, Trees!Open
  <2>8. OpOK(i)'
    BY <1>0, <2>3, <2>7 DEF OpOK, FramesOK, Removal, AdoptOK, CreateOK, Trees!Creating, Trees!Merging
  <2>9. TreesTyped' /\ \A l \in Trees!Key : ~Removes(i, l)
    BY <1>0, <2>3 DEF PlacesInv, TreesTyped, Removes
  <2> QED
    BY <1>0, <1>1, <2>3, <2>8, <2>9, EasyStep, CreationWaits
<1> QED
  BY <1>2, <1>3

LEMMA MergeKeepsPlaces ==
  ASSUME PlacesInv, GitOK, NEW i \in Slot,
         \/ Trees!CheckParentStatus(i) \/ Trees!CheckOwn(i) \/ Trees!CommitAll(i) \/ Trees!CommitFails(i) \/ Trees!MergeBranch(i)
         \/ Trees!MergeStops(i) \/ Trees!Keep(i)
  PROVE  PlacesInv'
<1> USE DEF PlacesInv
<1>1. ASSUME op[i].kind \in Trees!Merging, op[i].at \in {"dirty", "status", "commit", "merge"},
             NEW at \in {"status", "commit", "merge", "keep"}, Trees!Goto(i, at),
             tree' \in [Name -> TreeRec], branch' \in [Name -> BranchRec], UNCHANGED <<entry, doubtful>>,
             owed' \in SUBSET Nat, waived' \in SUBSET Nat, works' \in Nat,
             \A n \in Name : tree[n].here => tree'[n].here
      PROVE  PlacesInv'
  <2>1. at \in OpStages /\ op[i].at \notin {"branch", "drop"}
    BY <1>1 DEF OpStages
  <2>2. OpOK(i)'
    BY <1>1, MergingStands
  <2>3. TreesTyped'
    BY Zenon, <1>1, <2>1, GotoSays DEF TreesTyped
  <2> QED
    BY <1>1, <2>1, <2>2, <2>3, GoesOn
<1>2. CASE Trees!CheckParentStatus(i)
  <2>1. /\ op[i].kind \in Trees!Merging /\ op[i].at = "dirty"
        /\ UNCHANGED <<tree, branch, owed, waived, doubtful, works>>
    BY <1>2 DEF Trees!CheckParentStatus, Trees!history, Trees!bounds, Trees!At
  <2>2. \/ Trees!OperationError(i) /\ Trees!Ends(i)
        \/ UNCHANGED entry /\ \E at \in {"status", "merge"} : Trees!Goto(i, at)
    BY <1>2 DEF Trees!CheckParentStatus
  <2>3. CASE Trees!OperationError(i) /\ Trees!Ends(i)
    BY <2>1, <2>3, MergeReads, FailStep DEF TreesTyped
  <2> QED
    BY Zenon, <1>1, <2>1, <2>2, <2>3 DEF TreesTyped
<1>3. CASE Trees!CheckOwn(i)
  <2>1. /\ op[i].kind \in Trees!Merging /\ op[i].at = "status"
        /\ UNCHANGED <<tree, branch, entry, doubtful, works>>
    BY <1>3 DEF Trees!CheckOwn, Trees!bounds, Trees!At, Trees!Merging
  <2>2. op[i].saved.path \in Name
    BY <2>1, MergeReads
  <2>3. owed' \in SUBSET Nat /\ waived' \in SUBSET Nat
    <3> DEFINE b == op[i].saved.branch
               p == op[i].saved.path
    <3>1. tree[p].here /\ tree[p].head = b => b \in Name
      BY <2>2 DEF GitOK
    <3> HIDE DEF b, p
    <3>2. b \in Name => branch[b].work \in SUBSET Nat
      BY TreeTyped
    <3>3. p \in Name => tree[p].tracked \in SUBSET Nat
      BY TreeTyped
    <3> QED
      BY Zenon, <1>3, <2>2, <3>1, <3>2, <3>3 DEF Trees!CheckOwn, TreesTyped, b, p
  <2>4. \E at \in {"commit", "merge"} : Trees!Goto(i, at)
    BY <1>3 DEF Trees!CheckOwn
  <2> QED
    BY <1>1, <2>1, <2>3, <2>4 DEF TreesTyped
<1>4. CASE Trees!CommitAll(i)
  <2>1. /\ op[i].kind \in Trees!Merging /\ op[i].at = "commit" /\ UNCHANGED <<owed, waived, doubtful, works>>
    BY Zenon, <1>4 DEF Trees!CommitAll, Trees!history, Trees!bounds, Trees!At, Trees!Merging
  <2>2. op[i].saved.path \in Name /\ op[i].kind \in Removals /\ op[i].kind # "remove"
    BY <2>1, MergeReads
  <2>3. CASE Trees!OperationError(i) /\ Trees!Ends(i) /\ UNCHANGED <<tree, branch>>
    BY <2>1, <2>2, <2>3, FailStep DEF TreesTyped
  <2>4. CASE ~(Trees!OperationError(i) /\ Trees!Ends(i) /\ UNCHANGED <<tree, branch>>)
    <3>1. /\ Trees!Goto(i, "merge") /\ UNCHANGED entry
          /\ tree' \in [Name -> TreeRec] /\ branch' \in [Name -> BranchRec]
          /\ \A n \in Name : tree[n].here => tree'[n].here
      BY <1>4, <2>2, <2>4, CommitAllSays
    <3> QED
      BY Zenon, <1>1, <2>1, <3>1 DEF TreesTyped
  <2> QED
    BY <2>3, <2>4
<1>5. CASE Trees!CommitFails(i)
  <2>1. /\ op[i].kind \in Trees!Merging /\ op[i].at = "commit" /\ Trees!OperationError(i) /\ Trees!Ends(i)
        /\ UNCHANGED <<tree, branch, owed, waived, doubtful, works>>
    BY <1>5 DEF Trees!CommitFails, Trees!history, Trees!bounds, Trees!At, Trees!Merging
  <2> QED
    BY <2>1, MergeReads, FailStep DEF TreesTyped
<1>6. CASE Trees!MergeBranch(i)
  <2>1. /\ op[i].kind \in Trees!Merging /\ op[i].at = "merge" /\ UNCHANGED <<owed, waived, doubtful, works>>
    BY Zenon, <1>6 DEF Trees!MergeBranch, Trees!history, Trees!bounds, Trees!At
  <2>2. op[i].base \in Name /\ op[i].kind \in Removals /\ op[i].kind # "remove"
    BY <2>1, MergeReads
  <2>3. CASE Trees!OperationError(i) /\ Trees!Ends(i) /\ UNCHANGED <<tree, branch>>
    BY <2>1, <2>2, <2>3, FailStep DEF TreesTyped
  <2>4. CASE ~(Trees!OperationError(i) /\ Trees!Ends(i) /\ UNCHANGED <<tree, branch>>)
    <3>1. /\ Trees!AfterMerge(i) /\ UNCHANGED entry
          /\ tree' \in [Name -> TreeRec] /\ branch' \in [Name -> BranchRec]
          /\ \A n \in Name : tree[n].here => tree'[n].here
      BY <1>6, <2>2, <2>4, MergeSays
    <3>2. CASE op[i].kind = "mergeRemove"
      <4>1. Trees!EnterFrames(i)
        BY <3>1, <3>2 DEF Trees!AfterMerge
      <4>2. Steady /\ Opens /\ \A k \in Trees!Key : Placed(k)' => Placed(k)
        BY <2>1, <3>1 DEF Steady, Opens, Placed, Trees!Open
      <4>3. OpOK(i)'
        BY <2>1, <3>2, <4>1, <4>2, EnterStands
      <4>4. /\ op' \in [Slot -> OpRec] /\ \A j \in Slot \ {i} : op'[j] = op[j]
            /\ op'[i].kind = op[i].kind /\ op'[i].ws = op[i].ws /\ op'[i].trees = op[i].trees
        BY <4>1, EnterSays
      <4>5. TreesTyped' /\ \A k \in Trees!Key : ~Removes(i, k)
        BY <2>1, <3>1, <4>4 DEF TreesTyped, Removes
      <4> QED
        BY <2>1, <3>1, <4>2, <4>3, <4>4, <4>5, EasyStep, CreationWaits
    <3>3. CASE op[i].kind # "mergeRemove"
      <4>1. Trees!Goto(i, "keep")
        BY <3>1, <3>3 DEF Trees!AfterMerge
      <4> QED
        BY Zenon, <1>1, <2>1, <3>1, <4>1 DEF TreesTyped
    <3> QED
      BY <3>2, <3>3
  <2> QED
    BY <2>3, <2>4
<1>7. CASE Trees!MergeStops(i)
  <2>1. /\ op[i].kind \in Trees!Merging /\ op[i].at = "merge" /\ Trees!OperationError(i) /\ Trees!Ends(i)
        /\ UNCHANGED <<branch, owed, waived, doubtful, works>>
    BY <1>7 DEF Trees!MergeStops, Trees!history, Trees!bounds, Trees!At
  <2>2. op[i].base \in Name
    BY <2>1, MergeReads
  <2>3. tree' \in [Name -> TreeRec] /\ \A n \in Name : tree[n].here => tree'[n].here
    <3>1. CASE tree[op[i].base].here
      BY Zenon, <1>7, <2>2, <3>1, StuckSays DEF Trees!MergeStops
    <3>2. CASE ~tree[op[i].base].here
      BY <1>7, <3>2 DEF Trees!MergeStops, TreesTyped
    <3> QED
      BY <3>1, <3>2
  <2> QED
    BY <2>1, <2>3, MergeReads, FailStep DEF TreesTyped
<1>8. CASE Trees!Keep(i)
  <2>1. /\ op[i].kind \in Removals /\ op[i].at = "keep" /\ Trees!Ends(i)
        /\ UNCHANGED <<tree, branch, owed, waived, doubtful, works>>
    BY <1>8 DEF Trees!Keep, Trees!history, Trees!bounds, Trees!At, Removals
  <2>2. op[i].ws \in Trees!Key /\ Placed(op[i].ws)
    BY <2>1 DEF OpOK, Subject
  <2>3. CASE UNCHANGED entry
    <3>1. Steady /\ Opens /\ \A k \in Trees!Key : Placed(k)' => Placed(k)
      BY <2>1, <2>3 DEF Steady, Opens, Placed, Trees!Open
    <3> QED
      BY <2>1, <2>3, <3>1, EndStep DEF TreesTyped
  <2>4. CASE entry[op[i].ws].status = "opError" /\ entry' = [entry EXCEPT ![op[i].ws].status = "loaded"]
    <3>1. /\ entry' \in [Trees!Key -> EntryRec] /\ \A l \in Trees!Key \ {op[i].ws} : entry'[l] = entry[l]
          /\ entry'[op[i].ws].status = "loaded" /\ entry'[op[i].ws].path = entry[op[i].ws].path
          /\ entry'[op[i].ws].parent = entry[op[i].ws].parent
      BY Zenon, <2>2, <2>4, StatusSays DEF Statuses
    <3>2. Steady /\ Opens /\ \A k \in Trees!Key : Placed(k)' => Placed(k)
      BY <2>1, <2>2, <2>4, <3>1 DEF Steady, Opens, Placed, Trees!Open
    <3>3. \A j \in Slot \ {i} : op[j].kind \in Trees!Creating => op[j].ws \in Trees!Key \ {op[i].ws}
      BY <2>2, CreationWaits DEF Placed
    <3> QED
      BY <2>1, <3>1, <3>2, <3>3, EndStep DEF TreesTyped
  <2> QED
    BY <1>8, <2>3, <2>4 DEF Trees!Keep
<1> QED
  BY <1>2, <1>3, <1>4, <1>5, <1>6, <1>7, <1>8

-----------------------------------------------------------------------------
(* The lock.                                                               *)
LEMMA LockKeepsPlaces ==
  ASSUME PlacesInv, NEW i \in Slot, Trees!Lock(i)
  PROVE  PlacesInv'
<1> USE DEF PlacesInv
<1>0. /\ UNCHANGED <<tree, branch, owed, waived, doubtful, works>> /\ op[i].at = "lock"
      /\ op[i].kind \in Trees!Creating \cup Trees!Merging \cup {"adopt", "autoOpen", "remove"}
  BY DEF Trees!Lock, Trees!history, Trees!bounds, Trees!At
<1>1. CASE op[i].kind # "remove"
  <2>1. UNCHANGED entry
    BY Zenon, <1>0, <1>1 DEF Trees!Lock, Trees!Creating, Trees!Merging
  <2>2. PICK at \in {"base", "add", "adopt", "parent"} :
          /\ Trees!Goto(i, at)
          /\ at = "adopt" => op[i].kind \in {"adopt", "autoOpen"}
          /\ at = "parent" <=> op[i].kind \in Trees!Merging
    BY Zenon, <1>0, <1>1 DEF Trees!Lock, Trees!Creating, Trees!Merging
  <2>3. /\ op' \in [Slot -> OpRec] /\ op'[i].at = at /\ op'[i].kind = op[i].kind /\ op'[i].ws = op[i].ws
        /\ op'[i].trees = op[i].trees /\ op'[i].from = op[i].from /\ op'[i].base = op[i].base
        /\ op'[i].listed = op[i].listed /\ op'[i].saved = op[i].saved /\ at \in OpStages
    BY Zenon, <2>2, GotoSays DEF OpStages
  <2>4. OpOK(i) /\ \A k : (Trees!Open(k)' <=> Trees!Open(k)) /\ (Placed(k)' <=> Placed(k))
    BY <2>1 DEF Trees!Open, Placed
  <2>5. OpOK(i)'
    <3>1. op[i].kind \in Removals => Subject(i, op[i].ws)'
      BY <1>0, <1>1, <2>1, <2>2, <2>3, <2>4 DEF OpOK, Subject, Removals, Trees!Merging
    <3>2. FramesOK(i)'
      BY <2>2, <2>3 DEF FramesOK, Removal
    <3>3. AdoptOK(i)' /\ CreateOK(i)'
      BY <1>0, <2>1, <2>3, <2>4 DEF OpOK, AdoptOK, CreateOK, ListedOK
    <3> QED
      BY <2>3, <3>1, <3>2, <3>3 DEF OpOK
  <2>6. TreesTyped'
    BY <1>0, <2>1, <2>3 DEF TreesTyped
  <2> QED
    BY <1>0, <2>1, <2>2, <2>3, <2>5, <2>6, GoesOn
<1>2. CASE op[i].kind = "remove"
  <2> DEFINE k == op[i].ws
  <2>1. Trees!EnterFrames(i) /\ PutEntry(k, op[i].saved, "loaded")
    BY <1>0, <1>2 DEF Trees!Lock, Trees!Creating, Trees!Merging, PutEntry
  <2>2. Subject(i, k)
    BY <1>2 DEF OpOK, Removals
  <2>3. op[i].saved \in EntryRec /\ k \in Trees!Key
    BY <2>2 DEF TreesTyped, OpRec, Subject
  <2> HIDE DEF k
  <2>4. /\ entry' \in [Trees!Key -> EntryRec] /\ \A l \in Trees!Key \ {k} : entry'[l] = entry[l]
        /\ entry'[k].status = "loaded" /\ entry'[k].path = op[i].saved.path
        /\ entry'[k].parent = op[i].saved.parent
    BY <2>1, <2>3, EntrySays DEF Statuses
  <2>5. entry'[k].path = entry[k].path /\ entry'[k].parent = entry[k].parent
    BY <1>2, <2>2, <2>4 DEF Subject
  <2>6. Steady
    BY <1>0, <2>2, <2>4, <2>5 DEF Steady, Placed, Subject
  <2>7. OpOK(i)'
    BY <1>2, <2>1, <2>6, EnterStands
  <2>8. /\ op' \in [Slot -> OpRec] /\ \A j \in Slot \ {i} : op'[j] = op[j]
        /\ op'[i].kind = op[i].kind /\ op'[i].trees = op[i].trees
    BY <2>1, EnterSays
  <2>9. TreesTyped' /\ op'[i].kind \notin Trees!Creating /\ op[i].kind \in Removals
    BY <1>0, <1>2, <2>4, <2>8 DEF TreesTyped, Trees!Creating, Removals
  <2> HIDE DEF PlacesInv
  <2> QED
    BY <1>0, <1>2, <2>4, <2>7, <2>8, <2>9, PutBackStep DEF k
<1> QED
  BY <1>1, <1>2

SetsStatus(k, st) == entry' = [entry EXCEPT ![k].status = st]

LEMMA CreationEnds ==
  ASSUME PlacesInv, NEW i \in Slot, Trees!Ends(i), op[i].kind \in Trees!Creating,
         op[i].at \in {"lock", "add"}, SetsStatus(op[i].ws, "error"),
         UNCHANGED <<tree, branch, owed, waived, doubtful, works>>
  PROVE  PlacesInv'
<1>1. op[i].ws \in Trees!Key /\ entry[op[i].ws].status \in {"loading", "dismissed"}
  BY CreationWaits
<1>2. /\ entry' \in [Trees!Key -> EntryRec] /\ \A l \in Trees!Key \ {op[i].ws} : entry'[l] = entry[l]
      /\ entry'[op[i].ws].status = "error"
  BY Zenon, <1>1, StatusSays DEF PlacesInv, Statuses, SetsStatus
<1>3. Steady /\ Opens /\ \A k \in Trees!Key : Placed(k)' => Placed(k)
  BY <1>1, <1>2 DEF Steady, Opens, Placed, Trees!Open
<1>4. \A j \in Slot \ {i} : op[j].kind \in Trees!Creating => op[j].ws \in Trees!Key \ {op[i].ws}
  BY CreationWaits DEF PlacesInv, Apart
<1> QED
  BY <1>2, <1>3, <1>4, EndStep DEF PlacesInv, TreesTyped

LEMMA RefusalKeepsPlaces ==
  ASSUME PlacesInv, NEW i \in Slot, Trees!LockRefused(i)
  PROVE  PlacesInv'
<1>0. /\ UNCHANGED <<tree, branch, owed, waived, doubtful, works>> /\ op[i].at = "lock" /\ Trees!Ends(i)
  BY DEF Trees!LockRefused, Trees!history, Trees!bounds
<1>1. CASE op[i].kind \in Trees!Creating
  <2>1. SetsStatus(op[i].ws, "error")
    BY <1>1 DEF Trees!LockRefused, SetsStatus, Trees!Creating
  <2> QED
    BY <1>0, <1>1, <2>1, CreationEnds
<1>2. CASE op[i].kind = "remove"
  BY <1>0, <1>2, FailStep DEF Trees!LockRefused, PlacesInv, TreesTyped, Trees!Creating, Removals
<1>3. CASE op[i].kind \notin Trees!Creating /\ op[i].kind # "remove"
  <2>1. UNCHANGED entry
    BY <1>3 DEF Trees!LockRefused
  <2>2. Steady /\ Opens /\ \A k \in Trees!Key : Placed(k)' => Placed(k)
    BY <1>0, <2>1 DEF Steady, Opens, Placed, Trees!Open
  <2> QED
    BY <1>0, <2>1, <2>2, EndStep DEF PlacesInv, TreesTyped
<1> QED
  BY <1>1, <1>2, <1>3

LEMMA BaseKeepsPlaces ==
  ASSUME PlacesInv, GitOK, NEW i \in Slot, Trees!Base(i)
  PROVE  PlacesInv'
<1> DEFINE k == op[i].from
<1>0. /\ UNCHANGED <<tree, branch, owed, waived, doubtful, works>> /\ op[i].at = "base"
      /\ op[i].kind = "new" /\ Trees!Goto(i, "add") /\ "add" \in OpStages
  BY DEF Trees!Base, Trees!history, Trees!bounds, Trees!At, OpStages
<1>1. CreateOK(i) /\ op[i].kind \in Trees!Creating
  BY <1>0 DEF PlacesInv, OpOK, Trees!Creating
<1>2. k \in Trees!Key /\ Placed(k) /\ entry[k].path \in Name
  BY <1>1 DEF CreateOK, PlacesInv, EntriesOK
<1>3. /\ entry' \in [Trees!Key -> EntryRec]
      /\ \A l \in Trees!Key : entry'[l].status = entry[l].status /\ entry'[l].path = entry[l].path
                        /\ entry'[l].parent = entry[l].parent
  <2>1. CASE Trees!Open(k) /\ tree[entry[k].path].here
    <3>1. entry' = [entry EXCEPT ![k].branch = tree[entry[k].path].head] /\ tree[entry[k].path].head \in Name0
      BY <1>2, <2>1, TreeTyped DEF Trees!Base, PlacesInv
    <3> DEFINE b == tree[entry[k].path].head
    <3>2. b \in Name0 /\ entry' = [entry EXCEPT ![k].branch = b]
      BY <3>1
    <3> HIDE DEF b, k
    <3> QED
      BY Zenon, <1>2, <3>2, EntryBranchSays DEF PlacesInv
  <2>2. CASE ~(Trees!Open(k) /\ tree[entry[k].path].here)
    BY <2>2 DEF Trees!Base, PlacesInv, TreesTyped
  <2> QED
    BY <2>1, <2>2
<1>4. Steady /\ Opens /\ \A l \in Trees!Key : Placed(l)' <=> Placed(l)
  BY <1>0, <1>3 DEF Steady, Opens, Placed, Trees!Open
<1>5. /\ op' \in [Slot -> OpRec] /\ \A j \in Slot \ {i} : op'[j] = op[j]
      /\ op'[i].at = "add" /\ op'[i].kind = op[i].kind /\ op'[i].ws = op[i].ws
      /\ op'[i].trees = op[i].trees /\ op'[i].from = op[i].from /\ op'[i].base = op[i].base
  BY Zenon, <1>0, GotoSays DEF PlacesInv
<1>6. OpOK(i)'
  BY <1>0, <1>1, <1>3, <1>4, <1>5 DEF OpOK, CreateOK, Removals, FramesOK, Removal, AdoptOK
<1>7. TreesTyped' /\ \A l \in Trees!Key : ~Removes(i, l)
  BY <1>0, <1>3, <1>5 DEF PlacesInv, TreesTyped, Removes
<1>8. \A j \in Slot \ {i} : op[j].kind \in Trees!Creating => entry'[op[j].ws].status \in {"loading", "dismissed"}
  BY <1>3, CreationWaits
<1> QED
  BY <1>0, <1>4, <1>5, <1>6, <1>7, <1>8, EasyStep

-----------------------------------------------------------------------------
(* Creations.                                                              *)
PutNew(k, e, d) == entry' = [entry EXCEPT ![k] = [e EXCEPT !.detached = d]]

LEMMA ChildSays ==
  ASSUME NEW n \in Name0, NEW p \in Key0
  PROVE  /\ Trees!Child(n, p) \in EntryRec /\ Trees!Child(n, p).status = "loaded" /\ Trees!Child(n, p).path = n
         /\ Trees!Child(n, p).branch = n /\ Trees!Child(n, p).parent = p
<1> DEFINE a == [Trees!NoEntry EXCEPT !.status = "loaded"]
           b == [a EXCEPT !.path = n]
           c == [b EXCEPT !.branch = n]
           d == [c EXCEPT !.parent = p]
<1>1. a \in EntryRec /\ a.status = "loaded"
  BY NoRecords DEF EntryRec, Statuses
<1>2. Trees!Child(n, p) = d
  BY DEF Trees!Child
<1> HIDE DEF a
<1>3. b \in EntryRec /\ b.status = "loaded" /\ b.path = n
  BY <1>1 DEF EntryRec
<1> HIDE DEF b
<1>4. c \in EntryRec /\ c.status = "loaded" /\ c.path = n /\ c.branch = n
  BY <1>3 DEF EntryRec
<1> HIDE DEF c
<1>5. d \in EntryRec /\ d.status = "loaded" /\ d.path = n /\ d.branch = n /\ d.parent = p
  BY <1>4 DEF EntryRec
<1> QED
  BY <1>2, <1>5

(* A workspace that is made.                                               *)
NewEntry(k, n, p) ==
  /\ entry' \in [Trees!Key -> EntryRec] /\ \A l \in Trees!Key \ {k} : entry'[l] = entry[l]
  /\ entry'[k].status = "loaded" /\ entry'[k].path = n /\ entry'[k].parent = p

LEMMA DetachedSays ==
  ASSUME TreesTyped, NEW k \in Trees!Key, NEW n \in Name, NEW p \in Trees!Key, NEW d \in BOOLEAN,
         PutNew(k, Trees!Child(n, p), d)
  PROVE  NewEntry(k, n, p)
<1> DEFINE c == Trees!Child(n, p)
           e == [c EXCEPT !.detached = d]
<1>1. c \in EntryRec /\ c.status = "loaded" /\ c.path = n /\ c.parent = p
  BY ChildSays DEF Name0, Key0
<1>2. entry' = [entry EXCEPT ![k] = e]
  BY DEF PutNew
<1> HIDE DEF c
<1>3. e \in EntryRec /\ e.status = "loaded" /\ e.path = n /\ e.parent = p
  BY <1>1 DEF EntryRec
<1> HIDE DEF e
<1> QED
  BY <1>2, <1>3 DEF TreesTyped, NewEntry

PutListed(k, e, b) == entry' = [entry EXCEPT ![k] = [e EXCEPT !.branch = b]]

LEMMA ListedSays ==
  ASSUME TreesTyped, NEW k \in Trees!Key, NEW n \in Name, NEW p \in Trees!Key, NEW b \in Name0,
         PutListed(k, Trees!Child(n, p), b)
  PROVE  NewEntry(k, n, p)
<1> DEFINE c == Trees!Child(n, p)
           e == [c EXCEPT !.branch = b]
<1>1. c \in EntryRec /\ c.status = "loaded" /\ c.path = n /\ c.parent = p
  BY ChildSays DEF Name0, Key0
<1>2. entry' = [entry EXCEPT ![k] = e]
  BY DEF PutListed
<1> HIDE DEF c
<1>3. e \in EntryRec /\ e.status = "loaded" /\ e.path = n /\ e.parent = p
  BY <1>1 DEF EntryRec
<1> HIDE DEF e
<1> QED
  BY <1>2, <1>3 DEF TreesTyped, NewEntry

LEMMA NewEntryStep ==
  ASSUME PlacesInv, TreesTyped', NEW i \in Slot, \A j \in Slot \ {i} : op'[j] = op[j], OpOK(i)',
         NEW k \in Trees!Key, NEW n \in Name, NEW p \in Trees!Key, NewEntry(k, n, p),
         entry[k].status \in {"none", "loading", "dismissed"}, Placed(p), p < k,
         entry[k].status = "none" => \A j \in Trees!Key : j < k => entry[j].status # "none",
         n \in op[i].trees, op[i].at \notin {"branch", "drop"}, doubtful \subseteq doubtful',
         \A m \in Name : tree[m].here => tree'[m].here,
         n \in doubtful' \/ (tree'[n].here /\ \A j \in Trees!Key : Trees!Open(j) => entry[j].path # n),
         \A j \in Slot \ {i} : op[j].kind \in Trees!Creating => op[j].ws # k,
         op'[i].trees \subseteq op[i].trees, op'[i].kind \notin Trees!Creating
  PROVE  PlacesInv'
<1>1. /\ entry' \in [Trees!Key -> EntryRec] /\ \A l \in Trees!Key \ {k} : entry'[l] = entry[l]
      /\ entry'[k].status = "loaded" /\ entry'[k].path = n /\ entry'[k].parent = p
  BY DEF NewEntry
<1>2. /\ ~Placed(k) /\ ~Trees!Open(k) /\ Trees!Open(k)' /\ Placed(k)'
      /\ \A l \in Trees!Key \ {k} : (Trees!Open(l)' <=> Trees!Open(l)) /\ (Placed(l)' <=> Placed(l))
  BY <1>1 DEF Trees!Open, Placed
<1>3. Steady
  BY <1>1, <1>2 DEF Steady
<1>4. EntriesOK'
  <2>1. \A l \in Trees!Key : entry[l].parent \in Key0
    BY DEF PlacesInv, TreesTyped, EntryRec
  <2> QED
    BY <1>1, <1>2, <1>3, <2>1 DEF PlacesInv, EntriesOK, Key0
<1>5. Filled'
  BY <1>1, TreeNumbers DEF PlacesInv, Filled
<1>6. \A l \in Trees!Key : Trees!Open(l)' /\ ~Trees!Open(l) => entry'[l].path \in op[i].trees /\ Opening(l)'
  <2>1. Opening(k)'
    BY <1>1, <1>2 DEF Opening
  <2> QED
    BY <1>1, <1>2, <2>1
<1>7. ASSUME NEW l \in Trees!Key, Trees!Open(l) PROVE Backed(l)'
  <2>1. Backed(l) /\ Placed(l) /\ entry'[l].path = entry[l].path /\ entry[l].path \in Name
    BY <1>3, <1>7, OpenIsPlaced DEF PlacesInv, Steady, EntriesOK
  <2>2. \A j \in Slot : Removes(j, l) => Removes(j, l)'
    BY DEF Removes
  <2> QED
    BY <2>1, <2>2, BackedStays
<1> QED
  BY <1>1, <1>2, <1>3, <1>4, <1>5, <1>6, <1>7, OperationStep, CreationWaits

Makes(i, n) ==
  /\ ~tree[n].here /\ Trees!Disturbs({n}, {n})
  /\ tree' \in [Name -> TreeRec] /\ \A q \in Name \ {n} : tree'[q] = tree[q]
  /\ tree'[n].here /\ tree'[n].head = n /\ tree'[n].tracked = {} /\ tree'[n].untracked = {}
  /\ branch' \in [Name -> BranchRec] /\ \A c \in Name \ {n} : branch'[c] = branch[c]
  /\ branch'[n].here
  /\ \/ branch[n].here /\ ~Trees!CheckedOut(n) /\ branch'[n] = branch[n]
     \/ ~branch[n].here /\ branch'[n].work = branch[n].work
     \/ ~branch[n].here /\ \E b \in Name : branch'[n] = branch[b]

LEMMA AddSays ==
  ASSUME PlacesInv, GitOK, NEW i \in Slot, Trees!WorktreeAdd(i), NEW n \in Name, n = op[i].base,
         NEW k \in Trees!Key, k = op[i].ws, NEW p \in Trees!Key, p = op[i].from
  PROVE  /\ Trees!Ends(i)
         /\ \/ SetsStatus(k, "error") /\ UNCHANGED <<tree, branch, sure>>
            \/ Makes(i, n) /\ NewEntry(k, n, p)
<1> DEFINE b == IF Trees!Open(p) /\ entry[p].branch # 0 THEN entry[p].branch ELSE tree[1].head
           made == IF op[i].kind = "branch" THEN branch[n].here /\ ~Trees!CheckedOut(n)
                   ELSE ~branch[n].here /\ (op[i].kind = "new" => branch[b].here)
<1>0. TreesTyped /\ op[i] \in OpRec /\ op[i].kind \in Trees!Creating /\ tree[1].here
  BY DEF PlacesInv, TreesTyped, Trees!WorktreeAdd, Trees!At
<1>1. CASE tree[n].here \/ ~made
  BY <1>1 DEF Trees!WorktreeAdd, SetsStatus
<1>2. CASE ~tree[n].here /\ made
  <2>1. /\ tree' = [tree EXCEPT ![n] = Trees!TreeOf(n)] /\ Trees!Disturbs({n}, {n}) /\ Trees!Ends(i)
        /\ PutNew(k, Trees!Child(n, p), op[i].detached)
    BY <1>2 DEF Trees!WorktreeAdd, PutNew
  <2>2. NewEntry(k, n, p)
    BY <1>0, <2>1, DetachedSays DEF OpRec
  <2>3. /\ tree' \in [Name -> TreeRec] /\ \A q \in Name \ {n} : tree'[q] = tree[q]
        /\ tree'[n].here /\ tree'[n].head = n /\ tree'[n].tracked = {} /\ tree'[n].untracked = {}
    BY <1>0, <2>1, TreeOfSays DEF TreesTyped, Name0
  <2>4. /\ branch' \in [Name -> BranchRec] /\ \A c \in Name \ {n} : branch'[c] = branch[c]
        /\ branch'[n].here
        /\ \/ branch[n].here /\ ~Trees!CheckedOut(n) /\ branch'[n] = branch[n]
           \/ ~branch[n].here /\ branch'[n].work = branch[n].work
           \/ ~branch[n].here /\ \E c \in Name : branch'[n] = branch[c]
    <3>1. CASE op[i].kind = "branch"
      BY <1>0, <1>2, <3>1 DEF Trees!WorktreeAdd, TreesTyped
    <3>2. CASE op[i].kind = "new"
      <4>1. b \in Name
        <5>1. entry[p].branch \in Name0
          BY <1>0 DEF TreesTyped, EntryRec
        <5>2. tree[1].head \in Name
          BY <1>0, TreeNumbers DEF GitOK
        <5> QED
          BY <5>1, <5>2 DEF Name0
      <4>2. branch' = [branch EXCEPT ![n] = branch[b]] /\ branch[b].here /\ ~branch[n].here
        BY <1>2, <3>2 DEF Trees!WorktreeAdd
      <4> HIDE DEF b
      <4> QED
        BY <1>0, <4>1, <4>2 DEF TreesTyped
    <3>3. CASE op[i].kind = "remote"
      <4>1. branch' = [branch EXCEPT ![n].here = TRUE] /\ ~branch[n].here
        BY <1>2, <3>3 DEF Trees!WorktreeAdd
      <4> DEFINE e == [branch[n] EXCEPT !.here = TRUE]
      <4>2. branch[n] \in BranchRec
        BY <1>0 DEF TreesTyped
      <4>3. e \in BranchRec /\ e.here /\ e.work = branch[n].work
        BY Zenon, <4>2 DEF BranchRec
      <4>4. branch' = [branch EXCEPT ![n] = e]
        BY <4>1
      <4> HIDE DEF e
      <4> QED
        BY <1>0, <4>1, <4>3, <4>4 DEF TreesTyped
    <3> QED
      BY <1>0, <3>1, <3>2, <3>3 DEF Trees!Creating
  <2> QED
    BY <1>2, <2>1, <2>2, <2>3, <2>4 DEF Makes
<1> QED
  BY <1>1, <1>2

LEMMA AddKeepsPlaces ==
  ASSUME PlacesInv, GitOK, NEW i \in Slot, Trees!WorktreeAdd(i) \/ Trees!WorktreeAddFails(i)
  PROVE  PlacesInv'
<1> DEFINE k == op[i].ws
           n == op[i].base
           p == op[i].from
<1>0. /\ op[i].kind \in Trees!Creating /\ op[i].at = "add" /\ Trees!Ends(i)
      /\ UNCHANGED <<owed, waived, doubtful, works>>
  BY DEF Trees!WorktreeAdd, Trees!WorktreeAddFails, Trees!At, Trees!history, Trees!bounds
<1>1. /\ k \in Trees!Key /\ entry[k].status \in {"loading", "dismissed"}
      /\ p \in Trees!Key /\ Placed(p) /\ p < k /\ n \in Name /\ n \in op[i].trees
  BY <1>0 DEF PlacesInv, OpOK, CreateOK
<1>2. CASE SetsStatus(k, "error") /\ UNCHANGED <<tree, branch>>
  BY <1>0, <1>2, CreationEnds
<1>3. CASE Makes(i, n) /\ NewEntry(k, n, p)
  <2> HIDE DEF k, n, p
  <2>1. /\ op' \in [Slot -> OpRec] /\ \A j \in Slot \ {i} : op'[j] = op[j]
        /\ op'[i].kind = "none" /\ op'[i].at = "idle" /\ op'[i].trees = {}
    BY <1>0, EndsSays DEF PlacesInv
  <2>2. /\ TreesTyped' /\ \A m \in Name : tree[m].here => tree'[m].here
        /\ tree'[n].here /\ ~tree[n].here
    BY <1>0, <1>3, <2>1 DEF PlacesInv, TreesTyped, Makes, NewEntry
  <2>3. OpOK(i)' /\ op'[i].kind \notin Trees!Creating
    BY <2>1, IdleStands DEF Trees!Creating
  <2>4. ASSUME NEW j \in Trees!Key, Trees!Open(j), entry[j].path = n PROVE n \in doubtful
    <3>1. Backed(j)
      BY <2>4 DEF PlacesInv
    <3>2. ASSUME NEW l \in Slot, Removes(l, j) PROVE n \in doubtful
      <4>1. l # i
        BY <1>0, <3>2 DEF Removes
      <4>2. FrameOK(l, op[l].frames[1]) /\ op[l].frames[1].ws = j
        BY <3>2 DEF Removes, PlacesInv, OpOK, FramesOK, Removal
      <4> QED
        BY <1>1, <2>4, <4>1, <4>2, ApartSays DEF FrameOK
    <3> QED
      BY <2>2, <2>4, <3>1, <3>2 DEF Backed
  <2>5. \A j \in Slot \ {i} : op[j].kind \in Trees!Creating => op[j].ws # k
    BY <1>0 DEF PlacesInv, Apart, k
  <2> QED
    BY <1>0, <1>1, <1>3, <2>1, <2>2, <2>3, <2>4, <2>5, NewEntryStep
<1>4. CASE Trees!WorktreeAdd(i)
  BY <1>1, <1>2, <1>3, <1>4, AddSays
<1>5. CASE Trees!WorktreeAddFails(i)
  BY <1>2, <1>5 DEF Trees!WorktreeAddFails, SetsStatus
<1> QED
  BY <1>4, <1>5

-----------------------------------------------------------------------------
(* The calls.                                                              *)
CreateCall(kind, k, p, n, d, trees) ==
  [Trees!NoOp EXCEPT !.kind = kind, !.ws = k, !.from = p, !.base = n, !.detached = d, !.trees = trees]
RemoveCall(k, trees, keepBranch, keepTree) ==
  [Trees!NoOp EXCEPT !.kind = "remove", !.ws = k, !.saved = entry[k], !.trees = trees,
               !.keepBranch = keepBranch, !.keepTree = keepTree]
CleanCall(k, trees) ==
  [Trees!NoOp EXCEPT !.kind = "remove", !.ws = k, !.saved = entry[k], !.trees = trees]
MergeCall(kind, k, trees, squash) ==
  [Trees!NoOp EXCEPT !.kind = kind, !.ws = k, !.trees = trees, !.squash = squash]
ListCall(kind, p, listed) ==
  [Trees!NoOp EXCEPT !.kind = kind, !.at = "listed", !.from = p, !.listed = listed]

LEMMA CreateCallSays ==
  ASSUME NEW kind \in OpKinds, NEW k \in Trees!Key, NEW p \in Trees!Key, NEW n \in Name,
         NEW d \in BOOLEAN,
         NEW trees \in SUBSET Name, NEW o, o = CreateCall(kind, k, p, n, d, trees)
  PROVE  /\ o \in OpRec /\ o.kind = kind /\ o.ws = k /\ o.from = p /\ o.base = n /\ o.trees = trees
<1> DEFINE a == [Trees!NoOp EXCEPT !.kind = kind]
           b == [a EXCEPT !.ws = k]
           c == [b EXCEPT !.from = p]
           e == [c EXCEPT !.base = n]
           f == [e EXCEPT !.detached = d]
           g == [f EXCEPT !.trees = trees]
<1>1. a \in OpRec /\ a.kind = kind
  BY NoRecords DEF OpRec
<1>2. o = g
  BY DEF CreateCall
<1> HIDE DEF a
<1>3. b \in OpRec /\ b.kind = kind /\ b.ws = k
  BY <1>1 DEF OpRec, Key0
<1> HIDE DEF b
<1>4. c \in OpRec /\ c.kind = kind /\ c.ws = k /\ c.from = p
  BY <1>3 DEF OpRec, Key0
<1> HIDE DEF c
<1>5. e \in OpRec /\ e.kind = kind /\ e.ws = k /\ e.from = p /\ e.base = n
  BY <1>4 DEF OpRec, Name0
<1> HIDE DEF e
<1>6. f \in OpRec /\ f.kind = kind /\ f.ws = k /\ f.from = p /\ f.base = n
  BY <1>5 DEF OpRec
<1> HIDE DEF f
<1>7. g \in OpRec /\ g.kind = kind /\ g.ws = k /\ g.from = p /\ g.base = n /\ g.trees = trees
  BY <1>6 DEF OpRec
<1> QED
  BY <1>2, <1>7

LEMMA CleanCallSays ==
  ASSUME TreesTyped, NEW k \in Trees!Key, NEW trees \in SUBSET Name, NEW o, o = CleanCall(k, trees)
  PROVE  /\ o \in OpRec /\ o.kind = "remove" /\ o.ws = k /\ o.saved = entry[k] /\ o.trees = trees
<1> DEFINE a == [Trees!NoOp EXCEPT !.kind = "remove"]
           b == [a EXCEPT !.ws = k]
           c == [b EXCEPT !.saved = entry[k]]
           e == [c EXCEPT !.trees = trees]
<1>1. a \in OpRec /\ a.kind = "remove" /\ entry[k] \in EntryRec
  BY Zenon, NoRecords DEF OpRec, OpKinds, TreesTyped
<1>2. o = e
  BY DEF CleanCall
<1> HIDE DEF a
<1>3. b \in OpRec /\ b.kind = "remove" /\ b.ws = k
  BY Zenon, <1>1 DEF OpRec, Key0
<1> HIDE DEF b
<1>4. c \in OpRec /\ c.kind = "remove" /\ c.ws = k /\ c.saved = entry[k]
  BY Zenon, <1>1, <1>3 DEF OpRec
<1> HIDE DEF c
<1>5. e \in OpRec /\ e.kind = "remove" /\ e.ws = k /\ e.saved = entry[k] /\ e.trees = trees
  BY <1>4 DEF OpRec
<1> QED
  BY <1>2, <1>5

LEMMA RemoveCallSays ==
  ASSUME TreesTyped, NEW k \in Trees!Key, NEW trees \in SUBSET Name, NEW kb \in BOOLEAN,
         NEW kt \in BOOLEAN,
         NEW o, o = RemoveCall(k, trees, kb, kt)
  PROVE  /\ o \in OpRec /\ o.kind = "remove" /\ o.ws = k /\ o.saved = entry[k] /\ o.trees = trees
<1> DEFINE e == CleanCall(k, trees)
           f == [e EXCEPT !.keepBranch = kb]
           g == [f EXCEPT !.keepTree = kt]
<1>1. e \in OpRec /\ e.kind = "remove" /\ e.ws = k /\ e.saved = entry[k] /\ e.trees = trees
  BY CleanCallSays
<1>2. o = g
  BY DEF RemoveCall, CleanCall
<1> HIDE DEF e
<1>3. f \in OpRec /\ f.kind = "remove" /\ f.ws = k /\ f.saved = entry[k] /\ f.trees = trees
  BY <1>1 DEF OpRec
<1> HIDE DEF f
<1>4. g \in OpRec /\ g.kind = "remove" /\ g.ws = k /\ g.saved = entry[k] /\ g.trees = trees
  BY <1>3 DEF OpRec
<1> QED
  BY <1>2, <1>4

LEMMA MergeCallSays ==
  ASSUME NEW kind \in OpKinds, NEW k \in Trees!Key, NEW trees \in SUBSET Name, NEW d \in BOOLEAN,
         NEW o, o = MergeCall(kind, k, trees, d)
  PROVE  /\ o \in OpRec /\ o.kind = kind /\ o.ws = k /\ o.trees = trees
<1> DEFINE a == [Trees!NoOp EXCEPT !.kind = kind]
           b == [a EXCEPT !.ws = k]
           c == [b EXCEPT !.trees = trees]
           e == [c EXCEPT !.squash = d]
<1>1. a \in OpRec /\ a.kind = kind
  BY NoRecords DEF OpRec
<1>2. o = e
  BY DEF MergeCall
<1> HIDE DEF a
<1>3. b \in OpRec /\ b.kind = kind /\ b.ws = k
  BY Zenon, <1>1 DEF OpRec, Key0
<1> HIDE DEF b
<1>4. c \in OpRec /\ c.kind = kind /\ c.ws = k /\ c.trees = trees
  BY <1>3 DEF OpRec
<1> HIDE DEF c
<1>5. e \in OpRec /\ e.kind = kind /\ e.ws = k /\ e.trees = trees
  BY <1>4 DEF OpRec
<1> QED
  BY <1>2, <1>5

LEMMA ListCallSays ==
  ASSUME NEW kind \in OpKinds, NEW p \in Trees!Key, NEW listed \in [Name -> Name0],
         NEW o, o = ListCall(kind, p, listed)
  PROVE  /\ o \in OpRec /\ o.kind = kind /\ o.at = "listed" /\ o.from = p /\ o.trees = {}
<1> DEFINE a == [Trees!NoOp EXCEPT !.kind = kind]
           b == [a EXCEPT !.at = "listed"]
           c == [b EXCEPT !.from = p]
           e == [c EXCEPT !.listed = listed]
<1>1. a \in OpRec /\ a.kind = kind /\ a.trees = {}
  BY NoRecords DEF OpRec
<1>2. o = e
  BY DEF ListCall
<1> HIDE DEF a
<1>3. b \in OpRec /\ b.kind = kind /\ b.at = "listed" /\ b.trees = {}
  BY <1>1 DEF OpRec, OpStages
<1> HIDE DEF b
<1>4. c \in OpRec /\ c.kind = kind /\ c.at = "listed" /\ c.from = p /\ c.trees = {}
  BY Zenon, <1>3 DEF OpRec, Key0
<1> HIDE DEF c
<1>5. e \in OpRec /\ e.kind = kind /\ e.at = "listed" /\ e.from = p /\ e.trees = {}
  BY Zenon, <1>4 DEF OpRec
<1> QED
  BY <1>2, <1>5

LEMMA LineSays ==
  ASSUME PlacesInv, NEW k \in Trees!Key, Trees!Open(k)
  PROVE  /\ Trees!Line(k) \subseteq Name /\ entry[k].path \in Trees!Line(k)
         /\ entry[k].parent # 0 => entry[entry[k].parent].path \in Trees!Line(k)
<1> DEFINE M == (Trees!Key \cap {k, entry[k].parent}) \cup Trees!Below(k)
<1>1. Placed(k) /\ entry[k].parent \in Key0
  BY OpenIsPlaced DEF PlacesInv, TreesTyped, EntryRec
<1>2. \A j \in Trees!Below(k) : j \in Trees!Key /\ Placed(j)
  BY OpenIsPlaced DEF Trees!Below, Trees!Children
<1>3. entry[k].parent \in Trees!Key => Placed(entry[k].parent)
  BY <1>1, TreeNumbers DEF PlacesInv, EntriesOK
<1>4. \A j \in M : j \in Trees!Key /\ Placed(j) /\ entry[j].path \in Name
  BY <1>1, <1>2, <1>3 DEF PlacesInv, EntriesOK
<1>5. Trees!Line(k) = {entry[j].path : j \in M}
  BY DEF Trees!Line
<1>6. k \in M /\ (entry[k].parent # 0 => entry[k].parent \in M)
  BY <1>1 DEF Key0
<1> HIDE DEF M
<1> QED
  BY <1>4, <1>5, <1>6

(* A call that begins on workspaces that stay as they are.                 *)
LEMMA CallStep ==
  ASSUME PlacesInv, NEW k \in Trees!Key, Trees!Open(k), NEW o, o \in OpRec, Trees!Begin(o),
         o.ws = k, o.trees = Trees!Line(k),
         \/ o.kind = "remove" /\ o.saved = entry[k]
         \/ o.kind \in Trees!Merging,
         UNCHANGED <<tree, branch, entry, owed, waived, works>>
  PROVE  PlacesInv'
<1>1. PICK i \in Slot :
         /\ op[i].at = "idle"
         /\ op' \in [Slot -> OpRec] /\ \A j \in Slot \ {i} : op'[j] = op[j]
         /\ op'[i].at = "lock" /\ op'[i].kind = o.kind /\ op'[i].ws = o.ws
         /\ op'[i].trees = o.trees /\ op'[i].saved = o.saved
         /\ doubtful' = doubtful \cup {p \in o.trees : \E j \in Slot : p \in op[j].trees}
  BY BeginSays DEF PlacesInv
<1>2. Steady /\ Opens /\ \A l \in Trees!Key : Placed(l)' <=> Placed(l)
  BY <1>1 DEF Steady, Opens, Placed, Trees!Open
<1>3. Subject(i, k)'
  <2>1. entry[k].status \in {"loaded", "opError"} /\ Placed(k)
    BY OpenIsPlaced DEF Trees!Open
  <2>2. Trees!Open(k)'
    BY DEF Trees!Open
  <2> QED
    BY <1>1, <1>2, <2>1, <2>2, LineSays DEF Subject, Trees!Merging
<1>4. OpOK(i)'
  BY <1>1, <1>3 DEF OpOK, FramesOK, Removal, AdoptOK, CreateOK, Trees!Creating, Trees!Merging
<1>5. TreesTyped' /\ op[i].at \notin Removal /\ op'[i].kind \notin Trees!Creating
  BY <1>1 DEF PlacesInv, TreesTyped, Removal, Trees!Creating, Trees!Merging
<1> QED
  BY <1>1, <1>2, <1>4, <1>5, BeginStep, CreationWaits

LEMMA CallKeepsPlaces ==
  ASSUME PlacesInv, NEW k \in Trees!Key, Trees!Remove(k) \/ Trees!CloseAndClean(k) \/ Trees!Merge(k)
  PROVE  PlacesInv'
<1>0. Trees!Open(k) /\ UNCHANGED <<tree, branch, entry, owed, waived, works>> /\ Trees!Line(k) \in SUBSET Name
  BY Zenon, LineSays DEF Trees!Remove, Trees!CloseAndClean, Trees!Merge
<1>1. CASE Trees!Remove(k)
  <2>1. PICK kb \in BOOLEAN, kt \in BOOLEAN : Trees!Begin(RemoveCall(k, Trees!Line(k), kb, kt))
    BY Zenon, <1>1 DEF Trees!Remove, RemoveCall
  <2> DEFINE o == RemoveCall(k, Trees!Line(k), kb, kt)
  <2>2. /\ o \in OpRec /\ o.kind = "remove" /\ o.ws = k /\ o.saved = entry[k] /\ o.trees = Trees!Line(k)
    BY <1>0, RemoveCallSays DEF PlacesInv
  <2> HIDE DEF o
  <2> QED
    BY <1>0, <2>1, <2>2, CallStep DEF o
<1>2. CASE Trees!CloseAndClean(k)
  <2> DEFINE o == CleanCall(k, Trees!Line(k))
  <2>1. Trees!Begin(o)
    BY <1>2 DEF Trees!CloseAndClean, CleanCall
  <2>2. /\ o \in OpRec /\ o.kind = "remove" /\ o.ws = k /\ o.saved = entry[k] /\ o.trees = Trees!Line(k)
    BY <1>0, CleanCallSays DEF PlacesInv
  <2> HIDE DEF o
  <2> QED
    BY <1>0, <2>1, <2>2, CallStep
<1>3. CASE Trees!Merge(k)
  <2>1. PICK kind \in Trees!Merging, squash \in BOOLEAN : Trees!Begin(MergeCall(kind, k, Trees!Line(k), squash))
    BY Zenon, <1>3 DEF Trees!Merge, MergeCall
  <2> DEFINE o == MergeCall(kind, k, Trees!Line(k), squash)
  <2>2. /\ o \in OpRec /\ o.kind = kind /\ o.ws = k /\ o.trees = Trees!Line(k)
    BY <1>0, MergeCallSays DEF Trees!Merging, OpKinds
  <2> HIDE DEF o
  <2> QED
    BY <1>0, <2>1, <2>2, CallStep DEF o
<1> QED
  BY <1>1, <1>2, <1>3

LEMMA CreateKeepsPlaces ==
  ASSUME PlacesInv, NEW p \in Trees!Key, NEW n \in Name, Trees!CreateChild(p, n)
  PROVE  PlacesInv'
<1> DEFINE trees == {n, entry[p].path}
<1>1. PICK k \in Trees!Unused, kind \in Trees!Creating, d \in BOOLEAN :
         SetsStatus(k, "loading") /\ Trees!Begin(CreateCall(kind, k, p, n, d, trees))
  BY Zenon DEF Trees!CreateChild, SetsStatus, CreateCall
<1>2. /\ Trees!Open(p) /\ Placed(p) /\ entry[p].path \in Name /\ k \in Trees!Key /\ entry[k].status = "none"
      /\ \A j \in 1..(k - 1) : entry[j].status # "none"
      /\ UNCHANGED <<tree, branch, owed, waived, works>>
  BY OpenIsPlaced DEF Trees!CreateChild, Trees!Unused, PlacesInv, EntriesOK
<1> DEFINE o == CreateCall(kind, k, p, n, d, trees)
<1>3. /\ o \in OpRec /\ o.kind = kind /\ o.ws = k /\ o.from = p /\ o.base = n /\ o.trees = trees
  <2>1. kind \in OpKinds /\ trees \in SUBSET Name
    BY <1>2 DEF Trees!Creating, OpKinds
  <2> HIDE DEF trees
  <2> QED
    BY <1>2, <2>1, CreateCallSays
<1>4. Trees!Begin(o)
  BY <1>1
<1> HIDE DEF o
<1>5. PICK i \in Slot :
         /\ op[i].at = "idle"
         /\ op' \in [Slot -> OpRec] /\ \A j \in Slot \ {i} : op'[j] = op[j]
         /\ op'[i].at = "lock" /\ op'[i].kind = o.kind /\ op'[i].ws = o.ws
         /\ op'[i].trees = o.trees /\ op'[i].from = o.from /\ op'[i].base = o.base
         /\ doubtful' = doubtful \cup {q \in o.trees : \E j \in Slot : q \in op[j].trees}
  BY <1>3, <1>4, BeginSays DEF PlacesInv
<1>6. /\ entry' \in [Trees!Key -> EntryRec] /\ \A l \in Trees!Key \ {k} : entry'[l] = entry[l]
      /\ entry'[k].status = "loading"
  BY Zenon, <1>1, <1>2, StatusSays DEF PlacesInv, Statuses, SetsStatus
<1>7. /\ Steady /\ \A l \in Trees!Key : (Trees!Open(l)' <=> Trees!Open(l)) /\ (Placed(l)' <=> Placed(l))
  BY <1>2, <1>5, <1>6 DEF Steady, Placed, Trees!Open
<1>8. p < k /\ Filled'
  <2>1. \A j \in Trees!Key : j < k => entry[j].status # "none"
    BY <1>2 DEF Trees!Key
  <2>2. \A j \in Trees!Key : k < j => entry[j].status = "none"
    BY <1>2 DEF PlacesInv, Filled
  <2>3. p # k /\ ~(k < p)
    BY <1>2, <2>2 DEF Placed
  <2>4. p < k
    BY <1>2, <2>3, TreeNumbers
  <2>5. Filled'
    BY <1>2, <1>6, <2>1, TreeNumbers DEF PlacesInv, Filled
  <2> QED
    BY <2>4, <2>5
<1>9. OpOK(i)'
  BY <1>2, <1>3, <1>5, <1>6, <1>7, <1>8 DEF OpOK, CreateOK, FramesOK, Removal, AdoptOK, Removals,
     Trees!Creating
<1>10. /\ TreesTyped' /\ EntriesOK'
       /\ \A j \in Slot \ {i} : op[j].kind \in Trees!Creating =>
            op[j].ws # k /\ entry'[op[j].ws].status \in {"loading", "dismissed"}
  <2>1. \A j \in Slot \ {i} : op[j].kind \in Trees!Creating =>
          op[j].ws # k /\ entry'[op[j].ws].status \in {"loading", "dismissed"}
    BY <1>2, <1>6, CreationWaits
  <2> QED
    BY <1>2, <1>5, <1>6, <1>7, <2>1, SteadyEntries DEF PlacesInv, TreesTyped
<1>11. ASSUME NEW l \in Trees!Key, Trees!Open(l) PROVE Backed(l)'
  <2>1. Backed(l) /\ Placed(l) /\ entry'[l].path = entry[l].path
    BY <1>7, <1>11, OpenIsPlaced DEF PlacesInv, Steady
  <2>2. \A j \in Slot : Removes(j, l) => Removes(j, l)'
    BY <1>5 DEF Removes
  <2> QED
    BY <1>2, <1>7, <2>1, <2>2, BackedStays DEF Steady
<1> QED
  BY <1>2, <1>3, <1>5, <1>7, <1>8, <1>9, <1>10, <1>11, OperationStep

Chooses(i, trees, listed) ==
  op' = [op EXCEPT ![i].at = "lock", ![i].trees = trees, ![i].listed = listed]

LEMMA ChoosesSays ==
  ASSUME TreesTyped, NEW i \in Slot, NEW trees \in SUBSET Name, NEW listed \in [Name -> Name0],
         Chooses(i, trees, listed)
  PROVE  /\ op' \in [Slot -> OpRec] /\ \A j \in Slot \ {i} : op'[j] = op[j]
         /\ op'[i].at = "lock" /\ op'[i].kind = op[i].kind /\ op'[i].from = op[i].from
         /\ op'[i].trees = trees /\ op'[i].listed = listed
<1> DEFINE e == [op[i] EXCEPT !.at = "lock"]
           f == [e EXCEPT !.trees = trees]
           g == [f EXCEPT !.listed = listed]
<1>1. op[i] \in OpRec
  BY DEF TreesTyped
<1>2. e \in OpRec /\ e.at = "lock" /\ e.kind = op[i].kind /\ e.from = op[i].from
  BY <1>1 DEF OpRec, OpStages
<1>3. op' = [op EXCEPT ![i] = g]
  BY Zenon DEF Chooses
<1> HIDE DEF e
<1>4. f \in OpRec /\ f.at = e.at /\ f.kind = e.kind /\ f.from = e.from /\ f.trees = trees
  BY <1>2 DEF OpRec
<1> HIDE DEF f
<1>5. g \in OpRec /\ g.at = f.at /\ g.kind = f.kind /\ g.from = f.from /\ g.trees = f.trees /\ g.listed = listed
  BY <1>4 DEF OpRec
<1> HIDE DEF g
<1>6. op' \in [Slot -> OpRec] /\ (\A j \in Slot \ {i} : op'[j] = op[j]) /\ op'[i] = g
  BY <1>3, <1>5 DEF TreesTyped
<1> QED
  BY <1>2, <1>4, <1>5, <1>6

LEMMA ListingKeepsPlaces ==
  ASSUME PlacesInv, NEW p \in Trees!Key, Trees!ListWorktrees(p)
  PROVE  PlacesInv'
<1> DEFINE listed == [q \in Name |-> IF tree[q].here /\ ~Trees!AlreadyOpen(q) THEN tree[q].head ELSE 0]
<1>1. PICK i \in Trees!Idle, kind \in {"adopt", "autoOpen"} : op' = [op EXCEPT ![i] = ListCall(kind, p, listed)]
  BY Zenon DEF Trees!ListWorktrees, ListCall
<1>2. /\ Trees!Open(p) /\ Placed(p) /\ UNCHANGED <<tree, branch, entry, owed, waived, doubtful, works>>
      /\ i \in Slot /\ op[i].at = "idle"
  BY OpenIsPlaced DEF Trees!ListWorktrees, Trees!history, Trees!Idle
<1>3. listed \in [Name -> Name0]
  BY TreeTyped DEF PlacesInv, Name0
<1> HIDE DEF listed
<1> DEFINE o == ListCall(kind, p, listed)
<1>4. o \in OpRec /\ o.kind = kind /\ o.at = "listed" /\ o.from = p /\ o.trees = {}
  BY <1>3, ListCallSays DEF OpKinds
<1>5. op' = [op EXCEPT ![i] = o]
  BY <1>1
<1> HIDE DEF o
<1>6. op' \in [Slot -> OpRec] /\ (\A j \in Slot \ {i} : op'[j] = op[j]) /\ op'[i] = o
  BY <1>2, <1>4, <1>5 DEF PlacesInv, TreesTyped
<1>7. Steady /\ Opens /\ \A l \in Trees!Key : Placed(l)' <=> Placed(l)
  BY <1>2 DEF Steady, Opens, Placed, Trees!Open
<1>8. OpOK(i)'
  BY <1>2, <1>4, <1>6, <1>7 DEF OpOK, AdoptOK, CreateOK, FramesOK, Removal, Removals, Trees!Creating
<1>9. TreesTyped' /\ op'[i].kind \notin Trees!Creating /\ \A l \in Trees!Key : ~Removes(i, l)
  BY <1>2, <1>4, <1>6 DEF PlacesInv, TreesTyped, Trees!Creating, Removes
<1> QED
  BY <1>2, <1>4, <1>6, <1>7, <1>8, <1>9, EasyStep, CreationWaits

LEMMA AdoptKeepsPlaces ==
  ASSUME PlacesInv, NEW i \in Slot, Trees!Adopt(i)
  PROVE  PlacesInv'
<1> DEFINE p == op[i].from
<1>0. /\ op[i].kind \in {"adopt", "autoOpen"} /\ op[i].at = "listed" /\ Trees!Open(p)
      /\ UNCHANGED <<tree, branch, entry, owed, waived, works>>
  BY DEF Trees!Adopt, Trees!At, Trees!bounds
<1>1. p \in Trees!Key /\ Placed(p) /\ entry[p].path \in Name
  BY <1>0, OpenIsPlaced DEF PlacesInv, EntriesOK
<1>2. PICK chosen \in SUBSET {q \in Name : op[i].listed[q] # 0} :
         /\ op[i].kind = "adopt" => \E q \in chosen : chosen = {q} /\ ~Trees!AlreadyOpen(q)
         /\ Chooses(i, chosen \cup {entry[p].path}, [q \in Name |-> IF q \in chosen THEN op[i].listed[q] ELSE 0])
         /\ doubtful' = doubtful \cup (op'[i].trees \cap Trees!Busy) \cup {q \in chosen : ~tree[q].here}
  BY Zenon DEF Trees!Adopt, Chooses
<1> DEFINE trees == chosen \cup {entry[p].path}
           listed == [q \in Name |-> IF q \in chosen THEN op[i].listed[q] ELSE 0]
<1>3. op[i].listed \in [Name -> Name0]
  BY DEF PlacesInv, TreesTyped, OpRec
<1>4. trees \in SUBSET Name /\ listed \in [Name -> Name0]
  BY <1>1, <1>3 DEF Name0
<1>5. \A q \in Name : listed[q] # 0 => q \in chosen
  OBVIOUS
<1>6. Chooses(i, trees, listed)
  BY <1>2
<1>6a. chosen \subseteq trees
  OBVIOUS
<1> HIDE DEF trees, listed
<1>7. /\ op' \in [Slot -> OpRec] /\ \A j \in Slot \ {i} : op'[j] = op[j]
      /\ op'[i].at = "lock" /\ op'[i].kind = op[i].kind /\ op'[i].from = op[i].from
      /\ op'[i].trees = trees /\ op'[i].listed = listed
  BY <1>4, <1>6, ChoosesSays DEF PlacesInv
<1>8. /\ doubtful \subseteq doubtful'
      /\ \A q \in trees : \A j \in Slot : q \in op[j].trees => q \in doubtful'
      /\ \A q \in chosen : ~tree[q].here => q \in doubtful'
  BY <1>2, <1>7 DEF Trees!Busy
<1>9. Steady /\ Opens /\ \A l \in Trees!Key : (Trees!Open(l)' <=> Trees!Open(l)) /\ (Placed(l)' <=> Placed(l))
  BY <1>0, <1>8 DEF Steady, Opens, Placed, Trees!Open
<1>10. ASSUME NEW q \in Name, listed[q] # 0 PROVE ListedOK(i, q)'
  <2>1. q \in chosen
    BY <1>5, <1>10
  <2>2. op[i].kind = "adopt" => \A k \in Trees!Key : Trees!Open(k) => entry[k].path # q
    BY <1>2, <2>1 DEF Trees!AlreadyOpen
  <2>3. q \in op'[i].trees
    BY <1>6a, <1>7, <2>1
  <2> QED
    BY <1>0, <1>7, <1>8, <1>9, <2>1, <2>2, <2>3 DEF ListedOK
<1>11. OpOK(i)'
  BY <1>0, <1>1, <1>7, <1>9, <1>10 DEF OpOK, AdoptOK, CreateOK, FramesOK, Removal, Removals,
     Trees!Creating
<1>12. TreesTyped' /\ op'[i].kind \notin Trees!Creating /\ op[i].at \notin Removal
  BY <1>0, <1>7 DEF PlacesInv, TreesTyped, Trees!Creating, Removal
<1> QED
  BY <1>0, <1>7, <1>8, <1>9, <1>11, <1>12, BeginStep, CreationWaits

UnlistsOne(i, n) == op' = [op EXCEPT ![i].listed[n] = 0]

LEMMA UnlistsSays ==
  ASSUME TreesTyped, NEW i \in Slot, NEW n \in Name, UnlistsOne(i, n)
  PROVE  /\ op' \in [Slot -> OpRec] /\ \A j \in Slot \ {i} : op'[j] = op[j]
         /\ op'[i].at = op[i].at /\ op'[i].kind = op[i].kind /\ op'[i].from = op[i].from
         /\ op'[i].trees = op[i].trees
         /\ \A q \in Name : op'[i].listed[q] # 0 => op[i].listed[q] # 0
<1> DEFINE l == [op[i].listed EXCEPT ![n] = 0]
           e == [op[i] EXCEPT !.listed = l]
<1>1. op[i] \in OpRec /\ op[i].listed \in [Name -> Name0]
  BY DEF TreesTyped, OpRec
<1>2. l \in [Name -> Name0] /\ \A q \in Name : l[q] # 0 => op[i].listed[q] # 0
  BY <1>1 DEF Name0
<1>3. op' = [op EXCEPT ![i] = e]
  BY DEF UnlistsOne
<1> HIDE DEF l
<1>4. /\ e \in OpRec /\ e.at = op[i].at /\ e.kind = op[i].kind /\ e.from = op[i].from
      /\ e.trees = op[i].trees /\ e.listed = l
  BY Zenon, <1>1, <1>2 DEF OpRec
<1> HIDE DEF e
<1>5. op' \in [Slot -> OpRec] /\ (\A j \in Slot \ {i} : op'[j] = op[j]) /\ op'[i] = e
  BY <1>3, <1>4 DEF TreesTyped
<1> QED
  BY <1>2, <1>4, <1>5

LEMMA AdoptedKeepsPlaces ==
  ASSUME PlacesInv, NEW i \in Slot, Trees!Adopted(i)
  PROVE  PlacesInv'
<1> DEFINE p == op[i].from
<1>0. /\ op[i].kind \in {"adopt", "autoOpen"} /\ op[i].at = "adopt"
      /\ UNCHANGED <<tree, branch, owed, waived, doubtful, works>>
  BY DEF Trees!Adopted, Trees!At, Trees!bounds, Trees!history
<1>1. AdoptOK(i) /\ p \in Trees!Key /\ Placed(p)
  BY <1>0 DEF PlacesInv, OpOK, AdoptOK
<1>2. CASE Trees!Ends(i) /\ UNCHANGED entry
  <2>1. Steady /\ Opens /\ \A k \in Trees!Key : Placed(k)' => Placed(k)
    BY <1>0, <1>2 DEF Steady, Opens, Placed, Trees!Open
  <2> QED
    BY <1>0, <1>2, <2>1, EndStep DEF PlacesInv, TreesTyped
<1>3. CASE ~(Trees!Ends(i) /\ UNCHANGED entry)
  <2>1. PICK k \in Trees!Unused, n \in Name :
          /\ op[i].listed[n] # 0 /\ (op[i].kind = "autoOpen" => ~Trees!AlreadyOpen(n))
          /\ PutListed(k, Trees!Child(n, p), op[i].listed[n])
          /\ \/ op[i].kind = "adopt" /\ Trees!Ends(i)
             \/ op[i].kind = "autoOpen" /\ UnlistsOne(i, n)
    BY <1>0, <1>3 DEF Trees!Adopted, PutListed, UnlistsOne
  <2>2. /\ k \in Trees!Key /\ entry[k].status = "none" /\ \A j \in 1..(k - 1) : entry[j].status # "none"
        /\ op[i].listed[n] \in Name0
    BY DEF Trees!Unused, PlacesInv, TreesTyped, OpRec
  <2>3. NewEntry(k, n, p)
    BY <1>1, <2>1, <2>2, ListedSays DEF PlacesInv
  <2>4. ListedOK(i, n)
    BY <1>0, <1>1, <2>1 DEF AdoptOK
  <2>5. n \in op[i].trees /\ (n \in doubtful \/ (tree[n].here /\ \A j \in Trees!Key : Trees!Open(j) => entry[j].path # n))
    BY <1>0, <2>1, <2>4 DEF ListedOK, Trees!AlreadyOpen
  <2>6. p < k /\ \A j \in Trees!Key : j < k => entry[j].status # "none"
    <3>1. \A j \in Trees!Key : j < k => entry[j].status # "none"
      BY <2>2 DEF Trees!Key
    <3>2. p # k /\ ~(k < p)
      BY <1>1, <2>2 DEF PlacesInv, Filled, Placed
    <3> QED
      BY <1>1, <2>2, <3>1, <3>2, TreeNumbers
  <2>7. \A j \in Slot \ {i} : op[j].kind \in Trees!Creating => op[j].ws # k
    BY <2>2, CreationWaits
  <2>8. /\ op' \in [Slot -> OpRec] /\ \A j \in Slot \ {i} : op'[j] = op[j]
        /\ op'[i].trees \subseteq op[i].trees /\ op'[i].kind \notin Trees!Creating /\ OpOK(i)'
    <3>1. CASE op[i].kind = "adopt" /\ Trees!Ends(i)
      BY <3>1, EndsSays, IdleStands DEF PlacesInv, Trees!Creating
    <3>2. CASE op[i].kind = "autoOpen" /\ UnlistsOne(i, n)
      <4>1. /\ op' \in [Slot -> OpRec] /\ \A j \in Slot \ {i} : op'[j] = op[j]
            /\ op'[i].at = op[i].at /\ op'[i].kind = op[i].kind /\ op'[i].from = op[i].from
            /\ op'[i].trees = op[i].trees
            /\ \A q \in Name : op'[i].listed[q] # 0 => op[i].listed[q] # 0
        BY <3>2, UnlistsSays DEF PlacesInv
      <4>2. ASSUME NEW q \in Name, op'[i].listed[q] # 0 PROVE ListedOK(i, q)'
        <5>1. ListedOK(i, q)
          BY <1>0, <1>1, <4>1, <4>2 DEF AdoptOK
        <5> QED
          BY <1>0, <3>2, <4>1, <5>1 DEF ListedOK
      <4>3. Placed(p)'
        BY <1>1, <2>2, <2>3, <4>1 DEF Placed, NewEntry
      <4>4. AdoptOK(i)'
        BY <1>1, <4>1, <4>2, <4>3 DEF AdoptOK
      <4> QED
        BY <1>0, <3>2, <4>1, <4>4 DEF OpOK, CreateOK, FramesOK, Removal, Removals, Trees!Creating
    <3> QED
      BY <2>1, <3>1, <3>2
  <2>9. TreesTyped'
    BY <1>0, <2>3, <2>8 DEF PlacesInv, TreesTyped, NewEntry
  <2> QED
    BY <1>0, <1>1, <2>2, <2>3, <2>5, <2>6, <2>7, <2>8, <2>9, NewEntryStep
<1> QED
  BY <1>2, <1>3

-----------------------------------------------------------------------------
(* The calls of removeWorkspaceInternal.                                   *)
Calls2(o, j) == <<Trees!Frame(j), [o.frames[1] EXCEPT !.kids = @ \ {j}]>> \o Tail(o.frames)
Pushes(o, j) == [o EXCEPT !.at = "enter", !.frames = Calls2(o, j)]

LEMMA CallsSays ==
  ASSUME NEW o, o \in OpRec, o.frames # <<>>, NEW j \in Trees!Key, NEW s, s = Calls2(o, j)
  PROVE  /\ s \in Seq(FrameRec) /\ Len(s) = Len(o.frames) + 1 /\ Len(o.frames) \in Nat \ {0}
         /\ s[1].ws = j /\ s[1].kids = {}
         /\ s[2].ws = o.frames[1].ws /\ s[2].data = o.frames[1].data
         /\ s[2].kids = o.frames[1].kids \ {j}
         /\ \A x \in 3..Len(s) : s[x] = o.frames[x - 1] /\ x - 1 \in 2..Len(o.frames)
<1> DEFINE f == o.frames[1]
           g == [f EXCEPT !.kids = @ \ {j}]
           t == Tail(o.frames)
           u == Trees!Frame(j)
<1>1. o.frames \in Seq(FrameRec) /\ f \in FrameRec /\ Len(o.frames) \in Nat \ {0}
  BY DEF OpRec
<1>2. u \in FrameRec /\ u.ws = j /\ u.kids = {}
  BY FrameSays DEF Key0
<1>3. g \in FrameRec /\ g.ws = f.ws /\ g.data = f.data /\ g.kids = f.kids \ {j}
  BY <1>1 DEF FrameRec
<1>4. t \in Seq(FrameRec) /\ Len(t) = Len(o.frames) - 1 /\ \A x \in 1..Len(t) : t[x] = o.frames[x + 1]
  BY <1>1
<1>5. s = <<u, g>> \o t
  BY DEF Calls2
<1> HIDE DEF g, t, u
<1>6. <<u, g>> \in Seq(FrameRec) /\ Len(<<u, g>>) = 2
  BY <1>2, <1>3
<1>7. s \in Seq(FrameRec) /\ Len(s) = 2 + Len(t) /\ s[1] = u /\ s[2] = g
      /\ \A x \in 1..Len(t) : s[x + 2] = t[x]
  BY <1>4, <1>5, <1>6
<1>8. ASSUME NEW x \in 3..Len(s) PROVE s[x] = o.frames[x - 1] /\ x - 1 \in 2..Len(o.frames)
  <2>1. x - 2 \in 1..Len(t) /\ (x - 2) + 2 = x /\ (x - 2) + 1 = x - 1 /\ x - 1 \in 2..Len(o.frames)
    BY <1>1, <1>4, <1>7
  <2>2. s[(x - 2) + 2] = t[x - 2]
    BY <1>7, <2>1
  <2>3. t[x - 2] = o.frames[(x - 2) + 1]
    BY <1>4, <2>1
  <2> QED
    BY <2>1, <2>2, <2>3
<1> QED
  BY <1>1, <1>2, <1>3, <1>4, <1>7, <1>8

LEMMA PushSays ==
  ASSUME NEW o, o \in OpRec, NEW j, NEW s \in Seq(FrameRec), s = Calls2(o, j), NEW c, c = Pushes(o, j)
  PROVE  /\ c \in OpRec /\ c.at = "enter" /\ c.kind = o.kind /\ c.ws = o.ws /\ c.trees = o.trees
         /\ c.saved = o.saved /\ c.frames = s
<1> DEFINE e == [o EXCEPT !.at = "enter"]
           f == [e EXCEPT !.frames = s]
<1>1. e \in OpRec /\ e.at = "enter" /\ e.kind = o.kind /\ e.ws = o.ws /\ e.trees = o.trees
      /\ e.saved = o.saved
  BY Zenon DEF OpRec, OpStages
<1>2. c = f
  BY DEF Pushes
<1> HIDE DEF e
<1>3. f \in OpRec /\ f.at = e.at /\ f.kind = e.kind /\ f.ws = e.ws /\ f.trees = e.trees
      /\ f.saved = e.saved /\ f.frames = s
  BY Zenon, <1>1 DEF OpRec
<1> QED
  BY <1>1, <1>2, <1>3

LEMMA ContinueSays ==
  ASSUME NEW o, o \in OpRec, o.frames # <<>>, NEW c, c = Trees!Continue(o)
  PROVE  /\ c \in OpRec /\ c.kind = o.kind /\ c.ws = o.ws /\ c.trees = o.trees /\ c.saved = o.saved
         /\ \/ \E j \in o.frames[1].kids : j \in Trees!Key /\ c.at = "enter" /\ c.frames = Calls2(o, j)
            \/ /\ c.at \in {"drop", "tree", "head"} /\ c.frames = o.frames
               /\ c.at # "drop" => o.frames[1].data.path # 1
<1> DEFINE f == o.frames[1]
           j == CHOOSE j \in f.kids : \A l \in f.kids : j <= l
<1>0. f \in FrameRec
  BY DEF OpRec
<1>1. f.kids \in SUBSET Trees!Key
  BY <1>0 DEF FrameRec
<1>2. CASE f.kids # {}
  <2>1. j \in f.kids
    <3>1. f.kids \in SUBSET Nat
      BY Zenon, <1>1, TreeNumbers
    <3>2. \E m \in f.kids : \A l \in f.kids : m <= l
      BY Zenon, <1>2, <3>1, LeastOfSome
    <3> QED
      BY <3>2
  <2>2. c = Pushes(o, j)
    BY <1>2 DEF Trees!Continue, Pushes, Calls2
  <2> HIDE DEF j
  <2>3. j \in Trees!Key
    BY <1>1, <2>1
  <2> DEFINE s == Calls2(o, j)
  <2>4. s \in Seq(FrameRec)
    BY <2>3, CallsSays
  <2> HIDE DEF s
  <2>5. /\ c \in OpRec /\ c.at = "enter" /\ c.kind = o.kind /\ c.ws = o.ws /\ c.trees = o.trees
        /\ c.saved = o.saved /\ c.frames = s
    BY <2>2, <2>4, PushSays DEF s
  <2> QED
    BY <2>1, <2>3, <2>5 DEF s
<1>3. CASE f.kids = {}
  <2> DEFINE at == IF f.data.path = 1 \/ f.data.branch = 0 \/ o.keepTree THEN "drop"
                   ELSE IF o.keepBranch \/ f.data.detached THEN "tree" ELSE "head"
  <2>1. c = [o EXCEPT !.at = at]
    BY <1>3 DEF Trees!Continue
  <2>2. at \in {"drop", "tree", "head"} /\ (at # "drop" => f.data.path # 1)
    OBVIOUS
  <2> HIDE DEF at
  <2>3. /\ c \in OpRec /\ c.at = at /\ c.kind = o.kind /\ c.ws = o.ws /\ c.trees = o.trees
        /\ c.saved = o.saved /\ c.frames = o.frames
    BY <2>1, <2>2 DEF OpRec, OpStages
  <2> QED
    BY <2>2, <2>3
<1> QED
  BY <1>2, <1>3

(* A call that stands: its workspace keeps its place and is open, unless   *)
(* another operation was met there.                                        *)
Stands(f, trees) ==
  /\ f.ws \in Trees!Key /\ Placed(f.ws) /\ entry[f.ws].path = f.data.path /\ f.data.path \in trees
  /\ f.data.path \in doubtful \/ Trees!Open(f.ws)

LEMMA SubjectStays ==
  ASSUME PlacesInv, NEW i \in Slot, op[i].at \in Removal, Steady, op'[i].at \in Removal,
         op'[i].kind = op[i].kind, op'[i].ws = op[i].ws, op'[i].saved = op[i].saved,
         op[i].trees \subseteq op'[i].trees
  PROVE  /\ op'[i].kind \in Removals => Subject(i, op[i].ws)'
         /\ AdoptOK(i)' /\ CreateOK(i)' /\ op'[i].kind \in {"remove", "mergeRemove"}
<1> DEFINE k == op[i].ws
<1>1. FramesOK(i) /\ (op[i].kind \in Removals => Subject(i, k)) /\ EntriesOK
  BY DEF PlacesInv, OpOK
<1>2. op[i].kind \in {"remove", "mergeRemove"}
  BY <1>1 DEF FramesOK
<1>3. Subject(i, k)
  BY <1>1, <1>2 DEF Removals
<1>4. entry[k].parent # 0 => entry[k].parent \in Trees!Key /\ Placed(entry[k].parent)
  BY <1>1, <1>3 DEF PlacesInv, TreesTyped, EntryRec, Key0, Subject, EntriesOK
<1>5. op[i].at \notin {"lock", "parent", "dirty", "status", "commit", "merge"}
      /\ op'[i].at \notin {"lock", "parent", "dirty", "status", "commit", "merge"}
  BY DEF Removal
<1>6. /\ Placed(k)' /\ entry'[k].path = entry[k].path /\ entry'[k].parent = entry[k].parent
      /\ entry[k].parent # 0 => entry'[entry[k].parent].path = entry[entry[k].parent].path
  BY <1>3, <1>4 DEF Steady, Subject
<1>7. Subject(i, op[i].ws)'
  BY <1>3, <1>5, <1>6 DEF Subject
<1> QED
  BY <1>2, <1>7 DEF AdoptOK, CreateOK, Trees!Creating

LEMMA ContinueStands ==
  ASSUME NEW i \in Slot, NEW o, o \in OpRec, op'[i] = Trees!Continue(o),
         o.kind \in {"remove", "mergeRemove"}, o.frames # <<>>, Sorted(o.frames), KidsAfter(o.frames),
         \A x \in 1..Len(o.frames) : Stands(o.frames[x], o.trees)'
  PROVE  /\ op'[i] \in OpRec /\ op'[i].kind = o.kind /\ op'[i].ws = o.ws /\ op'[i].trees = o.trees
         /\ op'[i].saved = o.saved /\ op'[i].at \in Removal \ {"branch", "file"}
         /\ FramesOK(i)'
<1> DEFINE c == op'[i]
<1>1. /\ c \in OpRec /\ c.kind = o.kind /\ c.ws = o.ws /\ c.trees = o.trees /\ c.saved = o.saved
      /\ \/ \E j \in o.frames[1].kids : j \in Trees!Key /\ c.at = "enter" /\ c.frames = Calls2(o, j)
         \/ /\ c.at \in {"drop", "tree", "head"} /\ c.frames = o.frames
            /\ c.at # "drop" => o.frames[1].data.path # 1
  BY ContinueSays
<1>2. Len(o.frames) \in Nat \ {0} /\ o.frames \in Seq(FrameRec)
  BY DEF OpRec
<1>3. \A x \in 1..Len(o.frames) : o.frames[x].kids \in SUBSET Trees!Key /\ o.frames[x].ws \in Nat
  <2>1. \A x \in 1..Len(o.frames) : o.frames[x] \in FrameRec
    BY <1>2
  <2>2. ASSUME NEW f \in FrameRec PROVE f.kids \in SUBSET Trees!Key /\ f.ws \in Key0
    BY DEF FrameRec
  <2>3. Key0 \subseteq Nat
    BY TreeNumbers DEF Key0
  <2> HIDE DEF FrameRec
  <2> QED
    BY Zenon, <2>1, <2>2, <2>3
<1>4. \A x \in 1..Len(o.frames) : FrameOK(i, o.frames[x])' /\ Standing(o.frames[x])'
  BY <1>1 DEF FrameOK, Standing, Stands
<1>5. CASE \E j \in o.frames[1].kids : j \in Trees!Key /\ c.at = "enter" /\ c.frames = Calls2(o, j)
  <2> PICK j \in o.frames[1].kids : j \in Trees!Key /\ c.at = "enter" /\ c.frames = Calls2(o, j)
    BY <1>5
  <2> DEFINE s == c.frames
  <2>1. /\ s \in Seq(FrameRec) /\ Len(s) = Len(o.frames) + 1
        /\ s[1].ws = j /\ s[1].kids = {}
        /\ s[2].ws = o.frames[1].ws /\ s[2].data = o.frames[1].data
        /\ s[2].kids = o.frames[1].kids \ {j}
        /\ \A x \in 3..Len(s) : s[x] = o.frames[x - 1] /\ x - 1 \in 2..Len(o.frames)
    BY CallsSays
  <2>2. o.frames[1].ws < j
    BY <1>2 DEF KidsAfter
  <2> HIDE DEF s
  <2>3. ASSUME NEW x \in 2..Len(s)
        PROVE  /\ x - 1 \in 1..Len(o.frames) /\ s[x].ws = o.frames[x - 1].ws
               /\ s[x].data = o.frames[x - 1].data /\ s[x].kids \subseteq o.frames[x - 1].kids
    <3>1. CASE x = 2
      BY <1>2, <2>1, <3>1
    <3>2. CASE x # 2
      <4>1. x \in 3..Len(s)
        BY <1>2, <2>1, <3>2
      <4>2. s[x] = o.frames[x - 1] /\ x - 1 \in 2..Len(o.frames)
        BY <2>1, <4>1
      <4> QED
        BY <1>2, <4>2
    <3> QED
      BY <3>1, <3>2
  <2>4. Sorted(s)
    <3> SUFFICES ASSUME NEW x \in 1..Len(s), NEW y \in 1..Len(s), x < y PROVE s[y].ws < s[x].ws
      BY DEF Sorted
    <3>1. y \in 2..Len(s) /\ y - 1 \in 1..Len(o.frames) /\ s[y].ws = o.frames[y - 1].ws
      BY <1>2, <2>1, <2>3
    <3>2. CASE x = 1
      <4>1. y - 1 = 1 \/ (1 < y - 1 /\ 1 \in 1..Len(o.frames))
        BY <1>2, <3>1
      <4>2. o.frames[y - 1].ws = o.frames[1].ws \/ o.frames[y - 1].ws < o.frames[1].ws
        BY <3>1, <4>1 DEF Sorted
      <4> QED
        <5> DEFINE v == o.frames[y - 1].ws
                   w == o.frames[1].ws
        <5>1. v \in Nat /\ w \in Nat /\ j \in Nat /\ w < j /\ (v = w \/ v < w)
          BY <1>2, <1>3, <2>2, <3>1, <4>2, TreeNumbers
        <5>2. s[y].ws = v /\ s[x].ws = j
          BY <2>1, <3>1, <3>2
        <5> HIDE DEF v, w
        <5>3. v < j
          BY <5>1
        <5> QED
          BY <5>2, <5>3
    <3>3. CASE x # 1
      <4>1. x \in 2..Len(s) /\ x - 1 < y - 1
        BY <1>2, <2>1, <3>1, <3>3
      <4>2. x - 1 \in 1..Len(o.frames) /\ s[x].ws = o.frames[x - 1].ws
        BY <2>3, <4>1
      <4> QED
        BY Zenon, <3>1, <4>1, <4>2 DEF Sorted
    <3> QED
      BY <3>2, <3>3
  <2>5. KidsAfter(s)
    <3> SUFFICES ASSUME NEW x \in 1..Len(s), NEW l \in s[x].kids PROVE s[x].ws < l
      BY DEF KidsAfter
    <3>1. x \in 2..Len(s)
      BY <1>2, <2>1
    <3> QED
      BY Zenon, <2>3, <3>1 DEF KidsAfter
  <2>6. \A x \in 2..Len(s) : FrameOK(i, op[i].frames[x])' /\ Standing(op[i].frames[x])'
    BY <1>4, <2>3 DEF FrameOK, Standing, s
  <2>7. s # <<>>
    BY <1>2, <2>1
  <2> QED
    BY <1>1, <2>4, <2>5, <2>6, <2>7 DEF FramesOK, s, Removal
<1>6. CASE /\ c.at \in {"drop", "tree", "head"} /\ c.frames = o.frames
           /\ c.at # "drop" => o.frames[1].data.path # 1
  BY <1>1, <1>2, <1>4, <1>6 DEF FramesOK, Removal
<1> QED
  BY <1>1, <1>5, <1>6

Inner(o) == [o EXCEPT !.frames = Tail(@)]

LEMMA TailSays ==
  ASSUME NEW o, o \in OpRec, o.frames # <<>>, Len(o.frames) # 1,
         Sorted(o.frames), KidsAfter(o.frames), NEW r, r = Inner(o)
  PROVE  /\ r \in OpRec /\ r.kind = o.kind /\ r.ws = o.ws /\ r.trees = o.trees /\ r.saved = o.saved
         /\ r.frames # <<>> /\ Sorted(r.frames) /\ KidsAfter(r.frames)
         /\ \A x \in 1..Len(r.frames) : x + 1 \in 2..Len(o.frames) /\ r.frames[x] = o.frames[x + 1]
<1> DEFINE t == Tail(o.frames)
<1>1. o.frames \in Seq(FrameRec) /\ Len(o.frames) \in Nat \ {0, 1}
  BY DEF OpRec
<1>2. /\ t \in Seq(FrameRec) /\ Len(t) = Len(o.frames) - 1
      /\ \A x \in 1..Len(t) : t[x] = o.frames[x + 1]
  BY <1>1
<1>3. \A x \in 1..Len(t) : x + 1 \in 2..Len(o.frames) /\ t[x] = o.frames[x + 1]
  BY <1>1, <1>2
<1> HIDE DEF t
<1>4. t # <<>>
  <2>1. Len(t) # 0
    BY <1>1, <1>2
  <2>2. ASSUME NEW u, u = <<>> PROVE Len(u) = 0
    BY <2>2
  <2> QED
    BY <2>1, <2>2
<1>5. Sorted(t)
  <2> SUFFICES ASSUME NEW x \in 1..Len(t), NEW y \in 1..Len(t), x < y PROVE t[y].ws < t[x].ws
    BY DEF Sorted
  <2>1. x + 1 \in 1..Len(o.frames) /\ y + 1 \in 1..Len(o.frames) /\ x + 1 < y + 1
    BY <1>1, <1>2
  <2>2. o.frames[y + 1].ws < o.frames[x + 1].ws
    BY <2>1 DEF Sorted
  <2> QED
    BY Zenon, <1>3, <2>2
<1>6. KidsAfter(t)
  <2> SUFFICES ASSUME NEW x \in 1..Len(t), NEW l \in t[x].kids PROVE t[x].ws < l
    BY DEF KidsAfter
  <2>1. x + 1 \in 1..Len(o.frames) /\ t[x] = o.frames[x + 1]
    BY <1>1, <1>3
  <2> QED
    BY <2>1 DEF KidsAfter
<1>7. r = [o EXCEPT !.frames = t]
  BY DEF t, Inner
<1>8. /\ r \in OpRec /\ r.kind = o.kind /\ r.ws = o.ws /\ r.trees = o.trees /\ r.saved = o.saved
      /\ r.frames = t
  BY Zenon, <1>2, <1>7 DEF OpRec
<1> QED
  BY <1>3, <1>4, <1>5, <1>6, <1>8

Returns(i) == op' = [op EXCEPT ![i] = Trees!Return(@)]

(* The innermost call is over, and the one around it goes on.              *)
LEMMA ReturnStep ==
  ASSUME PlacesInv, NEW i \in Slot, Returns(i), op[i].at \in {"enter", "file"},
         UNCHANGED <<tree, branch, entry, owed, waived, doubtful, works>>
  PROVE  PlacesInv'
<1> DEFINE o == op[i]
<1>1. FramesOK(i) /\ o \in OpRec /\ o.at \in Removal
  BY DEF PlacesInv, OpOK, TreesTyped, Removal
<1>2. /\ o.kind \in {"remove", "mergeRemove"} /\ o.frames # <<>> /\ Sorted(o.frames) /\ KidsAfter(o.frames)
      /\ \A x \in 2..Len(o.frames) : FrameOK(i, o.frames[x]) /\ Standing(o.frames[x])
  BY <1>1 DEF FramesOK
<1>3. Steady /\ Opens /\ \A k \in Trees!Key : Placed(k)' => Placed(k)
  BY DEF Steady, Opens, Placed, Trees!Open
<1>4. op'[i] = Trees!Return(o) /\ \A j \in Slot \ {i} : op'[j] = op[j]
  BY DEF Returns, PlacesInv, TreesTyped
<1>5. op'[i] \in OpRec /\ op'[i].trees \subseteq o.trees /\ op'[i].kind \notin Trees!Creating /\ OpOK(i)'
  <2>1. CASE Len(o.frames) = 1
    <3>1. op'[i] = Trees!NoOp
      BY <1>4, <2>1 DEF Trees!Return
    <3> QED
      BY <3>1, NoRecords, IdleStands DEF Trees!Creating
  <2>2. CASE Len(o.frames) # 1
    <3> DEFINE r == Inner(o)
    <3>1. op'[i] = Trees!Continue(r)
      BY <1>4, <2>2 DEF Trees!Return, Inner
    <3>2. /\ r \in OpRec /\ r.kind = o.kind /\ r.ws = o.ws /\ r.trees = o.trees /\ r.saved = o.saved
          /\ r.frames # <<>> /\ Sorted(r.frames) /\ KidsAfter(r.frames)
          /\ \A x \in 1..Len(r.frames) : x + 1 \in 2..Len(o.frames) /\ r.frames[x] = o.frames[x + 1]
      BY <1>1, <1>2, <2>2, TailSays
    <3> HIDE DEF r
    <3>3. ASSUME NEW s, s = r, NEW x \in 1..Len(s.frames) PROVE Stands(s.frames[x], s.trees)'
      <4>1. FrameOK(i, s.frames[x]) /\ Standing(s.frames[x])
        BY <1>2, <3>2, <3>3
      <4> QED
        BY <3>2, <3>3, <4>1 DEF FrameOK, Standing, Stands, Placed, Trees!Open
    <3>4. /\ op'[i] \in OpRec /\ op'[i].kind = o.kind /\ op'[i].ws = o.ws /\ op'[i].trees = o.trees
          /\ op'[i].saved = o.saved /\ op'[i].at \in Removal \ {"branch", "file"}
          /\ FramesOK(i)'
      <4> PICK s : s = r
        OBVIOUS
      <4>1. s \in OpRec /\ op'[i] = Trees!Continue(s) /\ s.kind = o.kind /\ s.frames # <<>>
            /\ s.ws = o.ws /\ s.trees = o.trees /\ s.saved = o.saved
            /\ Sorted(s.frames) /\ KidsAfter(s.frames)
        BY <3>1, <3>2
      <4>2. \A x \in 1..Len(s.frames) : Stands(s.frames[x], s.trees)'
        BY <3>3
      <4> QED
        BY <1>2, <4>1, <4>2, ContinueStands
    <3>5. OpOK(i)'
      BY <1>1, <1>2, <1>3, <3>4, SubjectStays DEF OpOK
    <3> QED
      BY <1>2, <3>4, <3>5 DEF Trees!Creating
  <2> QED
    BY <2>1, <2>2
<1>6. TreesTyped'
  BY <1>4, <1>5 DEF PlacesInv, TreesTyped, Returns
<1>7. \A k \in Trees!Key : ~Removes(i, k)
  BY DEF Removes
<1>8. \A j \in Slot \ {i} : op[j].kind \in Trees!Creating => entry'[op[j].ws].status \in {"loading", "dismissed"}
  BY CreationWaits
<1> QED
  BY <1>3, <1>4, <1>5, <1>6, <1>7, <1>8, EasyStep

LEMMA EnteredSays ==
  ASSUME NEW q, q \in OpRec, q.frames # <<>>, NEW e, e \in EntryRec, e.path \in Name,
         NEW kids \in SUBSET Trees!Key, NEW o, o = Trees!Entered(q, e, kids)
  PROVE  /\ o \in OpRec /\ o.kind = q.kind /\ o.ws = q.ws /\ o.trees = q.trees \cup {e.path}
         /\ o.saved = q.saved /\ Len(o.frames) = Len(q.frames) /\ Len(q.frames) \in Nat \ {0}
         /\ o.frames[1].ws = q.frames[1].ws /\ o.frames[1].data = e /\ o.frames[1].kids = kids
         /\ \A x \in 2..Len(q.frames) : o.frames[x] = q.frames[x]
<1> DEFINE a == [q EXCEPT !.trees = @ \cup {e.path}]
           f == q.frames[1]
           g == [f EXCEPT !.data = e]
           h == [g EXCEPT !.kids = kids]
           s == [q.frames EXCEPT ![1] = g]
           t == [s EXCEPT ![1] = h]
           b == [a EXCEPT !.frames = s]
           c == [b EXCEPT !.frames = t]
<1>1. q.frames \in Seq(FrameRec) /\ Len(q.frames) \in Nat \ {0} /\ f \in FrameRec
  BY DEF OpRec
<1>2. /\ a \in OpRec /\ a.kind = q.kind /\ a.ws = q.ws /\ a.trees = q.trees \cup {e.path}
      /\ a.saved = q.saved /\ a.frames = q.frames
  <2>1. q.trees \cup {e.path} \in SUBSET Name
    BY DEF OpRec
  <2> QED
    BY <2>1 DEF OpRec
<1>3. g \in FrameRec /\ g.ws = f.ws /\ g.data = e
  <2> HIDE DEF f
  <2> QED
    BY <1>1 DEF FrameRec
<1>4. h \in FrameRec /\ h.ws = g.ws /\ h.data = g.data /\ h.kids = kids
  <2> HIDE DEF g
  <2> QED
    BY <1>3 DEF FrameRec
<1>5. o = c
  <2>1. b.frames[1] = g
    BY <1>1 DEF OpRec, FrameRec
  <2> QED
    BY Zenon, <1>1, <2>1 DEF Trees!Entered
<1>6. /\ s \in Seq(FrameRec) /\ Len(s) = Len(q.frames) /\ s[1] = g
      /\ \A x \in 2..Len(q.frames) : s[x] = q.frames[x]
  <2> HIDE DEF g
  <2> QED
    BY <1>1, <1>3
<1>7. b \in OpRec /\ b.kind = a.kind /\ b.ws = a.ws /\ b.trees = a.trees /\ b.saved = a.saved
  <2> HIDE DEF s, a
  <2> QED
    BY Zenon, <1>2, <1>6 DEF OpRec
<1>8. /\ t \in Seq(FrameRec) /\ Len(t) = Len(s) /\ t[1] = h
      /\ \A x \in 2..Len(s) : t[x] = s[x]
  <2> HIDE DEF s, h
  <2> QED
    BY <1>1, <1>4, <1>6
<1>9. c \in OpRec /\ c.kind = b.kind /\ c.ws = b.ws /\ c.trees = b.trees /\ c.saved = b.saved /\ c.frames = t
  <2> HIDE DEF t, b
  <2> QED
    BY Zenon, <1>7, <1>8 DEF OpRec
<1> HIDE DEF a, b, c, f, g, h, s, t
<1>10. f = q.frames[1]
  BY DEF f
<1> QED
  BY <1>1, <1>2, <1>3, <1>4, <1>5, <1>6, <1>7, <1>8, <1>9, <1>10

LEMMA EnterKeepsPlaces ==
  ASSUME PlacesInv, NEW i \in Slot, Trees!Enter(i)
  PROVE  PlacesInv'
<1> DEFINE q == op[i]
           k == q.frames[1].ws
<1>1. FramesOK(i) /\ q \in OpRec /\ q.at = "enter" /\ q.at \in Removal
      /\ UNCHANGED <<tree, branch, entry, owed, waived, works>>
  BY DEF PlacesInv, OpOK, TreesTyped, Removal, Trees!Enter, Trees!AtTop, Trees!bounds
<1>2. /\ q.kind \in {"remove", "mergeRemove"} /\ q.frames # <<>> /\ Sorted(q.frames) /\ KidsAfter(q.frames)
      /\ \A x \in 2..Len(q.frames) : FrameOK(i, q.frames[x]) /\ Standing(q.frames[x])
  BY <1>1 DEF FramesOK
<1>3. CASE Trees!Open(k)
  <2> DEFINE o == Trees!Entered(q, entry[k], Trees!Children(k))
  <2>1. /\ k \in Trees!Key /\ Placed(k) /\ entry[k] \in EntryRec /\ entry[k].path \in Name
        /\ Trees!Children(k) \in SUBSET Trees!Key
        /\ \A j \in Trees!Children(k) : k < j
    BY <1>3, OpenIsPlaced, TreeNumbers DEF PlacesInv, TreesTyped, EntriesOK, Trees!Children
  <2>2. /\ op' = [op EXCEPT ![i] = Trees!Continue(o)]
        /\ doubtful' = doubtful \cup {p \in {entry[k].path} : \E j \in Slot \ {i} : p \in op[j].trees}
    BY <1>3 DEF Trees!Enter, Trees!Top
  <2>3. /\ o \in OpRec /\ o.kind = q.kind /\ o.ws = q.ws /\ o.trees = q.trees \cup {entry[k].path}
        /\ o.saved = q.saved /\ Len(o.frames) = Len(q.frames) /\ Len(q.frames) \in Nat \ {0}
        /\ o.frames[1].ws = k /\ o.frames[1].data = entry[k] /\ o.frames[1].kids = Trees!Children(k)
        /\ \A x \in 2..Len(q.frames) : o.frames[x] = q.frames[x]
    <3> DEFINE e == entry[k]
               kids == Trees!Children(k)
    <3> HIDE DEF e, kids
    <3>1. o = Trees!Entered(q, e, kids) /\ e \in EntryRec /\ e.path \in Name /\ kids \in SUBSET Trees!Key
      BY <2>1 DEF e, kids
    <3> HIDE DEF o
    <3>2. /\ o \in OpRec /\ o.kind = q.kind /\ o.ws = q.ws /\ o.trees = q.trees \cup {e.path}
          /\ o.saved = q.saved /\ Len(o.frames) = Len(q.frames) /\ Len(q.frames) \in Nat \ {0}
          /\ o.frames[1].ws = k /\ o.frames[1].data = e /\ o.frames[1].kids = kids
          /\ \A x \in 2..Len(q.frames) : o.frames[x] = q.frames[x]
      BY <1>1, <1>2, <3>1, EnteredSays
    <3> QED
      BY <3>2 DEF e, kids
  <2> HIDE DEF o
  <2>4. Steady /\ doubtful \subseteq doubtful'
    BY <1>1, <2>2 DEF Steady, Placed
  <2>5. \A l : (Trees!Open(l)' <=> Trees!Open(l)) /\ (Placed(l)' <=> Placed(l))
    BY <1>1 DEF Trees!Open, Placed
  <2>6. op' \in [Slot -> OpRec] /\ op'[i] = Trees!Continue(o) /\ \A j \in Slot \ {i} : op'[j] = op[j]
    <3>1. Trees!Continue(o) \in OpRec
      <4>1. o.frames # <<>>
        BY <2>3
      <4> QED
        BY <2>3, <4>1, ContinueSays
    <3> QED
      BY <2>2, <3>1 DEF PlacesInv, TreesTyped
  <2>7. ASSUME NEW r, r = o
        PROVE  /\ op'[i].kind = r.kind /\ op'[i].ws = r.ws /\ op'[i].trees = r.trees
               /\ op'[i].saved = r.saved /\ op'[i].at \in Removal /\ FramesOK(i)'
    <3>1. \A x \in 1..Len(r.frames) : x = 1 \/ (x \in 2..Len(q.frames) /\ r.frames[x] = q.frames[x])
      BY <2>3, <2>7
    <3>2. Sorted(r.frames)
      <4> SUFFICES ASSUME NEW x \in 1..Len(r.frames), NEW y \in 1..Len(r.frames), x < y
                   PROVE  r.frames[y].ws < r.frames[x].ws
        BY DEF Sorted
      <4>1. r.frames[x].ws = q.frames[x].ws /\ r.frames[y].ws = q.frames[y].ws
        BY <2>3, <2>7, <3>1
      <4> QED
        BY <1>2, <2>3, <2>7, <4>1 DEF Sorted
    <3>3. KidsAfter(r.frames)
      <4> SUFFICES ASSUME NEW x \in 1..Len(r.frames), NEW l \in r.frames[x].kids
                   PROVE  r.frames[x].ws < l
        BY DEF KidsAfter
      <4> QED
        BY SMTT(30), <1>2, <2>1, <2>3, <2>7, <3>1 DEF KidsAfter
    <3>4. ASSUME NEW x \in 1..Len(r.frames) PROVE Stands(r.frames[x], r.trees)'
      <4>1. CASE x = 1
        BY <1>1, <1>3, <2>1, <2>3, <2>5, <2>7, <4>1 DEF Stands
      <4>2. CASE x # 1
        <5>1. x \in 2..Len(q.frames) /\ r.frames[x] = q.frames[x]
          BY <3>1, <4>2
        <5>2. FrameOK(i, q.frames[x]) /\ Standing(q.frames[x])
          BY <1>2, <5>1
        <5> QED
          BY <1>1, <2>3, <2>4, <2>5, <2>7, <5>1, <5>2 DEF FrameOK, Standing, Stands
      <4> QED
        BY <4>1, <4>2
    <3>5. r \in OpRec /\ op'[i] = Trees!Continue(r) /\ r.kind \in {"remove", "mergeRemove"} /\ r.frames # <<>>
      BY <1>2, <2>3, <2>6, <2>7
    <3> QED
      BY <3>2, <3>3, <3>4, <3>5, ContinueStands
  <2>8. /\ op'[i].kind = q.kind /\ op'[i].ws = q.ws /\ op'[i].trees = q.trees \cup {entry[k].path}
        /\ op'[i].saved = q.saved /\ op'[i].at \in Removal /\ FramesOK(i)'
    BY <2>3, <2>7
  <2>9. OpOK(i)'
    BY <1>1, <2>4, <2>8, SubjectStays DEF OpOK
  <2>10. TreesTyped' /\ EntriesOK' /\ Filled'
    BY <1>1, <2>4, <2>5, <2>6, SteadyEntries DEF PlacesInv, TreesTyped, Filled
  <2>11. ASSUME NEW l \in Trees!Key, Trees!Open(l) PROVE Backed(l)'
    <3>1. \A j \in Slot : Removes(j, l) => Removes(j, l)'
      BY <1>1, <2>6 DEF Removes
    <3> QED
      BY <1>1, <2>4, <2>11, <3>1, BackedStays DEF PlacesInv
  <2>12. \A p \in op'[i].trees : \A j \in Slot \ {i} : p \in op[j].trees => p \in q.trees \/ p \in doubtful'
    BY <2>2, <2>8
  <2>13. op'[i].kind \notin Trees!Creating
    BY <1>2, <2>8 DEF Trees!Creating
  <2> QED
    BY <1>1, <2>4, <2>5, <2>6, <2>9, <2>10, <2>11, <2>12, <2>13, CreationWaits, OperationStep
<1>4. CASE ~Trees!Open(k)
  <2>1. Returns(i) /\ UNCHANGED doubtful
    BY <1>4 DEF Trees!Enter, Trees!Top, Returns
  <2> QED
    BY <1>1, <2>1, ReturnStep
<1> QED
  BY <1>3, <1>4

SetsHead(i, h) == op' = [op EXCEPT ![i].at = "tree", ![i].frames[1].head = h]

LEMMA SetsHeadSays ==
  ASSUME TreesTyped, NEW i \in Slot, NEW h \in Name0, SetsHead(i, h), op[i].frames # <<>>
  PROVE  /\ op' \in [Slot -> OpRec] /\ \A j \in Slot \ {i} : op'[j] = op[j]
         /\ op'[i].at = "tree" /\ op'[i].kind = op[i].kind /\ op'[i].ws = op[i].ws
         /\ op'[i].trees = op[i].trees /\ op'[i].saved = op[i].saved
         /\ Len(op'[i].frames) = Len(op[i].frames)
         /\ \A x \in 1..Len(op[i].frames) :
              /\ op'[i].frames[x].ws = op[i].frames[x].ws /\ op'[i].frames[x].data = op[i].frames[x].data
              /\ op'[i].frames[x].kids = op[i].frames[x].kids
         /\ op'[i].frames # <<>>
<1> DEFINE f == op[i].frames[1]
           g == [f EXCEPT !.head = h]
           s == [op[i].frames EXCEPT ![1] = g]
<1>1. op[i].frames \in Seq(FrameRec) /\ Len(op[i].frames) \in Nat \ {0} /\ f \in FrameRec
  <2>1. op[i] \in OpRec
    BY DEF TreesTyped
  <2>2. op[i].frames \in Seq(FrameRec)
    BY <2>1 DEF OpRec
  <2> QED
    BY <2>2
<1>2. g \in FrameRec /\ g.ws = f.ws /\ g.data = f.data /\ g.kids = f.kids
  <2> HIDE DEF f
  <2> QED
    BY <1>1 DEF FrameRec
<1>3. SetsFrames(i, "tree", s)
  BY DEF SetsHead, SetsFrames
<1>4. /\ s \in Seq(FrameRec) /\ Len(s) = Len(op[i].frames) /\ s[1] = g
      /\ \A x \in 2..Len(op[i].frames) : s[x] = op[i].frames[x]
  <2> HIDE DEF g
  <2> QED
    BY <1>1, <1>2
<1> HIDE DEF s, g
<1>5. \A x \in 1..Len(s) : s[x].ws = op[i].frames[x].ws /\ s[x].data = op[i].frames[x].data
                           /\ s[x].kids = op[i].frames[x].kids
  <2> TAKE x \in 1..Len(s)
  <2>1. x = 1 \/ x \in 2..Len(op[i].frames)
    BY <1>1, <1>4
  <2> QED
    BY <1>2, <1>4, <2>1
<1>6. s # <<>>
  <2>1. Len(s) # 0
    BY <1>1, <1>4
  <2>2. ASSUME NEW u, u = <<>> PROVE Len(u) = 0
    BY <2>2
  <2> QED
    BY <2>1, <2>2
<1> QED
  BY <1>3, <1>4, <1>5, <1>6, FramesSet DEF OpStages

(* A removal goes on, with the same calls.                                 *)
LEMMA FramesStay ==
  ASSUME NEW i \in Slot, FramesOK(i), op[i].at \in Removal, op'[i].at \in Removal \ {"enter"}, Steady,
         op'[i].kind = op[i].kind, op[i].trees \subseteq op'[i].trees,
         Len(op'[i].frames) = Len(op[i].frames), Len(op[i].frames) \in Nat \ {0}, op'[i].frames # <<>>,
         \A x \in 1..Len(op[i].frames) :
              /\ op'[i].frames[x].ws = op[i].frames[x].ws /\ op'[i].frames[x].data = op[i].frames[x].data
              /\ op'[i].frames[x].kids = op[i].frames[x].kids,
         \A x \in 2..Len(op[i].frames) : Trees!Open(op[i].frames[x].ws) => Trees!Open(op[i].frames[x].ws)',
         op[i].at # "enter",
         op'[i].at \in {"head", "tree", "branch", "drop"} =>
           op[i].at \in {"head", "tree", "branch", "drop"}
           /\ (Trees!Open(op[i].frames[1].ws) => Trees!Open(op[i].frames[1].ws)'),
         op'[i].at \in {"head", "tree"} => op[i].at \in {"head", "tree"},
         op'[i].at = "branch" => op'[i].frames[1].head \in Name
  PROVE  FramesOK(i)'
<1>1. /\ op[i].kind \in {"remove", "mergeRemove"} /\ Sorted(op[i].frames) /\ KidsAfter(op[i].frames)
      /\ \A x \in 2..Len(op[i].frames) : FrameOK(i, op[i].frames[x]) /\ Standing(op[i].frames[x])
      /\ FrameOK(i, op[i].frames[1])
      /\ op[i].at \in {"head", "tree", "branch", "drop"} => Standing(op[i].frames[1])
      /\ op[i].at \in {"head", "tree"} => op[i].frames[1].data.path # 1
  BY DEF FramesOK
<1>2. Sorted(op'[i].frames) /\ KidsAfter(op'[i].frames)
  BY Zenon, <1>1 DEF Sorted, KidsAfter
<1>3. ASSUME NEW x \in 1..Len(op[i].frames), FrameOK(i, op[i].frames[x])
      PROVE  FrameOK(i, op[i].frames[x])'
  BY Zenon, <1>3 DEF FrameOK, Steady
<1>4. ASSUME NEW x \in 1..Len(op[i].frames), Standing(op[i].frames[x]),
             Trees!Open(op[i].frames[x].ws) => Trees!Open(op[i].frames[x].ws)'
      PROVE  Standing(op[i].frames[x])'
  BY <1>4 DEF Standing, Steady
<1>5. 1 \in 1..Len(op[i].frames) /\ \A x \in 2..Len(op[i].frames) : x \in 1..Len(op[i].frames)
  OBVIOUS
<1> QED
  BY <1>1, <1>2, <1>3, <1>4, <1>5 DEF FramesOK

LEMMA ReadHeadKeepsPlaces ==
  ASSUME PlacesInv, GitOK, NEW i \in Slot, Trees!ReadHead(i)
  PROVE  PlacesInv'
<1> DEFINE p == op[i].frames[1].data.path
           h == IF tree[p].here THEN tree[p].head ELSE 0
<1>1. /\ op[i].at = "head" /\ SetsHead(i, h)
      /\ UNCHANGED <<tree, branch, entry, owed, waived, doubtful, works>>
  BY DEF Trees!ReadHead, Trees!AtTop, Trees!Top, SetsHead, Trees!bounds, Trees!history
<1>2. FramesOK(i) /\ op[i].at \in Removal
  BY <1>1 DEF PlacesInv, OpOK, Removal
<1>3. /\ FrameOK(i, op[i].frames[1]) /\ op[i].frames # <<>> /\ op[i].kind \in {"remove", "mergeRemove"}
      /\ op[i].trees \in SUBSET Name /\ Len(op[i].frames) \in Nat \ {0}
  BY SMTT(30), <1>1, <1>2 DEF FramesOK, PlacesInv, TreesTyped, OpRec
<1>4. h \in Name0
  BY <1>3, TreeTyped DEF PlacesInv, FrameOK, Name0
<1> HIDE DEF h
<1>5. /\ op' \in [Slot -> OpRec] /\ \A j \in Slot \ {i} : op'[j] = op[j]
      /\ op'[i].at = "tree" /\ op'[i].kind = op[i].kind /\ op'[i].ws = op[i].ws
      /\ op'[i].trees = op[i].trees /\ op'[i].saved = op[i].saved
      /\ Len(op'[i].frames) = Len(op[i].frames)
      /\ \A x \in 1..Len(op[i].frames) :
           /\ op'[i].frames[x].ws = op[i].frames[x].ws /\ op'[i].frames[x].data = op[i].frames[x].data
           /\ op'[i].frames[x].kids = op[i].frames[x].kids
      /\ op'[i].frames # <<>>
  BY <1>1, <1>3, <1>4, SetsHeadSays DEF PlacesInv
<1>6. Steady /\ Opens /\ (\A k : Trees!Open(k)' <=> Trees!Open(k)) /\ \A k \in Trees!Key : Placed(k)' => Placed(k)
  BY <1>1 DEF Steady, Opens, Placed, Trees!Open
<1>7. FramesOK(i)'
  BY <1>1, <1>2, <1>3, <1>5, <1>6, FramesStay DEF Removal
<1>8. OpOK(i)'
  BY <1>2, <1>5, <1>6, <1>7, SubjectStays DEF OpOK, Removal
<1>9. TreesTyped'
  BY <1>1, <1>5 DEF PlacesInv, TreesTyped
<1>10. \A k \in Trees!Key : ~Removes(i, k)
  BY <1>1 DEF Removes
<1>11. \A j \in Slot \ {i} : op[j].kind \in Trees!Creating => entry'[op[j].ws].status \in {"loading", "dismissed"}
  BY <1>1, CreationWaits
<1> QED
  BY <1>1, <1>3, <1>5, <1>6, <1>8, <1>9, <1>10, <1>11, EasyStep DEF Trees!Creating

(* A removal goes on with nothing but its stage changed.                   *)
LEMMA GoesOnRemoving ==
  ASSUME PlacesInv, NEW i \in Slot, NEW at, at \in {"branch", "drop", "file"}, Trees!Goto(i, at),
         op[i].at \in {"tree", "branch", "drop"}, Steady,
         \A l \in Trees!Key : (at = "file" => l # op[i].frames[1].ws) => (Trees!Open(l) => Trees!Open(l)'),
         at # "file" => op[i].at # "drop",
         at = "branch" => op[i].frames[1].head \in Name
  PROVE  OpOK(i)'
<1>1. FramesOK(i) /\ op[i].at \in Removal /\ op[i].frames # <<>> /\ Len(op[i].frames) \in Nat \ {0}
  <2>1. FramesOK(i) /\ op[i].at \in Removal
    BY DEF PlacesInv, OpOK, Removal
  <2> QED
    BY <2>1 DEF FramesOK, PlacesInv, TreesTyped, OpRec
<1>2. at \in OpStages /\ at \in Removal \ {"enter", "head", "tree"}
  BY DEF OpStages, Removal
<1>3. /\ op'[i].at = at /\ op'[i].kind = op[i].kind /\ op'[i].ws = op[i].ws
      /\ op'[i].trees = op[i].trees /\ op'[i].saved = op[i].saved /\ op'[i].frames = op[i].frames
  BY Zenon, <1>2, GotoSays DEF PlacesInv
<1>4. /\ \A x \in 2..Len(op[i].frames) : op[i].frames[x].ws \in Trees!Key
                                          /\ op[i].frames[x].ws # op[i].frames[1].ws
      /\ op[i].frames[1].ws \in Trees!Key
  <2>1. Sorted(op[i].frames) /\ FrameOK(i, op[i].frames[1])
        /\ \A x \in 2..Len(op[i].frames) : FrameOK(i, op[i].frames[x])
    BY <1>1 DEF FramesOK
  <2>2. ASSUME NEW x \in 2..Len(op[i].frames) PROVE op[i].frames[x].ws < op[i].frames[1].ws
    <3>1. 1 \in 1..Len(op[i].frames) /\ x \in 1..Len(op[i].frames) /\ 1 < x
      BY <1>1
    <3> QED
      BY <2>1, <3>1 DEF Sorted
  <2>3. ASSUME NEW k \in Trees!Key PROVE ~(k < k)
    BY TreeNumbers
  <2> QED
    BY <2>1, <2>2, <2>3 DEF FrameOK
<1>5. /\ \A x \in 2..Len(op[i].frames) : Trees!Open(op[i].frames[x].ws) => Trees!Open(op[i].frames[x].ws)'
      /\ at # "file" => (Trees!Open(op[i].frames[1].ws) => Trees!Open(op[i].frames[1].ws)')
  BY <1>3, <1>4
<1>6. FramesOK(i)'
  BY Zenon, <1>1, <1>2, <1>3, <1>5, FramesStay
<1> QED
  BY <1>1, <1>2, <1>3, <1>6, SubjectStays DEF OpOK

Loses(p) == tree' = [tree EXCEPT ![p] = Trees!NoTree]

LEMMA LosesSays ==
  ASSUME TreesTyped, NEW p \in Name, Loses(p)
  PROVE  /\ tree' \in [Name -> TreeRec] /\ \A q \in Name \ {p} : tree'[q] = tree[q]
         /\ tree'[p] = Trees!NoTree /\ ~tree'[p].here
<1>1. tree' \in [Name -> TreeRec] /\ (\A q \in Name \ {p} : tree'[q] = tree[q]) /\ tree'[p] = Trees!NoTree
  <2> HIDE DEF Trees!NoTree
  <2> QED
    BY NoRecords DEF Loses, TreesTyped
<1> QED
  BY <1>1 DEF Trees!NoTree

LEMMA GivenUp ==
  ASSUME TreesTyped, NEW i \in Slot, NEW merged, NEW work \in SUBSET Nat, Trees!GivesUp(i, merged, work)
  PROVE  waived' \in SUBSET Nat
BY DEF Trees!GivesUp, TreesTyped

LEMMA RemovingKeepsPlaces ==
  ASSUME PlacesInv, NEW i \in Slot, Trees!RemoveTree(i) \/ Trees!DeleteBranch(i)
  PROVE  PlacesInv'
<1> DEFINE f == op[i].frames[1]
           p == f.data.path
           b == f.head
<1>1. /\ op[i].at \in {"tree", "branch"} /\ UNCHANGED <<entry, owed, doubtful, works>>
  BY DEF Trees!RemoveTree, Trees!DeleteBranch, Trees!AtTop, Trees!bounds
<1>2. FramesOK(i)
  BY DEF PlacesInv, OpOK
<1>3. /\ FrameOK(i, f) /\ Standing(f)
      /\ op[i].at = "tree" => p # 1
      /\ op[i].at = "branch" => b \in Name
      /\ op[i].trees \in SUBSET Name /\ op[i].kind \notin Trees!Creating
  BY <1>1, <1>2 DEF FramesOK, PlacesInv, TreesTyped, OpRec, Removal, Trees!Creating
<1>4. /\ f.ws \in Trees!Key /\ entry[f.ws].path = p /\ p \in Name /\ p \in op[i].trees /\ b \in Name0
      /\ p \in doubtful \/ Trees!Open(f.ws)
  <2>1. f.head \in Name0
    <3>1. op[i] \in OpRec /\ op[i].frames # <<>>
      BY <1>1, <1>2 DEF PlacesInv, TreesTyped, FramesOK, Removal
    <3>2. op[i].frames \in Seq(FrameRec)
      BY <3>1 DEF OpRec
    <3>3. f \in FrameRec
      BY <3>1, <3>2
    <3> QED
      BY <3>3 DEF FrameRec
  <2> QED
    BY <1>3, <2>1 DEF FrameOK, Standing
<1>5. Steady /\ Opens /\ (\A k : Trees!Open(k)' <=> Trees!Open(k)) /\ \A k \in Trees!Key : Placed(k)' <=> Placed(k)
  BY <1>1 DEF Steady, Opens, Placed, Trees!Open
<1>6. \A j \in Slot \ {i} : op[j].kind \in Trees!Creating => entry'[op[j].ws].status \in {"loading", "dismissed"}
  BY <1>1, CreationWaits
<1>7. CASE Trees!RemoveTree(i) /\ UNCHANGED <<tree, waived>>
  <2>1. Trees!Goto(i, "drop") /\ op[i].at = "tree" /\ UNCHANGED branch
    <3>1. CASE tree[p].here
      <4>1. Trees!NoTree # tree[p]
        BY <3>1 DEF Trees!NoTree
      <4> QED
        BY Zenon, <1>4, <1>7, <4>1 DEF Trees!RemoveTree, Trees!AtTop, Trees!Top, PlacesInv, TreesTyped
    <3>2. CASE ~tree[p].here
      BY Zenon, <1>7, <3>2 DEF Trees!RemoveTree, Trees!AtTop, Trees!Top
    <3> QED
      BY <3>1, <3>2
  <2>2. OpOK(i)'
    BY <1>5, <2>1, GoesOnRemoving
  <2>3. /\ op' \in [Slot -> OpRec] /\ (\A j \in Slot \ {i} : op'[j] = op[j]) /\ op'[i].trees = op[i].trees
        /\ op'[i].kind = op[i].kind
    BY Zenon, <2>1, GotoSays DEF PlacesInv, OpStages
  <2>4. TreesTyped' /\ \A k \in Trees!Key : ~Removes(i, k)
    BY <1>1, <1>7, <2>1, <2>3 DEF PlacesInv, TreesTyped, Removes
  <2> QED
    BY <1>3, <1>5, <1>6, <1>7, <2>2, <2>3, <2>4, EasyStep
<1>8. CASE Trees!RemoveTree(i) /\ ~UNCHANGED <<tree, waived>>
  <2>1. /\ tree[p].here /\ Loses(p) /\ op[i].at = "tree" /\ UNCHANGED branch
        /\ Trees!GivesUp(i, p = op[i].saved.path, tree[p].tracked \cup tree[p].untracked)
        /\ Trees!Goto(i, IF b = 0 THEN "drop" ELSE "branch")
    BY Zenon, <1>8 DEF Trees!RemoveTree, Trees!AtTop, Trees!Top, Loses
  <2> DEFINE at == IF b = 0 THEN "drop" ELSE "branch"
  <2>2. at \in {"drop", "branch"} /\ (at = "branch" => b \in Name)
    BY <1>4 DEF Name0
  <2>3. Trees!Goto(i, at)
    BY Zenon, <2>1
  <2> HIDE DEF at
  <2>4. OpOK(i)'
    BY Zenon, <1>5, <2>1, <2>2, <2>3, GoesOnRemoving
  <2>5. /\ op' \in [Slot -> OpRec] /\ (\A j \in Slot \ {i} : op'[j] = op[j]) /\ op'[i].trees = op[i].trees
        /\ op'[i].kind = op[i].kind /\ op'[i].at = at /\ op'[i].frames = op[i].frames
    BY Zenon, <2>2, <2>3, GotoSays DEF PlacesInv, OpStages
  <2>6. tree' \in [Name -> TreeRec] /\ (\A q \in Name \ {p} : tree'[q] = tree[q]) /\ ~tree'[p].here
    BY Zenon, <1>4, <2>1, LosesSays DEF PlacesInv
  <2>7. waived' \in SUBSET Nat
    BY ZenonT(30), <1>4, <2>1, GivenUp, TreeTyped DEF PlacesInv
  <2>8. TreesTyped' /\ EntriesOK' /\ Filled'
    BY Zenon, <1>1, <1>5, <2>1, <2>5, <2>6, <2>7, SteadyEntries DEF PlacesInv, TreesTyped, Filled
  <2>9. ASSUME NEW k \in Trees!Key, Trees!Open(k), Trees!Open(k)' PROVE Backed(k)'
    <3>1. Backed(k) /\ entry[k].path \in Name
      BY <2>9, OpenIsPlaced DEF PlacesInv, EntriesOK
    <3>2. \A j \in Slot : Removes(j, k) => Removes(j, k)'
      BY Zenon, <2>1, <2>5 DEF Removes
    <3>3. CASE entry[k].path # p
      BY <1>1, <2>6, <3>1, <3>2, <3>3, BackedStays
    <3>4. CASE entry[k].path = p
      <4>1. p \in doubtful \/ k = f.ws
        BY <1>4, <2>9, <3>4 DEF PlacesInv, Unique
      <4>2. k = f.ws => Removes(i, k)'
        BY <2>2, <2>5 DEF Removes
      <4> QED
        BY <1>1, <3>4, <4>1, <4>2 DEF Backed
    <3> QED
      BY <3>3, <3>4
  <2>10. \A n \in Name : tree[n].here /\ ~tree'[n].here => n \in op[i].trees /\ n # 1
    BY Zenon, <1>3, <1>4, <2>1, <2>6
  <2> QED
    BY <1>3, <1>5, <1>6, <2>4, <2>5, <2>8, <2>9, <2>10, OperationStep
<1>9. CASE Trees!DeleteBranch(i)
  <2>1. Trees!Goto(i, "drop") /\ op[i].at = "branch" /\ UNCHANGED tree
    BY <1>9 DEF Trees!DeleteBranch, Trees!AtTop
  <2>2. OpOK(i)'
    BY <1>5, <2>1, GoesOnRemoving
  <2>3. /\ op' \in [Slot -> OpRec] /\ (\A j \in Slot \ {i} : op'[j] = op[j]) /\ op'[i].trees = op[i].trees
        /\ op'[i].kind = op[i].kind /\ op'[i].at = "drop" /\ op'[i].frames = op[i].frames
    BY Zenon, <2>1, GotoSays DEF PlacesInv, OpStages
  <2>4. branch' \in [Name -> BranchRec] /\ waived' \in SUBSET Nat
    <3>1. CASE UNCHANGED <<branch, waived>>
      BY <3>1 DEF PlacesInv, TreesTyped
    <3>2. CASE ~UNCHANGED <<branch, waived>>
      <4>1. /\ branch' = [branch EXCEPT ![b] = [here |-> FALSE, work |-> {}]]
            /\ Trees!GivesUp(i, b = op[i].saved.branch, branch[b].work)
        BY <1>9, <3>2 DEF Trees!DeleteBranch, Trees!Top
      <4>2. [here |-> FALSE, work |-> {}] \in BranchRec /\ b \in Name
        BY <1>3, <2>1 DEF BranchRec
      <4> QED
        BY <4>1, <4>2, GivenUp, TreeTyped DEF PlacesInv, TreesTyped
    <3> QED
      BY <3>1, <3>2
  <2>5. TreesTyped' /\ \A k \in Trees!Key : Removes(i, k) => Removes(i, k)'
    BY <1>1, <2>1, <2>3, <2>4 DEF PlacesInv, TreesTyped, Removes
  <2> QED
    BY <1>3, <1>5, <1>6, <2>1, <2>2, <2>3, <2>5, EasyStep
<1> QED
  BY <1>7, <1>8, <1>9

PutGone(k) ==
  entry' = [entry EXCEPT ![k] = [Trees!NoEntry EXCEPT !.status = "gone", !.path = entry[k].path,
                                                !.parent = entry[k].parent]]

LEMMA GoneSays ==
  ASSUME TreesTyped, NEW k \in Trees!Key, PutGone(k)
  PROVE  /\ entry' \in [Trees!Key -> EntryRec] /\ \A l \in Trees!Key \ {k} : entry'[l] = entry[l]
         /\ entry'[k].status = "gone" /\ entry'[k].path = entry[k].path
         /\ entry'[k].parent = entry[k].parent
<1> DEFINE e == [Trees!NoEntry EXCEPT !.status = "gone", !.path = entry[k].path, !.parent = entry[k].parent]
<1>1. entry[k].path \in Name0 /\ entry[k].parent \in Key0
  BY DEF TreesTyped, EntryRec
<1>2. e \in EntryRec /\ e.status = "gone" /\ e.path = entry[k].path /\ e.parent = entry[k].parent
  BY Zenon, <1>1 DEF Trees!NoEntry, EntryRec, Statuses, Name0
<1>3. entry' = [entry EXCEPT ![k] = e]
  BY DEF PutGone
<1> HIDE DEF e
<1> QED
  BY <1>2, <1>3 DEF TreesTyped

LEMMA DropKeepsPlaces ==
  ASSUME PlacesInv, NEW i \in Slot, Trees!Drop(i)
  PROVE  PlacesInv'
<1> DEFINE f == op[i].frames[1]
           k == f.ws
<1>1. /\ op[i].at = "drop" /\ PutGone(k) /\ Trees!Goto(i, "file")
      /\ UNCHANGED <<tree, branch, owed, waived, doubtful, works>>
  BY DEF Trees!Drop, Trees!AtTop, Trees!Top, PutGone, Trees!bounds, Trees!history
<1>2. FramesOK(i)
  BY DEF PlacesInv, OpOK
<1>3. /\ k \in Trees!Key /\ Placed(k) /\ entry[k].path \in op[i].trees
      /\ op[i].kind \notin Trees!Creating
  BY <1>1, <1>2 DEF FramesOK, FrameOK, Removal, Trees!Creating
<1>4. /\ entry' \in [Trees!Key -> EntryRec] /\ \A l \in Trees!Key \ {k} : entry'[l] = entry[l]
      /\ entry'[k].status = "gone" /\ entry'[k].path = entry[k].path
      /\ entry'[k].parent = entry[k].parent
  BY <1>1, <1>3, GoneSays DEF PlacesInv
<1>5. \A l \in Trees!Key : IF l = k THEN Placed(l)' /\ ~Trees!Open(l)'
                     ELSE (Trees!Open(l)' <=> Trees!Open(l)) /\ (Placed(l)' <=> Placed(l))
  BY <1>4 DEF Placed, Trees!Open
<1>6. Steady /\ \A l \in Trees!Key : Placed(l)' => Placed(l)
  BY <1>1, <1>3, <1>4, <1>5 DEF Steady
<1>7. OpOK(i)'
  BY <1>1, <1>5, <1>6, GoesOnRemoving
<1>8. /\ op' \in [Slot -> OpRec] /\ (\A j \in Slot \ {i} : op'[j] = op[j]) /\ op'[i].trees = op[i].trees
      /\ op'[i].kind = op[i].kind /\ op'[i].at = "file" /\ op'[i].frames = op[i].frames
  BY Zenon, <1>1, GotoSays DEF PlacesInv, OpStages
<1>9. TreesTyped' /\ EntriesOK'
  BY <1>1, <1>4, <1>6, <1>8, SteadyEntries DEF PlacesInv, TreesTyped
<1>10. Filled'
  <2>1. \A l \in Trees!Key : entry'[l].status = "none" <=> entry[l].status = "none"
    BY <1>3, <1>4 DEF Placed
  <2> QED
    BY <2>1 DEF PlacesInv, Filled
<1>11. \A j \in Slot \ {i} : op[j].kind \in Trees!Creating => entry'[op[j].ws].status \in {"loading", "dismissed"}
  <2> TAKE j \in Slot \ {i}
  <2> HAVE op[j].kind \in Trees!Creating
  <2>1. op[j].ws \in Trees!Key /\ entry[op[j].ws].status \in {"loading", "dismissed"}
    BY CreationWaits
  <2>2. op[j].ws # k
    BY <1>3, <2>1 DEF Placed
  <2> QED
    BY <1>4, <2>1, <2>2
<1>12. ASSUME NEW l \in Trees!Key, Trees!Open(l), Trees!Open(l)' PROVE Backed(l)'
  <2>1. l # k /\ Backed(l) /\ entry'[l].path = entry[l].path
    BY <1>4, <1>5, <1>12 DEF PlacesInv
  <2>2. \A j \in Slot : Removes(j, l) => Removes(j, l)'
    BY <1>8, <2>1 DEF Removes
  <2> QED
    BY <1>1, <2>1, <2>2, BackedStays
<1>13. /\ \A l \in Trees!Key : Trees!Open(l) /\ ~Trees!Open(l)' => entry[l].path \in op[i].trees
       /\ \A l \in Trees!Key : Trees!Open(l)' => Trees!Open(l)
  BY <1>3, <1>5
<1> QED
  BY <1>1, <1>3, <1>6, <1>7, <1>8, <1>9, <1>10, <1>11, <1>12, <1>13, OperationStep

LEMMA DeleteFileKeepsPlaces ==
  ASSUME PlacesInv, NEW i \in Slot, Trees!DeleteFile(i)
  PROVE  PlacesInv'
BY Zenon, ReturnStep DEF Trees!DeleteFile, Trees!AtTop, Returns, Trees!bounds, Trees!history

LEMMA ThrowsKeepsPlaces ==
  ASSUME PlacesInv, NEW i \in Slot, Trees!DeleteFileThrows(i)
  PROVE  PlacesInv'
<1>1. op[i].at = "file" /\ Trees!Ends(i) /\ UNCHANGED <<tree, branch, owed, waived, works>>
  BY DEF Trees!DeleteFileThrows, Trees!AtTop, Trees!bounds
<1>2. op[i].kind \in {"remove", "mergeRemove"} /\ op[i].kind \in Removals
  BY <1>1 DEF PlacesInv, OpOK, FramesOK, Removal, Removals
<1>3. tree' \in [Name -> TreeRec] /\ branch' \in [Name -> BranchRec]
      /\ owed' \in SUBSET Nat /\ waived' \in SUBSET Nat /\ works' \in Nat
      /\ \A n \in Name : tree[n].here => tree'[n].here
  BY <1>1 DEF PlacesInv, TreesTyped
<1>4. CASE op[i].kind = "remove"
  <2>1. Trees!OperationError(i) /\ doubtful' = doubtful \cup op[i].trees
    BY <1>4 DEF Trees!DeleteFileThrows
  <2> QED
    BY <1>1, <1>2, <1>3, <1>4, <2>1, FailStep
<1>5. CASE op[i].kind # "remove"
  <2> DEFINE k == op[i].ws
  <2>1. /\ UNCHANGED doubtful
        /\ (Trees!Open(k) /\ SetsStatus(k, "opError")) \/ (~Trees!Open(k) /\ UNCHANGED entry)
    BY <1>5 DEF Trees!DeleteFileThrows, SetsStatus
  <2>2. k \in Trees!Key
    BY <1>2 DEF PlacesInv, OpOK, Subject
  <2>3. /\ entry' \in [Trees!Key -> EntryRec] /\ \A l \in Trees!Key \ {k} : entry'[l] = entry[l]
        /\ entry'[k].path = entry[k].path /\ entry'[k].parent = entry[k].parent
        /\ (Trees!Open(k) /\ entry'[k].status = "opError") \/ entry'[k] = entry[k]
    <3>1. CASE SetsStatus(k, "opError") /\ Trees!Open(k)
      <4>1. "opError" \in Statuses /\ entry' = [entry EXCEPT ![k].status = "opError"]
        BY <3>1 DEF Statuses, SetsStatus
      <4> QED
        BY Zenon, <2>2, <3>1, <4>1, StatusSays DEF PlacesInv
    <3>2. CASE UNCHANGED entry
      BY <2>2, <3>2 DEF PlacesInv, TreesTyped
    <3> QED
      BY <2>1, <3>1, <3>2
  <2>4. \A l \in Trees!Key : /\ entry'[l].path = entry[l].path /\ entry'[l].parent = entry[l].parent
                             /\ \/ entry'[l].status = entry[l].status
                                \/ entry'[l].status = "opError" /\ entry[l].status \in {"loaded", "opError"}
    BY <2>3 DEF Trees!Open
  <2>5. \A l \in Trees!Key : /\ (Trees!Open(l)' <=> Trees!Open(l)) /\ (Placed(l)' <=> Placed(l))
                             /\ entry'[l].status = "none" <=> entry[l].status = "none"
    BY <2>4 DEF Trees!Open, Placed
  <2>6. Steady /\ Opens /\ \A l \in Trees!Key : Placed(l)' => Placed(l)
    BY <2>1, <2>4, <2>5 DEF Steady, Opens
  <2>7. \A j \in Slot \ {i} : op[j].kind \in Trees!Creating => entry'[op[j].ws] = entry[op[j].ws]
    <3> TAKE j \in Slot \ {i}
    <3> HAVE op[j].kind \in Trees!Creating
    <3>1. op[j].ws \in Trees!Key /\ entry[op[j].ws].status \in {"loading", "dismissed"}
      BY CreationWaits
    <3>2. op[j].ws # k
      BY <1>1, <1>2, <3>1 DEF PlacesInv, OpOK, Subject, Placed
    <3> QED
      BY <2>3, <3>1, <3>2
  <2> QED
    BY <1>1, <1>3, <2>3, <2>6, <2>7, EndStep
<1> QED
  BY <1>4, <1>5

-----------------------------------------------------------------------------
(* What was committed or tracked.  A merge-and-remove that is sure of its  *)
(* worktree owns it from its check on: no other worktree has its branch,   *)
(* and what it did not commit there is new or was waived.  While it        *)
(* removes, its branch is threatened, and all that is owed is elsewhere.   *)
Own(i) ==
  /\ i \in sure /\ op[i].kind = "mergeRemove" /\ op[i].saved.path \notin doubtful
  /\ op[i].at \in {"commit", "merge"} \cup Removal
Threatens(i, b) == Own(i) /\ op[i].at \in Removal /\ op[i].saved.branch = b

Uncommitted(x) == \A b \in Name : x \notin branch[b].work
Lone(x, p) == Uncommitted(x) /\ \A q \in Name : q # p => x \notin tree[q].tracked

OwnOK(i) ==
  /\ op[i].saved.branch \in Name
  /\ tree[op[i].saved.path].here => tree[op[i].saved.path].head = op[i].saved.branch
  /\ \A q \in Name : tree[q].here /\ tree[q].head = op[i].saved.branch => q = op[i].saved.path
  /\ op[i].at # "commit" =>
       \A x \in tree[op[i].saved.path].tracked :
         x \in waived \/ (x \notin owed /\ Lone(x, op[i].saved.path))

UntrackedOK ==
  \A p \in Name : \A x \in tree[p].untracked :
    /\ x \notin owed /\ Uncommitted(x)
    /\ \A q \in Name : x \notin tree[q].tracked /\ (q # p => x \notin tree[q].untracked)

Fresh ==
  /\ \A x \in owed : x <= works
  /\ \A b \in Name : \A x \in branch[b].work : x <= works
  /\ \A p \in Name : \A x \in tree[p].tracked \cup tree[p].untracked : x <= works

Kept(x) ==
  \/ x \in waived
  \/ \E p \in Name : x \in tree[p].tracked
  \/ \E b \in Name : x \in branch[b].work /\ \A i \in Slot : ~Threatens(i, b)

WorkInv ==
  /\ GitOK /\ Fresh /\ UntrackedOK /\ \A x \in owed : Kept(x)
  /\ \A i \in Slot : Own(i) => OwnOK(i)

(* An operation gets no further, or is not sure any more.                  *)
Carries(i) ==
  Own(i)' => /\ Own(i) /\ op'[i].saved = op[i].saved
             /\ op'[i].at \in Removal => op[i].at \in Removal
             /\ op'[i].at # "commit" => op[i].at # "commit"

LEMMA OwnPlace ==
  ASSUME PlacesInv, NEW i \in Slot, Own(i)
  PROVE  op[i].saved.path \in Name /\ op[i].saved.path \in op[i].trees /\ op[i].kind = "mergeRemove"
<1>1. op[i].kind \in Removals /\ op[i].kind # "remove" /\ op[i].at \notin {"lock", "parent"}
      /\ op[i].trees \subseteq Name
  BY DEF Own, Removals, Removal, PlacesInv, TreesTyped, OpRec
<1> QED
  BY <1>1 DEF PlacesInv, OpOK, Subject, Own

LEMMA OwnAlone ==
  ASSUME PlacesInv, NEW j \in Slot, Own(j), NEW i \in Slot \ {j}, NEW p, p \in op[i].trees
  PROVE  p # op[j].saved.path
BY OwnPlace, ApartSays DEF Own

LEMMA ThreatSays ==
  ASSUME WorkInv, NEW j \in Slot, NEW p \in Name, tree[p].here, Threatens(j, tree[p].head)
  PROVE  Own(j) /\ p = op[j].saved.path
BY DEF WorkInv, Threatens, OwnOK

LEMMA CarriesThreats ==
  ASSUME NEW j \in Slot, Carries(j), NEW b, Threatens(j, b)'
  PROVE  Threatens(j, b)
BY DEF Carries, Threatens

(* A step that does nothing to the work.                                   *)
SameWork ==
  /\ UNCHANGED <<branch, owed, works>> /\ waived \subseteq waived'
  /\ \A p \in Name : /\ tree'[p].here = tree[p].here /\ tree'[p].head = tree[p].head
                     /\ tree'[p].tracked = tree[p].tracked /\ tree'[p].untracked = tree[p].untracked

LEMMA QuietStep ==
  ASSUME PlacesInv, WorkInv, SameWork, \A j \in Slot : Carries(j)
  PROVE  WorkInv'
<1>1. GitOK' /\ Fresh' /\ UntrackedOK'
  BY DEF WorkInv, SameWork, GitOK, Fresh, UntrackedOK, Uncommitted
<1>2. ASSUME NEW x \in owed' PROVE Kept(x)'
  <2>1. Kept(x)
    BY DEF WorkInv, SameWork
  <2>2. \A j \in Slot, b \in Name : Threatens(j, b)' => Threatens(j, b)
    BY CarriesThreats
  <2> QED
    BY <2>1, <2>2 DEF Kept, SameWork
<1>3. ASSUME NEW j \in Slot, Own(j)' PROVE OwnOK(j)'
  <2>1. Own(j) /\ op'[j].saved = op[j].saved /\ (op'[j].at # "commit" => op[j].at # "commit")
    BY <1>3 DEF Carries
  <2>2. OwnOK(j) /\ op[j].saved.path \in Name
    BY <2>1, OwnPlace DEF WorkInv
  <2> QED
    BY <2>1, <2>2 DEF OwnOK, SameWork, Lone, Uncommitted
<1> QED
  BY <1>1, <1>2, <1>3 DEF WorkInv

LEMMA OthersCarry ==
  ASSUME NEW j \in Slot, op'[j] = op[j], sure' \subseteq sure, doubtful \subseteq doubtful'
  PROVE  Carries(j)
BY DEF Carries, Own

LEMMA NotOwnCarries ==
  ASSUME NEW i \in Slot,
         \/ op'[i].kind # "mergeRemove"
         \/ op'[i].at \in {"idle", "listed", "lock", "base", "add", "adopt", "parent", "dirty", "status"}
  PROVE  Carries(i)
BY DEF Carries, Own, Removal

(* An operation that goes on with its removal, or to it.                   *)
LEMMA RemovalCarries ==
  ASSUME NEW i \in Slot, op[i].at \in Removal, op'[i].kind = op[i].kind, op'[i].saved = op[i].saved,
         op'[i].at \in Removal, sure' \subseteq sure, doubtful \subseteq doubtful'
  PROVE  Carries(i)
BY DEF Carries, Own, Removal

Settled == UNCHANGED <<tree, branch, owed, works>> /\ waived \subseteq waived' /\ sure' \subseteq sure
           /\ doubtful \subseteq doubtful'

LEMMA SettledStep ==
  ASSUME PlacesInv, WorkInv, Settled, NEW i \in Slot, \A j \in Slot \ {i} : op'[j] = op[j], Carries(i)
  PROVE  WorkInv'
<1>1. SameWork
  BY DEF SameWork, Settled
<1>2. \A j \in Slot : Carries(j)
  BY OthersCarry DEF Settled
<1> QED
  BY <1>1, <1>2, QuietStep

LEMMA EndsQuietly ==
  ASSUME PlacesInv, WorkInv, NEW i \in Slot, Settled, Trees!Ends(i)
  PROVE  WorkInv'
<1>1. (\A j \in Slot \ {i} : op'[j] = op[j]) /\ op'[i].kind = "none"
  BY EndsSays DEF PlacesInv
<1> QED
  BY <1>1, NotOwnCarries, SettledStep

LEMMA GoesQuietly ==
  ASSUME PlacesInv, WorkInv, NEW i \in Slot, Settled, NEW at, at \in OpStages, Trees!Goto(i, at),
         \/ at \in {"lock", "base", "add", "adopt", "parent", "dirty", "status"}
         \/ op[i].kind # "mergeRemove"
         \/ op[i].at \in Removal /\ at \in Removal
  PROVE  WorkInv'
<1>1. /\ \A j \in Slot \ {i} : op'[j] = op[j]
      /\ op'[i].at = at /\ op'[i].kind = op[i].kind /\ op'[i].saved = op[i].saved
  BY Zenon, GotoSays DEF PlacesInv
<1>2. Carries(i)
  BY <1>1, NotOwnCarries, RemovalCarries DEF Settled
<1> QED
  BY <1>1, <1>2, SettledStep

LEMMA BeginsQuietly ==
  ASSUME PlacesInv, WorkInv, NEW o, o \in OpRec, Trees!Begin(o),
         UNCHANGED <<tree, branch, owed, waived, sure, works>>
  PROVE  WorkInv'
<1>1. PICK i \in Slot :
         /\ \A j \in Slot \ {i} : op'[j] = op[j]
         /\ op'[i].at = "lock" /\ doubtful \subseteq doubtful'
  BY BeginSays DEF PlacesInv
<1> QED
  BY <1>1, NotOwnCarries, SettledStep DEF Settled

LEMMA CallKeepsWork ==
  ASSUME PlacesInv, WorkInv, NEW k \in Trees!Key,
         Trees!Remove(k) \/ Trees!CloseAndClean(k) \/ Trees!Merge(k)
  PROVE  WorkInv'
<1>0. UNCHANGED <<tree, branch, owed, waived, sure, works>> /\ Trees!Line(k) \in SUBSET Name
  BY Zenon, LineSays DEF Trees!Remove, Trees!CloseAndClean, Trees!Merge
<1>1. CASE Trees!Remove(k)
  <2>1. PICK kb \in BOOLEAN, kt \in BOOLEAN : Trees!Begin(RemoveCall(k, Trees!Line(k), kb, kt))
    BY Zenon, <1>1 DEF Trees!Remove, RemoveCall
  <2> DEFINE o == RemoveCall(k, Trees!Line(k), kb, kt)
  <2>2. o \in OpRec /\ Trees!Begin(o)
    BY <1>0, <2>1, RemoveCallSays DEF PlacesInv
  <2> HIDE DEF o
  <2> QED
    BY <1>0, <2>2, BeginsQuietly
<1>2. CASE Trees!CloseAndClean(k)
  <2> DEFINE o == CleanCall(k, Trees!Line(k))
  <2>1. Trees!Begin(o)
    BY <1>2 DEF Trees!CloseAndClean, CleanCall
  <2>2. o \in OpRec
    BY <1>0, CleanCallSays DEF PlacesInv
  <2> HIDE DEF o
  <2> QED
    BY <1>0, <2>1, <2>2, BeginsQuietly
<1>3. CASE Trees!Merge(k)
  <2>1. PICK kind \in Trees!Merging, squash \in BOOLEAN : Trees!Begin(MergeCall(kind, k, Trees!Line(k), squash))
    BY Zenon, <1>3 DEF Trees!Merge, MergeCall
  <2> DEFINE o == MergeCall(kind, k, Trees!Line(k), squash)
  <2>2. o \in OpRec /\ Trees!Begin(o)
    BY <1>0, <2>1, MergeCallSays DEF Trees!Merging, OpKinds
  <2> HIDE DEF o
  <2> QED
    BY <1>0, <2>2, BeginsQuietly
<1> QED
  BY <1>1, <1>2, <1>3

LEMMA CreateKeepsWork ==
  ASSUME PlacesInv, WorkInv, NEW p \in Trees!Key, NEW n \in Name, Trees!CreateChild(p, n)
  PROVE  WorkInv'
<1> DEFINE trees == {n, entry[p].path}
<1>1. PICK k \in Trees!Unused, kind \in Trees!Creating, d \in BOOLEAN :
         SetsStatus(k, "loading") /\ Trees!Begin(CreateCall(kind, k, p, n, d, trees))
  BY Zenon DEF Trees!CreateChild, SetsStatus, CreateCall
<1>2. /\ entry[p].path \in Name /\ k \in Trees!Key
      /\ UNCHANGED <<tree, branch, owed, waived, sure, works>>
  BY OpenIsPlaced DEF Trees!CreateChild, Trees!Unused, PlacesInv, EntriesOK
<1> DEFINE o == CreateCall(kind, k, p, n, d, trees)
<1>3. o \in OpRec
  <2>1. kind \in OpKinds /\ trees \in SUBSET Name
    BY <1>2 DEF Trees!Creating, OpKinds
  <2> HIDE DEF trees
  <2> QED
    BY <1>2, <2>1, CreateCallSays
<1>4. Trees!Begin(o)
  BY <1>1
<1> HIDE DEF o
<1> QED
  BY <1>2, <1>3, <1>4, BeginsQuietly

LEMMA ListingKeepsWork ==
  ASSUME PlacesInv, WorkInv, NEW p \in Trees!Key, Trees!ListWorktrees(p)
  PROVE  WorkInv'
<1> DEFINE listed == [q \in Name |-> IF tree[q].here /\ ~Trees!AlreadyOpen(q) THEN tree[q].head ELSE 0]
<1>1. PICK i \in Trees!Idle, kind \in {"adopt", "autoOpen"} : op' = [op EXCEPT ![i] = ListCall(kind, p, listed)]
  BY Zenon DEF Trees!ListWorktrees, ListCall
<1>2. Settled /\ i \in Slot
  BY DEF Trees!ListWorktrees, Trees!history, Trees!Idle, Settled
<1>3. listed \in [Name -> Name0]
  BY TreeTyped DEF PlacesInv, Name0
<1> HIDE DEF listed
<1> DEFINE o == ListCall(kind, p, listed)
<1>4. o \in OpRec /\ o.at = "listed"
  BY <1>3, ListCallSays DEF OpKinds
<1>5. op' = [op EXCEPT ![i] = o]
  BY <1>1
<1> HIDE DEF o
<1>6. (\A j \in Slot \ {i} : op'[j] = op[j]) /\ op'[i] = o
  BY <1>2, <1>5 DEF PlacesInv, TreesTyped
<1> QED
  BY <1>2, <1>4, <1>6, NotOwnCarries, SettledStep

LEMMA AdoptKeepsWork ==
  ASSUME PlacesInv, WorkInv, NEW i \in Slot, Trees!Adopt(i) \/ Trees!Adopted(i)
  PROVE  WorkInv'
<1>0. op[i].kind \in {"adopt", "autoOpen"} /\ op[i].kind # "mergeRemove" /\ op[i] \in OpRec
  BY Zenon DEF Trees!Adopt, Trees!Adopted, Trees!At, PlacesInv, TreesTyped
<1>1. Settled
  BY Zenon DEF Trees!Adopt, Trees!Adopted, Settled, Trees!history, Trees!bounds
<1>2. (\A j \in Slot \ {i} : op'[j] = op[j]) /\ op'[i].kind # "mergeRemove"
  <2>1. CASE Trees!Adopt(i)
    <3>1. PICK trees, listed : Chooses(i, trees, listed)
      BY Zenon, <2>1 DEF Trees!Adopt, Chooses
    <3>2. /\ \A j \in Slot \ {i} : op'[j] = op[j]
          /\ op'[i] = [op[i] EXCEPT !.at = "lock", !.trees = trees, !.listed = listed]
      BY <3>1 DEF Chooses, PlacesInv, TreesTyped
    <3> QED
      BY <1>0, <3>2 DEF OpRec
  <2>2. CASE Trees!Adopted(i)
    <3>1. CASE Trees!Ends(i)
      BY <3>1, EndsSays DEF PlacesInv
    <3>2. CASE ~Trees!Ends(i)
      <4>1. PICK n \in Name : UnlistsOne(i, n)
        BY <2>2, <3>2 DEF Trees!Adopted, UnlistsOne
      <4> QED
        BY <1>0, <4>1, UnlistsSays DEF PlacesInv
    <3> QED
      BY <3>1, <3>2
  <2> QED
    BY <2>1, <2>2
<1> QED
  BY <1>1, <1>2, NotOwnCarries, SettledStep

LEMMA LockKeepsWork ==
  ASSUME PlacesInv, WorkInv, NEW i \in Slot,
         Trees!Lock(i) \/ Trees!LockRefused(i) \/ Trees!Base(i) \/ Trees!WorktreeAddFails(i)
  PROVE  WorkInv'
<1>0. Settled
  BY Zenon DEF Trees!Lock, Trees!LockRefused, Trees!Base, Trees!WorktreeAddFails, Settled,
     Trees!history, Trees!bounds
<1>1. CASE Trees!Ends(i)
  BY <1>0, <1>1, EndsQuietly
<1>2. CASE Trees!Lock(i) /\ op[i].kind # "remove"
  <2>1. PICK at \in {"base", "add", "adopt", "parent"} : Trees!Goto(i, at)
    BY Zenon, <1>2 DEF Trees!Lock, Trees!At, Trees!Creating, Trees!Merging
  <2>2. at \in OpStages /\ at \in {"lock", "base", "add", "adopt", "parent", "dirty", "status"}
    BY DEF OpStages
  <2> QED
    BY <1>0, <2>1, <2>2, GoesQuietly
<1>3. CASE Trees!Lock(i) /\ op[i].kind = "remove"
  <2>1. Trees!EnterFrames(i)
    BY <1>3 DEF Trees!Lock, Trees!Creating, Trees!Merging
  <2>2. (\A j \in Slot \ {i} : op'[j] = op[j]) /\ op'[i].kind = op[i].kind
    BY <2>1, EnterSays DEF PlacesInv
  <2> QED
    BY <1>0, <1>3, <2>2, NotOwnCarries, SettledStep
<1>4. CASE Trees!Base(i)
  <2>1. Trees!Goto(i, "add") /\ "add" \in OpStages
    BY <1>4 DEF Trees!Base, OpStages
  <2> QED
    BY <1>0, <2>1, GoesQuietly
<1> QED
  BY <1>1, <1>2, <1>3, <1>4 DEF Trees!LockRefused, Trees!WorktreeAddFails

LEMMA CheckKeepsWork ==
  ASSUME PlacesInv, WorkInv, NEW i \in Slot,
         Trees!CheckParent(i) \/ Trees!CheckParentStatus(i) \/ Trees!CommitFails(i) \/ Trees!Keep(i)
  PROVE  WorkInv'
<1>0. Settled
  BY DEF Trees!CheckParent, Trees!CheckParentStatus, Trees!CommitFails, Trees!Keep, Settled,
     Trees!history, Trees!bounds
<1>1. CASE Trees!Ends(i)
  BY <1>0, <1>1, EndsQuietly
<1>2. CASE Trees!CheckParent(i) /\ ~Trees!Ends(i)
  <2> DEFINE k == op[i].ws
             p == entry[k].parent
  <2>1. ReadsParent(i, k, p) /\ Trees!Open(k) /\ Trees!Open(p)
    BY <1>2 DEF Trees!CheckParent, ReadsParent
  <2>2. k \in Trees!Key /\ p \in Trees!Key
    BY <2>1 DEF Trees!Open
  <2> HIDE DEF k, p
  <2>3. (\A j \in Slot \ {i} : op'[j] = op[j]) /\ op'[i].at = "dirty"
    BY <2>1, <2>2, CheckParentSays DEF PlacesInv
  <2> QED
    BY <1>0, <2>3, NotOwnCarries, SettledStep
<1>3. CASE Trees!CheckParentStatus(i) /\ ~Trees!Ends(i)
  <2> DEFINE at == IF op[i].kind = "mergeRemove" THEN "status" ELSE "merge"
  <2>1. Trees!Goto(i, at)
    BY <1>3 DEF Trees!CheckParentStatus
  <2>2. /\ at \in OpStages
        /\ at \in {"lock", "base", "add", "adopt", "parent", "dirty", "status"} \/ op[i].kind # "mergeRemove"
    BY DEF OpStages
  <2> HIDE DEF at
  <2> QED
    BY <1>0, <2>1, <2>2, GoesQuietly
<1> QED
  BY <1>1, <1>2, <1>3 DEF Trees!CommitFails, Trees!Keep

LEMMA EntryKeepsWork ==
  ASSUME PlacesInv, WorkInv, NEW k \in Trees!Key,
         Trees!RefreshGitInfo(k) \/ Trees!ClearError(k) \/ Trees!Dismiss(k)
  PROVE  WorkInv'
<1>1. SameWork /\ UNCHANGED <<op, sure, doubtful>>
  BY DEF Trees!RefreshGitInfo, Trees!ClearError, Trees!Dismiss, SameWork, Trees!history, Trees!bounds
<1> QED
  BY <1>1, OthersCarry, QuietStep

LEMMA ReturnKeepsWork ==
  ASSUME PlacesInv, WorkInv, NEW i \in Slot, Returns(i), Settled, op[i].at \in Removal
  PROVE  WorkInv'
<1> DEFINE o == op[i]
<1>1. FramesOK(i) /\ o \in OpRec
  BY DEF PlacesInv, OpOK, TreesTyped
<1>2. o.frames # <<>> /\ Sorted(o.frames) /\ KidsAfter(o.frames)
  BY <1>1 DEF FramesOK
<1>3. op'[i] = Trees!Return(o) /\ \A j \in Slot \ {i} : op'[j] = op[j]
  BY DEF Returns, PlacesInv, TreesTyped
<1>4. CASE Len(o.frames) = 1
  <2>1. op'[i].kind = "none"
    BY <1>3, <1>4, NoRecords DEF Trees!Return
  <2> QED
    BY <1>3, <2>1, NotOwnCarries, SettledStep
<1>5. CASE Len(o.frames) # 1
  <2> DEFINE r == Inner(o)
  <2>1. op'[i] = Trees!Continue(r)
    BY <1>3, <1>5 DEF Trees!Return, Inner
  <2>2. r \in OpRec /\ r.kind = o.kind /\ r.saved = o.saved /\ r.frames # <<>>
    BY <1>1, <1>2, <1>5, TailSays
  <2> HIDE DEF r
  <2>3. op'[i].kind = r.kind /\ op'[i].saved = r.saved /\ op'[i].at \in {"enter", "drop", "tree", "head"}
    BY <2>1, <2>2, ContinueSays
  <2>4. Carries(i)
    BY <2>2, <2>3, RemovalCarries DEF Settled, Removal
  <2> QED
    BY <1>3, <2>4, SettledStep
<1> QED
  BY <1>4, <1>5

LEMMA EnterKeepsWork ==
  ASSUME PlacesInv, WorkInv, NEW i \in Slot, Trees!Enter(i)
  PROVE  WorkInv'
<1> DEFINE q == op[i]
           k == q.frames[1].ws
<1>1. FramesOK(i) /\ q \in OpRec /\ q.at \in Removal
  BY DEF PlacesInv, OpOK, TreesTyped, Removal, Trees!Enter, Trees!AtTop
<1>2. q.frames # <<>>
  BY <1>1 DEF FramesOK
<1>3. Settled
  BY DEF Trees!Enter, Settled, Trees!bounds
<1>4. CASE Trees!Open(k)
  <2> DEFINE o == Trees!Entered(q, entry[k], Trees!Children(k))
  <2>1. /\ entry[k] \in EntryRec /\ entry[k].path \in Name /\ Trees!Children(k) \in SUBSET Trees!Key
    BY <1>4, OpenIsPlaced DEF PlacesInv, TreesTyped, EntriesOK, Trees!Children
  <2>2. op' = [op EXCEPT ![i] = Trees!Continue(o)]
    BY <1>4 DEF Trees!Enter, Trees!Top
  <2>3. o \in OpRec /\ o.kind = q.kind /\ o.saved = q.saved /\ o.frames # <<>>
    <3> DEFINE e == entry[k]
               kids == Trees!Children(k)
    <3> HIDE DEF e, kids
    <3>1. o = Trees!Entered(q, e, kids) /\ e \in EntryRec /\ e.path \in Name /\ kids \in SUBSET Trees!Key
      BY <2>1 DEF e, kids
    <3> HIDE DEF o
    <3>2. o \in OpRec /\ o.kind = q.kind /\ o.saved = q.saved /\ Len(o.frames) = Len(q.frames)
          /\ Len(q.frames) \in Nat \ {0}
      BY <1>1, <1>2, <3>1, EnteredSays
    <3> QED
      BY <3>2
  <2> HIDE DEF o
  <2>4. /\ Trees!Continue(o).kind = q.kind /\ Trees!Continue(o).saved = q.saved
        /\ Trees!Continue(o).at \in {"enter", "drop", "tree", "head"}
    BY <2>3, ContinueSays
  <2>5. op'[i] = Trees!Continue(o) /\ \A j \in Slot \ {i} : op'[j] = op[j]
    BY <2>2 DEF PlacesInv, TreesTyped
  <2>6. Carries(i)
    BY <1>1, <1>3, <2>4, <2>5, RemovalCarries DEF Settled, Removal
  <2> QED
    BY <1>3, <2>5, <2>6, SettledStep
<1>5. CASE ~Trees!Open(k)
  <2>1. Returns(i)
    BY <1>5 DEF Trees!Enter, Trees!Top, Returns
  <2> QED
    BY <1>1, <1>3, <2>1, ReturnKeepsWork
<1> QED
  BY <1>4, <1>5

LEMMA RemovalKeepsWork ==
  ASSUME PlacesInv, WorkInv, NEW i \in Slot,
         Trees!ReadHead(i) \/ Trees!Drop(i) \/ Trees!DeleteFile(i) \/ Trees!DeleteFileThrows(i)
  PROVE  WorkInv'
<1>0. Settled /\ op[i].at \in Removal /\ FramesOK(i)
  BY DEF Trees!ReadHead, Trees!Drop, Trees!DeleteFile, Trees!DeleteFileThrows, Settled, Trees!history,
     Trees!bounds, Trees!AtTop, Removal, PlacesInv, OpOK
<1>1. CASE Trees!ReadHead(i)
  <2> DEFINE p == op[i].frames[1].data.path
             h == IF tree[p].here THEN tree[p].head ELSE 0
  <2>1. SetsHead(i, h) /\ op[i].at = "head"
    BY <1>1 DEF Trees!ReadHead, Trees!AtTop, Trees!Top, SetsHead
  <2>2. FrameOK(i, op[i].frames[1]) /\ op[i].frames # <<>> /\ op[i].trees \in SUBSET Name
    BY <1>0, <2>1 DEF FramesOK, PlacesInv, TreesTyped, OpRec
  <2>3. h \in Name0
    BY <2>2, TreeTyped DEF PlacesInv, FrameOK, Name0
  <2> HIDE DEF h
  <2>4. /\ \A j \in Slot \ {i} : op'[j] = op[j]
        /\ op'[i].at = "tree" /\ op'[i].kind = op[i].kind /\ op'[i].saved = op[i].saved
    BY <2>1, <2>2, <2>3, SetsHeadSays DEF PlacesInv
  <2>5. Carries(i)
    BY <1>0, <2>4, RemovalCarries DEF Settled, Removal
  <2> QED
    BY <1>0, <2>4, <2>5, SettledStep
<1>2. CASE Trees!Drop(i)
  <2>1. Trees!Goto(i, "file") /\ "file" \in OpStages /\ "file" \in Removal
    BY <1>2 DEF Trees!Drop, OpStages, Removal
  <2> QED
    BY <1>0, <2>1, GoesQuietly
<1>3. CASE Trees!DeleteFile(i)
  BY Zenon, <1>0, <1>3, ReturnKeepsWork DEF Trees!DeleteFile, Returns
<1>4. CASE Trees!DeleteFileThrows(i)
  BY <1>0, <1>4, EndsQuietly DEF Trees!DeleteFileThrows
<1> QED
  BY <1>1, <1>2, <1>3, <1>4

(* The steps that do something to it.                                      *)
LEMMA EditKeepsWork ==
  ASSUME PlacesInv, WorkInv, NEW p \in Name, Trees!Edit(p)
  PROVE  WorkInv'
<1> DEFINE x == works + 1
<1>1. /\ works' = x /\ works' \in Nat /\ works \in Nat
      /\ \A q \in Name : q # p => tree'[q] = tree[q]
      /\ tree[p].here /\ tree'[p].here /\ tree'[p].head = tree[p].head
      /\ \/ tree'[p].tracked = tree[p].tracked \cup {x} /\ tree'[p].untracked = tree[p].untracked
         \/ tree'[p].untracked = tree[p].untracked \cup {x} /\ tree'[p].tracked = tree[p].tracked
  BY EditSays DEF PlacesInv, TreesTyped
<1>2. UNCHANGED <<branch, op, owed, waived, doubtful, sure>>
  BY DEF Trees!Edit, Trees!history
<1>3. \A j \in Slot : Carries(j)
  BY <1>2, OthersCarry
<1>4. /\ \A y \in owed : y \in Nat /\ y <= works
      /\ \A b \in Name : \A y \in branch[b].work : y \in Nat /\ y <= works
      /\ \A q \in Name : \A y \in tree[q].tracked \cup tree[q].untracked : y \in Nat /\ y <= works
  BY TreeTyped DEF PlacesInv, WorkInv, Fresh, TreesTyped
<1>5. /\ \A y \in Nat : y <= works => y # x /\ y <= x
      /\ x \in Nat /\ x <= x
  BY <1>1
<1> HIDE DEF x
<1>6. GitOK'
  BY <1>1, <1>2 DEF WorkInv, GitOK
<1>7. Fresh'
  <2>1. \A q \in Name : \A y \in tree'[q].tracked \cup tree'[q].untracked : y <= x
    BY <1>1, <1>4, <1>5
  <2> QED
    BY <1>1, <1>2, <1>4, <1>5, <2>1 DEF Fresh
<1>8. x \notin owed /\ Uncommitted(x) /\ \A q \in Name : x \notin tree[q].tracked /\ x \notin tree[q].untracked
  BY <1>4, <1>5 DEF Uncommitted
<1>9. UntrackedOK'
  <2> SUFFICES ASSUME NEW q \in Name, NEW y \in tree'[q].untracked
               PROVE  /\ y \notin owed /\ Uncommitted(y)
                      /\ \A r \in Name : y \notin tree'[r].tracked /\ (r # q => y \notin tree'[r].untracked)
    BY <1>2 DEF UntrackedOK, Uncommitted
  <2>1. CASE y # x
    <3>1. y \in tree[q].untracked
      BY <1>1, <2>1
    <3> QED
      BY <1>1, <2>1, <3>1 DEF WorkInv, UntrackedOK
  <2>2. CASE y = x
    <3>1. q = p /\ tree'[p].tracked = tree[p].tracked
      BY <1>1, <1>8, <2>2
    <3> QED
      BY <1>1, <1>8, <2>2, <3>1
  <2> QED
    BY <2>1, <2>2
<1>10. ASSUME NEW y \in owed' PROVE Kept(y)'
  <2>1. Kept(y) /\ \A j \in Slot, b \in Name : Threatens(j, b)' => Threatens(j, b)
    BY <1>2, <1>3, CarriesThreats DEF WorkInv
  <2>2. \A q \in Name : tree[q].tracked \subseteq tree'[q].tracked
    BY <1>1
  <2> QED
    BY <1>2, <2>1, <2>2 DEF Kept
<1>11. ASSUME NEW j \in Slot, Own(j)' PROVE OwnOK(j)'
  <2>1. Own(j) /\ OwnOK(j) /\ op[j].saved.path \in Name
    BY <1>3, <1>11, OwnPlace DEF Carries, WorkInv
  <2>2. \A q \in Name : /\ tree'[q].here = tree[q].here /\ tree'[q].head = tree[q].head
                        /\ \A y \in tree'[q].tracked : y \in tree[q].tracked \/ y = x
    <3> TAKE q \in Name
    <3>1. tree[q].here \in BOOLEAN /\ tree'[q].here \in BOOLEAN
      BY TreeTyped, EditSays DEF PlacesInv, TreeRec
    <3> QED
      BY <1>1, <3>1
  <2>3. ASSUME NEW y \in tree'[op[j].saved.path].tracked, op[j].at # "commit", y \notin waived
        PROVE  y \notin owed /\ Lone(y, op[j].saved.path)'
    <3> DEFINE s == op[j].saved.path
    <3>1. CASE y = x
      <4>1. s = p \/ y \notin tree'[s].tracked
        BY <1>1, <1>8, <2>1, <3>1
      <4>2. \A q \in Name : q # p => x \notin tree'[q].tracked
        BY <1>1, <1>8
      <4> QED
        BY <1>2, <1>8, <2>3, <3>1, <4>1, <4>2 DEF Lone, Uncommitted
    <3>2. CASE y # x
      <4>1. y \in tree[s].tracked
        BY <2>1, <2>2, <2>3, <3>2
      <4>2. y \notin owed /\ Lone(y, s)
        BY <2>1, <2>3, <4>1 DEF OwnOK
      <4> QED
        BY <1>2, <2>2, <3>2, <4>2 DEF Lone, Uncommitted
    <3> QED
      BY <3>1, <3>2
  <2> QED
    BY <1>2, <2>1, <2>2, <2>3 DEF OwnOK
<1> QED
  BY <1>6, <1>7, <1>9, <1>10, <1>11 DEF WorkInv

(* What is alone in a worktree stays so while the work that gets into      *)
(* branches and into other worktrees comes from branches and from others.  *)
Elsewhere(y, s) ==
  \/ \E b \in Name : y \in branch[b].work
  \/ \E q \in Name : q # s /\ (y \in tree[q].tracked \/ y \in tree[q].untracked)

OnlyMoves(s) ==
  \A y \in tree[s].tracked :
    /\ \A b \in Name : y \in branch'[b].work => Elsewhere(y, s)
    /\ \A q \in Name : q # s /\ y \in tree'[q].tracked => Elsewhere(y, s)
    /\ y \in owed' => y \in owed \/ Elsewhere(y, s)

LEMMA OwnStep ==
  ASSUME WorkInv, NEW j \in Slot, Own(j), op'[j].saved = op[j].saved,
         op'[j].at # "commit" => op[j].at # "commit", waived \subseteq waived',
         NEW s \in Name, s = op[j].saved.path, OnlyMoves(s),
         tree'[s].here => tree[s].here /\ tree'[s].head = tree[s].head,
         \A q \in Name : tree'[q].here /\ tree'[q].head = op[j].saved.branch =>
           tree[q].here /\ tree[q].head = op[j].saved.branch,
         \A y \in tree'[s].tracked : y \in tree[s].tracked
  PROVE  OwnOK(j)'
<1>1. OwnOK(j) /\ UntrackedOK
  BY DEF WorkInv
<1>2. ASSUME NEW y \in tree[s].tracked, y \notin owed, Lone(y, s) PROVE y \notin owed' /\ Lone(y, s)'
  <2>1. ~Elsewhere(y, s)
    BY <1>1, <1>2 DEF Elsewhere, Lone, Uncommitted, UntrackedOK
  <2> QED
    BY <1>2, <2>1 DEF OnlyMoves, Lone, Uncommitted
<1>3. ASSUME NEW y \in tree'[s].tracked, op[j].at # "commit"
      PROVE  y \in waived' \/ (y \notin owed' /\ Lone(y, s)')
  BY <1>1, <1>2, <1>3 DEF OwnOK
<1> QED
  BY <1>1, <1>3 DEF OwnOK

LEMMA GitStays ==
  ASSUME GitOK,
         \A q \in Name : tree'[q].here => tree[q].here /\ tree'[q].head = tree[q].head,
         \A q \in Name : ~tree'[q].here => tree'[q].tracked = {} /\ tree'[q].untracked = {},
         \A q \in Name : tree'[q].here => branch'[tree[q].head].here,
         \A b \in Name : ~branch'[b].here => branch'[b].work = {}
  PROVE  GitOK'
BY DEF GitOK

LEMMA CommitKeepsWork ==
  ASSUME PlacesInv, WorkInv, NEW p \in Name, Trees!Commit(p)
  PROVE  WorkInv'
<1> DEFINE h == tree[p].head
<1>0. tree[p].here /\ h \in Name /\ branch[h].here /\ UntrackedOK
  BY DEF WorkInv, GitOK, Trees!Commit
<1>1. /\ \A q \in Name : q # p => tree'[q] = tree[q]
      /\ tree'[p].here /\ tree'[p].head = h
      /\ tree'[p].tracked = {} /\ tree'[p].untracked = {}
      /\ \A b \in Name : b # h => branch'[b] = branch[b]
      /\ branch'[h].here = branch[h].here
      /\ branch'[h].work = (branch[h].work \cup tree[p].tracked) \cup tree[p].untracked
  BY Zenon, <1>0, CommitSays DEF PlacesInv
<1>2. UNCHANGED <<op, owed, waived, doubtful, sure, works>>
  BY DEF Trees!Commit, Trees!history, Trees!bounds
<1> HIDE DEF h
<1>3. \A j \in Slot : Carries(j)
  BY <1>2, OthersCarry
<1>4. h = tree[p].head
  BY DEF h
<1>5. GitOK
  BY DEF WorkInv
<1>6. GitOK'
  <2>1. \A q \in Name : /\ tree'[q].here => tree[q].here /\ tree'[q].head = tree[q].head
                        /\ ~tree'[q].here => tree'[q].tracked = {} /\ tree'[q].untracked = {}
    BY <1>0, <1>1, <1>4, <1>5 DEF GitOK
  <2>2. \A b \in Name : /\ branch[b].here => branch'[b].here
                        /\ ~branch'[b].here => branch'[b].work = {}
    BY ZenonT(30), <1>0, <1>1, <1>5 DEF GitOK
  <2>3. \A q \in Name : tree'[q].here => branch'[tree[q].head].here
    BY <1>5, <2>1, <2>2 DEF GitOK
  <2> QED
    BY <1>5, <2>1, <2>2, <2>3, GitStays
<1>7. Fresh'
  BY <1>0, <1>1, <1>2 DEF WorkInv, Fresh
<1>9. UntrackedOK'
  <2> SUFFICES ASSUME NEW q \in Name, NEW y \in tree'[q].untracked
               PROVE  /\ y \notin owed /\ (\A b \in Name : y \notin branch'[b].work)
                      /\ \A r \in Name : y \notin tree'[r].tracked /\ (r # q => y \notin tree'[r].untracked)
    BY <1>2 DEF UntrackedOK, Uncommitted
  <2>1. q # p /\ y \in tree[q].untracked
    BY <1>1
  <2>2. /\ y \notin owed /\ (\A b \in Name : y \notin branch[b].work)
        /\ \A r \in Name : y \notin tree[r].tracked /\ (r # q => y \notin tree[r].untracked)
    BY <1>0, <2>1 DEF UntrackedOK, Uncommitted
  <2> QED
    BY <1>1, <2>1, <2>2
<1>10. ASSUME NEW x \in owed' PROVE Kept(x)'
  <2>1. Kept(x) /\ x \in owed /\ \A j \in Slot, b \in Name : Threatens(j, b)' => Threatens(j, b)
    BY <1>2, <1>3, <1>10, CarriesThreats DEF WorkInv
  <2>2. \A b \in Name : branch[b].work \subseteq branch'[b].work
    BY <1>1
  <2>3. CASE x \in tree[p].tracked /\ x \notin waived
    <3>1. x \in branch'[h].work
      BY <1>1, <2>3
    <3>2. ASSUME NEW j \in Slot, Threatens(j, h) PROVE FALSE
      <4>1. Own(j) /\ p = op[j].saved.path /\ op[j].at # "commit"
        BY <1>0, <1>4, <3>2, ThreatSays DEF Threatens, Removal
      <4>2. OwnOK(j)
        BY <4>1 DEF WorkInv
      <4> QED
        BY <2>1, <2>3, <4>1, <4>2 DEF OwnOK
    <3> QED
      BY <1>0, <2>1, <3>1, <3>2 DEF Kept
  <2>4. CASE ~(x \in tree[p].tracked /\ x \notin waived)
    BY <1>1, <1>2, <2>1, <2>2, <2>4 DEF Kept
  <2> QED
    BY <2>3, <2>4
<1>11. ASSUME NEW j \in Slot, Own(j)' PROVE OwnOK(j)'
  <2> DEFINE s == op[j].saved.path
  <2>1. Own(j) /\ s \in Name
    BY <1>3, <1>11, OwnPlace DEF Carries
  <2>2. OnlyMoves(s) \/ s = p
    BY <1>0, <1>1, <1>2 DEF OnlyMoves, Elsewhere
  <2>3. s = p => OnlyMoves(s) \/ tree'[s].tracked = {}
    BY <1>1
  <2> HIDE DEF s
  <2>4. CASE s # p
    BY <1>0, <1>1, <1>2, <1>4, <2>1, <2>2, <2>4, OwnStep DEF s
  <2>5. CASE s = p
    <3>1. OwnOK(j)
      BY <2>1 DEF WorkInv
    <3> QED
      BY <1>0, <1>1, <1>2, <1>4, <2>5, <3>1 DEF OwnOK, s
  <2> QED
    BY <2>4, <2>5
<1> QED
  BY <1>6, <1>7, <1>9, <1>10, <1>11 DEF WorkInv

LEMMA SwitchKeepsWork ==
  ASSUME PlacesInv, WorkInv, NEW p \in Name, Trees!Switch(p)
  PROVE  WorkInv'
<1> DEFINE h == tree[p].head
<1>0. tree[p].here /\ h \in Name /\ UntrackedOK /\ GitOK
  BY DEF WorkInv, GitOK, Trees!Switch
<1>1. PICK b \in Name :
        /\ ~Trees!CheckedOut(b) /\ Trees!Disturbs({p}, {b})
        /\ \A q \in Name \ {p} : tree'[q] = tree[q]
        /\ tree'[p].here /\ tree'[p].head = b
        /\ tree'[p].tracked = tree[p].tracked /\ tree'[p].untracked = tree[p].untracked
        /\ \A c \in Name \ {b} : branch'[c] = branch[c]
        /\ branch'[b].here
        /\ branch'[b].work = IF branch[b].here THEN branch[b].work ELSE branch[h].work
  BY ZenonT(30), <1>0, SwitchSays DEF PlacesInv
<1>2. UNCHANGED <<op, owed, waived, doubtful, works>>
  BY DEF Trees!Switch
<1> HIDE DEF h
<1>3. /\ \A q \in Name : tree'[q].here => tree[q].here
      /\ \A q \in Name : tree'[q].tracked = tree[q].tracked /\ tree'[q].untracked = tree[q].untracked
      /\ \A q \in Name : q # p => tree'[q] = tree[q]
  BY <1>0, <1>1
<1>4. /\ \A c \in Name : branch[c].work \subseteq branch'[c].work /\ (branch[c].here => branch'[c].here)
      /\ \A c \in Name : \A y : y \in branch'[c].work => y \in branch[c].work \/ y \in branch[h].work
      /\ \A c \in Name : ~branch'[c].here => ~branch[c].here /\ branch'[c].work = branch[c].work
  BY <1>0, <1>1 DEF GitOK
<1>5. sure' \subseteq sure /\ \A j \in sure' : op[j].saved.path # p /\ op[j].saved.branch # b
  BY <1>1 DEF Trees!Disturbs
<1>6. GitOK'
  <2>1. \A q \in Name : tree[q].here => tree[q].head # b
    BY <1>1 DEF Trees!CheckedOut
  <2>2. \A q \in Name : /\ tree'[q].here => tree'[q].head \in Name /\ branch'[tree'[q].head].here
                        /\ ~tree'[q].here => tree'[q].tracked = {} /\ tree'[q].untracked = {}
    <3> TAKE q \in Name
    <3> QED
      BY <1>0, <1>1, <1>3, <1>4 DEF GitOK
  <2>3. \A q, r \in Name : tree'[q].here /\ tree'[r].here /\ tree'[q].head = tree'[r].head => q = r
    <3> TAKE q, r \in Name
    <3> QED
      BY <1>0, <1>1, <1>3, <2>1 DEF GitOK
  <2>4. \A c \in Name : ~branch'[c].here => branch'[c].work = {}
    BY <1>0, <1>4 DEF GitOK
  <2> QED
    BY <2>2, <2>3, <2>4 DEF GitOK
<1>7. Fresh'
  <2>1. \A c \in Name : \A y \in branch'[c].work : y <= works
    BY <1>0, <1>4 DEF WorkInv, Fresh, h
  <2> QED
    BY <1>2, <1>3, <2>1 DEF WorkInv, Fresh
<1>8. UntrackedOK'
  <2>1. \A y : Uncommitted(y) => Uncommitted(y)'
    BY <1>0, <1>4 DEF Uncommitted
  <2> QED
    BY <1>0, <1>2, <1>3, <2>1 DEF UntrackedOK
<1>9. \A j \in Slot : Carries(j)
  BY <1>2, <1>5, OthersCarry
<1>10. ASSUME NEW x \in owed' PROVE Kept(x)'
  <2>1. Kept(x) /\ \A j \in Slot, c \in Name : Threatens(j, c)' => Threatens(j, c)
    BY <1>2, <1>9, <1>10, CarriesThreats DEF WorkInv
  <2> QED
    BY <1>2, <1>3, <1>4, <2>1 DEF Kept
<1>11. ASSUME NEW j \in Slot, Own(j)' PROVE OwnOK(j)'
  <2> DEFINE s == op[j].saved.path
  <2>1. Own(j) /\ s \in Name /\ s # p /\ op[j].saved.branch # b
    BY <1>2, <1>5, <1>9, <1>11, OwnPlace DEF Carries, Own
  <2>2. OnlyMoves(s)
    BY <1>0, <1>2, <1>3, <1>4 DEF OnlyMoves, Elsewhere
  <2>3. \A q \in Name : tree'[q].here /\ tree'[q].head = op[j].saved.branch =>
           tree[q].here /\ tree[q].head = op[j].saved.branch
    BY <1>1, <1>3, <2>1
  <2>4. tree'[s] = tree[s]
    BY <1>3, <2>1
  <2> HIDE DEF s
  <2> QED
    BY <1>2, <2>1, <2>2, <2>3, <2>4, OwnStep DEF s
<1> QED
  BY <1>6, <1>7, <1>8, <1>10, <1>11 DEF WorkInv

LEMMA RenameKeepsWork ==
  ASSUME PlacesInv, WorkInv, NEW k \in Trees!Key, Trees!RenameBranch(k)
  PROVE  WorkInv'
<1>0. UntrackedOK /\ GitOK
  BY DEF WorkInv
<1>00. TreesTyped
  BY DEF PlacesInv
<1>1. PICK old, new \in Name :
         /\ branch[old].here /\ ~branch[new].here /\ Trees!Disturbs({}, {old, new})
         /\ tree' \in [Name -> TreeRec]
         /\ \A p \in Name : /\ tree'[p].here = tree[p].here
                            /\ tree'[p].head = IF tree[p].here /\ tree[p].head = old THEN new ELSE tree[p].head
                            /\ tree'[p].tracked = tree[p].tracked /\ tree'[p].untracked = tree[p].untracked
                            /\ ~tree[p].here => tree'[p] = tree[p]
         /\ branch' \in [Name -> BranchRec]
         /\ \A c \in Name \ {old, new} : branch'[c] = branch[c]
         /\ branch'[new] = branch[old] /\ ~branch'[old].here /\ branch'[old].work = {}
  BY Zenon, <1>00, RenameSays
<1>2. UNCHANGED <<op, owed, waived, doubtful, works>>
  BY DEF Trees!RenameBranch
<1>3. /\ \A c \in Name : \A y : y \in branch'[c].work => \E d \in Name : y \in branch[d].work
      /\ \A c \in Name : c # old /\ c # new => branch'[c] = branch[c]
      /\ branch[new].work = {}
  BY <1>0, <1>1 DEF GitOK
<1>5. sure' \subseteq sure /\ \A j \in sure' : op[j].saved.branch # old /\ op[j].saved.branch # new
  BY <1>1 DEF Trees!Disturbs
<1>6. GitOK'
  <2>1. \A q \in Name : tree[q].here => tree[q].head \in Name /\ branch[tree[q].head].here /\ tree[q].head # new
    BY <1>0, <1>1 DEF GitOK
  <2>2. \A q \in Name : /\ tree'[q].here => tree'[q].head \in Name /\ branch'[tree'[q].head].here
                        /\ ~tree'[q].here => tree'[q].tracked = {} /\ tree'[q].untracked = {}
    <3> TAKE q \in Name
    <3>1. CASE tree[q].here /\ tree[q].head = old
      BY <1>1, <3>1
    <3>2. CASE tree[q].here /\ tree[q].head # old
      BY <1>1, <2>1, <3>2
    <3>3. CASE ~tree[q].here
      BY <1>0, <1>1, <3>3 DEF GitOK
    <3> QED
      BY <3>1, <3>2, <3>3
  <2>3. \A q, r \in Name : tree'[q].here /\ tree'[r].here /\ tree'[q].head = tree'[r].head => q = r
    <3> TAKE q, r \in Name
    <3> HAVE tree'[q].here /\ tree'[r].here /\ tree'[q].head = tree'[r].head
    <3>1. tree[q].here /\ tree[r].here /\ tree[q].head = tree[r].head
      BY <1>1, <2>1
    <3> QED
      BY <1>0, <3>1 DEF GitOK
  <2>4. \A c \in Name : ~branch'[c].here => branch'[c].work = {}
    BY <1>0, <1>1 DEF GitOK
  <2> QED
    BY <2>2, <2>3, <2>4 DEF GitOK
<1>7. Fresh'
  <2>1. \A c \in Name : \A y \in branch'[c].work : y <= works
    BY <1>3 DEF WorkInv, Fresh
  <2> QED
    BY <1>1, <1>2, <2>1 DEF WorkInv, Fresh
<1>8. UntrackedOK'
  <2>1. \A y : Uncommitted(y) => Uncommitted(y)'
    BY <1>3 DEF Uncommitted
  <2> QED
    BY <1>0, <1>1, <1>2, <2>1 DEF UntrackedOK
<1>9. \A j \in Slot : Carries(j)
  BY <1>2, <1>5, OthersCarry
<1>10. ASSUME NEW x \in owed' PROVE Kept(x)'
  <2>1. Kept(x) /\ \A j \in Slot, c \in Name : Threatens(j, c)' => Threatens(j, c)
    BY <1>2, <1>9, <1>10, CarriesThreats DEF WorkInv
  <2>2. \A j \in Slot : ~Threatens(j, new)'
    BY <1>2, <1>5 DEF Threatens, Own
  <2>3. ASSUME NEW c \in Name, x \in branch[c].work, \A j \in Slot : ~Threatens(j, c) PROVE Kept(x)'
    <3>1. CASE c = old
      <4>1. x \in branch'[new].work
        BY <1>1, <2>3, <3>1
      <4> QED
        BY <2>2, <4>1 DEF Kept
    <3>2. CASE c # old
      <4>1. x \in branch'[c].work
        BY <1>3, <2>3, <3>2
      <4> QED
        BY <2>1, <2>3, <4>1 DEF Kept
    <3> QED
      BY <3>1, <3>2
  <2> QED
    BY <1>1, <1>2, <2>1, <2>3 DEF Kept
<1>11. ASSUME NEW j \in Slot, Own(j)' PROVE OwnOK(j)'
  <2> DEFINE s == op[j].saved.path
             b == op[j].saved.branch
  <2>1. Own(j) /\ s \in Name /\ b # old /\ b # new /\ OwnOK(j)
    BY <1>2, <1>5, <1>9, <1>11, OwnPlace DEF Carries, Own, WorkInv
  <2>2. OnlyMoves(s)
    BY <1>1, <1>2, <1>3 DEF OnlyMoves, Elsewhere
  <2>3. \A q \in Name : tree'[q].here /\ tree'[q].head = b => tree[q].here /\ tree[q].head = b
    BY <1>1, <2>1
  <2>4. tree'[s].here => tree[s].here /\ tree'[s].head = tree[s].head
    BY <1>1, <2>1 DEF OwnOK
  <2>5. tree'[s].tracked = tree[s].tracked
    BY <1>1, <2>1
  <2> HIDE DEF s
  <2> QED
    BY <1>2, <2>1, <2>2, <2>3, <2>4, <2>5, OwnStep DEF s
<1> QED
  BY <1>6, <1>7, <1>8, <1>10, <1>11 DEF WorkInv

LEMMA ResolveKeepsWork ==
  ASSUME PlacesInv, WorkInv, NEW p \in Name, Trees!Resolve(p)
  PROVE  WorkInv'
<1>1. tree' = [tree EXCEPT ![p].stuck = FALSE] /\ UNCHANGED <<branch, op, owed, waived, doubtful, sure, works>>
  BY DEF Trees!Resolve, Trees!history, Trees!bounds
<1>2. SameWork
  BY <1>1, StuckSays DEF PlacesInv, SameWork
<1>3. \A j \in Slot : Carries(j)
  BY <1>1, OthersCarry
<1> QED
  BY <1>2, <1>3, QuietStep

LEMMA AddKeepsWork ==
  ASSUME PlacesInv, WorkInv, NEW i \in Slot, Trees!WorktreeAdd(i)
  PROVE  WorkInv'
<1> DEFINE n == op[i].base
           k == op[i].ws
           p == op[i].from
<1>0. UntrackedOK /\ GitOK /\ TreesTyped
  BY DEF WorkInv, PlacesInv
<1>00. UNCHANGED <<owed, waived, doubtful, works>> /\ op[i].kind \in Trees!Creating
  BY DEF Trees!WorktreeAdd, Trees!bounds, Trees!At
<1>01. n \in Name /\ k \in Trees!Key /\ p \in Trees!Key
  BY <1>00 DEF PlacesInv, OpOK, CreateOK
<1> HIDE DEF n, k, p
<1>02. /\ Trees!Ends(i)
       /\ UNCHANGED <<tree, branch, sure>> \/ Makes(i, n)
  BY <1>0, <1>01, AddSays DEF n, k, p
<1>03. CASE UNCHANGED <<tree, branch, sure>>
  BY <1>00, <1>02, <1>03, EndsQuietly DEF Settled
<1>04. CASE Makes(i, n)
  <2>1. /\ \A q \in Name \ {n} : tree'[q] = tree[q]
        /\ ~tree[n].here /\ tree'[n].here /\ tree'[n].head = n
        /\ tree'[n].tracked = {} /\ tree'[n].untracked = {}
        /\ \A c \in Name \ {n} : branch'[c] = branch[c]
        /\ branch'[n].here
    BY <1>04 DEF Makes
  <2>2. \A q \in Name : tree[q].here => tree[q].head # n
    BY <1>0, <1>04 DEF Makes, GitOK, Trees!CheckedOut
  <2>3. /\ \A c \in Name : branch[c].work \subseteq branch'[c].work /\ (branch[c].here => branch'[c].here)
        /\ \A c \in Name : \A y : y \in branch'[c].work => \E d \in Name : y \in branch[d].work
        /\ \A c \in Name : ~branch'[c].here => ~branch[c].here /\ branch'[c].work = branch[c].work
    BY <1>0, <1>01, <1>04 DEF GitOK, Makes
  <2>4. \A j \in Slot \ {i} : op'[j] = op[j]
    BY <1>0, <1>02, EndsSays
  <2>5. sure' \subseteq sure /\ \A j \in sure' : op[j].saved.path # n /\ op[j].saved.branch # n
    BY <1>04 DEF Makes, Trees!Disturbs
  <2>6. \A j \in Slot : Carries(j) /\ (Own(j)' => j # i)
    <3>1. op'[i].kind = "none"
      BY <1>0, <1>02, EndsSays
    <3> QED
      BY <1>00, <2>4, <2>5, <3>1, OthersCarry, NotOwnCarries DEF Own
  <2>7. GitOK'
    <3>1. \A q \in Name : /\ tree'[q].here => tree'[q].head \in Name /\ branch'[tree'[q].head].here
                          /\ ~tree'[q].here => tree'[q].tracked = {} /\ tree'[q].untracked = {}
      <4> TAKE q \in Name
      <4> QED
        BY <1>0, <1>01, <2>1, <2>3 DEF GitOK
    <3>2. \A q, r \in Name : tree'[q].here /\ tree'[r].here /\ tree'[q].head = tree'[r].head => q = r
      <4> TAKE q, r \in Name
      <4> QED
        BY <1>0, <2>1, <2>2 DEF GitOK
    <3>3. \A c \in Name : ~branch'[c].here => branch'[c].work = {}
      BY <1>0, <2>3 DEF GitOK
    <3> QED
      BY <3>1, <3>2, <3>3 DEF GitOK
  <2>8. \A q \in Name : /\ tree'[q].tracked \subseteq tree[q].tracked
                        /\ tree'[q].untracked \subseteq tree[q].untracked
                        /\ tree[q].tracked \subseteq tree'[q].tracked
    BY <1>0, <1>01, <2>1 DEF GitOK
  <2>9. Fresh'
    <3>1. \A c \in Name : \A y \in branch'[c].work : y <= works
      BY <2>3 DEF WorkInv, Fresh
    <3> QED
      BY <1>00, <2>8, <3>1 DEF WorkInv, Fresh
  <2>10. UntrackedOK'
    <3>1. \A y : Uncommitted(y) => Uncommitted(y)'
      BY <2>3 DEF Uncommitted
    <3> QED
      BY <1>0, <1>00, <2>8, <3>1 DEF UntrackedOK
  <2>11. ASSUME NEW x \in owed' PROVE Kept(x)'
    <3>1. Kept(x) /\ \A j \in Slot, c \in Name : Threatens(j, c)' => Threatens(j, c)
      BY <1>00, <2>6, <2>11, CarriesThreats DEF WorkInv
    <3> QED
      BY <1>00, <2>3, <2>8, <3>1 DEF Kept
  <2>12. ASSUME NEW j \in Slot, Own(j)' PROVE OwnOK(j)'
    <3> DEFINE s == op[j].saved.path
               b == op[j].saved.branch
    <3>1. Own(j) /\ op'[j] = op[j] /\ s \in Name /\ s # n /\ b # n
      BY <2>4, <2>5, <2>6, <2>12, OwnPlace DEF Carries, Own
    <3>2. OnlyMoves(s)
      BY <1>00, <2>3, <2>8 DEF OnlyMoves, Elsewhere
    <3>3. \A q \in Name : tree'[q].here /\ tree'[q].head = b => tree[q].here /\ tree[q].head = b
      BY <2>1, <3>1
    <3>4. tree'[s] = tree[s]
      BY <2>1, <3>1
    <3> HIDE DEF s
    <3> QED
      BY <1>00, <3>1, <3>2, <3>3, <3>4, OwnStep DEF s
  <2> QED
    BY <2>7, <2>9, <2>10, <2>11, <2>12 DEF WorkInv
<1> QED
  BY <1>02, <1>03, <1>04

LEMMA CheckOwnKeepsWork ==
  ASSUME PlacesInv, WorkInv, NEW i \in Slot, Trees!CheckOwn(i)
  PROVE  WorkInv'
<1> DEFINE p == op[i].saved.path
           b == op[i].saved.branch
           whole == tree[p].here /\ tree[p].head = b /\ p \notin doubtful
<1>0. UntrackedOK /\ GitOK /\ TreesTyped
  BY DEF WorkInv, PlacesInv
<1>1. op[i].kind \in Trees!Merging /\ op[i].at = "status" /\ UNCHANGED <<tree, branch, doubtful, works>>
  BY DEF Trees!CheckOwn, Trees!At, Trees!Merging, Trees!bounds
<1>2. p \in Name /\ p \in op[i].trees
  BY <1>1, MergeReads
<1>3. /\ sure' = IF whole THEN sure \cup {i} ELSE sure \ {i}
      /\ owed' = IF whole THEN (owed \cup branch[b].work) \cup tree[p].tracked ELSE owed
  BY DEF Trees!CheckOwn
<1>4. PICK at \in {"commit", "merge"} :
         /\ Trees!Goto(i, at) /\ waived \subseteq waived'
         /\ at = "merge" /\ tree[p].here => tree[p].tracked \subseteq waived'
  BY Zenon DEF Trees!CheckOwn, Trees!Dirty
<1>5. /\ op'[i].at = at /\ op'[i].saved = op[i].saved
      /\ \A j \in Slot \ {i} : op'[j] = op[j]
  BY Zenon, <1>0, <1>4, GotoSays DEF OpStages
<1> HIDE DEF p, b
<1>6. \A j \in Slot \ {i} : Carries(j)
  BY <1>1, <1>3, <1>5 DEF Carries, Own
<1>7. CASE ~whole
  <2>1. SameWork
    BY <1>1, <1>3, <1>4, <1>7 DEF SameWork
  <2>2. Carries(i)
    BY <1>3, <1>7 DEF Carries, Own
  <2> QED
    BY <1>6, <2>1, <2>2, QuietStep
<1>8. CASE whole
  <2>1. b \in Name /\ tree[p].here /\ tree[p].head = b
    BY <1>0, <1>2, <1>8 DEF GitOK
  <2>2. owed' = (owed \cup branch[b].work) \cup tree[p].tracked
    BY <1>3, <1>8
  <2>3. GitOK'
    BY <1>0, <1>1 DEF GitOK
  <2>4. Fresh'
    BY <1>1, <1>2, <2>1, <2>2 DEF WorkInv, Fresh
  <2>5. UntrackedOK'
    <3>1. \A y : Uncommitted(y) => Uncommitted(y)'
      BY <1>1 DEF Uncommitted
    <3>2. ASSUME NEW q \in Name, NEW y \in tree[q].untracked PROVE y \notin owed'
      BY <1>0, <1>2, <2>1, <2>2, <3>2 DEF UntrackedOK, Uncommitted
    <3> QED
      BY <1>0, <1>1, <3>1, <3>2 DEF UntrackedOK
  <2>6. ASSUME NEW x \in owed' PROVE Kept(x)'
    <3>1. \A j \in Slot, c \in Name : Threatens(j, c)' => j # i /\ Threatens(j, c)
      <4> TAKE j \in Slot, c \in Name
      <4> HAVE Threatens(j, c)'
      <4>1. j # i
        BY <1>5 DEF Threatens, Removal
      <4> QED
        BY <1>6, <4>1, CarriesThreats
    <3>2. \A j \in Slot, c \in Name : Threatens(j, c)' => c # b
      <4> TAKE j \in Slot, c \in Name
      <4> HAVE Threatens(j, c)'
      <4> SUFFICES ASSUME c = b PROVE FALSE
        OBVIOUS
      <4>1. j # i /\ Threatens(j, tree[p].head)
        BY <2>1, <3>1
      <4>2. Own(j) /\ p = op[j].saved.path
        BY <1>2, <2>1, <4>1, ThreatSays
      <4> QED
        BY <1>2, <4>1, <4>2, OwnAlone
    <3>3. CASE x \in owed
      <4>1. Kept(x)
        BY <3>3 DEF WorkInv
      <4> QED
        BY <1>1, <1>4, <3>1, <4>1 DEF Kept
    <3>4. CASE x \in branch[b].work
      BY <1>1, <2>1, <3>2, <3>4 DEF Kept
    <3>5. CASE x \in tree[p].tracked
      BY <1>1, <1>2, <3>5 DEF Kept
    <3> QED
      BY <2>2, <3>3, <3>4, <3>5
  <2>7. ASSUME NEW j \in Slot, Own(j)' PROVE OwnOK(j)'
    <3>1. CASE j = i
      <4>1. op'[i].saved.branch = b /\ op'[i].saved.path = p
        BY <1>5 DEF b, p
      <4>2. op'[i].at # "commit" => \A x \in tree[p].tracked : x \in waived'
        BY <1>4, <1>5, <2>1
      <4> QED
        BY <1>0, <1>1, <1>2, <2>1, <3>1, <4>1, <4>2 DEF OwnOK, GitOK
    <3>2. CASE j # i
      <4> DEFINE s == op[j].saved.path
      <4>1. Own(j) /\ op'[j] = op[j] /\ s \in Name
        BY <1>5, <1>6, <2>7, <3>2, OwnPlace DEF Carries
      <4>2. p # s
        BY <1>2, <3>2, <4>1, OwnAlone
      <4> HIDE DEF s
      <4>3. OnlyMoves(s)
        BY <1>1, <1>2, <2>1, <2>2, <4>2 DEF OnlyMoves, Elsewhere
      <4> QED
        BY <1>1, <1>4, <4>1, <4>3, OwnStep DEF s
    <3> QED
      BY <3>1, <3>2
  <2> QED
    BY <2>3, <2>4, <2>5, <2>6, <2>7 DEF WorkInv
<1> QED
  BY <1>7, <1>8

LEMMA CommitAllKeepsWork ==
  ASSUME PlacesInv, WorkInv, NEW i \in Slot, Trees!CommitAll(i)
  PROVE  WorkInv'
<1> DEFINE p == op[i].saved.path
           h == tree[p].head
<1>0. UntrackedOK /\ GitOK /\ TreesTyped
  BY DEF WorkInv, PlacesInv
<1>00. /\ op[i].kind = "mergeRemove" /\ op[i].kind \in Trees!Merging /\ op[i].at = "commit"
       /\ UNCHANGED <<owed, waived, doubtful, sure, works>>
  BY Zenon DEF Trees!CommitAll, Trees!At, Trees!Merging, Trees!history, Trees!bounds
<1>01. p \in Name /\ p \in op[i].trees
  BY <1>00, MergeReads
<1> HIDE DEF p
<1>02. \/ Trees!Ends(i) /\ UNCHANGED <<tree, branch>>
       \/ /\ Trees!Goto(i, "merge")
          /\ tree[p].here /\ h \in Name
          /\ \A q \in Name \ {p} : tree'[q] = tree[q]
          /\ tree'[p].here = tree[p].here /\ tree'[p].head = h
          /\ tree'[p].tracked = {} /\ tree'[p].untracked = tree[p].untracked
          /\ \A b \in Name \ {h} : branch'[b] = branch[b]
          /\ branch'[h].here = branch[h].here
          /\ branch'[h].work = branch[h].work \cup tree[p].tracked
  <2>1. TreesTyped /\ GitOK /\ p = op[i].saved.path
    BY <1>0 DEF p
  <2>2. \/ Trees!OperationError(i) /\ Trees!Ends(i) /\ UNCHANGED <<tree, branch>>
        \/ /\ Trees!Goto(i, "merge") /\ UNCHANGED entry
           /\ tree[p].here /\ tree[p].head \in Name
           /\ tree' \in [Name -> TreeRec] /\ \A q \in Name \ {p} : tree'[q] = tree[q]
           /\ tree'[p].here = tree[p].here /\ tree'[p].head = tree[p].head
           /\ tree'[p].tracked = {} /\ tree'[p].untracked = tree[p].untracked
           /\ branch' \in [Name -> BranchRec]
           /\ \A b \in Name \ {tree[p].head} : branch'[b] = branch[b]
           /\ branch'[tree[p].head].here = branch[tree[p].head].here
           /\ branch'[tree[p].head].work = branch[tree[p].head].work \cup tree[p].tracked
    BY SMTT(30), <1>01, <2>1, CommitAllSays
  <2> QED
    BY <2>2
<1>03. CASE Trees!Ends(i) /\ UNCHANGED <<tree, branch>>
  BY <1>00, <1>03, EndsQuietly DEF Settled
<1>04. CASE /\ Trees!Goto(i, "merge")
            /\ tree[p].here /\ h \in Name
            /\ \A q \in Name \ {p} : tree'[q] = tree[q]
            /\ tree'[p].here = tree[p].here /\ tree'[p].head = h
            /\ tree'[p].tracked = {} /\ tree'[p].untracked = tree[p].untracked
            /\ \A b \in Name \ {h} : branch'[b] = branch[b]
            /\ branch'[h].here = branch[h].here
            /\ branch'[h].work = branch[h].work \cup tree[p].tracked
  <2> HIDE DEF h
  <2>1. /\ op'[i].at = "merge" /\ op'[i].saved = op[i].saved /\ op'[i].kind = op[i].kind
        /\ \A j \in Slot \ {i} : op'[j] = op[j]
    BY Zenon, <1>0, <1>04, GotoSays DEF OpStages
  <2>2. \A j \in Slot \ {i} : Carries(j)
    BY <1>00, <2>1, OthersCarry
  <2>3. /\ \A q \in Name : /\ tree'[q].here = tree[q].here /\ tree'[q].head = tree[q].head
                           /\ tree'[q].untracked = tree[q].untracked
                           /\ tree'[q].tracked \subseteq tree[q].tracked
        /\ \A b \in Name : /\ branch'[b].here = branch[b].here /\ branch[b].work \subseteq branch'[b].work
                           /\ \A y \in branch'[b].work : y \in branch[b].work \/ y \in tree[p].tracked
    BY Zenon, <1>01, <1>04 DEF h
  <2>4. GitOK'
    <3>1. branch[h].here
      BY <1>0, <1>01, <1>04 DEF GitOK, h
    <3>2. \A b \in Name : ~branch'[b].here => branch'[b].work = {}
      BY <1>0, <1>04, <2>3, <3>1 DEF GitOK
    <3>3. \A q \in Name : ~tree'[q].here => tree'[q].tracked = {} /\ tree'[q].untracked = {}
      BY <1>0, <2>3 DEF GitOK
    <3>4. \A q \in Name : tree'[q].here => branch'[tree[q].head].here
      BY <1>0, <2>3 DEF GitOK
    <3> QED
      BY <1>0, <2>3, <3>2, <3>3, <3>4, GitStays
  <2>5. Fresh'
    <3>1. \A b \in Name : \A y \in branch'[b].work : y <= works
      BY <1>01, <2>3 DEF WorkInv, Fresh
    <3> QED
      BY <1>00, <2>3, <3>1 DEF WorkInv, Fresh
  <2>6. UntrackedOK'
    <3>1. ASSUME NEW q \in Name, NEW y \in tree[q].untracked PROVE Uncommitted(y)'
      <4>1. Uncommitted(y) /\ y \notin tree[p].tracked
        BY <1>0, <1>01, <3>1 DEF UntrackedOK
      <4> QED
        BY <2>3, <4>1 DEF Uncommitted
    <3>2. \A q, r \in Name : \A y \in tree[q].untracked : y \notin tree'[r].tracked
      BY <1>0, <2>3 DEF UntrackedOK
    <3> QED
      BY <1>0, <1>00, <2>3, <3>1, <3>2 DEF UntrackedOK
  <2>7. ASSUME NEW x \in owed' PROVE Kept(x)'
    <3>0. Kept(x)
      BY <1>00, <2>7 DEF WorkInv
    <3>1. \A j \in Slot, c \in Name : Threatens(j, c)' => j # i /\ Threatens(j, c)
      <4> TAKE j \in Slot, c \in Name
      <4> HAVE Threatens(j, c)'
      <4>1. j # i
        BY <2>1 DEF Threatens, Removal
      <4> QED
        BY <2>2, <4>1, CarriesThreats
    <3>2. \A j \in Slot, c \in Name : Threatens(j, c)' => c # h
      <4> TAKE j \in Slot, c \in Name
      <4> HAVE Threatens(j, c)'
      <4> SUFFICES ASSUME c = h PROVE FALSE
        OBVIOUS
      <4>1. j # i /\ Threatens(j, tree[p].head)
        BY <3>1 DEF h
      <4>2. Own(j) /\ p = op[j].saved.path
        BY <1>01, <1>04, <4>1, ThreatSays
      <4> QED
        BY <1>01, <4>1, <4>2, OwnAlone
    <3>3. CASE x \in tree[p].tracked
      BY <1>04, <3>2, <3>3 DEF Kept
    <3>4. CASE x \notin tree[p].tracked
      BY <1>00, <1>04, <2>3, <3>0, <3>1, <3>4 DEF Kept
    <3> QED
      BY <3>3, <3>4
  <2>8. ASSUME NEW j \in Slot, Own(j)' PROVE OwnOK(j)'
    <3>1. CASE j = i
      <4>1. Own(i)
        BY <1>00, <2>1, <2>8, <3>1 DEF Own
      <4>2. OwnOK(i) /\ op'[i].saved.path = p /\ op[i].saved.path = p
        BY <2>1, <4>1 DEF WorkInv, p
      <4>3. op'[i].saved.branch = op[i].saved.branch
        BY <2>1
      <4> QED
        BY <1>01, <1>04, <2>3, <3>1, <4>2, <4>3 DEF OwnOK
    <3>2. CASE j # i
      <4> DEFINE s == op[j].saved.path
      <4>1. Own(j) /\ op'[j] = op[j] /\ s \in Name
        BY <2>1, <2>2, <2>8, <3>2, OwnPlace DEF Carries
      <4>2. p # s
        BY <1>01, <3>2, <4>1, OwnAlone
      <4> HIDE DEF s
      <4>3. OnlyMoves(s)
        BY <1>00, <1>01, <2>3, <4>2 DEF OnlyMoves, Elsewhere
      <4> QED
        BY <1>00, <2>3, <4>1, <4>3, OwnStep DEF s
    <3> QED
      BY <3>1, <3>2
  <2> QED
    BY <2>4, <2>5, <2>6, <2>7, <2>8 DEF WorkInv
<1> QED
  BY <1>02, <1>03, <1>04

LEMMA MergeKeepsWork ==
  ASSUME PlacesInv, WorkInv, NEW i \in Slot, Trees!MergeBranch(i)
  PROVE  WorkInv'
<1> DEFINE p == op[i].base
           b == op[i].saved.branch
           h == tree[p].head
<1>0. UntrackedOK /\ GitOK /\ TreesTyped
  BY DEF WorkInv, PlacesInv
<1>00. op[i].kind \in Trees!Merging /\ op[i].at = "merge" /\ UNCHANGED <<owed, waived, doubtful, sure, works>>
  BY DEF Trees!MergeBranch, Trees!At, Trees!history, Trees!bounds
<1>01. p \in Name /\ p \in op[i].trees /\ (p = op[i].saved.path => p \in doubtful)
  BY <1>00, MergeReads DEF Subject
<1> HIDE DEF p, b
<1>02. \/ Trees!Ends(i) /\ UNCHANGED <<tree, branch>>
       \/ /\ Trees!AfterMerge(i)
          /\ tree[p].here /\ h \in Name /\ b \in Name
          /\ \A q \in Name \ {p} : tree'[q] = tree[q]
          /\ tree'[p].here = tree[p].here /\ tree'[p].head = h
          /\ tree'[p].untracked = tree[p].untracked
          /\ \A c \in Name \ {h} : branch'[c] = branch[c]
          /\ branch'[h].here = branch[h].here
          /\ \/ /\ tree'[p].tracked = tree[p].tracked \cup (branch[b].work \ branch[h].work)
                /\ branch' = branch
             \/ /\ branch'[h].work = branch[h].work \cup branch[b].work
                /\ tree' = tree
  <2>1. p = op[i].base /\ b = op[i].saved.branch
    BY DEF p, b
  <2>2. \/ Trees!OperationError(i) /\ Trees!Ends(i) /\ UNCHANGED <<tree, branch>>
        \/ /\ Trees!AfterMerge(i) /\ UNCHANGED entry
           /\ tree[p].here /\ tree[p].head \in Name /\ b \in Name /\ branch[b].here
           /\ tree' \in [Name -> TreeRec] /\ \A q \in Name \ {p} : tree'[q] = tree[q]
           /\ tree'[p].here = tree[p].here /\ tree'[p].head = tree[p].head
           /\ tree'[p].untracked = tree[p].untracked
           /\ branch' \in [Name -> BranchRec]
           /\ \A c \in Name \ {tree[p].head} : branch'[c] = branch[c]
           /\ branch'[tree[p].head].here = branch[tree[p].head].here
           /\ \/ /\ tree'[p].tracked = tree[p].tracked \cup (branch[b].work \ branch[tree[p].head].work)
                 /\ branch' = branch
              \/ /\ branch'[tree[p].head].work = branch[tree[p].head].work \cup branch[b].work
                 /\ tree' = tree
    BY SMTT(30), <1>0, <1>01, <2>1, MergeSays
  <2> QED
    BY <2>2
<1>03. CASE Trees!Ends(i) /\ UNCHANGED <<tree, branch>>
  BY <1>00, <1>03, EndsQuietly DEF Settled
<1>04. CASE /\ Trees!AfterMerge(i)
            /\ tree[p].here /\ h \in Name /\ b \in Name
            /\ \A q \in Name \ {p} : tree'[q] = tree[q]
            /\ tree'[p].here = tree[p].here /\ tree'[p].head = h
            /\ tree'[p].untracked = tree[p].untracked
            /\ \A c \in Name \ {h} : branch'[c] = branch[c]
            /\ branch'[h].here = branch[h].here
            /\ \/ /\ tree'[p].tracked = tree[p].tracked \cup (branch[b].work \ branch[h].work)
                  /\ branch' = branch
               \/ /\ branch'[h].work = branch[h].work \cup branch[b].work
                  /\ tree' = tree
  <2>h. h = tree[p].head
    OBVIOUS
  <2> HIDE DEF h
  <2>1. /\ op'[i].at \in {"enter", "keep"} /\ op'[i].saved = op[i].saved /\ op'[i].kind = op[i].kind
        /\ \A j \in Slot \ {i} : op'[j] = op[j]
    <3>1. CASE op[i].kind = "mergeRemove"
      BY <1>0, <1>04, <3>1, EnterSays DEF Trees!AfterMerge
    <3>2. CASE op[i].kind # "mergeRemove"
      <4>1. Trees!Goto(i, "keep")
        BY <1>04, <3>2 DEF Trees!AfterMerge
      <4> QED
        BY Zenon, <1>0, <4>1, GotoSays DEF OpStages
    <3> QED
      BY <3>1, <3>2
  <2>2. \A j \in Slot : Own(j)' => Own(j) /\ op'[j].saved = op[j].saved /\ op[j].saved.path # p
    <3> TAKE j \in Slot
    <3> HAVE Own(j)'
    <3>1. Own(j) /\ op'[j].saved = op[j].saved
      BY <1>00, <2>1 DEF Own
    <3>2. j = i => op[j].saved.path # p
      BY <1>01, <3>1 DEF Own
    <3>3. j # i => op[j].saved.path # p
      BY <1>01, <3>1, OwnAlone
    <3> QED
      BY <3>1, <3>2, <3>3
  <2>3. /\ \A q \in Name : /\ tree'[q].here = tree[q].here /\ tree'[q].head = tree[q].head
                           /\ tree'[q].untracked = tree[q].untracked
                           /\ tree[q].tracked \subseteq tree'[q].tracked
                           /\ \A y \in tree'[q].tracked : y \in tree[q].tracked \/ (q = p /\ y \in branch[b].work)
        /\ \A c \in Name : /\ branch'[c].here = branch[c].here /\ branch[c].work \subseteq branch'[c].work
                           /\ \A y \in branch'[c].work : y \in branch[c].work \/ y \in branch[b].work
    BY Zenon, <1>01, <1>04, <2>h
  <2>4. GitOK'
    <3>1. branch[h].here
      BY <1>0, <1>01, <1>04, <2>h DEF GitOK
    <3>2. \A c \in Name : ~branch'[c].here => branch'[c].work = {}
      BY <1>0, <1>04, <2>3, <3>1 DEF GitOK
    <3>3. \A q \in Name : ~tree'[q].here => tree'[q].tracked = {} /\ tree'[q].untracked = {}
      BY <1>0, <1>04, <2>3 DEF GitOK
    <3>4. \A q \in Name : tree'[q].here => branch'[tree[q].head].here
      BY <1>0, <2>3 DEF GitOK
    <3> QED
      BY <1>0, <2>3, <3>2, <3>3, <3>4, GitStays
  <2>5. Fresh'
    <3>1. \A c \in Name : \A y \in branch'[c].work : y <= works
      BY <1>04, <2>3 DEF WorkInv, Fresh
    <3>2. \A q \in Name : \A y \in tree'[q].tracked : y <= works
      BY <1>04, <2>3 DEF WorkInv, Fresh
    <3> QED
      BY <1>00, <2>3, <3>1, <3>2 DEF WorkInv, Fresh
  <2>6. UntrackedOK'
    <3>1. \A y : Uncommitted(y) => Uncommitted(y)'
      BY <1>04, <2>3 DEF Uncommitted
    <3>2. \A q, r \in Name : \A y \in tree[q].untracked : y \notin tree'[r].tracked
      BY <1>0, <1>04, <2>3 DEF UntrackedOK, Uncommitted
    <3> QED
      BY <1>0, <1>00, <2>3, <3>1, <3>2 DEF UntrackedOK
  <2>7. ASSUME NEW x \in owed' PROVE Kept(x)'
    <3>0. Kept(x)
      BY <1>00, <2>7 DEF WorkInv
    <3>1. \A j \in Slot, c \in Name : Threatens(j, c)' => c # h
      <4> TAKE j \in Slot, c \in Name
      <4> HAVE Threatens(j, c)'
      <4>1. Own(j) /\ op[j].saved.branch = c /\ op[j].saved.path # p /\ OwnOK(j)
        BY <2>2 DEF Threatens, WorkInv
      <4> QED
        BY <1>01, <1>04, <2>h, <4>1 DEF OwnOK
    <3>2. \A j \in Slot, c \in Name : Threatens(j, c)' => Threatens(j, c) \/ c = b
      <4> TAKE j \in Slot, c \in Name
      <4>1. j = i => b = op'[j].saved.branch
        BY <2>1 DEF b
      <4> QED
        BY <2>1, <2>2, <4>1 DEF Threatens
    <3>3. CASE x \in branch[b].work
      <4>1. CASE x \in branch'[h].work
        BY <1>04, <3>1, <4>1 DEF Kept
      <4>2. CASE x \in tree'[p].tracked
        BY <1>01, <4>2 DEF Kept
      <4> QED
        BY <1>04, <3>3, <4>1, <4>2
    <3>4. CASE x \notin branch[b].work
      BY <1>00, <1>04, <2>3, <3>0, <3>2, <3>4 DEF Kept
    <3> QED
      BY <3>3, <3>4
  <2>8. ASSUME NEW j \in Slot, Own(j)' PROVE OwnOK(j)'
    <3> DEFINE s == op[j].saved.path
    <3>1. Own(j) /\ op'[j].saved = op[j].saved /\ s \in Name /\ s # p
      BY <2>2, <2>8, OwnPlace
    <3>2. op'[j].at # "commit" => op[j].at # "commit"
      BY <1>00, <2>1
    <3> HIDE DEF s
    <3>3. OnlyMoves(s)
      BY <1>00, <1>04, <2>3 DEF OnlyMoves, Elsewhere
    <3>4. tree'[s] = tree[s]
      BY <1>04, <3>1
    <3> QED
      BY <1>00, <2>3, <3>1, <3>2, <3>3, <3>4, OwnStep DEF s
  <2> QED
    BY <2>4, <2>5, <2>6, <2>7, <2>8 DEF WorkInv
<1> QED
  BY <1>02, <1>03, <1>04

LEMMA MergeStopsKeepsWork ==
  ASSUME PlacesInv, WorkInv, NEW i \in Slot, Trees!MergeStops(i)
  PROVE  WorkInv'
<1> DEFINE p == op[i].base
<1>0. /\ op[i].kind \in Trees!Merging /\ op[i].at = "merge" /\ Trees!Ends(i)
      /\ UNCHANGED <<branch, owed, waived, doubtful, sure, works>>
      /\ tree' = IF tree[p].here THEN [tree EXCEPT ![p].stuck = TRUE] ELSE tree
  BY DEF Trees!MergeStops, Trees!At, Trees!history, Trees!bounds
<1>1. p \in Name
  BY <1>0, MergeReads
<1> HIDE DEF p
<1>2. SameWork
  <2>1. CASE tree[p].here
    BY <1>0, <1>1, <2>1, StuckSays DEF PlacesInv, SameWork
  <2>2. CASE ~tree[p].here
    BY <1>0, <2>2 DEF SameWork
  <2> QED
    BY <2>1, <2>2
<1>3. op'[i].kind = "none" /\ \A j \in Slot \ {i} : op'[j] = op[j]
  BY <1>0, EndsSays DEF PlacesInv
<1>4. \A j \in Slot : Carries(j)
  BY <1>0, <1>3, OthersCarry, NotOwnCarries
<1> QED
  BY <1>2, <1>4, QuietStep

LEMMA TreeKeepsWork ==
  ASSUME PlacesInv, WorkInv, NEW i \in Slot, Trees!RemoveTree(i)
  PROVE  WorkInv'
<1> DEFINE p == Trees!Top(i).data.path
<1>0. UntrackedOK /\ GitOK /\ TreesTyped
  BY DEF WorkInv, PlacesInv
<1>00. op[i].at = "tree" /\ op[i].at \in Removal /\ UNCHANGED <<branch, owed, doubtful, sure, works>>
  BY DEF Trees!RemoveTree, Trees!AtTop, Removal, Trees!bounds
<1>01. p \in op[i].trees /\ p \in Name
  BY <1>00 DEF PlacesInv, TreesTyped, OpRec, OpOK, FramesOK, FrameOK, Trees!Top
<1>1. PICK at \in {"branch", "drop"} :
        /\ Trees!Goto(i, at)
        /\ \/ UNCHANGED <<tree, waived>>
           \/ Loses(p) /\ tree[p].here /\ Trees!GivesUp(i, p = op[i].saved.path, tree[p].tracked \cup tree[p].untracked)
  BY DEF Trees!RemoveTree, Loses
<1> HIDE DEF p
<1>2. CASE UNCHANGED <<tree, waived>>
  <2>1. Settled /\ at \in OpStages /\ at \in Removal
    BY <1>00, <1>2 DEF Settled, OpStages, Removal
  <2> QED
    BY <1>00, <1>1, <2>1, GoesQuietly
<1>3. CASE Loses(p) /\ tree[p].here /\ Trees!GivesUp(i, p = op[i].saved.path, tree[p].tracked \cup tree[p].untracked)
  <2>1. /\ \A q \in Name \ {p} : tree'[q] = tree[q]
        /\ ~tree'[p].here /\ tree'[p].tracked = {} /\ tree'[p].untracked = {}
    BY <1>0, <1>01, <1>3, LosesSays DEF Trees!NoTree
  <2>2. waived \subseteq waived' /\ \A x \in tree[p].tracked : x \in owed => x \in waived'
    <3>1. CASE op[i].kind = "mergeRemove" /\ p = op[i].saved.path /\ i \in sure /\ op[i].saved.path \notin doubtful
      <4>1. Own(i) /\ op[i].at # "commit"
        BY <1>00, <3>1 DEF Own
      <4>2. OwnOK(i)
        BY <4>1 DEF WorkInv
      <4> QED
        BY <1>3, <3>1, <4>1, <4>2 DEF Trees!GivesUp, OwnOK
    <3>2. CASE ~(op[i].kind = "mergeRemove" /\ p = op[i].saved.path /\ i \in sure /\ op[i].saved.path \notin doubtful)
      BY <1>3, <3>2 DEF Trees!GivesUp
    <3> QED
      BY <3>1, <3>2
  <2>3. /\ op'[i].at = at /\ op'[i].saved = op[i].saved /\ op'[i].kind = op[i].kind
        /\ \A j \in Slot \ {i} : op'[j] = op[j]
    BY Zenon, <1>0, <1>1, GotoSays DEF OpStages
  <2>4. \A j \in Slot : Carries(j)
    <3>1. Carries(i)
      BY <1>00, <2>3, RemovalCarries DEF Removal
    <3> QED
      BY <1>00, <2>3, <3>1, OthersCarry
  <2>5. \A q \in Name : /\ tree'[q].here => tree[q].here /\ tree'[q].head = tree[q].head
                        /\ tree'[q].tracked \subseteq tree[q].tracked
                        /\ tree'[q].untracked \subseteq tree[q].untracked
    BY <1>01, <2>1
  <2>6. GitOK'
    <3>1. \A q \in Name : ~tree'[q].here => tree'[q].tracked = {} /\ tree'[q].untracked = {}
      BY <1>0, <2>1 DEF GitOK
    <3>2. \A q \in Name : tree'[q].here => branch'[tree[q].head].here
      BY <1>0, <1>00, <2>5 DEF GitOK
    <3>3. \A c \in Name : ~branch'[c].here => branch'[c].work = {}
      BY <1>0, <1>00 DEF GitOK
    <3> QED
      BY <1>0, <2>5, <3>1, <3>2, <3>3, GitStays
  <2>7. Fresh'
    BY <1>00, <2>5 DEF WorkInv, Fresh
  <2>8. UntrackedOK'
    BY <1>0, <1>00, <2>5 DEF UntrackedOK, Uncommitted
  <2>9. ASSUME NEW x \in owed' PROVE Kept(x)'
    <3>1. Kept(x) /\ \A j \in Slot, c \in Name : Threatens(j, c)' => Threatens(j, c)
      BY <1>00, <2>4, <2>9, CarriesThreats DEF WorkInv
    <3> QED
      BY <1>00, <2>1, <2>2, <2>9, <3>1 DEF Kept
  <2>10. ASSUME NEW j \in Slot, Own(j)' PROVE OwnOK(j)'
    <3> DEFINE s == op[j].saved.path
    <3>1. /\ Own(j) /\ op'[j].saved = op[j].saved /\ s \in Name
          /\ op'[j].at # "commit" => op[j].at # "commit"
      BY <2>4, <2>10, OwnPlace DEF Carries
    <3> HIDE DEF s
    <3>2. OnlyMoves(s)
      BY <1>00, <2>5 DEF OnlyMoves, Elsewhere
    <3> QED
      BY <2>2, <2>5, <3>1, <3>2, OwnStep DEF s
  <2> QED
    BY <2>6, <2>7, <2>8, <2>9, <2>10 DEF WorkInv
<1> QED
  BY <1>1, <1>2, <1>3

LEMMA BranchKeepsWork ==
  ASSUME PlacesInv, WorkInv, NEW i \in Slot, Trees!DeleteBranch(i)
  PROVE  WorkInv'
<1> DEFINE b == Trees!Top(i).head
<1>0. UntrackedOK /\ GitOK /\ TreesTyped
  BY DEF WorkInv, PlacesInv
<1>00. /\ op[i].at = "branch" /\ op[i].at \in Removal /\ Trees!Goto(i, "drop")
       /\ UNCHANGED <<tree, owed, doubtful, sure, works>>
  BY DEF Trees!DeleteBranch, Trees!AtTop, Removal, Trees!bounds
<1>01. b \in Name
  BY <1>00 DEF PlacesInv, OpOK, FramesOK, Trees!Top
<1>1. \/ UNCHANGED <<branch, waived>>
      \/ /\ branch' = [branch EXCEPT ![b] = [here |-> FALSE, work |-> {}]] /\ ~Trees!CheckedOut(b)
         /\ Trees!GivesUp(i, b = op[i].saved.branch, branch[b].work)
  BY DEF Trees!DeleteBranch
<1> HIDE DEF b
<1>2. CASE UNCHANGED <<branch, waived>>
  <2>1. Settled /\ "drop" \in OpStages /\ "drop" \in Removal
    BY <1>00, <1>2 DEF Settled, OpStages, Removal
  <2> QED
    BY <1>00, <2>1, GoesQuietly
<1>3. CASE /\ branch' = [branch EXCEPT ![b] = [here |-> FALSE, work |-> {}]] /\ ~Trees!CheckedOut(b)
           /\ Trees!GivesUp(i, b = op[i].saved.branch, branch[b].work)
  <2>1. /\ \A c \in Name \ {b} : branch'[c] = branch[c]
        /\ ~branch'[b].here /\ branch'[b].work = {}
    BY <1>0, <1>01, <1>3 DEF TreesTyped
  <2>2. /\ waived \subseteq waived'
        /\ Threatens(i, b) \/ branch[b].work \subseteq waived'
    <3>1. CASE op[i].kind = "mergeRemove" /\ b = op[i].saved.branch /\ i \in sure /\ op[i].saved.path \notin doubtful
      BY <1>00, <1>3, <3>1 DEF Trees!GivesUp, Threatens, Own
    <3>2. CASE ~(op[i].kind = "mergeRemove" /\ b = op[i].saved.branch /\ i \in sure /\ op[i].saved.path \notin doubtful)
      BY <1>3, <3>2 DEF Trees!GivesUp
    <3> QED
      BY <3>1, <3>2
  <2>3. /\ op'[i].at = "drop" /\ op'[i].saved = op[i].saved /\ op'[i].kind = op[i].kind
        /\ \A j \in Slot \ {i} : op'[j] = op[j]
    BY Zenon, <1>0, <1>00, GotoSays DEF OpStages
  <2>4. \A j \in Slot : Carries(j)
    <3>1. Carries(i)
      BY <1>00, <2>3, RemovalCarries DEF Removal
    <3> QED
      BY <1>00, <2>3, <3>1, OthersCarry
  <2>5. \A c \in Name : branch'[c].work \subseteq branch[c].work
    BY <1>01, <2>1
  <2>6. GitOK'
    <3>1. \A q \in Name : tree[q].here => branch'[tree[q].head].here
      BY <1>0, <1>3, <2>1 DEF GitOK, Trees!CheckedOut
    <3>2. \A c \in Name : ~branch'[c].here => branch'[c].work = {}
      BY <1>0, <2>1 DEF GitOK
    <3> QED
      BY <1>0, <1>00, <3>1, <3>2 DEF GitOK
  <2>7. Fresh'
    BY <1>00, <2>5 DEF WorkInv, Fresh
  <2>8. UntrackedOK'
    BY <1>0, <1>00, <2>5 DEF UntrackedOK, Uncommitted
  <2>9. ASSUME NEW x \in owed' PROVE Kept(x)'
    <3>1. Kept(x) /\ \A j \in Slot, c \in Name : Threatens(j, c)' => Threatens(j, c)
      BY <1>00, <2>4, <2>9, CarriesThreats DEF WorkInv
    <3> QED
      BY <1>00, <2>1, <2>2, <2>9, <3>1 DEF Kept
  <2>10. ASSUME NEW j \in Slot, Own(j)' PROVE OwnOK(j)'
    <3> DEFINE s == op[j].saved.path
    <3>1. /\ Own(j) /\ op'[j].saved = op[j].saved /\ s \in Name
          /\ op'[j].at # "commit" => op[j].at # "commit"
      BY <2>4, <2>10, OwnPlace DEF Carries
    <3> HIDE DEF s
    <3>2. OnlyMoves(s)
      BY <1>00, <2>5 DEF OnlyMoves, Elsewhere
    <3> QED
      BY <1>00, <2>2, <3>1, <3>2, OwnStep DEF s
  <2> QED
    BY <2>6, <2>7, <2>8, <2>9, <2>10 DEF WorkInv
<1> QED
  BY <1>1, <1>2, <1>3

-----------------------------------------------------------------------------
TreesInv == PlacesInv /\ WorkInv

LEMMA InitialTrees ==
  ASSUME Trees!Init
  PROVE  TreesInv
<1>1. PICK n \in {2, 3}, open \in {2, 3} :
        /\ tree = [p \in Name |-> IF p <= n THEN Trees!TreeOf(p) ELSE Trees!NoTree]
        /\ branch = [b \in Name |-> [here |-> b <= n, work |-> {}]]
        /\ entry = [k \in Trees!Key |-> IF k <= n /\ k <= open THEN Trees!Child(k, k - 1) ELSE Trees!NoEntry]
  BY Zenon DEF Trees!Init
<1>2. /\ op = [i \in Slot |-> Trees!NoOp]
      /\ owed = {} /\ waived = {} /\ doubtful = {} /\ sure = {} /\ works = 0
  BY DEF Trees!Init
<1>3. \A p \in Name : /\ Trees!TreeOf(p) \in TreeRec /\ Trees!TreeOf(p).here /\ Trees!TreeOf(p).head = p
                      /\ Trees!TreeOf(p).tracked = {} /\ Trees!TreeOf(p).untracked = {}
  BY TreeOfSays DEF Name0
<1>4. \A p \in Name : /\ tree[p] \in TreeRec /\ (tree[p].here <=> p <= n) /\ (p <= n => tree[p].head = p)
                      /\ tree[p].tracked = {} /\ tree[p].untracked = {}
  <2> TAKE p \in Name
  <2>1. (p <= n) \in BOOLEAN
    BY <1>1, TreeNumbers
  <2>2. Trees!NoTree \in TreeRec /\ ~Trees!NoTree.here /\ Trees!NoTree.tracked = {} /\ Trees!NoTree.untracked = {}
    BY NoRecords DEF Trees!NoTree
  <2>3. CASE p <= n
    BY <1>1, <1>3, <2>3
  <2>4. CASE ~(p <= n)
    BY <1>1, <2>2, <2>4
  <2> QED
    BY <2>3, <2>4
<1>5. \A b \in Name : branch[b] \in BranchRec /\ (branch[b].here <=> b <= n) /\ branch[b].work = {}
  <2> TAKE b \in Name
  <2>1. branch[b] = [here |-> b <= n, work |-> {}]
    BY <1>1
  <2>2. ASSUME NEW t \in BOOLEAN PROVE /\ [here |-> t, work |-> {}] \in BranchRec
                                       /\ [here |-> t, work |-> {}].here = t
    BY DEF BranchRec
  <2> DEFINE t == b <= n
  <2>3. t \in BOOLEAN
    BY <1>1, TreeNumbers
  <2>4. branch[b] = [here |-> t, work |-> {}]
    BY <2>1
  <2> HIDE DEF t
  <2>5. branch[b] \in BranchRec /\ branch[b].here = t /\ branch[b].work = {}
    BY <2>2, <2>3, <2>4
  <2> QED
    BY Zenon, <2>5 DEF t
<1>6. \A k \in Trees!Key : /\ entry[k] \in EntryRec
                           /\ k <= n /\ k <= open => /\ k \in Name /\ entry[k].status = "loaded"
                                                     /\ entry[k].path = k /\ entry[k].parent = k - 1
                           /\ ~(k <= n /\ k <= open) => entry[k].status = "none"
  <2> TAKE k \in Trees!Key
  <2>0. k \in Nat /\ k # 0 /\ k \in 1..MaxKeys
    BY TreeNumbers DEF Trees!Key
  <2>1. CASE k <= n /\ k <= open
    <3>1. k \in {1, 2, 3} /\ k - 1 \in Key0
      BY <1>1, <2>0, <2>1, TreesAssumption DEF Key0, Trees!Key
    <3>2. k \in Name /\ k \in Name0
      BY <3>1, TreeNumbers DEF Name0
    <3>3. /\ Trees!Child(k, k - 1) \in EntryRec /\ Trees!Child(k, k - 1).status = "loaded"
          /\ Trees!Child(k, k - 1).path = k /\ Trees!Child(k, k - 1).parent = k - 1
      BY <3>1, <3>2, ChildSays
    <3> QED
      BY <1>1, <2>1, <3>2, <3>3
  <2>2. CASE ~(k <= n /\ k <= open)
    BY <1>1, <2>2, NoRecords DEF Trees!NoEntry
  <2> QED
    BY <2>1, <2>2
<1>7. TreesTyped
  <2>1. /\ tree \in [Name -> TreeRec] /\ branch \in [Name -> BranchRec] /\ entry \in [Trees!Key -> EntryRec]
    BY <1>1, <1>4, <1>5, <1>6
  <2>2. op \in [Slot -> OpRec]
    BY <1>2, NoRecords
  <2> QED
    BY <1>2, <2>1, <2>2 DEF TreesTyped
<1>8. \A i \in Slot : /\ op[i].kind = "none" /\ op[i].at = "idle" /\ op[i].trees = {}
  BY <1>2, NoRecords
<1>9. \A k \in Trees!Key : k \in Nat /\ k # 0 /\ (Placed(k) <=> k <= n /\ k <= open) /\ (Trees!Open(k) <=> k <= n /\ k <= open)
  BY <1>6, TreeNumbers DEF Placed, Trees!Open
<1>10. EntriesOK
  <2> SUFFICES ASSUME NEW k \in Trees!Key, Placed(k)
               PROVE  /\ entry[k].path \in Name /\ entry[k].parent < k
                      /\ entry[k].parent # 0 => Placed(entry[k].parent)
    BY DEF EntriesOK
  <2>1. k <= n /\ k <= open /\ entry[k].path = k /\ k \in Name /\ entry[k].parent = k - 1 /\ k \in Nat
    BY <1>6, <1>9
  <2>2. k - 1 # 0 => k - 1 \in Trees!Key /\ k - 1 <= n /\ k - 1 <= open
    BY <1>1, <2>1, TreesAssumption DEF Trees!Key
  <2> QED
    BY <1>9, <2>1, <2>2
<1>11. Filled
  <2> SUFFICES ASSUME NEW k \in Trees!Key, NEW j \in Trees!Key, entry[k].status = "none", k < j
               PROVE  entry[j].status = "none"
    BY DEF Filled
  <2>1. ~(k <= n /\ k <= open) /\ k \in Nat /\ j \in Nat
    BY <1>6, <1>9
  <2> QED
    BY <1>1, <1>6, <2>1
<1>12. Apart /\ Unique
  BY <1>6, <1>8, <1>9 DEF Apart, Unique, Trees!Creating
<1>13. \A i \in Slot : OpOK(i)
  BY <1>8 DEF OpOK, Removals, FramesOK, Removal, AdoptOK, CreateOK, Trees!Creating
<1>14. \A k \in Trees!Key : Trees!Open(k) => Backed(k)
  BY <1>4, <1>6, <1>9 DEF Backed
<1>15. tree[1].here
  BY <1>1, <1>4, TreeNumbers
<1>16. PlacesInv
  BY <1>7, <1>10, <1>11, <1>12, <1>13, <1>14, <1>15 DEF PlacesInv
<1>17. GitOK
  <2>1. \A b \in Name : ~branch[b].here => branch[b].work = {}
    BY <1>5
  <2>2. \A p \in Name : ~tree[p].here => tree[p].tracked = {} /\ tree[p].untracked = {}
    BY <1>4
  <2>3. \A p \in Name : tree[p].here => tree[p].head = p /\ branch[p].here
    BY <1>4, <1>5
  <2> QED
    BY <2>1, <2>2, <2>3 DEF GitOK
<1>18. WorkInv
  BY <1>2, <1>4, <1>5, <1>17 DEF WorkInv, Fresh, UntrackedOK, Own
<1> QED
  BY <1>16, <1>18 DEF TreesInv

LEMMA TreesStep ==
  ASSUME TreesInv, Trees!Next
  PROVE  TreesInv'
<1>0. PlacesInv /\ WorkInv /\ GitOK
  BY DEF TreesInv, WorkInv
<1>1. CASE Trees!Agent
  <2>1. PICK p \in Name : Trees!Edit(p) \/ Trees!Commit(p) \/ Trees!Switch(p) \/ Trees!Resolve(p)
    BY <1>1 DEF Trees!Agent
  <2>2. PlacesInv'
    BY <1>0, <2>1, AgentKeepsPlaces
  <2>3. WorkInv'
    BY <1>0, <2>1, EditKeepsWork, CommitKeepsWork, SwitchKeepsWork, ResolveKeepsWork
  <2> QED
    BY <2>2, <2>3 DEF TreesInv
<1>2. ASSUME NEW k \in Trees!Key, Trees!RenameBranch(k) PROVE TreesInv'
  BY <1>0, <1>2, RenameKeepsPlaces, RenameKeepsWork DEF TreesInv
<1>3. ASSUME NEW k \in Trees!Key, Trees!RefreshGitInfo(k) \/ Trees!ClearError(k) \/ Trees!Dismiss(k)
      PROVE  TreesInv'
  BY <1>0, <1>3, EntryKeepsPlaces, EntryKeepsWork DEF TreesInv
<1>4. ASSUME NEW k \in Trees!Key, Trees!ListWorktrees(k) PROVE TreesInv'
  BY <1>0, <1>4, ListingKeepsPlaces, ListingKeepsWork DEF TreesInv
<1>5. ASSUME NEW k \in Trees!Key, Trees!Remove(k) \/ Trees!CloseAndClean(k) \/ Trees!Merge(k)
      PROVE  TreesInv'
  BY <1>0, <1>5, CallKeepsPlaces, CallKeepsWork DEF TreesInv
<1>6. ASSUME NEW k \in Trees!Key, NEW n \in Name, Trees!CreateChild(k, n) PROVE TreesInv'
  BY <1>0, <1>6, CreateKeepsPlaces, CreateKeepsWork DEF TreesInv
<1>7. ASSUME NEW i \in Slot, Trees!Adopt(i) \/ Trees!Adopted(i) PROVE TreesInv'
  <2>1. PlacesInv'
    BY <1>0, <1>7, AdoptKeepsPlaces, AdoptedKeepsPlaces
  <2> QED
    BY <1>0, <1>7, <2>1, AdoptKeepsWork DEF TreesInv
<1>8. ASSUME NEW i \in Slot,
             Trees!Lock(i) \/ Trees!LockRefused(i) \/ Trees!Base(i) \/ Trees!WorktreeAddFails(i)
      PROVE  TreesInv'
  <2>1. PlacesInv'
    BY <1>0, <1>8, LockKeepsPlaces, RefusalKeepsPlaces, BaseKeepsPlaces, AddKeepsPlaces
  <2> QED
    BY <1>0, <1>8, <2>1, LockKeepsWork DEF TreesInv
<1>9. ASSUME NEW i \in Slot, Trees!WorktreeAdd(i) PROVE TreesInv'
  BY <1>0, <1>9, AddKeepsPlaces, AddKeepsWork DEF TreesInv
<1>10. ASSUME NEW i \in Slot,
              Trees!CheckParent(i) \/ Trees!CheckParentStatus(i) \/ Trees!CommitFails(i) \/ Trees!Keep(i)
       PROVE  TreesInv'
  <2>1. PlacesInv'
    BY <1>0, <1>10, CheckParentKeepsPlaces, MergeKeepsPlaces
  <2> QED
    BY <1>0, <1>10, <2>1, CheckKeepsWork DEF TreesInv
<1>11. ASSUME NEW i \in Slot,
              Trees!CheckOwn(i) \/ Trees!CommitAll(i) \/ Trees!MergeBranch(i) \/ Trees!MergeStops(i)
       PROVE  TreesInv'
  <2>1. PlacesInv'
    BY <1>0, <1>11, MergeKeepsPlaces
  <2>2. WorkInv'
    BY <1>0, <1>11, CheckOwnKeepsWork, CommitAllKeepsWork, MergeKeepsWork, MergeStopsKeepsWork
  <2> QED
    BY <2>1, <2>2 DEF TreesInv
<1>12. ASSUME NEW i \in Slot, Trees!Enter(i) PROVE TreesInv'
  BY <1>0, <1>12, EnterKeepsPlaces, EnterKeepsWork DEF TreesInv
<1>13. ASSUME NEW i \in Slot,
              Trees!ReadHead(i) \/ Trees!Drop(i) \/ Trees!DeleteFile(i) \/ Trees!DeleteFileThrows(i)
       PROVE  TreesInv'
  <2>1. PlacesInv'
    BY <1>0, <1>13, ReadHeadKeepsPlaces, DropKeepsPlaces, DeleteFileKeepsPlaces, ThrowsKeepsPlaces
  <2> QED
    BY <1>0, <1>13, <2>1, RemovalKeepsWork DEF TreesInv
<1>14. ASSUME NEW i \in Slot, Trees!RemoveTree(i) \/ Trees!DeleteBranch(i) PROVE TreesInv'
  <2>1. PlacesInv'
    BY <1>0, <1>14, RemovingKeepsPlaces
  <2>2. WorkInv'
    BY <1>0, <1>14, TreeKeepsWork, BranchKeepsWork
  <2> QED
    BY <2>1, <2>2 DEF TreesInv
<1> QED
  BY <1>1, <1>2, <1>3, <1>4, <1>5, <1>6, <1>7, <1>8, <1>9, <1>10, <1>11, <1>12, <1>13,
     <1>14 DEF Trees!Next

LEMMA TreesUnchanged ==
  ASSUME TreesInv, UNCHANGED Trees!vars
  PROVE  TreesInv'
<1>0. PlacesInv /\ WorkInv
  BY DEF TreesInv
<1>1. UNCHANGED <<tree, branch, entry, op, owed, waived, doubtful, sure, works>>
  BY DEF Trees!vars
<1>2. PlacesInv'
  BY <1>0, <1>1, GitKeepsPlaces DEF PlacesInv, TreesTyped
<1>3. WorkInv'
  BY <1>0, <1>1, QuietStep, OthersCarry DEF SameWork
<1> QED
  BY <1>2, <1>3 DEF TreesInv

LEMMA TreesKeep ==
  ASSUME TreesInv
  PROVE  Trees!WorktreesKept
<1>0. PlacesInv /\ WorkInv
  BY DEF TreesInv
<1>1. Trees!MergedWorkSurvives
  <2> SUFFICES ASSUME NEW x \in owed PROVE x \in Trees!Held \cup waived
    BY DEF Trees!MergedWorkSurvives
  <2>1. Kept(x)
    BY <1>0 DEF WorkInv
  <2> QED
    BY <2>1 DEF Kept, Trees!Held
<1>2. Trees!OpenIsBacked
  <2> SUFFICES ASSUME \A i \in Slot : op[i].at \in {"idle", "listed"},
                      NEW k \in Trees!Key, Trees!Open(k), entry[k].path \notin doubtful
               PROVE  /\ tree[entry[k].path].here
                      /\ \A j \in Trees!Key : Trees!Open(j) /\ entry[j].path = entry[k].path => j = k
    BY DEF Trees!OpenIsBacked
  <2>1. Backed(k) /\ Unique
    BY <1>0 DEF PlacesInv
  <2>2. \A i \in Slot : ~Removes(i, k)
    BY DEF Removes
  <2> QED
    BY <2>1, <2>2 DEF Backed, Unique
<1> QED
  BY <1>1, <1>2 DEF Trees!WorktreesKept

(* Once its operations are over, an open workspace has a worktree of its   *)
(* own, and what a merge-and-remove found committed on its branch, or      *)
(* changed in files that git tracks, is in a branch or a worktree until    *)
(* somebody asks for a removal: however many workspaces, operations, edits *)
(* and faults there are, and in whatever order the git commands run.       *)
THEOREM WorktreesAlwaysKept ==
  ASSUME TreesAssumption
  PROVE  Trees!Spec => []WorktreesKept
<1>1. Trees!Init => TreesInv
  BY InitialTrees
<1>2. TreesInv /\ [Trees!Next]_(Trees!vars) => TreesInv'
  BY TreesStep, TreesUnchanged
<1>3. TreesInv => WorktreesKept
  BY TreesKeep DEF WorktreesKept
<1> QED
  BY <1>1, <1>2, <1>3, PTL DEF Trees!Spec
=============================================================================
