------------------------------ MODULE Worktrees ------------------------------
(***************************************************************************)
(* Worktrees and branches behind the workspaces of one window: creating,   *)
(* adopting, merging and removing (store/createSessionStore.ts over        *)
(* lib/gitClient.ts, called from ReviewBrowser, SessionPanel,              *)
(* CreateChildDialog and AutoOpenWorktreesDialog), while an agent edits,   *)
(* commits and switches branches in the same worktrees.                    *)
(*                                                                         *)
(* Each git command is a step, and operations of the window interleave: the*)
(* session lock is held by its client and keeps only other windows out.    *)
(* The worktree and the branch made for it have one number; 1 is the main  *)
(* worktree.  Work is a set of changes, whatever files they are in.  Left  *)
(* out: tabs, the workspace files and the sync (RefSync, ContentSync), the *)
(* registry (WorktreeRegistry), detached HEADs, attempts at a name.        *)
(***************************************************************************)
EXTENDS Naturals, Sequences, FiniteSets
CONSTANTS Name,       \* worktrees' and branches' numbers, 1 among them
          MaxKeys,    \* bound: workspaces
          MaxWork,    \* bound: changes made by the agent
          MaxSwitch,  \* bound: branches switched or renamed
          Slot,       \* bound: operations at a time
          MaxOps,     \* bound: operations begun, or fewer from the start
          MaxFaults   \* bound: git commands that fail, locks refused, lost calls

Key == 1..MaxKeys
Change == 1..MaxWork

VARIABLES
  tree,     \* by number: here, its HEAD, tracked and untracked changes, stuck in a merge
  branch,   \* by number: here, the work committed to it
  entry,    \* workspaces, by key: status, path, branch (0 undefined), parent, detached
  op,       \* operations: kind, at, ws and what they remember
  owed,     \* history: work that was there when its merge-and-remove checked it
  waived,   \* history: work that somebody gave up
  doubtful, \* history: worktrees that two operations met in, or a failed call
  sure,     \* history: operations under which all is as their check found it
  works, switches, begun, faults
vars == <<tree, branch, entry, op, owed, waived, doubtful, sure, works, switches, begun, faults>>
history == <<owed, waived, doubtful, sure>>
bounds == <<works, switches, begun>>

NoTree == [here |-> FALSE, head |-> 0, tracked |-> {}, untracked |-> {}, stuck |-> FALSE]
NoEntry == [status |-> "none", path |-> 0, branch |-> 0, parent |-> 0, detached |-> FALSE]
TreeOf(b) == [NoTree EXCEPT !.here = TRUE, !.head = b]
Child(n, p) == [NoEntry EXCEPT !.status = "loaded", !.path = n, !.branch = n, !.parent = p]

(* listed: what listWorktrees told the dialog.  frames: the calls of       *)
(* removeWorkspaceInternal that are not over, each with what it read.      *)
NoOp == [kind |-> "none", at |-> "idle", ws |-> 0, trees |-> {}, saved |-> NoEntry,
         from |-> 0, base |-> 0, detached |-> FALSE, keepBranch |-> FALSE, keepTree |-> FALSE,
         squash |-> FALSE, listed |-> [p \in Name |-> 0], frames |-> <<>>]

(* A root workspace, a child, and possibly the child's child or a worktree *)
(* that is not open.                                                       *)
Init ==
  /\ \E n \in {2, 3}, open \in {2, 3} :
       /\ tree = [p \in Name |-> IF p <= n THEN TreeOf(p) ELSE NoTree]
       /\ branch = [b \in Name |-> [here |-> b <= n, work |-> {}]]
       /\ entry = [k \in Key |-> IF k <= n /\ k <= open THEN Child(k, k - 1) ELSE NoEntry]
  /\ op = [i \in Slot |-> NoOp]
  /\ owed = {} /\ waived = {} /\ doubtful = {} /\ sure = {}
  /\ works = 0 /\ switches = 0 /\ begun \in 0..MaxOps /\ faults = 0

-----------------------------------------------------------------------------
Open(k) == k \in Key /\ entry[k].status \in {"loaded", "opError"}
IsWorktree(k) == entry[k].path # 1
Unused == {k \in Key : entry[k].status = "none" /\ \A j \in 1..(k - 1) : entry[j].status # "none"}
Children(k) == {j \in Key : Open(j) /\ entry[j].parent = k}
CheckedOut(b) == \E p \in Name : tree[p].here /\ tree[p].head = b
Dirty(p) == tree[p].tracked \cup tree[p].untracked # {} \/ tree[p].stuck

Fault == faults < MaxFaults /\ faults' = faults + 1
Calm == UNCHANGED faults

(* The worktrees an operation is about: its own, and those it may reach.   *)
Below(k) == Children(k) \cup UNION {Children(j) : j \in Children(k)}
Line(k) == {entry[j].path : j \in (Key \cap {k, entry[k].parent}) \cup Below(k)}
Busy == UNION {op[i].trees : i \in Slot}
Idle == {i \in Slot : op[i].at = "idle" /\ \A j \in Slot : j < i => op[j].at # "idle"}

(* Noted are worktrees that another operation is about already.            *)
Meets(trees) == doubtful' = doubtful \cup (trees \cap Busy)
Disturbs(trees, branches) ==
  sure' = {i \in sure : op[i].saved.path \notin trees /\ op[i].saved.branch \notin branches}
Begin(o) ==
  /\ begun < MaxOps /\ begun' = begun + 1
  /\ \E i \in Idle : op' = [op EXCEPT ![i] = [o EXCEPT !.at = "lock"]]
  /\ Meets(o.trees)
Goto(i, at) == op' = [op EXCEPT ![i].at = at]
Ends(i) == op' = [op EXCEPT ![i] = NoOp]
At(i, kinds, at) == op[i].kind \in kinds /\ op[i].at = at

Creating == {"new", "branch", "remote"}
Merging == {"mergeRemove", "mergeKeep"}

OperationError(i) == entry' = [entry EXCEPT ![op[i].ws] = [op[i].saved EXCEPT !.status = "opError"]]

-----------------------------------------------------------------------------
(* The agent, or anyone at a terminal.                                     *)

Edit(p) ==
  /\ tree[p].here /\ works < MaxWork /\ works' = works + 1
  /\ \/ tree' = [tree EXCEPT ![p].tracked = @ \cup {works'}]
     \/ tree' = [tree EXCEPT ![p].untracked = @ \cup {works'}]
  /\ UNCHANGED <<branch, entry, op, history, switches, begun, faults>>

Commit(p) ==
  /\ tree[p].here /\ Dirty(p)
  /\ tree' = [tree EXCEPT ![p] = TreeOf(@.head)]
  /\ branch' = [branch EXCEPT ![tree[p].head].work = @ \cup tree[p].tracked \cup tree[p].untracked]
  /\ UNCHANGED <<entry, op, history, bounds, faults>>

(* git checkout -b, or of a branch that is free.                           *)
Switch(p) ==
  /\ tree[p].here /\ ~tree[p].stuck /\ switches < MaxSwitch /\ switches' = switches + 1
  /\ \E b \in Name :
       /\ ~CheckedOut(b)
       /\ tree' = [tree EXCEPT ![p].head = b]
       /\ branch' = IF branch[b].here THEN branch
                    ELSE [branch EXCEPT ![b] = [here |-> TRUE, work |-> branch[tree[p].head].work]]
       /\ Disturbs({p}, {b})
  /\ UNCHANGED <<entry, op, owed, waived, doubtful, works, begun, faults>>

(* renameBranch, which the analyzer calls; refreshGitInfo follows.         *)
RenameBranch(k) ==
  LET old == entry[k].branch IN
  /\ Open(k) /\ old # 0 /\ branch[old].here /\ switches < MaxSwitch /\ switches' = switches + 1
  /\ \E new \in Name :
       /\ ~branch[new].here
       /\ branch' = [branch EXCEPT ![new] = branch[old], ![old] = [here |-> FALSE, work |-> {}]]
       /\ tree' = [p \in Name |-> IF tree[p].here /\ tree[p].head = old
                                  THEN [tree[p] EXCEPT !.head = new] ELSE tree[p]]
       /\ Disturbs({}, {old, new})
  /\ UNCHANGED <<entry, op, owed, waived, doubtful, works, begun, faults>>

(* Somebody ends or aborts the merge that stopped.                         *)
Resolve(p) ==
  /\ tree[p].stuck
  /\ tree' = [tree EXCEPT ![p].stuck = FALSE]
  /\ UNCHANGED <<branch, entry, op, history, bounds, faults>>

-----------------------------------------------------------------------------
(* getInfo and updateGitInfo: a command that fails makes it no repository. *)
RefreshGitInfo(k) ==
  /\ Open(k)
  /\ \/ Calm /\ entry' = [entry EXCEPT ![k].branch =
                            IF tree[entry[k].path].here THEN tree[entry[k].path].head ELSE 0]
     \/ Fault /\ entry' = [entry EXCEPT ![k].branch = 0]
  /\ entry' # entry
  /\ UNCHANGED <<tree, branch, op, history, bounds>>

ClearError(k) ==
  /\ entry[k].status = "opError"
  /\ entry' = [entry EXCEPT ![k].status = "loaded"]
  /\ UNCHANGED <<tree, branch, op, history, bounds, faults>>

(* dismissWorkspace: a creation goes on, and shows its workspace again.    *)
Dismiss(k) ==
  /\ entry[k].status \in {"error", "loading"}
  /\ entry' = [entry EXCEPT ![k] = [NoEntry EXCEPT !.status = "dismissed"]]
  /\ UNCHANGED <<tree, branch, op, history, bounds, faults>>

-----------------------------------------------------------------------------
(* The calls.                                                              *)

(* addChildWorkspace (quickForkWorkspace's name is of no local branch),    *)
(* createWorktreeFromBranch, createWorktreeFromRemote and, after a fetch,  *)
(* createWorktreeFromPr.                                                   *)
CreateChild(parent, n) ==
  /\ Open(parent) /\ entry[parent].branch # 0
  /\ \E k \in Unused, kind \in Creating, detached \in BOOLEAN :
       /\ kind = "branch" => branch[n].here
       /\ entry' = [entry EXCEPT ![k].status = "loading"]
       /\ Begin([NoOp EXCEPT !.kind = kind, !.ws = k, !.from = parent, !.base = n, !.detached = detached,
                             !.trees = {n, entry[parent].path}])
  /\ UNCHANGED <<tree, branch, owed, waived, sure, works, switches, faults>>

AlreadyOpen(p) == \E k \in Key : Open(k) /\ entry[k].path = p

(* The dialogs list the worktrees that are not open.                       *)
ListWorktrees(parent) ==
  /\ Open(parent) /\ begun < MaxOps /\ begun' = begun + 1
  /\ \E i \in Idle, kind \in {"adopt", "autoOpen"} :
       LET listed == [p \in Name |-> IF tree[p].here /\ ~AlreadyOpen(p) THEN tree[p].head ELSE 0] IN
         /\ \E p \in Name : listed[p] # 0
         /\ op' = [op EXCEPT ![i] = [NoOp EXCEPT !.kind = kind, !.at = "listed", !.from = parent,
                                                 !.listed = listed]]
  /\ UNCHANGED <<tree, branch, entry, history, works, switches, faults>>

(* adoptExistingWorktree and autoOpenWorktrees.  A worktree that has gone  *)
(* since it was listed is opened as well.                                  *)
Adopt(i) ==
  /\ At(i, {"adopt", "autoOpen"}, "listed") /\ Open(op[i].from)
  /\ \E chosen \in SUBSET {p \in Name : op[i].listed[p] # 0} :
       /\ chosen # {}
       /\ op[i].kind = "adopt" => \E p \in chosen : chosen = {p} /\ ~AlreadyOpen(p)
       /\ op' = [op EXCEPT ![i].at = "lock", ![i].trees = chosen \cup {entry[op[i].from].path},
                           ![i].listed = [p \in Name |-> IF p \in chosen THEN @[p] ELSE 0]]
       /\ doubtful' = doubtful \cup (op'[i].trees \cap Busy) \cup {p \in chosen : ~tree[p].here}
  /\ UNCHANGED <<tree, branch, entry, owed, waived, sure, bounds, faults>>

(* removeWorkspace, removeWorkspaceKeepBranch, removeWorkspaceKeepBoth.    *)
Remove(k) ==
  /\ Open(k)
  /\ \E keepBranch, keepTree \in BOOLEAN :
       /\ keepTree => keepBranch
       /\ Begin([NoOp EXCEPT !.kind = "remove", !.ws = k, !.saved = entry[k], !.trees = Line(k),
                             !.keepBranch = keepBranch, !.keepTree = keepTree])
  /\ UNCHANGED <<tree, branch, entry, owed, waived, sure, works, switches, faults>>

(* closeAndCleanWorkspace.  It asks for the parent's gitRootPath, which is *)
(* set and unset together with the branch (updateGitInfo; no HEAD is       *)
(* detached here), so `branch` stands for both.                            *)
CloseAndClean(k) ==
  /\ Open(k) /\ IsWorktree(k) /\ Open(entry[k].parent) /\ entry[entry[k].parent].branch # 0
  /\ Begin([NoOp EXCEPT !.kind = "remove", !.ws = k, !.saved = entry[k], !.trees = Line(k)])
  /\ UNCHANGED <<tree, branch, entry, owed, waived, sure, works, switches, faults>>

(* handleMerge and handleMergeAndKeep: mergeAndRemoveWorkspace and         *)
(* mergeAndKeepWorkspace.  The review is of a workspace that is merged.    *)
Merge(k) ==
  /\ Open(k)
  /\ \E kind \in Merging, squash \in BOOLEAN :
       Begin([NoOp EXCEPT !.kind = kind, !.ws = k, !.trees = Line(k), !.squash = squash])
  /\ UNCHANGED <<tree, branch, entry, owed, waived, sure, works, switches, faults>>

-----------------------------------------------------------------------------
Frame(k) == [ws |-> k, data |-> NoEntry, kids |-> {}, head |-> 0]
EnterFrames(i) == op' = [op EXCEPT ![i].at = "enter", ![i].frames = <<Frame(op[i].ws)>>]

(* acquireLock.                                                            *)
Lock(i) ==
  /\ At(i, Creating \cup Merging \cup {"adopt", "autoOpen", "remove"}, "lock") /\ Calm
  /\ CASE op[i].kind = "new" -> Goto(i, "base") /\ UNCHANGED entry
       [] op[i].kind \in {"branch", "remote"} -> Goto(i, "add") /\ UNCHANGED entry
       [] op[i].kind \in {"adopt", "autoOpen"} -> Goto(i, "adopt") /\ UNCHANGED entry
       [] op[i].kind \in Merging -> Goto(i, "parent") /\ UNCHANGED entry
       [] op[i].kind = "remove" ->
            /\ EnterFrames(i)
            /\ entry' = [entry EXCEPT ![op[i].ws] = [op[i].saved EXCEPT !.status = "loaded"]]
  /\ UNCHANGED <<tree, branch, history, bounds>>

LockRefused(i) ==
  /\ op[i].at = "lock" /\ Fault
  /\ Ends(i)
  /\ CASE op[i].kind \in Creating -> entry' = [entry EXCEPT ![op[i].ws].status = "error"]
       [] op[i].kind = "remove" -> OperationError(i)
       [] OTHER -> UNCHANGED entry
  /\ UNCHANGED <<tree, branch, history, bounds>>

(* addChildWorkspace reads the parent's branch anew.                       *)
Base(i) ==
  /\ At(i, {"new"}, "base") /\ Calm
  /\ Goto(i, "add")
  /\ LET k == op[i].from IN
       entry' = IF Open(k) /\ tree[entry[k].path].here
                THEN [entry EXCEPT ![k].branch = tree[entry[k].path].head] ELSE entry
  /\ UNCHANGED <<tree, branch, history, bounds>>

(* git worktree add, and the workspace of what was made.                   *)
WorktreeAdd(i) ==
  /\ At(i, Creating, "add") /\ Calm
  /\ LET n == op[i].base
         k == op[i].ws
         b == IF Open(op[i].from) /\ entry[op[i].from].branch # 0 THEN entry[op[i].from].branch ELSE tree[1].head
         made == IF op[i].kind = "branch" THEN branch[n].here /\ ~CheckedOut(n)
                 ELSE ~branch[n].here /\ (op[i].kind = "new" => branch[b].here)
     IN IF tree[n].here \/ ~made
          THEN /\ entry' = [entry EXCEPT ![k].status = "error"]
               /\ Ends(i) /\ UNCHANGED <<tree, branch, sure>>
          ELSE /\ tree' = [tree EXCEPT ![n] = TreeOf(n)]
               /\ Disturbs({n}, {n})
               /\ branch' = CASE op[i].kind = "branch" -> branch
                              [] op[i].kind = "new" -> [branch EXCEPT ![n] = branch[b]]
                              [] op[i].kind = "remote" -> [branch EXCEPT ![n].here = TRUE]
               /\ entry' = [entry EXCEPT ![k] = [Child(n, op[i].from) EXCEPT !.detached = op[i].detached]]
               /\ Ends(i)
  /\ UNCHANGED <<owed, waived, doubtful, bounds>>

WorktreeAddFails(i) ==
  /\ At(i, Creating, "add") /\ Fault
  /\ entry' = [entry EXCEPT ![op[i].ws].status = "error"]
  /\ Ends(i)
  /\ UNCHANGED <<tree, branch, history, bounds>>

(* addChildWorkspaceFromResult, with the branch that was listed, and for   *)
(* autoOpenWorktrees again while there is one that is not open.            *)
Adopted(i) ==
  LET next == {p \in Name : op[i].listed[p] # 0 /\ (op[i].kind = "autoOpen" => ~AlreadyOpen(p))} IN
  /\ At(i, {"adopt", "autoOpen"}, "adopt") /\ Calm
  /\ IF next = {} THEN Ends(i) /\ UNCHANGED entry
     ELSE \E k \in Unused, n \in next :
            /\ entry' = [entry EXCEPT ![k] = [Child(n, op[i].from) EXCEPT !.branch = op[i].listed[n]]]
            /\ IF op[i].kind = "adopt" THEN Ends(i) ELSE op' = [op EXCEPT ![i].listed[n] = 0]
  /\ UNCHANGED <<tree, branch, history, bounds>>

-----------------------------------------------------------------------------
(* mergeWorkspaceCore.  Its data is read once, here.                       *)
CheckParent(i) ==
  LET k == op[i].ws
      p == entry[k].parent IN
  /\ At(i, Merging, "parent") /\ Calm
  /\ IF Open(k) /\ IsWorktree(k) /\ Open(p) /\ (Open(p) => entry[p].branch # 0)
       THEN op' = [op EXCEPT ![i].saved = entry[k], ![i].base = entry[p].path, ![i].at = "dirty"]
       ELSE Ends(i)
  /\ UNCHANGED <<tree, branch, entry, history, bounds>>

(* hasUncommittedChanges of the parent: one that fails says there are none.*)
CheckParentStatus(i) ==
  LET p == op[i].base
      dirty == tree[p].here /\ Dirty(p) IN
  /\ At(i, Merging, "dirty")
  /\ \/ dirty /\ Calm /\ OperationError(i) /\ Ends(i)
     \/ /\ IF dirty THEN Fault ELSE Calm
        /\ Goto(i, IF op[i].kind = "mergeRemove" THEN "status" ELSE "merge")
        /\ UNCHANGED entry
  /\ UNCHANGED <<tree, branch, history, bounds>>

(* And of the workspace itself.                                            *)
CheckOwn(i) ==
  LET p == op[i].saved.path
      b == op[i].saved.branch
      whole == tree[p].here /\ tree[p].head = b /\ p \notin doubtful IN
  /\ At(i, {"mergeRemove"}, "status")
  /\ sure' = IF whole THEN sure \cup {i} ELSE sure \ {i}
  /\ owed' = IF whole THEN owed \cup branch[b].work \cup tree[p].tracked ELSE owed
  /\ \/ /\ Calm /\ Goto(i, IF tree[p].here /\ Dirty(p) THEN "commit" ELSE "merge")
        /\ UNCHANGED waived
     \/ /\ Fault /\ tree[p].here /\ Dirty(p) /\ Goto(i, "merge")
        /\ waived' = waived \cup tree[p].tracked
  /\ UNCHANGED <<tree, branch, entry, doubtful, bounds>>

(* git commit -am: what git does not track stays uncommitted, and a commit *)
(* of nothing fails.                                                       *)
CommitAll(i) ==
  LET p == op[i].saved.path IN
  /\ At(i, {"mergeRemove"}, "commit") /\ Calm
  /\ IF tree[p].here /\ (tree[p].tracked # {} \/ tree[p].stuck)
       THEN /\ branch' = [branch EXCEPT ![tree[p].head].work = @ \cup tree[p].tracked]
            /\ tree' = [tree EXCEPT ![p].tracked = {}, ![p].stuck = FALSE]
            /\ Goto(i, "merge") /\ UNCHANGED entry
       ELSE OperationError(i) /\ Ends(i) /\ UNCHANGED <<tree, branch>>
  /\ UNCHANGED <<history, bounds>>

CommitFails(i) ==
  /\ At(i, {"mergeRemove"}, "commit") /\ Fault
  /\ OperationError(i) /\ Ends(i)
  /\ UNCHANGED <<tree, branch, history, bounds>>

AfterMerge(i) == IF op[i].kind = "mergeRemove" THEN EnterFrames(i) ELSE Goto(i, "keep")

(* git merge, or git merge --squash, which commits nothing.                *)
MergeBranch(i) ==
  LET p == op[i].base
      b == op[i].saved.branch IN
  /\ At(i, Merging, "merge") /\ Calm
  /\ IF tree[p].here /\ ~tree[p].stuck /\ b # 0 /\ (b # 0 => branch[b].here)
       THEN /\ IF op[i].squash
                 THEN /\ tree' = [tree EXCEPT ![p].tracked = @ \cup (branch[b].work \ branch[tree[p].head].work)]
                      /\ UNCHANGED branch
                 ELSE /\ branch' = [branch EXCEPT ![tree[p].head].work = @ \cup branch[b].work]
                      /\ UNCHANGED tree
            /\ AfterMerge(i) /\ UNCHANGED entry
       ELSE OperationError(i) /\ Ends(i) /\ UNCHANGED <<tree, branch>>
  /\ UNCHANGED <<history, bounds>>

MergeStopsIgnored(i) == \* a slip: the merge's result is not looked at
  /\ At(i, Merging, "merge") /\ Fault
  /\ tree' = IF tree[op[i].base].here THEN [tree EXCEPT ![op[i].base].stuck = TRUE] ELSE tree
  /\ AfterMerge(i)
  /\ UNCHANGED <<branch, entry, history, bounds>>

(* A conflict: the parent's worktree is left in it.                        *)
MergeStops(i) ==
  /\ At(i, Merging, "merge") /\ Fault
  /\ tree' = IF tree[op[i].base].here THEN [tree EXCEPT ![op[i].base].stuck = TRUE] ELSE tree
  /\ OperationError(i) /\ Ends(i)
  /\ UNCHANGED <<branch, history, bounds>>

Keep(i) ==
  /\ At(i, {"mergeKeep"}, "keep") /\ Calm
  /\ LET k == op[i].ws IN
       entry' = IF entry[k].status = "opError" THEN [entry EXCEPT ![k].status = "loaded"] ELSE entry
  /\ Ends(i)
  /\ UNCHANGED <<tree, branch, history, bounds>>

-----------------------------------------------------------------------------
(* removeWorkspaceInternal, a frame for each call that is not over.        *)

Top(i) == op[i].frames[1]
AtTop(i, at) == op[i].at = at

(* A worktree or branch that is removed without having been merged, as its *)
(* check found it, gives its work up.                                      *)
GivesUp(i, merged, work) ==
  waived' = IF op[i].kind = "mergeRemove" /\ merged /\ i \in sure /\ op[i].saved.path \notin doubtful
            THEN waived ELSE waived \cup work

(* The innermost call goes on with its next child, in the order they were  *)
(* made, or with its own tabs, worktree and branch.                        *)
Continue(o) ==
  LET f == o.frames[1]
      j == CHOOSE j \in f.kids : \A l \in f.kids : j <= l IN
  IF f.kids # {}
    THEN [o EXCEPT !.at = "enter", !.frames = <<Frame(j), [f EXCEPT !.kids = @ \ {j}]>> \o Tail(@)]
    ELSE [o EXCEPT !.at = IF f.data.path = 1 \/ f.data.branch = 0 \/ o.keepTree THEN "drop"
                          ELSE IF o.keepBranch \/ f.data.detached THEN "tree" ELSE "head"]
Return(o) == IF Len(o.frames) = 1 THEN NoOp ELSE Continue([o EXCEPT !.frames = Tail(@)])

Entered(o, data, kids) ==
  [o EXCEPT !.trees = @ \cup {data.path}, !.frames[1].data = data, !.frames[1].kids = kids]

Enter(i) ==
  LET k == Top(i).ws IN
  /\ AtTop(i, "enter") /\ Calm
  /\ IF Open(k)
       THEN /\ op' = [op EXCEPT ![i] = Continue(Entered(@, entry[k], Children(k)))]
            /\ doubtful' = doubtful \cup {p \in {entry[k].path} : \E j \in Slot \ {i} : p \in op[j].trees}
       ELSE op' = [op EXCEPT ![i] = Return(@)] /\ UNCHANGED doubtful
  /\ UNCHANGED <<tree, branch, entry, owed, waived, sure, bounds>>

(* removeWorktree: the branch to delete is the one checked out now.        *)
ReadHead(i) ==
  /\ AtTop(i, "head") /\ Calm
  /\ LET p == Top(i).data.path IN
       op' = [op EXCEPT ![i].at = "tree", ![i].frames[1].head = IF tree[p].here THEN tree[p].head ELSE 0]
  /\ UNCHANGED <<tree, branch, entry, history, bounds>>

(* git worktree remove --force; a failure is not looked at.                *)
RemoveTree(i) ==
  LET p == Top(i).data.path IN
  /\ AtTop(i, "tree")
  /\ \/ /\ tree[p].here /\ Calm
        /\ tree' = [tree EXCEPT ![p] = NoTree]
        /\ GivesUp(i, p = op[i].saved.path, tree[p].tracked \cup tree[p].untracked)
        /\ Goto(i, IF Top(i).head = 0 THEN "drop" ELSE "branch")
     \/ /\ IF tree[p].here THEN Fault ELSE Calm
        /\ Goto(i, "drop") /\ UNCHANGED <<tree, waived>>
  /\ UNCHANGED <<branch, entry, owed, doubtful, sure, bounds>>

(* git branch -D, which refuses a branch that is checked out.              *)
DeleteBranch(i) ==
  LET b == Top(i).head IN
  /\ AtTop(i, "branch") /\ Calm
  /\ Goto(i, "drop")
  /\ IF branch[b].here /\ ~CheckedOut(b)
       THEN /\ branch' = [branch EXCEPT ![b] = [here |-> FALSE, work |-> {}]]
            /\ GivesUp(i, b = op[i].saved.branch, branch[b].work)
       ELSE UNCHANGED <<branch, waived>>
  /\ UNCHANGED <<tree, entry, owed, doubtful, sure, bounds>>

(* onWorkspaceRemoved.  Nobody reads where the workspace was.              *)
Drop(i) ==
  /\ AtTop(i, "drop") /\ Calm
  /\ entry' = [entry EXCEPT ![Top(i).ws] =
                 [NoEntry EXCEPT !.status = "gone", !.path = entry[Top(i).ws].path,
                                 !.parent = entry[Top(i).ws].parent]]
  /\ Goto(i, "file")
  /\ UNCHANGED <<tree, branch, history, bounds>>

DeleteFile(i) ==
  /\ AtTop(i, "file") /\ Calm
  /\ op' = [op EXCEPT ![i] = Return(@)]
  /\ UNCHANGED <<tree, branch, entry, history, bounds>>

(* It throws: removeWorkspaceWithLoading shows again what is gone, and a   *)
(* merge-and-remove what it was not to lose before its children.           *)
DeleteFileThrows(i) ==
  /\ AtTop(i, "file") /\ Fault
  /\ Ends(i)
  /\ IF op[i].kind = "remove"
       THEN OperationError(i) /\ doubtful' = doubtful \cup op[i].trees
       ELSE /\ entry' = IF Open(op[i].ws) THEN [entry EXCEPT ![op[i].ws].status = "opError"] ELSE entry
            /\ UNCHANGED doubtful
  /\ UNCHANGED <<tree, branch, owed, waived, sure, bounds>>

-----------------------------------------------------------------------------
Agent == \E p \in Name : Edit(p) \/ Commit(p) \/ Switch(p) \/ Resolve(p)

Next ==
  \/ Agent
  \/ \E k \in Key : RenameBranch(k) \/ RefreshGitInfo(k) \/ ClearError(k) \/ Dismiss(k)
                    \/ ListWorktrees(k) \/ Remove(k) \/ CloseAndClean(k) \/ Merge(k)
  \/ \E k \in Key, n \in Name : CreateChild(k, n)
  \/ \E i \in Slot :
       \/ Adopt(i) \/ Lock(i) \/ LockRefused(i) \/ Base(i) \/ WorktreeAdd(i) \/ WorktreeAddFails(i)
       \/ Adopted(i) \/ CheckParent(i) \/ CheckParentStatus(i) \/ CheckOwn(i) \/ CommitAll(i) \/ CommitFails(i)
       \/ MergeBranch(i) \/ MergeStops(i) \/ Keep(i) \/ Enter(i) \/ ReadHead(i)
       \/ RemoveTree(i) \/ DeleteBranch(i) \/ Drop(i) \/ DeleteFile(i) \/ DeleteFileThrows(i)

Spec == Init /\ [][Next]_vars

-----------------------------------------------------------------------------
Held == (UNION {branch[b].work : b \in Name}) \cup (UNION {tree[p].tracked \cup tree[p].untracked : p \in Name})

(* What was committed on a workspace's branch, or uncommitted in files git *)
(* tracks, when its merge-and-remove checked it, is never lost: it stays   *)
(* in a branch or a worktree until somebody asks for a removal or switches *)
(* the branch under the merge.  Excused are a check that failed, a branch  *)
(* that is not the one the workspace names, and operations that meet.      *)
MergedWorkSurvives == owed \subseteq Held \cup waived

(* Once its operations are over, an open workspace has its worktree, of    *)
(* its own.  Excused are worktrees in which operations met.                *)
OpenIsBacked ==
  (\A i \in Slot : op[i].at \in {"idle", "listed"}) =>
    \A k \in Key : Open(k) /\ entry[k].path \notin doubtful =>
      /\ tree[entry[k].path].here
      /\ \A j \in Key : Open(j) /\ entry[j].path = entry[k].path => j = k

WorktreesKept == MergedWorkSurvives /\ OpenIsBacked
=============================================================================
