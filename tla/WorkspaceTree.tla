--------------------------- MODULE WorkspaceTree ---------------------------
(***************************************************************************)
(* Moving workspaces in the tree of a session (moveWorkspace and           *)
(* reorderWorkspace of createSessionStore.ts), in windows that share one   *)
(* file for each workspace.                                                *)
(*                                                                         *)
(* A body is the workspace's parentId and its sortOrder.  A move changes   *)
(* bodies of the window at once and each is then written by itself.  Of    *)
(* the content sync (module ContentSync) there remains: a write succeeds   *)
(* if nobody else wrote that file, and a body of another window replaces   *)
(* the window's own.  All workspaces are loaded.                           *)
(***************************************************************************)
EXTENDS Naturals, FiniteSets, FiniteSetsExt, Functions
CONSTANTS Window,
          Size,    \* the workspaces are 1..Size, in the order of the store's map
          MaxMoves \* bound: moves of all windows

Id == 1..Size
Root == 0          \* the parent of a workspace without one
Order == 0..Size

VARIABLES
  file,    \* [Id -> body]: the files
  bodies,  \* [Window -> [Id -> body]]: the workspaces in the window's store
  seen,    \* [Window -> [Id -> body]]: the body its next write is guarded by
  hung,    \* the windows whose event loop is caught in a walk up the tree
  mover,   \* the window that moved last
  crossed, \* a window moved before it had seen, or the other had written, all
  moves
vars == <<file, bodies, seen, hung, mover, crossed, moves>>

Siblings(tree, p) == {x \in Id : tree[x].parent = p}
(* The stable sort by sortOrder.                                           *)
Precedes(tree, x, y) ==
  \/ tree[x].order < tree[y].order
  \/ tree[x].order = tree[y].order /\ x < y
Index(tree, S, x) == Cardinality({y \in S : Precedes(tree, y, x)})

(* All that a walk from the workspace x towards the roots comes to, x      *)
(* included: what no set leaves out that has x and, with a workspace, its  *)
(* parent.                                                                 *)
Upwards(tree, x) ==
  {y \in Id : \A S \in SUBSET Id :
     x \in S /\ (\A z \in S : tree[z].parent \in S \cup {Root}) => y \in S}
IsForest(tree) == \A x \in Id : \E y \in Upwards(tree, x) : tree[y].parent = Root

(* Parents have smaller ids than their children, and siblings are ordered  *)
(* by id, which leaves out no shape of the forest.                         *)
Init ==
  /\ file \in {f \in [Id -> [parent : Id \cup {Root}, order : Order]] :
                 \A x \in Id : /\ f[x].parent < x
                               /\ f[x].order = Cardinality({y \in Siblings(f, f[x].parent) : y < x})}
  /\ bodies = [w \in Window |-> file]
  /\ seen = [w \in Window |-> file]
  /\ hung = {} /\ mover = (CHOOSE w \in Window : TRUE) /\ crossed = FALSE /\ moves = 0

-----------------------------------------------------------------------------
(* A slip: the walk begins one level too high.                             *)
CheckAncestorOfParent(tree, d, x) ==
  x # Root /\ tree[x].parent # Root /\ d \in Upwards(tree, tree[x].parent)

(* checkAncestor: does the walk from x come to d?  It does not end if it   *)
(* comes neither to d nor to a root.                                       *)
CheckAncestor(tree, d, x) == x # Root /\ d \in Upwards(tree, x)
WalkEnds(tree, d, x) ==
  x = Root \/ \E y \in Upwards(tree, x) : y = d \/ tree[y].parent = Root

NextSortOrder(tree, p) ==
  IF Siblings(tree, p) = {} THEN 0
  ELSE Max({tree[x].order : x \in Siblings(tree, p)}) + 1

ReindexSiblings(tree, p, d) ==
  LET S == Siblings(tree, p) \ {d}
  IN [x \in Id |-> IF x \in S THEN [tree[x] EXCEPT !.order = Index(tree, S, x)] ELSE tree[x]]

(* d among the siblings of t, before (0) or after (1) it: splice.          *)
Placed(tree, d, t, offset) ==
  LET p == tree[t].parent
      S == Siblings(tree, p) \ {d}
      at == Index(tree, S, t) + offset
  IN [x \in Id |->
        IF x = d THEN [parent |-> p, order |-> at]
        ELSE IF x \in S
          THEN LET i == Index(tree, S, x)
               IN [tree[x] EXCEPT !.order = IF i < at THEN i ELSE i + 1]
          ELSE tree[x]]

MovedOnto(tree, d, t) ==
  ReindexSiblings([tree EXCEPT ![d] = [parent |-> t, order |-> NextSortOrder(tree, t)]],
                  tree[d].parent, d)

MovedBeside(tree, d, t, offset) ==
  IF tree[d].parent = tree[t].parent
    THEN Placed(tree, d, t, offset) \* reorderWorkspace
    ELSE ReindexSiblings(Placed(tree, d, t, offset), tree[d].parent, d)

(* The window has seen all that was written, and no other has work left.   *)
UpToDate(w) ==
  /\ seen[w] = file
  /\ \A v \in Window \ {w} : bodies[v] = seen[v]

MoveWorkspace(w, d, t, position) ==
  LET tree == bodies[w]
      start == IF position = "onto" THEN t
               ELSE IF tree[d].parent = tree[t].parent THEN Root ELSE tree[t].parent
  IN /\ w \notin hung /\ d # t /\ moves < MaxMoves
     /\ moves' = moves + 1 /\ mover' = w
     /\ crossed' = (crossed \/ ~UpToDate(w))
     /\ IF ~WalkEnds(tree, d, start)
          THEN hung' = hung \cup {w} /\ UNCHANGED bodies
          ELSE /\ ~CheckAncestor(tree, d, start)
               /\ bodies' = [bodies EXCEPT ![w] =
                    CASE position = "onto" -> MovedOnto(tree, d, t)
                      [] position = "before" -> MovedBeside(tree, d, t, 0)
                      [] position = "after" -> MovedBeside(tree, d, t, 1)]
               /\ UNCHANGED hung
     /\ UNCHANGED <<file, seen>>

(* A write; one that conflicts leaves the matter to the other's event.     *)
WriteBody(w, x) ==
  /\ w \notin hung
  /\ bodies[w][x] # seen[w][x] /\ seen[w][x] = file[x]
  /\ file' = [file EXCEPT ![x] = bodies[w][x]]
  /\ seen' = [seen EXCEPT ![w][x] = bodies[w][x]]
  /\ UNCHANGED <<bodies, hung, mover, crossed, moves>>

BodyArrives(w, x) ==
  /\ w \notin hung
  /\ seen[w][x] # file[x]
  /\ bodies' = [bodies EXCEPT ![w][x] = file[x]]
  /\ seen' = [seen EXCEPT ![w][x] = file[x]]
  /\ UNCHANGED <<file, hung, mover, crossed, moves>>

Next ==
  \E w \in Window :
    \/ \E d, t \in Id, position \in {"onto", "before", "after"} :
         MoveWorkspace(w, d, t, position)
    \/ \E x \in Id : WriteBody(w, x) \/ BodyArrives(w, x)

Spec == Init /\ [][Next]_vars

-----------------------------------------------------------------------------
PlacesAreDistinct(tree) ==
  \A x, y \in Id : x # y /\ tree[x].parent = tree[y].parent => tree[x].order # tree[y].order

(* However long windows move and reorder workspaces one after the other,   *)
(* and in whatever order the bodies are written and arrive, the workspaces *)
(* stay a forest with a place of its own for each sibling in the window    *)
(* that moved last, and no window is caught in a walk (lines 1984-1994).   *)
(* Two windows that move without having seen each other's moves are        *)
(* excused: each checks its own tree, the files of the two workspaces do   *)
(* not conflict, and together they can close a cycle.                      *)
MovesKeepForest ==
  ~crossed => /\ IsForest(bodies[mover])
              /\ PlacesAreDistinct(bodies[mover])
              /\ hung = {}
=============================================================================
