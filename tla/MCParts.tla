------------------------------ MODULE MCParts ------------------------------
(* Small instances of the components that share no state with the others   *)
(* or with each other: a behaviour is one of `part`, the rest stand still. *)
EXTENDS PtyHandles

CONSTANTS
  Call, MaxDisposals,                            \* GitRefresh
  Pipe, Result, Failure, QueueCap, MaxWrites,    \* ExecStream
  Window, Path, MaxAttempts, MaxOps,             \* WorktreeRegistry
  Size, MaxMoves,                                \* WorkspaceTree, and Window
  Screen, Blank, NoModel, MaxConfig, MaxOutputs, \* Analyzer
  MaxStarts, MaxFailures

ASSUME PartsAssumption ==
  /\ QueueCap \in Nat /\ Size \in Nat /\ Window # {}
  /\ {Result, Failure} \cap (Pipe \X Nat) = {} /\ Result # Failure \* answers are no output
  /\ None \notin [Path -> Nat \cup {None}] \* no file is no registry
  /\ None \notin Nat \X (Screen \cup {Blank}) \* nothing in flight is no snapshot

VARIABLES
  part,
  queuedResolvers, activeResolvers, inFlight, cooldownTimer, cool,
  asked, answered, forgotten, runs, disposals,
  handler, child, holding, timer, pipe, reader, queue, client, got, written, cut,
  registry, op, stamps,
  file, bodies, seen, hung, mover, crossed, moves,
  running, starts, config, screen, detector, analyzer, shown, requests,
  excused, outputs, failures

Git == INSTANCE GitRefresh
Exec == INSTANCE ExecStream
Registry == INSTANCE WorktreeRegistry WITH file <- registry
Tree == INSTANCE WorkspaceTree
Tab == INSTANCE Analyzer

gitVars == <<queuedResolvers, activeResolvers, inFlight, cooldownTimer, cool,
             asked, answered, forgotten, runs, disposals>>
execVars == <<handler, child, holding, timer, pipe, reader, queue, client, got, written, cut>>
registryVars == <<registry, op, stamps>>
treeVars == <<file, bodies, seen, hung, mover, crossed, moves>>
tabVars == <<running, starts, config, screen, detector, analyzer, shown, requests,
             excused, outputs, failures>>

AllRoots == [x \in 1..Size |-> [parent |-> 0, order |-> x - 1]]

PartsInit ==
  /\ part \in {"handles", "git", "exec", "registry", "tree", "tab"}
  /\ Init /\ Git!Init /\ Exec!Init /\ Registry!Init /\ Tree!Init /\ Tab!Init
  /\ part # "tree" => file = AllRoots

HandlesStep ==
  /\ part = "handles" /\ Next
  /\ UNCHANGED <<part, gitVars, execVars, registryVars, treeVars, tabVars>>
GitStep ==
  /\ part = "git" /\ Git!Next
  /\ UNCHANGED <<part, vars, execVars, registryVars, treeVars, tabVars>>
ExecStep ==
  /\ part = "exec" /\ Exec!Next
  /\ UNCHANGED <<part, vars, gitVars, registryVars, treeVars, tabVars>>
RegistryStep ==
  /\ part = "registry" /\ Registry!Next
  /\ UNCHANGED <<part, vars, gitVars, execVars, treeVars, tabVars>>
TreeStep ==
  /\ part = "tree" /\ Tree!Next
  /\ UNCHANGED <<part, vars, gitVars, execVars, registryVars, tabVars>>
TabStep ==
  /\ part = "tab" /\ Tab!Next
  /\ UNCHANGED <<part, vars, gitVars, execVars, registryVars, treeVars>>

PartsNext == HandlesStep \/ GitStep \/ ExecStep \/ RegistryStep \/ TreeStep \/ TabStep

PartsSpec ==
  /\ PartsInit /\ [][PartsNext]_<<part, vars, gitVars, execVars, registryVars, treeVars, tabVars>>
  /\ Fairness /\ Git!Fairness /\ Exec!Fairness \* asks nothing of a part in its initial state

(* A caller of refreshGit() is answered by a run that began after its call.*)
AskedIsAnswered == Git!AskedIsAnswered
(* The exit code of a command comes last, after all of its output.         *)
ResultIsComplete == Exec!ResultIsComplete
(* A command whose time is over is answered.                               *)
TimedOutEnds == Exec!TimedOutEnds
(* A change of the worktree registry changes the one entry it is about.    *)
OnlyItsEntry == Registry!OnlyItsEntry
(* Moves keep the workspaces a forest with distinct places.                *)
MovesKeepForest == Tree!MovesKeepForest
(* A tab at rest shows what was made of the screen it rests on.            *)
RestIsClassified == Tab!RestIsClassified
=============================================================================
