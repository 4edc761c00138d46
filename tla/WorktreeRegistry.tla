-------------------------- MODULE WorktreeRegistry --------------------------
(***************************************************************************)
(* The registry of known worktrees (worktreeRegistry.ts): one JSON file    *)
(* that all windows and applications change by reading it, changing one    *)
(* entry and writing the whole list back, guarded by the hash of what was  *)
(* read.                                                                   *)
(*                                                                         *)
(* The file is a function from paths to entries, None if there is no file; *)
(* an entry is the number of the operation that stamped it (`lastUsedAt`), *)
(* None if there is none.  The order of the list and list(), which only    *)
(* reads, are left out.  A guarded write is one step, which is what        *)
(* CasIsAtomic of FileWatcher says of the daemon.                          *)
(***************************************************************************)
EXTENDS Naturals
CONSTANTS Window, Path, None,
          MaxAttempts, \* MAX_CAS_RETRIES
          MaxOps       \* bound: operations of all windows

VARIABLES
  file,   \* the registry
  op,     \* [Window -> record]: the operation at the head of the window's queue
  stamps \* how many operations there were
vars == <<file, op, stamps>>

Idle == [at |-> "idle"]

Init ==
  /\ file = None
  /\ op = [w \in Window |-> Idle]
  /\ stamps = 0

(* The queue of a window runs one operation after the other.               *)
Enqueue(w, kind, p) ==
  /\ op[w].at = "idle" /\ stamps < MaxOps
  /\ stamps' = stamps + 1
  /\ op' = [op EXCEPT ![w] = [at |-> "reading", kind |-> kind, path |-> p, attempt |-> 0,
                              entry |-> IF kind = "upsert" THEN stamps + 1 ELSE None]]
  /\ UNCHANGED file

Returns(w) == op' = [op EXCEPT ![w] = Idle]

Parsed(f) == IF f = None THEN [p \in Path |-> None] ELSE f
Entries == Parsed(file)

(* mutate() of the entries read; a removal of what is not there is over.   *)
Mutated(entries, o) == [entries EXCEPT ![o.path] = o.entry]

ReadRegistryFile(w) ==
  /\ op[w].at = "reading"
  /\ IF op[w].kind = "remove" /\ Entries[op[w].path] = None
       THEN Returns(w)
       ELSE op' = [op EXCEPT ![w] = [at |-> "writing", kind |-> @.kind, path |-> @.path,
                                     entry |-> @.entry, attempt |-> @.attempt,
                                     guard |-> file, entries |-> Mutated(Entries, @)]]
  /\ UNCHANGED <<file, stamps>>

(* A slip: a conflict takes over the file's hash and not its entries.      *)
ConflictKeepsEntries(w) ==
  op' = [op EXCEPT ![w] = [@ EXCEPT !.guard = file, !.attempt = @ + 1]]

Conflict(w) ==
  op' = [op EXCEPT ![w] =
           IF @.attempt + 1 = MaxAttempts THEN Idle \* fails loudly
           ELSE [at |-> "reading", kind |-> @.kind, path |-> @.path,
                 entry |-> @.entry, attempt |-> @.attempt + 1]]

WriteFile(w) ==
  /\ op[w].at = "writing"
  /\ IF file = op[w].guard
       THEN file' = op[w].entries /\ Returns(w)
       ELSE Conflict(w) /\ UNCHANGED file
  /\ UNCHANGED stamps

(* A call fails, and the operation with it; a write may have been done.    *)
CallFails(w) ==
  /\ op[w].at # "idle"
  /\ \/ UNCHANGED file
     \/ op[w].at = "writing" /\ file = op[w].guard /\ file' = op[w].entries
  /\ Returns(w)
  /\ UNCHANGED stamps

Next ==
  \E w \in Window :
    \/ \E kind \in {"upsert", "remove"}, p \in Path : Enqueue(w, kind, p)
    \/ ReadRegistryFile(w) \/ WriteFile(w) \/ CallFails(w)

Spec == Init /\ [][Next]_vars

-----------------------------------------------------------------------------
(* An operation changes the one entry it is about, whatever other windows  *)
(* write between its read and its write and however often it has to begin  *)
(* again: "no window's update is silently lost" (line 80).                 *)
OnlyItsEntry ==
  [][\A p \in Path : Entries'[p] # Entries[p] =>
       \E w \in Window : op[w].at = "writing" /\ op[w].path = p /\ Entries'[p] = op[w].entry]_vars
=============================================================================
