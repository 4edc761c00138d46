----------------------------- MODULE ContentSync ----------------------------
(***************************************************************************)
(* One workspace's JSON file, shared by the windows of a session: the      *)
(* content sync of createSessionStore.ts.  A window writes its workspace   *)
(* with compare-and-swap, guarded by the body it last saw, and watches the *)
(* file; a body it wrote itself is only an echo, any other body replaces   *)
(* its workspace.  Attention marks are replayed over replaced workspaces   *)
(* until a body that carries them is on disk (workspaceAttention.ts).      *)
(*                                                                         *)
(* The daemon is what FileWatcher establishes of it: guarded writes are    *)
(* atomic, and each subscriber has the states changes are compared with in *)
(* order.  A body chains its parent's hash, so bodies are equal when their *)
(* hashes are.                                                             *)
(***************************************************************************)
EXTENDS Naturals, Sequences, FiniteSets
LOCAL INSTANCE SequencesExt

CONSTANTS
  Window,
  Edit,            \* what a user can change and change back in a workspace
  Revision,        \* attention revisions (random UUIDs in the code)
  None,            \* no revision, no body, no answer
  Absent,          \* no file
  StreamError,     \* the end of a watch stream
  RecentMax,       \* RECENT_HASHES_MAX
  MaxConflicts,    \* MAX_CONFLICT_STREAK
  MaxWatchRetries, \* MAX_WATCH_RETRIES
  MaxEdits,        \* bound on the edits
  MaxFaults        \* bound on refused writes, broken streams and lost connections

ASSUME ContentAssumption ==
  /\ None \notin Revision /\ Cardinality({Absent, None, StreamError}) = 3
  /\ {RecentMax, MaxConflicts} \subseteq Nat \ {0}
  /\ {MaxWatchRetries, MaxEdits, MaxFaults} \subseteq Nat

VARIABLES
  disk,    \* the file
  last,    \* the state the file watcher last sent its subscribers
  subs,    \* the windows whose watch the daemon serves
  chan,    \* events on their way to each window
  entry,   \* the workspace's entry in each window
  local,   \* the workspace each window shows
  sync,    \* WorkspaceSyncState
  rpc,     \* the write each window waits for
  link,    \* the connection, and how far a reconnect has got
  mine,    \* history: the bodies each store has sent
  misled,  \* history: how messages out of order have misled each window
  used     \* counters of the bounded actions

vars == <<disk, last, subs, chan, entry, local, sync, rpc, link, mine, misled, used>>

Value == [edits : SUBSET Edit, revision : Revision \cup {None}, seen : Revision \cup {None}]
NewWorkspace == [edits |-> {}, revision |-> None, seen |-> None]
Body(value, parent) == [value |-> value, parent |-> parent]

Mark == [type : {"record", "acknowledge"}, revision : Revision]

NoWrite == [stage |-> "idle"]
Fresh ==
  [lastSeen |-> Absent, lastWritten |-> None, recent |-> <<>>, watch |-> "none",
   pending |-> FALSE, dirty |-> FALSE, retry |-> FALSE, conflicts |-> 0,
   external |-> FALSE, retries |-> 0, marks |-> <<>>, written |-> {}, awaited |-> 0]

Loaded(w) == entry[w] \in {"loaded", "opError"}
Connected(w) == link[w] # "down"

Init ==
  /\ disk = Absent /\ last = Absent
  /\ subs = {}
  /\ chan = [w \in Window |-> <<>>]
  /\ entry = [w \in Window |-> "none"]
  /\ local = [w \in Window |-> NewWorkspace]
  /\ sync = [w \in Window |-> Fresh]
  /\ rpc = [w \in Window |-> NoWrite]
  /\ link = [w \in Window |-> "up"]
  /\ mine = [w \in Window |-> {}]
  /\ misled = [w \in Window |-> {}]
  /\ used = [edits |-> 0, marks |-> {}, faults |-> 0]

-----------------------------------------------------------------------------
(* The daemon                                                              *)

Broadcast(x) ==
  /\ last' = x
  /\ chan' = [w \in Window |-> IF w \in subs THEN Append(chan[w], x) ELSE chan[w]]

\* WriteFile: the comparison and the rename, then the report to the watcher,
\* then the answer.
Commit(w) ==
  /\ rpc[w].stage = "sent"
  /\ IF disk = rpc[w].guard
     THEN /\ disk' = rpc[w].body
          /\ rpc' = [rpc EXCEPT ![w].stage = "committed"]
     ELSE /\ rpc' = [rpc EXCEPT ![w].stage = "answered", ![w].answer = "conflict"]
          /\ UNCHANGED disk
  /\ UNCHANGED <<last, subs, chan, entry, local, sync, link, mine, misled, used>>

Report(w) ==
  /\ rpc[w].stage = "committed"
  /\ rpc' = [rpc EXCEPT ![w].stage = "answered", ![w].answer = "written"]
  /\ IF rpc[w].body # last THEN Broadcast(rpc[w].body) ELSE UNCHANGED <<last, chan>>
  /\ misled' = [v \in Window |->
       IF v \in subs /\ rpc[w].body \notin {last, disk} THEN misled[v] \cup {"report"}
       ELSE misled[v]]
  /\ UNCHANGED <<disk, subs, entry, local, sync, link, mine, used>>

\* The write fails for another reason than its guard.
Refuse(w) ==
  /\ rpc[w].stage = "sent"
  /\ used.faults < MaxFaults
  /\ used' = [used EXCEPT !.faults = @ + 1]
  /\ rpc' = [rpc EXCEPT ![w].stage = "answered", ![w].answer = "failed"]
  /\ UNCHANGED <<disk, last, subs, chan, entry, local, sync, link, mine, misled>>

\* The watcher notices a change nobody reported yet.
Detect ==
  /\ disk # last
  /\ Broadcast(disk)
  /\ UNCHANGED <<disk, subs, entry, local, sync, rpc, link, mine, misled, used>>

\* A watch opens: its first event is the file as it is.
Subscribe(w) ==
  /\ sync[w].watch = "opening"
  /\ Connected(w)
  /\ sync' = [sync EXCEPT ![w].watch = "open"]
  /\ subs' = subs \cup {w}
  /\ last' = disk
  /\ chan' = [v \in Window |->
       IF v = w \/ (v \in subs /\ disk # last) THEN Append(chan[v], disk) ELSE chan[v]]
  /\ UNCHANGED <<disk, entry, local, rpc, link, mine, misled, used>>

\* The stream breaks while the connection is healthy.
WatchBreaks(w) ==
  /\ w \in subs
  /\ used.faults < MaxFaults
  /\ used' = [used EXCEPT !.faults = @ + 1]
  /\ subs' = subs \ {w}
  /\ chan' = [chan EXCEPT ![w] = Append(@, StreamError)]
  /\ UNCHANGED <<disk, last, entry, local, sync, rpc, link, mine, misled>>

-----------------------------------------------------------------------------
(* The window's bookkeeping                                                *)

\* applyAttentionMutations: a record replaces the revision, an acknowledgement
\* counts for the revision it was given for.
ApplyMark(value, m) ==
  IF m.type = "record" THEN [value EXCEPT !.revision = m.revision]
  ELSE IF value.revision = m.revision THEN [value EXCEPT !.seen = m.revision]
  ELSE value
ApplyMarks(value, marks) == FoldLeft(ApplyMark, value, marks)

\* rememberHash
RememberNewest(recent, body) ==  \* mutant: only the newest body is remembered
  <<body>>
Remember(recent, body) ==
  IF body \in ToSet(recent) THEN recent
  ELSE IF Len(recent) = RecentMax THEN Append(Tail(recent), body)
  ELSE Append(recent, body)

Enqueue(s) == [s EXCEPT !.pending = TRUE]

\* setWorkspaceFileError; a dead connection's faults are not the workspace's.
FileError(w) ==
  entry' = IF ~Connected(w) THEN entry
           ELSE [entry EXCEPT ![w] = IF Loaded(w) THEN "opError" ELSE "error"]

\* reconcileAttentionWrite: marks the body carries are settled, and so are the
\* marks of the write that produced it.
Reconciled(s, body) ==
  LET carried(m) == m.revision = (IF m.type = "record" THEN body.value.revision
                                                       ELSE body.value.seen)
      committed == UNION {ToSet(x.marks) : x \in {y \in s.written : y.body = body}}
      left == SelectSeq(s.marks, LAMBDA m : ~carried(m) /\ m \notin committed)
  IN  [s EXCEPT !.marks = left,
                !.written = {x \in s.written :
                               x.body # body /\ ToSet(x.marks) \cap ToSet(left) # {}}]

Idle(w) == rpc[w] = NoWrite

\* A run of the write queue ends; flushDeferredWrites waits for the runs it
\* found.  After the last the store is disposed before its event loop turns.
RunEnds(s) == [s EXCEPT !.awaited = IF @ > 0 THEN @ - 1 ELSE 0]
Flushed(w) == link[w] = "flushing" /\ sync[w].awaited = 0

\* writeWorkspaceContent from its guard to its request, with the bookkeeping s.
Send(w, s, value, creating) ==
  LET body == Body(ApplyMarks(value, s.marks), s.lastSeen)
  IN  IF body = s.lastWritten
      THEN /\ sync' = [sync EXCEPT ![w] =
                RunEnds([s EXCEPT !.dirty = FALSE, !.external = FALSE])]
           /\ UNCHANGED <<rpc, mine>>
      ELSE /\ sync' = [sync EXCEPT ![w] =
                [s EXCEPT !.dirty = FALSE, !.external = FALSE,
                          !.recent = Remember(@, body),
                          !.written = IF s.marks = <<>> THEN @
                                      ELSE @ \cup {[body |-> body, marks |-> s.marks]}]]
           /\ rpc' = [rpc EXCEPT ![w] = [stage |-> "sent", body |-> body,
                guard |-> s.lastSeen, answer |-> None, creating |-> creating, live |-> TRUE]]
           /\ mine' = [mine EXCEPT ![w] = @ \cup {body}]

\* createWorkspaceFile writes the file first and watches it afterwards.
Create(w) ==
  /\ \A v \in Window : entry[v] = "none"
  /\ entry' = [entry EXCEPT ![w] = "loaded"]
  /\ Send(w, Fresh, NewWorkspace, TRUE)
  /\ UNCHANGED <<disk, last, subs, chan, local, link, misled, used>>

\* Another window learns of the workspace when its creator has published it,
\* and waits for the first event.
Join(w) ==
  /\ entry[w] = "none"
  /\ \E v \in Window : sync[v].watch # "none"
  /\ entry' = [entry EXCEPT ![w] = "loading"]
  /\ sync' = [sync EXCEPT ![w] = [Fresh EXCEPT !.watch = "opening"]]
  /\ UNCHANGED <<disk, last, subs, chan, local, rpc, link, mine, misled, used>>

\* A user changes the workspace, or changes it back.
LocalEdit(w) ==
  /\ Loaded(w) /\ ~Flushed(w)
  /\ used.edits < MaxEdits
  /\ used' = [used EXCEPT !.edits = @ + 1]
  /\ \E e \in Edit :
       local' = [local EXCEPT ![w].edits = IF e \in @ THEN @ \ {e} ELSE @ \cup {e}]
  /\ sync' = [sync EXCEPT ![w] = Enqueue(@)]
  /\ UNCHANGED <<disk, last, subs, chan, entry, rpc, link, mine, misled>>

\* queueAttention: something happened in the workspace, or the user has seen it.
MarkAttention(w) ==
  /\ Loaded(w) /\ ~Flushed(w)
  /\ \E m \in Mark \ used.marks :
       /\ m.type = "acknowledge" => local[w].revision = m.revision
       /\ m.type = "record" => \A n \in used.marks : n.revision # m.revision
       /\ used' = [used EXCEPT !.marks = @ \cup {m}]
       /\ sync' = [sync EXCEPT ![w] = Enqueue([sync[w] EXCEPT !.marks = Append(@, m)])]
  /\ UNCHANGED <<disk, last, subs, chan, entry, local, rpc, link, mine, misled>>

\* The write queue runs one write at a time.
RunWrite(w) ==
  /\ sync[w].pending /\ Idle(w)
  /\ LET s == [sync[w] EXCEPT !.pending = FALSE]
     IN  IF Connected(w) /\ Loaded(w)
         THEN Send(w, s, local[w], FALSE)
         ELSE /\ sync' = [sync EXCEPT ![w] = RunEnds([s EXCEPT !.dirty = @ \/ ~Connected(w)])]
              /\ UNCHANGED <<rpc, mine>>
  /\ UNCHANGED <<disk, last, subs, chan, entry, local, link, misled, used>>

RetriedWhenSeen(s, guard) ==     \* mutant: nothing waits for the winner's event
  IF s.lastSeen # guard THEN Enqueue(s) ELSE s
Retried(s, guard) ==
  IF s.lastSeen # guard THEN Enqueue(s) ELSE [s EXCEPT !.retry = TRUE]

\* The answer.  A conflict with a body the window has adopted leaves nothing
\* of its own to write but marks; otherwise it writes again on top of the
\* winner, now or when the winner's event comes.
Answered(w, s) ==
  CASE rpc[w].answer = "written" ->
         /\ sync' = [sync EXCEPT ![w] = [s EXCEPT !.lastWritten = rpc[w].body,
                       !.lastSeen = rpc[w].body, !.conflicts = 0]]
         /\ UNCHANGED entry
    [] rpc[w].answer = "failed" ->
         /\ sync' = [sync EXCEPT ![w] = [s EXCEPT !.dirty = TRUE]]
         /\ FileError(w)
    [] rpc[w].answer = "conflict" /\ s.external ->
         /\ sync' = [sync EXCEPT ![w] = IF s.marks # <<>> THEN Enqueue(s) ELSE s]
         /\ UNCHANGED entry
    [] rpc[w].answer = "conflict" /\ ~s.external /\ s.conflicts + 1 >= MaxConflicts ->
         /\ sync' = [sync EXCEPT ![w] = [s EXCEPT !.conflicts = @ + 1]]
         /\ FileError(w)
    [] OTHER ->
         /\ sync' = [sync EXCEPT ![w] = Retried([s EXCEPT !.conflicts = @ + 1], rpc[w].guard)]
         /\ UNCHANGED entry

\* A write that did not land leaves no body to settle marks by.
Forgotten(s, body) == [s EXCEPT !.written = {x \in @ : x.body # body}]

Reply(w) ==
  /\ rpc[w].stage = "answered"
  /\ rpc' = [rpc EXCEPT ![w] = NoWrite]
  /\ IF rpc[w].live
     THEN LET s == RunEnds([sync[w] EXCEPT !.watch = IF rpc[w].creating THEN "opening" ELSE @])
          IN  Answered(w, IF rpc[w].answer = "written" THEN s ELSE Forgotten(s, rpc[w].body))
     ELSE UNCHANGED <<sync, entry>>
  /\ UNCHANGED <<disk, last, subs, chan, local, link, mine, misled, used>>

\* Answers and events come on separate streams.  An event overtakes the answer
\* to a write when it was sent after the write's own and comes first.
Overtakes(w) ==
  /\ rpc[w].stage = "answered"
  /\ rpc[w].answer = "written"
  /\ rpc[w].body \notin ToSet(chan[w])

MayArrive(w) == chan[w] # <<>> /\ ~Flushed(w)

\* onFileEvent
OwnEcho(w) == Head(chan[w]) \in ToSet(sync[w].recent)

Present(w) ==
  /\ MayArrive(w)
  /\ Head(chan[w]) \notin {Absent, StreamError}
  /\ chan' = [chan EXCEPT ![w] = Tail(@)]
  /\ LET body == Head(chan[w])
         s == Reconciled([sync[w] EXCEPT !.retries = 0, !.lastSeen = body], body)
     IN  \/ /\ OwnEcho(w)
            /\ sync' = [sync EXCEPT ![w] =
                 IF s.retry THEN Enqueue([s EXCEPT !.retry = FALSE]) ELSE s]
            /\ local' = IF Loaded(w)
                        THEN [local EXCEPT ![w].revision = body.value.revision,
                                           ![w].seen = body.value.seen]
                        ELSE local
            /\ UNCHANGED entry
         \/ /\ ~OwnEcho(w)
            /\ LET t == [s EXCEPT !.retry = FALSE, !.external = TRUE, !.conflicts = 0,
                                  !.recent = Remember(@, body)]
               IN  sync' = [sync EXCEPT ![w] = IF t.marks # <<>> THEN Enqueue(t) ELSE t]
            /\ local' = [local EXCEPT ![w] = body.value]
            /\ entry' = [entry EXCEPT ![w] = IF Loaded(w) THEN @ ELSE "loaded"]
  /\ misled' = [misled EXCEPT ![w] = IF Overtakes(w) THEN @ \cup {"answer"} ELSE @ \ {"answer"}]
  /\ UNCHANGED <<disk, last, subs, rpc, link, mine, used>>

FileMissing(w) ==
  /\ MayArrive(w)
  /\ Head(chan[w]) = Absent
  /\ chan' = [chan EXCEPT ![w] = Tail(@)]
  /\ sync' = [sync EXCEPT ![w].retries = 0]
  /\ FileError(w)
  /\ UNCHANGED <<disk, last, subs, local, rpc, link, mine, misled, used>>

\* reopenWatchAfterError
WatchError(w) ==
  /\ MayArrive(w)
  /\ Head(chan[w]) = StreamError
  /\ chan' = [chan EXCEPT ![w] = Tail(@)]
  /\ sync' = [sync EXCEPT ![w].retries = @ + 1,
       ![w].watch = IF sync[w].retries + 1 > MaxWatchRetries THEN "none" ELSE "retry"]
  /\ IF sync[w].retries + 1 > MaxWatchRetries THEN FileError(w) ELSE UNCHANGED entry
  /\ UNCHANGED <<disk, last, subs, local, rpc, link, mine, misled, used>>

WatchTimer(w) ==
  /\ sync[w].watch = "retry" /\ ~Flushed(w)
  /\ sync' = [sync EXCEPT ![w].watch = IF Connected(w) THEN "opening" ELSE "none"]
  /\ UNCHANGED <<disk, last, subs, chan, entry, local, rpc, link, mine, misled, used>>

\* clearWorkspaceError
ClearError(w) ==
  /\ entry[w] = "opError" /\ ~Flushed(w)
  /\ entry' = [entry EXCEPT ![w] = "loaded"]
  /\ UNCHANGED <<disk, last, subs, chan, local, sync, rpc, link, mine, misled, used>>

-----------------------------------------------------------------------------
(* The connection                                                          *)

\* The transport fails: the write in flight is rejected, executed or not, and
\* the errors of the workspace were those of the connection.
Drop(w) ==
  /\ link[w] = "up" /\ entry[w] # "none"
  /\ used.faults < MaxFaults
  /\ used' = [used EXCEPT !.faults = @ + 1]
  /\ link' = [link EXCEPT ![w] = "down"]
  /\ subs' = subs \ {w}
  /\ chan' = [chan EXCEPT ![w] = <<>>]
  /\ rpc' = [rpc EXCEPT ![w] = NoWrite]
  /\ sync' = IF Idle(w) \/ ~rpc[w].live THEN sync
             ELSE [sync EXCEPT ![w] = [Forgotten(@, rpc[w].body) EXCEPT !.dirty = TRUE]]
  /\ entry' = [entry EXCEPT ![w] = IF @ = "opError" THEN "loaded" ELSE @]
  /\ UNCHANGED <<disk, last, local, mine, misled>>

\* handleConnectionStatusChange: the main process opens the watches again, the
\* window enqueues what it could not write.
Reconnect(w) ==
  /\ link[w] = "down"
  /\ link' = [link EXCEPT ![w] = "back"]
  /\ sync' = [sync EXCEPT ![w] =
       [(IF @.dirty THEN Enqueue(@) ELSE @) EXCEPT
         !.watch = IF @ = "open" THEN "opening" ELSE @]]
  /\ UNCHANGED <<disk, last, subs, chan, entry, local, rpc, mine, misled, used>>

\* handleReconnected: flushDeferredWrites waits for the writes it finds in the
\* queue.
Flush(w) ==
  /\ link[w] = "back"
  /\ link' = [link EXCEPT ![w] = "flushing"]
  /\ LET s == IF sync[w].dirty THEN Enqueue(sync[w]) ELSE sync[w]
     IN  sync' = [sync EXCEPT ![w] =
           [s EXCEPT !.awaited = Cardinality({x \in {"queued"} : s.pending})
                                 + Cardinality({x \in {"running"} : ~Idle(w)})]]
  /\ UNCHANGED <<disk, last, subs, chan, entry, local, rpc, mine, misled, used>>

\* Then it disposes the store and builds a new one from the file.  A write that
\* is queued by then is sent, but nobody handles its answer.
Rebuild(w) ==
  /\ Flushed(w) /\ ~sync[w].pending
  /\ link' = [link EXCEPT ![w] = "up"]
  /\ sync' = [sync EXCEPT ![w] = [Fresh EXCEPT !.watch = "opening"]]
  /\ entry' = [entry EXCEPT ![w] = "loading"]
  /\ mine' = [mine EXCEPT ![w] = {}]
  /\ misled' = [misled EXCEPT ![w] = {}]
  /\ subs' = subs \ {w}
  /\ chan' = [chan EXCEPT ![w] = <<>>]
  /\ rpc' = IF Idle(w) THEN rpc ELSE [rpc EXCEPT ![w].live = FALSE]
  /\ UNCHANGED <<disk, last, local, used>>

-----------------------------------------------------------------------------
Daemon(w) == Commit(w) \/ Report(w) \/ Refuse(w) \/ Subscribe(w) \/ WatchBreaks(w)
User(w) == Create(w) \/ Join(w) \/ LocalEdit(w) \/ MarkAttention(w) \/ ClearError(w)
Store(w) ==
  RunWrite(w) \/ Reply(w) \/ Present(w) \/ FileMissing(w) \/ WatchError(w) \/ WatchTimer(w)
Connection(w) == Drop(w) \/ Reconnect(w) \/ Flush(w) \/ Rebuild(w)

Next == Detect \/ \E w \in Window : Daemon(w) \/ User(w) \/ Store(w) \/ Connection(w)

Spec == Init /\ [][Next]_vars

-----------------------------------------------------------------------------
(* Properties                                                              *)

\* The types, and the bounds of the bookkeeping: a ring of RecentMax bodies,
\* a streak of conflicts that stops at its threshold, writes remembered only
\* for marks that are still to be settled.
SyncOK(s) ==
  /\ {s.pending, s.dirty, s.retry, s.external} \subseteq BOOLEAN
  /\ s.watch \in {"none", "opening", "open", "retry"}
  /\ Len(s.recent) <= RecentMax
  /\ s.conflicts \in Nat /\ s.retries \in 0..(MaxWatchRetries + 1)
  /\ s.awaited \in 0..2
  /\ ToSet(s.marks) \subseteq Mark
  /\ \A x \in s.written : x.body.value \in Value /\ ToSet(x.marks) \cap ToSet(s.marks) # {}

ContentTypeOK ==
  /\ disk # Absent => disk.value \in Value
  /\ \A w \in Window :
       /\ entry[w] \in {"none", "loading", "loaded", "opError", "error"}
       /\ link[w] \in {"up", "down", "back", "flushing"}
       /\ local[w] \in Value
       /\ SyncOK(sync[w])
       /\ w \in subs => sync[w].watch = "open"

Settled ==
  /\ disk = last
  /\ \A w \in Window : /\ Idle(w) /\ ~sync[w].pending /\ chan[w] = <<>>
                       /\ sync[w].watch \notin {"opening", "retry"} /\ link[w] = "up"

\* When nothing is on its way any more, every window shows the file, with its
\* user's attention marks on disk, unless it has told its user of an error or
\* the order of its messages has misled it.  Two orders do.  An event overtakes
\* the answer to a write: the answer sets lastSeenSha back to a body that is no
\* longer the file, and the conflict of the next write waits for an event that
\* has come already, until there is another one.  And a write is reported after
\* a later one: the window adopts the older body, and takes the newer one, when
\* it comes again, for an echo, until its store is rebuilt.
Excused(w) == ~Loaded(w) \/ sync[w].dirty \/ sync[w].watch = "none"
                \/ sync[w].conflicts >= MaxConflicts \/ misled[w] # {}
KeepsUp ==
  Settled => \A w \in Window : Excused(w) \/ (local[w] = disk.value /\ sync[w].marks = <<>>)

\* Both together: the bookkeeping stays within its bounds, and the window shows
\* the file once it has all of its news in order.
WindowsKeepUp == ContentTypeOK /\ KeepsUp

\* A window's own body never replaces its workspace, which may have changed
\* since.
EchoNotApplied ==
  [][\A w \in Window :
       Present(w) /\ Head(chan[w]) \in mine[w] => local'[w].edits = local[w].edits]_vars

=============================================================================
