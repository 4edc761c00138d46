----------------------------- MODULE FileWatcher ----------------------------
(***************************************************************************)
(* One watched file of the daemon: the compare-and-swap writes and deletes *)
(* of filesystem.rs under the write lock, the WriteFile and DeleteFile     *)
(* handlers of grpc_server.rs that report them, and file_watcher.rs, where *)
(* three mechanisms tell the subscribers of a change: the operating        *)
(* system's events, a polling loop, and the handlers' own reports.         *)
(*                                                                         *)
(* Reconciling a file and subscribing to it read the file while they hold  *)
(* the watcher's mutex, but the file changes without it.  A file's content *)
(* stands for its bytes and their SHA-256 alike.                           *)
(***************************************************************************)
EXTENDS Naturals, Sequences, FiniteSets

CONSTANTS
  Content,     \* contents a file may have
  Absent,      \* no file
  Unguarded,   \* a write without expected_sha256, and a delete
  Unreadable,  \* contents no watcher can read
  Oversized,   \* contents above MAX_POLL_FILE_SIZE
  Sub,         \* watch streams; each is opened once
  Task,        \* WriteFile and DeleteFile handlers running at one time
  Free,        \* the watcher's mutex is not held
  Cap,         \* capacity of a watch channel (64 in the code)
  Natives,     \* outcomes of registering a native watch (FALSE: NFS, no parent)
  Cancellable, \* the stages at which a handler's future may be dropped
  MaxEdits,    \* bound on the edits of other programs
  MaxWrites    \* bound on the WriteFile and DeleteFile calls

State == Content \cup {Absent}
Error == "error"

ASSUME WatcherAssumption ==
  /\ Absent \notin Content /\ Unguarded \notin State /\ Error \notin State
  /\ Unreadable \subseteq Content /\ Oversized \subseteq Content
  /\ Free \notin Sub \cup {"os", "poll"} /\ {"os", "poll"} \cap Sub = {}
  /\ Cap \in Nat \ {0} /\ Natives \subseteq BOOLEAN /\ Natives # {}
  /\ Cancellable \subseteq {"committing", "notifying"}
  /\ MaxEdits \in Nat /\ MaxWrites \in Nat

VARIABLES
  disk,      \* what the file system holds
  task,      \* the handlers, by stage
  orphans,   \* renames whose handler was dropped; the thread pool runs them
  osEvents,  \* notify_rx is not empty
  tracked,   \* Inner.entries has an entry for the file
  last,      \* entry.last_state
  subs,      \* entry.subscribers
  native,    \* entry.notify_registered
  mutex,     \* who holds Inner, and what it has read of the file
  gcDue,     \* poll_pass is between its reconcile and its clean-up
  phase,     \* a stream: new, open, ended by the daemon, closed by its client
  chan,      \* its channel
  seen,      \* the last event its client received
  missed,    \* history: streams that had an event dropped on a full channel
  disturbed, \* history: since the last comparison another program, or the rename of a
             \* dropped handler, changed the file while the write lock was held
  edits, writes

files == <<disk, task, orphans, disturbed, edits, writes>>
entry == <<tracked, last, subs, native>>
streams == <<phase, chan, seen, missed>>
vars == <<files, osEvents, entry, mutex, gcDue, streams>>

Idle == [stage |-> "idle"]
Stage(stage, from, to) == [stage |-> stage, from |-> from, to |-> to]
Unlocked == [who |-> Free, read |-> Absent]

Event == State \cup {Error}
Guard == State \cup {Unguarded}
Handling == {Idle} \cup {Stage(g, f, x) : g \in {"committing", "notifying"},
                                         f \in Guard, x \in State}
Holding == [who : Sub \cup {Free, "os", "poll"}, read : State]
Phase == {"new", "open", "ended", "closed"}

FilesOK ==
  /\ disk \in State
  /\ task \in [Task -> Handling]
  /\ orphans \subseteq [from : Guard, to : State]
  /\ disturbed \in BOOLEAN
  /\ edits \in 0..MaxEdits /\ writes \in 0..MaxWrites
EntryOK ==
  tracked \in BOOLEAN /\ native \in BOOLEAN /\ last \in State /\ subs \subseteq Sub
StreamsOK ==
  /\ phase \in [Sub -> Phase]
  /\ chan \in [Sub -> Seq(Event)]
  /\ seen \in [Sub -> Event \cup {Unguarded}]
  /\ missed \subseteq Sub

TypeOK ==
  /\ FilesOK /\ EntryOK /\ StreamsOK
  /\ osEvents \in BOOLEAN /\ gcDue \in BOOLEAN
  /\ mutex \in Holding

Init ==
  /\ disk = Absent
  /\ task = [t \in Task |-> Idle]
  /\ orphans = {} /\ disturbed = FALSE
  /\ osEvents = FALSE
  /\ tracked = FALSE /\ last = Absent /\ subs = {} /\ native = FALSE
  /\ mutex = Unlocked
  /\ gcDue = FALSE
  /\ phase = [s \in Sub |-> "new"]
  /\ chan = [s \in Sub |-> <<>>]
  /\ seen = [s \in Sub |-> Unguarded]
  /\ missed = {}
  /\ edits = 0 /\ writes = 0

-----------------------------------------------------------------------------
(* The file system                                                         *)

\* A change of the directory is an event for notify when it watches it.  The
\* events of mere reads are filtered out by event_may_change_content.
Changed(x) == disk' = x /\ osEvents' = (osEvents \/ native)

WriteLockUngranted == TRUE     \* mutant: the check runs outside the write lock
WriteLockFree == \A t \in Task : task[t].stage # "committing"

\* A change by whoever does not hold the write lock.
Disturbs(x) == Changed(x) /\ disturbed' = ~WriteLockFree

ExternalEdit ==
  /\ edits < MaxEdits
  /\ edits' = edits + 1
  /\ \E x \in State \ {disk} : Disturbs(x)
  /\ UNCHANGED <<task, orphans, writes, entry, mutex, gcDue, streams>>

Matches(from) == from \in {Unguarded, disk}

\* write_file_streaming and delete_file, up to the rename or the removal.  A
\* conflict is answered at once, and so is a guarded write over a file that
\* cannot be read.
BeginWrite(t) ==
  /\ task[t] = Idle
  /\ writes < MaxWrites
  /\ writes' = writes + 1
  /\ WriteLockFree
  /\ disturbed' = FALSE
  /\ \E from \in Guard, to \in State :
       /\ to = Absent => from = Unguarded
       /\ Matches(from)
       /\ from \notin Unreadable
       /\ task' = [task EXCEPT ![t] = Stage("committing", from, to)]
  /\ UNCHANGED <<disk, orphans, edits, osEvents, entry, mutex, gcDue, streams>>

\* The rename is done, the write lock is released, the handler goes on to
\* report the write.
Commit(t) ==
  /\ task[t].stage = "committing"
  /\ Changed(task[t].to)
  /\ task' = [task EXCEPT ![t].stage = "notifying"]
  /\ UNCHANGED <<orphans, disturbed, edits, writes, entry, mutex, gcDue, streams>>

\* The temporary file cannot be written or renamed; nobody is told.
CommitFails(t) ==
  /\ task[t].stage = "committing"
  /\ task' = [task EXCEPT ![t] = Idle]
  /\ UNCHANGED <<disk, orphans, disturbed, edits, writes, osEvents, entry, mutex, gcDue, streams>>

\* The client's call is cancelled.  What runs on the thread pool is not: a
\* rename goes through after the guard of the write lock is gone.
CancelHandler(t) ==
  /\ task[t].stage \in Cancellable
  /\ task' = [task EXCEPT ![t] = Idle]
  /\ orphans' = IF task[t].stage = "committing"
                THEN orphans \cup {[from |-> task[t].from, to |-> task[t].to]}
                ELSE orphans
  /\ UNCHANGED <<disk, disturbed, edits, writes, osEvents, entry, mutex, gcDue, streams>>

OrphanCommits ==
  \E o \in orphans :
    /\ orphans' = orphans \ {o}
    /\ Disturbs(o.to)
    /\ UNCHANGED <<task, edits, writes, entry, mutex, gcDue, streams>>

-----------------------------------------------------------------------------
(* Telling the subscribers                                                 *)

\* read_snapshot, with the size limit of a watch that only polling serves.
Readable(x, registered) ==
  x \notin Unreadable /\ (registered \/ x \notin Oversized)

\* send_snapshot to the targets, who keep their place when their channel is
\* full; newSub is a subscriber about to join with its first event.
Room(s) == Len(chan[s]) < Cap
Send(targets, event) ==
  /\ chan' = [s \in Sub |->
       IF s \in targets /\ Room(s) THEN Append(chan[s], event) ELSE chan[s]]
  /\ missed' = missed \cup {s \in targets : ~Room(s)}
  /\ UNCHANGED seen

OpenSubs == {s \in subs : phase[s] = "open"}

\* retain: an entry whose state changed keeps the subscribers that are there.
\* All changes of last_state go through here.
ChangedOnlyInExistence(x) ==     \* mutant: the hash is not compared
  (x = Absent) # (last = Absent)
Differs(x) == x # last

ApplySnapshot(x) ==
  IF tracked /\ Differs(x)
  THEN /\ last' = x
       /\ subs' = OpenSubs
       /\ Send(OpenSubs, x)
       /\ UNCHANGED <<tracked, native, phase>>
  ELSE UNCHANGED <<entry, streams>>

\* notify_written and notify_deleted, from what the handler wrote.
Notify(t) ==
  /\ task[t].stage = "notifying"
  /\ mutex = Unlocked
  /\ ApplySnapshot(task[t].to)
  /\ task' = [task EXCEPT ![t] = Idle]
  /\ UNCHANGED <<disk, orphans, disturbed, edits, writes, osEvents, mutex, gcDue>>

\* reconcile, from the lock to the end of the read.
LockAndRead(who) == mutex = Unlocked /\ mutex' = [who |-> who, read |-> disk]

ReadForEventEchoes ==            \* mutant: reading raises an event of its own
  IF tracked THEN LockAndRead("os") /\ osEvents' = native
             ELSE osEvents' = FALSE /\ UNCHANGED mutex
ReadForEvent ==
  IF tracked THEN LockAndRead("os") /\ osEvents' = FALSE
             ELSE osEvents' = FALSE /\ UNCHANGED mutex

OsEvent ==
  /\ osEvents
  /\ mutex = Unlocked
  /\ ReadForEvent
  /\ UNCHANGED <<files, entry, gcDue, streams>>

PollRead ==
  /\ tracked /\ ~gcDue
  /\ LockAndRead("poll")
  /\ UNCHANGED <<files, osEvents, entry, gcDue, streams>>

\* An unreadable file ends every subscriber's stream.
DrainSubscribers ==
  /\ subs' = {}
  /\ Send(OpenSubs, Error)
  /\ phase' = [s \in Sub |-> IF s \in OpenSubs THEN "ended" ELSE phase[s]]
  /\ UNCHANGED <<tracked, last, native>>

Reconcile ==
  /\ mutex.who \in {"os", "poll"}
  /\ IF Readable(mutex.read, native) THEN ApplySnapshot(mutex.read) ELSE DrainSubscribers
  /\ mutex' = Unlocked
  /\ gcDue' = (gcDue \/ mutex.who = "poll")
  /\ UNCHANGED <<files, osEvents>>

\* The rest of poll_pass: forget closed subscribers and an entry without any,
\* unwatch its directory, and try to watch it natively again.
Retained == OpenSubs

\* register_notify: a failed registration is retried by every poll pass.
Registered == IF native THEN {TRUE} ELSE Natives

PollCleanUp ==
  /\ gcDue
  /\ mutex = Unlocked
  /\ gcDue' = FALSE
  /\ subs' = Retained
  /\ tracked' = (Retained # {})
  /\ native' \in IF Retained # {} THEN Registered ELSE {FALSE}
  /\ last' = IF Retained # {} THEN last ELSE Absent
  /\ UNCHANGED <<files, osEvents, mutex, streams>>

\* subscribe: the entry and its native watch, then the read under the lock.
Subscribe(s) ==
  /\ phase[s] = "new"
  /\ LockAndRead(s)
  /\ tracked' = TRUE
  /\ native' \in Registered
  /\ UNCHANGED <<files, osEvents, last, subs, gcDue, streams>>

\* The first event is what was read; a state nobody had noticed goes to the
\* other subscribers too.  A file that cannot be read refuses the subscriber.
JoinQuietly(s, x) ==             \* mutant: the others are not told
  /\ last' = x
  /\ subs' = subs \cup {s}
  /\ Send({s}, x)
Join(s, x) ==
  /\ last' = x
  /\ subs' = (IF Differs(x) THEN OpenSubs ELSE subs) \cup {s}
  /\ Send((IF Differs(x) THEN OpenSubs ELSE {}) \cup {s}, x)

Subscribed(s) ==
  /\ mutex.who = s
  /\ mutex' = Unlocked
  /\ IF Readable(mutex.read, native)
     THEN /\ Join(s, mutex.read)
          /\ phase' = [phase EXCEPT ![s] = "open"]
     ELSE /\ phase' = [phase EXCEPT ![s] = "ended"]
          /\ UNCHANGED <<last, subs, chan, seen, missed>>
  /\ UNCHANGED <<files, osEvents, tracked, native, gcDue>>

-----------------------------------------------------------------------------
(* The clients of the streams                                              *)

Receive(s) ==
  /\ phase[s] \in {"open", "ended"}
  /\ chan[s] # <<>>
  /\ chan' = [chan EXCEPT ![s] = Tail(@)]
  /\ seen' = [seen EXCEPT ![s] = Head(chan[s])]
  /\ UNCHANGED <<files, osEvents, entry, mutex, gcDue, phase, missed>>

CloseStream(s) ==
  /\ phase[s] = "open"
  /\ phase' = [phase EXCEPT ![s] = "closed"]
  /\ chan' = [chan EXCEPT ![s] = <<>>]
  /\ UNCHANGED <<files, osEvents, entry, mutex, gcDue, seen, missed>>

\* The call is cancelled while it reads: the entry stays behind.
CancelSubscribe(s) ==
  /\ mutex.who = s
  /\ mutex' = Unlocked
  /\ phase' = [phase EXCEPT ![s] = "closed"]
  /\ UNCHANGED <<files, osEvents, entry, gcDue, chan, seen, missed>>

Handler(t) ==
  BeginWrite(t) \/ Commit(t) \/ CommitFails(t) \/ Notify(t) \/ CancelHandler(t)
Stream(s) ==
  Subscribe(s) \/ Subscribed(s) \/ CancelSubscribe(s) \/ Receive(s) \/ CloseStream(s)
Mechanism == OsEvent \/ PollRead \/ Reconcile \/ PollCleanUp

Next ==
  \/ ExternalEdit \/ OrphanCommits \/ Mechanism
  \/ \E t \in Task : Handler(t)
  \/ \E s \in Sub : Stream(s)

Spec == Init /\ [][Next]_vars

\* The polling loop never stops, started handlers and reads end, and clients
\* take their events.  Steps that wait for the watcher's mutex are strongly
\* fair: tokio's mutex serves its waiters in the order they came.
Fairness ==
  /\ SF_vars(OsEvent) /\ SF_vars(PollRead) /\ WF_vars(Reconcile) /\ SF_vars(PollCleanUp)
  /\ \A t \in Task : WF_vars(Commit(t) \/ CommitFails(t)) /\ SF_vars(Notify(t))
  /\ \A s \in Sub : WF_vars(Subscribed(s)) /\ WF_vars(Receive(s))
  /\ WF_vars(OrphanCommits)

FairSpec == Spec /\ Fairness

-----------------------------------------------------------------------------
(* Properties                                                              *)

\* The last thing a stream was sent.
LastSent(s) == IF chan[s] = <<>> THEN seen[s] ELSE chan[s][Len(chan[s])]

\* A subscriber whose channel never overflowed has been sent the state every
\* change is compared with.  A change is broadcast only when it differs from
\* that state, so a subscriber that fell out of step would stay there; the
\* comment in subscribe says that nothing is missed between the first event
\* and the broadcasts.
SubscribersInStep ==
  \A s \in subs : phase[s] = "open" /\ s \notin missed => LastSent(s) = last

\* No open stream is forgotten: clean-up, errors and the races of subscribing
\* with them leave it subscribed, or end it.
OpenIsSubscribed == \A s \in Sub : phase[s] = "open" => tracked /\ s \in subs

\* Every open stream is served by the watcher, and sent what it compares with.
StreamsFollow == SubscribersInStep /\ OpenIsSubscribed

\* A guarded write replaces the content it was compared with: two windows that
\* write from the same body never both succeed.  The daemon can promise it only
\* of its own handlers, so it is excused when another program or the rename of
\* a dropped handler, which outlives its lock, changed the file in between.
CasIsAtomic ==
  [][\A t \in Task : task[t].stage = "committing" /\ task'[t].stage = "notifying" =>
       Matches(task[t].from) \/ disturbed]_vars

\* Once the file is left alone, a stream that lost no event has shown its
\* client the file as it is, however late or out of order the handlers'
\* reports were.
Shown(s) == phase[s] = "open" => disk \in Unreadable \/ seen[s] = disk
StreamsConverge == \A s \in Sub : <>[](s \notin missed => Shown(s))

\* The operating system's events stop when the file is left alone: the reads
\* they cause do not cause events.
EventsQuiet == <>[]~osEvents
=============================================================================
