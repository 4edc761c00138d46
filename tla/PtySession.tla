----------------------------- MODULE PtySession -----------------------------
(***************************************************************************)
(* One pseudo terminal of the daemon (PtyManager, read_pty_loop) and the   *)
(* streams attached to it (the pty_stream handler), from its creation to   *)
(* the death of its program and its removal by kill.                       *)
(*                                                                         *)
(* The reader task publishes the program's output to a replay buffer and   *)
(* to one bounded queue for each stream.  A stream's output task replays   *)
(* the buffer and then forwards data, sizes and the exit, which come on    *)
(* three channels; its input task inputs, resizes and takes the focus.     *)
(* Every access to the session is one step under its mutex; between two    *)
(* of them anything may happen.                                            *)
(*                                                                         *)
(* A chunk of output is its number.  A size is the number of the resize    *)
(* that chose it, 0 the size the terminal was created with.  The deque     *)
(* raw_buffer is kept as its chunks (raw) and its resizes (marks), each    *)
(* with the number of the chunk it follows.                                *)
(***************************************************************************)
EXTENDS Naturals, Sequences

CONSTANTS
  Att,         \* attachments: calls of PtyStream
  Terminals,   \* those attached as terminals; the others write ungated
  Nobody,      \* input_owner is None
  RawCap,      \* RAW_BUFFER_CAP, in chunks
  QueueCap,    \* PTY_SUBSCRIBER_CAP
  MaxChunks, MaxMessages   \* bounds: chunks of output, messages of clients

ASSUME PtyAssumption ==
  /\ Terminals \subseteq Att /\ Nobody \notin Att
  /\ RawCap \in Nat /\ QueueCap \in Nat
  /\ MaxChunks \in Nat /\ MaxMessages \in Nat

VARIABLES
  log,       \* history: all chunks published, in order
  screen,    \* the parser: the chunks evicted from the buffer ...
  shown,     \* ... and its size
  raw, marks,\* raw_buffer
  size,      \* cols and rows
  subs,      \* data_subscribers, by attachment
  owner,     \* input_owner
  killed,    \* removed by kill
  child,     \* "running", "dead" and not yet waited for, "reaped"
  reader     \* read_pty_loop: "idle", "holding" a chunk, "ended"
buffer == <<log, screen, shown, raw, marks, size>>
tasks == <<killed, child, reader>>

VARIABLES
  stage,     \* the handler's progress
  replay,    \* the chunks of the snapshot it has still to send
  queue,     \* its data channel
  exitRx,    \* the exit is in its broadcast receiver
  sizeRx,    \* the newest size in its broadcast receiver, or NoSize
  view,      \* the last size sent, or to be sent with the replay
  got,       \* the chunks sent
  fin        \* how the output ended
output == <<stage, replay, queue, exitRx, sizeRx, view, got, fin>>

VARIABLES
  open,      \* the client still holds the call
  input,     \* the input task: "none", "idle", "writing", "ended"
  inputs     \* how many messages clients sent: focus, write, resize
client == <<open, input, inputs>>

VARIABLES
  unseen,    \* history: streams that missed the exit between two locks
  skipped,   \* history: streams that missed the last resize likewise
  cut,       \* history: the length of the log when a stream was dropped
  overtaken  \* history: streams with a write under way since the focus changed
history == <<unseen, skipped, cut, overtaken>>
vars == <<buffer, subs, owner, tasks, output, client, history>>

Chunk == 1..MaxChunks
Size == 0..MaxMessages
NoSize == MaxMessages + 1
Uncut == MaxChunks + 1
Stage == {"new", "replaying", "checking", "subscribing", "sizing", "live", "done"}
Exited == child = "reaped"

TypeOK ==
  /\ log \in Seq(Chunk) /\ screen \in Seq(Chunk) /\ raw \in Seq(Chunk)
  /\ shown \in Size /\ size \in Size /\ marks \subseteq [after : Nat, size : Size]
  /\ subs \subseteq Att /\ owner \in Att \cup {Nobody}
  /\ killed \in BOOLEAN
  /\ child \in {"running", "dead", "reaped"}
  /\ reader \in {"idle", "holding", "ended"}
  /\ stage \in [Att -> Stage]
  /\ replay \in [Att -> Seq(Chunk)] /\ queue \in [Att -> Seq(Chunk)]
  /\ got \in [Att -> Seq(Chunk)]
  /\ exitRx \in [Att -> BOOLEAN]
  /\ sizeRx \in [Att -> Size \cup {NoSize}] /\ view \in [Att -> Size]
  /\ fin \in [Att -> {"none", "exit", "overflow", "silent", "gone"}]
  /\ open \in [Att -> BOOLEAN]
  /\ input \in [Att -> {"none", "idle", "writing", "ended"}]
  /\ inputs \in Nat
  /\ unseen \subseteq Att /\ skipped \subseteq Att /\ overtaken \subseteq Att
  /\ cut \in [Att -> 0..Uncut]

Init ==
  /\ log = <<>> /\ screen = <<>> /\ raw = <<>> /\ marks = {}
  /\ shown = 0 /\ size = 0
  /\ subs = {} /\ owner = Nobody
  /\ killed = FALSE /\ child = "running" /\ reader = "idle"
  /\ stage = [a \in Att |-> "new"]
  /\ replay = [a \in Att |-> <<>>] /\ queue = [a \in Att |-> <<>>]
  /\ exitRx = [a \in Att |-> FALSE] /\ sizeRx = [a \in Att |-> NoSize]
  /\ view = [a \in Att |-> 0] /\ got = [a \in Att |-> <<>>]
  /\ fin = [a \in Att |-> "none"]
  /\ open = [a \in Att |-> TRUE] /\ input = [a \in Att |-> "none"] /\ inputs = 0
  /\ unseen = {} /\ skipped = {} /\ overtaken = {}
  /\ cut = [a \in Att |-> Uncut]

-----------------------------------------------------------------------------
(* The program and the reader task                                         *)

\* The chunk is read from the master before the session is locked.
ReadMaster ==
  /\ reader = "idle" /\ Len(log) < MaxChunks
  /\ reader' = "holding"
  /\ UNCHANGED <<buffer, subs, owner, killed, child, output, client, history>>

Room(a) == stage[a] # "done" /\ Len(queue[a]) < QueueCap

\* The size the parser has after a resize of each of these marks.
Newest(s, ms) ==
  LET sizes == {s} \cup {m.size : m \in ms}
  IN  CHOOSE n \in sizes : \A k \in sizes : k <= n

\* Mutant: resizes are dropped from the buffer without telling the parser.
EvictSilently(chunks) ==
  LET n == IF Len(chunks) > RawCap THEN Len(chunks) - RawCap ELSE 0
      passed == {m \in marks : m.after < Len(screen) + n}
  IN  /\ screen' = screen \o SubSeq(chunks, 1, n)
      /\ raw' = SubSeq(chunks, n + 1, Len(chunks))
      /\ shown' = shown
      /\ marks' = marks \ passed

\* The oldest events go to the parser until no more than RawCap chunks are left.
Evict(chunks) ==
  LET n == IF Len(chunks) > RawCap THEN Len(chunks) - RawCap ELSE 0
      passed == {m \in marks : m.after < Len(screen) + n}
  IN  /\ screen' = screen \o SubSeq(chunks, 1, n)
      /\ raw' = SubSeq(chunks, n + 1, Len(chunks))
      /\ shown' = Newest(shown, passed)
      /\ marks' = marks \ passed

Publish ==
  /\ reader = "holding"
  /\ LET c == Len(log) + 1
         kept == {a \in subs : Room(a)}
     IN  /\ log' = Append(log, c)
         /\ Evict(Append(raw, c))
         /\ subs' = kept
         /\ queue' = [a \in Att |-> IF a \in kept THEN Append(queue[a], c) ELSE queue[a]]
         /\ cut' = [a \in Att |-> IF a \in subs \ kept THEN Len(log) ELSE cut[a]]
  /\ reader' = "idle"
  /\ UNCHANGED <<size, owner, killed, child, stage, replay, exitRx, sizeRx, view,
                 got, fin, client, unseen, skipped, overtaken>>

\* EIO: the program is gone and what it had written has been read.
ReaderEnds ==
  /\ reader = "idle" /\ child # "running"
  /\ reader' = "ended"
  /\ UNCHANGED <<buffer, subs, owner, killed, child, output, client, history>>

ChildDies ==
  /\ child = "running" /\ child' = "dead"
  /\ UNCHANGED <<buffer, subs, owner, killed, reader, output, client, history>>

\* Mutant: the exit is recorded but not broadcast.
ReapUnheard ==
  /\ child = "dead" /\ child' = "reaped"
  /\ exitRx' = exitRx
  /\ unseen' = unseen \cup {a \in Att : stage[a] = "subscribing"}
  /\ subs' = IF killed THEN {} ELSE subs
  /\ UNCHANGED <<buffer, owner, killed, reader, stage, replay, queue, sizeRx, view,
                 got, fin, client, skipped, cut, overtaken>>

\* The wait task records the exit and broadcasts it to the receivers there are.
\* It is the last owner of a session that was killed, whose senders go with it.
Reap ==
  /\ child = "dead" /\ child' = "reaped"
  /\ exitRx' = [a \in Att |-> exitRx[a] \/ stage[a] \in {"sizing", "live"}]
  /\ unseen' = unseen \cup {a \in Att : stage[a] = "subscribing"}
  /\ subs' = IF killed THEN {} ELSE subs
  /\ UNCHANGED <<buffer, owner, killed, reader, stage, replay, queue, sizeRx, view,
                 got, fin, client, skipped, cut, overtaken>>

\* Killing aborts the reader with the chunk it holds, and closes the master.
Kill ==
  /\ ~killed /\ killed' = TRUE
  /\ reader' = "ended"
  /\ subs' = IF Exited THEN {} ELSE subs
  /\ UNCHANGED <<buffer, owner, child, output, client, history>>

-----------------------------------------------------------------------------
(* The output task of a stream                                             *)

\* Mutant: the snapshot is the buffer without what the parser took over.
AttachToBuffer(a) ==
  /\ stage[a] = "new"
  /\ \/ /\ ~killed
        /\ stage' = [stage EXCEPT ![a] = "replaying"]
        /\ subs' = subs \cup {a}
        /\ replay' = [replay EXCEPT ![a] = raw]
        /\ view' = [view EXCEPT ![a] = Newest(shown, marks)]
        /\ fin' = fin
     \/ /\ killed
        /\ stage' = [stage EXCEPT ![a] = "done"]
        /\ fin' = [fin EXCEPT ![a] = "silent"]
        /\ UNCHANGED <<subs, replay, view>>
  /\ UNCHANGED <<buffer, owner, tasks, queue, exitRx, sizeRx, got, client, history>>

\* subscribe_with_initial_state: the subscriber and the snapshot, at once.
Attach(a) ==
  /\ stage[a] = "new"
  /\ \/ /\ ~killed
        /\ stage' = [stage EXCEPT ![a] = "replaying"]
        /\ subs' = subs \cup {a}
        /\ replay' = [replay EXCEPT ![a] = screen \o raw]
        /\ view' = [view EXCEPT ![a] = Newest(shown, marks)]
        /\ fin' = fin
     \/ /\ killed
        /\ stage' = [stage EXCEPT ![a] = "done"]
        /\ fin' = [fin EXCEPT ![a] = "silent"]
        /\ UNCHANGED <<subs, replay, view>>
  /\ UNCHANGED <<buffer, owner, tasks, queue, exitRx, sizeRx, got, client, history>>

\* The task returns and its receivers are dropped.
Ended(a, how) ==
  /\ stage' = [stage EXCEPT ![a] = "done"]
  /\ fin' = [fin EXCEPT ![a] = IF open[a] THEN how ELSE "gone"]
  /\ queue' = [queue EXCEPT ![a] = <<>>]
  /\ exitRx' = [exitRx EXCEPT ![a] = FALSE]
  /\ sizeRx' = [sizeRx EXCEPT ![a] = NoSize]

Continue(a, next) ==
  /\ stage' = [stage EXCEPT ![a] = next]
  /\ UNCHANGED <<fin, queue, exitRx, sizeRx>>

SendReplay(a) ==
  /\ stage[a] = "replaying"
  /\ IF open[a]
     THEN Continue(a, "checking") /\ got' = [got EXCEPT ![a] = replay[a]]
     ELSE Ended(a, "gone") /\ got' = got
  /\ replay' = [replay EXCEPT ![a] = <<>>]
  /\ UNCHANGED <<buffer, subs, owner, tasks, view, client, history>>

\* A session that is gone by now is not noticed here but at the next lock.
CheckExit(a) ==
  /\ stage[a] = "checking"
  /\ IF Exited /\ ~killed THEN Ended(a, "exit") ELSE Continue(a, "subscribing")
  /\ UNCHANGED <<buffer, subs, owner, tasks, replay, view, got, client, history>>

SubscribeExit(a) ==
  /\ stage[a] = "subscribing"
  /\ IF killed THEN Ended(a, "silent") ELSE Continue(a, "sizing")
  /\ UNCHANGED <<buffer, subs, owner, tasks, replay, view, got, client, history>>

SubscribeResize(a) ==
  /\ stage[a] = "sizing"
  /\ IF killed
     THEN Ended(a, "silent") /\ input' = input
     ELSE Continue(a, "live") /\ input' = [input EXCEPT ![a] = "idle"]
  /\ UNCHANGED <<buffer, subs, owner, tasks, replay, view, got, open, inputs, history>>

ForwardData(a) ==
  /\ stage[a] = "live" /\ queue[a] # <<>>
  /\ IF open[a]
     THEN /\ got' = [got EXCEPT ![a] = Append(got[a], Head(queue[a]))]
          /\ queue' = [queue EXCEPT ![a] = Tail(queue[a])]
          /\ UNCHANGED <<stage, fin, exitRx, sizeRx>>
     ELSE Ended(a, "gone") /\ got' = got
  /\ UNCHANGED <<buffer, subs, owner, tasks, replay, view, client, history>>

\* The channel yields None when its sender is gone and what it held was taken.
ForwardOverflow(a) ==
  /\ stage[a] = "live" /\ queue[a] = <<>> /\ a \notin subs
  /\ Ended(a, "overflow")
  /\ UNCHANGED <<buffer, subs, owner, tasks, replay, view, got, client, history>>

\* Mutant: the loop goes on after the exit.
ForwardExitGoesOn(a) ==
  /\ stage[a] = "live" /\ exitRx[a]
  /\ fin' = [fin EXCEPT ![a] = "exit"]
  /\ UNCHANGED <<buffer, subs, owner, tasks, stage, replay, queue, exitRx, sizeRx, view, got,
                 client, history>>

ForwardExit(a) ==
  /\ stage[a] = "live" /\ exitRx[a]
  /\ Ended(a, "exit")
  /\ UNCHANGED <<buffer, subs, owner, tasks, replay, view, got, client, history>>

\* What is sent to a client that left is lost, which only data notices.
ForwardResize(a) ==
  /\ stage[a] = "live" /\ sizeRx[a] # NoSize
  /\ view' = [view EXCEPT ![a] = sizeRx[a]]
  /\ sizeRx' = [sizeRx EXCEPT ![a] = NoSize]
  /\ UNCHANGED <<buffer, subs, owner, tasks, stage, replay, queue, exitRx, got, fin,
                 client, history>>

-----------------------------------------------------------------------------
(* The client and the input task of its stream                             *)

Leave(a) ==
  /\ stage[a] # "new" /\ open[a]
  /\ open' = [open EXCEPT ![a] = FALSE]
  /\ UNCHANGED <<buffer, subs, owner, tasks, output, input, inputs, history>>

Writing == {b \in Att : input[b] = "writing"}

Focus(a) ==
  /\ input[a] = "idle" /\ open[a] /\ ~killed /\ inputs < MaxMessages
  /\ owner' = a /\ inputs' = inputs + 1
  /\ overtaken' = IF owner = a THEN overtaken ELSE Writing
  /\ UNCHANGED <<buffer, subs, tasks, output, open, input, unseen, skipped, cut>>

Locked(a) == a \in Terminals /\ owner \notin {a, Nobody}

\* Mutant: the owner is not looked at.
BeginWriteUngated(a) ==
  /\ input[a] = "idle" /\ open[a] /\ inputs < MaxMessages
  /\ input' = [input EXCEPT ![a] = "writing"]
  /\ inputs' = inputs + 1
  /\ UNCHANGED <<buffer, subs, owner, tasks, output, open, history>>

\* write_from reads the owner and lets go of the session before it writes; a
\* write refused at this point is dropped and the task takes the next message.
BeginWrite(a) ==
  /\ input[a] = "idle" /\ open[a] /\ inputs < MaxMessages
  /\ killed \/ ~Locked(a)
  /\ input' = [input EXCEPT ![a] = "writing"]
  /\ inputs' = inputs + 1
  /\ UNCHANGED <<buffer, subs, owner, tasks, output, open, history>>

\* The bytes of a program that exited go nowhere; those for a session that is
\* gone are an error, which ends the call.
FinishWrite(a) ==
  /\ input[a] = "writing"
  /\ IF killed
     THEN /\ input' = [input EXCEPT ![a] = "ended"]
          /\ open' = [open EXCEPT ![a] = FALSE]
     ELSE input' = [input EXCEPT ![a] = "idle"] /\ open' = open
  /\ overtaken' = overtaken \ {a}
  /\ UNCHANGED <<buffer, subs, owner, tasks, output, inputs, unseen, skipped, cut>>

\* A receiver that lags keeps the newest size.
Resize(a) ==
  /\ input[a] = "idle" /\ open[a] /\ ~killed /\ ~Exited /\ inputs < MaxMessages
  /\ size' = size + 1 /\ inputs' = inputs + 1
  /\ marks' = marks \cup {[after |-> Len(log), size |-> size + 1]}
  /\ sizeRx' = [b \in Att |-> IF stage[b] = "live" THEN size + 1 ELSE sizeRx[b]]
  /\ skipped' = {b \in Att : stage[b] \in {"replaying", "checking", "subscribing", "sizing"}}
  /\ UNCHANGED <<log, screen, shown, raw, subs, owner, tasks, stage, replay, queue,
                 exitRx, view, got, fin, open, input, unseen, cut, overtaken>>

Release(a) == owner' = IF owner = a /\ ~killed THEN Nobody ELSE owner

EndInput(a) ==
  /\ input[a] = "idle" /\ ~open[a]
  /\ input' = [input EXCEPT ![a] = "ended"]
  /\ Release(a)
  /\ UNCHANGED <<buffer, subs, tasks, output, open, inputs, history>>

-----------------------------------------------------------------------------
Program == ReadMaster \/ Publish \/ ReaderEnds \/ ChildDies \/ Reap \/ Kill
Forward(a) == ForwardData(a) \/ ForwardOverflow(a) \/ ForwardExit(a) \/ ForwardResize(a)
OutputTask(a) ==
  SendReplay(a) \/ CheckExit(a) \/ SubscribeExit(a) \/ SubscribeResize(a) \/ Forward(a)
InputTask(a) ==
  Focus(a) \/ BeginWrite(a) \/ FinishWrite(a) \/ Resize(a) \/ EndInput(a)

Next ==
  \/ Program
  \/ \E a \in Att : Attach(a) \/ Leave(a) \/ OutputTask(a) \/ InputTask(a)

Spec == Init /\ [][Next]_vars

\* Tasks that can go on do.  The program need not write or exit, clients need
\* not act; a client that stays reads what it is sent.
Fairness ==
  /\ WF_vars(Publish) /\ WF_vars(Reap)
  /\ \A a \in Att :
       /\ WF_vars(SendReplay(a) \/ CheckExit(a) \/ SubscribeExit(a) \/ SubscribeResize(a))
       /\ WF_vars(ForwardData(a) \/ ForwardOverflow(a))
       /\ WF_vars(ForwardExit(a)) /\ WF_vars(ForwardResize(a))
       /\ WF_vars(FinishWrite(a)) /\ WF_vars(EndInput(a))

FairSpec == Spec /\ Fairness

-----------------------------------------------------------------------------
(* Properties                                                              *)

Upto(n) == [i \in 1..n |-> i]
Min(m, n) == IF m < n THEN m ELSE n
Attached(a) == stage[a] \notin {"new", "done"}

\* What a stream was sent, the replay it holds and its queue are the output
\* from the first chunk on, without a gap or a repetition, up to now or to the
\* chunk at which its full queue was given up: attaching at any time, evicting
\* into the parser and the overflow of another stream lose it nothing.
NoGap ==
  \A a \in Att : Attached(a) =>
    got[a] \o replay[a] \o queue[a] = Upto(Min(cut[a], Len(log)))

\* The overflow error comes after everything that was queued before it.
OverflowComesLast ==
  \A a \in Att : fin[a] = "overflow" => got[a] = Upto(Min(cut[a], Len(log)))

\* Both together: what a stream carries is the output from its beginning, and
\* nothing of it is lost before the error that ends a slow one.
StreamsIntact == NoGap /\ OverflowComesLast

\* A stream shows the terminal's size or has it in its receiver, whether it
\* learned it from the parser, the buffer or the broadcast, unless a resize fell
\* between its snapshot and its subscription and no other followed.
SizeInStep ==
  \A a \in Att \ skipped :
    /\ Attached(a) /\ sizeRx[a] = NoSize => view[a] = size
    /\ stage[a] = "live" /\ sizeRx[a] # NoSize => sizeRx[a] = size

\* Once the exit code is set, a live stream has the exit in hand unless the
\* program was waited for between the stream's look at the exit code and its
\* subscription.
ExitInHand ==
  \A a \in Att \ unseen : stage[a] = "live" /\ Exited => exitRx[a]

\* No attachment that is gone keeps the others from writing.
OwnerAttached == owner \in Att /\ ~killed => input[owner] \in {"idle", "writing"}

\* Of the terminals only the focused one's input reaches the program, but for
\* the one write that another terminal had under way when the focus changed.
OnlyOvertakenWrites ==
  ~killed => \A a \in Att : input[a] = "writing" /\ Locked(a) => a \in overtaken

\* The streams promise what PtyLog says.
Promise == INSTANCE PtyLog WITH
  Reader <- Att, seen <- got, ended <- [a \in Att |-> fin[a] # "none"]
KeepsPromise == Promise!Spec

\* When the program has exited each stream ends, except one that missed it.
ExitEndsStreams ==
  \A a \in Att :
    Exited /\ stage[a] # "new" ~> stage[a] = "done" \/ a \in unseen
=============================================================================
