----------------------------- MODULE ExecStream -----------------------------
(***************************************************************************)
(* One call of ExecStream (exec_manager.rs): a child process, a reader     *)
(* task for each of its two output pipes, a task that ends it when its     *)
(* time is over, and the handler that waits for all of them and sends the  *)
(* exit code as the last message.  When the child cannot be spawned or     *)
(* waited for, the handler sends an error and leaves the tasks behind.     *)
(*                                                                         *)
(* A program started in the background inherits the pipes and may hold     *)
(* them open after the child's end.  A message is the pipe it was read     *)
(* from, or an answer.  Input and the signals a client sends are left     *)
(* out: to the daemon they are reasons for the child to end.               *)
(***************************************************************************)
EXTENDS Naturals, Sequences, SequencesExt
CONSTANTS Pipe,      \* stdout and stderr
          Result,    \* the answer with the exit code
          Failure,   \* the answer with an error
          QueueCap,  \* 256: the capacity of the stream's channel
          MaxWrites  \* bound: how often something is written

VARIABLES
  handler, \* starting, waiting, draining, sending, done, failing, failed
  child,   \* none, running, exited, reaped
  holding, \* the pipes a background program holds open
  timer,   \* off, armed, termed, killed, aborted: the timeout task
  pipe,    \* [Pipe -> Nat]: what was written and is not read yet
  reader,  \* [Pipe -> none, reading, sending, done]: the reader tasks
  queue,   \* the stream's channel
  client,  \* reading, gone
  got,     \* what the client received
  written, \* [Pipe -> Nat]: all that was written
  cut      \* the pipes whose reader gave up before the end of file
vars == <<handler, child, holding, timer, pipe, reader, queue, client, got, written, cut>>

Init ==
  /\ handler = "starting" /\ child = "none" /\ timer = "off" /\ client = "reading"
  /\ holding = {} /\ cut = {} /\ queue = <<>> /\ got = <<>>
  /\ pipe = [p \in Pipe |-> 0] /\ written = [p \in Pipe |-> 0]
  /\ reader = [p \in Pipe |-> "none"]

Spawn ==
  /\ handler = "starting"
  /\ handler' = "waiting" /\ child' = "running"
  /\ timer' \in {"off", "armed"} \* timeout_ms
  /\ reader' = [p \in Pipe |-> "reading"]
  /\ UNCHANGED <<holding, pipe, queue, client, got, written, cut>>

SpawnFails ==
  /\ handler = "starting"
  /\ handler' = "failing"
  /\ UNCHANGED <<child, holding, timer, pipe, reader, queue, client, got, written, cut>>

-----------------------------------------------------------------------------
(* Programs.                                                               *)

Open(p) == child = "running" \/ p \in holding
Written == FoldFunction(+, 0, written)

(* A reader that ended has closed its end: writing fails.                  *)
Write(p) ==
  /\ Open(p) /\ reader[p] # "done" /\ Written < MaxWrites
  /\ pipe' = [pipe EXCEPT ![p] = @ + 1]
  /\ written' = [written EXCEPT ![p] = @ + 1]
  /\ UNCHANGED <<handler, child, holding, timer, reader, queue, client, got, cut>>

Background(p) ==
  /\ child = "running"
  /\ holding' = holding \cup {p}
  /\ UNCHANGED <<handler, child, timer, pipe, reader, queue, client, got, written, cut>>

BackgroundEnds(p) ==
  /\ p \in holding
  /\ holding' = holding \ {p}
  /\ UNCHANGED <<handler, child, timer, pipe, reader, queue, client, got, written, cut>>

(* By itself, or by a signal it does not ignore.                           *)
ChildExits ==
  /\ child = "running"
  /\ child' = "exited"
  /\ UNCHANGED <<handler, holding, timer, pipe, reader, queue, client, got, written, cut>>

-----------------------------------------------------------------------------
(* The reader tasks.                                                       *)

ReadPipe(p) ==
  /\ reader[p] = "reading" /\ pipe[p] > 0
  /\ pipe' = [pipe EXCEPT ![p] = 0] \* READ_BUF_SIZE holds all of it
  /\ reader' = [reader EXCEPT ![p] = "sending"]
  /\ UNCHANGED <<handler, child, holding, timer, queue, client, got, written, cut>>

ReaderEnds(p) ==
  /\ reader[p] = "reading" /\ pipe[p] = 0 /\ ~Open(p)
  /\ reader' = [reader EXCEPT ![p] = "done"]
  /\ UNCHANGED <<handler, child, holding, timer, pipe, queue, client, got, written, cut>>

(* A read error ends the reader as well: what is in the pipe is lost.      *)
ReaderFails(p) ==
  /\ reader[p] = "reading"
  /\ reader' = [reader EXCEPT ![p] = "done"]
  /\ cut' = cut \cup {p}
  /\ pipe' = [pipe EXCEPT ![p] = 0]
  /\ UNCHANGED <<handler, child, holding, timer, queue, client, got, written>>

Unsent(p) == written[p] - pipe[p]

(* A message is known by how much of the pipe has been sent with it.       *)
SendOutput(p) ==
  /\ reader[p] = "sending" /\ client = "reading" /\ Len(queue) < QueueCap
  /\ queue' = Append(queue, <<p, Unsent(p)>>)
  /\ reader' = [reader EXCEPT ![p] = "reading"]
  /\ UNCHANGED <<handler, child, holding, timer, pipe, client, got, written, cut>>

(* The channel was full for SEND_TIMEOUT, or its receiver is gone.         *)
SendFails(p) ==
  /\ reader[p] = "sending"
  /\ client = "gone" \/ Len(queue) = QueueCap
  /\ reader' = [reader EXCEPT ![p] = "done"]
  /\ cut' = cut \cup {p}
  /\ pipe' = [pipe EXCEPT ![p] = 0]
  /\ UNCHANGED <<handler, child, holding, timer, queue, client, got, written>>

-----------------------------------------------------------------------------
(* The timeout task and the handler.                                       *)

TimeIsOver ==
  /\ timer = "armed"
  /\ timer' = "termed"
  /\ UNCHANGED <<handler, child, holding, pipe, reader, queue, client, got, written, cut>>

(* A slip: five seconds later the child is asked once more.                *)
GraceIsOverAgain ==
  /\ timer = "termed"
  /\ timer' = "killed"
  /\ UNCHANGED <<handler, child, holding, pipe, reader, queue, client, got, written, cut>>

GraceIsOver ==
  /\ timer = "termed"
  /\ timer' = "killed"
  /\ child' = IF child = "running" THEN "exited" ELSE child
  /\ UNCHANGED <<handler, holding, pipe, reader, queue, client, got, written, cut>>

Wait ==
  /\ handler = "waiting" /\ child = "exited"
  /\ handler' = "draining" /\ child' = "reaped"
  /\ timer' = IF timer = "off" THEN "off" ELSE "aborted"
  /\ UNCHANGED <<holding, pipe, reader, queue, client, got, written, cut>>

(* The child is not waited for any more, and the timeout task and the      *)
(* readers are not either: they run on.                                    *)
WaitFails ==
  /\ handler = "waiting"
  /\ handler' = "failing"
  /\ UNCHANGED <<child, holding, timer, pipe, reader, queue, client, got, written, cut>>

(* A slip: the result does not wait for the readers.                       *)
DrainedAtOnce ==
  /\ handler = "draining"
  /\ handler' = "sending"
  /\ UNCHANGED <<child, holding, timer, pipe, reader, queue, client, got, written, cut>>

Drained ==
  /\ handler = "draining"
  /\ \A p \in Pipe : reader[p] = "done"
  /\ handler' = "sending"
  /\ UNCHANGED <<child, holding, timer, pipe, reader, queue, client, got, written, cut>>

Answer(answer) ==
  /\ client = "gone" \/ Len(queue) < QueueCap
  /\ queue' = IF client = "gone" THEN queue ELSE Append(queue, answer)
  /\ UNCHANGED <<child, holding, timer, pipe, reader, client, got, written, cut>>

SendResult == handler = "sending" /\ handler' = "done" /\ Answer(Result)
SendError == handler = "failing" /\ handler' = "failed" /\ Answer(Failure)

Receive ==
  /\ client = "reading" /\ queue # <<>>
  /\ got' = Append(got, Head(queue)) /\ queue' = Tail(queue)
  /\ UNCHANGED <<handler, child, holding, timer, pipe, reader, client, written, cut>>

ClientGoes ==
  /\ client = "reading"
  /\ client' = "gone" /\ queue' = <<>>
  /\ UNCHANGED <<handler, child, holding, timer, pipe, reader, got, written, cut>>

Programs == ChildExits \/ \E p \in Pipe : Write(p) \/ Background(p) \/ BackgroundEnds(p)
Readers ==
  \E p \in Pipe : ReadPipe(p) \/ ReaderEnds(p) \/ ReaderFails(p) \/ SendOutput(p) \/ SendFails(p)
Handler == Spawn \/ SpawnFails \/ Wait \/ WaitFails \/ Drained \/ SendResult \/ SendError
Next == \/ Programs \/ Readers \/ Handler
        \/ TimeIsOver \/ GraceIsOver \/ Receive \/ ClientGoes

Spec == Init /\ [][Next]_vars

(* The daemon's tasks run, sleeps end, and a client that is there reads.   *)
Fairness ==
  /\ WF_vars(Wait) /\ WF_vars(Drained) /\ WF_vars(SendResult) /\ WF_vars(SendError)
  /\ WF_vars(TimeIsOver) /\ WF_vars(GraceIsOver) /\ WF_vars(Receive)
  /\ \A p \in Pipe : /\ WF_vars(ReadPipe(p) \/ ReaderEnds(p))
                     /\ WF_vars(SendOutput(p) \/ SendFails(p))

-----------------------------------------------------------------------------
Stream == got \o queue

(* An exit code is the last message and the only answer, and whoever       *)
(* receives it has received all the output before it, unless a reader gave *)
(* up on a client too slow for it or on a read error: output and result    *)
(* come from three tasks (exec_manager.rs:147-166).  A client that is told *)
(* of an error is promised nothing: the readers of a child that could not  *)
(* be waited for send on (lines 150-153).                                  *)
ResultIsComplete ==
  Contains(Stream, Result) =>
    /\ Last(Stream) = Result /\ ~Contains(Stream, Failure)
    /\ client = "reading" =>
         \A p \in Pipe \ cut : written[p] > 0 => Contains(Stream, <<p, written[p]>>)

(* A command whose time is over is answered, also when it ignores SIGTERM, *)
(* unless what it left in the background holds its output open.            *)
TimedOutEnds ==
  timer = "termed" ~> (handler \in {"done", "failed"} \/ client = "gone" \/ holding # {})
=============================================================================
