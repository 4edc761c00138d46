---------------------------- MODULE MCDaemonLive ----------------------------
(* Small fair instances of the watcher of one file and of one terminal of  *)
(* the daemon, and of one message on its way to or from it, which share no *)
(* state: a behaviour is one of `part`.                                    *)
EXTENDS FileWatcher
CONSTANTS a, b, s1, t1, t2, Nobody

VARIABLES
  part,
  log, screen, shown, raw, marks, size, readers, owner, killed, child, reader,
  stage, replay, queue, exitRx, sizeRx, view, got, fin, open, input, inputs,
  unseen, skipped, cut, overtaken,
  ours, theirs, message, wire, pos, frames, outcome

Pty == INSTANCE PtySession WITH
  Att <- {s1}, Terminals <- {s1}, RawCap <- 1, QueueCap <- 1, MaxChunks <- 2,
  MaxMessages <- 1, subs <- readers

ptyVars == <<log, screen, shown, raw, marks, size, readers, owner, killed, child, reader,
             stage, replay, queue, exitRx, sizeRx, view, got, fin, open, input, inputs,
             unseen, skipped, cut, overtaken>>

Codec == INSTANCE Wire

codecVars == <<ours, theirs, message, wire, pos, frames, outcome>>

NoMessage ==
  /\ ours = 0 /\ theirs = 0 /\ message = 0 /\ wire = 0 /\ pos = 0 /\ frames = 0
  /\ outcome = "none"

DaemonInit ==
  /\ part \in {"watcher", "terminal", "codec"}
  /\ Init /\ Pty!Init
  /\ IF part = "codec" THEN Codec!Init ELSE NoMessage
WatcherStep == part = "watcher" /\ Next /\ UNCHANGED <<part, ptyVars, codecVars>>
TerminalStep == part = "terminal" /\ Pty!Next /\ UNCHANGED <<part, vars, codecVars>>
CodecStep == part = "codec" /\ Codec!Next /\ UNCHANGED <<part, vars, ptyVars>>

DaemonSpec ==
  /\ DaemonInit /\ [][WatcherStep \/ TerminalStep \/ CodecStep]_<<part, vars, ptyVars, codecVars>>
  /\ Fairness /\ Pty!Fairness \* asks nothing of a part in its initial state

(* The end of a program ends every stream that could hear of it.           *)
ExitEndsStreams == Pty!ExitEndsStreams
(* A message arrives as it was sent, between versions of the schema too.   *)
WireAgrees == part = "codec" => Codec!WireAgrees
=============================================================================
