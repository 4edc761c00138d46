------------------------------- MODULE PtyLog -------------------------------
(***************************************************************************)
(* What a terminal promises those who are attached to it, without the      *)
(* replay buffer, the queues and the tasks by which the daemon keeps the   *)
(* promise: a program's output is a log that only grows, and each reader   *)
(* sees a prefix of it, from the first chunk on, without gaps and without  *)
(* repetition, until its stream ends.                                      *)
(***************************************************************************)
EXTENDS Naturals, Sequences

CONSTANTS Reader, Chunk

VARIABLES log, seen, ended
vars == <<log, seen, ended>>

Init ==
  /\ log = <<>>
  /\ seen = [r \in Reader |-> <<>>]
  /\ ended = [r \in Reader |-> FALSE]

Output ==
  /\ \E c \in Chunk : log' = Append(log, c)
  /\ UNCHANGED <<seen, ended>>

\* A reader advances by any number of chunks: the replay at the start brings
\* many of them in one go.
Read(r) ==
  /\ ~ended[r]
  /\ \E n \in (Len(seen[r]) + 1)..Len(log) :
        seen' = [seen EXCEPT ![r] = SubSeq(log, 1, n)]
  /\ UNCHANGED <<log, ended>>

End(r) ==
  /\ ~ended[r]
  /\ ended' = [ended EXCEPT ![r] = TRUE]
  /\ UNCHANGED <<log, seen>>

Next == Output \/ \E r \in Reader : Read(r) \/ End(r)
Spec == Init /\ [][Next]_vars
=============================================================================
