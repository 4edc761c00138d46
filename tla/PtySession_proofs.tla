------------------------- MODULE PtySession_proofs --------------------------
(***************************************************************************)
(* Proofs about PtySession, for any number of attachments, any capacities  *)
(* and any bounds.                                                         *)
(***************************************************************************)
EXTENDS PtySession, Integers, SequenceTheorems, WellFoundedInduction, TLAPS

(* A non-empty bounded set of numbers has a maximum, which Newest chooses. *)

Less == {ss \in Nat \X Nat : ss[1] < ss[2]}

LEMMA MinExists ==
  ASSUME NEW S \in SUBSET Nat, S # {}
  PROVE  \E m \in S : \A k \in S : m <= k
<1>1. IsWellFoundedOn(Less, Nat)
  BY NatLessThanWellFounded DEF Less, OpToRel
<1>2. PICK x \in S : \A y \in S : ~(<<y, x>> \in Less)
  <2> HIDE DEF Less
  <2> QED
    BY <1>1, WFMin
<1>3. ASSUME NEW k \in S PROVE x <= k
  <2>1. k \in Nat /\ x \in Nat
    OBVIOUS
  <2>2. ~(k < x)
    BY <1>2, <2>1 DEF Less
  <2> QED
    BY <2>1, <2>2
<1> QED
  BY <1>3

LEMMA MaxExists ==
  ASSUME NEW n \in Nat, NEW S \in SUBSET (0..n), S # {}
  PROVE  \E m \in S : \A k \in S : k <= m
<1> DEFINE D == {i \in 0..n : n - i \in S}
<1>1. ASSUME NEW k \in S PROVE k \in Nat /\ n - k \in D
  <2>1. k \in Nat /\ k <= n
    OBVIOUS
  <2>2. n - k \in 0..n /\ n - (n - k) = k
    BY <2>1
  <2> QED
    BY <2>1, <2>2
<1>2. D \in SUBSET Nat /\ D # {}
  <2>1. D \in SUBSET Nat
    OBVIOUS
  <2>2. PICK x \in S : TRUE
    OBVIOUS
  <2> QED
    BY <1>1, <2>1, <2>2
<1>3. PICK d \in D : \A k \in D : d <= k
  <2> HIDE DEF D
  <2> QED
    BY <1>2, MinExists
<1>4. ASSUME NEW k \in S PROVE k <= n - d
  <2>1. d \in Nat /\ d <= n - k
    BY <1>1, <1>3
  <2> QED
    BY <1>1, <2>1
<1> QED
  BY <1>3, <1>4

LEMMA NewestIsOne ==
  ASSUME NEW s \in Size, NEW ms, ms \subseteq [after : Nat, size : Size]
  PROVE  /\ Newest(s, ms) \in {s} \cup {m.size : m \in ms}
         /\ \A k \in {s} \cup {m.size : m \in ms} : k <= Newest(s, ms)
<1> DEFINE sizes == {s} \cup {m.size : m \in ms}
<1>1. sizes \in SUBSET (0..MaxMessages) /\ sizes # {}
  BY DEF Size
<1>2. \E n \in sizes : \A k \in sizes : k <= n
  <2> HIDE DEF sizes
  <2> QED
    BY <1>1, MaxExists, PtyAssumption
<1> QED
  BY <1>2 DEF Newest

\* What Newest returns is a size.
LEMMA NewestType ==
  ASSUME NEW s \in Size, NEW ms, ms \subseteq [after : Nat, size : Size]
  PROVE  Newest(s, ms) \in Size
<1>1. Newest(s, ms) \in {s} \cup {m.size : m \in ms}
  BY NewestIsOne
<1> QED
  BY <1>1

-----------------------------------------------------------------------------
(* Types.  The bounds of the model are part of the inductive invariant: a  *)
(* chunk is read only while there is room for it in Chunk.                 *)

Bounds ==
  /\ Len(log) <= MaxChunks
  /\ reader = "holding" => Len(log) < MaxChunks /\ ~killed
  /\ killed => reader = "ended"
  /\ size <= inputs /\ inputs <= MaxMessages

Typed == TypeOK /\ Bounds

LEMMA PublishType ==
  ASSUME Typed, Publish
  PROVE  Typed'
<1> DEFINE c == Len(log) + 1
<1>1. c \in Chunk /\ log \in Seq(Chunk) /\ raw \in Seq(Chunk) /\ Len(log) \in Nat
  BY PtyAssumption DEF Publish, Typed, TypeOK, Bounds, Chunk
<1>2. log' \in Seq(Chunk) /\ Len(log') = Len(log) + 1
  BY <1>1 DEF Publish
<1> DEFINE chunks == Append(raw, c)
           n == IF Len(chunks) > RawCap THEN Len(chunks) - RawCap ELSE 0
           passed == {m \in marks : m.after < Len(screen) + n}
<1>3. chunks \in Seq(Chunk) /\ Len(chunks) \in Nat
  BY <1>1
<1>4. n \in Nat /\ n <= Len(chunks)
  BY <1>3, PtyAssumption
<1>5. Evict(chunks)
  BY DEF Publish
<1>6. SubSeq(chunks, 1, n) \in Seq(Chunk) /\ SubSeq(chunks, n + 1, Len(chunks)) \in Seq(Chunk)
  <2> HIDE DEF chunks, n
  <2> QED
    BY <1>3, <1>4, SubSeqProperties
<1>7. screen' \in Seq(Chunk) /\ raw' \in Seq(Chunk)
  <2>1. screen \in Seq(Chunk)
    BY DEF Typed, TypeOK
  <2>2. screen' = screen \o SubSeq(chunks, 1, n) /\ raw' = SubSeq(chunks, n + 1, Len(chunks))
    BY <1>5 DEF Evict
  <2> HIDE DEF chunks, n
  <2> QED
    BY <1>6, <2>1, <2>2, ConcatProperties
<1>8. shown' \in Size /\ marks' \subseteq [after : Nat, size : Size]
  <2>1. passed \subseteq marks
    OBVIOUS
  <2>2. Newest(shown, passed) \in Size
    BY <2>1, NewestType DEF Typed, TypeOK
  <2> QED
    BY <1>5, <2>1, <2>2 DEF Evict, Typed, TypeOK
<1>9. queue' \in [Att -> Seq(Chunk)]
  <2>1. ASSUME NEW a \in Att PROVE Append(queue[a], c) \in Seq(Chunk) /\ queue[a] \in Seq(Chunk)
    BY <1>1 DEF Typed, TypeOK
  <2> QED
    BY <2>1 DEF Publish
<1>10. cut' \in [Att -> 0..Uncut] /\ subs' \subseteq Att
  <2>1. Len(log) \in 0..Uncut
    BY <1>1, PtyAssumption DEF Typed, Bounds, Uncut
  <2> QED
    BY <2>1 DEF Publish, Typed, TypeOK
<1>11. Bounds'
  BY <1>1, <1>2, PtyAssumption DEF Publish, client, Typed, Bounds
<1> QED
  BY <1>2, <1>7, <1>8, <1>9, <1>10, <1>11 DEF Publish, client, Typed, TypeOK

LEMMA ProgramType ==
  ASSUME Typed, ReadMaster \/ ReaderEnds \/ ChildDies \/ Reap \/ Kill
  PROVE  Typed'
<1>1. CASE ReadMaster
  BY <1>1 DEF ReadMaster, buffer, output, client, history, Typed, TypeOK, Bounds
<1>2. CASE ReaderEnds
  BY <1>2 DEF ReaderEnds, buffer, output, client, history, Typed, TypeOK, Bounds
<1>3. CASE ChildDies
  BY <1>3 DEF ChildDies, buffer, output, client, history, Typed, TypeOK, Bounds
<1>4. CASE Reap
  BY <1>4 DEF Reap, buffer, client, Typed, TypeOK, Bounds
<1>5. CASE Kill
  BY <1>5 DEF Kill, buffer, output, client, history, Typed, TypeOK, Bounds
<1> QED
  BY <1>1, <1>2, <1>3, <1>4, <1>5

LEMMA EndedType ==
  ASSUME TypeOK, NEW a \in Att,
         NEW how \in {"exit", "overflow", "silent", "gone"}, Ended(a, how)
  PROVE  /\ stage' \in [Att -> Stage] /\ queue' \in [Att -> Seq(Chunk)]
         /\ fin' \in [Att -> {"none", "exit", "overflow", "silent", "gone"}]
         /\ exitRx' \in [Att -> BOOLEAN] /\ sizeRx' \in [Att -> Size \cup {NoSize}]
<1>1. <<>> \in Seq(Chunk)
  OBVIOUS
<1> QED
  BY <1>1 DEF Ended, TypeOK, Stage

LEMMA OutputType ==
  ASSUME Typed, NEW a \in Att, Attach(a) \/ OutputTask(a)
  PROVE  Typed'
<1> USE DEF Typed
<1>0. <<>> \in Seq(Chunk)
  OBVIOUS
<1>1. CASE Attach(a)
  <2>1. Newest(shown, marks) \in Size
    BY NewestType DEF TypeOK
  <2>2. screen \o raw \in Seq(Chunk)
    BY ConcatProperties DEF TypeOK
  <2>3. stage' \in [Att -> Stage] /\ subs' \subseteq Att
    BY <1>1 DEF Attach, TypeOK, Stage
  <2>4. replay' \in [Att -> Seq(Chunk)]
    <3>1. replay' = [replay EXCEPT ![a] = screen \o raw] \/ replay' = replay
      BY <1>1 DEF Attach
    <3> QED
      BY <2>2, <3>1 DEF TypeOK
  <2>5. view' \in [Att -> Size]
    <3>1. view' = [view EXCEPT ![a] = Newest(shown, marks)] \/ view' = view
      BY <1>1 DEF Attach
    <3> QED
      BY <2>1, <3>1 DEF TypeOK
  <2>6. fin' \in [Att -> {"none", "exit", "overflow", "silent", "gone"}]
    BY <1>1 DEF Attach, TypeOK
  <2>7. UNCHANGED <<buffer, owner, tasks, queue, exitRx, sizeRx, got, client, history>>
    BY <1>1 DEF Attach
  <2> QED
    BY <2>3, <2>4, <2>5, <2>6, <2>7 DEF buffer, tasks, client, history, TypeOK, Bounds
<1>2. ASSUME UNCHANGED <<buffer, subs, owner, tasks, history, open, inputs>>,
             replay' \in [Att -> Seq(Chunk)], got' \in [Att -> Seq(Chunk)],
             view' \in [Att -> Size], input' \in [Att -> {"none", "idle", "writing", "ended"}],
             stage' \in [Att -> Stage], queue' \in [Att -> Seq(Chunk)],
             fin' \in [Att -> {"none", "exit", "overflow", "silent", "gone"}],
             exitRx' \in [Att -> BOOLEAN], sizeRx' \in [Att -> Size \cup {NoSize}]
      PROVE  Typed'
  BY <1>2 DEF buffer, tasks, history, TypeOK, Bounds
<1>3. CASE SendReplay(a)
  <2>0. replay' \in [Att -> Seq(Chunk)] /\ got' \in [Att -> Seq(Chunk)]
    <3>1. replay' = [replay EXCEPT ![a] = <<>>]
      BY <1>3 DEF SendReplay
    <3>2. got' = [got EXCEPT ![a] = replay[a]] \/ got' = got
      BY <1>3 DEF SendReplay
    <3> QED
      BY <1>0, <3>1, <3>2 DEF TypeOK
  <2>1. CASE ~open[a]
    BY <1>2, <1>3, <2>0, <2>1, EndedType DEF SendReplay, client, TypeOK
  <2>2. CASE open[a]
    BY <1>2, <1>3, <2>0, <2>2 DEF SendReplay, Continue, client, TypeOK, Stage
  <2> QED
    BY <1>3, <2>1, <2>2 DEF SendReplay
<1>4. CASE CheckExit(a)
  <2>1. CASE Ended(a, "exit")
    BY <1>2, <1>4, <2>1, EndedType DEF CheckExit, client, TypeOK
  <2>2. CASE Continue(a, "subscribing")
    BY <1>2, <1>4, <2>2 DEF CheckExit, Continue, client, TypeOK, Stage
  <2> QED
    BY <1>4, <2>1, <2>2 DEF CheckExit
<1>5. CASE SubscribeExit(a)
  <2>1. CASE Ended(a, "silent")
    BY <1>2, <1>5, <2>1, EndedType DEF SubscribeExit, client, TypeOK
  <2>2. CASE Continue(a, "sizing")
    BY <1>2, <1>5, <2>2 DEF SubscribeExit, Continue, client, TypeOK, Stage
  <2> QED
    BY <1>5, <2>1, <2>2 DEF SubscribeExit
<1>6. CASE SubscribeResize(a)
  <2>1. CASE Ended(a, "silent")
    BY <1>2, <1>6, <2>1, EndedType DEF SubscribeResize, TypeOK
  <2>2. CASE Continue(a, "live")
    BY <1>2, <1>6, <2>2 DEF SubscribeResize, Continue, TypeOK, Stage
  <2> QED
    BY <1>6, <2>1, <2>2 DEF SubscribeResize
<1>7. CASE ForwardData(a)
  <2>1. CASE ~open[a]
    BY <1>2, <1>7, <2>1, EndedType DEF ForwardData, client, TypeOK
  <2>2. CASE open[a]
    <3>1. queue[a] \in Seq(Chunk) /\ queue[a] # <<>>
      BY <1>7 DEF ForwardData, TypeOK
    <3>2. Tail(queue[a]) \in Seq(Chunk) /\ Head(queue[a]) \in Chunk
      BY <3>1, HeadTailProperties
    <3>3. Append(got[a], Head(queue[a])) \in Seq(Chunk)
      BY <3>2, AppendProperties DEF TypeOK
    <3>4. /\ queue' = [queue EXCEPT ![a] = Tail(queue[a])]
          /\ got' = [got EXCEPT ![a] = Append(got[a], Head(queue[a]))]
      BY <1>7, <2>2 DEF ForwardData
    <3>5. queue' \in [Att -> Seq(Chunk)] /\ got' \in [Att -> Seq(Chunk)]
      BY <3>2, <3>3, <3>4 DEF TypeOK
    <3> QED
      BY <1>2, <1>7, <2>2, <3>5 DEF ForwardData, client, TypeOK
  <2> QED
    BY <1>7, <2>1, <2>2 DEF ForwardData
<1>8. CASE ForwardOverflow(a) \/ ForwardExit(a)
  BY <1>2, <1>8, EndedType DEF ForwardOverflow, ForwardExit, client, TypeOK
<1>9. CASE ForwardResize(a)
  <2>1. sizeRx[a] \in Size
    BY <1>9 DEF ForwardResize, TypeOK
  <2> QED
    BY <1>2, <1>9, <2>1 DEF ForwardResize, client, TypeOK
<1> QED
  BY <1>1, <1>3, <1>4, <1>5, <1>6, <1>7, <1>8, <1>9 DEF OutputTask, Forward

LEMMA InputType ==
  ASSUME Typed, NEW a \in Att, Leave(a) \/ InputTask(a)
  PROVE  Typed'
<1> USE DEF Typed
<1>0. size \in Nat /\ inputs \in Nat /\ inputs + 1 \in Nat
  BY PtyAssumption DEF TypeOK, Size
<1>1. CASE Leave(a)
  BY <1>1 DEF Leave, buffer, tasks, output, history, TypeOK, Bounds
<1>2. CASE Focus(a)
  <2>1. Writing \subseteq Att
    BY DEF Writing
  <2>2. Bounds'
    BY <1>2, <1>0, PtyAssumption DEF Focus, buffer, tasks, Bounds
  <2> QED
    BY <1>2, <1>0, <2>1, <2>2 DEF Focus, buffer, tasks, output, TypeOK
<1>3. CASE BeginWrite(a)
  <2>1. Bounds'
    BY <1>3, <1>0, PtyAssumption DEF BeginWrite, buffer, tasks, Bounds
  <2> QED
    BY <1>3, <1>0, <2>1 DEF BeginWrite, buffer, tasks, output, history, TypeOK
<1>4. CASE FinishWrite(a)
  BY <1>4 DEF FinishWrite, buffer, tasks, output, TypeOK, Bounds
<1>5. CASE Resize(a)
  <2>1. size <= inputs /\ inputs < MaxMessages /\ MaxMessages \in Nat
    BY <1>5, PtyAssumption DEF Resize, Bounds
  <2>2. /\ size' = size + 1 /\ inputs' = inputs + 1
        /\ marks' = marks \cup {[after |-> Len(log), size |-> size + 1]}
        /\ sizeRx' = [b \in Att |-> IF stage[b] = "live" THEN size + 1 ELSE sizeRx[b]]
        /\ skipped' \subseteq Att
    BY <1>5 DEF Resize
  <2>3. UNCHANGED <<log, screen, raw, shown, subs, owner, killed, child, reader, stage, replay,
                    queue, exitRx, view, got, fin, open, input, unseen, cut, overtaken>>
    BY <1>5 DEF Resize, tasks
  <2>4. /\ log \in Seq(Chunk) /\ marks \subseteq [after : Nat, size : Size]
        /\ sizeRx \in [Att -> Size \cup {NoSize}]
    BY DEF TypeOK
  <2>5. size' \in Size /\ inputs' \in Nat /\ Len(log) \in Nat
    BY <1>0, <2>1, <2>2, <2>4 DEF Size
  <2>6. marks' \subseteq [after : Nat, size : Size]
    BY <2>2, <2>4, <2>5
  <2>7. sizeRx' \in [Att -> Size \cup {NoSize}]
    BY <2>2, <2>4, <2>5
  <2>8. Bounds'
    <3>1. size' <= inputs' /\ inputs' <= MaxMessages
      BY <1>0, <2>1, <2>2
    <3> QED
      BY <2>3, <3>1 DEF Bounds
  <2>9. TypeOK'
    BY <2>2, <2>3, <2>5, <2>6, <2>7, Zenon DEF TypeOK
  <2> QED
    BY <2>8, <2>9
<1>6. CASE EndInput(a)
  BY <1>6 DEF EndInput, Release, buffer, tasks, output, history, TypeOK, Bounds
<1> QED
  BY <1>1, <1>2, <1>3, <1>4, <1>5, <1>6 DEF InputTask

LEMMA TypedAlways == Spec => []Typed
<1>1. Init => Typed
  <2> SUFFICES ASSUME Init PROVE Typed
    OBVIOUS
  <2>1. <<>> \in Seq(Chunk) /\ Len(<<>>) = 0
    OBVIOUS
  <2>2. 0 \in Size /\ NoSize \in Size \cup {NoSize} /\ Uncut \in 0..Uncut
    BY PtyAssumption DEF Size, Uncut
  <2>3. replay \in [Att -> Seq(Chunk)] /\ queue \in [Att -> Seq(Chunk)] /\ got \in [Att -> Seq(Chunk)]
    BY <2>1 DEF Init
  <2>4. TypeOK
    BY <2>1, <2>2, <2>3 DEF Init, TypeOK, Stage
  <2>5. Bounds
    BY <2>1, PtyAssumption DEF Init, Bounds
  <2> QED
    BY <2>4, <2>5 DEF Typed
<1>2. Typed /\ [Next]_vars => Typed'
  <2> SUFFICES ASSUME Typed, [Next]_vars PROVE Typed'
    OBVIOUS
  <2>1. CASE UNCHANGED vars
    BY <2>1 DEF vars, buffer, tasks, output, client, history, Typed, TypeOK, Bounds
  <2> QED
    BY <2>1, PublishType, ProgramType, OutputType, InputType DEF Next, Program
<1> QED
  BY <1>1, <1>2, PTL DEF Spec

\* Every variable keeps its type: the log holds chunks, no more than there are,
\* and a size sent to a client is one that some client chose.
THEOREM TypeCorrect == Spec => []TypeOK
BY TypedAlways, PTL DEF Typed

-----------------------------------------------------------------------------
(* Who may write.  With the types the two properties are inductive.        *)

Gate == OwnerAttached /\ OnlyOvertakenWrites

LEMMA GateStep == TypeOK /\ Gate /\ [Next]_vars => Gate'
<1> SUFFICES ASSUME TypeOK, Gate, [Next]_vars PROVE Gate'
  OBVIOUS
<1> USE DEF Gate, OwnerAttached, OnlyOvertakenWrites, Locked
<1>1. ASSUME UNCHANGED <<input, owner, overtaken>>, killed => killed' PROVE Gate'
  BY <1>1
<1>2. ASSUME Program PROVE Gate'
  BY <1>1, <1>2 DEF Program, ReadMaster, Publish, ReaderEnds, ChildDies, Reap, Kill,
     client, history, TypeOK
<1>3. ASSUME NEW a \in Att, Attach(a) \/ Leave(a) PROVE Gate'
  BY <1>1, <1>3 DEF Attach, Leave, tasks, client, history
<1>4. ASSUME NEW a \in Att, OutputTask(a) PROVE Gate'
  <2>1. CASE SendReplay(a) \/ CheckExit(a) \/ SubscribeExit(a) \/ Forward(a)
    BY <1>1, <2>1 DEF SendReplay, CheckExit, SubscribeExit, Forward, ForwardData,
       ForwardOverflow, ForwardExit, ForwardResize, tasks, client, history
  <2>2. CASE SubscribeResize(a)
    <3>1. /\ UNCHANGED <<owner, overtaken, killed>>
          /\ input' = input \/ input' = [input EXCEPT ![a] = "idle"]
      BY <2>2 DEF SubscribeResize, tasks, history
    <3> QED
      BY <1>1, <3>1 DEF TypeOK
  <2> QED
    BY <1>4, <2>1, <2>2 DEF OutputTask
<1>5. ASSUME NEW a \in Att, InputTask(a) PROVE Gate'
  <2>1. CASE Focus(a)
    <3>1. owner' = a /\ input' = input /\ killed' = killed /\ input[a] = "idle"
      BY <2>1 DEF Focus, tasks
    <3>2. overtaken' = IF owner = a THEN overtaken ELSE Writing
      BY <2>1 DEF Focus
    <3> QED
      BY <3>1, <3>2, PtyAssumption DEF Writing, TypeOK
  <2>2. CASE BeginWrite(a)
    BY <2>2, PtyAssumption DEF BeginWrite, tasks, history, TypeOK
  <2>3. CASE FinishWrite(a)
    BY <2>3, PtyAssumption DEF FinishWrite, tasks, TypeOK
  <2>4. CASE Resize(a)
    BY <1>1, <2>4 DEF Resize, tasks
  <2>5. CASE EndInput(a)
    BY <2>5, PtyAssumption DEF EndInput, Release, tasks, history, TypeOK
  <2> QED
    BY <1>5, <2>1, <2>2, <2>3, <2>4, <2>5 DEF InputTask
<1>6. CASE UNCHANGED vars
  BY <1>1, <1>6 DEF vars, tasks, client, history
<1> QED
  BY <1>2, <1>3, <1>4, <1>5, <1>6 DEF Next

LEMMA GateAlways == Spec => []Gate
<1>1. Init => Gate
  BY PtyAssumption DEF Init, Gate, OwnerAttached, OnlyOvertakenWrites, Locked
<1> QED
  BY <1>1, GateStep, TypeCorrect, PTL DEF Spec

\* The attachment that has the focus still has an input task, so that it is
\* given back when its client goes (the release at the end of pty_stream).
THEOREM FocusIsHeld == Spec => []OwnerAttached
BY GateAlways, PTL DEF Gate

\* However messages, ends of streams and changes of focus interleave with the
\* two halves of write_from, an unfocused terminal has at most the one write
\* under way that it had begun when it lost the focus.
THEOREM WritesAreGated == Spec => []OnlyOvertakenWrites
BY GateAlways, PTL DEF Gate

-----------------------------------------------------------------------------
(* The exit.  A stream that may still miss it is between the two locks, and *)
(* there the program has not been waited for or the next lock finds the    *)
(* session gone.                                                           *)

ExitKnown ==
  \A a \in Att \ unseen :
    /\ stage[a] = "subscribing" /\ Exited => killed
    /\ stage[a] \in {"sizing", "live"} /\ Exited => exitRx[a]

LEMMA ExitStep == TypeOK /\ ExitKnown /\ [Next]_vars => ExitKnown'
<1> SUFFICES ASSUME TypeOK, ExitKnown, [Next]_vars PROVE ExitKnown'
  OBVIOUS
<1> USE DEF ExitKnown, Exited
<1>1. ASSUME UNCHANGED <<stage, exitRx, unseen, child>>, killed => killed' PROVE ExitKnown'
  BY <1>1
<1>2. ASSUME NEW a \in Att, UNCHANGED <<unseen, child, killed>>,
             \/ stage' = [stage EXCEPT ![a] = "done"] /\ exitRx' = [exitRx EXCEPT ![a] = FALSE]
             \/ /\ exitRx' = exitRx
                /\ \E s \in {"replaying", "checking"} : stage' = [stage EXCEPT ![a] = s]
      PROVE  ExitKnown'
  BY <1>2 DEF TypeOK
<1>3. ASSUME Program PROVE ExitKnown'
  <2>1. CASE Reap
    BY <2>1 DEF Reap, TypeOK
  <2>2. CASE ChildDies
    BY <2>2 DEF ChildDies, output, history
  <2>3. CASE ReadMaster \/ Publish \/ ReaderEnds \/ Kill
    BY <1>1, <2>3 DEF ReadMaster, Publish, ReaderEnds, Kill, output, history
  <2> QED
    BY <1>3, <2>1, <2>2, <2>3 DEF Program
<1>4. ASSUME NEW a \in Att, Attach(a) PROVE ExitKnown'
  BY <1>4 DEF Attach, tasks, history, TypeOK
<1>5. ASSUME NEW a \in Att, OutputTask(a) PROVE ExitKnown'
  <2>0. UNCHANGED <<unseen, child, killed>>
    BY <1>5 DEF OutputTask, SendReplay, CheckExit, SubscribeExit, SubscribeResize, Forward,
       ForwardData, ForwardOverflow, ForwardExit, ForwardResize, tasks, history
  <2>1. CASE SendReplay(a) \/ ForwardOverflow(a) \/ ForwardExit(a)
    BY <1>2, <2>0, <2>1 DEF SendReplay, ForwardOverflow, ForwardExit, Ended, Continue
  <2>2. CASE CheckExit(a)
    <3>1. CASE Exited /\ ~killed
      BY <1>2, <2>0, <2>2, <3>1 DEF CheckExit, Ended
    <3>2. CASE ~(Exited /\ ~killed)
      BY <2>0, <2>2, <3>2 DEF CheckExit, Continue, TypeOK
    <3> QED
      BY <3>1, <3>2
  <2>3. CASE SubscribeExit(a)
    <3>1. CASE killed
      BY <1>2, <2>0, <2>3, <3>1 DEF SubscribeExit, Ended
    <3>2. CASE ~killed
      BY <2>0, <2>3, <3>2 DEF SubscribeExit, Continue, TypeOK
    <3> QED
      BY <3>1, <3>2
  <2>4. CASE SubscribeResize(a)
    <3>1. CASE killed
      BY <1>2, <2>0, <2>4, <3>1 DEF SubscribeResize, Ended
    <3>2. CASE ~killed
      BY <2>0, <2>4, <3>2 DEF SubscribeResize, Continue, TypeOK
    <3> QED
      BY <3>1, <3>2
  <2>5. CASE ForwardData(a)
    BY <1>1, <1>2, <2>0, <2>5 DEF ForwardData, Ended
  <2>6. CASE ForwardResize(a)
    BY <1>1, <2>0, <2>6 DEF ForwardResize
  <2> QED
    BY <1>5, <2>1, <2>2, <2>3, <2>4, <2>5, <2>6 DEF OutputTask, Forward
<1>6. ASSUME NEW a \in Att, Leave(a) \/ InputTask(a) PROVE ExitKnown'
  BY <1>1, <1>6 DEF Leave, InputTask, Focus, BeginWrite, FinishWrite, Resize, EndInput,
     tasks, output, history
<1>7. CASE UNCHANGED vars
  BY <1>1, <1>7 DEF vars, tasks, output, history
<1> QED
  BY <1>3, <1>4, <1>5, <1>6, <1>7 DEF Next

\* An exit is never lost between the broadcast and the stream's subscription
\* but in the one gap the handler leaves: between the lock under which it looks
\* at the exit code and the lock under which it subscribes.
THEOREM ExitNotLost == Spec => []ExitInHand
<1>1. Init => ExitKnown
  BY DEF Init, ExitKnown
<1>2. ExitKnown => ExitInHand
  BY DEF ExitKnown, ExitInHand
<1> QED
  BY <1>1, <1>2, ExitStep, TypeCorrect, PTL DEF Spec

-----------------------------------------------------------------------------
(* Sizes.  The parser's size and the resizes of the buffer never run ahead *)
(* of the terminal's, and one of them is the terminal's.                   *)

SizeBuffered ==
  /\ shown <= size
  /\ \A m \in marks : m.size <= size
  /\ shown = size \/ \E m \in marks : m.size = size

SizeKnown ==
  /\ SizeBuffered
  /\ \A a \in Att : stage[a] # "live" => sizeRx[a] = NoSize
  /\ SizeInStep

LEMMA SizeIsNumber == Size \subseteq Nat /\ NoSize \notin Size
BY PtyAssumption DEF Size, NoSize

LEMMA NewestIsSize == TypeOK /\ SizeBuffered => Newest(shown, marks) = size
<1> SUFFICES ASSUME TypeOK, SizeBuffered PROVE Newest(shown, marks) = size
  OBVIOUS
<1> DEFINE sizes == {shown} \cup {m.size : m \in marks}
<1>1. Newest(shown, marks) \in sizes /\ \A k \in sizes : k <= Newest(shown, marks)
  BY NewestIsOne DEF TypeOK
<1>2. size \in sizes /\ \A k \in sizes : k <= size /\ k \in Nat
  BY SizeIsNumber DEF SizeBuffered, TypeOK
<1> HIDE DEF sizes
<1> QED
  BY <1>1, <1>2

\* Eviction hands sizes on to the parser and forgets none of them.
LEMMA EvictKeepsSize ==
  ASSUME TypeOK, SizeBuffered, NEW chunks, Evict(chunks), size' = size
  PROVE  SizeBuffered'
<1>1. PICK passed \in SUBSET marks :
        shown' = Newest(shown, passed) /\ marks' = marks \ passed
  BY DEF Evict
<1> DEFINE sizes == {shown} \cup {m.size : m \in passed}
<1>2. shown' \in sizes /\ \A k \in sizes : k <= shown'
  BY <1>1, NewestIsOne DEF TypeOK
<1>3. \A k \in sizes : k <= size /\ k \in Nat
  BY SizeIsNumber DEF SizeBuffered, TypeOK
<1>4. size \in Nat
  BY SizeIsNumber DEF TypeOK
<1>5. size \in sizes => shown' = size
  <2> HIDE DEF sizes
  <2> QED
    BY <1>2, <1>3, <1>4
<1>6. size \notin sizes => \E m \in marks' : m.size = size
  BY <1>1 DEF SizeBuffered
<1>7. shown' <= size
  <2> HIDE DEF sizes
  <2> QED
    BY <1>2, <1>3
<1> QED
  BY <1>1, <1>5, <1>6, <1>7 DEF SizeBuffered

LEMMA SizeStep == Typed /\ Typed' /\ SizeKnown /\ [Next]_vars => SizeKnown'
<1> SUFFICES ASSUME Typed, Typed', SizeKnown, [Next]_vars PROVE SizeKnown'
  OBVIOUS
<1> USE DEF Typed
<1> DEFINE InStep(a) == /\ Attached(a) /\ sizeRx[a] = NoSize => view[a] = size
                        /\ stage[a] = "live" /\ sizeRx[a] # NoSize => sizeRx[a] = size
           Quiet(a) == stage[a] # "live" => sizeRx[a] = NoSize
<1>1. ASSUME UNCHANGED <<stage, view, size, shown, marks, sizeRx, skipped>> PROVE SizeKnown'
  BY <1>1 DEF SizeKnown, SizeBuffered, SizeInStep, Attached
<1>2. ASSUME NEW a \in Att, UNCHANGED <<size, shown, marks, skipped>>,
             \A b \in Att \ {a} : /\ stage'[b] = stage[b] /\ view'[b] = view[b]
                                  /\ sizeRx'[b] = sizeRx[b],
             Quiet(a)', a \notin skipped => InStep(a)'
      PROVE  SizeKnown'
  BY <1>2 DEF SizeKnown, SizeBuffered, SizeInStep, Attached
<1>3. ASSUME Program PROVE SizeKnown'
  <2>1. CASE Publish
    BY <2>1, EvictKeepsSize DEF Publish, SizeKnown, SizeInStep, Attached
  <2> QED
    BY <1>1, <1>3, <2>1 DEF Program, ReadMaster, ReaderEnds, ChildDies, Reap, Kill,
       buffer, output, history
<1>4. ASSUME NEW a \in Att, Attach(a) PROVE SizeKnown'
  <2>1. Newest(shown, marks) = size
    BY NewestIsSize DEF SizeKnown
  <2>2. sizeRx'[a] = NoSize /\ stage'[a] \in {"replaying", "done"}
    BY <1>4 DEF Attach, SizeKnown, TypeOK
  <2>3. Attached(a)' => view'[a] = size'
    BY <1>4, <2>1 DEF Attach, buffer, Attached, TypeOK
  <2>4. /\ UNCHANGED <<size, shown, marks, skipped>>
        /\ \A b \in Att \ {a} : /\ stage'[b] = stage[b] /\ view'[b] = view[b]
                                /\ sizeRx'[b] = sizeRx[b]
    BY <1>4 DEF Attach, buffer, history, TypeOK
  <2> QED
    BY <1>2, <2>2, <2>3, <2>4
<1>5. ASSUME NEW a \in Att, OutputTask(a) PROVE SizeKnown'
  <2>0. UNCHANGED <<size, shown, marks, skipped>>
    BY <1>5 DEF OutputTask, SendReplay, CheckExit, SubscribeExit, SubscribeResize, Forward,
       ForwardData, ForwardOverflow, ForwardExit, ForwardResize, buffer, history
  <2>1. ASSUME NEW how, Ended(a, how), view' = view PROVE SizeKnown'
    <3>1. /\ stage'[a] = "done" /\ sizeRx'[a] = NoSize
          /\ \A b \in Att \ {a} : stage'[b] = stage[b] /\ sizeRx'[b] = sizeRx[b]
      BY <2>1 DEF Ended, TypeOK
    <3> QED
      BY <1>2, <2>0, <2>1, <3>1 DEF Attached
  <2>2. ASSUME NEW s \in {"checking", "subscribing", "sizing", "live"}, Continue(a, s),
               view' = view, Attached(a), stage[a] # "live"
        PROVE  SizeKnown'
    <3>1. /\ stage'[a] = s /\ sizeRx'[a] = NoSize
          /\ \A b \in Att \ {a} : stage'[b] = stage[b] /\ sizeRx'[b] = sizeRx[b]
      BY <2>2 DEF Continue, SizeKnown, TypeOK
    <3>2. a \notin skipped => view'[a] = size'
      BY <2>0, <2>2 DEF SizeKnown, SizeInStep
    <3> QED
      BY <1>2, <2>0, <2>2, <3>1, <3>2
  <2>3. CASE SendReplay(a) \/ CheckExit(a) \/ SubscribeExit(a) \/ SubscribeResize(a)
    BY <2>1, <2>2, <2>3 DEF SendReplay, CheckExit, SubscribeExit, SubscribeResize, Attached
  <2>4. CASE ForwardOverflow(a) \/ ForwardExit(a)
    BY <2>1, <2>4 DEF ForwardOverflow, ForwardExit
  <2>5. CASE ForwardData(a)
    BY <1>1, <2>0, <2>1, <2>5 DEF ForwardData
  <2>6. CASE ForwardResize(a)
    <3>1. /\ stage' = stage /\ sizeRx'[a] = NoSize /\ view'[a] = sizeRx[a]
          /\ \A b \in Att \ {a} : view'[b] = view[b] /\ sizeRx'[b] = sizeRx[b]
      BY <2>6 DEF ForwardResize, TypeOK
    <3>2. a \notin skipped => sizeRx[a] = size
      BY <2>6 DEF ForwardResize, SizeKnown, SizeInStep
    <3> QED
      BY <1>2, <2>0, <2>6, <3>1, <3>2
  <2> QED
    BY <1>5, <2>3, <2>4, <2>5, <2>6 DEF OutputTask, Forward
<1>6. ASSUME NEW a \in Att, Leave(a) \/ InputTask(a) PROVE SizeKnown'
  <2>1. CASE Resize(a)
    <3>1. size' = size + 1 /\ size \in Nat /\ size' # NoSize
      BY <2>1, SizeIsNumber DEF Resize, TypeOK
    <3>2. SizeBuffered'
      <4>1. shown' = shown /\ shown \in Nat /\ \A m \in marks : m.size \in Nat
        BY <2>1, SizeIsNumber DEF Resize, TypeOK
      <4>2. marks' = marks \cup {[after |-> Len(log), size |-> size + 1]}
        BY <2>1 DEF Resize
      <4>3. shown <= size /\ \A m \in marks : m.size <= size
        BY DEF SizeKnown, SizeBuffered
      <4>4. ASSUME NEW k \in Nat, k <= size PROVE k <= size'
        BY <3>1, <4>4
      <4>5. size' <= size' /\ [after |-> Len(log), size |-> size + 1].size = size'
        BY <3>1
      <4>6. \A m \in marks' : m.size <= size'
        BY <4>1, <4>2, <4>3, <4>4, <4>5
      <4>7. \E m \in marks' : m.size = size'
        BY <4>2, <4>5
      <4> QED
        BY <4>1, <4>3, <4>4, <4>6, <4>7 DEF SizeBuffered
    <3>3. \A b \in Att : sizeRx'[b] = IF stage[b] = "live" THEN size' ELSE sizeRx[b]
      BY <2>1 DEF Resize
    <3>4. stage' = stage /\ view' = view
      BY <2>1 DEF Resize
    <3>5. \A b \in Att \ skipped' : stage[b] \in {"new", "live", "done"}
      BY <2>1 DEF Resize, Stage, TypeOK
    <3> QED
      BY <3>1, <3>2, <3>3, <3>4, <3>5 DEF SizeKnown, SizeInStep, Attached
  <2>2. CASE Leave(a) \/ Focus(a) \/ BeginWrite(a) \/ FinishWrite(a) \/ EndInput(a)
    BY <1>1, <2>2 DEF Leave, Focus, BeginWrite, FinishWrite, EndInput, buffer, output, history
  <2> QED
    BY <1>6, <2>1, <2>2 DEF InputTask
<1>7. CASE UNCHANGED vars
  BY <1>1, <1>7 DEF vars, buffer, output, history
<1> QED
  BY <1>3, <1>4, <1>5, <1>6, <1>7 DEF Next

\* A stream never shows a wrong size for good: wherever its snapshot fell among
\* the evictions and the resizes, it shows the terminal's size or is about to be
\* sent it, but for a resize in the gap before it subscribed.
THEOREM SizesAgree == Spec => []SizeInStep
<1>1. Init => SizeKnown
  BY PtyAssumption DEF Init, SizeKnown, SizeBuffered, SizeInStep, Attached
<1> QED
  BY <1>1, SizeStep, TypedAlways, PTL DEF Spec, SizeKnown

-----------------------------------------------------------------------------
(* Sequences of chunks.                                                    *)

LEMMA UptoProperties ==
  ASSUME NEW n \in Nat
  PROVE  Upto(n) \in Seq(Nat) /\ Len(Upto(n)) = n /\ \A i \in 1..n : Upto(n)[i] = i
BY DEF Upto

LEMMA UptoNext ==
  ASSUME NEW n \in Nat
  PROVE  Append(Upto(n), n + 1) = Upto(n + 1)
<1> DEFINE s == Upto(n)
           t == Upto(n + 1)
<1>1. n + 1 \in Nat
  OBVIOUS
<1>2. s \in Seq(Nat) /\ Len(s) = n /\ \A i \in 1..n : s[i] = i
  BY UptoProperties
<1>3. t \in Seq(Nat) /\ Len(t) = n + 1 /\ \A i \in 1..(n + 1) : t[i] = i
  BY <1>1, UptoProperties
<1> HIDE DEF s, t
<1>4. /\ Append(s, n + 1) \in Seq(Nat) /\ Len(Append(s, n + 1)) = n + 1
      /\ \A i \in 1..n : Append(s, n + 1)[i] = s[i]
      /\ Append(s, n + 1)[n + 1] = n + 1
  BY <1>1, <1>2, AppendProperties
<1>5. \A i \in 1..(n + 1) : Append(s, n + 1)[i] = t[i]
  BY <1>2, <1>3, <1>4
<1>6. Append(s, n + 1) = t
  BY <1>3, <1>4, <1>5, SeqEqual
<1> QED
  BY <1>6 DEF s, t

\* To queue a chunk is to append it to all there was before it.
LEMMA AppendConcat ==
  ASSUME NEW S, NEW x \in Seq(S), NEW q \in Seq(S), NEW c \in S
  PROVE  x \o Append(q, c) = Append(x \o q, c)
<1>1. <<c>> \in Seq(S) /\ x \o q \in Seq(S)
  BY ConcatProperties
<1>2. Append(q, c) = q \o <<c>> /\ Append(x \o q, c) = (x \o q) \o <<c>>
  BY <1>1, AppendIsConcat
<1> QED
  BY <1>1, <1>2, ConcatAssociative

\* To take the head of a queue and send it leaves the whole what it was.
LEMMA HeadMoves ==
  ASSUME NEW S, NEW x \in Seq(S), NEW q \in Seq(S), q # <<>>
  PROVE  Append(x, Head(q)) \o Tail(q) = x \o q
<1>1. Head(q) \in S /\ Tail(q) \in Seq(S) /\ <<Head(q)>> \in Seq(S)
  BY HeadTailProperties
<1>2. Append(x, Head(q)) = x \o <<Head(q)>>
  BY <1>1, AppendIsConcat
<1>3. (x \o <<Head(q)>>) \o Tail(q) = x \o (<<Head(q)>> \o Tail(q))
  BY <1>1, ConcatAssociative
<1>4. <<Head(q)>> \o Tail(q) = q
  <2>1. <<Head(q)>> \o Tail(q) \in Seq(S) /\ Len(<<Head(q)>> \o Tail(q)) = Len(q)
    BY <1>1, HeadTailProperties, ConcatProperties
  <2>2. ASSUME NEW i \in 1..Len(q) PROVE (<<Head(q)>> \o Tail(q))[i] = q[i]
    BY <1>1, HeadTailProperties, ConcatProperties
  <2> QED
    BY <2>1, <2>2, SeqEqual
<1> QED
  BY <1>2, <1>3, <1>4

-----------------------------------------------------------------------------
(* The buffer.  What was evicted into the parser and what the deque still  *)
(* holds are the whole output, which is its chunks in the order of their   *)
(* numbers.                                                                *)

BufferIsLog == log = Upto(Len(log)) /\ screen \o raw = log

LEMMA EvictKeepsChunks ==
  ASSUME TypeOK, NEW chunks \in Seq(Chunk), Evict(chunks)
  PROVE  screen' \o raw' = screen \o chunks
<1> DEFINE n == IF Len(chunks) > RawCap THEN Len(chunks) - RawCap ELSE 0
           s == SubSeq(chunks, 1, n)
           t == SubSeq(chunks, n + 1, Len(chunks))
<1>1. n \in 0..Len(chunks)
  BY PtyAssumption
<1>2. s \o t = chunks
  <2> HIDE DEF n
  <2>1. /\ Len(chunks) \in Nat /\ 1 \in 1..(Len(chunks) + 1)
        /\ n \in (1 - 1)..Len(chunks) /\ Len(chunks) \in n..Len(chunks)
    BY <1>1
  <2>2. SubSeq(chunks, 1, n) \o SubSeq(chunks, n + 1, Len(chunks)) = SubSeq(chunks, 1, Len(chunks))
    BY <2>1, ConcatAdjacentSubSeq
  <2> QED
    BY <2>2, SubSeqFull
<1>3. s \in Seq(Chunk) /\ t \in Seq(Chunk)
  <2> HIDE DEF n
  <2>1. Len(chunks) \in Nat /\ \A i \in 1..Len(chunks) : chunks[i] \in Chunk
    OBVIOUS
  <2>2. \A i \in 1..n : chunks[i] \in Chunk
    BY <1>1, <2>1
  <2>3. \A i \in (n + 1)..Len(chunks) : chunks[i] \in Chunk
    BY <1>1, <2>1
  <2> QED
    BY <1>1, <2>1, <2>2, <2>3, SubSeqProperties
<1>4. screen' = screen \o s /\ raw' = t
  BY DEF Evict
<1>5. screen \in Seq(Chunk)
  BY DEF TypeOK
<1> HIDE DEF n, s, t
<1>6. (screen \o s) \o t = screen \o (s \o t)
  BY <1>3, <1>5, ConcatAssociative
<1> QED
  BY <1>2, <1>4, <1>6

LEMMA PublishBuffer ==
  ASSUME Typed, BufferIsLog, Publish
  PROVE  BufferIsLog' /\ Len(log') = Len(log) + 1
<1> DEFINE c == Len(log) + 1
<1>1. c \in Chunk /\ Len(log) \in Nat
  BY PtyAssumption DEF Publish, Typed, TypeOK, Bounds, Chunk
<1>2. log' = Append(log, c) /\ Evict(Append(raw, c))
  BY DEF Publish
<1>3. log \in Seq(Chunk) /\ raw \in Seq(Chunk) /\ screen \in Seq(Chunk)
  BY DEF Typed, TypeOK
<1> HIDE DEF c
<1>4. Append(raw, c) \in Seq(Chunk)
  BY <1>1, <1>3
<1>5. screen' \o raw' = screen \o Append(raw, c)
  BY <1>2, <1>4, EvictKeepsChunks DEF Typed
<1>6. screen' \o raw' = Append(log, c)
  BY <1>1, <1>3, <1>5, AppendConcat DEF BufferIsLog
<1>7. Len(log') = Len(log) + 1
  BY <1>1, <1>2, <1>3, AppendProperties
<1>8. Append(Upto(Len(log)), Len(log) + 1) = Upto(Len(log) + 1)
  BY <1>1, UptoNext
<1> QED
  BY <1>2, <1>6, <1>7, <1>8 DEF BufferIsLog, c

LEMMA BufferStep == Typed /\ BufferIsLog /\ [Next]_vars => BufferIsLog'
<1> SUFFICES ASSUME Typed, BufferIsLog, [Next]_vars PROVE BufferIsLog'
  OBVIOUS
<1>1. ASSUME UNCHANGED <<log, screen, raw>> PROVE BufferIsLog'
  BY <1>1 DEF BufferIsLog
<1>2. CASE Publish
  BY <1>2, PublishBuffer
<1>3. CASE ReadMaster \/ ReaderEnds \/ ChildDies \/ Reap \/ Kill
  BY <1>1, <1>3 DEF ReadMaster, ReaderEnds, ChildDies, Reap, Kill, buffer
<1>4. ASSUME NEW a \in Att, Attach(a) \/ Leave(a) \/ OutputTask(a) PROVE BufferIsLog'
  BY <1>1, <1>4 DEF Attach, Leave, OutputTask, SendReplay, CheckExit, SubscribeExit,
     SubscribeResize, Forward, ForwardData, ForwardOverflow, ForwardExit, ForwardResize, buffer
<1>5. ASSUME NEW a \in Att, InputTask(a) PROVE BufferIsLog'
  BY <1>1, <1>5 DEF InputTask, Focus, BeginWrite, FinishWrite, Resize, EndInput, buffer
<1>6. CASE UNCHANGED vars
  BY <1>1, <1>6 DEF vars, buffer
<1> QED
  BY <1>2, <1>3, <1>4, <1>5, <1>6 DEF Next, Program

-----------------------------------------------------------------------------
(* The streams.  One that is queued to was never dropped; one that is not   *)
(* was dropped at a length the log has passed, or the log grows no more.   *)

Span(a) == Upto(Min(cut[a], Len(log)))

StreamOK(a) ==
  /\ stage[a] = "new" => got[a] = <<>> /\ queue[a] = <<>> /\ a \notin subs /\ cut[a] = Uncut
  /\ stage[a] # "replaying" => replay[a] = <<>>
  /\ stage[a] = "replaying" => got[a] = <<>>
  /\ stage[a] # "done" => fin[a] = "none"
  /\ Attached(a) /\ a \in subs => cut[a] = Uncut
  /\ stage[a] # "new" /\ a \notin subs => killed \/ cut[a] <= Len(log)
  /\ fin[a] = "overflow" => a \notin subs
  /\ Attached(a) => got[a] \o replay[a] \o queue[a] = Span(a)
  /\ fin[a] = "overflow" => got[a] = Span(a)

Streams == \A a \in Att : StreamOK(a)

\* A step that leaves a stream alone.
LEMMA StreamFrame ==
  ASSUME NEW a \in Att, StreamOK(a), log' = log, killed => killed',
         stage'[a] = stage[a], replay'[a] = replay[a], queue'[a] = queue[a],
         got'[a] = got[a], fin'[a] = fin[a], cut'[a] = cut[a],
         a \in subs' => a \in subs, a \in subs /\ a \notin subs' => killed'
  PROVE  StreamOK(a)'
BY DEF StreamOK, Attached, Span, Min

LEMMA SpanWhenQueued ==
  ASSUME Typed, NEW a \in Att, cut[a] = Uncut
  PROVE  Span(a) = Upto(Len(log))
<1>1. Len(log) \in Nat /\ Len(log) < Uncut
  BY PtyAssumption DEF Typed, TypeOK, Bounds, Uncut
<1> QED
  BY <1>1, PtyAssumption DEF Span, Min, Uncut

LEMMA PublishStream ==
  ASSUME Typed, Typed', BufferIsLog, NEW a \in Att, StreamOK(a), Publish
  PROVE  StreamOK(a)'
<1> DEFINE c == Len(log) + 1
           kept == {b \in subs : Room(b)}
<1>0. /\ subs' = kept /\ UNCHANGED <<stage, replay, got, fin, killed>>
      /\ queue'[a] = IF a \in kept THEN Append(queue[a], c) ELSE queue[a]
      /\ cut'[a] = IF a \in subs \ kept THEN Len(log) ELSE cut[a]
  BY DEF Publish
<1>1. ~killed /\ Len(log) \in Nat /\ Len(log') = c /\ c \in Chunk /\ c <= MaxChunks
  BY PublishBuffer, PtyAssumption DEF Publish, Typed, TypeOK, Bounds, Chunk
<1>2. subs \subseteq Att /\ kept \subseteq subs /\ cut[a] \in 0..Uncut
  BY DEF Typed, TypeOK
<1>3. CASE a \in kept
  <2>1. stage[a] \notin {"new", "done"}
    BY <1>3 DEF Room, StreamOK
  <2>2. cut[a] = Uncut /\ cut'[a] = Uncut
    BY <1>0, <1>3, <2>1 DEF StreamOK, Attached
  <2>3. got[a] \o replay[a] \o queue[a] = Upto(Len(log))
    BY <2>1, <2>2, SpanWhenQueued DEF StreamOK, Attached
  <2>4. (got[a] \o replay[a]) \o Append(queue[a], c) = Append(Upto(Len(log)), c)
    <3>1. got[a] \in Seq(Chunk) /\ replay[a] \in Seq(Chunk) /\ queue[a] \in Seq(Chunk)
      BY DEF Typed, TypeOK
    <3>2. got[a] \o replay[a] \in Seq(Chunk)
      BY <3>1, ConcatProperties
    <3> DEFINE x == got[a] \o replay[a]
               q == queue[a]
    <3>3. x \in Seq(Chunk) /\ q \in Seq(Chunk) /\ c \in Chunk
      BY <1>1, <3>1, <3>2
    <3>4. x \o Append(q, c) = Append(x \o q, c)
      <4> HIDE DEF c, x, q
      <4> QED
        BY <3>3, AppendConcat
    <3> QED
      BY <2>3, <3>4
  <2>5. Append(Upto(Len(log)), c) = Upto(c)
    BY <1>1, UptoNext
  <2>6. Span(a)' = Upto(c)
    BY <1>1, <2>2, PtyAssumption DEF Span, Min, Uncut
  <2>7. got'[a] \o replay'[a] \o queue'[a] = Span(a)'
    BY <1>0, <1>3, <2>4, <2>5, <2>6
  <2> HIDE DEF kept
  <2> QED
    BY <1>0, <1>3, <2>1, <2>2, <2>7 DEF StreamOK, Attached
<1>4. CASE a \in subs \ kept
  <2>1. stage[a] # "new"
    BY <1>4 DEF StreamOK
  <2>2. cut'[a] = Len(log) /\ queue'[a] = queue[a]
    BY <1>0, <1>4
  <2>3. Span(a)' = Upto(Len(log))
    BY <1>1, <2>2 DEF Span, Min
  <2>4. Attached(a) => Span(a) = Upto(Len(log))
    BY <1>4, SpanWhenQueued DEF StreamOK
  <2>5. Attached(a)' => got'[a] \o replay'[a] \o queue'[a] = Span(a)'
    BY <1>0, <2>2, <2>3, <2>4 DEF StreamOK, Attached
  <2>6. fin[a] # "overflow"
    BY <1>4 DEF StreamOK
  <2>7. cut'[a] <= Len(log') /\ a \notin subs'
    BY <1>0, <1>1, <1>4, <2>2
  <2> HIDE DEF kept
  <2> QED
    BY <1>0, <2>1, <2>2, <2>5, <2>6, <2>7 DEF StreamOK, Attached
<1>5. CASE a \notin subs
  <2>1. cut'[a] = cut[a] /\ queue'[a] = queue[a] /\ a \notin subs'
    BY <1>0, <1>5
  <2>2. CASE stage[a] = "new"
    BY <1>0, <2>1, <2>2 DEF StreamOK, Attached
  <2>3. CASE stage[a] # "new"
    <3>1. cut[a] <= Len(log) /\ cut[a] \in Int
      BY <1>1, <1>2, <1>5, <2>3 DEF StreamOK
    <3>2. cut[a] <= Len(log') /\ Len(log') \in Nat
      BY <1>1, <3>1
    <3>3. Min(cut[a], Len(log)) = cut[a] /\ Min(cut[a], Len(log')) = cut[a]
      BY <1>1, <3>1, <3>2 DEF Min
    <3>4. Span(a)' = Span(a) /\ cut'[a] <= Len(log')
      BY <2>1, <3>2, <3>3 DEF Span
    <3> HIDE DEF kept
    <3> QED
      BY <1>0, <2>1, <2>3, <3>4 DEF StreamOK, Attached
  <2> QED
    BY <2>2, <2>3
<1> QED
  BY <1>3, <1>4, <1>5

LEMMA AttachStream ==
  ASSUME Typed, BufferIsLog, NEW a \in Att, StreamOK(a), Attach(a)
  PROVE  StreamOK(a)'
<1>0. /\ UNCHANGED <<log, queue, got, cut, killed>> /\ stage[a] = "new"
      /\ stage'[a] = IF killed THEN "done" ELSE "replaying"
      /\ fin'[a] = IF killed THEN "silent" ELSE fin[a]
      /\ replay'[a] = IF killed THEN replay[a] ELSE screen \o raw
      /\ subs' = IF killed THEN subs ELSE subs \cup {a}
  BY DEF Attach, buffer, tasks, history, Typed, TypeOK
<1>1. /\ got[a] = <<>> /\ queue[a] = <<>> /\ replay[a] = <<>> /\ fin[a] = "none"
      /\ cut[a] = Uncut /\ a \notin subs
  BY <1>0 DEF StreamOK
<1>2. CASE killed
  BY <1>0, <1>1, <1>2 DEF StreamOK, Attached
<1>3. CASE ~killed
  <2>1. log \in Seq(Chunk) /\ screen \o raw = log /\ Span(a) = log
    BY <1>1, SpanWhenQueued DEF BufferIsLog, Typed, TypeOK
  <2>2. <<>> \o log \o <<>> = log
    BY <2>1, ConcatEmptySeq
  <2>3. Span(a)' = Span(a)
    BY <1>0 DEF Span
  <2> QED
    BY <1>0, <1>1, <1>3, <2>1, <2>2, <2>3 DEF StreamOK, Attached
<1> QED
  BY <1>2, <1>3

LEMMA EndedStream ==
  ASSUME TypeOK, NEW a \in Att, StreamOK(a), Attached(a),
         NEW how \in {"exit", "overflow", "silent", "gone"}, Ended(a, how),
         UNCHANGED <<log, got, cut, killed, subs>>, replay'[a] = <<>>,
         how = "overflow" => queue[a] = <<>> /\ replay[a] = <<>> /\ a \notin subs
  PROVE  StreamOK(a)'
<1>1. stage'[a] = "done" /\ fin'[a] = IF open[a] THEN how ELSE "gone"
  BY DEF Ended, TypeOK
<1>2. how = "overflow" => got[a] = Span(a)
  <2> SUFFICES ASSUME how = "overflow" PROVE got[a] = Span(a)
    OBVIOUS
  <2>1. got[a] \o <<>> \o <<>> = Span(a)
    BY DEF StreamOK
  <2> QED
    BY <2>1, ConcatEmptySeq DEF TypeOK
<1>3. Span(a)' = Span(a)
  BY DEF Span
<1> QED
  BY <1>1, <1>2, <1>3 DEF StreamOK, Attached

LEMMA OutputStream ==
  ASSUME Typed, NEW a \in Att, StreamOK(a), OutputTask(a)
  PROVE  StreamOK(a)'
<1> USE DEF Typed
<1>0. /\ UNCHANGED <<log, cut, killed, subs>> /\ Span(a)' = Span(a) /\ Attached(a)
      /\ fin[a] = "none"
  <2>1. Attached(a) /\ UNCHANGED <<log, cut, killed, subs>>
    BY DEF OutputTask, SendReplay, CheckExit, SubscribeExit, SubscribeResize, Forward,
       ForwardData, ForwardOverflow, ForwardExit, ForwardResize, buffer, tasks, history, Attached
  <2> QED
    BY <2>1 DEF Span, StreamOK, Attached
<1>1. ASSUME NEW s \in {"checking", "subscribing", "sizing", "live"}, Continue(a, s),
             replay' = replay, got' = got, stage[a] # "replaying"
      PROVE  StreamOK(a)'
  BY <1>0, <1>1 DEF Continue, StreamOK, Attached, TypeOK
<1>2. CASE SendReplay(a)
  <2>0. stage[a] = "replaying" /\ got[a] = <<>> /\ replay'[a] = <<>>
    BY <1>2 DEF SendReplay, StreamOK, TypeOK
  <2>1. CASE ~open[a]
    BY <1>0, <1>2, <2>0, <2>1, EndedStream DEF SendReplay
  <2>2. CASE open[a]
    <3>1. /\ got'[a] = replay[a] /\ queue'[a] = queue[a] /\ stage'[a] = "checking"
          /\ fin' = fin
      BY <1>2, <2>2 DEF SendReplay, Continue, TypeOK
    <3>2. <<>> \o replay[a] \o queue[a] = replay[a] \o <<>> \o queue[a]
      BY ConcatEmptySeq DEF TypeOK
    <3>3. got'[a] \o replay'[a] \o queue'[a] = Span(a)'
      BY <1>0, <2>0, <3>1, <3>2 DEF StreamOK
    <3> QED
      BY <1>0, <2>0, <3>1, <3>3 DEF StreamOK, Attached
  <2> QED
    BY <2>1, <2>2
<1>3. CASE CheckExit(a) \/ SubscribeExit(a) \/ SubscribeResize(a)
  <2>1. replay' = replay /\ got' = got /\ stage[a] # "replaying" /\ replay[a] = <<>>
    BY <1>3 DEF CheckExit, SubscribeExit, SubscribeResize, StreamOK
  <2> QED
    BY <1>0, <1>1, <1>3, <2>1, EndedStream DEF CheckExit, SubscribeExit, SubscribeResize
<1>4. CASE ForwardData(a)
  <2>0. stage[a] = "live" /\ queue[a] # <<>> /\ replay' = replay /\ replay[a] = <<>>
    BY <1>4 DEF ForwardData, StreamOK
  <2>1. CASE ~open[a]
    BY <1>0, <1>4, <2>0, <2>1, EndedStream DEF ForwardData
  <2>2. CASE open[a]
    <3>1. /\ got'[a] = Append(got[a], Head(queue[a])) /\ queue'[a] = Tail(queue[a])
          /\ UNCHANGED <<stage, fin>>
      BY <1>4, <2>2 DEF ForwardData, TypeOK
    <3>2. got[a] \in Seq(Chunk) /\ queue[a] \in Seq(Chunk)
      BY DEF TypeOK
    <3>3. Append(got[a], Head(queue[a])) \in Seq(Chunk)
      BY <2>0, <3>2, HeadTailProperties, AppendProperties
    <3>4. Append(got[a], Head(queue[a])) \o Tail(queue[a]) = got[a] \o queue[a]
      BY <2>0, <3>2, HeadMoves
    <3>5. got'[a] \o replay'[a] \o queue'[a] = got[a] \o replay[a] \o queue[a]
      BY <2>0, <3>1, <3>2, <3>3, <3>4, ConcatEmptySeq
    <3> QED
      BY <1>0, <2>0, <3>1, <3>5 DEF StreamOK, Attached
  <2> QED
    BY <2>1, <2>2
<1>5. CASE ForwardOverflow(a) \/ ForwardExit(a)
  <2>1. replay' = replay /\ got' = got /\ stage[a] = "live" /\ replay[a] = <<>>
    BY <1>5 DEF ForwardOverflow, ForwardExit, StreamOK
  <2> QED
    BY <1>0, <1>5, <2>1, EndedStream DEF ForwardOverflow, ForwardExit
<1>6. CASE ForwardResize(a)
  BY <1>0, <1>6, StreamFrame DEF ForwardResize
<1> QED
  BY <1>2, <1>3, <1>4, <1>5, <1>6 DEF OutputTask, Forward

LEMMA StreamsStep == Typed /\ Typed' /\ BufferIsLog /\ Streams /\ [Next]_vars => Streams'
<1> SUFFICES ASSUME Typed, Typed', BufferIsLog, Streams, [Next]_vars, NEW b \in Att
             PROVE  StreamOK(b)'
  BY DEF Streams
<1>0. StreamOK(b)
  BY DEF Streams
<1>1. ASSUME UNCHANGED <<log, stage, replay, queue, got, fin, cut>>, killed => killed',
             b \in subs' => b \in subs, b \in subs /\ b \notin subs' => killed'
      PROVE  StreamOK(b)'
  BY <1>0, <1>1, StreamFrame
<1>2. CASE Publish
  BY <1>0, <1>2, PublishStream
<1>3. CASE ReadMaster \/ ReaderEnds \/ ChildDies \/ Reap \/ Kill
  BY <1>1, <1>3 DEF ReadMaster, ReaderEnds, ChildDies, Reap, Kill, buffer, output, history
<1>4. ASSUME NEW a \in Att, Attach(a) \/ OutputTask(a) PROVE StreamOK(b)'
  <2>1. CASE a = b
    BY <1>0, <1>4, <2>1, AttachStream, OutputStream
  <2>2. CASE a # b
    <3>1. UNCHANGED <<log, cut, killed>> /\ (b \in subs' <=> b \in subs)
      BY <1>4, <2>2 DEF Attach, OutputTask, SendReplay, CheckExit, SubscribeExit,
         SubscribeResize, Forward, ForwardData, ForwardOverflow, ForwardExit, ForwardResize,
         buffer, tasks, history
    <3>2. ASSUME NEW how, NEW s, Ended(a, how) \/ Continue(a, s)
          PROVE  stage'[b] = stage[b] /\ fin'[b] = fin[b] /\ queue'[b] = queue[b]
      <4>1. CASE Ended(a, how)
        <5>1. fin' = [fin EXCEPT ![a] = IF open[a] THEN how ELSE "gone"]
          BY <4>1 DEF Ended
        <5>2. stage' = [stage EXCEPT ![a] = "done"] /\ queue' = [queue EXCEPT ![a] = <<>>]
          BY <4>1 DEF Ended
        <5> QED
          BY <2>2, <5>1, <5>2 DEF Typed, TypeOK
      <4>2. CASE Continue(a, s)
        BY <2>2, <4>2 DEF Continue, Typed, TypeOK
      <4> QED
        BY <3>2, <4>1, <4>2
    <3>3. stage'[b] = stage[b] /\ fin'[b] = fin[b] /\ queue'[b] = queue[b]
      <4>1. CASE Attach(a) \/ ForwardResize(a)
        BY <2>2, <4>1, ZenonT(60) DEF Attach, ForwardResize, Typed, TypeOK
      <4>2. CASE ForwardData(a)
        BY <2>2, <3>2, <4>2 DEF ForwardData, Typed, TypeOK
      <4> QED
        BY <1>4, <3>2, <4>1, <4>2 DEF OutputTask, SendReplay, CheckExit, SubscribeExit,
           SubscribeResize, Forward, ForwardOverflow, ForwardExit
    <3>4. replay'[b] = replay[b] /\ got'[b] = got[b]
      BY <1>4, <2>2, ZenonT(60) DEF Attach, OutputTask, SendReplay, CheckExit, SubscribeExit,
         SubscribeResize, Forward, ForwardData, ForwardOverflow, ForwardExit, ForwardResize,
         Typed, TypeOK
    <3> QED
      BY <1>0, <3>1, <3>3, <3>4, StreamFrame
  <2> QED
    BY <2>1, <2>2
<1>5. ASSUME NEW a \in Att, Leave(a) \/ InputTask(a) PROVE StreamOK(b)'
  BY <1>1, <1>5 DEF Leave, InputTask, Focus, BeginWrite, FinishWrite, Resize, EndInput,
     buffer, tasks, output, history
<1>6. CASE UNCHANGED vars
  BY <1>1, <1>6 DEF vars, buffer, tasks, output, history
<1> QED
  BY <1>2, <1>3, <1>4, <1>5, <1>6 DEF Next, Program

LEMMA StreamsAlways == Spec => [](Typed /\ BufferIsLog /\ Streams)
<1>1. Init => BufferIsLog /\ Streams
  <2> SUFFICES ASSUME Init PROVE BufferIsLog /\ Streams
    OBVIOUS
  <2>1. BufferIsLog
    BY DEF Init, BufferIsLog, Upto
  <2>2. Streams
    BY DEF Init, Streams, StreamOK, Attached
  <2> QED
    BY <2>1, <2>2
<1> QED
  BY <1>1, TypedAlways, BufferStep, StreamsStep, PTL DEF Spec

\* What an attached stream was sent, will replay and has queued is the output
\* from its first chunk on without a gap or a repetition: subscribing and taking
\* the snapshot under one lock loses nothing, nor does eviction into the parser.
THEOREM StreamsHaveNoGap == Spec => []NoGap
<1>1. Streams => NoGap
  BY DEF Streams, StreamOK, NoGap, Span
<1> QED
  BY <1>1, StreamsAlways, PTL

\* A stream ended by the overflow error was sent all that was queued before its
\* subscriber was dropped.
THEOREM OverflowIsLast == Spec => []OverflowComesLast
<1>1. Streams => OverflowComesLast
  BY DEF Streams, StreamOK, OverflowComesLast, Span
<1> QED
  BY <1>1, StreamsAlways, PTL

\* Both together: a stream is the output from its beginning without a gap, and
\* one that is given up was first sent all that was queued for it.
THEOREM StreamsStayIntact == Spec => []StreamsIntact
BY StreamsHaveNoGap, OverflowIsLast, PTL DEF StreamsIntact

-----------------------------------------------------------------------------
(* The session keeps what PtyLog promises.                                 *)

LEMMA PrefixOfUpto ==
  ASSUME NEW x \in Seq(Chunk), NEW y \in Seq(Chunk), NEW n \in Nat, x \o y = Upto(n)
  PROVE  x = Upto(Len(x)) /\ Len(x) <= n
<1>1. Len(x) \in Nat /\ Len(y) \in Nat /\ Len(x) + Len(y) = n
  <2>1. Len(x \o y) = Len(x) + Len(y)
    BY ConcatProperties
  <2>2. Len(Upto(n)) = n
    BY UptoProperties
  <2>3. Len(x) \in Nat /\ Len(y) \in Nat
    OBVIOUS
  <2> QED
    BY <2>1, <2>2, <2>3
<1>2. ASSUME NEW i \in 1..Len(x) PROVE x[i] = i
  <2>1. (x \o y)[i] = x[i]
    BY <1>1, ConcatProperties
  <2>2. Upto(n)[i] = i
    BY <1>1, UptoProperties
  <2> QED
    BY <2>1, <2>2
<1>3. x \in Seq(Nat)
  BY <1>1, <1>2
<1>4. x = Upto(Len(x))
  BY <1>1, <1>2, <1>3, UptoProperties, SeqEqual
<1> QED
  BY <1>1, <1>4

LEMMA SubSeqOfUpto ==
  ASSUME NEW n \in Nat, NEW k \in 0..n
  PROVE  SubSeq(Upto(n), 1, k) = Upto(k)
<1> DEFINE s == Upto(n)
           t == Upto(k)
<1>1. s \in Seq(Nat) /\ Len(s) = n /\ \A i \in 1..n : s[i] = i
  BY UptoProperties
<1>2. t \in Seq(Nat) /\ Len(t) = k /\ \A i \in 1..k : t[i] = i
  BY UptoProperties
<1> HIDE DEF s, t
<1>3. \A i \in 1..k : s[i] \in Nat
  BY <1>1
<1>4. /\ SubSeq(s, 1, k) \in Seq(Nat) /\ Len(SubSeq(s, 1, k)) = k
      /\ \A i \in 1..k : SubSeq(s, 1, k)[i] = s[i]
  BY <1>3, SubSeqProperties
<1>5. SubSeq(s, 1, k) = t
  BY <1>1, <1>2, <1>4, SeqEqual
<1> QED
  BY <1>5 DEF s, t

\* What a stream has been sent once it is sent something more.
LEMMA ReadStep ==
  ASSUME Typed, BufferIsLog, NEW a \in Att, StreamOK(a), UNCHANGED <<log, fin>>,
         fin[a] = "none",
         NEW x \in Seq(Chunk), NEW y \in Seq(Chunk), x \o y = Span(a),
         got' = [got EXCEPT ![a] = x], Len(x) > Len(got[a])
  PROVE  Promise!Read(a)
<1>1. Len(log) \in Nat /\ cut[a] \in Nat /\ got[a] \in Seq(Chunk)
  BY PtyAssumption DEF Typed, TypeOK, Uncut
<1>2. Min(cut[a], Len(log)) \in 0..Len(log)
  BY <1>1 DEF Min
<1>3. x = Upto(Len(x)) /\ Len(x) <= Len(log) /\ Len(x) \in Nat
  <2> DEFINE m == Min(cut[a], Len(log))
  <2>1. m \in Nat /\ m <= Len(log) /\ x \o y = Upto(m)
    BY <1>1, <1>2 DEF Span
  <2> HIDE DEF m
  <2>2. x = Upto(Len(x)) /\ Len(x) <= m
    BY <2>1, PrefixOfUpto
  <2>3. Len(x) \in Nat
    OBVIOUS
  <2> QED
    BY <1>1, <2>1, <2>2, <2>3
<1>4. SubSeq(log, 1, Len(x)) = x
  <2>0. Len(x) \in 0..Len(log)
    BY <1>1, <1>3
  <2>1. SubSeq(Upto(Len(log)), 1, Len(x)) = Upto(Len(x))
    BY <1>1, <2>0, SubSeqOfUpto
  <2> QED
    BY <1>3, <2>1 DEF BufferIsLog
<1>5. Len(x) \in (Len(got[a]) + 1)..Len(log)
  BY <1>1, <1>3
<1> QED
  BY <1>4, <1>5 DEF Promise!Read

\* A stream that ends.
LEMMA EndStep ==
  ASSUME TypeOK, NEW a \in Att, UNCHANGED <<log, got>>, fin[a] = "none",
         NEW how, how # "none", fin' = [fin EXCEPT ![a] = how]
  PROVE  Promise!End(a)
<1> DEFINE ended == [b \in Att |-> fin[b] # "none"]
<1>1. ended' = [ended EXCEPT ![a] = TRUE]
  BY DEF TypeOK
<1> QED
  BY <1>1 DEF Promise!End

LEMMA PromiseStep ==
  ASSUME Typed, BufferIsLog, Streams, [Next]_vars
  PROVE  [Promise!Next]_Promise!vars
<1> DEFINE Stutters == UNCHANGED <<log, got, fin>>
<1>0. ASSUME Stutters PROVE UNCHANGED Promise!vars
  BY <1>0 DEF Promise!vars
<1>1. ASSUME Publish PROVE Promise!Output
  <2>1. Len(log) + 1 \in Chunk
    BY <1>1, PtyAssumption DEF Publish, Typed, TypeOK, Bounds, Chunk
  <2>2. log' = Append(log, Len(log) + 1) /\ got' = got /\ fin' = fin
    BY <1>1 DEF Publish
  <2> QED
    BY <2>1, <2>2 DEF Promise!Output
<1>2. ASSUME ReadMaster \/ ReaderEnds \/ ChildDies \/ Reap \/ Kill PROVE Stutters
  BY <1>2 DEF ReadMaster, ReaderEnds, ChildDies, Reap, Kill, buffer, output
<1>3. ASSUME NEW a \in Att, NEW how \in {"exit", "overflow", "silent", "gone"},
             Ended(a, how), UNCHANGED <<log, got>>, Attached(a)
      PROVE  Promise!End(a)
  <2>1. fin[a] = "none"
    BY <1>3 DEF Attached, Streams, StreamOK
  <2>2. PICK h \in {"exit", "overflow", "silent", "gone"} : fin' = [fin EXCEPT ![a] = h]
    BY <1>3 DEF Ended
  <2> QED
    BY <1>3, <2>1, <2>2, EndStep DEF Typed
<1>4. ASSUME NEW a \in Att, Attach(a) PROVE Promise!End(a) \/ Stutters
  <2>1. CASE killed
    <3>1. fin[a] = "none" /\ fin' = [fin EXCEPT ![a] = "silent"]
      BY <1>4, <2>1 DEF Attach, Streams, StreamOK
    <3>2. UNCHANGED <<log, got>>
      BY <1>4 DEF Attach, buffer
    <3> QED
      BY <3>1, <3>2, EndStep DEF Typed
  <2> QED
    BY <1>4, <2>1 DEF Attach, buffer
<1>5. ASSUME NEW a \in Att, SendReplay(a) PROVE Promise!End(a) \/ Promise!Read(a) \/ Stutters
  <2>1. CASE ~open[a]
    BY <1>3, <1>5, <2>1 DEF SendReplay, buffer, Attached
  <2>2. CASE open[a]
    <3>1. /\ got' = [got EXCEPT ![a] = replay[a]] /\ UNCHANGED <<log, fin>>
          /\ got[a] = <<>> /\ fin[a] = "none" /\ Attached(a)
      BY <1>5, <2>2 DEF SendReplay, Continue, buffer, Attached, Streams, StreamOK
    <3>2. replay[a] \in Seq(Chunk) /\ queue[a] \in Seq(Chunk)
      BY DEF Typed, TypeOK
    <3>3. replay[a] \o queue[a] = Span(a)
      BY <3>1, <3>2, ConcatEmptySeq DEF Streams, StreamOK
    <3>4. CASE replay[a] = <<>>
      BY <3>1, <3>4 DEF Typed, TypeOK
    <3>5. CASE replay[a] # <<>>
      <4>1. Len(replay[a]) > Len(got[a])
        BY <3>1, <3>2, <3>5
      <4> QED
        BY <3>1, <3>2, <3>3, <4>1, ReadStep DEF Streams
    <3> QED
      BY <3>4, <3>5
  <2> QED
    BY <2>1, <2>2
<1>6. ASSUME NEW a \in Att, CheckExit(a) \/ SubscribeExit(a) \/ SubscribeResize(a)
      PROVE  Promise!End(a) \/ Stutters
  BY <1>3, <1>6 DEF CheckExit, SubscribeExit, SubscribeResize, Continue, buffer, Attached
<1>7. ASSUME NEW a \in Att, ForwardData(a) PROVE Promise!End(a) \/ Promise!Read(a)
  <2>1. CASE ~open[a]
    BY <1>3, <1>7, <2>1 DEF ForwardData, buffer, Attached
  <2>2. CASE open[a]
    <3> DEFINE x == Append(got[a], Head(queue[a]))
               y == Tail(queue[a])
    <3>1. /\ got' = [got EXCEPT ![a] = x] /\ UNCHANGED <<log, fin>> /\ queue[a] # <<>>
          /\ replay[a] = <<>> /\ fin[a] = "none" /\ Attached(a)
      BY <1>7, <2>2 DEF ForwardData, buffer, Attached, Streams, StreamOK
    <3>2. got[a] \in Seq(Chunk) /\ queue[a] \in Seq(Chunk)
      BY DEF Typed, TypeOK
    <3>3. x \in Seq(Chunk) /\ y \in Seq(Chunk) /\ Len(x) > Len(got[a])
      BY <3>1, <3>2, HeadTailProperties, AppendProperties
    <3>4. got[a] \o queue[a] = Span(a)
      BY <3>1, <3>2, ConcatEmptySeq DEF Streams, StreamOK
    <3>5. x \o y = Span(a)
      BY <3>1, <3>2, <3>4, HeadMoves
    <3> HIDE DEF x, y
    <3> QED
      BY <3>1, <3>3, <3>5, ReadStep DEF Streams
  <2> QED
    BY <2>1, <2>2
<1>8. ASSUME NEW a \in Att, ForwardOverflow(a) \/ ForwardExit(a) PROVE Promise!End(a)
  BY <1>3, <1>8 DEF ForwardOverflow, ForwardExit, buffer, Attached
<1>9. ASSUME NEW a \in Att, ForwardResize(a) \/ Leave(a) \/ InputTask(a) PROVE Stutters
  BY <1>9 DEF ForwardResize, Leave, InputTask, Focus, BeginWrite, FinishWrite, Resize,
     EndInput, buffer, output
<1>10. ASSUME UNCHANGED vars PROVE Stutters
  BY <1>10 DEF vars, buffer, output
<1> HIDE DEF Stutters
<1>11. Promise!Next \/ Stutters
  BY <1>1, <1>2, <1>4, <1>5, <1>6, <1>7, <1>8, <1>9, <1>10
     DEF Next, Program, OutputTask, Forward, Promise!Next
<1> QED
  BY <1>0, <1>11

\* The terminal implements the growing log that each reader follows from the
\* first chunk on until its stream ends, whatever the buffer evicts, whichever
\* subscribers overflow and wherever a kill or an exit falls.
THEOREM TerminalKeepsPromise == Spec => KeepsPromise
<1>1. Init => Promise!Init
  BY DEF Init, Promise!Init
<1>2. Typed /\ BufferIsLog /\ Streams /\ [Next]_vars => [Promise!Next]_Promise!vars
  BY PromiseStep
<1> QED
  BY <1>1, <1>2, StreamsAlways, PTL DEF Spec, KeepsPromise, Promise!Spec
=============================================================================
