------------------------- MODULE FileWatcher_proofs -------------------------
(***************************************************************************)
(* Proofs about FileWatcher, for any contents, number of streams and of    *)
(* handlers, channel capacity and bounds: type correctness, no forgotten   *)
(* stream, subscribers in step with last_state, and the atomicity of       *)
(* guarded writes when nothing but handlers that run to their rename       *)
(* writes the file.                                                        *)
(***************************************************************************)
EXTENDS FileWatcher, SequenceTheorems, TLAPS

\* What a step leaves alone stays typed.
LEMMA FilesKept == FilesOK /\ UNCHANGED files => FilesOK'
BY DEF FilesOK, files
LEMMA EntryKept == EntryOK /\ UNCHANGED entry => EntryOK'
BY DEF EntryOK, entry
LEMMA StreamsKept == StreamsOK /\ UNCHANGED streams => StreamsOK'
BY DEF StreamsOK, streams

\* A handler that is not idle has a stage, what it was guarded by, and what it
\* writes.
LEMMA BusyTask ==
  ASSUME FilesOK, NEW t \in Task, task[t].stage \in {"committing", "notifying"}
  PROVE  /\ task[t].from \in Guard
         /\ task[t].to \in State
         /\ task[t] = Stage(task[t].stage, task[t].from, task[t].to)
<1>1. task[t] \in Handling
  BY DEF FilesOK
<1>2. task[t] # Idle
  BY DEF Idle
<1>3. PICK g \in {"committing", "notifying"}, f \in Guard, x \in State :
        task[t] = Stage(g, f, x)
  BY <1>1, <1>2 DEF Handling
<1>4. task[t].stage = g /\ task[t].from = f /\ task[t].to = x
  BY <1>3 DEF Stage
<1> QED
  BY <1>3, <1>4

\* Sending an event keeps the streams typed.
LEMMA SendType ==
  ASSUME StreamsOK, NEW targets, targets \subseteq Sub, NEW event \in Event,
         Send(targets, event), phase' \in [Sub -> Phase]
  PROVE  StreamsOK'
<1>1. ASSUME NEW s \in Sub
      PROVE  (IF s \in targets /\ Room(s) THEN Append(chan[s], event) ELSE chan[s])
               \in Seq(Event)
  <2>1. chan[s] \in Seq(Event)
    BY DEF StreamsOK
  <2>2. Append(chan[s], event) \in Seq(Event)
    BY <2>1
  <2> QED
    BY <2>1, <2>2
<1>2. chan' \in [Sub -> Seq(Event)]
  BY <1>1 DEF Send
<1>3. missed' \subseteq Sub
  BY DEF Send, StreamsOK
<1>4. seen' \in [Sub -> Event \cup {Unguarded}]
  BY DEF Send, StreamsOK
<1> QED
  BY <1>2, <1>3, <1>4 DEF StreamsOK

LEMMA OpenSubsType == EntryOK => OpenSubs \subseteq Sub
BY DEF OpenSubs, EntryOK

\* Comparing a state with last_state keeps the entry and the streams typed.
LEMMA ApplyType ==
  ASSUME EntryOK, StreamsOK, NEW x \in State, ApplySnapshot(x)
  PROVE  EntryOK' /\ StreamsOK'
<1>1. CASE tracked /\ Differs(x)
  <2>1. Send(OpenSubs, x) /\ phase' = phase
    BY <1>1 DEF ApplySnapshot
  <2>2. x \in Event /\ OpenSubs \subseteq Sub
    BY OpenSubsType DEF Event
  <2>3. phase' \in [Sub -> Phase]
    BY <2>1 DEF StreamsOK
  <2>4. StreamsOK'
    BY <2>1, <2>2, <2>3, SendType
  <2>5. EntryOK'
    BY <1>1, <2>2 DEF ApplySnapshot, EntryOK
  <2> QED
    BY <2>4, <2>5
<1>2. CASE ~(tracked /\ Differs(x))
  BY <1>2, EntryKept, StreamsKept DEF ApplySnapshot
<1> QED
  BY <1>1, <1>2

LEMMA DrainType == EntryOK /\ StreamsOK /\ DrainSubscribers => EntryOK' /\ StreamsOK'
<1> SUFFICES ASSUME EntryOK, StreamsOK, DrainSubscribers PROVE EntryOK' /\ StreamsOK'
  OBVIOUS
<1>1. Send(OpenSubs, Error) /\ Error \in Event /\ OpenSubs \subseteq Sub
  BY OpenSubsType DEF DrainSubscribers, Event
<1>2. phase' \in [Sub -> Phase]
  BY DEF DrainSubscribers, StreamsOK, Phase
<1>3. StreamsOK'
  BY <1>1, <1>2, SendType
<1>4. EntryOK'
  BY DEF DrainSubscribers, EntryOK
<1> QED
  BY <1>3, <1>4

\* Joining keeps the entry and the streams typed.
LEMMA JoinType ==
  ASSUME EntryOK, StreamsOK, NEW s \in Sub, NEW x \in State, Join(s, x),
         UNCHANGED <<tracked, native>>, phase' \in [Sub -> Phase]
  PROVE  EntryOK' /\ StreamsOK'
<1>1. PICK targets \in SUBSET Sub : Send(targets, x)
  <2>1. OpenSubs \subseteq Sub
    BY OpenSubsType
  <2>2. (IF Differs(x) THEN OpenSubs ELSE {}) \cup {s} \in SUBSET Sub
    BY <2>1
  <2> QED
    BY <2>2 DEF Join
<1>2. StreamsOK'
  <2>1. x \in Event /\ targets \subseteq Sub
    BY DEF Event
  <2> QED
    BY <1>1, <2>1, SendType
<1>3. EntryOK'
  BY OpenSubsType DEF Join, EntryOK
<1> QED
  BY <1>2, <1>3

-----------------------------------------------------------------------------
LEMMA UnlockedHolding == Unlocked \in Holding
BY DEF Unlocked, Holding, State

LEMMA LockType ==
  ASSUME FilesOK, NEW who \in Sub \cup {"os", "poll"}, LockAndRead(who)
  PROVE  mutex' \in Holding
BY DEF LockAndRead, FilesOK, Holding

LEMMA ReadType == TypeOK => mutex.read \in State
BY DEF TypeOK, Holding

LEMMA HandlerType ==
  ASSUME TypeOK, NEW t \in Task, Handler(t)
  PROVE  TypeOK'
<1>1. CASE BeginWrite(t)
  <2>1. PICK from \in Guard, to \in State :
          task' = [task EXCEPT ![t] = Stage("committing", from, to)]
    BY <1>1 DEF BeginWrite
  <2>2. Stage("committing", from, to) \in Handling
    BY DEF Handling
  <2>3. task' \in [Task -> Handling]
    BY <2>1, <2>2 DEF TypeOK, FilesOK
  <2>4. writes' \in 0..MaxWrites
    BY <1>1, WatcherAssumption DEF BeginWrite, TypeOK, FilesOK
  <2>5. FilesOK'
    BY <1>1, <2>3, <2>4 DEF BeginWrite, TypeOK, FilesOK
  <2>6. EntryOK' /\ StreamsOK'
    BY <1>1, EntryKept, StreamsKept DEF BeginWrite, TypeOK
  <2> QED
    BY <1>1, <2>5, <2>6 DEF BeginWrite, TypeOK
<1>2. CASE Commit(t)
  <2>1. /\ task[t].to \in State /\ task[t].from \in Guard
        /\ task[t] = Stage("committing", task[t].from, task[t].to)
    BY <1>2, BusyTask DEF Commit, TypeOK
  <2>2. [task[t] EXCEPT !.stage = "notifying"]
          = Stage("notifying", task[t].from, task[t].to)
    BY <2>1 DEF Stage
  <2>3. [task[t] EXCEPT !.stage = "notifying"] \in Handling
    BY <2>1, <2>2 DEF Handling
  <2>4. task' \in [Task -> Handling]
    BY <1>2, <2>3 DEF Commit, TypeOK, FilesOK
  <2>5. disk' \in State /\ osEvents' \in BOOLEAN
    BY <1>2, <2>1 DEF Commit, Changed, TypeOK, EntryOK
  <2>6. FilesOK'
    BY <1>2, <2>4, <2>5 DEF Commit, TypeOK, FilesOK
  <2>7. EntryOK' /\ StreamsOK'
    BY <1>2, EntryKept, StreamsKept DEF Commit, TypeOK
  <2> QED
    BY <1>2, <2>5, <2>6, <2>7 DEF Commit, TypeOK
<1>3. CASE CommitFails(t)
  <2>1. task' \in [Task -> Handling]
    BY <1>3 DEF CommitFails, TypeOK, FilesOK, Handling
  <2>2. FilesOK'
    BY <1>3, <2>1 DEF CommitFails, TypeOK, FilesOK
  <2>3. EntryOK' /\ StreamsOK'
    BY <1>3, EntryKept, StreamsKept DEF CommitFails, TypeOK
  <2> QED
    BY <1>3, <2>2, <2>3 DEF CommitFails, TypeOK
<1>4. CASE Notify(t)
  <2>1. task[t].to \in State
    BY <1>4, BusyTask DEF Notify, TypeOK
  <2>2. EntryOK' /\ StreamsOK'
    BY <1>4, <2>1, ApplyType DEF Notify, TypeOK
  <2>3. task' \in [Task -> Handling]
    BY <1>4 DEF Notify, TypeOK, FilesOK, Handling
  <2>4. FilesOK'
    BY <1>4, <2>3 DEF Notify, TypeOK, FilesOK
  <2> QED
    BY <1>4, <2>2, <2>4 DEF Notify, TypeOK
<1>5. CASE CancelHandler(t)
  <2>1. task[t].stage \in {"committing", "notifying"}
    BY <1>5, WatcherAssumption DEF CancelHandler
  <2>2. [from |-> task[t].from, to |-> task[t].to] \in [from : Guard, to : State]
    BY <2>1, BusyTask DEF TypeOK
  <2>3. orphans' \subseteq [from : Guard, to : State]
    BY <1>5, <2>2 DEF CancelHandler, TypeOK, FilesOK
  <2>4. task' \in [Task -> Handling]
    BY <1>5 DEF CancelHandler, TypeOK, FilesOK, Handling
  <2>5. FilesOK'
    BY <1>5, <2>3, <2>4 DEF CancelHandler, TypeOK, FilesOK
  <2>6. EntryOK' /\ StreamsOK'
    BY <1>5, EntryKept, StreamsKept DEF CancelHandler, TypeOK
  <2> QED
    BY <1>5, <2>5, <2>6 DEF CancelHandler, TypeOK
<1> QED
  BY <1>1, <1>2, <1>3, <1>4, <1>5 DEF Handler

LEMMA StreamType ==
  ASSUME TypeOK, NEW s \in Sub, Stream(s)
  PROVE  TypeOK'
<1>1. CASE Subscribe(s)
  <2>1. mutex' \in Holding
    BY <1>1, LockType DEF Subscribe, TypeOK
  <2>2. native' \in BOOLEAN
    BY <1>1, WatcherAssumption DEF Subscribe, Registered
  <2>3. EntryOK'
    BY <1>1, <2>2 DEF Subscribe, TypeOK, EntryOK
  <2>4. FilesOK' /\ StreamsOK'
    BY <1>1, FilesKept, StreamsKept DEF Subscribe, TypeOK
  <2> QED
    BY <1>1, <2>1, <2>3, <2>4 DEF Subscribe, TypeOK
<1>2. CASE Subscribed(s)
  <2>1. mutex' \in Holding
    BY <1>2, UnlockedHolding DEF Subscribed
  <2>2. phase' \in [Sub -> Phase]
    BY <1>2 DEF Subscribed, TypeOK, StreamsOK, Phase
  <2>3. UNCHANGED <<tracked, native>>
    BY <1>2 DEF Subscribed
  <2>4. EntryOK' /\ StreamsOK'
    <3>1. CASE Join(s, mutex.read)
      BY <2>2, <2>3, <3>1, JoinType, ReadType DEF TypeOK
    <3>2. CASE UNCHANGED <<last, subs, chan, seen, missed>>
      BY <2>2, <2>3, <3>2 DEF TypeOK, EntryOK, StreamsOK
    <3> QED
      BY <1>2, <3>1, <3>2 DEF Subscribed
  <2>5. FilesOK'
    BY <1>2, FilesKept DEF Subscribed, TypeOK
  <2> QED
    BY <1>2, <2>1, <2>4, <2>5 DEF Subscribed, TypeOK
<1>3. CASE CancelSubscribe(s)
  <2>1. mutex' \in Holding
    BY <1>3, UnlockedHolding DEF CancelSubscribe
  <2>2. phase' \in [Sub -> Phase]
    BY <1>3 DEF CancelSubscribe, TypeOK, StreamsOK, Phase
  <2>3. StreamsOK'
    BY <1>3, <2>2 DEF CancelSubscribe, TypeOK, StreamsOK
  <2>4. FilesOK' /\ EntryOK'
    BY <1>3, FilesKept, EntryKept DEF CancelSubscribe, TypeOK
  <2> QED
    BY <1>3, <2>1, <2>3, <2>4 DEF CancelSubscribe, TypeOK
<1>4. CASE Receive(s)
  <2>1. chan[s] \in Seq(Event) /\ chan[s] # <<>>
    BY <1>4 DEF Receive, TypeOK, StreamsOK
  <2>2. Head(chan[s]) \in Event /\ Tail(chan[s]) \in Seq(Event)
    BY <2>1
  <2>3. chan' \in [Sub -> Seq(Event)] /\ seen' \in [Sub -> Event \cup {Unguarded}]
    BY <1>4, <2>2 DEF Receive, TypeOK, StreamsOK
  <2>4. StreamsOK'
    BY <1>4, <2>3 DEF Receive, TypeOK, StreamsOK
  <2>5. FilesOK' /\ EntryOK'
    BY <1>4, FilesKept, EntryKept DEF Receive, TypeOK
  <2> QED
    BY <1>4, <2>4, <2>5 DEF Receive, TypeOK
<1>5. CASE CloseStream(s)
  <2>1. chan' \in [Sub -> Seq(Event)]
    <3>1. <<>> \in Seq(Event)
      OBVIOUS
    <3> QED
      BY <1>5, <3>1 DEF CloseStream, TypeOK, StreamsOK
  <2>2. phase' \in [Sub -> Phase]
    BY <1>5 DEF CloseStream, TypeOK, StreamsOK, Phase
  <2>3. StreamsOK'
    BY <1>5, <2>1, <2>2 DEF CloseStream, TypeOK, StreamsOK
  <2>4. FilesOK' /\ EntryOK'
    BY <1>5, FilesKept, EntryKept DEF CloseStream, TypeOK
  <2> QED
    BY <1>5, <2>3, <2>4 DEF CloseStream, TypeOK
<1> QED
  BY <1>1, <1>2, <1>3, <1>4, <1>5 DEF Stream

LEMMA TypeStep == TypeOK /\ [Next]_vars => TypeOK'
<1> SUFFICES ASSUME TypeOK, [Next]_vars PROVE TypeOK'
  OBVIOUS
<1>1. ASSUME ExternalEdit PROVE TypeOK'
  <2>1. edits' \in 0..MaxEdits
    BY <1>1, WatcherAssumption DEF ExternalEdit, TypeOK, FilesOK
  <2>2. disk' \in State /\ osEvents' \in BOOLEAN
    BY <1>1 DEF ExternalEdit, Disturbs, Changed, TypeOK, EntryOK
  <2>3. FilesOK'
    BY <1>1, <2>1, <2>2 DEF ExternalEdit, Disturbs, WriteLockFree, TypeOK, FilesOK
  <2>4. EntryOK' /\ StreamsOK'
    BY <1>1, EntryKept, StreamsKept DEF ExternalEdit, TypeOK
  <2> QED
    BY <1>1, <2>2, <2>3, <2>4 DEF ExternalEdit, TypeOK
<1>2. ASSUME OrphanCommits PROVE TypeOK'
  <2>1. PICK o \in orphans :
          /\ orphans' = orphans \ {o} /\ Disturbs(o.to)
          /\ UNCHANGED <<task, edits, writes, entry, mutex, gcDue, streams>>
    BY <1>2 DEF OrphanCommits
  <2>2. o.to \in State
    BY DEF TypeOK, FilesOK
  <2>3. disk' \in State /\ osEvents' \in BOOLEAN
    BY <2>1, <2>2 DEF Disturbs, Changed, TypeOK, EntryOK
  <2>4. FilesOK'
    BY <2>1, <2>3 DEF Disturbs, WriteLockFree, TypeOK, FilesOK
  <2>5. EntryOK' /\ StreamsOK'
    BY <2>1, EntryKept, StreamsKept DEF TypeOK
  <2> QED
    BY <2>1, <2>3, <2>4, <2>5 DEF TypeOK
<1>3. ASSUME OsEvent PROVE TypeOK'
  <2>1. mutex' \in Holding
    BY <1>3, LockType DEF OsEvent, ReadForEvent, TypeOK
  <2>2. osEvents' \in BOOLEAN
    BY <1>3 DEF OsEvent, ReadForEvent
  <2>3. FilesOK' /\ EntryOK' /\ StreamsOK'
    BY <1>3, FilesKept, EntryKept, StreamsKept DEF OsEvent, TypeOK
  <2> QED
    BY <1>3, <2>1, <2>2, <2>3 DEF OsEvent, TypeOK
<1>4. ASSUME PollRead PROVE TypeOK'
  <2>1. mutex' \in Holding
    BY <1>4, LockType DEF PollRead, TypeOK
  <2>2. FilesOK' /\ EntryOK' /\ StreamsOK'
    BY <1>4, FilesKept, EntryKept, StreamsKept DEF PollRead, TypeOK
  <2> QED
    BY <1>4, <2>1, <2>2 DEF PollRead, TypeOK
<1>5. ASSUME Reconcile PROVE TypeOK'
  <2>1. mutex' \in Holding /\ gcDue' \in BOOLEAN
    BY <1>5, UnlockedHolding DEF Reconcile, TypeOK
  <2>2. EntryOK' /\ StreamsOK'
    BY <1>5, ReadType, ApplyType, DrainType DEF Reconcile, TypeOK
  <2>3. FilesOK'
    BY <1>5, FilesKept DEF Reconcile, TypeOK
  <2> QED
    BY <1>5, <2>1, <2>2, <2>3 DEF Reconcile, TypeOK
<1>6. ASSUME PollCleanUp PROVE TypeOK'
  <2>1. subs' \subseteq Sub
    BY <1>6, OpenSubsType DEF PollCleanUp, Retained, TypeOK
  <2>2. native' \in BOOLEAN /\ tracked' \in BOOLEAN
    BY <1>6, WatcherAssumption DEF PollCleanUp, Registered
  <2>3. last' \in State
    BY <1>6 DEF PollCleanUp, TypeOK, EntryOK, State
  <2>4. EntryOK'
    BY <2>1, <2>2, <2>3 DEF EntryOK
  <2>5. FilesOK' /\ StreamsOK'
    BY <1>6, FilesKept, StreamsKept DEF PollCleanUp, TypeOK
  <2> QED
    BY <1>6, <2>4, <2>5 DEF PollCleanUp, TypeOK
<1>7. ASSUME UNCHANGED vars PROVE TypeOK'
  BY <1>7, FilesKept, EntryKept, StreamsKept DEF vars, TypeOK
<1> QED
  BY <1>1, <1>2, <1>3, <1>4, <1>5, <1>6, <1>7, HandlerType, StreamType DEF Next, Mechanism

\* Every reachable state is typed: channels hold states or an error, a handler
\* past its comparison knows what it writes, and the mutex's holder has read a
\* state of the file.
THEOREM TypeCorrect == Spec => []TypeOK
<1>1. Init => TypeOK
  <2> SUFFICES ASSUME Init PROVE TypeOK
    OBVIOUS
  <2>1. FilesOK
    <3>1. task \in [Task -> Handling]
      BY DEF Init, Handling
    <3>2. edits \in 0..MaxEdits /\ writes \in 0..MaxWrites
      BY WatcherAssumption DEF Init
    <3> QED
      BY <3>1, <3>2 DEF Init, FilesOK, State
  <2>2. EntryOK
    BY DEF Init, EntryOK, State
  <2>3. StreamsOK
    BY DEF Init, StreamsOK, Phase
  <2> QED
    BY <2>1, <2>2, <2>3, UnlockedHolding DEF Init, TypeOK
<1> QED
  BY <1>1, TypeStep, PTL DEF Spec

-----------------------------------------------------------------------------
(* Streams stay subscribed and in step                                     *)

\* A stream that is subscribing holds the mutex, so no clean-up removes the
\* entry under it.
Subscribing == mutex.who \in Sub => tracked /\ phase[mutex.who] = "new"

StreamInv == OpenIsSubscribed /\ Subscribing /\ SubscribersInStep

\* Taking the head of a sequence leaves its last element the last.
LEMMA TailKeepsLast ==
  ASSUME NEW S, NEW q \in Seq(S), q # <<>>
  PROVE  (IF Tail(q) = <<>> THEN Head(q) ELSE Tail(q)[Len(Tail(q))]) = q[Len(q)]
<1>1. /\ Tail(q) \in Seq(S) /\ Len(Tail(q)) = Len(q) - 1
      /\ \A i \in 1..Len(Tail(q)) : Tail(q)[i] = q[i + 1]
  BY HeadTailProperties
<1>2. Head(q) = q[1] /\ Len(q) \in Nat /\ Len(q) # 0
  OBVIOUS
<1>3. CASE Tail(q) = <<>>
  <2>1. Len(Tail(q)) = 0
    BY <1>3, EmptySeq
  <2>2. Len(Tail(q)) = Len(q) - 1
    BY <1>1
  <2> DEFINE n == Len(q)
  <2>3. 0 = n - 1 /\ n \in Nat
    BY <1>2, <2>1, <2>2
  <2> HIDE DEF n
  <2>4. n = 1
    BY <2>3
  <2>5. Len(q) = 1
    BY <2>4 DEF n
  <2> QED
    BY <1>2, <1>3, <2>5
<1>4. CASE Tail(q) # <<>>
  <2>1. Len(Tail(q)) # 0
    BY <1>1, <1>4, EmptySeq
  <2>2. Len(Tail(q)) \in 1..Len(Tail(q))
    BY <1>1, <1>2, <2>1
  <2>3. Tail(q)[Len(Tail(q))] = q[Len(Tail(q)) + 1]
    BY <1>1, <2>2
  <2>4. Len(Tail(q)) + 1 = Len(q)
    BY <1>1, <1>2
  <2> QED
    BY <1>4, <2>3, <2>4
<1> QED
  BY <1>3, <1>4

\* What a send leaves in the channel of a target ends in the event, or the
\* event was dropped; other channels are left alone.
LEMMA SendLast ==
  ASSUME StreamsOK, NEW targets, targets \subseteq Sub, NEW event \in Event,
         Send(targets, event), NEW s \in Sub
  PROVE  /\ s \in targets => s \in missed' \/ LastSent(s)' = event
         /\ s \notin targets => LastSent(s)' = LastSent(s)
         /\ s \in missed => s \in missed'
<1>1. chan[s] \in Seq(Event)
  BY DEF StreamsOK
<1>2. CASE s \in targets /\ Room(s)
  <2>1. chan'[s] = Append(chan[s], event)
    BY <1>2 DEF Send
  <2>2. /\ Append(chan[s], event) # <<>>
        /\ Append(chan[s], event)[Len(Append(chan[s], event))] = event
    BY <1>1
  <2>3. LastSent(s)' = event
    BY <2>1, <2>2 DEF LastSent
  <2> QED
    BY <1>2, <2>3 DEF Send
<1>3. CASE s \in targets /\ ~Room(s)
  BY <1>3 DEF Send
<1>4. CASE s \notin targets
  <2>1. chan'[s] = chan[s] /\ seen' = seen
    BY <1>4 DEF Send
  <2> QED
    BY <1>4, <2>1 DEF Send, LastSent
<1> QED
  BY <1>2, <1>3, <1>4

\* A change goes to every open subscriber.
LEMMA ApplyKeeps ==
  ASSUME TypeOK, OpenIsSubscribed, SubscribersInStep, NEW x \in State, ApplySnapshot(x)
  PROVE  OpenIsSubscribed' /\ SubscribersInStep' /\ UNCHANGED <<phase, tracked>>
<1>1. CASE tracked /\ Differs(x)
  <2>1. /\ last' = x /\ subs' = OpenSubs /\ Send(OpenSubs, x)
        /\ phase' = phase /\ tracked' = tracked
    BY <1>1 DEF ApplySnapshot
  <2>2. OpenIsSubscribed'
    BY <1>1, <2>1 DEF OpenIsSubscribed, OpenSubs
  <2>3. x \in Event /\ OpenSubs \subseteq Sub
    BY OpenSubsType DEF Event, TypeOK
  <2>4. SubscribersInStep'
    <3> SUFFICES ASSUME NEW s \in OpenSubs, s \notin missed'
                 PROVE  LastSent(s)' = last'
      BY <2>1 DEF SubscribersInStep
    <3> QED
      BY <2>1, <2>3, SendLast DEF TypeOK
  <2> QED
    BY <2>1, <2>2, <2>4
<1>2. CASE UNCHANGED <<entry, streams>>
  BY <1>2 DEF entry, streams, OpenIsSubscribed, SubscribersInStep, LastSent
<1> QED
  BY <1>1, <1>2 DEF ApplySnapshot

\* A file that cannot be read leaves no subscriber and no open stream.
LEMMA DrainKeeps ==
  OpenIsSubscribed /\ DrainSubscribers => OpenIsSubscribed' /\ SubscribersInStep'
<1> SUFFICES ASSUME OpenIsSubscribed, DrainSubscribers
             PROVE  OpenIsSubscribed' /\ SubscribersInStep'
  OBVIOUS
<1>1. SubscribersInStep'
  BY DEF DrainSubscribers, SubscribersInStep
<1>2. ASSUME NEW s \in Sub, phase'[s] = "open" PROVE FALSE
  <2>1. s \notin OpenSubs
    BY <1>2 DEF DrainSubscribers
  <2>2. phase[s] = "open"
    BY <1>2, <2>1 DEF DrainSubscribers
  <2> QED
    BY <2>1, <2>2 DEF OpenIsSubscribed, OpenSubs
<1> QED
  BY <1>1, <1>2 DEF OpenIsSubscribed

\* A stream that joins is sent what it read, and so are the others when it is
\* news to them.
LEMMA JoinKeeps ==
  ASSUME TypeOK, StreamInv, NEW s \in Sub, mutex.who = s, Subscribed(s)
  PROVE  OpenIsSubscribed' /\ SubscribersInStep'
<1>1. tracked /\ tracked'
  BY DEF Subscribed, StreamInv, Subscribing
<1>2. CASE Readable(mutex.read, native)
  <2> DEFINE x == mutex.read
             news == IF Differs(x) THEN OpenSubs ELSE {}
  <2>1. /\ last' = x
        /\ subs' = (IF Differs(x) THEN OpenSubs ELSE subs) \cup {s}
        /\ Send(news \cup {s}, x)
        /\ phase' = [phase EXCEPT ![s] = "open"]
    BY <1>2 DEF Subscribed, Join
  <2>2. x \in State /\ x \in Event
    BY ReadType DEF Event
  <2>3. OpenSubs \subseteq Sub
    BY OpenSubsType DEF TypeOK
  <2>4. news \cup {s} \subseteq Sub
    BY <2>3
  <2> HIDE DEF x
  <2>5. OpenIsSubscribed'
    BY <1>1, <2>1 DEF OpenIsSubscribed, OpenSubs, StreamInv, TypeOK, StreamsOK
  <2>6. SubscribersInStep'
    <3> SUFFICES ASSUME NEW r \in subs', phase'[r] = "open", r \notin missed'
                 PROVE  LastSent(r)' = last'
      BY DEF SubscribersInStep
    <3>1. r \in Sub
      BY <2>1, <2>3 DEF TypeOK, EntryOK
    <3>2. CASE r \in news \cup {s}
      <4>1. r \in missed' \/ LastSent(r)' = x
        <5> HIDE DEF news
        <5> QED
          BY <2>1, <2>2, <2>4, <3>1, <3>2, SendLast DEF TypeOK
      <4> QED
        BY <2>1, <4>1
    <3>3. CASE r \notin news \cup {s}
      <4>1. LastSent(r)' = LastSent(r) /\ r \notin missed
        <5> HIDE DEF news
        <5> QED
          BY <2>1, <2>2, <2>4, <3>1, <3>3, SendLast DEF TypeOK
      <4>2. phase[r] = "open" /\ r \in subs
        BY <2>1, <3>1, <3>3 DEF TypeOK, StreamsOK, OpenSubs
      <4>3. ~Differs(x)
        BY <2>1, <3>3, <4>2
      <4>4. LastSent(r) = last
        BY <4>1, <4>2 DEF StreamInv, SubscribersInStep
      <4> QED
        BY <2>1, <4>1, <4>3, <4>4 DEF Differs
    <3> QED
      BY <3>2, <3>3
  <2> QED
    BY <2>5, <2>6
<1>3. CASE ~Readable(mutex.read, native)
  <2>1. phase' = [phase EXCEPT ![s] = "ended"] /\ UNCHANGED <<last, subs, chan, seen, missed>>
    BY <1>3 DEF Subscribed
  <2>2. \A r \in Sub : phase'[r] = "open" => phase[r] = "open"
    BY <2>1 DEF TypeOK, StreamsOK
  <2>3. OpenIsSubscribed'
    BY <1>1, <2>1, <2>2 DEF OpenIsSubscribed, StreamInv
  <2>4. SubscribersInStep'
    <3> SUFFICES ASSUME NEW r \in subs', phase'[r] = "open", r \notin missed'
                 PROVE  LastSent(r)' = last'
      BY DEF SubscribersInStep
    <3> QED
      BY <2>1, <2>2 DEF SubscribersInStep, LastSent, StreamInv, TypeOK, EntryOK
  <2> QED
    BY <2>3, <2>4
<1> QED
  BY <1>2, <1>3

LEMMA StreamsApart ==
  ASSUME StreamInv, UNCHANGED <<entry, streams, mutex>>
  PROVE  StreamInv'
BY DEF StreamInv, OpenIsSubscribed, Subscribing, SubscribersInStep, LastSent, entry, streams

LEMMA StreamInvStream ==
  ASSUME TypeOK, StreamInv, NEW s \in Sub, Stream(s)
  PROVE  StreamInv'
<1>0. Free \notin Sub
  BY WatcherAssumption
<1>1. CASE Subscribe(s)
  <2>1. /\ mutex' = [who |-> s, read |-> disk] /\ phase[s] = "new" /\ tracked'
        /\ UNCHANGED <<last, subs, streams>>
    BY <1>1 DEF Subscribe, LockAndRead
  <2>2. Subscribing'
    BY <2>1 DEF Subscribing, streams
  <2>3. OpenIsSubscribed' /\ SubscribersInStep'
    BY <2>1 DEF StreamInv, OpenIsSubscribed, SubscribersInStep, LastSent, streams
  <2> QED
    BY <2>2, <2>3 DEF StreamInv
<1>2. CASE Subscribed(s)
  <2>1. mutex.who = s /\ mutex' = Unlocked
    BY <1>2 DEF Subscribed
  <2>2. Subscribing'
    BY <1>0, <2>1 DEF Subscribing, Unlocked
  <2> QED
    BY <1>2, <2>1, <2>2, JoinKeeps DEF StreamInv
<1>3. CASE CancelSubscribe(s)
  <2>1. /\ mutex' = Unlocked /\ phase' = [phase EXCEPT ![s] = "closed"]
        /\ UNCHANGED <<entry, chan, seen, missed>>
    BY <1>3 DEF CancelSubscribe
  <2>2. Subscribing'
    BY <1>0, <2>1 DEF Subscribing, Unlocked
  <2>3. \A r \in Sub : phase'[r] = "open" => phase[r] = "open"
    BY <2>1 DEF TypeOK, StreamsOK
  <2>4. OpenIsSubscribed' /\ SubscribersInStep'
    BY <2>1, <2>3 DEF StreamInv, OpenIsSubscribed, SubscribersInStep, LastSent, entry,
                      TypeOK, EntryOK
  <2> QED
    BY <2>2, <2>4 DEF StreamInv
<1>4. CASE Receive(s)
  <2>1. /\ chan[s] # <<>>
        /\ chan' = [chan EXCEPT ![s] = Tail(@)]
        /\ seen' = [seen EXCEPT ![s] = Head(chan[s])]
        /\ UNCHANGED <<entry, mutex, phase, missed>>
    BY <1>4 DEF Receive
  <2>2. ASSUME NEW r \in Sub PROVE LastSent(r)' = LastSent(r)
    <3>1. CASE r = s
      <4>1. chan[s] \in Seq(Event)
        BY DEF TypeOK, StreamsOK
      <4>2. chan'[s] = Tail(chan[s]) /\ seen'[s] = Head(chan[s])
        BY <2>1 DEF TypeOK, StreamsOK
      <4>3. LastSent(s) = chan[s][Len(chan[s])]
        BY <2>1 DEF LastSent
      <4>4. LastSent(s)' = IF Tail(chan[s]) = <<>> THEN Head(chan[s])
                           ELSE Tail(chan[s])[Len(Tail(chan[s]))]
        BY <4>2 DEF LastSent
      <4> QED
        BY <2>1, <3>1, <4>1, <4>3, <4>4, TailKeepsLast
    <3>2. CASE r # s
      <4>1. chan'[r] = chan[r] /\ seen'[r] = seen[r]
        BY <2>1, <3>2 DEF TypeOK, StreamsOK
      <4> QED
        BY <4>1 DEF LastSent
    <3> QED
      BY <3>1, <3>2
  <2>3. SubscribersInStep'
    <3>1. subs \subseteq Sub
      BY DEF TypeOK, EntryOK
    <3> QED
      BY <2>1, <2>2, <3>1 DEF StreamInv, SubscribersInStep, entry
  <2>4. OpenIsSubscribed' /\ Subscribing'
    BY <2>1 DEF StreamInv, OpenIsSubscribed, Subscribing, entry
  <2> QED
    BY <2>3, <2>4 DEF StreamInv
<1>5. CASE CloseStream(s)
  <2>1. /\ phase[s] = "open" /\ phase' = [phase EXCEPT ![s] = "closed"]
        /\ chan' = [chan EXCEPT ![s] = <<>>]
        /\ UNCHANGED <<entry, mutex, seen, missed>>
    BY <1>5 DEF CloseStream
  <2>2. \A r \in Sub : r # s => phase'[r] = phase[r] /\ chan'[r] = chan[r]
    BY <2>1 DEF TypeOK, StreamsOK
  <2>3. phase'[s] = "closed"
    BY <2>1 DEF TypeOK, StreamsOK
  <2>4. Subscribing'
    BY <2>1, <2>2 DEF StreamInv, Subscribing, entry
  <2>5. OpenIsSubscribed'
    BY <2>1, <2>2, <2>3 DEF StreamInv, OpenIsSubscribed, entry
  <2>6. SubscribersInStep'
    <3>1. subs \subseteq Sub
      BY DEF TypeOK, EntryOK
    <3> QED
      BY <2>1, <2>2, <2>3, <3>1 DEF StreamInv, SubscribersInStep, LastSent, entry
  <2> QED
    BY <2>4, <2>5, <2>6 DEF StreamInv
<1> QED
  BY <1>1, <1>2, <1>3, <1>4, <1>5 DEF Stream

LEMMA StreamInvStep == TypeOK /\ StreamInv /\ [Next]_vars => StreamInv'
<1> SUFFICES ASSUME TypeOK, StreamInv, [Next]_vars PROVE StreamInv'
  OBVIOUS
<1>0. Free \notin Sub /\ "os" \notin Sub /\ "poll" \notin Sub
  BY WatcherAssumption
<1>1. ASSUME ExternalEdit \/ OrphanCommits PROVE StreamInv'
  BY <1>1, StreamsApart DEF ExternalEdit, OrphanCommits
<1>2. ASSUME OsEvent \/ PollRead PROVE StreamInv'
  <2>1. mutex' = mutex \/ mutex'.who \in {"os", "poll"}
    BY <1>2 DEF OsEvent, PollRead, ReadForEvent, LockAndRead
  <2>2. UNCHANGED <<entry, streams>>
    BY <1>2 DEF OsEvent, PollRead
  <2>3. Subscribing'
    BY <1>0, <2>1, <2>2 DEF Subscribing, StreamInv, entry, streams
  <2>4. OpenIsSubscribed' /\ SubscribersInStep'
    BY <2>2 DEF StreamInv, OpenIsSubscribed, SubscribersInStep, LastSent, entry, streams
  <2> QED
    BY <2>3, <2>4 DEF StreamInv
<1>3. ASSUME Reconcile PROVE StreamInv'
  <2>1. Subscribing'
    BY <1>0, <1>3 DEF Reconcile, Subscribing, Unlocked
  <2>2. OpenIsSubscribed' /\ SubscribersInStep'
    BY <1>3, ReadType, ApplyKeeps, DrainKeeps DEF Reconcile, StreamInv
  <2> QED
    BY <2>1, <2>2 DEF StreamInv
<1>4. ASSUME PollCleanUp PROVE StreamInv'
  <2>1. /\ mutex' = Unlocked /\ subs' = OpenSubs /\ tracked' = (OpenSubs # {})
        /\ last' = (IF OpenSubs # {} THEN last ELSE Absent)
        /\ UNCHANGED streams
    BY <1>4 DEF PollCleanUp, Retained
  <2>2. Subscribing'
    BY <1>0, <2>1 DEF Subscribing, Unlocked
  <2>3. OpenIsSubscribed'
    BY <2>1 DEF StreamInv, OpenIsSubscribed, OpenSubs, streams
  <2>4. SubscribersInStep'
    BY <2>1 DEF StreamInv, SubscribersInStep, OpenSubs, LastSent, streams
  <2> QED
    BY <2>2, <2>3, <2>4 DEF StreamInv
<1>5. ASSUME NEW t \in Task, Handler(t) PROVE StreamInv'
  <2>1. CASE Notify(t)
    <3>1. ApplySnapshot(task[t].to) /\ mutex' = mutex
      BY <2>1 DEF Notify
    <3>2. task[t].to \in State
      BY <2>1, BusyTask DEF Notify, TypeOK
    <3>3. OpenIsSubscribed' /\ SubscribersInStep' /\ UNCHANGED <<phase, tracked>>
      BY <3>1, <3>2, ApplyKeeps DEF StreamInv
    <3> QED
      BY <3>1, <3>3 DEF StreamInv, Subscribing
  <2>2. CASE BeginWrite(t) \/ Commit(t) \/ CommitFails(t) \/ CancelHandler(t)
    BY <2>2, StreamsApart DEF BeginWrite, Commit, CommitFails, CancelHandler
  <2> QED
    BY <1>5, <2>1, <2>2 DEF Handler
<1>6. ASSUME UNCHANGED vars PROVE StreamInv'
  BY <1>6, StreamsApart DEF vars
<1> QED
  BY <1>1, <1>2, <1>3, <1>4, <1>5, <1>6, StreamInvStream DEF Next, Mechanism

LEMMA StreamInvHolds == Spec => []StreamInv
<1>1. Init => StreamInv
  BY WatcherAssumption DEF Init, StreamInv, OpenIsSubscribed, Subscribing,
     SubscribersInStep, Unlocked
<1> QED
  BY <1>1, StreamInvStep, TypeCorrect, PTL DEF Spec

\* No open stream is forgotten, however subscribing, clean-up and errors
\* interleave, and one whose channel never overflowed has been sent the state
\* changes are compared with.
THEOREM StreamsStayInStep == Spec => []StreamsFollow
<1>1. StreamInv => StreamsFollow
  BY DEF StreamInv, StreamsFollow
<1> QED
  BY <1>1, StreamInvHolds, PTL

-----------------------------------------------------------------------------
(* Guarded writes                                                          *)

\* The write lock admits one handler between its comparison and its rename,
\* and nothing that holds the lock changes the file meanwhile.
GuardHolds ==
  /\ \A t \in Task : task[t].stage = "committing" => Matches(task[t].from) \/ disturbed
  /\ \A t, u \in Task :
       task[t].stage = "committing" /\ task[u].stage = "committing" => t = u

\* A guarded write replaces the content it was compared with, for any handlers
\* (write_file_streaming), dropped ones among them, and any edits of other
\* programs, but where such an edit or the rename of a dropped handler came
\* between the comparison and the rename.
THEOREM GuardedWritesAreAtomic == Spec => CasIsAtomic
<1>1. Init => GuardHolds
  BY DEF Init, GuardHolds, Idle
<1>2. TypeOK /\ GuardHolds /\ [Next]_vars => GuardHolds'
  <2> SUFFICES ASSUME TypeOK, GuardHolds, [Next]_vars PROVE GuardHolds'
    OBVIOUS
  <2>1. ASSUME UNCHANGED <<disk, task, disturbed>> PROVE GuardHolds'
    BY <2>1 DEF GuardHolds, Matches
  <2>2. ASSUME ExternalEdit \/ OrphanCommits PROVE GuardHolds'
    <3>1. task' = task /\ disturbed' = ~WriteLockFree
      BY <2>2 DEF ExternalEdit, OrphanCommits, Disturbs
    <3> QED
      BY <3>1 DEF GuardHolds, WriteLockFree
  <2>4. ASSUME NEW t \in Task, BeginWrite(t) PROVE GuardHolds'
    <3>1. PICK from \in Guard, to \in State :
            Matches(from) /\ task' = [task EXCEPT ![t] = Stage("committing", from, to)]
      BY <2>4 DEF BeginWrite
    <3>2. \A u \in Task : task[u].stage # "committing"
      BY <2>4 DEF BeginWrite, WriteLockFree
    <3>3. task'[t].from = from
      BY <3>1 DEF Stage, TypeOK, FilesOK
    <3>4. \A u \in Task : u # t => task'[u] = task[u]
      BY <3>1 DEF TypeOK, FilesOK
    <3>5. disk' = disk
      BY <2>4 DEF BeginWrite
    <3> QED
      BY <3>1, <3>2, <3>3, <3>4, <3>5 DEF GuardHolds, Matches
  <2>5. ASSUME NEW t \in Task, Commit(t) PROVE GuardHolds'
    <3>1. task[t].stage = "committing" /\ task' = [task EXCEPT ![t].stage = "notifying"]
      BY <2>5 DEF Commit
    <3>2. task'[t].stage = "notifying"
      <4>1. task'[t] = [task[t] EXCEPT !.stage = "notifying"]
        BY <3>1 DEF TypeOK, FilesOK
      <4>2. task[t] = Stage("committing", task[t].from, task[t].to)
        BY <3>1, BusyTask DEF TypeOK
      <4> QED
        BY <4>1, <4>2 DEF Stage
    <3>3. \A u \in Task : u # t => task'[u] = task[u]
      BY <3>1 DEF TypeOK, FilesOK
    <3>4. \A u \in Task : task'[u].stage # "committing"
      BY <3>1, <3>2, <3>3 DEF GuardHolds
    <3> QED
      BY <3>4 DEF GuardHolds
  <2>6. ASSUME NEW t \in Task, CommitFails(t) \/ Notify(t) \/ CancelHandler(t)
        PROVE  GuardHolds'
    <3>1. task' = [task EXCEPT ![t] = Idle] /\ disk' = disk /\ disturbed' = disturbed
      BY <2>6 DEF CommitFails, Notify, CancelHandler
    <3>2. task'[t] = Idle /\ \A u \in Task : u # t => task'[u] = task[u]
      BY <3>1 DEF TypeOK, FilesOK
    <3>3. task'[t].stage # "committing"
      BY <3>2 DEF Idle
    <3> QED
      BY <3>1, <3>2, <3>3 DEF GuardHolds, Matches
  <2>7. ASSUME Mechanism \/ (\E s \in Sub : Stream(s)) \/ UNCHANGED vars
        PROVE  UNCHANGED files
    BY <2>7 DEF Mechanism, Stream, OsEvent, PollRead, Reconcile, PollCleanUp, Subscribe,
       Subscribed, CancelSubscribe, Receive, CloseStream, vars
  <2> QED
    BY <2>1, <2>2, <2>4, <2>5, <2>6, <2>7 DEF Next, Handler, files
<1>3. TypeOK /\ GuardHolds /\ [Next]_vars =>
        [\A t \in Task : task[t].stage = "committing" /\ task'[t].stage = "notifying" =>
           Matches(task[t].from) \/ disturbed]_vars
  BY DEF GuardHolds
<1> QED
  BY <1>1, <1>2, <1>3, TypeCorrect, PTL DEF Spec, CasIsAtomic
=============================================================================
