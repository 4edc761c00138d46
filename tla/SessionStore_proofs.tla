------------------------ MODULE SessionStore_proofs -------------------------
(***************************************************************************)
(* Proofs about SessionStore: type correctness, the agreement of the       *)
(* snapshots in flight, the registration of connected watchers, and the    *)
(* implementation of the abstract register, for any number of              *)
(* connections, listeners, handler tasks, ref lists and any capacity.      *)
(***************************************************************************)
EXTENDS SessionStore, TLAPS

\* The idle record is not one of a busy task: they have different fields.
LEMMA IdleIsNotBusy == Idle \notin Busy
<1> SUFFICES ASSUME Idle \in Busy PROVE FALSE
  OBVIOUS
<1>1. DOMAIN Idle = {"stage"}
  BY DEF Idle
<1>2. DOMAIN Idle = {"stage", "snap", "sender", "ok"}
  BY DEF Busy
<1> QED
  BY <1>1, <1>2

\* A snapshot of the current session, as every method returns it, is typed.
LEMMA SnapOfType ==
  ASSUME NEW v \in Nat, NEW r \in RefList,
         NEW l \in [holder : Conn \cup {Nobody}, since : Nat, expired : BOOLEAN]
  PROVE  SnapOf(v, r, l) \in Snapshot
BY DEF SnapOf, Snapshot

\* A task that finishes its critical section is a busy task.
LEMMA FinishType ==
  ASSUME TypeOK, version' \in Nat, refs' \in RefList,
         lock' \in [holder : Conn \cup {Nobody}, since : Nat, expired : BOOLEAN],
         NEW t \in Task \cup {Heartbeat}, NEW stage \in {"broadcast", "reply"},
         NEW sender \in Listener \cup {Nobody}, NEW ok \in BOOLEAN,
         Finish(t, stage, sender, ok)
  PROVE  task' \in [Task \cup {Heartbeat} -> Busy \cup {Idle}]
<1>1. SnapOf(version', refs', lock') \in Snapshot
  BY SnapOfType
<1>2. [stage |-> stage, snap |-> SnapOf(version', refs', lock'),
       sender |-> sender, ok |-> ok] \in Busy
  BY <1>1 DEF Busy
<1> QED
  BY <1>2 DEF Finish, TypeOK

-----------------------------------------------------------------------------
\* The steps of a store whose clients may expect any version at all, whether or
\* not the session can reach it.
AnyUpdate ==
  \E t \in Task, c \in Conn, sender \in Listener \cup {Nobody}, r \in RefList :
    \E expected : UpdateSession(t, c, sender, expected, r)
AnyNext == Next \/ AnyUpdate

LEMMA TypeStep == TypeOK /\ [AnyNext]_vars => TypeOK'
<1> SUFFICES ASSUME TypeOK, [AnyNext]_vars PROVE TypeOK'
  OBVIOUS
<1> DEFINE Locks == [holder : Conn \cup {Nobody}, since : Nat, expired : BOOLEAN]
<1>0. LiveLock \in Locks /\ NoLock \in Locks
  BY DEF LiveLock, NoLock, TypeOK
<1>1. ASSUME NEW t \in Task, NEW c \in Conn, LockSession(t, c) PROVE TypeOK'
  <2>0. version' \in Nat /\ refs' \in RefList
    <3>1. refs' = refs
      BY <1>1 DEF LockSession
    <3>2. version' = version \/ version' = version + 1
      BY <1>1 DEF LockSession, Bump
    <3> QED
      BY <3>1, <3>2 DEF TypeOK
  <2>1. version' \in Nat /\ refs' \in RefList /\ lock' \in Locks
    <3>1. \/ lock' = [holder |-> c, since |-> version', expired |-> FALSE]
          \/ lock' = LiveLock
      BY <1>1 DEF LockSession
    <3>2. [holder |-> c, since |-> version', expired |-> FALSE] \in Locks
      BY <2>0
    <3> QED
      BY <1>0, <2>0, <3>1, <3>2
  <2>2. task' \in [Task \cup {Heartbeat} -> Busy \cup {Idle}]
    BY <1>1, <2>1, FinishType DEF LockSession
  <2> QED
    BY <1>1, <2>1, <2>2 DEF LockSession, streams, TypeOK
<1>2. ASSUME NEW t \in Task, NEW c \in Conn, UnlockSession(t, c) PROVE TypeOK'
  <2>1. version' \in Nat /\ refs' \in RefList /\ lock' \in Locks
    BY <1>0, <1>2 DEF UnlockSession, Release, Bump, TypeOK
  <2>2. task' \in [Task \cup {Heartbeat} -> Busy \cup {Idle}]
    BY <1>2, <2>1, FinishType DEF UnlockSession
  <2> QED
    BY <1>2, <2>1, <2>2 DEF UnlockSession, streams, TypeOK
<1>3. ASSUME NEW t \in Task, NEW c \in Conn, NEW sender \in Listener \cup {Nobody},
             NEW expected, NEW r \in RefList, UpdateSession(t, c, sender, expected, r)
      PROVE  TypeOK'
  <2>0. version' \in Nat /\ refs' \in RefList
    <3>1. refs' \in {refs, r}
      BY <1>3 DEF UpdateSession
    <3>2. version' \in {version, version + 1}
      BY <1>3 DEF UpdateSession, Bump
    <3> QED
      BY <1>3, <3>1, <3>2 DEF TypeOK
  <2>1. version' \in Nat /\ refs' \in RefList /\ lock' \in Locks
    <3>1. lock' = LiveLock
      BY <1>3 DEF UpdateSession
    <3> QED
      BY <1>0, <2>0, <3>1
  <2>2. task' \in [Task \cup {Heartbeat} -> Busy \cup {Idle}]
    BY <1>3, <2>1, FinishType DEF UpdateSession
  <2>3. author' \in [conn : Conn \cup {Nobody}, stale : BOOLEAN]
    <3> DEFINE stale == expected \notin {AnyVersion, version}
    <3>1. author' \in {author, [conn |-> c, stale |-> stale]}
      BY <1>3 DEF UpdateSession
    <3>2. [conn |-> c, stale |-> stale] \in [conn : Conn \cup {Nobody}, stale : BOOLEAN]
      OBVIOUS
    <3> QED
      BY <3>1, <3>2 DEF TypeOK
  <2> QED
    BY <1>3, <2>1, <2>2, <2>3 DEF UpdateSession, streams, TypeOK
<1>4. ASSUME NEW t \in Task, ForceUnlockSession(t) PROVE TypeOK'
  <2>1. version' \in Nat /\ refs' \in RefList /\ lock' \in Locks
    BY <1>0, <1>4 DEF ForceUnlockSession, Release, Bump, TypeOK
  <2>2. task' \in [Task \cup {Heartbeat} -> Busy \cup {Idle}]
    BY <1>4, <2>1, FinishType DEF ForceUnlockSession
  <2> QED
    BY <1>4, <2>1, <2>2 DEF ForceUnlockSession, streams, TypeOK
<1>5. ASSUME NEW t \in Task, Reply(t) \/ CancelCall(t) PROVE TypeOK'
  BY <1>5 DEF Reply, CancelCall, session, streams, TypeOK
<1>6. ASSUME NEW t \in Task \cup {Heartbeat}, BroadcastUpdate(t) PROVE TypeOK'
  <2>1. task[t] \in Busy
    BY <1>6 DEF BroadcastUpdate, TypeOK, Idle
  <2>2. task' \in [Task \cup {Heartbeat} -> Busy \cup {Idle}]
    <3>1. [task[t] EXCEPT !.stage = "reply"] \in Busy
      BY <2>1 DEF Busy
    <3> QED
      BY <1>6, <3>1 DEF BroadcastUpdate, TypeOK
  <2>3. task[t].snap \in Snapshot
    BY <2>1 DEF Busy
  <2>4. channel' \in [Watch -> Seq(Snapshot)]
    BY <1>6, <2>3 DEF BroadcastUpdate, TypeOK
  <2> QED
    BY <1>6, <2>2, <2>4 DEF BroadcastUpdate, session, TypeOK
<1>7. ASSUME HeartbeatSnapshot PROVE TypeOK'
  <2>1. version' \in Nat /\ refs' \in RefList /\ lock' \in Locks
    BY <1>7 DEF HeartbeatSnapshot, session, TypeOK
  <2>2. task' \in [Task \cup {Heartbeat} -> Busy \cup {Idle}]
    BY <1>7, <2>1, FinishType DEF HeartbeatSnapshot
  <2> QED
    BY <1>7, <2>1, <2>2 DEF HeartbeatSnapshot, session, streams, TypeOK
<1>8. ASSUME NEW w \in Watch, SessionWatch(w) PROVE TypeOK'
  <2>1. SnapOf(version, refs, lock) \in Snapshot
    BY SnapOfType DEF TypeOK
  <2> QED
    BY <1>8, <2>1 DEF SessionWatch, session, TypeOK
<1>9. ASSUME NEW w \in Watch, Receive(w) PROVE TypeOK'
  BY <1>9 DEF Receive, session, TypeOK
<1>10. ASSUME NEW w \in Watch, DropStream(w) PROVE TypeOK'
  BY <1>10 DEF DropStream, session, TypeOK
<1>11. ASSUME LockExpires PROVE TypeOK'
  BY <1>11 DEF LockExpires, streams, TypeOK
<1>12. ASSUME UNCHANGED vars PROVE TypeOK'
  BY <1>12 DEF vars, TypeOK
<1> QED
  BY <1>1, <1>2, <1>3, <1>4, <1>5, <1>6, <1>7, <1>8, <1>9, <1>10, <1>11, <1>12
  DEF AnyNext, AnyUpdate, Next, Handler, Stream

LEMMA TypeInit == Init => TypeOK
BY ConstAssumption DEF Init, TypeOK, NoLock

\* Type correctness of the session store, for every value of the constants.
THEOREM TypeCorrect == Spec => []TypeOK
<1>1. Init => TypeOK
  BY TypeInit
<1>2. TypeOK /\ [Next]_vars => TypeOK'
  BY TypeStep DEF AnyNext
<1> QED
  BY <1>1, <1>2, PTL DEF Spec

-----------------------------------------------------------------------------
(* Snapshots in flight agree.  SnapshotsAgree is inductive together with   *)
(* TypeOK: a step only adds a snapshot of the state it leaves behind, and  *)
(* it changes the ref list only together with the version.                 *)

LEMMA SnapshotsType == TypeOK => Snapshots \subseteq Snapshot
<1> SUFFICES ASSUME TypeOK, NEW s \in Snapshots PROVE s \in Snapshot
  OBVIOUS
<1>1. CASE \E w \in Watch : s \in Queued(w)
  <2> PICK w \in Watch : s \in Queued(w)
    BY <1>1
  <2>1. channel[w] \in Seq(Snapshot)
    BY DEF TypeOK
  <2> QED
    BY <2>1 DEF Queued
<1>2. CASE \E t \in Task \cup {Heartbeat} : task[t] # Idle /\ s = task[t].snap
  BY <1>2 DEF TypeOK, Busy
<1> QED
  BY <1>1, <1>2 DEF Snapshots

\* The only snapshot a finished critical section adds is the one it took.
LEMMA FinishSnapshots ==
  ASSUME TypeOK, NEW t \in Task \cup {Heartbeat}, NEW stage, NEW sender, NEW ok,
         Finish(t, stage, sender, ok), channel' = channel
  PROVE  Snapshots' \subseteq Snapshots \cup {SnapOf(version', refs', lock')}
<1> SUFFICES ASSUME NEW s \in Snapshots'
             PROVE  s \in Snapshots \cup {SnapOf(version', refs', lock')}
  OBVIOUS
<1>1. CASE \E w \in Watch : s \in Queued(w)'
  BY <1>1 DEF Snapshots, Queued
<1>2. CASE \E u \in Task \cup {Heartbeat} : task'[u] # Idle /\ s = task'[u].snap
  <2> PICK u \in Task \cup {Heartbeat} : task'[u] # Idle /\ s = task'[u].snap
    BY <1>2
  <2>1. CASE u = t
    <3>1. task'[t].snap = SnapOf(version', refs', lock')
      BY DEF Finish, TypeOK
    <3> QED
      BY <2>1, <3>1
  <2>2. CASE u # t
    <3>1. task'[u] = task[u]
      BY <2>2 DEF Finish, TypeOK
    <3> QED
      BY <3>1 DEF Snapshots
  <2> QED
    BY <2>1, <2>2
<1> QED
  BY <1>1, <1>2 DEF Snapshots

LEMMA AgreeStep ==
  ASSUME TypeOK, SnapshotsAgree, version' \in Nat,
         Snapshots' \subseteq Snapshots \cup {SnapOf(version', refs', lock')},
         UNCHANGED <<version, refs>> \/ version' = version + 1
  PROVE  SnapshotsAgree'
<1> DEFINE n == SnapOf(version', refs', lock')
<1>1. n.version = version' /\ n.refs = refs'
  BY DEF SnapOf
<1>2. \A s \in Snapshots : s.version \in Nat
  BY SnapshotsType DEF Snapshot
<1>3. version \in Nat
  BY DEF TypeOK
<1> HIDE DEF n
<1>4. ASSUME NEW s \in Snapshots'
      PROVE  s.version <= version' /\ (s.version = version' => s.refs = refs')
  <2>1. CASE s = n
    BY <2>1, <1>1
  <2>2. CASE s \in Snapshots
    BY <2>2, <1>2, <1>3 DEF SnapshotsAgree
  <2> QED
    BY <2>1, <2>2 DEF n
<1>5. ASSUME NEW s1 \in Snapshots', NEW s2 \in Snapshots', s1.version = s2.version
      PROVE  s1.refs = s2.refs
  <2>1. CASE s1 \in Snapshots /\ s2 \in Snapshots
    BY <2>1, <1>5 DEF SnapshotsAgree
  <2>2. CASE s1 = n \/ s2 = n
    BY <2>2, <1>1, <1>4, <1>5
  <2> QED
    BY <2>1, <2>2 DEF n
<1> QED
  BY <1>4, <1>5 DEF SnapshotsAgree

\* Every step adds at most the snapshot of the session it leaves behind, and it
\* changes the ref list only together with the version.
Grows ==
  /\ Snapshots' \subseteq Snapshots \cup {SnapOf(version', refs', lock')}
  /\ UNCHANGED <<version, refs>> \/ version' = version + 1

LEMMA SnapshotsStep ==
  ASSUME TypeOK, [AnyNext]_vars
  PROVE  Grows
<1> DEFINE Fresh == SnapOf(version', refs', lock')
           Adds == Snapshots' \subseteq Snapshots \cup {Fresh}
<1>1. ASSUME NEW t \in Task, NEW c \in Conn, LockSession(t, c) PROVE Grows
  <2>1. Adds
    BY <1>1, FinishSnapshots DEF LockSession, streams
  <2>2. UNCHANGED <<version, refs>> \/ version' = version + 1
    BY <1>1 DEF LockSession, Bump
  <2> QED
    BY <2>1, <2>2 DEF Grows
<1>2. ASSUME NEW t \in Task, NEW c \in Conn, UnlockSession(t, c) PROVE Grows
  <2>1. Adds
    BY <1>2, FinishSnapshots DEF UnlockSession, streams
  <2>2. UNCHANGED <<version, refs>> \/ version' = version + 1
    BY <1>2 DEF UnlockSession, Release, Bump
  <2> QED
    BY <2>1, <2>2 DEF Grows
<1>3. ASSUME NEW t \in Task, NEW c \in Conn, NEW sender \in Listener \cup {Nobody},
             NEW expected, NEW r \in RefList, UpdateSession(t, c, sender, expected, r)
      PROVE  Grows
  <2>1. Adds
    BY <1>3, FinishSnapshots DEF UpdateSession, streams
  <2>2. UNCHANGED <<version, refs>> \/ version' = version + 1
    BY <1>3 DEF UpdateSession, Bump
  <2> QED
    BY <2>1, <2>2 DEF Grows
<1>4. ASSUME NEW t \in Task, ForceUnlockSession(t) PROVE Grows
  <2>1. Adds
    BY <1>4, FinishSnapshots DEF ForceUnlockSession, streams
  <2>2. UNCHANGED <<version, refs>> \/ version' = version + 1
    BY <1>4 DEF ForceUnlockSession, Release, Bump
  <2> QED
    BY <2>1, <2>2 DEF Grows
<1>5. ASSUME NEW t \in Task, Reply(t) \/ CancelCall(t) PROVE Grows
  <2>1. channel' = channel
    BY <1>5 DEF Reply, CancelCall, streams
  <2>2. \A u \in Task \cup {Heartbeat} : task'[u] # Idle => task'[u] = task[u]
    BY <1>5 DEF Reply, CancelCall, TypeOK
  <2>3. Snapshots' \subseteq Snapshots
    BY <2>1, <2>2 DEF Snapshots, Queued
  <2> QED
    BY <1>5, <2>3 DEF Grows, Reply, CancelCall, session
<1>6. ASSUME NEW t \in Task \cup {Heartbeat}, BroadcastUpdate(t) PROVE Grows
  <2>1. task[t] # Idle
    BY <1>6 DEF BroadcastUpdate, Idle
  <2>2. task[t].snap \in Snapshots
    BY <2>1 DEF Snapshots
  <2>3. ASSUME NEW w \in Watch, NEW i \in DOMAIN channel'[w]
        PROVE  channel'[w][i] \in Snapshots
    <3>1. channel[w] \in Seq(Snapshot)
      BY DEF TypeOK
    <3>2. channel'[w] = channel[w] \/ channel'[w] = Append(channel[w], task[t].snap)
      BY <1>6 DEF BroadcastUpdate
    <3>3. CASE channel'[w] = channel[w]
      BY <3>3, <2>3 DEF Snapshots, Queued
    <3>4. CASE channel'[w] = Append(channel[w], task[t].snap)
      <4>1. i \in 1..Len(channel[w]) + 1
        BY <3>1, <3>4, <2>3
      <4>2. CASE i = Len(channel[w]) + 1
        BY <3>1, <3>4, <4>2, <2>2
      <4>3. CASE i \in 1..Len(channel[w])
        <5>1. channel'[w][i] = channel[w][i] /\ i \in DOMAIN channel[w]
          BY <3>1, <3>4, <4>3
        <5> QED
          BY <5>1 DEF Snapshots, Queued
      <4> QED
        BY <3>1, <4>1, <4>2, <4>3
    <3> QED
      BY <3>2, <3>3, <3>4
  <2>4. ASSUME NEW u \in Task \cup {Heartbeat}, task'[u] # Idle
        PROVE  task'[u].snap \in Snapshots
    <3>1. CASE u = t
      <4>1. task[t] \in Busy
        BY <2>1 DEF TypeOK
      <4>2. task'[t] = [task[t] EXCEPT !.stage = "reply"]
        BY <1>6, <2>4, <3>1 DEF BroadcastUpdate, TypeOK
      <4>3. task'[t].snap = task[t].snap
        BY <4>1, <4>2 DEF Busy
      <4> QED
        BY <2>2, <3>1, <4>3
    <3>2. CASE u # t
      <4>1. task'[u] = task[u]
        BY <1>6, <3>2 DEF BroadcastUpdate, TypeOK
      <4> QED
        BY <2>4, <4>1 DEF Snapshots
    <3> QED
      BY <3>1, <3>2
  <2>5. Snapshots' \subseteq Snapshots
    BY <2>3, <2>4 DEF Snapshots, Queued
  <2> QED
    BY <1>6, <2>5 DEF Grows, BroadcastUpdate, session
<1>7. ASSUME HeartbeatSnapshot PROVE Grows
  <2>1. Adds
    BY <1>7, FinishSnapshots DEF HeartbeatSnapshot, streams
  <2> QED
    BY <1>7, <2>1 DEF Grows, HeartbeatSnapshot, session
<1>8. ASSUME NEW w \in Watch, SessionWatch(w) PROVE Grows
  <2>1. ASSUME NEW x \in Watch, NEW i \in DOMAIN channel'[x]
        PROVE  channel'[x][i] \in Snapshots \cup {Fresh}
    <3>1. CASE x = w
      <4>1. channel'[x] = <<SnapOf(version, refs, lock)>>
        BY <1>8, <3>1 DEF SessionWatch, TypeOK
      <4>2. Fresh = SnapOf(version, refs, lock)
        BY <1>8 DEF SessionWatch, session
      <4> QED
        BY <2>1, <4>1, <4>2
    <3>2. CASE x # w
      <4>1. channel'[x] = channel[x]
        BY <1>8, <3>2 DEF SessionWatch, TypeOK
      <4> QED
        BY <2>1, <4>1 DEF Snapshots, Queued
    <3> QED
      BY <3>1, <3>2
  <2>2. Adds
    BY <1>8, <2>1 DEF SessionWatch, Snapshots, Queued
  <2> QED
    BY <1>8, <2>2 DEF Grows, SessionWatch, session
<1>9. ASSUME NEW w \in Watch, Receive(w) PROVE Grows
  <2>1. ASSUME NEW x \in Watch, NEW i \in DOMAIN channel'[x]
        PROVE  channel'[x][i] \in Snapshots
    <3>1. CASE x = w
      <4>1. channel'[w] = Tail(channel[w]) /\ channel[w] \in Seq(Snapshot) /\ channel[w] # <<>>
        BY <1>9 DEF Receive, TypeOK
      <4>2. i + 1 \in DOMAIN channel[w] /\ channel'[x][i] = channel[w][i + 1]
        BY <2>1, <3>1, <4>1
      <4> QED
        BY <4>2 DEF Snapshots, Queued
    <3>2. CASE x # w
      <4>1. channel'[x] = channel[x]
        BY <1>9, <3>2 DEF Receive, TypeOK
      <4> QED
        BY <2>1, <4>1 DEF Snapshots, Queued
    <3> QED
      BY <3>1, <3>2
  <2>2. Snapshots' \subseteq Snapshots
    BY <1>9, <2>1 DEF Receive, Snapshots, Queued
  <2> QED
    BY <1>9, <2>2 DEF Grows, Receive, session
<1>10. ASSUME NEW w \in Watch, DropStream(w) PROVE Grows
  <2>1. \A x \in Watch : channel'[x] = channel[x] \/ channel'[x] = <<>>
    BY <1>10 DEF DropStream, TypeOK
  <2>2. Snapshots' \subseteq Snapshots
    BY <1>10, <2>1 DEF DropStream, Snapshots, Queued
  <2> QED
    BY <1>10, <2>2 DEF Grows, DropStream, session
<1>11. ASSUME LockExpires \/ UNCHANGED vars PROVE Grows
  <2>1. Snapshots' = Snapshots
    BY <1>11 DEF LockExpires, streams, vars, Snapshots, Queued
  <2> QED
    BY <1>11, <2>1 DEF Grows, LockExpires, vars
<1> QED
  BY <1>1, <1>2, <1>3, <1>4, <1>5, <1>6, <1>7, <1>8, <1>9, <1>10, <1>11
  DEF AnyNext, AnyUpdate, Next, Handler, Stream

LEMMA AgreeInductive == TypeOK /\ SnapshotsAgree /\ [AnyNext]_vars => SnapshotsAgree'
<1> SUFFICES ASSUME TypeOK, SnapshotsAgree, [AnyNext]_vars PROVE SnapshotsAgree'
  OBVIOUS
<1>1. version' \in Nat
  BY TypeStep DEF TypeOK
<1>2. Grows
  BY SnapshotsStep
<1> QED
  BY <1>1, <1>2, AgreeStep DEF Grows

LEMMA NothingTold == Init => Snapshots = {}
BY DEF Init, Snapshots, Queued

\* However late or out of order a snapshot arrives, its version names one ref
\* list, the one the session had at that version.
THEOREM SnapshotAgreement == Spec => []SnapshotsAgree
<1>1. Init => SnapshotsAgree
  BY NothingTold DEF SnapshotsAgree
<1>2. TypeOK /\ SnapshotsAgree /\ [Next]_vars => SnapshotsAgree'
  BY AgreeInductive DEF AnyNext
<1> QED
  BY <1>1, <1>2, TypeCorrect, PTL DEF Spec

-----------------------------------------------------------------------------
LEMMA RegisteredStep == ConnectedIsRegistered /\ [AnyNext]_vars => ConnectedIsRegistered'
<1> SUFFICES ASSUME ConnectedIsRegistered, [AnyNext]_vars
             PROVE  ConnectedIsRegistered'
  OBVIOUS
<1>1. CASE UNCHANGED <<watchers, connected>>
  BY <1>1 DEF ConnectedIsRegistered
<1>2. ASSUME NEW t \in Task, Handler(t) PROVE UNCHANGED <<watchers, connected>>
  BY <1>2 DEF Handler, LockSession, UnlockSession, UpdateSession,
     ForceUnlockSession, Reply, CancelCall, streams
<1>3. ASSUME NEW t \in Task \cup {Heartbeat}, BroadcastUpdate(t)
      PROVE  ConnectedIsRegistered'
  BY <1>3 DEF BroadcastUpdate, Purged, ConnectedIsRegistered
<1>4. ASSUME NEW w \in Watch, Stream(w) PROVE ConnectedIsRegistered'
  BY <1>4 DEF Stream, SessionWatch, Receive, DropStream, ConnectedIsRegistered
<1>5. CASE HeartbeatSnapshot \/ LockExpires \/ UNCHANGED vars
  BY <1>1, <1>5 DEF HeartbeatSnapshot, LockExpires, streams, vars
<1>6. CASE AnyUpdate
  BY <1>1, <1>6 DEF AnyUpdate, UpdateSession, streams
<1> QED
  BY <1>1, <1>2, <1>3, <1>4, <1>5, <1>6 DEF AnyNext, Next

\* A slow client is never struck off the watcher list: only a stream whose
\* receiver is gone leaves it.
THEOREM WatcherRegistration == Spec => []ConnectedIsRegistered
<1>1. Init => ConnectedIsRegistered
  BY DEF Init, ConnectedIsRegistered
<1>2. ConnectedIsRegistered /\ [Next]_vars => ConnectedIsRegistered'
  BY RegisteredStep DEF AnyNext
<1> QED
  BY <1>1, <1>2, PTL DEF Spec

\* Both together: whatever broadcasts are skipped, dropped or late, every
\* connected client stays registered and no version names two ref lists.
THEOREM WatchersStayInAgreement == Spec => []WatchersAgree
BY SnapshotAgreement, WatcherRegistration, PTL DEF WatchersAgree

-----------------------------------------------------------------------------
(* The store implements the abstract register.                             *)

LEMMA RegisterInit == Init => Register!RegInit
<1> SUFFICES ASSUME Init PROVE Register!RegInit
  OBVIOUS
<1>1. lock.holder = Nobody /\ lock.expired = FALSE
  BY DEF Init, NoLock
<1> QED
  BY <1>1 DEF Init, Register!RegInit

LEMMA RegisterStep == TypeOK /\ [AnyNext]_vars => [Register!RegNext]_Register!regVars
<1> SUFFICES ASSUME TypeOK, [AnyNext]_vars
             PROVE  [Register!RegNext]_Register!regVars
  OBVIOUS
<1> DEFINE holder == IF lock.expired THEN Nobody ELSE lock.holder
           Stutters == UNCHANGED <<version, refs, holder, author>>
<1>0. LiveLock.holder = holder /\ ~LiveLock.expired
  BY DEF LiveLock, NoLock, TypeOK
<1>1. ASSUME NEW t \in Task, NEW c \in Conn, LockSession(t, c)
      PROVE  Register!Acquire(c) \/ Stutters
  <2>1. CASE LiveLock.holder \in {Nobody, c}
    <3>1. version' = version + 1 /\ refs' = refs /\ author' = author
      BY <1>1, <2>1 DEF LockSession, Bump
    <3>2. lock' = [holder |-> c, since |-> version', expired |-> FALSE]
      BY <1>1, <2>1 DEF LockSession
    <3>3. holder' = c
      BY <3>2
    <3> QED
      BY <1>0, <2>1, <3>1, <3>3 DEF Register!Acquire
  <2>2. CASE LiveLock.holder \notin {Nobody, c}
    <3>1. version' = version /\ refs' = refs /\ author' = author /\ lock' = LiveLock
      BY <1>1, <2>2 DEF LockSession
    <3> QED
      BY <1>0, <3>1
  <2> QED
    BY <2>1, <2>2
<1>2. ASSUME NEW t \in Task, UNCHANGED <<refs, author>>, Release PROVE Register!GiveUp
  BY <1>2 DEF Release, Bump, NoLock, Register!GiveUp
<1>3. ASSUME NEW t \in Task, NEW c \in Conn, UnlockSession(t, c)
      PROVE  Register!GiveUp \/ Stutters
  BY <1>2, <1>3 DEF UnlockSession
<1>4. ASSUME NEW t \in Task, ForceUnlockSession(t)
      PROVE  Register!GiveUp \/ Stutters
  BY <1>2, <1>4 DEF ForceUnlockSession
<1>5. ASSUME NEW t \in Task, NEW c \in Conn, NEW sender \in Listener \cup {Nobody},
             NEW expected, NEW r \in RefList, UpdateSession(t, c, sender, expected, r)
      PROVE  (\E stale \in BOOLEAN : Register!Commit(c, stale)) \/ Stutters
  <2>1. holder' = holder
    <3>1. lock' = LiveLock
      BY <1>5 DEF UpdateSession
    <3> QED
      BY <1>0, <3>1
  <2>2. CASE Accepts(c, expected)
    <3> DEFINE stale == expected \notin {AnyVersion, version}
    <3>1. version' = version + 1 /\ refs' = r
      BY <1>5, <2>2 DEF UpdateSession, Bump
    <3>2. author' = [conn |-> c, stale |-> stale]
      BY <1>5, <2>2 DEF UpdateSession
    <3>3. holder = c \/ (holder = Nobody /\ ~stale)
      BY <1>0, <2>2 DEF Accepts
    <3>4. stale \in BOOLEAN
      OBVIOUS
    <3> HIDE DEF stale
    <3>5. Register!Commit(c, stale)
      BY <1>5, <2>1, <3>1, <3>2, <3>3 DEF Register!Commit
    <3> QED
      BY <3>4, <3>5
  <2>3. CASE ~Accepts(c, expected)
    <3>1. version' = version /\ refs' = refs /\ author' = author
      BY <1>5, <2>3 DEF UpdateSession
    <3> QED
      BY <2>1, <3>1
  <2> QED
    BY <2>2, <2>3
<1>6. ASSUME LockExpires PROVE Register!Lapse
  BY <1>6 DEF LockExpires, TypeOK, Register!Lapse
<1>7. ASSUME UNCHANGED session PROVE Stutters
  BY <1>7 DEF session
<1>8. ASSUME NEW t \in Task \cup {Heartbeat}, BroadcastUpdate(t) PROVE Stutters
  BY <1>7, <1>8 DEF BroadcastUpdate
<1>9. ASSUME NEW w \in Watch, Stream(w) PROVE Stutters
  BY <1>7, <1>9 DEF Stream, SessionWatch, Receive, DropStream
<1>10. ASSUME NEW t \in Task, Reply(t) \/ CancelCall(t) PROVE Stutters
  BY <1>7, <1>10 DEF Reply, CancelCall
<1>11. ASSUME HeartbeatSnapshot \/ UNCHANGED vars PROVE Stutters
  <2>1. UNCHANGED session
    BY <1>11 DEF HeartbeatSnapshot, vars, session
  <2> QED
    BY <1>7, <2>1
<1> HIDE DEF Stutters
<1>12. ASSUME NEW t \in Task, Handler(t) PROVE Register!RegNext \/ Stutters
  BY <1>1, <1>3, <1>4, <1>5, <1>10, <1>12 DEF Handler, Register!RegNext
<1>13. Register!RegNext \/ Stutters
  <2>1. CASE \E t \in Task : Handler(t)
    BY <1>12, <2>1
  <2>2. CASE LockExpires
    BY <1>6, <2>2 DEF Register!RegNext
  <2>3. CASE AnyUpdate
    BY <1>5, <2>3 DEF AnyUpdate, Register!RegNext
  <2> QED
    BY <1>8, <1>9, <1>11, <2>1, <2>2, <2>3 DEF AnyNext, Next
<1> QED
  BY <1>13 DEF Stutters, Register!regVars

\* The session store implements the versioned register with an exclusive lock:
\* no interleaving of handlers, expiries, broadcasts and disconnections lets a
\* connection write past another's lock or change the refs without a version.
THEOREM ImplementsRegister == Spec => RegisterRefinement
<1>1. Init => Register!RegInit
  BY RegisterInit
<1>2. TypeOK /\ [Next]_vars => [Register!RegNext]_Register!regVars
  BY RegisterStep DEF AnyNext
<1> QED
  BY <1>1, <1>2, TypeCorrect, PTL DEF Spec, RegisterRefinement, Register!RegSpec
=============================================================================
