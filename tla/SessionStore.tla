---------------------------- MODULE SessionStore ----------------------------
(***************************************************************************)
(* The daemon's session store (session_store.rs) and the gRPC handlers     *)
(* that drive it (grpc_server.rs): one session document with a version, an *)
(* advisory lock with a time-to-live, and the watch streams that carry     *)
(* snapshots of the document to the windows.                               *)
(*                                                                         *)
(* Every method of the store takes the store's mutex once, so a method is  *)
(* one action.  A handler calls the method and then broadcast_update,      *)
(* which takes the mutex again: between the two anything may run, and the  *)
(* task that carries the handler remembers the snapshot it will broadcast. *)
(***************************************************************************)
EXTENDS Integers, Sequences, FiniteSets

CONSTANTS
  Conn,        \* daemon-generated connection ids, the identities of the lock
  Listener,    \* client-chosen listener ids, also used as sender ids
  Nobody,      \* no lock holder, the heartbeat's empty sender id, and the id of
               \* a sender that watches under another one
  Task,        \* handler futures the gRPC server may run at one time
  Heartbeat,   \* the background task of start_heartbeat
  RefList,     \* the workspace ref lists, stored verbatim
  NoRefs,      \* the empty list of a new session
  AnyVersion,  \* an UpdateSession request without expected_version
  MaxStreams,  \* watch streams one listener id may have over time
  Cap,         \* capacity of a watch channel (64 in the code)
  MaxVersion   \* bound on the session version explored

ASSUME ConstAssumption ==
  /\ Nobody \notin Conn /\ Nobody \notin Listener
  /\ Heartbeat \notin Task
  /\ NoRefs \in RefList
  /\ AnyVersion \notin Nat
  /\ MaxStreams \in Nat
  /\ Cap \in Nat \ {0}
  /\ MaxVersion \in Nat

VARIABLES
  version,   \* session.version
  refs,      \* session.workspace_refs
  lock,      \* Inner.lock; .since stands for acquired_at, .expired for the clock
  author,    \* history: who made the last accepted update, and whether it
             \* expected another version than the current one
  watchers,  \* the streams with an entry in Inner.watchers
  connected, \* the streams whose receiver still exists
  channel,   \* per watch stream: the mpsc channel the watcher's tx feeds
  task       \* per task: idle, about to broadcast a snapshot, or about to reply

session == <<version, refs, lock, author>>
streams == <<watchers, connected, channel>>
vars == <<version, refs, lock, author, watchers, connected, channel, task>>

Watch == Listener \X (1..MaxStreams)
ListenerOf(w) == w[1]

Snapshot == [version : Nat, refs : RefList, since : Nat]

NoLock == [holder |-> Nobody, since |-> 0, expired |-> FALSE]
Idle == [stage |-> "idle"]
Busy == [stage : {"broadcast", "reply"}, snap : Snapshot,
         sender : Listener \cup {Nobody}, ok : BOOLEAN]

TypeOK ==
  /\ version \in Nat
  /\ refs \in RefList
  /\ lock \in [holder : Conn \cup {Nobody}, since : Nat, expired : BOOLEAN]
  /\ author \in [conn : Conn \cup {Nobody}, stale : BOOLEAN]
  /\ watchers \subseteq Watch
  /\ connected \subseteq Watch
  /\ channel \in [Watch -> Seq(Snapshot)]
  /\ task \in [Task \cup {Heartbeat} -> Busy \cup {Idle}]

Init ==
  /\ version = 1
  /\ refs = NoRefs
  /\ lock = NoLock
  /\ author = [conn |-> Nobody, stale |-> FALSE]
  /\ watchers = {}
  /\ connected = {}
  /\ channel = [w \in Watch |-> <<>>]
  /\ task = [t \in Task \cup {Heartbeat} |-> Idle]

-----------------------------------------------------------------------------
(* The store's methods                                                     *)

\* What every method that looks at the lock first does: drop an expired one.
LiveLock == IF lock.expired THEN NoLock ELSE lock

\* session.version += 1.
BumpLost == UNCHANGED version   \* mutant: an accepted change keeps its version
Bump ==
  /\ version < MaxVersion
  /\ version' = version + 1

\* The snapshot a method returns, built from the state it leaves behind.
SnapOf(v, r, l) == [version |-> v, refs |-> r, since |-> l.since]

Finish(t, stage, sender, ok) ==
  task' = [task EXCEPT ![t] =
             [stage |-> stage, snap |-> SnapOf(version', refs', lock'),
              sender |-> sender, ok |-> ok]]

\* The holder always wins; otherwise the session must be unlocked and the
\* expected version, when there is one, must be the current one.
AcceptsLockedOut(c, expected) ==   \* mutant: the lock is not checked
  expected \in {AnyVersion, version}
Accepts(c, expected) ==
  \/ LiveLock.holder = c
  \/ LiveLock.holder = Nobody /\ expected \in {AnyVersion, version}

UpdateSession(t, c, sender, expected, newRefs) ==
  /\ task[t] = Idle
  /\ lock' = LiveLock
  /\ \/ /\ Accepts(c, expected)
        /\ Bump
        /\ refs' = newRefs
        /\ author' = [conn |-> c, stale |-> expected \notin {AnyVersion, version}]
        /\ Finish(t, "broadcast", sender, TRUE)
     \/ /\ ~Accepts(c, expected)
        /\ UNCHANGED <<version, refs, author>>
        /\ Finish(t, "reply", sender, FALSE)
  /\ UNCHANGED streams

\* A refusal is only returned; a grant or a refresh bumps the version and is
\* broadcast to everybody.
LockSession(t, c) ==
  /\ task[t] = Idle
  /\ UNCHANGED <<refs, author, streams>>
  /\ \/ /\ LiveLock.holder \in {Nobody, c}
        /\ Bump
        /\ lock' = [holder |-> c, since |-> version', expired |-> FALSE]
        /\ Finish(t, "broadcast", Nobody, TRUE)
     \/ /\ LiveLock.holder \notin {Nobody, c}
        /\ lock' = LiveLock
        /\ UNCHANGED version
        /\ Finish(t, "reply", Nobody, FALSE)

Release == Bump /\ lock' = NoLock

\* The holder is compared without looking at the expiry, and the result is
\* broadcast whether or not anything was released.
UnlockSession(t, c) ==
  /\ task[t] = Idle
  /\ \/ lock.holder = c /\ Release
     \/ lock.holder # c /\ UNCHANGED <<version, lock>>
  /\ UNCHANGED <<refs, author, streams>>
  /\ Finish(t, "broadcast", Nobody, TRUE)

ForceUnlockSession(t) ==
  /\ task[t] = Idle
  /\ \/ lock # NoLock /\ Release
     \/ lock = NoLock /\ UNCHANGED <<version, lock>>
  /\ UNCHANGED <<refs, author, streams>>
  /\ Finish(t, "broadcast", Nobody, TRUE)

\* Snapshot and registration under one lock: the first event of the stream is
\* the session as it was when the watcher joined.
SessionWatch(w) ==
  /\ w \notin watchers \cup connected
  /\ watchers' = watchers \cup {w}
  /\ connected' = connected \cup {w}
  /\ channel' = [channel EXCEPT ![w] = <<SnapOf(version, refs, lock)>>]
  /\ UNCHANGED <<session, task>>

\* broadcast_update: try_send to every watcher but the sender's; a full
\* channel keeps its watcher, a closed one loses it.
Reached(sender) == {w \in watchers : ListenerOf(w) # sender}

Purged(sender) == Reached(sender) \ connected

BroadcastUpdate(t) ==
  /\ task[t].stage = "broadcast"
  /\ channel' = [w \in Watch |->
       IF w \in Reached(task[t].sender) \cap connected /\ Len(channel[w]) < Cap
       THEN Append(channel[w], task[t].snap)
       ELSE channel[w]]
  /\ watchers' = watchers \ Purged(task[t].sender)
  /\ task' = [task EXCEPT ![t] =
       IF t = Heartbeat THEN Idle ELSE [@ EXCEPT !.stage = "reply"]]
  /\ UNCHANGED <<session, connected>>

\* start_heartbeat: session() and broadcast_update are two critical sections.
HeartbeatSnapshotSkips ==          \* mutant: the beat carries a sender's id
  /\ task[Heartbeat] = Idle
  /\ UNCHANGED <<session, streams>>
  /\ \E l \in Listener : Finish(Heartbeat, "broadcast", l, TRUE)
HeartbeatSnapshot ==
  /\ task[Heartbeat] = Idle
  /\ UNCHANGED <<session, streams>>
  /\ Finish(Heartbeat, "broadcast", Nobody, TRUE)

-----------------------------------------------------------------------------
(* The environment of the store                                            *)

\* The handler returns its response.
Reply(t) ==
  /\ task[t].stage = "reply"
  /\ task' = [task EXCEPT ![t] = Idle]
  /\ UNCHANGED <<session, streams>>

\* The client cancels the call, or its connection dies, and the handler's
\* future is dropped where it awaits the mutex for its broadcast.
CancelCall(t) ==
  /\ task[t].stage = "broadcast"
  /\ t # Heartbeat
  /\ task' = [task EXCEPT ![t] = Idle]
  /\ UNCHANGED <<session, streams>>

\* The stream hands the oldest queued event to its client.
Receive(w) ==
  /\ w \in connected
  /\ channel[w] # <<>>
  /\ channel' = [channel EXCEPT ![w] = Tail(@)]
  /\ UNCHANGED <<session, watchers, connected, task>>

\* The client goes away: the receiver is dropped with what it had queued, the
\* entry stays in the watcher list until a broadcast meets it.
DropStream(w) ==
  /\ w \in connected
  /\ connected' = connected \ {w}
  /\ channel' = [channel EXCEPT ![w] = <<>>]
  /\ UNCHANGED <<session, watchers, task>>

\* The clock passes expires_at.
LockExpires ==
  /\ lock.holder # Nobody
  /\ ~lock.expired
  /\ lock' = [lock EXCEPT !.expired = TRUE]
  /\ UNCHANGED <<version, refs, author, streams, task>>

Handler(t) ==
  \/ \E c \in Conn :
       \/ LockSession(t, c)
       \/ UnlockSession(t, c)
       \/ \E sender \in Listener \cup {Nobody}, expected \in (1..MaxVersion) \cup {AnyVersion},
             r \in RefList : UpdateSession(t, c, sender, expected, r)
  \/ ForceUnlockSession(t)
  \/ Reply(t)
  \/ CancelCall(t)

Stream(w) == SessionWatch(w) \/ Receive(w) \/ DropStream(w)

Next ==
  \/ \E t \in Task : Handler(t)
  \/ \E t \in Task \cup {Heartbeat} : BroadcastUpdate(t)
  \/ HeartbeatSnapshot
  \/ \E w \in Watch : Stream(w)
  \/ LockExpires

Spec == Init /\ [][Next]_vars

\* The runtime polls every ready future: the heartbeat loop, a handler that is
\* waiting for the mutex, and the stream of a connected client make progress.
Fairness ==
  /\ WF_vars(HeartbeatSnapshot)
  /\ \A t \in Task \cup {Heartbeat} : WF_vars(BroadcastUpdate(t))
  /\ \A w \in Watch : WF_vars(Receive(w))

FairSpec == Spec /\ Fairness

-----------------------------------------------------------------------------
(* Properties                                                              *)

\* Every snapshot some client may still receive.
Queued(w) == {channel[w][i] : i \in DOMAIN channel[w]}
Snapshots ==
  (UNION {Queued(w) : w \in Watch})
    \cup {task[t].snap : t \in {u \in Task \cup {Heartbeat} : task[u] # Idle}}

\* A version names one ref list: snapshots delayed in a handler or a channel
\* and then delivered late or out of order never claim a version for two
\* different lists, nor one the session has not reached.  The expected_version
\* check of update_session is sound only because of this.
SnapshotsAgree ==
  /\ \A s \in Snapshots :
       /\ s.version <= version
       /\ s.version = version => s.refs = refs
  /\ \A s1, s2 \in Snapshots : s1.version = s2.version => s1.refs = s2.refs

\* A stream whose client is connected never falls out of the watcher list,
\* however slow the client is; broadcast_update says what it would mean: the
\* window would be silently disconnected from session sync.
ConnectedIsRegistered == connected \subseteq watchers

\* Every window that is connected is told, and told one story: no slow client
\* is struck off, and no late snapshot claims a version for another list.
WatchersAgree == SnapshotsAgree /\ ConnectedIsRegistered

\* Self-healing: a client that stays connected is delivered the current
\* session again and again, whatever broadcasts were skipped because it sent
\* the update, dropped because its channel was full, or lost with a cancelled
\* call.  This is what start_heartbeat is for.
DeliversCurrent(w) ==
  /\ Receive(w)
  /\ Head(channel[w]).version = version
  /\ Head(channel[w]).refs = refs

WatchersConverge ==
  \A w \in Watch : []<>(w \notin connected) \/ []<><<DeliversCurrent(w)>>_vars

\* The store implements the register: an expired lock is no lock, whether or
\* not the store has noticed yet.
Register == INSTANCE SessionRegister WITH
  holder <- IF lock.expired THEN Nobody ELSE lock.holder

\* Every step of a handler, a stream, the clock or the heartbeat is a step of
\* the register or leaves it alone: in particular nobody but the holder of an
\* unexpired lock changes the ref list while it is locked, an update computed
\* from an old version goes through only under the lock, and a lock passes from
\* one connection to another only through being free.
RegisterRefinement == Register!RegSpec
=============================================================================
