------------------------------ MODULE RefSync -------------------------------
(***************************************************************************)
(* Membership sync: several windows, each with its own session store       *)
(* (createSessionStore.ts), publish and adopt the session's list of        *)
(* workspace refs through the daemon's SessionStore.                       *)
(*                                                                         *)
(* A window is single-threaded: an action is what its event loop runs      *)
(* between two awaits.  Its UpdateSession, LockSession and UnlockSession   *)
(* calls go through one serial queue, so it has at most one call in        *)
(* flight; the daemon task that serves it is named after the window.       *)
(* Session events and file events interleave with everything.              *)
(***************************************************************************)
EXTENDS SessionStore

CONSTANTS
  Id,            \* workspace ids
  Slot,          \* user operations one window may have running at once
  Remote,        \* windows on an SSH connection: their watch has an id of its
                 \* own, so they hear the broadcasts of their own updates
  Operations,    \* the user operations explored in each window
  Never,         \* lastSyncedRefsJson before the first sync
  MaxAttempts,   \* MAX_REF_SYNC_ATTEMPTS (5 in the code)
  MaxOps,        \* bound on the user operations of one window
  MaxFailures,   \* bound on the failed calls and git commands explored
  LockMayExpire  \* whether an operation may outlive its lock

OpKinds == {"root", "child", "adopt", "remove", "dismiss"}

\* A ref list names each workspace once, in the order of the sender's Map.
Injective(s) == \A i, j \in DOMAIN s : s[i] = s[j] => i = j
RefLists(ids) ==
  {s \in UNION {[1..n -> ids] : n \in 0..Cardinality(ids)} : Injective(s)}

ASSUME RefSyncAssumption ==
  /\ IsFiniteSet(Id) /\ IsFiniteSet(Slot)
  /\ Listener = Conn /\ Task = Conn /\ Remote \subseteq Conn
  /\ RefList = RefLists(Id) /\ NoRefs = <<>> /\ Never \notin RefList
  /\ MaxStreams = 1
  /\ Operations \in [Conn -> SUBSET OpKinds]
  /\ {MaxAttempts, MaxOps, MaxFailures} \subseteq Nat
  /\ LockMayExpire \in BOOLEAN

VARIABLES
  win,        \* the session store of each window
  files,      \* ids whose workspace file exists
  used,       \* ids handed out by generateId
  ops,        \* user operations each window has begun
  failures,   \* failures so far
  retired,    \* history: ids a user removed or dismissed
  listed,     \* history: ids that were ever in the daemon's list
  lapsed      \* history: operations that lost their lock to the clock or to
              \* another operation of their window

world == <<files, used, ops, failures, retired, listed, lapsed>>
refVars == <<win, world>>
allVars == <<vars, refVars>>

Window == Conn
StreamOf(w) == <<w, 1>>
SenderOf(w) == IF w \in Remote THEN Nobody ELSE w

-----------------------------------------------------------------------------
(* One window's store, as a record, and the functions that update it       *)

NoCall == [op |-> "none"]
NoJob == [pc |-> "none"]

EmptyStore == [
  ver      |-> 0,                       \* sessionVersion
  synced   |-> Never,                   \* lastSyncedRefsJson
  order    |-> <<>>,                    \* workspaces: its keys, as inserted
  loaded   |-> {},                      \* those Loaded or in OperationError;
                                        \* the others are Loading or Error
  known    |-> {},                      \* knownRefs
  unpub    |-> {},                      \* unpublishedIds
  watched  |-> {},                      \* wsSync entries with a file watch
  arriving |-> {},                      \* file bodies their watch will deliver
  attempts |-> 0,                       \* refSyncAttempts
  retry    |-> FALSE,                   \* refSyncRetryOnNextEvent
  queue    |-> <<>>,                    \* queueTail: calls not started yet
  cur      |-> NoCall,                  \* the call in flight
  job      |-> [k \in Slot |-> NoJob]]  \* the user operations in progress

IdsOf(list) == {list[i] : i \in DOMAIN list}

\* The entries of a list that are among ids, in the order of the list.
Only(list, ids) ==
  LET upTo[n \in 0..Len(list)] ==
        IF n = 0 THEN <<>>
        ELSE IF list[n] \in ids THEN Append(upTo[n - 1], list[n]) ELSE upTo[n - 1]
  IN  upTo[Len(list)]

Entries(s) == IdsOf(s.order)

\* workspaces.set: an id that is already a key keeps its place.
PutEntry(s, id) ==
  [s EXCEPT !.order = IF id \in Entries(s) THEN @ ELSE Append(@, id)]
PutLoaded(s, id) == [PutEntry(s, id) EXCEPT !.loaded = @ \cup {id}]
PutPlaceholder(s, id) == [PutEntry(s, id) EXCEPT !.loaded = @ \ {id}]
DeleteEntry(s, id) ==
  [s EXCEPT !.order = Only(@, Entries(s) \ {id}), !.loaded = @ \ {id}]

\* currentRefs: every loaded workspace and every placeholder the daemon lists.
CurrentRefs(s) == Only(s.order, s.loaded \cup s.known)

\* ensureWatch, idempotent; a new watch first delivers the file as it is.
EnsureWatch(s, ids) ==
  [s EXCEPT !.watched = @ \cup ids,
            !.arriving = @ \cup ((ids \ s.watched) \cap (files \ s.loaded))]

\* enqueueSync: collapses into a sync at the end of the queue.
EnqueueSync(s, slots) ==
  LET n == Len(s.queue)
  IN  IF n > 0 /\ s.queue[n].op = "sync"
      THEN [s EXCEPT !.queue[n].slots = @ \cup slots]
      ELSE [s EXCEPT !.queue = Append(@, [op |-> "sync", slots |-> slots])]

\* enqueueOp, for the lock and unlock calls of the operations in slots.
EnqueueOp(s, op, slots) ==
  LET requests == [op : {op}, slots : {{k} : k \in slots}]
      calls == CHOOSE q \in [1..Cardinality(slots) -> requests] : Injective(q)
  IN  [s EXCEPT !.queue = @ \o calls]

SetPc(s, slots, pc) ==
  [s EXCEPT !.job = [k \in Slot |-> IF k \in slots THEN [@[k] EXCEPT !.pc = pc]
                                                   ELSE @[k]]]
EndJob(s, k) == [s EXCEPT !.job[k] = NoJob]

\* onWorkspaceRemoved of some entries: each goes, with its watch and its
\* bookkeeping.
OnWorkspaceRemoved(s, gone) ==
  [s EXCEPT !.order = Only(@, Entries(s) \ gone), !.loaded = @ \ gone,
            !.known = @ \ gone, !.unpub = @ \ gone,
            !.watched = @ \ gone, !.arriving = @ \ gone]

\* The entries reconcileRefs takes for removed by another window.
RemovedElsewhere(s, ids) == s.loaded \ (ids \cup s.unpub)

ReconcileRefs(s, list) ==
  LET ids == IdsOf(list)
      watching == EnsureWatch(s, ids)
      adopted == [watching EXCEPT
        !.known = ids,
        !.unpub = @ \ ids,
        !.order = @ \o Only(list, ids \ Entries(s))]
  IN  OnWorkspaceRemoved(adopted, RemovedElsewhere(adopted, ids))

\* scheduleRefSyncRetry: once the attempts are used up the unpublished
\* workspaces show an error and nothing is retried.
ScheduleRetryUnlessLocked(s, lockedByOther) ==   \* mutant: gives up when locked
  IF lockedByOther THEN s ELSE EnqueueSync(s, {})
NoRetry(s, lockedByOther) == s           \* mutant: a rejected sync is final
ScheduleRetry(s, lockedByOther) ==
  LET t == [s EXCEPT !.attempts = @ + 1]
  IN  IF s.unpub = {} /\ CurrentRefs(s) = s.synced THEN s
      ELSE IF t.attempts >= MaxAttempts THEN t
      ELSE IF lockedByOther THEN [t EXCEPT !.retry = TRUE]
      ELSE EnqueueSync(t, {})

\* An awaited sync is over: a creation releases the lock, a removal first
\* deletes the workspace file.
SyncSettled(s, slots) ==
  LET deleting == {k \in slots : s.job[k].op = "remove"}
      unlocking == slots \ deleting
  IN  EnqueueOp(SetPc(SetPc(s, deleting, "deleting"), unlocking, "unlocking"),
                "unlock", unlocking)

\* syncRefs up to its await: skip a no-op, otherwise send optimistically.
SendRefs(s, slots) ==
  [s EXCEPT !.synced = CurrentRefs(s),
            !.cur = [op |-> "sync", slots |-> slots, refs |-> CurrentRefs(s),
                     expected |-> s.ver, prev |-> s.synced]]

\* syncRefs after its await.
AcceptedByVersion(call, snap) ==         \* mutant: the refs are not compared
  snap.version = call.expected + 1
Accepted(call, snap) == snap.version = call.expected + 1 /\ snap.refs = call.refs

SyncAnswered(s, call, snap) ==
  LET fresh == [s EXCEPT !.ver = snap.version]
  IN  IF Accepted(call, snap)
      THEN [fresh EXCEPT !.unpub = @ \ IdsOf(call.refs), !.attempts = 0, !.retry = FALSE]
      ELSE ScheduleRetry(
             ReconcileRefs([fresh EXCEPT !.synced = snap.refs], snap.refs),
             snap.since # 0)

SyncFailedKeepsRefs(s, call) == s     \* mutant: the refs still count as synced
SyncFailed(s, call) == [s EXCEPT !.synced = call.prev]

\* A workspace built here: loaded, unpublished, and its file being written.
CreateWorkspace(s, k) ==
  LET id == s.job[k].id
  IN  SetPc([PutLoaded(s, id) EXCEPT !.unpub = @ \cup {id}, !.attempts = 0],
            {k}, "writing")

-----------------------------------------------------------------------------
(* User operations                                                         *)

Update(w, s) == win' = [win EXCEPT ![w] = s]
Store(w) == win[w]
StoreReady(w) == Store(w).ver > 0

Begin(w) ==
  /\ StoreReady(w)
  /\ ops[w] < MaxOps
  /\ ops' = [ops EXCEPT ![w] = @ + 1]
  /\ UNCHANGED <<vars, files, failures, listed>>

Fail == failures < MaxFailures /\ failures' = failures + 1

\* addWorkspace, createChildWithLoading and adoptExistingWorktree: a new id, a
\* placeholder except for an adopted worktree, and the lock except for a root.
AddWorkspace(w, k) ==
  \E op \in Operations[w] \cap {"root", "child", "adopt"}, id \in Id \ used :
    LET job == [op |-> op, id |-> id, pc |-> IF op = "root" THEN "working" ELSE "locking"]
        begun == [Store(w) EXCEPT !.job[k] = job]
        shown == IF op = "adopt" THEN begun ELSE PutPlaceholder(begun, id)
    IN  /\ Store(w).job[k] = NoJob
        /\ Begin(w)
        /\ used' = used \cup {id}
        /\ lapsed' = lapsed \ {<<w, k>>}
        /\ Update(w, IF op = "root" THEN shown ELSE EnqueueOp(shown, "lock", {k}))
        /\ UNCHANGED retired

\* removeWorkspaceWithLoading, up to the request for the lock.
RemoveWorkspace(w, k) ==
  \E id \in Store(w).loaded :
    LET job == [op |-> "remove", id |-> id, pc |-> "locking"]
    IN  /\ "remove" \in Operations[w]
        /\ Store(w).job[k] = NoJob
        /\ Begin(w)
        /\ lapsed' = lapsed \ {<<w, k>>}
        /\ Update(w, EnqueueOp([Store(w) EXCEPT !.job[k] = job], "lock", {k}))
        /\ UNCHANGED <<used, retired>>

\* dismissWorkspace: drops a placeholder, and nothing of its bookkeeping.
DismissWorkspace(w) ==
  \E id \in Entries(Store(w)) \ Store(w).loaded :
    /\ "dismiss" \in Operations[w]
    /\ Begin(w)
    /\ Update(w, DeleteEntry(Store(w), id))
    /\ retired' = retired \cup {id}
    /\ UNCHANGED <<used, lapsed>>

\* The git commands of an operation are over.  A failed creation leaves its
\* placeholder as an error; a failed removal keeps the workspace.
WorkFails(w, k) ==
  LET s == Store(w)
      job == s.job[k]
      kept == IF job.op = "remove" THEN PutLoaded(s, job.id) ELSE PutPlaceholder(s, job.id)
  IN  /\ job.pc = "working"
      /\ Fail
      /\ Update(w, IF job.op = "root" THEN EndJob(kept, k)
                   ELSE EnqueueOp(SetPc(kept, {k}, "unlocking"), "unlock", {k}))
      /\ UNCHANGED <<vars, files, used, ops, retired, listed, lapsed>>

CreationWorked(w, k) ==
  /\ Store(w).job[k].pc = "working"
  /\ Store(w).job[k].op # "remove"
  /\ Update(w, CreateWorkspace(Store(w), k))
  /\ UNCHANGED <<vars, world>>

\* removeWorkspaceInternal after git; nothing to do when the entry is gone.
RemovalWorked(w, k) ==
  LET s == Store(w)
      id == s.job[k].id
  IN  /\ s.job[k].pc = "working"
      /\ s.job[k].op = "remove"
      /\ IF id \in Entries(s)
         THEN /\ Update(w, EnqueueSync(OnWorkspaceRemoved(SetPc(s, {k}, "syncing"), {id}), {k}))
              /\ retired' = retired \cup {id}
         ELSE /\ Update(w, EnqueueOp(SetPc(s, {k}, "unlocking"), "unlock", {k}))
              /\ UNCHANGED retired
      /\ UNCHANGED <<vars, files, used, ops, failures, listed, lapsed>>

\* createWorkspaceFile after its write: watch the file, then sync the refs.  A
\* creation that holds the lock waits for the sync, a root does not.
FileWritten(w, k) ==
  LET s == Store(w)
      job == s.job[k]
      watching == EnsureWatch(s, {job.id})
  IN  /\ job.pc = "writing"
      /\ files' = files \cup {job.id}
      /\ Update(w, IF job.op = "root" THEN EnqueueSync(EndJob(watching, k), {})
                   ELSE EnqueueSync(SetPc(watching, {k}, "syncing"), {k}))
      /\ UNCHANGED <<vars, used, ops, failures, retired, listed, lapsed>>

\* deleteFile returns, or throws and the catch puts the workspace back.
FileDeleted(w, k) ==
  LET s == SetPc(Store(w), {k}, "unlocking")
      id == s.job[k].id
  IN  /\ Store(w).job[k].pc = "deleting"
      /\ \/ /\ files' = files \ {id}
            /\ Update(w, EnqueueOp(s, "unlock", {k}))
            /\ UNCHANGED failures
         \/ /\ Fail
            /\ Update(w, EnqueueOp(PutLoaded(s, id), "unlock", {k}))
            /\ UNCHANGED files
      /\ UNCHANGED <<vars, used, ops, retired, listed, lapsed>>

-----------------------------------------------------------------------------
(* The serial queue and the daemon                                         *)

\* The head of the queue starts.  A sync with nothing new to say settles its
\* waiters at once.
StartCall(w) ==
  LET s == [Store(w) EXCEPT !.queue = Tail(@)]
      next == Head(Store(w).queue)
  IN  /\ Store(w).cur = NoCall
      /\ Store(w).queue # <<>>
      /\ Update(w, IF next.op # "sync" THEN [s EXCEPT !.cur = next]
                   ELSE IF CurrentRefs(s) = s.synced THEN SyncSettled(s, next.slots)
                   ELSE SendRefs(s, next.slots))
      /\ UNCHANGED <<vars, world>>

\* An operation in slot k of window w that has the lock, or its grant on the
\* way, and has not come to giving it back.
HoldsLock(w, k) ==
  /\ win[w].job[k].pc \in {"working", "writing", "syncing", "deleting"}
  /\ win[w].job[k].op # "root"
Granted(w, k) ==
  win[w].cur.op = "lock" /\ task[w] # Idle /\ task[w].ok /\ k \in win[w].cur.slots

\* The operations that lose the lock when the daemon serves window v: it is
\* found expired, or v gives back what another of its operations still needs.
Losing(v) ==
  {o \in Window \X Slot :
     /\ HoldsLock(o[1], o[2]) \/ Granted(o[1], o[2])
     /\ lock.holder = o[1] /\ lock'.holder # o[1]
     /\ lock.expired \/ (o[1] = v /\ win[v].cur.op = "unlock")}

\* The daemon serves the call of window w.
Serve(w) ==
  LET call == Store(w).cur
  IN  /\ \/ call.op = "lock" /\ LockSession(w, w)
         \/ call.op = "unlock" /\ UnlockSession(w, w)
         \/ /\ call.op = "sync"
            /\ UpdateSession(w, w, SenderOf(w), call.expected, call.refs)
      /\ listed' = listed \cup IdsOf(refs')
      /\ lapsed' = lapsed \cup Losing(w)
      /\ UNCHANGED <<win, files, used, ops, failures, retired>>

\* acquireLock settles: the version is adopted, the refs of the reply are not.
LockGranted(s, k, snap) ==
  LET job == s.job[k]
      held == SetPc([s EXCEPT !.ver = snap.version], {k}, "working")
  IN  CASE job.op = "child" -> held
        [] job.op = "adopt" -> CreateWorkspace(held, k)
        [] job.op = "remove" -> PutLoaded(held, job.id)

LockRefusedGoesOn(s, k) == SetPc(s, {k}, "working")   \* mutant: works on without the lock
LockRefused(s, k) ==
  LET job == s.job[k]
      over == EndJob(s, k)
  IN  CASE job.op = "child" -> PutPlaceholder(over, job.id)
        [] job.op = "adopt" -> over
        [] job.op = "remove" -> PutLoaded(over, job.id)

LockSettledUnchecked(s, k, granted, snap) ==   \* mutant: acquired is not read
  LockGranted(s, k, snap)
LockSettled(s, k, granted, snap) ==
  IF granted THEN LockGranted(s, k, snap) ELSE LockRefused(s, k)

TheSlot(call) == CHOOSE k \in call.slots : TRUE

\* The reply reaches the window, and the code after its await runs.
ReplyArrives(w) ==
  LET call == Store(w).cur
      s == [Store(w) EXCEPT !.cur = NoCall]
      snap == task[w].snap
  IN  /\ Reply(w)
      /\ Update(w,
           CASE call.op = "sync" -> SyncSettled(SyncAnswered(s, call, snap), call.slots)
             [] call.op = "lock" -> LockSettled(s, TheSlot(call), task[w].ok, snap)
             [] call.op = "unlock" -> EndJob([s EXCEPT !.ver = snap.version], TheSlot(call)))
      /\ UNCHANGED world

\* The call fails: it never reached the daemon, its handler was dropped before
\* its broadcast, or its reply was lost.
CallFails(w) ==
  LET call == Store(w).cur
      s == [Store(w) EXCEPT !.cur = NoCall]
  IN  /\ call # NoCall
      /\ Fail
      /\ task' = [task EXCEPT ![w] = Idle]
      /\ Update(w,
           CASE call.op = "sync" -> SyncSettled(SyncFailed(s, call), call.slots)
             [] call.op = "lock" -> LockRefused(s, TheSlot(call))
             [] call.op = "unlock" -> EndJob(s, TheSlot(call)))
      /\ UNCHANGED <<session, streams, files, used, ops, retired, listed, lapsed>>

-----------------------------------------------------------------------------
(* Session events and file events                                          *)

\* Whether the lock of an event is gone for the window that reads its clock.
LockSeenGone(snap) ==
  IF snap.since = 0 THEN {TRUE}
  ELSE IF snap.since = lock.since THEN {lock.expired}
  ELSE {FALSE, LockMayExpire}

\* handleExternalUpdate
HandleExternalUpdate(s, snap, gone) ==
  LET fresh == [s EXCEPT !.ver = snap.version]
      retried == IF s.retry /\ gone
                 THEN EnqueueSync([fresh EXCEPT !.retry = FALSE], {}) ELSE fresh
  IN  IF snap.version < s.ver THEN s
      ELSE IF snap.refs = s.synced THEN retried
      ELSE ReconcileRefs([retried EXCEPT !.synced = snap.refs], snap.refs)

DeliverEvent(w) ==
  LET snap == Head(channel[StreamOf(w)])
  IN  /\ Receive(StreamOf(w))
      /\ \E gone \in LockSeenGone(snap) :
           Update(w, HandleExternalUpdate(Store(w), snap, gone))
      /\ UNCHANGED world

\* The file watch delivers a workspace's body, and the workspace is built.
BodyArrives(w, id) ==
  /\ id \in Store(w).arriving
  /\ Update(w, PutLoaded([Store(w) EXCEPT !.arriving = @ \ {id}], id))
  /\ UNCHANGED <<vars, world>>

OpenWindow(w) == SessionWatch(StreamOf(w)) /\ UNCHANGED refVars

\* The steps of the daemon that no window waits for.
DaemonStep ==
  /\ \/ \E t \in Task \cup {Heartbeat} : BroadcastUpdate(t)
     \/ HeartbeatSnapshot
     \/ LockMayExpire /\ LockExpires
  /\ UNCHANGED refVars

RefInit ==
  /\ Init
  /\ win = [w \in Window |-> EmptyStore]
  /\ files = {} /\ used = {} /\ retired = {} /\ listed = {} /\ lapsed = {}
  /\ ops = [w \in Window |-> 0] /\ failures = 0

Operation(w, k) ==
  \/ AddWorkspace(w, k) \/ RemoveWorkspace(w, k)
  \/ WorkFails(w, k) \/ CreationWorked(w, k) \/ RemovalWorked(w, k)
  \/ FileWritten(w, k) \/ FileDeleted(w, k)

WindowStep(w) ==
  \/ \E k \in Slot : Operation(w, k)
  \/ DismissWorkspace(w)
  \/ StartCall(w) \/ Serve(w) \/ ReplyArrives(w) \/ CallFails(w)
  \/ OpenWindow(w) \/ DeliverEvent(w)
  \/ \E id \in Id : BodyArrives(w, id)

RefNext == DaemonStep \/ \E w \in Window : WindowStep(w)

RefSpec == RefInit /\ [][RefNext]_allVars

\* What a window waits for and only happens as often as its users act: every
\* call is served and answered, git commands and file writes end, and bodies
\* are delivered.
Progress(w) ==
  \/ StartCall(w) \/ Serve(w) \/ ReplyArrives(w)
  \/ \E k \in Slot :
       CreationWorked(w, k) \/ RemovalWorked(w, k) \/ FileWritten(w, k) \/ FileDeleted(w, k)
  \/ \E id \in Id : BodyArrives(w, id)

\* The event loop of a window and the tasks of the daemon run whatever is
\* ready, and the heartbeat keeps beating.
RefFairness ==
  /\ WF_allVars(HeartbeatSnapshot /\ UNCHANGED refVars)
  /\ \A t \in Task \cup {Heartbeat} : WF_allVars(BroadcastUpdate(t) /\ UNCHANGED refVars)
  /\ \A w \in Window :
       WF_allVars(OpenWindow(w)) /\ WF_allVars(DeliverEvent(w)) /\ WF_allVars(Progress(w))

RefFairSpec == RefSpec /\ RefFairness

-----------------------------------------------------------------------------
(* Properties                                                              *)

StoreTypeOK(s) ==
  /\ s.ver \in Nat
  /\ s.synced \in RefList \cup {Never}
  /\ s.order \in RefList
  /\ s.loaded \subseteq Entries(s)
  /\ s.known \subseteq Id
  /\ s.unpub \subseteq s.loaded
  /\ s.arriving \subseteq s.watched
  /\ s.attempts \in Nat
  /\ s.retry \in BOOLEAN
  /\ s.cur # NoCall => s.cur.op \in {"lock", "unlock", "sync"}

\* Each window's Map lists a workspace once, and an unpublished workspace is a
\* loaded one, so currentRefs always offers it to the daemon.
RefTypeOK == \A w \in Window : StoreTypeOK(win[w])

\* No window's sync takes a workspace off the session that no user removed:
\* the comment on knownRefs promises that a sync never drops the workspace of
\* another window.  The code does not keep it.  acquireLock adopts the version
\* of the daemon's reply and not its refs, so the next sync of that window is
\* accepted with a list that never had another window's workspace.
NoForeignDrop == [][\A id \in Id : id \in IdsOf(refs) \ IdsOf(refs') => id \in retired']_allVars

\* A workspace the daemon never listed was never removed elsewhere: no event
\* and no rejected sync takes it away from the window that built it.
OwnWorkSurvives ==
  [][\A w \in Window, id \in Id :
       id \in win[w].loaded \ win'[w].loaded => id \in listed \cup retired']_allVars

Resting(w) ==
  /\ win[w].cur = NoCall /\ win[w].queue = <<>>
  /\ \A k \in Slot : win[w].job[k] = NoJob
Unpublished(w) == Resting(w) /\ win[w].unpub # {}

\* While a resting window has an unpublished workspace its ref list differs
\* from the one it counts as synced: the next sync, whatever asks for it, is
\* not skipped as a no-op.  Failed calls, crossing events and coalesced syncs
\* all end here.
UnpublishedIsUnsynced ==
  \A w \in Window : Unpublished(w) => CurrentRefs(win[w]) # win[w].synced

\* Both together: the lists of a window list what it has to publish.
ListsConsistent == RefTypeOK /\ UnpublishedIsUnsynced

\* A rejected sync is not forgotten: unless a call failed or the attempts ran
\* out, a resting window with an unpublished workspace waits for the event that
\* tells it of the lock's release.
RejectionIsRetried ==
  \A w \in Window :
    Unpublished(w) => win[w].retry \/ win[w].attempts >= MaxAttempts \/ failures > 0

\* An operation that was granted the lock still holds it when its refs are
\* synced and until it gives it back.  The code leaves two ways to lose it: the
\* lock runs out under a long git command, and the first of two operations of a
\* window gives back what is the lock of both.  Nothing else takes it away: no
\* other window, and no failed, lost or overtaken call of any window.
LockHeld ==
  \A w \in Window, k \in Slot :
    HoldsLock(w, k) => lock.holder = w \/ <<w, k>> \in lapsed

\* Once the users rest and no call fails, every window settles on the daemon's
\* list: nothing stays unpublished, and nothing removed stays on show.
Converged ==
  \A w \in Window : win[w].unpub = {} /\ IdsOf(CurrentRefs(win[w])) = IdsOf(refs)
WindowsConverge == <>[]Converged
=============================================================================
