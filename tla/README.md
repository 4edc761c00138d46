# TreeTerm: a verification project

TLA+ models of the parts of TreeTerm where several windows, a daemon and other
programs act on the same state, the TLC runs that check them on small
instances, and theorems that TLAPS checks for every instance: about the daemon,
the connections, the windows' membership sync, the settings, the terminals' tabs and several
smaller parts.

TreeTerm shows a forest of workspaces (git worktrees), each with tabs for
terminals, editors and AI harnesses. A Rust daemon on each machine owns
everything that outlives a window: terminals, the session document that lists
the open workspaces, and the workspace files. An Electron main process connects
windows to daemons, locally or through SSH tunnels. Every window runs its own
copy of the session store and reconciles it with the daemon's.

## 1. Inventory

Paths are relative to the repository; `D` is
`daemon-rs/crates/treeterm-daemon/src`, `M` is `src/main`, `R` is `src/renderer`.

| Component | State | Operations | Talks to |
|---|---|---|---|
| Session store, `D/session_store.rs`, handlers in `D/grpc_server.rs` | session document (version, ref list), lock with a time-to-live, watchers | update, lock, unlock, force unlock, watch, broadcast, heartbeat | windows, by unary calls and watch streams |
| File watcher, `D/file_watcher.rs` | per file: last state, subscribers, native watch | subscribe, reconcile, poll, notify, clean up | file system, the write handlers, watch streams |
| Filesystem service, `D/filesystem.rs` | the write lock | compare-and-swap write and delete, read, list, search | reports writes to the file watcher |
| PTY manager, `D/pty_manager.rs` | sessions by id and handle, replay buffers, subscribers, input owner | create, attach, write, resize, focus, kill | `PtyStream` handler |
| Exec manager, `D/exec_manager.rs` | one process per stream | start, feed stdin, signal, time out | `ExecStream` handler |
| Daemon process, `D/main.rs` | pid file, socket, connection ids | start, stop | all handlers |
| Connection manager, `M/connectionManager.ts` | per connection: tunnel, client, status, heartbeat monitor, reconnect loop | connect, drop, reconnect, cancel, disconnect | daemon client, windows |
| Daemon client, `M/grpcClient.ts` | channel, PTY streams with pending writes | unary calls with deadlines, streams | daemon |
| Membership sync, `R/store/createSessionStore.ts` | version, last synced list, known and unpublished ids, serial queue | add, adopt, remove, dismiss, sync, reconcile, lock | session store |
| Content sync, same file and `workspaceAttention.ts` | per workspace: last seen and written bodies, recent hashes, retry flags, attention marks | edit, mark, write, apply event, retry, flush | filesystem service and file watcher |
| Session moves, same file | the workspace tree | move, reorder | both syncs |
| Worktree operations, same file, `R/lib/gitClient.ts`, dialogs | worktrees, branches, workspaces, operations under way | create, adopt, merge, remove | git, the session lock, agents |
| Main process's windows, `M/index.ts` | a window's connection, session and file watches, session clients | connect, move the watches after a reconnect, close | daemon client, windows |
| App store, `R/store/app.ts` | session stores, names, active view | connect, retry, reconnect, rebuild, disconnect | main process, by calls and events |
| Workspace store, terminals, `R/components/BaseTerminal.tsx` | tabs, cached terminals, views | open, close, attach, detach, restore tabs | PTY streams, bodies of other windows |
| Settings, `M/settings.ts`, `R/store/settings.ts`, the dialog | the file, each window's copy, the draft | load, migrate, edit, save | main process |
| Git controller, analyzer, worktree registry | schedulers and timers in one window | refresh, classify, register | exec streams, files |
| Messages, `src/generated/treeterm.ts` | none | encode, decode | all calls to the daemon |
| Attention coordinator, navigation, key bindings, views | local | presentation | none |

### What is hard

* *Two critical sections per handler.* A session handler changes the store,
  releases its mutex, and takes it again to broadcast; anything may run between,
  and the handler's future may be dropped there.
* *Everything crosses.* A reply, the session event of the same change and the
  file event of a write travel independently; each window must be right for any
  order of them.
* *Calls of unknown fate.* A unary call that fails may have been executed.
* *Channels that drop.* Watch channels hold 64 events and drop the next one.
* *Locks that end by themselves.* The session lock expires under a working
  holder; the write lock is released by a cancelled handler whose rename runs on.
* *Files that others write.* Git, editors and other daemons change watched files
  and the polling and event mechanisms see it late, twice or not at all.
* *Rebuilds.* After a reconnect the window's store is replaced; what was not
  written by then is gone.
* *Several channels to one reader.* A terminal's output, exit and resizes come on
  three channels and the handler subscribes to them one after the other; a
  command's output and result come from three tasks over one channel.
* *Attempts that outlive their reason.* A reconnect is under way across many
  awaits while the user cancels, disconnects or asks for another; a classification
  is awaited while the screen, the settings and the analyzer itself change.

### What correctness means, by component

* Session store: versions identify ref lists, whatever is still in flight; the
  lock keeps others from writing; no connected watcher is lost; every connected
  watcher is told the present state again.
* Filesystem service: a guarded write replaces what it was compared with.
* File watcher: no subscriber falls out of step with the state that changes are
  compared with; a quiet file is shown as it is; reads cause no events.
* Membership sync: no window drops another's workspace; no window loses a
  workspace of its own; what is unpublished is published in the end.
* Content sync: when all is quiet, every window shows the file or has told its
  user of an error; echoes never replace newer work; a rebuild loses nothing.
* PTY manager: a live terminal is found by its handle; every attachment sees the
  same output from its beginning and without a gap, ended by one exit or overflow;
  sizes are seen in order; only the owner's input counts; a killed program ends.
* Exec manager: an exit code comes last and after all output the readers could read and
  send; a command whose time is over is answered.
* Connection manager: a user's decision is never undone by an attempt in flight; no
  ssh process is left behind; the reconnect loop does not stall; a connection that
  was dropped and not given up comes back; no command waits for a dead client.
* Tree: moves keep the workspaces a forest with distinct places.
* Git controller: who asks is answered by a run that began after the question.
* Worktree registry: a change touches the one entry it is about.
* Analyzer: a tab at rest shows what was made of the screen it rests on.
* App store: the window's sessions are those of the main process's connections, in the
  same state and of the same version, and the view names one that exists.
* Main process: the watches of a connected connection are on its present client, the
  window was told of the newest, and only an open window's connection is kept.
* Terminals: an engine with its stream belongs to one view or to the tab's cache, a
  closed tab's program does not run on, an open one has its terminal and tells its end.
* Settings: a saved change stays until its section is changed again.
* Worktree operations: what a merge-and-remove checked is not lost until somebody gives
  it up, and an open workspace has a worktree of its own.
* Messages: what both sides know arrives as it was sent, whatever else one of them sends.

## 2. The modules

```
SessionRegister          abstract: a versioned register with a lock
   ^ implemented by
SessionStore  <- EXTENDS -  RefSync           daemon + the windows' membership sync

FileWatcher   - - facts - -> ContentSync      what the former establishes, the latter assumes
                        \ -> WorktreeRegistry

PtyLog                   abstract: a log that readers see a prefix of
   ^ implemented by
PtySession               one terminal          PtyHandles    the map of terminals
                                               TabTerminal   a tab and its view of one

Connection               the connections to one remote host
MainProcess              a window's connection to the local daemon, its watches
AppSessions              the sessions of a window over both
ExecStream   GitRefresh   WorkspaceTree   Worktrees   Analyzer   Settings   Wire
```

`<Module>_proofs` holds the theorems of SessionStore, RefSync, FileWatcher, PtySession,
Connection and Worktrees. `Parts_proofs` has the theorems of PtyHandles,
ExecStream, WorktreeRegistry, WorkspaceTree and Analyzer, `App_proofs` those of MainProcess,
TabTerminal, Settings and AppSessions; `AppTrees` is the instance of Worktrees that `MCApp` and its proofs share. `MC<Module>` instantiates a module for TLC. Three of them put components that share no state side by side: a variable `part` says which
of them a behaviour is of, and the others stand still in their initial state.
`MCParts` has PtyHandles, ExecStream, GitRefresh, WorktreeRegistry, WorkspaceTree and
Analyzer; `MCApp` has AppSessions, Settings, TabTerminal, MainProcess and
Worktrees; `MCDaemonLive` has FileWatcher and PtySession under fairness, and Wire.

### SessionStore

Code: `session_store.rs` and the session handlers of `grpc_server.rs`. Every
method takes the store's mutex once, so a method is one action. A handler is a
`task`: idle, about to broadcast a snapshot, or about to reply. `UpdateSession`,
`LockSession`, `UnlockSession` and `ForceUnlockSession` are the first critical
section, `BroadcastUpdate` the second, `Reply` the answer, and `CancelCall` drops
the handler where it waits for the mutex. `HeartbeatSnapshot` and
`BroadcastUpdate(Heartbeat)` are `start_heartbeat`. A watch stream is a channel
of `Cap` snapshots with an entry in `watchers` and, while its client lives, in
`connected`; only a broadcast that meets a dead one removes it.

The clock is one action, `LockExpires`; an expired lock stays until a method
that looks at the expiry clears it (`LiveLock`), and `unlock_session` does not
look. `acquired_at` is replaced by the version at which the lock was taken
(`since`), which tells locks apart. `Nobody` as sender is the heartbeat's empty
id and the id of a remote window, whose watch runs under another id.

### SessionRegister

The abstract specification: a ref list and a version that grows with each write,
a lock held by at most one connection, and stale writes only for the holder.
Handlers, streams, channels and the lazy clearing of an expired lock are not in
it. `RegisterRefinement` maps the holder of an expired lock to nobody.

### RefSync

Code: the ref sync of `createSessionStore.ts`, and it EXTENDS `SessionStore`, so
the windows talk to the real daemon and not to its abstraction. A window is one
record of its store (`win[w]`); an action is what its event loop runs between
two awaits. Its calls go through the serial queue (`chain`), one in flight:
`StartCall` sends it, `Serve` is the daemon executing it, `ReplyArrives` the
continuation, `CallFails` a rejection, which may come after the daemon executed
the call. `DeliverEvent` and `BodyArrives` interleave with everything: a session
event is handled at once even while a sync is in flight, as in the code.
User operations (`AddWorkspace` with its kinds, `RemoveWorkspace`,
`DismissWorkspace`) are jobs that take the lock, run git, write or delete the
file, sync, and release the lock.

Left out: the removal of a subtree and `autoOpenWorktrees`, which repeat a
modelled step under one lock (their git side is in Worktrees); `forceUnlock`; disconnecting and disposing a
window; two windows generating one id (they are random).

### FileWatcher

Code: `file_watcher.rs`, the guarded writes of `filesystem.rs`, and the handlers
that report them, for one file. `mutex` says who holds the watcher's mutex and
what it has read, because reconciling and subscribing read the file while they
hold it and the file changes without it. The three mechanisms are `OsEvent`
(native events, for any program's change), `PollRead` with `PollCleanUp` (the
polling pass, in two critical sections) and `Notify` (the handlers' own reports).
A writing handler is `BeginWrite` (compare under the write lock), `Commit` or
`CommitFails` (the rename), `Notify`; `CancelHandler` drops it at a stage listed
in `Cancellable`, and a rename whose handler was dropped is an orphan that the
thread pool still runs. The history variable `disturbed` says that such a rename or another
program changed the file while a handler held the write lock, between its comparison and its
rename: the two ways past that lock. A content is its bytes and their hash alike. Contents in
`Unreadable` fail to be read, those in `Oversized` end poll-backed watches.

### ContentSync

Code: the content sync of `createSessionStore.ts`, `workspaceAttention.ts` and
`handleReconnected` of `app.ts`, for one workspace's file. A body is a value (the
edits in effect and the attention marks) with its parent's body; since a body
contains its parent's hash, bodies are equal when their hashes are.
`writeWorkspaceContent` is `RunWrite` and `Reply` with every answer: written,
conflict with and without the winner known, and error. The await of the body's
hash is merged with the sending: body and guard are fixed before it, and no event
of that body can come until the write is sent.
`Present`, `FileMissing`, `WatchError` and `WatchTimer` are the watch;
`Drop`, `Reconnect`, `Flush` and `Rebuild` the life of a connection as this store
sees it. The daemon is the one FileWatcher establishes: guarded writes are
atomic, and a subscriber is sent the states changes are compared with, in order.
A write may be reported after a later one, and an event may overtake the answer to
a write. Two such orders mislead a window, and the history variable `misled` keeps
which: an event that overtook the answer to the window's write (`"answer"`, until
the window's next event), and the report of a body that is no longer the file
(`"report"`, until the store is rebuilt). `KeepsUp` excuses these windows and no
others.

Left out: bodies that do not parse, changes by other programs, removal of the
workspace while it syncs, several workspaces in one flush. When a connection
drops, a write the daemon has not yet executed is lost; the end of a stream
reaches the window after the change of status.

### PtySession and PtyLog

Code: the session part of `pty_manager.rs` and the `PtyStream` handler of
`grpc_server.rs`, for one terminal. `ReadMaster`, `Publish` and `ReaderEnds` are
the reader thread and the publisher: a chunk goes to the replay buffer, evicting the
oldest (`Evict`, with the resize marks that lie in it), and to each subscriber's
queue, dropping those that are full. An attachment has an output task, whose `stage`
is where its handler stands (`SendReplay`, `CheckExit`, `SubscribeExit`,
`SubscribeResize`, then the `Forward` actions of its select loop), and an input task
(`Focus`, `BeginWrite` and `FinishWrite`, `Resize`, `EndInput`). `write_from` is two
actions because the owner is checked under the session's mutex and the bytes are
written without it. `ChildDies` and `Reap` are the program and the task that
waits for it; `Kill` is what `kill_session` does to the session.

`PtyLog` is the abstract specification: `Output` appends to a log, `Read` moves a
reader on by one chunk, `End` ends it for good. `KeepsPromise` maps what was
published to the log and what an attachment was sent to its reader.

Abstractions: the broadcast of sizes has room for one, the newest, instead of
16; a lookup in the session map and the session's mutex are one step; left out are
the start-up command typed into a new shell, `shutdown()` and `list_sessions`.

### PtyHandles

Code: `create_session` and `kill_session` of `pty_manager.rs` as operations on the
two maps. A creation holds no lock across its steps: `LookUpHandle`,
`FetchSession`, `CheckExitCode`, `Fork` or `ForkFails`, `InsertSession`, `ClaimHandle`.
`Kill`, `Terminate` and `Fallback` are the removal, the signal with the release of
the handle, and the task that waits five seconds for the exit.

### Connection

Code: the remote part of `connectionManager.ts`, `SSHTunnel` of `ssh.ts`,
`execStreamRegistry.ts` and the handler that starts a command. An object is a
`ManagedConnection`; `entry` is the one the manager's map holds. A job is a first
connect or a reconnect attempt under way; `Bootstrapped`, `SocketAppears`,
`ConnectDone`, `AttemptDone`, `ConnectFails` and `AttemptFails` are its awaits. The
user's calls are `ConnectRemote`, `Disconnect`, `Reconnect`, `ReconnectNow` and
`CancelReconnect`; `TimerFires`, `TunnelCloses` and `DropNoticed` are the timer, the
tunnel's close handler and the heartbeat with the channel's state. All tunnels of
a host share a socket path, so a client may go through a tunnel other than the one
made for it (`via`). Objects and tunnels that nothing refers to are used again.

Left out: local connections and the re-establishing of watches (MainProcess), port
forwards, the restart of a daemon with another hash, `disconnectAll`, and the spawn error of ssh. The
close event of a process that was killed is taken to be immediate. `Reconnect` is taken only
from a connection that is connected or has failed, as its buttons do (`SessionPanel.tsx:552`,
`SessionInfoPane.tsx:271`); `forceReconnect` itself refuses only one that is reconnecting. A press
that reaches the manager when the connection has meanwhile been cancelled and connects anew is
thereby left out, and `StatusIsTrue` does not hold of it: the attempt overtakes the connect,
whose tunnel nobody then keeps.

### ExecStream, GitRefresh, WorktreeRegistry

`ExecStream` (`exec_manager.rs`) is one call: the handler (`Spawn` or `SpawnFails`, `Wait` or
`WaitFails`, `Drained`, `SendResult`, `SendError`), a reader task for each pipe (`ReadPipe`,
`SendOutput`, `SendFails`, `ReaderEnds` at the end of file, `ReaderFails` on a read error), the
timeout task (`TimeIsOver`, `GraceIsOver`), the programs, and the client. After a wait error
the handler is gone, while the readers and the timeout task run on. A background program may hold a pipe beyond the
child's end. `GitRefresh` (`createGitControllerStore.ts`) is the scheduling of
refreshes: `RefreshGit` queues its caller, `StartRun` takes all that wait, `RunEnds`
answers them, the timer keeps runs `COOLDOWN_MS` apart, `Dispose` forgets.
`WorktreeRegistry` (`worktreeRegistry.ts`) is the read-modify-write of one JSON file
by several windows: `ReadRegistryFile`, `WriteFile` with `Conflict`, `CallFails`.

### WorkspaceTree

Code: `moveWorkspace`, `reorderWorkspace`, `nextSortOrder` and `reindexSiblings` of
`createSessionStore.ts` as operators over a tree, a function from workspaces to
parent and `sortOrder`. `MoveWorkspace` applies them in one window, `WriteBody` and
`BodyArrives` are what ContentSync says of each file: written if nobody else wrote
it, otherwise replaced by the other's. A walk up a tree with a cycle does not
end: the window is `hung`. Parents have smaller ids at the beginning, which leaves
out no shape of the forest.

### Analyzer

Code: `createAnalyzerStore.ts` with `idleDetector.ts`, for one tab. A snapshot is the
settings' identity and the screen. `ProcessSnapshot` and `IdleTimer` are the
detector, `Analyze` the synchronous part of `analyze()`, `Answered` and `Rejected` its
continuations, which may come in a later start cycle or under other settings. The
state shown carries the snapshot it is about, so that a stale one can be told.
`excused` is a history variable: it marks the ways the code leaves open to
show something else (section 6).

### AppSessions

Code: the sessions of `store/app.ts`, `ConnectionPicker.tsx`, `SessionInfoPane.tsx` and
`SessionPanel.tsx`, and the handlers of `index.ts` that answer them. Calls reach the main
process at once, answers and events come back in one queue (`inbox`), and the window takes
them one by one: `LocalAnswer`, `StatusArrives`, `SyncArrives`, `AddRemoteSession`,
`SetSessionError`, `HandleReconnected` with its rest `Rebuild` after the await. The user's
actions are `Connect`, `Retry`, `Reconnect`, `Stop`, `DisconnectSession`, `Rename`. A store is
found by its connection, first one first (`Of`, `First`), as `findSessionByConnectionId` does.
`crossed` is a history variable: it marks a connection of which an answer or event overtook
another, or never came.

### MainProcess

Code: what `index.ts` keeps for a window's local connections over `connectionManager.ts` and
`grpcClient.ts`. `LocalConnect`, `LocalConnected`, `InitialSession`, `LocalConnectAnswers` and
`LocalConnectFails` are the handler at its awaits; `DropNoticed`, `ReconnectLocal`,
`Reconnected` and `ReconnectFails` the reconnect; a reconnect moves each session watch to the
new client, and `MoveInitial`, `MoveDone` and `MoveFails` are the continuation of one that
makes a session client and tells the window. `ReestablishFileWatches` is part of `Reconnected`.
`CloseWindow` is the window's `closed` event. Every client made has the next number.

### TabTerminal

Code: `createWorkspaceStore.ts`, `BaseTerminal.tsx` and the applications' `renderer.ts`, for one
tab. `creation` is a promise of `deps.createTty`, `init` an effect of the view at its awaits
(`EngineCreated`, `Attached`, `AttachFails`), `ref` the tab's `AppRef` with its cached terminal.
`Mount`, `Unmount`, `SettingsChange`, `RefreshStream` and `CloseTab` are the user's;
`DroppedElsewhere`, `RestoredElsewhere` and `StaleBody` are bodies that other windows wrote.

### Settings

Code: `main/settings.ts`, `store/settings.ts` and `SettingsDialog.tsx`. The settings are
sections whose value is the number of the change that made it; sections that behave alike
stand for one another. A save writes all sections of the window's copy or draft
(`SaveDialog`, `UpdateSetting`, `ToggleSound`, then `HandleSave` in the main process and `Reply`);
`MainChangesSaved` is what the main process adds by itself, `HandEdit` an editor on the file, and
`Loaded` with `MigrateKeybindings` what a load makes of it. `held` marks the sections that
were changed while somebody held an older copy of them.

### Worktrees

Code: creating, adopting, merging and removing in `createSessionStore.ts` over `gitClient.ts`,
called from the dialogs. Each git command is an action; `op` is an operation with the call
frames of `removeWorkspaceInternal` (`Enter`, `ReadHead`, `RemoveTree`, `DeleteBranch`, `Drop`,
`DeleteFile`), and `CheckParent`, `CheckParentStatus`, `CheckOwn`, `CommitAll`, `MergeBranch` are
the merge. An agent edits,
commits, switches branches and resolves conflicts meanwhile. Work is a set of changes, kept by
a branch or a worktree; `owed` is what a merge-and-remove saw, `waived` what somebody gave up,
`doubtful` the worktrees in which operations met, and `sure` the merge-and-removes whose worktree
and branch nobody switched, renamed or made anew since they were checked. An entry's `branch`
stands for its `gitRootPath` too, for which `closeAndCleanWorkspace` and others ask: `updateGitInfo`
sets and unsets both, and a detached HEAD, which has only the latter, is left out, as is that
a child is made with its parent's `gitRootPath` before its own branch is read.

### Wire

Code: `generated/treeterm.ts`. A schema is a function from fields to number, type and rule;
`Encode` writes the tokens of a message, and `ReadScalar`, `ReadMessage`, `Skip` and `Return` are
one step of `decode()` each, with `frames` for its recursion. The sides have the same schema or
differ in one field at any depth: one is missing, new, or of another type. The daemon decodes with
code of its own (prost), which is left out: it refuses a known field of another wire type,
which this code skips, and has no unsafe integers.

## 3. The runs

All runs pass but `refsync_foreign_drop`, which shows a disagreement of the code with its
comment. Their bounds are the constants of the cfg files.

| Run | Instance | What it shows |
|---|---|---|
| `session_store` | 2 connections, 2 handlers, 1 listener opened once, channel of 1, 2 changes | Snapshots in flight agree and no connected watcher is dropped (`WatchersAgree`), the heartbeat brings the current session to who stays connected (`WatchersConverge`), the store implements the register (`RegisterRefinement`). |
| `refsync_foreign_drop` | 2 windows, a root or an adopted worktree each, no failures | Violated: a sync drops the workspace the other window has just published (`NoForeignDrop`), after `acquireLock` adopted the version of the lock's reply without its refs. |
| `refsync_locked` | 2 windows, 2 operations at once in each, the first free slot first, roots and adoptions, locks that do not expire | An operation loses its lock to nothing but a release by its own window (`LockHeld`), a refused sync is retried after the release (`RejectionIsRetried`), no window loses what it built (`OwnWorkSurvives`). |
| `refsync_alone` | 1 window, 2 operations of any kind at once, 2 failures, lock may expire | On all paths of all operations the lists keep their relations, and a workspace that waits to be published is never mistaken for a synced one (`ListsConsistent`); no failed or lost call lets an operation go on without the lock (`LockHeld`). |
| `refsync_live` | 2 windows, a root each, no failures | Both are published and both windows show the same list (`WindowsConverge`). |
| `filewatcher_safety` | 2 streams, 2 handlers, another program, 2 contents, one unreadable, cancelled renames | No stream falls out of step with the state changes are compared with, none is forgotten (`StreamsFollow`); a guarded write replaces what it was compared with, unless the write lock was bypassed in between (`CasIsAtomic`). |
| `daemon_live` | file: 1 stream, 2 handlers, an oversized content, with and without native watch; terminal: 1 reading attachment, 2 chunks; messages: every message of the service, one difference | Streams show the final content (`StreamsConverge`), reads do not cause events for ever (`EventsQuiet`); the end of a program ends its streams (`ExitEndsStreams`); messages arrive as they were sent (`WireAgrees`). |
| `content` | 2 windows, answers and reports in any order; 2 edits and 1 fault, or three of: 1 edit, an attention mark, its acknowledgement, 1 fault | No edit or mark stays in a window in silence unless messages out of order have misled it (`WindowsKeepUp`), an echo never replaces newer work (`EchoNotApplied`). |
| `pty` | 2 attachments, buffer and queues of 1, 2 chunks, 2 messages | Streams have no gap and an overflow comes last (`StreamsIntact`), `SizeInStep`, `OnlyOvertakenWrites`, and the refinement `KeepsPromise`. |
| `connection` | 3 objects, 5 tunnels, 2 failures, 4 requests | A connected entry has its client and tunnel, a given-up one is quiet, no tunnel is left behind (`StatusIsTrue`); the loop lives and no command waits for a dead client (`NothingStalls`); `Recovers`. |
| `parts` | handles: 2 callers, 1 handle, 3 sessions, 2 kills; exec: 2 pipes, queue of 1, 2 writes; git: 3 calls, 1 disposal; registry: 2 windows, 2 paths, 2 attempts, 3 operations; tree: 2 windows, 3 workspaces, 2 moves; tab: 2 screens, 3 outputs, 2 starts, 1 change of settings, 1 failure | `LiveIsFound`, `KilledEnds`, `ResultIsComplete`, `TimedOutEnds`, `AskedIsAnswered`, `OnlyItsEntry`, `MovesKeepForest`, `RestIsClassified`. |
| `app` | sessions: the local one or a remote beside it, 3 stores, 2 calls, 1 change, 1 fault; settings: 1 window, 2 changes, 1 fault; tab: 2 creations, 2 effects, 1 body, 1 fault; main process: 2 connections, 5 clients, 1 file watch, 2 faults; worktrees: 3 of them, one operation with a fault or two without | `SessionsFollow`, `SettingsKept`, `TabKept`, `MainFollows`, `WorktreesKept`. |

### Why the bounds are enough

The hazards are races of two actors over one piece of state, so two of each kind
make them happen: two handlers between whose critical sections the other runs,
two windows, two attachments of which one lags, two callers creating one handle,
two operations over one worktree, two inits of one tab's view.
Channels hold one or two messages so that they fill up; the replay buffer holds one
chunk so that the second evicts. A third session or object appears where a
replaced one and its replacement meet a newcomer, and five tunnels or clients allow those
of an old attempt, of a new one and the escaped ones to exist side by side.

Thresholds of the code are scaled down to keep their effect: `MAX_REF_SYNC_ATTEMPTS`
(5) to 2 or 3, `MAX_CONFLICT_STREAK` (5) to 3, `RECENT_HASHES_MAX` (32) to 4,
`MAX_WATCH_RETRIES` (3) to 1, the channels of 64 and 256 messages to 1 or 2,
`MAX_CAS_RETRIES` to 2. Each is still reached in some behaviour.

What the bounds leave out: `LockHeld` is checked with two windows or with locks that expire,
not with both (the theorem covers that); `refsync_live` has no removals. The safety
properties of `Connection` were also explored with 3 objects, 4 tunnels, 3 failures and 5
requests (8.1 million states).

Symmetry is used only where no liveness property is checked, and only over sets
whose members the module does not tell apart; `FirstFree` does the same for the slots of
operations in `refsync_locked`. Deadlock is not checked because
every bounded system may come to rest: edits, messages and operations run out.
The type invariants of SessionStore, FileWatcher, PtySession, PtyHandles and
Connection are proved instead of run.

## 4. Fairness

Only steps of running tasks are fair, never those of users, other programs,
networks or failures.

* *SessionStore, RefSync*: the heartbeat's timer fires and its broadcast proceeds,
  handlers proceed, streams are delivered while their client lives; a window's
  event loop runs what is ready, and calls in flight end (all have deadlines).
* *FileWatcher*: the rename runs on the thread pool, the holder of the mutex
  proceeds, subscribers read. The polling pass, native events and the handlers' reports
  are strongly fair: they want the mutex, which others may hold again and again, and
  tokio's mutex is first come, first served.
* *PtySession*: the publisher and the reaper run, and so does every output and input
  task once its message or queue is there. The select loop of an attachment is fair
  for each of its branches, since tokio picks among the ready ones at random. Nothing
  makes the program print or end.
* *PtyHandles*: a creation that has forked ends, the reaper waits for its child, a kill
  terminates, and its fallback fires after five seconds (SIGKILL cannot be ignored).
* *Connection*: the backoff timer fires, a broken channel is noticed by the heartbeat,
  jobs proceed (the socket is awaited for 15 seconds and the client for 5; that the
  ssh command of the bootstrap ends is assumed), ssh binds or closes. Some
  job proceeds, not each: the jobs of a host are few and finite.
* *ExecStream*: the waiting, draining and sending steps, the timeout with its grace
  period, the readers, and a client that reads what it is sent while it stays.
* *GitRefresh*: a run ends, because each of its steps is in a `try`; the cooldown
  passes and the timer fires.

RefSync's windows have one combined fairness condition, `Progress`; ContentSync,
WorkspaceTree, WorktreeRegistry, Analyzer and the parts of `MCApp` are checked for safety
only: their "in the end" properties are stated about states at rest.

## 5. What is proved

TLAPS checks these theorems for every value of the constants. The modules name their
assumptions (`ConstAssumption`, `RefSyncAssumption`, `WatcherAssumption`, `PtyAssumption`,
`HandlesAssumption`, `ConnectionAssumption`, `PartsAssumption`, `AppAssumption`, `TreesAssumption`): special values differ from
ordinary ones, bounds are natural numbers, ids and the operations a window runs at a time
are finite sets, and the channels of sessions and file events have room for a message. No
theorem assumes more than its module's specification.

| Module | Theorem | Property |
|---|---|---|
| SessionStore | `TypeCorrect` | types |
| | `SnapshotAgreement`, `WatcherRegistration`, `WatchersStayInAgreement` | `WatchersAgree` |
| | `ImplementsRegister` | `RegisterRefinement` |
| RefSync | `LockIsHeld` | `LockHeld` |
| | `ListsStayInOrder` | the inductive invariant |
| | `ListsStayConsistent` | `ListsConsistent` |
| | `RejectionsAreRetried` | `RejectionIsRetried` |
| | `OwnWorkAlwaysSurvives` | `OwnWorkSurvives` |
| | `WindowsKeepTheSession` | `WatchersAgree`, `RegisterRefinement`, of RefSync |
| FileWatcher | `TypeCorrect` | types |
| | `StreamsStayInStep` | `StreamsFollow` |
| | `GuardedWritesAreAtomic` | `CasIsAtomic` |
| PtySession | `TypeCorrect` | types |
| | `FocusIsHeld` | `OwnerAttached` (only proved) |
| | `WritesAreGated` | `OnlyOvertakenWrites` |
| | `ExitNotLost` | `ExitInHand` (only proved) |
| | `SizesAgree` | `SizeInStep` |
| | `StreamsHaveNoGap`, `OverflowIsLast`, `StreamsStayIntact` | `StreamsIntact` |
| | `TerminalKeepsPromise` | `KeepsPromise` |
| PtyHandles | `TypeCorrect` | types |
| | `LiveTerminalIsFound` | `LiveIsFound` |
| Connection | `TypeCorrect` | types |
| | `NothingEverStalls` | `NothingStalls` |
| | `GoneStaysQuiet`, `NoTunnelLeftBehind`, `ConnectedKeepsItsClient`, `StatusStaysTrue` | `StatusIsTrue` |
| Parts | `ResultIsAlwaysComplete` | `ResultIsComplete` |
| | `WritesAreMutations` | the registry's inductive invariant |
| | `UpdatesTouchOneEntry` | `OnlyItsEntry` |
| | `RestIsAlwaysClassified` | `RestIsClassified` |
| | `MovesAlwaysKeepForest` | `MovesKeepForest` |
| App | `MainAlwaysFollows` | `MainFollows` |
| | `SessionsAlwaysFollow` | `SessionsFollow` |
| | `TabsAreAlwaysKept` | `TabKept` |
| | `SettingsAlwaysKept` | `SettingsKept` |
| Worktrees | `WorktreesAlwaysKept` | `WorktreesKept` |

### The arguments

*SessionStore.* `SnapshotsAgree` is inductive together with the types: a method
that changes the list also raises the version, so a snapshot of the new version
cannot be in flight already. For the refinement the mapping reads the holder of
an expired lock as nobody; each method maps to `Commit`, `Acquire` or `GiveUp`,
`LockExpires` to `Lapse`, and everything else (broadcasts, streams, the clearing
of an expired lock) to a stutter. The lemmas are about `AnyNext`, in which a list may be
any list, so that RefSync can cite them: every step of a window is one of `AnyNext` or
leaves the daemon alone, and `WindowsKeepTheSession` composes the two.

*RefSync: the lock.* An operation awaits at most one call, and which one is known from where it
stands (`Awaited`, `Pcs`). So a window whose operation stands between acquiring and
releasing has no release on its way, and the calls of others are refused while it
holds the lock. This is proved for any number of operations and for locks that expire. The code
leaves two ways to lose the lock: the daemon does not count the locks of a window, so the first
of its operations to end releases the lock of the others, and it lets a lock expire. `lapsed`
records the operations that lost it in one of these ways, at the step in which they did
(`Losing`), from the moment the lock was granted, which may be before its answer is read
(`Granted`); the theorem is about all the others, in every window.

*RefSync: the windows' lists.* `ListInv` says for each window, for any number of operations
under way, failed calls, dropped events and locks that expire: an id is new until its
creation ends (`Built`), and a window's lists, the answers on their way and the daemon's own list
hold nothing else; what the daemon ever listed or a user removed (`Gone`) is not unpublished
anywhere; the list that counts as synced offers an unpublished workspace only while the
sync that offers it is in flight (`Unsynced`); and whenever something is unpublished, a
sync is queued or in flight, a file is being written, an event is awaited, a call has
failed, or the attempts are used up (`Retried`). It is needed because the two facts at rest
are made by what happened before: `lastSyncedRefsJson` is set optimistically when a sync is
sent and taken back when it fails, and in between events overwrite it. None of these
theorems excuses or assumes anything about the lock. `attempts` has no bound in the invariant: after
giving up, a rejected sync counts on (`createSessionStore.ts:882`).

*FileWatcher.* `StreamInv` strengthens `SubscribersInStep` by what a subscription in
progress has read. `CasIsAtomic` rests on `GuardHolds`: between the comparison and
the rename nothing changes the file but who does not hold the write lock, and then the write is
`disturbed`. Neither other programs nor cancelled calls are assumed away: the lock keeps
out every handler whose call lives, and those two are what it cannot keep out (section 6).

*PtySession.* Six invariants. `Typed` adds to the types how many chunks, messages and
readers there can be. `Gate`: the owner can still write, and a write under way
against the owner was overtaken by a focus. `ExitKnown`: a task that subscribed to
the exit before it has it, and one that will be too late belongs to a killed session.
`SizeKnown`: what an attachment believes, after what is queued for it, is the size.
`BufferIsLog`: the replay buffer is the end of what was published. `Streams`: for
each attachment, what it saw, what is left of its replay and what is queued are
together the log from its beginning, all of it or up to where its queue overflowed. From
this `KeepsPromise` is one step or a stutter for every action.

*PtyHandles.* `Found` says that one call at most creates for a handle that was
never raced (`Alone`), that a live session claimed for that handle while the call is
under way is the one the call looked up or forked (`OnlyIts`), and that the table
names it (`LiveIsFound`). A creation is why the first two are needed: it overwrites
the handle, which is safe only if no live session had it.

*Connection.* `Loop` holds that a set in-flight mark has a job (`InFlightHasJob`).
`Jobs` describes what a job may hold at each of its stages (`JobOK`) and that no
two jobs share an object or a tunnel (`JobsApart`): the tunnel of a job that was
overtaken is gone or `evaded`, and no object's client goes through the tunnel of a
job that is not done. A connected entry then got its client and its wired tunnel
from one job in one step.

*ExecStream.* While the client reads, the stream (what it got and what is queued) ends a pipe's
output where its reader stands (`AllIsSent`), a reader that is done has emptied its pipe,
and the handler sends the result only when all readers are done (`ReadersFirst`), so nothing comes
after it (`ResultLast`). On the paths of errors the handler sends no result at all, and only
an error is followed by what the readers still send.

*WorktreeRegistry.* What an operation is about to write is the mutation of the very
list its write is guarded by (`Guarded`), so a successful write changes one entry.

*Analyzer.* `TabInv` follows the last screen through detector, request and state shown:
unless excused, an idle detector whose answer is not on its way has its screen, under the
settings in force, shown.

*WorkspaceTree.* A tree is a forest when no set of workspaces is closed under taking the parent
(`Circular`), which needs no induction over paths: `checkAncestor` ends below a workspace exactly
if that one is outside the set its walk visits (`Upwards`), and a move whose target is outside
closes no set. Distinct places follow from `reindexSiblings`, which numbers the siblings by
rank. It holds as long as one window moves at a time (`~crossed`).

*MainProcess.* `MainInv`: a connection goes from none to connected, back and forth to
reconnecting, and to gone for good, and its client and watch go with that
(`StagesOfConn`). Unless one was overtaken, one local connect at most dials, and none beside
a home (`OneDials`); unless two raced, one call or continuation at most may still tell the
window of a connection, none while it reconnects, and what it tells is of the newest watch
(`OneSpeaks`). So what the window was told is the newest or is being told (`ToldOfNewest`), and
a connection that is kept is the home of an open window or of a connect (`OnlyHomeIsKept`).

*AppSessions.* `SessionsInv` reads the session of a connection together with what is on its way to
the window. Of each connection that did not cross (`ConnOK`): it has one session (`OneStore`), or
none and is given up, with nothing on its way but status events (`Gone`), and a "Disconnected" comes only
after that (`Parted`); the last of its events says what the main process has (`LastSays`), and when there
is none its session knows already, or a connect that loads will tell it (`StatusOK`); and its newest
version is in its session, in an event or answer, in a rebuild that awaits, or in a load or a
moved watch that will send it (`Newest`). That is more than the property at rest says, and
needed because events are taken one at a time and a rebuild replaces a store after an await.
The keys of stores are used once (`StoresOK`). The theorem assumes only that `Home` is one of the
connections and that the bounds are natural numbers.

*TabTerminal.* `TabInv`: an engine with its stream is the mounted view's or the cached one of an
open tab, and that of a cancelled effect goes (`OwnedStreams`); only the newest program may be
alive, and no tab names one that never was (`KnownPrograms`); unless one strayed, a live program
is the one of the handle's promise, which the open tab knows or will know, and a promise that
is left behind kills its own (`NoneForgotten`); a tab without a PTY waits for its promise
(`PtyComes`). The creation of a PTY is why the last two are needed: the tab, its `AppRef` and
the handle's promise learn of it at different times.

*Settings.* `SettingsInv` says of each section that nobody held an old copy of (`held`) how
the file, the window's copy, its calls under way and the dialog's draft hang together. A call
writes its own changes and otherwise what the copy holds and the calls before it write
(`WritesCopy`); what was not edited in the draft is as in the copy (`Unedited`); and while no
other window is there, the file holds what the last call wrote, or what the copy holds
(`InFile`, `LoadsFile`). So a save, which writes all sections, changes in the file only its
own. With a second window nothing of this is known but for the profiles, which only the dialog changes.

*Worktrees.* `PlacesInv` says where everything is: a workspace keeps its path and its parent
for good, workspaces are made in the order of their keys (so the frames of a removal, which go from
a workspace to its descendants, come to an end), and an operation counts the worktrees it is about
among its own. So what it read of them before an await is still so, or another operation met it
there (`doubtful`); and the worktree of an open workspace is there, unless a removal is past
`git worktree remove` and about to drop it. `WorkInv` says where the work is: owed work is in files
git tracks or on a branch that no merge-and-remove is about to delete (`Kept`), and a
merge-and-remove that still works as it found things (`Own`) has its branch checked out nowhere
else, and nothing owed in files that are not committed. Both are needed because a removal deletes by name what
was checked by name several commands before, while an agent edits, commits and switches
branches. A first version of `MergedWorkSurvives` held within the bounds of the run but was
not inductive, and was false with more operations: what it has of `sure` and of the check of
the parent's status (`CheckParentStatus`) came into the model by that.

### What is only model-checked

Liveness, which needs fairness and `ENABLED`: `WatchersConverge`, `WindowsConverge`, `StreamsConverge`,
`EventsQuiet`, `ExitEndsStreams`, `Recovers`, `KilledEnds`, `AskedIsAnswered`, `TimedOutEnds`.
`WindowsKeepUp` and `EchoNotApplied` of ContentSync: the first also speaks of what has
happened to every message, the second holds only while the ring of remembered hashes
(32 bodies) is longer than the bodies an event can be late by; in the run the ring has 4. `WireAgrees`:
its messages are nested, encoding is recursive, and induction over data is out of the
provers' reach.

## 6. Divergences seen while modelling

Where the code does less than a comment or a reader may expect, the
property states the exception, by a guard or by a history variable
that is set exactly in that case. The constants that make each one appear:

| What happens | Shown by |
|---|---|
| An operation takes the session lock without reading the refs of the lock's answer, so its sync, which the daemon does not compare with the version, may start from an old list and drop another window's workspace, against the comment at `createSessionStore.ts:290-292`. | `refsync_foreign_drop` |
| A reply that comes after the event of a later update sets `sessionVersion` back; delayed events of the older version, and a rejection that names the very list that was sent and so counts as accepted, then let a later sync take another window's workspace off the list, without any lock. | 2 windows, one of them remote, 3 roots in the other, `Cap = 4`, `MaxVersion = 5`, with `NoForeignDrop` |
| A cancelled write handler releases the write lock while its rename still runs; the next guarded write may replace what it was not compared with. | `disturbed` |
| The session lock is not counted: the first of two operations of a window to end releases it under the other. | `lapsed` |
| The answer to a write that comes after the event of a later one sets `lastSeenSha` back. The next write conflicts with the old guard and waits for the winner's event, which "is still in flight" (`createSessionStore.ts:621`) but has come already: the edit stays in the window, without an error. | `misled`, `"answer"` |
| `flush` ends before the retry that a conflict scheduled, and the rebuild forgets the edit. | `Flushed`, `Rebuild` |
| An event dropped by a full channel is not repeated. The comment at `file_watcher.rs:65` says that the next delivery heals it, but there is none until the file changes again. | `StreamsConverge` without its exception for streams that lost an event |
| Two writes reported in the other order (B, A, B) leave a window showing the older one: it takes the newer one, when it comes again, for an echo. | `misled`, `"report"` |
| `lastWrittenJson` never prevents a write, since a body contains the hash of its parent. | reading `createSessionStore.ts:573` |
| The exit of a program, or a resize, between two locks of the `PtyStream` handler is missed by that stream. | `unseen`, `skipped` |
| Two overlapping creations of one handle leave the first terminal without a handle, against the comment at `pty_manager.rs:59-62`. | `raced` |
| A stream of a killed session may end by an overflow and without an exit; SIGTERM may go to a process id that was reaped. | `Kill`, `Terminate` |
| An attempt given up while its tunnel bootstraps spawns ssh afterwards, and nobody ends it, against the comment at `connectionManager.ts:329-333`. | `evaded` |
| `reconnectLocal` takes the socket path from the client it has just given up: after one failed attempt every later one throws (`connectionManager.ts:399-407`). | `MainProcess`'s `ReconnectLocal` |
| `doConnectRemote` after a disconnect by the user leaves its client open (`connectionManager.ts:664-694`). | `Connection`'s `ConnectDone` |
| A client slower than `SEND_TIMEOUT`, or a read error, gives cut output with the ordinary exit code; a background program that holds a pipe delays the answer beyond the timeout. | `cut`, `holding` |
| When waiting for the child fails, the error is sent at once, and the readers and the timeout task, which nobody stops, may send output after it (`exec_manager.rs:150-153`). | `WaitFails`, `Failure` in `ResultIsComplete` |
| Two windows that move A under B and B under A before they see each other's move close a cycle, after which `checkAncestor` does not end. | `crossed`, `hung` |
| An answer discarded in the middle of a burst leaves the screen the burst returns to unclassified; a second screen without a model stays Working. | `excused` |
| `dispose()` of the git controller leaves its queued callers unanswered. | `forgotten` |

*Settings* (`held`, `focusKey`): `migrateKeybindings` knows five of six actions, so
`workspaceFocus` is lost on every load; a save overwrites what the main process has added
since the window loaded; a save after a failed load replaces the file by the defaults;
`toggleSound` during a save of the dialog takes the saved changes back in the window.

*TabTerminal* (`strayed`, `reset`, `missed`): a body from before the terminal was known sets the
tab's `ptyId` back and nothing initialises it again (the comment at
`createWorkspaceStore.ts:166-173` is about the opposite case); a tab dropped elsewhere during
its creation leaves the program running, one brought back then is given another; the end of a
stream whose view is not mounted is shown by nobody (`BaseTerminal.tsx:90`).

*MainProcess* (`overtaken`, `raced`): a localConnect overtaken by a reload or a close leaks its
connection; the `closed` handler compares watches with the window's uuid, under which none is
registered (comment at `index.ts:213`); session clients of earlier generations are not
disconnected, and a lock taken through an old one is refused through the new until it expires;
the continuation of an earlier reconnect may tell the window an older snapshot; a reloaded
page's file watches stay.

*AppSessions* (`crossed`): connecting one saved configuration twice makes two stores for it; an
empty remote session is not seeded, although the comment at `app.ts:347-352` speaks of every
session; a disconnect during the flush of a reconnect is undone, a rename lost; session
changes before `localConnect` answers are lost; the answer or error of a connect may overwrite a
newer status; reconnecting one that never connected shows a session without a watch;
after a reconnect to an empty session the active view names the disposed store; a failed
load of a remote session leaves its connection alive while the window shows the error.

*Worktrees* (`waived`, `doubtful`, `sure`): `closeAndCleanWorkspace` deletes the branch although its
confirmation says it is kept (`ReviewBrowser.tsx` about line 667); `commitAll` is `commit -am`, so
untracked files go with `worktree remove --force`; `hasUncommittedChanges` is false when `git
status` fails; the result of `removeWorktree` is not looked at; the merge takes the branch
the workspace names, the removal the worktree's HEAD; a failed merge leaves the parent
conflicted, a squash uncommitted, and both block the next; removing a subtree
deletes children's unmerged work, and children still loading are not counted; `alreadyOpen` is
checked before the lock is awaited, so one worktree may be opened twice; a `deleteFile` that
throws shows a removed workspace again; a failed getInfo unsets the branch, after which the
removal leaves it; a dismissed creation that ends reappears.

Seen by reading, and not modelled: `handleMerge` returns from its failure path without
`setIsProcessing(false)` (`ReviewBrowser.tsx` about line 612); `handleCreateChildSubmit` drops
the description; the review reloads its diff with the base of the render it started in and
has no guard against late answers.

## 7. Plan

Done, in this order: the session store with its register; the membership sync on
it; the file watcher with guarded writes; the content sync; terminals with their
log and handles; connections; exec calls, the git controller, the registry, the
tree and the analyzer; the app's sessions, settings, tabs, main process, messages and
worktrees. Proved after that: the daemon's modules and Connection, then the lock and
the lists of RefSync, the parts, and the five components of `MCApp`.

Next: port forwards, pending terminal writes
in the main process, and the loaders of the review.

### Not modelled

* *The review and diff views, file viewers and run actions*: they show what git and files say
  and are reloaded whole; their hazards are stale answers, listed in section 6.
* *The layout of tabs (FlexLayout)*: a function of the tabs, kept by a library.
* *Terminal streams in the main process and the preload*: passed through in order.
* *Port forwards and the ssh command line*: one process and a buffer each.
* *The attention coordinator*: it decides when to mark; ContentSync takes any mark at
  any time.
* *Titles, branch names and automatic approval* of the analyzer: sequential calls whose
  outcomes nothing else depends on.
* *The daemon's start*, its pid file and socket: I/O before the modelled life begins.
* *Navigation, key bindings, command lines, parsers, API clients, React views, type
  declarations*: most of the repository's lines, without state of their own that two
  actors share.
