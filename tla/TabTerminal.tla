---------------------------- MODULE TabTerminal ----------------------------
(***************************************************************************)
(* One terminal tab in one window: the PTY made for its handle             *)
(* (applications/*/renderer.ts, ensureTty), the cached engine and stream,  *)
(* and the view that comes and goes over them (BaseTerminal.tsx).  An      *)
(* effect of the view awaits an engine and then an attachment while the    *)
(* user switches tabs, closes the tab, changes settings, and while bodies  *)
(* written by other windows drop the tab or bring it back.                 *)
(*                                                                         *)
(* Rendering follows a change of the store before the next event, so a tab *)
(* that goes unmounts its view in the same step.  All attempts create for  *)
(* one handle, for which the daemon keeps one live PTY (PtyHandles).  The  *)
(* record of an init that is over is used again.  Left out: sizes,         *)
(* scrolling, input, the detector, creations that throw in createEngine,   *)
(* and how long after its start a program ended.                           *)
(***************************************************************************)
EXTENDS Naturals
CONSTANTS MaxCreations, \* bound: promises of deps.createTty
          MaxEffects,   \* bound: effects whose init is under way or cached
          MaxBodies,    \* bound: bodies of other windows
          MaxFaults     \* bound: failed creations, attachments and streams

Creation == 1..MaxCreations
Effect == 1..MaxEffects

VARIABLES
  kind,     \* "terminal" or "harness": what the promise does after dispose()
  tab,      \* its entry in appStates: open, and ptyId (0 is null)
  ref,      \* its AppRef: number, creating, the ptyId it was loaded with,
            \* cachedTerminal, and refused: its creation failed while it waited
  memo,     \* ttyByHandle of the handle
  creation, \* its stage, its PTY, and kill: close() waits for it
  program,  \* the programs of the PTYs: "none", "live", "over"
  view,     \* up, the effect whose init is under way, overlay
  init,     \* an effect's init: stage, cancelled, the ref it saw, its PTY,
            \* handler (mountedHandler), and whether its stream ended
  closed,   \* the user closed the tab
  strayed,  \* the answer to a creation was lost, or a body brought the tab
            \* back while a creation was under way that the new ref ignores
  reset,    \* a body set the ptyId of an open tab back to null
  missed,   \* the view was not there, or not yet, when its stream ended
  bodies, faults
vars == <<kind, tab, ref, memo, creation, program, view, init, closed, strayed,
          reset, missed, bodies, faults>>

NoTab == [open |-> FALSE, pty |-> 0]
NoRef == [no |-> 0, creating |-> 0, state |-> 0, cached |-> 0, refused |-> FALSE]
NoView == [up |-> FALSE, init |-> 0, overlay |-> "none"]
NoInit == [stage |-> "none", cancelled |-> FALSE, ref |-> 0, pty |-> 0,
           handler |-> FALSE, ended |-> FALSE]

Init ==
  /\ kind \in {"terminal", "harness"}
  /\ tab = NoTab /\ ref = NoRef /\ memo = 0 /\ view = NoView
  /\ creation = [c \in Creation |-> [stage |-> "none", pty |-> 0, kill |-> FALSE]]
  /\ program = [p \in Creation |-> "none"]
  /\ init = [i \in Effect |-> NoInit]
  /\ closed = FALSE /\ strayed = FALSE /\ reset = FALSE /\ missed = FALSE
  /\ bodies = 0 /\ faults = 0

-----------------------------------------------------------------------------
(* The PTY.                                                                *)

Fresh(f, none) == {x \in DOMAIN f : f[x].stage = none}

(* ensureTty: the promise the handle has, or a new one.                    *)
EnsureTty(c) == IF memo # 0 THEN c = memo ELSE creation[c].stage = "none"

(* onWorkspaceLoad, for an entry with the given ptyId.  The callback of a  *)
(* promise that has resolved writes its ptyId at once.                     *)
Load(pty) ==
  IF pty # 0
    THEN /\ ref' = [NoRef EXCEPT !.no = ref.no + 1, !.state = pty]
         /\ tab' = [open |-> TRUE, pty |-> pty]
         /\ UNCHANGED <<memo, creation>>
    ELSE \E c \in Creation :
           /\ EnsureTty(c)
           /\ memo' = c
           /\ creation' = [creation EXCEPT ![c].stage = IF @ = "none" THEN "pending" ELSE @]
           /\ ref' = [NoRef EXCEPT !.no = ref.no + 1, !.creating = c]
           /\ tab' = [open |-> TRUE, pty |-> creation[c].pty]

AddTab ==
  /\ ref.no = 0
  /\ Load(0)
  /\ UNCHANGED <<kind, program, view, init, closed, strayed, reset, missed,
                 bodies, faults>>

Killed(p) == [program EXCEPT ![p] = "over"]

(* The daemon answers with the live PTY of the handle or a new one.        *)
AnswersWith(p) ==
  \/ program[p] = "live"
  \/ /\ \A q \in Creation : program[q] # "live" /\ (q < p => program[q] # "none")
     /\ program[p] = "none"

(* A disposed terminal still writes the id to a tab that is back, a disposed *)
(* harness leaves that to the ref that came after it.                      *)
CreationResolves(c) ==
  /\ creation[c].stage = "pending"
  /\ \E p \in Creation :
       /\ AnswersWith(p)
       /\ creation' = [creation EXCEPT ![c].stage = "done", ![c].pty = p]
       /\ program' = [program EXCEPT ![p] = IF creation[c].kill THEN "over" ELSE "live"]
       /\ tab' = IF tab.open /\ (kind = "terminal" \/ ref.creating = c)
                   THEN [tab EXCEPT !.pty = p] ELSE tab
  /\ UNCHANGED <<kind, ref, memo, view, init, closed, strayed, reset, missed,
                 bodies, faults>>

(* The creation fails, possibly after the daemon has made the PTY.         *)
Refused(c) ==
  /\ creation[c].stage = "pending" /\ faults < MaxFaults
  /\ faults' = faults + 1
  /\ creation' = [creation EXCEPT ![c].stage = "failed"]
  /\ ref' = [ref EXCEPT !.refused = @ \/ ref.creating = c]
  /\ \/ UNCHANGED <<program, strayed>>
     \/ \E p \in Creation :
          /\ AnswersWith(p)
          /\ program' = [program EXCEPT ![p] = "live"]
          /\ strayed' = TRUE
  /\ UNCHANGED <<kind, tab, view, init, closed, reset, missed, bodies>>

CreationFails(c) ==
  Refused(c) /\ memo' = IF memo = c THEN 0 ELSE memo

-----------------------------------------------------------------------------
(* The view and what it leaves in the cache.                               *)

Disposed(in, i) ==
  [j \in Effect |-> IF j = i THEN NoInit ELSE in[j]]

(* The cleanup of the effect.                                              *)
CleanedUp(in) ==
  [i \in Effect |-> [in[i] EXCEPT !.cancelled = @ \/ i = view.init,
                                  !.handler = @ /\ i # ref.cached]]

(* An effect of the view: over the cache, or with an init of its own.      *)
RunEffect(in, cached, overlay) ==
  IF cached # 0
    THEN /\ init' = [j \in Effect |-> [in[j] EXCEPT !.handler = @ \/ j = cached]]
         /\ view' = [up |-> TRUE, init |-> 0, overlay |-> overlay]
    ELSE \E i \in Effect :
           /\ in[i].stage = "none" /\ \A j \in 1..(i - 1) : in[j].stage # "none"
           /\ init' = [in EXCEPT ![i] = [NoInit EXCEPT !.stage = "engine",
                                            !.ref = ref.no, !.pty = tab.pty]]
           /\ view' = [up |-> TRUE, init |-> i, overlay |-> overlay]

Mount ==
  /\ tab.open /\ tab.pty # 0 /\ ~view.up
  /\ RunEffect(init, ref.cached, "none")
  /\ missed' = (missed \/ \E i \in Effect : i = ref.cached /\ init[i].ended)
  /\ UNCHANGED <<kind, tab, ref, memo, creation, program, closed, strayed, reset, bodies, faults>>

Unmount ==
  /\ view.up
  /\ init' = CleanedUp(init) /\ view' = NoView
  /\ UNCHANGED <<kind, tab, ref, memo, creation, program, closed, strayed, reset, missed, bodies, faults>>

(* Changed settings run the effect again.                                  *)
SettingsChange ==
  /\ view.up
  /\ RunEffect(CleanedUp(init), ref.cached, view.overlay)
  /\ UNCHANGED <<kind, tab, ref, memo, creation, program, closed, strayed, reset, missed, bodies, faults>>

(* handleRefreshStream: disposeCachedTerminal, and the effect again.       *)
RefreshStream ==
  /\ view.up
  /\ ref' = [ref EXCEPT !.cached = 0]
  /\ RunEffect(Disposed(CleanedUp(init), ref.cached), 0, "none")
  /\ UNCHANGED <<kind, tab, memo, creation, program, closed, strayed, reset, missed, bodies, faults>>

EngineCreated(i) ==
  /\ init[i].stage = "engine"
  /\ init' = IF init[i].cancelled THEN Disposed(init, i) ELSE [init EXCEPT ![i].stage = "stream"]
  /\ UNCHANGED <<kind, tab, ref, memo, creation, program, view, closed, strayed, reset, missed, bodies, faults>>

AttachedUnchecked(i) == \* a slip: the view went away during the attachment
  /\ init[i].stage = "stream" /\ program[init[i].pty] = "live"
  /\ init' = [init EXCEPT ![i].stage = "cached", ![i].handler = TRUE]
  /\ ref' = IF init[i].ref = ref.no THEN [ref EXCEPT !.cached = i] ELSE ref
  /\ view' = IF view.init = i THEN [view EXCEPT !.init = 0] ELSE view
  /\ UNCHANGED <<kind, tab, memo, creation, program, closed, strayed, reset, missed, bodies, faults>>

(* The stream is open: the effect's view is there and takes it, or both    *)
(* are disposed of.  A ref that was replaced keeps what it is given.       *)
Attached(i) ==
  /\ init[i].stage = "stream" /\ (program[init[i].pty] = "live" \/ init[i].ended)
  /\ IF init[i].cancelled
       THEN init' = Disposed(init, i) /\ UNCHANGED <<ref, view>>
       ELSE /\ init' = [init EXCEPT ![i].stage = "cached", ![i].handler = TRUE]
            /\ ref' = IF init[i].ref = ref.no THEN [ref EXCEPT !.cached = i] ELSE ref
            /\ view' = [view EXCEPT !.init = 0]
  /\ UNCHANGED <<kind, tab, memo, creation, program, closed, strayed, reset, missed, bodies, faults>>

(* The PTY is gone, or the call fails.                                     *)
AttachFails(i) ==
  /\ init[i].stage = "stream" /\ ~init[i].ended
  /\ IF program[init[i].pty] = "live"
       THEN faults < MaxFaults /\ faults' = faults + 1
       ELSE UNCHANGED faults
  /\ init' = Disposed(init, i)
  /\ view' = IF init[i].cancelled THEN view ELSE [view EXCEPT !.init = 0, !.overlay = "error"]
  /\ UNCHANGED <<kind, tab, ref, memo, creation, program, closed, strayed, reset, missed, bodies>>

-----------------------------------------------------------------------------
(* The tab.                                                                *)

(* disposeTabResources, and the view of a tab that is gone.                *)
TabGoes(in) ==
  /\ tab' = NoTab
  /\ init' = Disposed([i \in Effect |-> [in[i] EXCEPT !.cancelled = @ \/ i = view.init]], ref.cached)
  /\ ref' = [ref EXCEPT !.cached = 0]
  /\ view' = NoView

(* close(): the PTY the tab shows, the one it was loaded with, or the one  *)
(* that its creation brings.                                               *)
Close ==
  LET shown == IF tab.pty # 0 THEN tab.pty ELSE ref.state
      known == IF shown # 0 THEN shown
               ELSE IF ref.creating # 0 THEN creation[ref.creating].pty ELSE 0
  IN  IF known # 0
        THEN program' = Killed(known) /\ UNCHANGED creation
        ELSE /\ creation' = [c \in Creation |-> [creation[c] EXCEPT
                               !.kill = @ \/ (c = ref.creating /\ creation[c].stage = "pending")]]
             /\ UNCHANGED program

RemoveTab(in) ==
  /\ Close
  /\ TabGoes(in)
  /\ memo' = 0
  /\ closed' = TRUE

CloseTab ==
  /\ tab.open
  /\ RemoveTab(init)
  /\ UNCHANGED <<kind, strayed, reset, missed, bodies, faults>>

ProgramExits(p) ==
  /\ program[p] = "live"
  /\ program' = Killed(p)
  /\ UNCHANGED <<kind, tab, ref, memo, creation, view, init, closed, strayed, reset, missed,
                 bodies, faults>>

Attending(i) == init[i].stage \in {"stream", "cached"} /\ ~init[i].ended

(* The Exit event, with or without the view.  Kept and failed tabs remain. *)
ExitArrives(i) ==
  /\ Attending(i) /\ program[init[i].pty] = "over"
  /\ LET in == [init EXCEPT ![i].ended = TRUE]
     IN  \/ tab.open /\ RemoveTab(in) /\ UNCHANGED missed
         \/ /\ init' = in
            /\ view' = IF init[i].handler THEN [view EXCEPT !.overlay = "error"] ELSE view
            /\ missed' = (missed \/ ~init[i].handler)
            /\ UNCHANGED <<tab, ref, memo, creation, program, closed>>
  /\ UNCHANGED <<kind, strayed, reset, bodies, faults>>

(* An Error or End event.  Without a view it is dropped.                   *)
StreamEnds(i) ==
  /\ init[i].stage = "cached" /\ ~init[i].ended /\ faults < MaxFaults
  /\ faults' = faults + 1
  /\ init' = [init EXCEPT ![i].ended = TRUE]
  /\ view' = IF init[i].handler THEN [view EXCEPT !.overlay = "error"] ELSE view
  /\ missed' = (missed \/ ~init[i].handler)
  /\ UNCHANGED <<kind, tab, ref, memo, creation, program, closed, strayed, reset, bodies>>

Newest == {p \in Creation : program[p] # "none" /\ \A q \in Creation : q > p => program[q] = "none"}

(* A body of another window without the tab: the PTY is left to whoever    *)
(* dropped it.  A user who closed the tab there has killed it.             *)
DroppedElsewhere ==
  /\ tab.open /\ bodies < MaxBodies
  /\ bodies' = bodies + 1
  /\ TabGoes(init)
  /\ program' \in {program, IF tab.pty = 0 THEN program ELSE Killed(tab.pty)}
  /\ UNCHANGED <<kind, memo, creation, closed, strayed, reset, missed, faults>>

(* A body with a tab this window does not have: initTab.  It is from       *)
(* before the handle had a PTY, or it names the newest.                    *)
RestoredElsewhere ==
  /\ ~tab.open /\ ref.no # 0 /\ bodies < MaxBodies
  /\ bodies' = bodies + 1
  /\ \E pty \in {0} \cup Newest : Load(pty)
  /\ closed' = FALSE
  /\ strayed' = (strayed \/ \E c \in Creation : creation[c].stage = "pending" /\ ref'.creating # c)
  /\ UNCHANGED <<kind, program, view, init, reset, missed, faults>>

(* A body from before the PTY was known.  The tab is not initialised       *)
(* again; without a ptyId its view is not rendered.                        *)
StaleBody ==
  /\ tab.open /\ tab.pty # 0 /\ bodies < MaxBodies
  /\ bodies' = bodies + 1
  /\ tab' = [tab EXCEPT !.pty = 0]
  /\ reset' = TRUE
  /\ init' = CleanedUp(init) /\ view' = NoView
  /\ UNCHANGED <<kind, ref, memo, creation, program, closed, strayed, missed, faults>>

Next ==
  \/ AddTab \/ Mount \/ Unmount \/ SettingsChange \/ RefreshStream \/ CloseTab
  \/ DroppedElsewhere \/ RestoredElsewhere \/ StaleBody
  \/ \E c \in Creation : CreationResolves(c) \/ CreationFails(c) \/ ProgramExits(c)
  \/ \E i \in Effect : EngineCreated(i) \/ Attached(i) \/ AttachFails(i)
                      \/ ExitArrives(i) \/ StreamEnds(i)

Spec == Init /\ [][Next]_vars

-----------------------------------------------------------------------------
(* An engine with its stream belongs to an init under way, which will keep *)
(* or dispose of it, or is the cached terminal of the tab: never to a view *)
(* that is gone, a tab that is gone, or two views at once.                 *)
StreamsOwned ==
  \A i \in Effect :
    /\ init[i].stage \in {"engine", "stream"} => init[i].cancelled \/ view.init = i
    /\ init[i].stage = "cached" => tab.open /\ ref.cached = i

(* When no creation is under way, the program of a tab that the user has   *)
(* closed does not run: also if the PTY was not known when it was closed,  *)
(* or the tab had been dropped and restored.  See strayed.                 *)
ClosedIsKilled ==
  closed /\ ~strayed /\ (\A c \in Creation : creation[c].stage # "pending")
    => \A p \in Creation : program[p] # "live"

(* An open tab gets the PTY of its handle, unless its creation failed or a *)
(* body has set the ptyId back, after which nothing restores it.           *)
OpenTabHasPty ==
  tab.open /\ ~reset /\ ~ref.refused /\ (\A c \in Creation : creation[c].stage # "pending")
    => tab.pty # 0

(* A view at rest shows its terminal with a handler for its events, and    *)
(* says so when the stream ends before it, also after a change of settings.*)
(* What happened before the view was mounted is not told again.            *)
ViewTellsTheEnd ==
  view.up /\ view.init = 0 =>
    \/ view.overlay = "error"
    \/ /\ ref.cached # 0 /\ init[ref.cached].handler
       /\ ~init[ref.cached].ended \/ missed
=============================================================================
