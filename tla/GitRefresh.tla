----------------------------- MODULE GitRefresh -----------------------------
(***************************************************************************)
(* The git controller of one workspace (createGitControllerStore.ts):      *)
(* refreshes asked for by panes, terminals and merges are coalesced into   *)
(* runs, one at a time and at least COOLDOWN_MS apart.                     *)
(*                                                                         *)
(* A call of refreshGit() is a promise that is used once.  What a run      *)
(* reads is left out; a run takes some time and always ends, because each  *)
(* of its steps is inside a try.                                           *)
(***************************************************************************)
EXTENDS Naturals
CONSTANTS Call,        \* the calls of refreshGit()
          MaxDisposals \* bound: how often the workspace is removed

VARIABLES
  queuedResolvers, \* the calls that wait for a run to start
  activeResolvers, \* the calls the present run answers
  inFlight,        \* a run is in flight
  cooldownTimer,   \* the timer is armed
  cool,            \* COOLDOWN_MS have passed since lastRunStartTime
  asked,           \* the first run that is new enough for the call, 0 before it
  answered,        \* the run that answered the call, 0 before it
  forgotten,       \* the calls whose resolvers dispose() threw away
  runs, disposals
vars == <<queuedResolvers, activeResolvers, inFlight, cooldownTimer, cool,
          asked, answered, forgotten, runs, disposals>>

Init ==
  /\ queuedResolvers = {} /\ activeResolvers = {} /\ forgotten = {}
  /\ inFlight = FALSE /\ cooldownTimer = FALSE
  /\ cool = TRUE \* lastRunStartTime = -Infinity
  /\ asked = [c \in Call |-> 0] /\ answered = [c \in Call |-> 0]
  /\ runs = 0 /\ disposals = 0

StartRun(waiting) ==
  /\ cooldownTimer' = FALSE /\ cool' = FALSE
  /\ inFlight' = TRUE /\ runs' = runs + 1
  /\ activeResolvers' = waiting /\ queuedResolvers' = {}

(* A slip that lets a call share the run that is in flight.                *)
RefreshGitShares(c) ==
  /\ asked[c] = 0
  /\ asked' = [asked EXCEPT ![c] = runs + 1]
  /\ IF inFlight
       THEN /\ activeResolvers' = activeResolvers \cup {c}
            /\ UNCHANGED <<queuedResolvers, inFlight, cooldownTimer, cool, runs>>
       ELSE IF cool
         THEN StartRun(queuedResolvers \cup {c})
         ELSE /\ queuedResolvers' = queuedResolvers \cup {c}
              /\ cooldownTimer' = TRUE
              /\ UNCHANGED <<activeResolvers, inFlight, cool, runs>>
  /\ UNCHANGED <<answered, forgotten, disposals>>

RefreshGit(c) ==
  /\ asked[c] = 0
  /\ asked' = [asked EXCEPT ![c] = runs + 1]
  /\ IF ~inFlight /\ cool
       THEN StartRun(queuedResolvers \cup {c})
       ELSE /\ queuedResolvers' = queuedResolvers \cup {c}
            /\ cooldownTimer' = (cooldownTimer \/ ~inFlight)
            /\ UNCHANGED <<activeResolvers, inFlight, cool, runs>>
  /\ UNCHANGED <<answered, forgotten, disposals>>

(* The run's finally: its calls are answered and a run is scheduled for    *)
(* those that came in the meantime.                                        *)
RunEnds ==
  /\ inFlight
  /\ inFlight' = FALSE
  /\ answered' = [c \in Call |-> IF c \in activeResolvers THEN runs ELSE answered[c]]
  /\ activeResolvers' = {}
  /\ cooldownTimer' = (cooldownTimer \/ queuedResolvers # {})
  /\ UNCHANGED <<queuedResolvers, cool, asked, forgotten, runs, disposals>>

CooldownPasses ==
  /\ ~cool
  /\ cool' = TRUE
  /\ UNCHANGED <<queuedResolvers, activeResolvers, inFlight, cooldownTimer,
                 asked, answered, forgotten, runs, disposals>>

(* The timer is set to the rest of the cooldown.                           *)
TimerFires ==
  /\ cooldownTimer /\ cool
  /\ IF ~inFlight /\ queuedResolvers # {}
       THEN StartRun(queuedResolvers)
       ELSE /\ cooldownTimer' = FALSE
            /\ UNCHANGED <<queuedResolvers, activeResolvers, inFlight, cool, runs>>
  /\ UNCHANGED <<asked, answered, forgotten, disposals>>

Dispose ==
  /\ disposals < MaxDisposals
  /\ disposals' = disposals + 1
  /\ cooldownTimer' = FALSE
  /\ queuedResolvers' = {}
  /\ forgotten' = forgotten \cup queuedResolvers
  /\ UNCHANGED <<activeResolvers, inFlight, cool, asked, answered, runs>>

Next ==
  \/ \E c \in Call : RefreshGit(c)
  \/ RunEnds \/ CooldownPasses \/ TimerFires \/ Dispose

Spec == Init /\ [][Next]_vars

(* Git and network calls end, and the event loop runs its timers.          *)
Fairness == WF_vars(RunEnds) /\ WF_vars(CooldownPasses) /\ WF_vars(TimerFires)

-----------------------------------------------------------------------------
(* Whoever asks for a refresh is answered by a run that began after the    *)
(* question, so what it then reads is not older than its own change: also  *)
(* when it asks in the middle of a run or of the cooldown.  A workspace    *)
(* that is disposed of answers nobody who still waits (lines 200-206).     *)
AskedIsAnswered ==
  \A c \in Call : asked[c] # 0 ~> (answered[c] >= asked[c] \/ c \in forgotten)
=============================================================================
