------------------------------ MODULE Analyzer ------------------------------
(***************************************************************************)
(* What a tab shows of the program in its terminal                         *)
(* (createAnalyzerStore.ts with idleDetector.ts): Working while the screen *)
(* changes, and when it has come to rest what a language model makes of    *)
(* it.  Timers, requests that come back late, a change of the settings and *)
(* restarts of the analyzer interleave.                                    *)
(*                                                                         *)
(* A snapshot is the configuration and the screen.  A state shown carries  *)
(* the snapshot it is about, None for Working as the detector reports it.  *)
(* The idle timer may end at any time; whether a burst has already lasted  *)
(* for one idle timeout is a choice.  Left out: titles and branch names,   *)
(* the history, automatic approval, the tab's opt-out of Working, and that *)
(* the cache holds ten results.                                            *)
(***************************************************************************)
EXTENDS Naturals, FiniteSets
CONSTANTS Screen, Blank, \* what the terminal may show; Blank classifies nothing
          NoModel,       \* the configurations without a model
          None,
          MaxConfig,     \* bound: changes of the settings
          MaxOutputs,    \* bound: changes of the screen
          MaxStarts,     \* bound: starts of the analyzer
          MaxFailures    \* bound: requests that are rejected

Snapshot == (0..MaxConfig) \X (Screen \cup {Blank})

VARIABLES
  running, starts, config, screen,
  detector, \* lastSnapshot, settled, burstBaseline, reported, and armed: its timer
  analyzer, \* inFlightBuffer, requestInFlight, pendingAnalyze, cache,
            \* lastConfiguration, modelErrorShown
  shown,    \* aiState, and the snapshot it is about
  requests, \* the requests that are not answered yet
  excused,  \* the shown state need not be about the screen: see Settled
  outputs, failures
vars == <<running, starts, config, screen, detector, analyzer, shown, requests,
          excused, outputs, failures>>

Now == <<config, screen>>
Uncached == [s \in Snapshot |-> None]
Reset(c) == [inFlightBuffer |-> None, requestInFlight |-> FALSE, pendingAnalyze |-> FALSE,
             cache |-> Uncached, lastConfiguration |-> c, modelErrorShown |-> FALSE]
Fresh(snapshot) == [lastSnapshot |-> snapshot, settled |-> FALSE, burstBaseline |-> snapshot,
                    reported |-> FALSE, armed |-> FALSE]
Shows(state, snapshot) == [state |-> state, of |-> snapshot]

Init ==
  /\ running = FALSE /\ starts = 0 /\ config = 0 /\ screen = Blank
  /\ detector = Fresh(Now) /\ analyzer = Reset(0)
  /\ shown = Shows("Idle", Now) /\ requests = {}
  /\ excused = FALSE /\ outputs = 0 /\ failures = 0

-----------------------------------------------------------------------------
(* The screen is in the middle of a burst: what is made of it now is not   *)
(* of the screen it comes to rest on, and if that is the one the burst     *)
(* began with there is no edge to make it good.                            *)
MidBurst == detector'.armed /\ Now # detector'.burstBaseline

(* analyze(), with the analyzer, the state shown and the requests it       *)
(* finds.  Its last case sends a request.                                  *)
Analyze(a, old, sent) ==
  LET b == IF config = a.lastConfiguration THEN a
           ELSE [a EXCEPT !.lastConfiguration = config, !.modelErrorShown = FALSE]
  IN \/ /\ screen = Blank
        /\ analyzer' = a /\ shown' = Shows("Idle", Now) /\ requests' = sent
        /\ excused' = MidBurst
     \/ /\ screen # Blank /\ a.requestInFlight
        /\ analyzer' = [a EXCEPT !.pendingAnalyze = TRUE]
        /\ shown' = old /\ requests' = sent /\ excused' = MidBurst
     \/ /\ screen # Blank /\ ~a.requestInFlight /\ config \in NoModel
        /\ analyzer' = [b EXCEPT !.modelErrorShown = TRUE]
        /\ shown' = IF b.modelErrorShown THEN old ELSE Shows("Error", Now)
        /\ requests' = sent /\ excused' = (b.modelErrorShown \/ MidBurst)
     \/ /\ screen # Blank /\ ~a.requestInFlight /\ config \notin NoModel
        /\ \/ /\ b.inFlightBuffer = Now
              /\ analyzer' = b /\ shown' = old /\ requests' = sent
           \/ /\ b.inFlightBuffer # Now /\ b.cache[Now] # None
              /\ analyzer' = b /\ shown' = Shows(b.cache[Now], Now) /\ requests' = sent
           \/ /\ b.inFlightBuffer # Now /\ b.cache[Now] = None
              /\ analyzer' = [b EXCEPT !.inFlightBuffer = Now, !.requestInFlight = TRUE]
              /\ shown' = old
              /\ requests' = sent \cup {[cycle |-> starts, of |-> Now]}
        /\ excused' = MidBurst

(* The end of an answer: what was asked for meanwhile is analyzed now.     *)
ThenPending(a, state, sent) ==
  IF a.pendingAnalyze
    THEN Analyze([a EXCEPT !.pendingAnalyze = FALSE], state, sent)
    ELSE /\ analyzer' = a /\ shown' = state /\ requests' = sent
         /\ excused' = (excused \/ MidBurst)

-----------------------------------------------------------------------------
(* The life of the analyzer.                                               *)

Start ==
  /\ ~running /\ starts < MaxStarts
  /\ running' = TRUE /\ starts' = starts + 1 /\ screen' = Blank
  /\ detector' = Fresh(<<config, Blank>>)
  /\ excused' = TRUE \* the state of the previous cycle remains
  /\ UNCHANGED <<config, analyzer, shown, requests, outputs, failures>>

StopPolling ==
  /\ running
  /\ running' = FALSE
  /\ analyzer' = Reset(config)
  /\ detector' = [detector EXCEPT !.armed = FALSE]
  /\ UNCHANGED <<starts, config, screen, requests, excused, outputs, failures>>

Stop == StopPolling /\ UNCHANGED shown
Exit == StopPolling /\ shown' = Shows("Completed", Now)

Configure ==
  /\ config < MaxConfig
  /\ config' = config + 1
  /\ UNCHANGED <<running, starts, screen, detector, analyzer, shown, requests,
                 excused, outputs, failures>>

-----------------------------------------------------------------------------
(* The idle detector.                                                      *)

ProcessSnapshot(snapshot) ==
  LET d == detector
      burst == IF d.armed THEN d ELSE [d EXCEPT !.burstBaseline = d.lastSnapshot, !.reported = FALSE]
  IN \/ /\ d.armed /\ ~d.reported \* the burst has lasted for an idle timeout
        /\ detector' = [d EXCEPT !.lastSnapshot = snapshot, !.reported = TRUE]
        /\ shown' = Shows("Working", None)
     \/ /\ detector' = [burst EXCEPT !.lastSnapshot = snapshot, !.armed = TRUE]
        /\ UNCHANGED shown

Output(s) ==
  /\ running /\ outputs < MaxOutputs /\ s # screen
  /\ outputs' = outputs + 1
  /\ screen' = s
  /\ ProcessSnapshot(<<config, s>>)
  /\ UNCHANGED <<running, starts, config, analyzer, requests, excused, failures>>

Poll ==
  /\ running /\ detector.lastSnapshot # Now
  /\ ProcessSnapshot(Now)
  /\ UNCHANGED <<running, starts, config, screen, analyzer, requests, excused, outputs, failures>>

(* A burst that ends where it began and was not reported is no edge.       *)
IdleTimer ==
  LET d == detector
      blip == ~d.reported /\ d.lastSnapshot = d.burstBaseline
      working == ~d.reported /\ ~blip /\ d.settled
  IN /\ d.armed
     /\ detector' = [d EXCEPT !.armed = FALSE, !.settled = TRUE, !.reported = @ \/ working]
     /\ IF blip
          THEN UNCHANGED <<analyzer, shown, requests, excused>>
          ELSE Analyze(analyzer, IF working THEN Shows("Working", None) ELSE shown, requests)
     /\ UNCHANGED <<running, starts, config, screen, outputs, failures>>

-----------------------------------------------------------------------------
(* Answers.                                                                *)

(* A slip: a stale answer forgets what was asked for meanwhile.            *)
DiscardedForgets(a, r) ==
  /\ analyzer' = [a EXCEPT !.inFlightBuffer = None, !.pendingAnalyze = FALSE]
  /\ requests' = requests \ {r}
  /\ excused' = (excused \/ MidBurst)
  /\ UNCHANGED shown

(* An answer for another screen or configuration.                          *)
Discarded(a, r) ==
  LET b == [a EXCEPT !.inFlightBuffer = None,
                     !.pendingAnalyze = @ \/ config # r.of[1]]
  IN IF b.pendingAnalyze
       THEN ThenPending(b, shown, requests \ {r})
       ELSE /\ analyzer' = b /\ requests' = requests \ {r}
            /\ excused' = (excused \/ MidBurst)
            /\ UNCHANGED shown

Answered(r, state) ==
  LET a == [analyzer EXCEPT !.requestInFlight = FALSE]
      cached == IF a.cache[r.of] = None /\ state # "Error"
                  THEN [a EXCEPT !.cache[r.of] = state, !.inFlightBuffer = None]
                  ELSE [a EXCEPT !.inFlightBuffer = None]
  IN /\ r \in requests /\ UNCHANGED detector
     /\ IF ~running
          THEN analyzer' = a /\ requests' = requests \ {r} /\ UNCHANGED <<shown, excused>>
          ELSE IF Now # r.of
            THEN Discarded(a, r)
            ELSE ThenPending(cached, Shows(state, r.of), requests \ {r})
     /\ UNCHANGED <<running, starts, config, screen, outputs, failures>>

(* The call rejects.  Its error is shown without a look at the screen.     *)
Rejected(r) ==
  LET a == [analyzer EXCEPT !.requestInFlight = FALSE, !.inFlightBuffer = None]
  IN /\ r \in requests /\ failures < MaxFailures /\ UNCHANGED detector
     /\ failures' = failures + 1
     /\ IF ~running
          THEN analyzer' = a /\ requests' = requests \ {r} /\ UNCHANGED <<shown, excused>>
          ELSE IF config # r.of[1]
            THEN Analyze([a EXCEPT !.pendingAnalyze = FALSE], shown, requests \ {r})
            ELSE IF a.pendingAnalyze
              THEN ThenPending(a, Shows("Error", r.of), requests \ {r})
              ELSE /\ analyzer' = a /\ requests' = requests \ {r}
                   /\ shown' = Shows("Error", r.of) /\ excused' = (excused \/ MidBurst \/ Now # r.of)
     /\ UNCHANGED <<running, starts, config, screen, outputs>>

Next ==
  \/ Start \/ Stop \/ Exit \/ Configure
  \/ \E s \in Screen \cup {Blank} : Output(s)
  \/ Poll \/ IdleTimer
  \/ \E r \in requests : Rejected(r) \/ \E state \in {"Working", "Waiting", "Error"} : Answered(r, state)

Spec == Init /\ [][Next]_vars

-----------------------------------------------------------------------------
Resting == /\ running /\ requests = {}
           /\ ~detector.armed /\ detector.lastSnapshot = Now

(* When the screen has come to rest and nothing is asked of the model any  *)
(* more, the tab shows what was made of that very screen, under the        *)
(* present settings: a late answer never stays, a missed one is asked for  *)
(* again.  Excused are the ways out the code leaves open: nothing was      *)
(* classified yet in this cycle; an answer that came in the middle of a    *)
(* burst that returns to its screen; a second screen without a model,      *)
(* which stays Working; an error that comes when the screen has moved on.  *)
RestIsClassified == Resting /\ ~excused => shown.of = Now
=============================================================================
