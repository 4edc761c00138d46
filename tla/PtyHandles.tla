----------------------------- MODULE PtyHandles -----------------------------
(***************************************************************************)
(* The daemon's map of pseudo terminals (PtyManager): create_pty with its  *)
(* idempotency handle, the death of a terminal's program, and kill.        *)
(*                                                                         *)
(* sessions and handles are two maps under two locks and each session has  *)
(* a mutex of its own; no step takes more than the code holds at once.     *)
(* What a terminal does while it lives is PtySession's.                    *)
(***************************************************************************)
EXTENDS Naturals, FiniteSets

CONSTANTS
  Caller,       \* calls of CreatePty that may run at once
  Handle,       \* idempotency handles
  None,
  MaxSessions,  \* bound on the terminals created
  MaxKills      \* bound on the calls of KillPty

ASSUME HandlesAssumption ==
  /\ None \notin Handle /\ None \notin Nat
  /\ MaxSessions \in Nat /\ MaxKills \in Nat

VARIABLES
  sessions,   \* ids in the sessions map
  handles,    \* handle -> id
  counter,    \* ids handed out
  claim,      \* PtySession.handle: what kill releases
  program,    \* "none", "running", "dead", "reaped": exit_code is set
  call,       \* what each CreatePty call is doing
  killing,    \* per id: "no", "unlisted", "signalled", "over"
  kills       \* calls of KillPty so far
VARIABLES
  raced       \* history: handles two calls were creating a terminal for at once
vars == <<sessions, handles, counter, claim, program, call, killing, kills, raced>>

Id == 1..MaxSessions
Idle == [at |-> "idle"]
At(step, h, i) == [at |-> step, handle |-> h, id |-> i]
Step == {"lookedUp", "fetched", "forking", "listing", "claiming"}

TypeOK ==
  /\ sessions \subseteq Id /\ counter \in 0..MaxSessions
  /\ handles \in [Handle -> Id \cup {None}]
  /\ claim \in [Id -> Handle \cup {None}]
  /\ program \in [Id -> {"none", "running", "dead", "reaped"}]
  /\ call \in [Caller -> {Idle} \cup
                 {At(s, h, i) : s \in Step, h \in Handle, i \in Id \cup {None}}]
  /\ killing \in [Id -> {"no", "unlisted", "signalled", "over"}]
  /\ kills \in Nat /\ raced \subseteq Handle

Init ==
  /\ sessions = {} /\ counter = 0
  /\ handles = [h \in Handle |-> None]
  /\ claim = [i \in Id |-> None]
  /\ program = [i \in Id |-> "none"]
  /\ call = [c \in Caller |-> Idle]
  /\ killing = [i \in Id |-> "no"] /\ kills = 0
  /\ raced = {}

-----------------------------------------------------------------------------
(* create_pty                                                              *)

Goes(c, step, h, i) == call' = [call EXCEPT ![c] = At(step, h, i)]
Returns(c) == call' = [call EXCEPT ![c] = Idle]

Creating(h) == {c \in Caller : call[c] # Idle /\ call[c].handle = h}

LookUpHandle(c, h) ==
  /\ call[c] = Idle /\ counter < MaxSessions
  /\ Goes(c, IF handles[h] = None THEN "forking" ELSE "lookedUp", h, handles[h])
  /\ raced' = IF Creating(h) = {} THEN raced ELSE raced \cup {h}
  /\ UNCHANGED <<sessions, handles, counter, claim, program, killing, kills>>

FetchSession(c) ==
  /\ call[c].at = "lookedUp"
  /\ Goes(c, IF call[c].id \in sessions THEN "fetched" ELSE "forking",
          call[c].handle, call[c].id)
  /\ UNCHANGED <<sessions, handles, counter, claim, program, killing, kills, raced>>

\* The live terminal is returned; one whose program exited is replaced.
CheckExitCode(c) ==
  /\ call[c].at = "fetched"
  /\ IF program[call[c].id] = "reaped"
     THEN Goes(c, "forking", call[c].handle, call[c].id)
     ELSE Returns(c)
  /\ UNCHANGED <<sessions, handles, counter, claim, program, killing, kills, raced>>

\* forkpty fails: the call returns an error.
ForkFails(c) ==
  /\ call[c].at = "forking"
  /\ Returns(c)
  /\ UNCHANGED <<sessions, handles, counter, claim, program, killing, kills, raced>>

Fork(c) ==
  /\ call[c].at = "forking" /\ counter < MaxSessions
  /\ counter' = counter + 1
  /\ program' = [program EXCEPT ![counter'] = "running"]
  /\ claim' = [claim EXCEPT ![counter'] = call[c].handle]
  /\ Goes(c, "listing", call[c].handle, counter')
  /\ UNCHANGED <<sessions, handles, killing, kills, raced>>

InsertSession(c) ==
  /\ call[c].at = "listing"
  /\ sessions' = sessions \cup {call[c].id}
  /\ Goes(c, "claiming", call[c].handle, call[c].id)
  /\ UNCHANGED <<handles, counter, claim, program, killing, kills, raced>>

\* The handle is claimed, the reader and the wait task start, the id is returned.
ClaimHandle(c) ==
  /\ call[c].at = "claiming"
  /\ handles' = [handles EXCEPT ![call[c].handle] = call[c].id]
  /\ Returns(c)
  /\ UNCHANGED <<sessions, counter, claim, program, killing, kills, raced>>

-----------------------------------------------------------------------------
(* The end of a program, and kill                                          *)

Dies(i) ==
  /\ program[i] = "running"
  /\ program' = [program EXCEPT ![i] = "dead"]
  /\ UNCHANGED <<sessions, handles, counter, claim, call, killing, kills, raced>>

\* The wait task is started when the call that created the terminal returns.
WaitedFor(i) == \A c \in Caller : ~(call[c].at \in {"listing", "claiming"} /\ call[c].id = i)
Reap(i) ==
  /\ program[i] = "dead" /\ WaitedFor(i)
  /\ program' = [program EXCEPT ![i] = "reaped"]
  /\ UNCHANGED <<sessions, handles, counter, claim, call, killing, kills, raced>>

Kill(i) ==
  /\ i \in sessions /\ kills < MaxKills
  /\ sessions' = sessions \ {i}
  /\ killing' = [killing EXCEPT ![i] = "unlisted"]
  /\ kills' = kills + 1
  /\ UNCHANGED <<handles, counter, claim, program, call, raced>>

\* Mutant: the handle is released whoever has it.
ReleaseHandleUnchecked(i) ==
  handles' = [h \in Handle |-> IF h = claim[i] THEN None ELSE handles[h]]

\* Under the session's mutex: the handle is released if it is still this
\* session's, and the program is asked to end, which it may ignore.
ReleaseHandle(i) ==
  handles' = [h \in Handle |-> IF h = claim[i] /\ handles[h] = i THEN None ELSE handles[h]]

Terminate(i) ==
  /\ killing[i] = "unlisted"
  /\ ReleaseHandle(i)
  /\ claim' = [claim EXCEPT ![i] = None]
  /\ killing' = [killing EXCEPT ![i] = "signalled"]
  /\ UNCHANGED <<sessions, counter, program, call, kills, raced>>

\* The exit is broadcast within five seconds, or the program is killed.
ExitObserved(i) == killing[i] = "signalled" /\ program[i] = "reaped" /\ program' = program
SigKill(i) ==
  /\ killing[i] = "signalled" /\ program[i] \in {"running", "dead"}
  /\ program' = [program EXCEPT ![i] = "dead"]

\* Mutant: kill waits for the exit for ever.
FallbackNever(i) ==
  /\ ExitObserved(i)
  /\ killing' = [killing EXCEPT ![i] = "over"]
  /\ UNCHANGED <<sessions, handles, counter, claim, call, kills, raced>>

Fallback(i) ==
  /\ ExitObserved(i) \/ SigKill(i)
  /\ killing' = [killing EXCEPT ![i] = "over"]
  /\ UNCHANGED <<sessions, handles, counter, claim, call, kills, raced>>

-----------------------------------------------------------------------------
CreatePty(c) ==
  \/ \E h \in Handle : LookUpHandle(c, h)
  \/ FetchSession(c) \/ CheckExitCode(c) \/ ForkFails(c) \/ Fork(c)
  \/ InsertSession(c) \/ ClaimHandle(c)
Next ==
  \/ \E c \in Caller : CreatePty(c)
  \/ \E i \in Id : Dies(i) \/ Reap(i) \/ Kill(i) \/ Terminate(i) \/ Fallback(i)

Spec == Init /\ [][Next]_vars
\* The daemon's tasks run, and its waits end.
Fairness ==
  /\ \A c \in Caller : WF_vars(InsertSession(c) \/ ClaimHandle(c))
  /\ \A i \in Id : WF_vars(Reap(i)) /\ WF_vars(Terminate(i)) /\ WF_vars(Fallback(i))

-----------------------------------------------------------------------------
(* Properties                                                              *)

Live(i) == i \in sessions /\ program[i] # "reaped"
Claimed(i) == \A c \in Caller : ~(call[c].at = "claiming" /\ call[c].id = i)

\* A live terminal is found under its handle, so that a repeated create gets it
\* back and no duplicate orphans it, as the comment on handles says; whichever
\* terminals of the handle exited, were replaced or are being killed meanwhile.
\* The exception is a handle for which two calls were under way at once.
LiveIsFound ==
  \A i \in Id : Live(i) /\ Claimed(i) /\ claim[i] \notin raced => handles[claim[i]] = i

\* A killed terminal's program ends and is waited for, also when it ignores
\* SIGTERM and when its exit and the fallback race.
KilledEnds == \A i \in Id : killing[i] # "no" ~> program[i] = "reaped"
=============================================================================
