---------------------------- MODULE Parts_proofs ----------------------------
(***************************************************************************)
(* Theorems about the components that MCParts puts side by side, for every *)
(* value of their constants.  Each is about the specification of its       *)
(* component, which MCParts extends or instantiates.                       *)
(***************************************************************************)
EXTENDS MCParts, Sequences, FiniteSetTheorems, WellFoundedInduction, TLAPS

-----------------------------------------------------------------------------
(* Terminals and their handles (PtyHandles, which MCParts extends).        *)

\* A call that is not idle has a handle, a step and an id.
LEMMA CallShape ==
  ASSUME TypeOK, NEW c \in Caller, call[c].at # "idle"
  PROVE  /\ call[c] # Idle /\ call[c].at \in Step
         /\ call[c].handle \in Handle /\ call[c].id \in Id \cup {None}
BY DEF TypeOK, Idle, At, Step

LEMMA IdleOrBusy ==
  ASSUME TypeOK, NEW c \in Caller
  PROVE  call[c] = Idle <=> call[c].at = "idle"
BY DEF TypeOK, Idle, At, Step

LEMMA GoesType ==
  ASSUME TypeOK, NEW c \in Caller, NEW s \in Step, NEW h \in Handle,
         NEW i \in Id \cup {None}, Goes(c, s, h, i)
  PROVE  /\ call' \in [Caller -> {Idle} \cup
                 {At(u, k, j) : u \in Step, k \in Handle, j \in Id \cup {None}}]
         /\ call'[c].at = s /\ call'[c].handle = h /\ call'[c].id = i
         /\ \A d \in Caller \ {c} : call'[d] = call[d]
<1>1. At(s, h, i) \in {At(u, k, j) : u \in Step, k \in Handle, j \in Id \cup {None}}
  OBVIOUS
<1>2. At(s, h, i).at = s /\ At(s, h, i).handle = h /\ At(s, h, i).id = i
  BY DEF At
<1>3. call' = [call EXCEPT ![c] = At(s, h, i)]
  BY DEF Goes
<1> QED
  BY <1>1, <1>2, <1>3 DEF TypeOK

LEMMA ReturnsType ==
  ASSUME TypeOK, NEW c \in Caller, Returns(c)
  PROVE  /\ call' \in [Caller -> {Idle} \cup
                 {At(u, k, j) : u \in Step, k \in Handle, j \in Id \cup {None}}]
         /\ call'[c] = Idle
         /\ \A d \in Caller \ {c} : call'[d] = call[d]
BY DEF Returns, TypeOK

-----------------------------------------------------------------------------
(* Types.  A call that lists or claims a terminal forked it: its id is one *)
(* that was handed out.                                                    *)

Forked ==
  \A c \in Caller : call[c].at \in {"listing", "claiming"} => call[c].id \in 1..counter

Typed == TypeOK /\ Forked

LEMMA CounterType ==
  ASSUME TypeOK
  PROVE  counter \in Nat /\ counter <= MaxSessions /\ MaxSessions \in Nat
         /\ (counter < MaxSessions => counter + 1 \in Id) /\ Id \subseteq Nat
         /\ \A i \in 1..counter : i \in Id
BY HandlesAssumption DEF TypeOK, Id

LEMMA CreateType ==
  ASSUME Typed, NEW c \in Caller, CreatePty(c)
  PROVE  Typed'
<1> USE DEF Typed
<1>1. ASSUME NEW h \in Handle, LookUpHandle(c, h) PROVE Typed'
  <2>1. handles[h] \in Id \cup {None}
    BY DEF TypeOK
  <2>2. PICK s \in {"forking", "lookedUp"} : Goes(c, s, h, handles[h])
    BY <1>1 DEF LookUpHandle
  <2>3. s \in Step
    BY DEF Step
  <2>4. raced' \subseteq Handle
    BY <1>1 DEF LookUpHandle, TypeOK
  <2>5. TypeOK'
    BY <1>1, <2>1, <2>2, <2>3, <2>4, GoesType DEF LookUpHandle, TypeOK
  <2>6. call'[c].at = s /\ \A d \in Caller \ {c} : call'[d] = call[d]
    BY <2>1, <2>2, <2>3, GoesType
  <2> QED
    BY <1>1, <2>5, <2>6 DEF LookUpHandle, Forked
<1>2. CASE FetchSession(c)
  <2>1. call[c].handle \in Handle /\ call[c].id \in Id \cup {None}
    BY <1>2, CallShape DEF FetchSession
  <2>2. PICK s \in {"fetched", "forking"} : Goes(c, s, call[c].handle, call[c].id)
    BY <1>2 DEF FetchSession
  <2>3. s \in Step
    BY DEF Step
  <2>4. TypeOK /\ Goes(c, s, call[c].handle, call[c].id)
    BY <2>2
  <2>5. TypeOK'
    BY <1>2, <2>1, <2>3, <2>4, GoesType DEF FetchSession, TypeOK
  <2>6. call'[c].at = s /\ \A d \in Caller \ {c} : call'[d] = call[d]
    BY <2>1, <2>3, <2>4, GoesType
  <2> QED
    BY <1>2, <2>5, <2>6 DEF FetchSession, Forked
<1>3. ASSUME Returns(c), UNCHANGED <<sessions, counter, claim, program, killing, kills, raced>>,
             handles' \in [Handle -> Id \cup {None}]
      PROVE  Typed'
  <2>1. TypeOK'
    BY <1>3, ReturnsType DEF TypeOK
  <2>2. call'[c].at = "idle" /\ \A d \in Caller \ {c} : call'[d] = call[d]
    BY <1>3, ReturnsType DEF Idle
  <2> QED
    BY <1>3, <2>1, <2>2 DEF Forked
<1>4. CASE CheckExitCode(c)
  <2>1. CASE Goes(c, "forking", call[c].handle, call[c].id)
    <3>1. call[c].handle \in Handle /\ call[c].id \in Id \cup {None} /\ "forking" \in Step
      BY <1>4, CallShape DEF CheckExitCode, Step
    <3>2. TypeOK'
      BY <1>4, <2>1, <3>1, GoesType DEF CheckExitCode, TypeOK
    <3>3. call'[c].at = "forking" /\ \A d \in Caller \ {c} : call'[d] = call[d]
      BY <2>1, <3>1, GoesType
    <3> QED
      BY <1>4, <3>2, <3>3 DEF CheckExitCode, Forked
  <2>2. CASE Returns(c)
    BY <1>3, <1>4, <2>2 DEF CheckExitCode, TypeOK
  <2> QED
    BY <1>4, <2>1, <2>2 DEF CheckExitCode
<1>5. CASE ForkFails(c)
  BY <1>3, <1>5 DEF ForkFails, TypeOK
<1>6. CASE Fork(c)
  <2>1. counter' = counter + 1 /\ counter' \in Id /\ counter' \in 0..MaxSessions /\ counter \in Nat
    BY <1>6, CounterType DEF Fork
  <2>2. call[c].handle \in Handle /\ "listing" \in Step
    BY <1>6, CallShape DEF Fork, Step
  <2>3. Goes(c, "listing", call[c].handle, counter')
    BY <1>6 DEF Fork
  <2>4. program' \in [Id -> {"none", "running", "dead", "reaped"}]
    BY <1>6, <2>1 DEF Fork, TypeOK
  <2>5. claim' \in [Id -> Handle \cup {None}]
    BY <1>6, <2>1, <2>2 DEF Fork, TypeOK
  <2>6. TypeOK'
    BY <1>6, <2>1, <2>2, <2>3, <2>4, <2>5, GoesType DEF Fork, TypeOK
  <2>7. call'[c].id = counter' /\ \A d \in Caller \ {c} : call'[d] = call[d]
    BY <2>1, <2>2, <2>3, GoesType
  <2>8. \A i \in 1..counter : i \in 1..counter'
    BY <2>1
  <2> QED
    BY <2>1, <2>6, <2>7, <2>8 DEF Forked
<1>7. CASE InsertSession(c)
  <2>1. call[c].handle \in Handle /\ call[c].id \in Id /\ call[c].id \in 1..counter
    BY <1>7, CallShape, CounterType DEF InsertSession, Forked
  <2>2. "claiming" \in Step /\ Goes(c, "claiming", call[c].handle, call[c].id)
    BY <1>7 DEF InsertSession, Step
  <2>3. TypeOK'
    BY <1>7, <2>1, <2>2, GoesType DEF InsertSession, TypeOK
  <2>4. call'[c].id = call[c].id /\ \A d \in Caller \ {c} : call'[d] = call[d]
    BY <2>1, <2>2, GoesType
  <2> QED
    BY <1>7, <2>1, <2>3, <2>4 DEF InsertSession, Forked
<1>8. CASE ClaimHandle(c)
  <2>1. call[c].handle \in Handle /\ call[c].id \in Id
    BY <1>8, CallShape, CounterType DEF ClaimHandle, Forked
  <2>2. handles' \in [Handle -> Id \cup {None}]
    BY <1>8, <2>1 DEF ClaimHandle, TypeOK
  <2> QED
    BY <1>3, <1>8, <2>2 DEF ClaimHandle
<1> QED
  BY <1>1, <1>2, <1>4, <1>5, <1>6, <1>7, <1>8 DEF CreatePty

LEMMA EndType ==
  ASSUME Typed, NEW i \in Id, Dies(i) \/ Reap(i) \/ Kill(i) \/ Terminate(i) \/ Fallback(i)
  PROVE  Typed'
<1> USE DEF Typed
<1>1. CASE Dies(i) \/ Reap(i)
  BY <1>1 DEF Dies, Reap, TypeOK, Forked
<1>2. CASE Kill(i)
  BY <1>2 DEF Kill, TypeOK, Forked
<1>3. CASE Terminate(i)
  <2>1. handles' \in [Handle -> Id \cup {None}]
    BY <1>3 DEF Terminate, ReleaseHandle, TypeOK
  <2> QED
    BY <1>3, <2>1 DEF Terminate, TypeOK, Forked
<1>4. CASE Fallback(i)
  BY <1>4 DEF Fallback, ExitObserved, SigKill, TypeOK, Forked
<1> QED
  BY <1>1, <1>2, <1>3, <1>4

LEMMA TypedAlways == Spec => []Typed
<1>1. Init => Typed
  BY HandlesAssumption DEF Init, Typed, TypeOK, Forked, Idle
<1>2. Typed /\ [Next]_vars => Typed'
  <2> SUFFICES ASSUME Typed, [Next]_vars PROVE Typed'
    OBVIOUS
  <2>1. CASE UNCHANGED vars
    BY <2>1 DEF vars, Typed, TypeOK, Forked
  <2> QED
    BY <2>1, CreateType, EndType DEF Next
<1> QED
  BY <1>1, <1>2, PTL DEF Spec

\* Ids, handles and claims keep their types: no id outside those handed out is
\* ever listed, claimed or signalled.
THEOREM TypeCorrect == Spec => []TypeOK
BY TypedAlways, PTL DEF Typed

-----------------------------------------------------------------------------
(* A live terminal is found.  A handle that never had two calls at once has *)
(* at most one call creating a terminal for it; from the moment that call   *)
(* finds no live terminal until it claims the handle there is none but the  *)
(* one it forked.                                                          *)

Holds(c) == call[c].at \in {"listing", "claiming"}

Listed ==
  /\ \A i \in sessions : i \in 1..counter /\ claim[i] \in Handle /\ killing[i] = "no"
  /\ \A i \in Id \ (1..counter) : killing[i] = "no"
  /\ \A c \in Caller : call[c].at = "listing" =>
       call[c].id \notin sessions /\ killing[call[c].id] = "no"
  /\ \A c \in Caller : Holds(c) => claim[call[c].id] \in {call[c].handle, None}
  /\ \A c \in Caller : call[c].at = "listing" => claim[call[c].id] = call[c].handle
  /\ \A c, d \in Caller : Holds(c) /\ Holds(d) /\ call[c].id = call[d].id => c = d

Alone ==
  \A c, d \in Caller :
    call[c] # Idle /\ call[d] # Idle /\ call[c].handle = call[d].handle
      /\ call[c].handle \notin raced => c = d

OnlyIts ==
  \A c \in Caller : call[c] # Idle /\ call[c].handle \notin raced =>
    \A i \in Id : Live(i) /\ claim[i] = call[c].handle =>
      call[c].at \in {"lookedUp", "fetched", "claiming"} /\ i = call[c].id

Found == Listed /\ Alone /\ OnlyIts /\ LiveIsFound

\* The part that is about ids and locks alone.
LEMMA ListedStep == Typed /\ Listed /\ [Next]_vars => Listed'
<1> SUFFICES ASSUME Typed, Listed, [Next]_vars PROVE Listed'
  OBVIOUS
<1> USE DEF Typed
<1>0. counter \in Nat /\ Id \subseteq Nat /\ \A c \in Caller : Holds(c) => call[c].id \in Id
  BY CounterType DEF Forked, Holds
<1>1. ASSUME NEW c \in Caller, UNCHANGED <<sessions, counter, claim, killing>>,
             \A d \in Caller \ {c} : call'[d] = call[d],
             call'[c].at \notin {"listing", "claiming"}
      PROVE  Listed'
  BY <1>1 DEF Listed, Holds
<1>2. ASSUME NEW c \in Caller, CreatePty(c) PROVE Listed'
  <2>1. CASE \E h \in Handle : LookUpHandle(c, h)
    <3>1. PICK h \in Handle : LookUpHandle(c, h)
      BY <2>1
    <3>2. handles[h] \in Id \cup {None} /\ {"forking", "lookedUp"} \subseteq Step
      BY DEF TypeOK, Step
    <3>3. PICK s \in {"forking", "lookedUp"} : Goes(c, s, h, handles[h])
      BY <3>1 DEF LookUpHandle
    <3>4. call'[c].at = s /\ \A d \in Caller \ {c} : call'[d] = call[d]
      BY <3>2, <3>3, GoesType
    <3> QED
      BY <1>1, <3>1, <3>4 DEF LookUpHandle
  <2>2. ASSUME NEW s \in {"fetched", "forking"}, Goes(c, s, call[c].handle, call[c].id),
               call[c].at # "idle", UNCHANGED <<sessions, counter, claim, killing>>
        PROVE  Listed'
    <3>1. call[c].handle \in Handle /\ call[c].id \in Id \cup {None} /\ s \in Step
      BY <2>2, CallShape DEF Step
    <3>2. call'[c].at = s /\ \A d \in Caller \ {c} : call'[d] = call[d]
      BY <2>2, <3>1, GoesType
    <3> QED
      BY <1>1, <2>2, <3>2
  <2>3. ASSUME Returns(c), UNCHANGED <<sessions, counter, claim, killing>> PROVE Listed'
    <3>1. call'[c].at = "idle" /\ \A d \in Caller \ {c} : call'[d] = call[d]
      BY <2>3, ReturnsType DEF Idle
    <3> QED
      BY <1>1, <2>3, <3>1
  <2>4. CASE FetchSession(c) \/ CheckExitCode(c) \/ ForkFails(c) \/ ClaimHandle(c)
    BY <2>2, <2>3, <2>4 DEF FetchSession, CheckExitCode, ForkFails, ClaimHandle
  <2>5. CASE Fork(c)
    <3>1. /\ counter' = counter + 1 /\ counter' \in Id /\ call[c].handle \in Handle
          /\ "listing" \in Step /\ Goes(c, "listing", call[c].handle, counter')
      BY <2>5, CounterType, CallShape DEF Fork, Step
    <3>2. /\ call'[c].at = "listing" /\ call'[c].handle = call[c].handle
          /\ call'[c].id = counter' /\ \A d \in Caller \ {c} : call'[d] = call[d]
      BY <3>1, GoesType
    <3>3. /\ UNCHANGED <<sessions, killing>> /\ claim'[counter'] = call[c].handle
          /\ \A i \in Id \ {counter'} : claim'[i] = claim[i]
      BY <2>5, <3>1 DEF Fork, TypeOK
    <3>4. counter' \notin 1..counter /\ \A i \in 1..counter : i \in 1..counter' /\ i \in Id
      BY <1>0, <3>1, CounterType
    <3>5. \A i \in Id \ (1..counter') : i \notin 1..counter
      BY <1>0, <3>1
    <3>6. \A d \in Caller : Holds(d) => call[d].id \in 1..counter
      BY DEF Forked, Holds
    <3>7. \A i \in sessions : i \in 1..counter' /\ claim'[i] \in Handle /\ killing'[i] = "no"
      BY <3>3, <3>4 DEF Listed
    <3>8. counter' \notin sessions /\ killing[counter'] = "no"
      BY <3>1, <3>4 DEF Listed
    <3> QED
      BY <3>1, <3>2, <3>3, <3>4, <3>5, <3>6, <3>7, <3>8 DEF Listed, Holds
  <2>6. CASE InsertSession(c)
    <3>1. /\ call[c].handle \in Handle /\ call[c].id \in Id /\ call[c].id \in 1..counter
          /\ "claiming" \in Step /\ Goes(c, "claiming", call[c].handle, call[c].id)
      BY <1>0, <2>6, CallShape DEF InsertSession, Step, Forked, Holds
    <3>2. /\ call'[c].at = "claiming" /\ call'[c].handle = call[c].handle
          /\ call'[c].id = call[c].id /\ \A d \in Caller \ {c} : call'[d] = call[d]
      BY <3>1, GoesType
    <3>3. UNCHANGED <<counter, claim, killing>> /\ sessions' = sessions \cup {call[c].id}
      BY <2>6 DEF InsertSession
    <3>4. call[c].at = "listing" /\ claim[call[c].id] = call[c].handle /\ killing[call[c].id] = "no"
      BY <2>6 DEF InsertSession, Listed
    <3>5. \A d \in Caller \ {c} : Holds(d) => call[d].id # call[c].id
      BY <3>4 DEF Listed, Holds
    <3> QED
      BY <3>1, <3>2, <3>3, <3>4, <3>5 DEF Listed, Holds
  <2> QED
    BY <1>2, <2>1, <2>4, <2>5, <2>6 DEF CreatePty
<1>3. ASSUME NEW i \in Id, Dies(i) \/ Reap(i) PROVE Listed'
  BY <1>3 DEF Dies, Reap, Listed, Holds
<1>4. ASSUME NEW i \in Id, Kill(i) PROVE Listed'
  <2>1. i \in sessions /\ i \in 1..counter /\ UNCHANGED <<counter, claim, call>>
    BY <1>4 DEF Kill, Listed
  <2>2. killing'[i] = "unlisted" /\ \A k \in Id \ {i} : killing'[k] = killing[k]
    BY <1>4 DEF Kill, TypeOK
  <2>3. sessions' = sessions \ {i} /\ sessions \subseteq Id
    BY <1>4 DEF Kill, TypeOK
  <2>4. \A c \in Caller : call[c].at = "listing" => call[c].id # i /\ call[c].id \in Id
    BY <1>0, <2>1 DEF Listed, Holds
  <2> QED
    BY <2>1, <2>2, <2>3, <2>4 DEF Listed, Holds
<1>5. ASSUME NEW i \in Id, Terminate(i) PROVE Listed'
  <2>1. i \notin sessions /\ i \in 1..counter /\ UNCHANGED <<sessions, counter, call>>
    BY <1>5 DEF Terminate, Listed
  <2>2. killing'[i] = "signalled" /\ \A k \in Id \ {i} : killing'[k] = killing[k]
    BY <1>5 DEF Terminate, TypeOK
  <2>3. claim'[i] = None /\ \A k \in Id \ {i} : claim'[k] = claim[k]
    BY <1>5 DEF Terminate, TypeOK
  <2>4. \A c \in Caller : call[c].at = "listing" => call[c].id # i
    BY <1>5 DEF Terminate, Listed
  <2>5. sessions \subseteq Id
    BY DEF TypeOK
  <2> QED
    BY <1>0, <2>1, <2>2, <2>3, <2>4, <2>5, ZenonT(60) DEF Listed, Holds
<1>6. ASSUME NEW i \in Id, Fallback(i) PROVE Listed'
  <2>1. i \notin sessions /\ i \in 1..counter /\ UNCHANGED <<sessions, counter, claim, call>>
    BY <1>6 DEF Fallback, ExitObserved, SigKill, Listed
  <2>2. \A k \in Id \ {i} : killing'[k] = killing[k]
    BY <1>6 DEF Fallback, TypeOK
  <2>3. \A c \in Caller : call[c].at = "listing" => call[c].id # i
    BY <1>6 DEF Fallback, ExitObserved, SigKill, Listed
  <2>4. sessions \subseteq Id
    BY DEF TypeOK
  <2> QED
    BY <1>0, <2>1, <2>2, <2>3, <2>4 DEF Listed, Holds
<1>7. CASE UNCHANGED vars
  BY <1>7 DEF vars, Listed, Holds
<1> QED
  BY <1>2, <1>3, <1>4, <1>5, <1>6, <1>7 DEF Next

\* Steps of no call: terminals may only stop being live.
LEMMA FoundEnds ==
  ASSUME Typed, Found, UNCHANGED <<call, raced>>,
         \A i \in Id : Live(i)' => Live(i) /\ claim'[i] = claim[i],
         \A i \in Id : Live(i)' => (handles[claim[i]] = i => handles'[claim[i]] = i)
  PROVE  Alone' /\ OnlyIts' /\ LiveIsFound'
<1>1. Alone'
  BY DEF Found, Alone
<1>2. OnlyIts'
  BY DEF Found, OnlyIts
<1>3. LiveIsFound'
  BY DEF Found, LiveIsFound, Claimed
<1> QED
  BY <1>1, <1>2, <1>3

\* Steps of a call that neither list a terminal nor claim the handle.
LEMMA FoundCreating ==
  ASSUME Typed, Found, NEW c \in Caller, NEW s \in Step \ {"claiming"},
         call[c].at # "idle", raced' = raced, handles' = handles,
         call'[c].at = s, call'[c].handle = call[c].handle,
         call[c].at # "claiming",
         \A d \in Caller \ {c} : call'[d] = call[d],
         \A i \in Id : Live(i)' => Live(i) /\ claim'[i] = claim[i],
         call[c].handle \notin raced =>
           \A i \in Id : Live(i)' /\ claim'[i] = call[c].handle =>
             s \in {"lookedUp", "fetched"} /\ i = call'[c].id
  PROVE  Alone' /\ OnlyIts' /\ LiveIsFound'
<1>0. call[c] # Idle /\ \A d \in Caller \ {c} : call'[d] # Idle <=> call[d] # Idle
  BY CallShape DEF Typed
<1>1. Alone'
  BY <1>0 DEF Found, Alone
<1>2. OnlyIts'
  BY <1>0 DEF Found, OnlyIts
<1>3. \A i \in Id : Claimed(i)' => Claimed(i)
  BY DEF Claimed, Step
<1>4. LiveIsFound'
  BY <1>3 DEF Found, LiveIsFound
<1> QED
  BY <1>1, <1>2, <1>4

LEMMA FoundLookUp ==
  ASSUME Typed, Found, NEW c \in Caller, NEW h \in Handle, LookUpHandle(c, h)
  PROVE  Alone' /\ OnlyIts' /\ LiveIsFound'
<1>0. /\ call[c] = Idle
      /\ UNCHANGED <<sessions, handles, counter, claim, program>>
      /\ raced' = IF Creating(h) = {} THEN raced ELSE raced \cup {h}
  BY DEF LookUpHandle
<1>1. PICK s \in {"forking", "lookedUp"} :
        Goes(c, s, h, handles[h]) /\ (s = "forking" => handles[h] = None)
  BY DEF LookUpHandle
<1>2. /\ call'[c].at = s /\ call'[c].handle = h /\ call'[c].id = handles[h]
      /\ \A d \in Caller \ {c} : call'[d] = call[d]
  <2>1. s \in Step /\ handles[h] \in Id \cup {None}
    BY DEF Step, Typed, TypeOK
  <2> QED
    BY <1>1, <2>1, GoesType DEF Typed
<1>3. ASSUME h \notin raced' PROVE Creating(h) = {}
  BY <1>0, <1>3
<1>4. ASSUME h \notin raced', NEW i \in Id, Live(i), claim[i] = h PROVE handles[h] = i
  <2>1. ASSUME NEW d \in Caller, call[d].at = "claiming", call[d].id = i PROVE FALSE
    <3>1. call[d].handle = h
      <4>1. claim[i] \in Handle /\ claim[i] \in {call[d].handle, None}
        BY <1>4, <2>1 DEF Found, Listed, Live, Holds
      <4> QED
        BY <1>4, <4>1, HandlesAssumption
    <3>2. call[d] # Idle
      BY <2>1, CallShape DEF Typed
    <3> QED
      BY <1>3, <1>4, <3>1, <3>2 DEF Creating
  <2>2. Claimed(i)
    BY <2>1 DEF Claimed
  <2>3. h \notin raced
    BY <1>0, <1>4
  <2> QED
    BY <1>4, <2>2, <2>3 DEF Found, LiveIsFound
<1>5. Alone'
  <2>1. \A d \in Caller : d # c /\ call[d] # Idle /\ call[d].handle = h => h \in raced'
    BY <1>3 DEF Creating
  <2>2. raced \subseteq raced'
    BY <1>0
  <2> QED
    BY <1>2, <2>1, <2>2 DEF Found, Alone
<1>6. OnlyIts'
  <2>1. raced \subseteq raced' /\ \A i \in Id : Live(i)' <=> Live(i)
    BY <1>0 DEF Live
  <2>2. ASSUME h \notin raced', NEW i \in Id, Live(i)', claim'[i] = h
        PROVE  s = "lookedUp" /\ i = handles[h]
    <3>1. handles[h] = i
      BY <1>0, <1>4, <2>1, <2>2
    <3>2. i # None
      BY HandlesAssumption DEF Id
    <3> QED
      BY <1>1, <3>1, <3>2
  <2> QED
    BY <1>0, <1>2, <2>1, <2>2 DEF Found, OnlyIts
<1>7. LiveIsFound'
  <2>1. \A i \in Id : Claimed(i)' => Claimed(i)
    BY <1>0, <1>2 DEF Claimed, Idle
  <2>2. raced \subseteq raced' /\ \A i \in Id : Live(i)' <=> Live(i)
    BY <1>0 DEF Live
  <2> QED
    BY <1>0, <2>1, <2>2 DEF Found, LiveIsFound
<1> QED
  BY <1>5, <1>6, <1>7

LEMMA FoundReturns ==
  ASSUME Typed, Found, NEW c \in Caller, Returns(c), call[c].at # "claiming",
         UNCHANGED <<sessions, handles, claim, program, raced>>
  PROVE  Alone' /\ OnlyIts' /\ LiveIsFound'
<1>1. call'[c] = Idle /\ \A d \in Caller \ {c} : call'[d] = call[d]
  BY ReturnsType DEF Typed
<1>2. Alone'
  BY <1>1 DEF Found, Alone
<1>3. OnlyIts'
  BY <1>1 DEF Found, OnlyIts, Live
<1>4. LiveIsFound'
  <2>1. \A i \in Id : Claimed(i)' => Claimed(i)
    BY <1>1 DEF Claimed, Idle
  <2> QED
    BY <2>1 DEF Found, LiveIsFound, Live
<1> QED
  BY <1>2, <1>3, <1>4

LEMMA FoundInsert ==
  ASSUME Typed, Found, NEW c \in Caller, InsertSession(c)
  PROVE  Alone' /\ OnlyIts' /\ LiveIsFound'
<1> DEFINE j == call[c].id
           h == call[c].handle
<1>1. /\ call[c].at = "listing" /\ sessions' = sessions \cup {j}
      /\ UNCHANGED <<handles, claim, program, raced>> /\ Goes(c, "claiming", h, j)
  BY DEF InsertSession
<1>2. j \in Id /\ h \in Handle /\ claim[j] = h /\ call[c] # Idle
  BY <1>1, CallShape, CounterType DEF Typed, Forked, Found, Listed
<1>3. /\ call'[c].at = "claiming" /\ call'[c].handle = h /\ call'[c].id = j
      /\ call'[c] # Idle /\ \A d \in Caller \ {c} : call'[d] = call[d]
  BY <1>1, <1>2, GoesType DEF Typed, Step, Idle
<1>4. \A i \in Id : Live(i)' => Live(i) \/ i = j
  BY <1>1 DEF Live
<1> HIDE DEF j, h
<1>5. Alone'
  <2>1. \A d \in Caller : call'[d] # Idle => call[d] # Idle /\ call'[d].handle = call[d].handle
    BY <1>2, <1>3 DEF h
  <2> QED
    BY <1>1, <2>1 DEF Found, Alone
<1>6. OnlyIts'
  <2>1. ASSUME NEW d \in Caller, d # c, call[d] # Idle, call[d].handle \notin raced
        PROVE  call[d].handle # h
    BY <1>2, <2>1 DEF Found, Alone, h
  <2> QED
    BY <1>1, <1>2, <1>3, <1>4, <2>1 DEF Found, OnlyIts, h
<1>7. LiveIsFound'
  <2>1. \A i \in Id : Claimed(i)' => i # j
    BY <1>2, <1>3 DEF Claimed
  <2>2. \A i \in Id : Claimed(i)' => Claimed(i)
    BY <1>1, <1>3 DEF Claimed
  <2> QED
    BY <1>1, <1>4, <2>1, <2>2 DEF Found, LiveIsFound
<1> QED
  BY <1>5, <1>6, <1>7

LEMMA FoundClaim ==
  ASSUME Typed, Found, NEW c \in Caller, ClaimHandle(c)
  PROVE  Alone' /\ OnlyIts' /\ LiveIsFound'
<1> DEFINE j == call[c].id
           h == call[c].handle
<1>1. /\ call[c].at = "claiming" /\ handles' = [handles EXCEPT ![h] = j]
      /\ UNCHANGED <<sessions, claim, program, raced>> /\ Returns(c)
  BY DEF ClaimHandle
<1>2. /\ j \in Id /\ h \in Handle /\ call[c] # Idle /\ claim[j] \in {h, None}
  BY <1>1, CallShape, CounterType DEF Typed, Forked, Found, Listed, Holds
<1>3. call'[c] = Idle /\ \A d \in Caller \ {c} : call'[d] = call[d]
  BY <1>1, ReturnsType DEF Typed
<1>4. \A i \in Id : Live(i)' <=> Live(i)
  BY <1>1 DEF Live
<1>5. Alone'
  BY <1>1, <1>3 DEF Found, Alone
<1>6. OnlyIts'
  BY <1>1, <1>3, <1>4 DEF Found, OnlyIts
<1>7. LiveIsFound'
  <2> SUFFICES ASSUME NEW i \in Id, Live(i), Claimed(i)', claim[i] \notin raced
               PROVE  handles'[claim[i]] = i
    BY <1>1, <1>4 DEF LiveIsFound
  <2>0. claim[i] \in Handle
    BY DEF Found, Listed, Live
  <2>1. CASE claim[i] = h
    <3>1. i = j
      BY <1>1, <1>2, <2>1 DEF Found, OnlyIts
    <3> QED
      BY <1>1, <2>0, <2>1, <3>1 DEF Typed, TypeOK
  <2>2. CASE claim[i] # h
    <3>1. i # j
      BY <1>2, <2>0, <2>2, HandlesAssumption
    <3>2. Claimed(i)
      BY <1>3, <3>1 DEF Claimed
    <3> QED
      BY <1>1, <2>2, <3>2 DEF Found, LiveIsFound, Typed, TypeOK
  <2> QED
    BY <2>1, <2>2
<1> QED
  BY <1>5, <1>6, <1>7

LEMMA FoundStep == Typed /\ Found /\ [Next]_vars => Found'
<1> SUFFICES ASSUME Typed, Found, [Next]_vars PROVE Alone' /\ OnlyIts' /\ LiveIsFound'
  BY ListedStep DEF Found
<1>1. ASSUME NEW c \in Caller, CreatePty(c) PROVE Alone' /\ OnlyIts' /\ LiveIsFound'
  <2>1. CASE \E h \in Handle : LookUpHandle(c, h)
    BY <2>1, FoundLookUp
  <2>2. ASSUME NEW s \in {"fetched", "forking"}, Goes(c, s, call[c].handle, call[c].id),
               UNCHANGED <<sessions, handles, claim, program, raced>>,
               call[c].at \in {"lookedUp", "fetched"},
               s = "forking" => ~(call[c].id \in Id /\ Live(call[c].id))
        PROVE  Alone' /\ OnlyIts' /\ LiveIsFound'
    <3>1. call[c].handle \in Handle /\ call[c].id \in Id \cup {None} /\ s \in Step /\ call[c] # Idle
      BY <2>2, CallShape DEF Step, Typed
    <3>2. /\ call'[c].at = s /\ call'[c].handle = call[c].handle /\ call'[c].id = call[c].id
          /\ \A d \in Caller \ {c} : call'[d] = call[d]
      BY <2>2, <3>1, GoesType DEF Typed
    <3>3. \A i \in Id : Live(i)' <=> Live(i)
      BY <2>2 DEF Live
    <3>4. call[c].handle \notin raced =>
            \A i \in Id : Live(i) /\ claim[i] = call[c].handle => i = call[c].id
      BY <3>1 DEF Found, OnlyIts
    <3>5. s \in Step \ {"claiming"} /\ call[c].at # "idle" /\ call[c].at # "claiming"
      BY <2>2, <3>1
    <3>6. call[c].handle \notin raced =>
            \A i \in Id : Live(i)' /\ claim'[i] = call[c].handle =>
              s \in {"lookedUp", "fetched"} /\ i = call'[c].id
      BY <2>2, <3>2, <3>3, <3>4
    <3> QED
      BY <2>2, <3>2, <3>3, <3>5, <3>6, FoundCreating
  <2>3. CASE FetchSession(c)
    BY <2>2, <2>3 DEF FetchSession, Live
  <2>4. CASE CheckExitCode(c)
    <3>1. CASE program[call[c].id] = "reaped"
      BY <2>2, <2>4, <3>1 DEF CheckExitCode, Live
    <3>2. CASE program[call[c].id] # "reaped"
      BY <2>4, <3>2, FoundReturns DEF CheckExitCode
    <3> QED
      BY <3>1, <3>2
  <2>5. CASE ForkFails(c)
    BY <2>5, FoundReturns DEF ForkFails
  <2>6. CASE Fork(c)
    <3>1. /\ counter' = counter + 1 /\ counter' \in Id /\ call[c].handle \in Handle
          /\ "listing" \in Step /\ Goes(c, "listing", call[c].handle, counter')
          /\ call[c].at = "forking" /\ call[c] # Idle /\ counter \in Nat
      BY <2>6, CounterType, CallShape DEF Fork, Step, Typed
    <3>2. /\ call'[c].at = "listing" /\ call'[c].handle = call[c].handle
          /\ call'[c].id = counter' /\ \A d \in Caller \ {c} : call'[d] = call[d]
      BY <3>1, GoesType DEF Typed
    <3>3. counter' \notin sessions
      BY <3>1 DEF Found, Listed
    <3>4. \A i \in Id : Live(i)' => Live(i) /\ claim'[i] = claim[i]
      BY <2>6, <3>1, <3>3 DEF Fork, Live, Typed, TypeOK
    <3>5. call[c].handle \notin raced => \A i \in Id : ~(Live(i) /\ claim[i] = call[c].handle)
      BY <3>1 DEF Found, OnlyIts
    <3>6. raced' = raced /\ handles' = handles
      BY <2>6 DEF Fork
    <3> QED
      BY <3>1, <3>2, <3>4, <3>5, <3>6, FoundCreating
  <2>7. CASE InsertSession(c)
    BY <2>7, FoundInsert
  <2>8. CASE ClaimHandle(c)
    BY <2>8, FoundClaim
  <2> QED
    BY <1>1, <2>1, <2>3, <2>4, <2>5, <2>6, <2>7, <2>8 DEF CreatePty
<1>2. ASSUME NEW i \in Id, Dies(i) \/ Reap(i) \/ Fallback(i)
      PROVE  Alone' /\ OnlyIts' /\ LiveIsFound'
  <2>1. UNCHANGED <<sessions, handles, claim, call, raced>>
    BY <1>2 DEF Dies, Reap, Fallback
  <2>2. \A k \in Id : program'[k] # "reaped" => program[k] # "reaped"
    BY <1>2 DEF Dies, Reap, Fallback, ExitObserved, SigKill, Typed, TypeOK
  <2> QED
    BY <2>1, <2>2, FoundEnds DEF Live
<1>3. ASSUME NEW i \in Id, Kill(i) PROVE Alone' /\ OnlyIts' /\ LiveIsFound'
  BY <1>3, FoundEnds DEF Kill, Live
<1>4. ASSUME NEW i \in Id, Terminate(i) PROVE Alone' /\ OnlyIts' /\ LiveIsFound'
  <2>1. i \notin sessions /\ UNCHANGED <<sessions, program, call, raced>>
    BY <1>4 DEF Terminate, Found, Listed
  <2>2. \A k \in Id \ {i} : claim'[k] = claim[k]
    BY <1>4 DEF Terminate, Typed, TypeOK
  <2>3. \A h \in Handle : handles[h] # i => handles'[h] = handles[h]
    BY <1>4 DEF Terminate, ReleaseHandle
  <2>4. \A k \in Id : Live(k) => k # i /\ claim[k] \in Handle
    BY <2>1 DEF Found, Listed, Live
  <2>5. \A k \in Id : Live(k)' <=> Live(k)
    BY <2>1 DEF Live
  <2> QED
    BY <2>1, <2>2, <2>3, <2>4, <2>5, FoundEnds
<1>5. CASE UNCHANGED vars
  BY <1>5, FoundEnds DEF vars, Live
<1> QED
  BY <1>1, <1>2, <1>3, <1>4, <1>5 DEF Next

\* A live terminal is found under its handle: neither the release by a kill that
\* comes late, nor the replacement of a terminal that exited, nor a failed fork
\* makes a repeated create start a duplicate, unless two creates overlapped.
THEOREM LiveTerminalIsFound == Spec => []LiveIsFound
<1>1. Init => Found
  BY DEF Init, Found, Listed, Alone, OnlyIts, LiveIsFound, Live, Holds, Idle
<1>2. Found => LiveIsFound
  BY DEF Found
<1> QED
  BY <1>1, <1>2, FoundStep, TypedAlways, PTL DEF Spec

-----------------------------------------------------------------------------
(* Commands (ExecStream).  The handler sends an exit code after the readers *)
(* have ended, and a reader that has not given up ends when all it read is *)
(* in the channel; so the invariant says of each reader what it has sent.  *)

ExecMsg == {Result, Failure} \cup (Pipe \X Nat)

ExecTyped ==
  /\ handler \in {"starting", "waiting", "draining", "sending", "done", "failing", "failed"}
  /\ child \in {"none", "running", "exited", "reaped"}
  /\ client \in {"reading", "gone"}
  /\ queue \in Seq(ExecMsg) /\ got \in Seq(ExecMsg)
  /\ pipe \in [Pipe -> Nat] /\ written \in [Pipe -> Nat]
  /\ \A p \in Pipe : pipe[p] <= written[p]
  /\ reader \in [Pipe -> {"none", "reading", "sending", "done"}]

(* Before the spawn nothing runs and nothing is written.                   *)
BeforeSpawn ==
  /\ handler = "starting" => child = "none"
  /\ child = "none" => /\ holding = {} /\ handler \in {"starting", "failing", "failed"}
                       /\ \A p \in Pipe : reader[p] = "none"
  /\ \A p \in Pipe : reader[p] = "none" => child = "none" /\ written[p] = 0

ReadersFirst ==
  handler \in {"sending", "done"} => \A p \in Pipe : reader[p] \in {"none", "done"}

SentUpTo(p, n) == \E i \in 1..Len(Exec!Stream) : Exec!Stream[i] = <<p, n>>

AllIsSent ==
  client = "reading" => \A p \in Pipe \ cut :
    /\ reader[p] \in {"reading", "done"} /\ Exec!Unsent(p) > 0 => SentUpTo(p, Exec!Unsent(p))
    /\ reader[p] = "done" => pipe[p] = 0

ResultLast ==
  \A i \in 1..Len(Exec!Stream) :
    /\ Exec!Stream[i] = Result => i = Len(Exec!Stream) /\ handler = "done"
    /\ Exec!Stream[i] = Failure => handler = "failed"

ExecInv == ExecTyped /\ BeforeSpawn /\ ReadersFirst /\ AllIsSent /\ ResultLast

-----------------------------------------------------------------------------
(* What happens to the stream: something is added at its end, something of *)
(* the queue is delivered, or the client goes and with it what is queued.  *)

LEMMA StreamKept ==
  ASSUME ExecTyped, UNCHANGED <<queue, got>>
  PROVE  Exec!Stream' = Exec!Stream
BY DEF Exec!Stream

LEMMA StreamGrows ==
  ASSUME ExecTyped, NEW m \in ExecMsg, queue' = Append(queue, m), got' = got
  PROVE  /\ Len(Exec!Stream') = Len(Exec!Stream) + 1
         /\ Exec!Stream'[Len(Exec!Stream) + 1] = m
         /\ \A i \in 1..Len(Exec!Stream) : Exec!Stream'[i] = Exec!Stream[i]
BY DEF ExecTyped, Exec!Stream

LEMMA StreamDelivered ==
  ASSUME ExecTyped, queue # <<>>, got' = Append(got, Head(queue)), queue' = Tail(queue)
  PROVE  Exec!Stream' = Exec!Stream
<1> DEFINE T == Exec!Stream'
<1>1. /\ Len(T) = Len(Exec!Stream) /\ \A i \in 1..Len(T) : T[i] = Exec!Stream[i]
  BY DEF ExecTyped, Exec!Stream
<1>2. T \in Seq(ExecMsg) /\ Exec!Stream \in Seq(ExecMsg)
  BY DEF ExecTyped, Exec!Stream
<1> QED
  BY <1>1, <1>2, SMTT(30)

LEMMA StreamType ==
  ASSUME ExecTyped
  PROVE  /\ Exec!Stream \in Seq(ExecMsg) /\ Len(Exec!Stream) \in Nat
         /\ client' = "gone" /\ queue' = <<>> /\ got' = got =>
              /\ Exec!Stream' = got /\ Len(got) \in Nat /\ Len(got) <= Len(Exec!Stream)
              /\ \A i \in 1..Len(got) : got[i] = Exec!Stream[i]
BY DEF ExecTyped, Exec!Stream

LEMMA ExecTypedIsKept ==
  ASSUME PartsAssumption, ExecTyped, [Exec!Next]_(Exec!vars)
  PROVE  ExecTyped'
<1> USE DEF ExecTyped
<1>1. CASE Exec!Programs
  <2>1. CASE Exec!ChildExits
    BY <2>1 DEF Exec!ChildExits
  <2>2. CASE \E p \in Pipe : Exec!Background(p) \/ Exec!BackgroundEnds(p)
    BY <2>2 DEF Exec!Background, Exec!BackgroundEnds
  <2>3. ASSUME NEW p \in Pipe, Exec!Write(p)  PROVE ExecTyped'
    <3>1. /\ pipe' = [pipe EXCEPT ![p] = @ + 1] /\ written' = [written EXCEPT ![p] = @ + 1]
          /\ UNCHANGED <<handler, child, reader, queue, client, got>>
      BY <2>3 DEF Exec!Write
    <3>2. \A q \in Pipe : pipe'[q] <= written'[q]
      BY <3>1
    <3> QED
      BY <3>1, <3>2
  <2> QED
    BY <1>1, <2>1, <2>2, <2>3 DEF Exec!Programs
<1>2. CASE Exec!Readers
  <2>1. PICK p \in Pipe : \/ Exec!ReadPipe(p) \/ Exec!ReaderEnds(p) \/ Exec!ReaderFails(p)
                        \/ Exec!SendOutput(p) \/ Exec!SendFails(p)
    BY <1>2 DEF Exec!Readers
  <2>2. CASE Exec!ReadPipe(p)
    BY <2>2 DEF Exec!ReadPipe
  <2>3. CASE Exec!ReaderEnds(p)
    BY <2>3 DEF Exec!ReaderEnds
  <2>6. CASE Exec!ReaderFails(p)
    BY <2>6 DEF Exec!ReaderFails
  <2>4. CASE Exec!SendOutput(p)
    <3>1. <<p, Exec!Unsent(p)>> \in ExecMsg
      BY DEF ExecMsg, Exec!Unsent
    <3> QED
      BY <2>4, <3>1 DEF Exec!SendOutput
  <2>5. CASE Exec!SendFails(p)
    BY <2>5 DEF Exec!SendFails
  <2> QED
    BY <2>1, <2>2, <2>3, <2>4, <2>5, <2>6
<1>3. CASE Exec!Handler
  <2>1. CASE Exec!SendResult \/ Exec!SendError
    <3>1. PICK a \in {Result, Failure} : Exec!Answer(a)
      BY <2>1 DEF Exec!SendResult, Exec!SendError
    <3>2. queue' = queue \/ queue' = Append(queue, a)
      BY <3>1 DEF Exec!Answer
    <3>3. a \in ExecMsg /\ handler' \in {"done", "failed"}
      BY <2>1 DEF ExecMsg, Exec!SendResult, Exec!SendError
    <3>4. queue' \in Seq(ExecMsg)
      <4>1. queue \in Seq(ExecMsg)
        OBVIOUS
      <4>2. Append(queue, a) \in Seq(ExecMsg)
        BY <3>3, <4>1
      <4> QED
        BY <3>2, <4>1, <4>2
    <3> QED
      BY <3>1, <3>3, <3>4 DEF Exec!Answer
  <2>2. CASE Exec!Spawn \/ Exec!SpawnFails \/ Exec!Wait \/ Exec!WaitFails \/ Exec!Drained
    BY <2>2 DEF Exec!Spawn, Exec!SpawnFails, Exec!Wait, Exec!WaitFails, Exec!Drained
  <2> QED
    BY <1>3, <2>1, <2>2 DEF Exec!Handler
<1>4. CASE Exec!TimeIsOver \/ Exec!GraceIsOver
  BY <1>4 DEF Exec!TimeIsOver, Exec!GraceIsOver
<1>6. CASE Exec!ClientGoes
  BY <1>6 DEF Exec!ClientGoes
<1>7. CASE UNCHANGED Exec!vars
  BY <1>7 DEF Exec!vars
<1>5. CASE Exec!Receive
  BY <1>5 DEF Exec!Receive
<1> QED
  BY <1>1, <1>2, <1>3, <1>4, <1>5, <1>6, <1>7 DEF Exec!Next

LEMMA ReadersFirstIsKept ==
  ASSUME ExecTyped, BeforeSpawn, ReadersFirst, [Exec!Next]_(Exec!vars)
  PROVE  BeforeSpawn' /\ ReadersFirst'
<1> USE DEF ExecTyped, BeforeSpawn, ReadersFirst
<1>1. CASE Exec!Programs
  BY <1>1 DEF Exec!Programs, Exec!ChildExits, Exec!Write, Exec!Background, Exec!BackgroundEnds, Exec!Open
<1>2. CASE Exec!Readers
  BY <1>2 DEF Exec!Readers, Exec!ReadPipe, Exec!ReaderEnds, Exec!ReaderFails, Exec!SendOutput, Exec!SendFails
<1>3. CASE Exec!Handler
  BY <1>3 DEF Exec!Handler, Exec!Spawn, Exec!SpawnFails, Exec!Wait, Exec!WaitFails, Exec!Drained,
              Exec!SendResult, Exec!SendError, Exec!Answer
<1>4. CASE Exec!TimeIsOver \/ Exec!GraceIsOver \/ Exec!Receive \/ Exec!ClientGoes \/ UNCHANGED Exec!vars
  BY <1>4 DEF Exec!TimeIsOver, Exec!GraceIsOver, Exec!Receive, Exec!ClientGoes, Exec!vars
<1> QED
  BY <1>1, <1>2, <1>3, <1>4 DEF Exec!Next

LEMMA AllIsSentIsKept ==
  ASSUME PartsAssumption, ExecTyped, BeforeSpawn, AllIsSent, [Exec!Next]_(Exec!vars)
  PROVE  AllIsSent'
<1> DEFINE S == Exec!Stream
<1>t. S \in Seq(ExecMsg) /\ Len(S) \in Nat /\ ExecTyped'
  BY StreamType, ExecTypedIsKept
(* A step that keeps the stream and whose readers do not come to their end *)
(* keeps what was sent.                                                    *)
<1>s. ASSUME S' = S, client' = client, cut \subseteq cut',
             \A p \in Pipe \ cut' :
               \/ reader'[p] = "sending"
               \/ reader'[p] = reader[p] /\ pipe'[p] = pipe[p] /\ written'[p] = written[p]
               \/ reader'[p] = "reading" /\ Exec!Unsent(p)' = Exec!Unsent(p) /\ reader[p] = "reading"
               \/ reader'[p] = "reading" /\ Exec!Unsent(p)' = 0
               \/ reader'[p] = "done" /\ reader[p] = "reading" /\ pipe'[p] = 0 /\ pipe[p] = 0
                    /\ written'[p] = written[p]
      PROVE  AllIsSent'
  <2>1. \A p \in Pipe : SentUpTo(p, Exec!Unsent(p)') => SentUpTo(p, Exec!Unsent(p))'
    BY <1>s DEF SentUpTo, Exec!Unsent
  <2>2. ASSUME NEW p \in Pipe \ cut', client' = "reading"
        PROVE  /\ reader'[p] \in {"reading", "done"} /\ Exec!Unsent(p)' > 0 => SentUpTo(p, Exec!Unsent(p)')
               /\ reader'[p] = "done" => pipe'[p] = 0
    <3>1. p \in Pipe \ cut /\ client = "reading"
      BY <1>s, <2>2
    <3>2. /\ reader[p] \in {"reading", "done"} /\ Exec!Unsent(p) > 0 => SentUpTo(p, Exec!Unsent(p))
          /\ reader[p] = "done" => pipe[p] = 0
      BY <3>1 DEF AllIsSent
    <3>3. \/ reader'[p] = "sending"
          \/ reader'[p] = reader[p] /\ pipe'[p] = pipe[p] /\ written'[p] = written[p]
          \/ reader'[p] = "reading" /\ Exec!Unsent(p)' = Exec!Unsent(p) /\ reader[p] = "reading"
          \/ reader'[p] = "reading" /\ Exec!Unsent(p)' = 0
          \/ reader'[p] = "done" /\ reader[p] = "reading" /\ pipe'[p] = 0 /\ pipe[p] = 0
               /\ written'[p] = written[p]
      BY <1>s, <2>2
    <3> QED
      BY <3>2, <3>3 DEF Exec!Unsent
  <2> QED
    BY <2>1, <2>2 DEF AllIsSent
<1>1. CASE Exec!Programs
  <2>1. CASE Exec!ChildExits \/ \E p \in Pipe : Exec!Background(p) \/ Exec!BackgroundEnds(p)
    <3>1. UNCHANGED <<queue, got, client, reader, pipe, written, cut>>
      BY <2>1 DEF Exec!ChildExits, Exec!Background, Exec!BackgroundEnds
    <3> QED
      BY <1>s, <3>1, StreamKept
  <2>2. ASSUME NEW p \in Pipe, Exec!Write(p)  PROVE AllIsSent'
    <3>1. /\ pipe' = [pipe EXCEPT ![p] = @ + 1] /\ written' = [written EXCEPT ![p] = @ + 1]
          /\ UNCHANGED <<reader, queue, client, got, cut>>
      BY <2>2 DEF Exec!Write
    <3>2. reader[p] \in {"reading", "sending"}
      BY <2>2 DEF Exec!Write, Exec!Open, BeforeSpawn, ExecTyped
    <3>3. Exec!Unsent(p)' = Exec!Unsent(p)
      BY <3>1 DEF Exec!Unsent, ExecTyped
    <3>4. \A q \in Pipe : q # p => pipe'[q] = pipe[q] /\ written'[q] = written[q]
      BY <3>1 DEF ExecTyped
    <3> QED
      BY <1>s, <3>1, <3>2, <3>3, <3>4, StreamKept
  <2> QED
    BY <1>1, <2>1, <2>2 DEF Exec!Programs
<1>2. CASE Exec!Readers
  <2>1. PICK p \in Pipe : \/ Exec!ReadPipe(p) \/ Exec!ReaderEnds(p) \/ Exec!ReaderFails(p)
                        \/ Exec!SendOutput(p) \/ Exec!SendFails(p)
    BY <1>2 DEF Exec!Readers
  <2>2. CASE Exec!ReadPipe(p)
    BY <1>s, <2>2, StreamKept DEF Exec!ReadPipe, ExecTyped
  <2>3. CASE Exec!ReaderEnds(p)
    BY <1>s, <2>3, StreamKept DEF Exec!ReaderEnds, ExecTyped
  <2>6. CASE Exec!ReaderFails(p)
    BY <1>s, <2>6, StreamKept DEF Exec!ReaderFails, ExecTyped
  <2>4. CASE Exec!SendOutput(p)
    <3> DEFINE m == <<p, Exec!Unsent(p)>>
    <3>1. /\ queue' = Append(queue, m) /\ reader' = [reader EXCEPT ![p] = "reading"]
          /\ reader[p] = "sending" /\ UNCHANGED <<pipe, client, got, written, cut>>
      BY <2>4 DEF Exec!SendOutput
    <3>2. m \in ExecMsg
      BY DEF ExecMsg, Exec!Unsent, ExecTyped
    <3>3. /\ Len(S') = Len(S) + 1 /\ S'[Len(S) + 1] = m
          /\ \A i \in 1..Len(S) : S'[i] = S[i]
      BY <3>1, <3>2, StreamGrows
    <3>4. \A q \in Pipe, n \in Nat : SentUpTo(q, n) => SentUpTo(q, n)'
      BY <1>t, <3>3 DEF SentUpTo
    <3>5. SentUpTo(p, Exec!Unsent(p))'
      BY <1>t, <3>1, <3>3 DEF SentUpTo, Exec!Unsent
    <3>6. \A q \in Pipe : Exec!Unsent(q) \in Nat /\ Exec!Unsent(q)' = Exec!Unsent(q)
      BY <3>1 DEF Exec!Unsent, ExecTyped
    <3>7. \A q \in Pipe : q # p => reader'[q] = reader[q]
      BY <3>1 DEF ExecTyped
    <3>8. reader'[p] = "reading"
      BY <3>1 DEF ExecTyped
    <3>9. ASSUME NEW q \in Pipe, q # p, SentUpTo(q, Exec!Unsent(q))
          PROVE  SentUpTo(q, Exec!Unsent(q))'
      BY <1>t, <3>1, <3>3, <3>9 DEF SentUpTo, Exec!Unsent
    <3> QED
      BY <3>1, <3>5, <3>6, <3>7, <3>8, <3>9 DEF AllIsSent
  <2>5. CASE Exec!SendFails(p)
    BY <1>s, <2>5, StreamKept DEF Exec!SendFails, ExecTyped
  <2> QED
    BY <2>1, <2>2, <2>3, <2>4, <2>5, <2>6
<1>3. CASE Exec!Handler
  <2>1. CASE Exec!Spawn
    <3>1. \A p \in Pipe : reader'[p] = "reading" /\ Exec!Unsent(p)' = 0
      BY <2>1 DEF Exec!Spawn, Exec!Unsent, BeforeSpawn, ExecTyped
    <3> QED
      BY <1>s, <2>1, <3>1, StreamKept DEF Exec!Spawn
  <2>2. CASE Exec!SpawnFails \/ Exec!Wait \/ Exec!WaitFails \/ Exec!Drained
    <3>1. UNCHANGED <<queue, got, client, reader, pipe, written, cut>>
      BY <2>2 DEF Exec!SpawnFails, Exec!Wait, Exec!WaitFails, Exec!Drained
    <3> QED
      BY <1>s, <3>1, StreamKept
  <2>3. ASSUME NEW a \in {Result, Failure}, Exec!Answer(a)  PROVE AllIsSent'
    <3>1. UNCHANGED <<got, client, reader, pipe, written, cut>>
      BY <2>3 DEF Exec!Answer
    <3>2. CASE client = "gone"
      BY <3>1, <3>2 DEF AllIsSent
    <3>3. CASE client # "gone"
      <4>1. queue' = Append(queue, a) /\ a \in ExecMsg
        BY <2>3, <3>3 DEF Exec!Answer, ExecMsg
      <4>2. /\ Len(S') = Len(S) + 1 /\ \A i \in 1..Len(S) : S'[i] = S[i]
        BY <3>1, <4>1, StreamGrows
      <4>3. ASSUME NEW q \in Pipe, SentUpTo(q, Exec!Unsent(q))
            PROVE  SentUpTo(q, Exec!Unsent(q))'
        BY <1>t, <3>1, <4>2, <4>3 DEF SentUpTo, Exec!Unsent
      <4> QED
        BY <3>1, <4>3 DEF AllIsSent, Exec!Unsent
    <3> QED
      BY <3>2, <3>3
  <2> QED
    BY <1>3, <2>1, <2>2, <2>3 DEF Exec!Handler, Exec!SendResult, Exec!SendError
<1>4. CASE Exec!TimeIsOver \/ Exec!GraceIsOver \/ UNCHANGED Exec!vars
  <2>1. UNCHANGED <<queue, got, client, reader, pipe, written, cut>>
    BY <1>4 DEF Exec!TimeIsOver, Exec!GraceIsOver, Exec!vars
  <2> QED
    BY <1>s, <2>1, StreamKept
<1>5. CASE Exec!Receive
  BY <1>s, <1>5, StreamDelivered DEF Exec!Receive
<1>6. CASE Exec!ClientGoes
  BY <1>6 DEF Exec!ClientGoes, AllIsSent
<1> QED
  BY <1>1, <1>2, <1>3, <1>4, <1>5, <1>6 DEF Exec!Next

LEMMA ResultLastIsKept ==
  ASSUME PartsAssumption, ExecTyped, ReadersFirst, ResultLast, [Exec!Next]_(Exec!vars)
  PROVE  ResultLast'
<1> DEFINE S == Exec!Stream
<1>t. S \in Seq(ExecMsg) /\ Len(S) \in Nat
  BY StreamType
<1>1. CASE S' = S /\ (handler \in {"done", "failed"} => handler' = handler)
  BY <1>1 DEF ResultLast
<1>2. ASSUME NEW p \in Pipe, Exec!SendOutput(p)  PROVE ResultLast'
  <2> DEFINE m == <<p, Exec!Unsent(p)>>
  <2>1. queue' = Append(queue, m) /\ got' = got /\ handler' = handler /\ handler # "done"
    BY <1>2 DEF Exec!SendOutput, ReadersFirst
  <2>2. m \in ExecMsg /\ m \notin {Result, Failure}
    BY DEF ExecMsg, Exec!Unsent, ExecTyped, PartsAssumption
  <2>3. /\ Len(S') = Len(S) + 1 /\ S'[Len(S) + 1] = m
        /\ \A i \in 1..Len(S) : S'[i] = S[i]
    BY <2>1, <2>2, StreamGrows
  <2>4. \A i \in 1..Len(S) : S[i] # Result /\ (S[i] = Failure => handler' = "failed")
    BY <2>1 DEF ResultLast
  <2>5. ASSUME NEW i \in 1..Len(S')
        PROVE  S'[i] # Result /\ (S'[i] = Failure => handler' = "failed")
    <3>1. i \in 1..Len(S) \/ i = Len(S) + 1
      BY <1>t, <2>3
    <3> QED
      BY <2>2, <2>3, <2>4, <3>1
  <2> HIDE DEF m, S
  <2> QED
    BY <2>5 DEF ResultLast, S
<1>3. ASSUME NEW a \in {Result, Failure}, Exec!Answer(a), handler \notin {"done", "failed"},
             handler' = IF a = Result THEN "done" ELSE "failed"
      PROVE  ResultLast'
  <2>1. CASE client = "gone"
    <3>1. UNCHANGED <<queue, got>>
      BY <1>3, <2>1 DEF Exec!Answer
    <3> QED
      BY <1>1, <1>3, <3>1, StreamKept
  <2>2. CASE client # "gone"
    <3>1. queue' = Append(queue, a) /\ a \in ExecMsg /\ got' = got
      BY <1>3, <2>2 DEF Exec!Answer, ExecMsg
    <3>2. /\ Len(S') = Len(S) + 1 /\ S'[Len(S) + 1] = a /\ \A i \in 1..Len(S) : S'[i] = S[i]
      BY <3>1, StreamGrows
    <3>3. \A i \in 1..Len(S) : S[i] \notin {Result, Failure}
      BY <1>3 DEF ResultLast
    <3> QED
      BY <1>t, <1>3, <3>2, <3>3, PartsAssumption DEF ResultLast, PartsAssumption
  <2> QED
    BY <2>1, <2>2
<1>4. CASE Exec!Receive
  BY <1>1, <1>4, StreamDelivered DEF Exec!Receive
<1>5. CASE Exec!ClientGoes
  <2>1. /\ S' = got /\ Len(got) \in Nat /\ Len(got) <= Len(S) /\ handler' = handler
        /\ \A i \in 1..Len(got) : got[i] = S[i]
    BY <1>5, StreamType DEF Exec!ClientGoes
  <2>2. ASSUME NEW i \in 1..Len(S')
        PROVE  /\ S'[i] = Result => i = Len(S') /\ handler' = "done"
               /\ S'[i] = Failure => handler' = "failed"
    <3>1. i \in 1..Len(S) /\ S'[i] = S[i]
      BY <1>t, <2>1, <2>2
    <3> QED
      BY <1>t, <2>1, <3>1 DEF ResultLast
  <2> QED
    BY <2>2 DEF ResultLast
<1>6. CASE \/ Exec!Programs
           \/ \E p \in Pipe : \/ Exec!ReadPipe(p) \/ Exec!ReaderEnds(p) \/ Exec!ReaderFails(p)
                            \/ Exec!SendFails(p)
  <2>1. UNCHANGED <<queue, got, handler>>
    BY <1>6 DEF Exec!Programs, Exec!ChildExits, Exec!Write, Exec!Background, Exec!BackgroundEnds,
                Exec!ReadPipe, Exec!ReaderEnds, Exec!ReaderFails, Exec!SendFails
  <2> QED
    BY <1>1, <2>1, StreamKept
<1>7. CASE \/ Exec!Spawn \/ Exec!SpawnFails \/ Exec!Wait \/ Exec!WaitFails \/ Exec!Drained
           \/ Exec!TimeIsOver \/ Exec!GraceIsOver \/ UNCHANGED Exec!vars
  <2>1. UNCHANGED <<queue, got>> /\ (handler \in {"done", "failed"} => handler' = handler)
    BY <1>7 DEF Exec!Spawn, Exec!SpawnFails, Exec!Wait, Exec!WaitFails, Exec!Drained,
                Exec!TimeIsOver, Exec!GraceIsOver, Exec!vars
  <2> QED
    BY <1>1, <2>1, StreamKept
<1> QED
  <2>1. CASE Exec!SendResult \/ Exec!SendError
    BY <1>3, <2>1, PartsAssumption DEF Exec!SendResult, Exec!SendError, PartsAssumption
  <2> QED
    BY <1>2, <1>4, <1>5, <1>6, <1>7, <2>1 DEF Exec!Next, Exec!Readers, Exec!Handler

LEMMA ExecInvImplies ==
  ASSUME ExecInv
  PROVE  ResultIsComplete
<1> DEFINE S == Exec!Stream
<1>1. S \in Seq(ExecMsg) /\ Len(S) \in Nat
  BY StreamType DEF ExecInv
<1>2. \A e : Exec!Contains(S, e) <=> \E i \in 1..Len(S) : S[i] = e
  BY DEF Exec!Contains
<1>3. SUFFICES ASSUME Exec!Contains(S, Result)
               PROVE  /\ S[Len(S)] = Result /\ ~Exec!Contains(S, Failure)
                      /\ client = "reading" =>
                           \A p \in Pipe \ cut : written[p] > 0 => Exec!Contains(S, <<p, written[p]>>)
  BY DEF ResultIsComplete, Exec!ResultIsComplete, Exec!Last
<1>4. S[Len(S)] = Result /\ handler = "done" /\ ~Exec!Contains(S, Failure)
  BY <1>1, <1>2, <1>3 DEF ExecInv, ResultLast
<1>5. ASSUME NEW p \in Pipe \ cut, client = "reading", written[p] > 0
      PROVE  Exec!Contains(S, <<p, written[p]>>)
  <2>1. reader[p] = "done"
    BY <1>4, <1>5 DEF ExecInv, ReadersFirst, BeforeSpawn, ExecTyped
  <2>2. pipe[p] = 0 /\ Exec!Unsent(p) = written[p]
    BY <1>5, <2>1 DEF ExecInv, AllIsSent, ExecTyped, Exec!Unsent
  <2> QED
    BY <1>2, <1>5, <2>1, <2>2 DEF ExecInv, AllIsSent, SentUpTo
<1> QED
  BY <1>4, <1>5

(* The exit code of a command is the last message of its stream and its    *)
(* only answer, and a client that stays receives before it all that the    *)
(* command wrote, but for the readers that gave up on it or could not read *)
(* (exec_manager.rs:56-167), for any pipes, writes, failures and orders.   *)
THEOREM ResultIsAlwaysComplete == Exec!Spec => []ResultIsComplete
<1>1. ASSUME Exec!Init  PROVE ExecInv
  <2>1. ExecTyped /\ BeforeSpawn /\ ReadersFirst
    BY <1>1 DEF Exec!Init, ExecTyped, BeforeSpawn, ReadersFirst
  <2>2. Len(Exec!Stream) = 0
    BY <1>1 DEF Exec!Init, Exec!Stream
  <2>3. AllIsSent /\ ResultLast
    BY <1>1, <2>2 DEF Exec!Init, AllIsSent, ResultLast, Exec!Unsent
  <2> QED
    BY <2>1, <2>3 DEF ExecInv
<1>2. ASSUME ExecInv, [Exec!Next]_(Exec!vars)  PROVE ExecInv'
  BY <1>2, PartsAssumption, ExecTypedIsKept, ReadersFirstIsKept, AllIsSentIsKept, ResultLastIsKept DEF ExecInv
<1> QED
  BY <1>1, <1>2, ExecInvImplies, PTL DEF Exec!Spec

-----------------------------------------------------------------------------
(* The registry of worktrees (WorktreeRegistry).  An update is lost when   *)
(* what is written back is not what was read with one entry changed; so    *)
(* the invariant says of each operation between its read and its write     *)
(* that its list is the mutation of the very file its write is guarded by. *)

Stamp == Nat \cup {None}
List == [Path -> Stamp]

Reading == [at : {"reading"}, kind : {"upsert", "remove"}, path : Path,
            attempt : Nat, entry : Stamp]
Writing == [at : {"writing"}, kind : {"upsert", "remove"}, path : Path,
            attempt : Nat, entry : Stamp, guard : List \cup {None}, entries : List]

RegistryTyped ==
  /\ registry \in List \cup {None} /\ stamps \in Nat
  /\ op \in [Window -> {Registry!Idle} \cup Reading \cup Writing]

Guarded ==
  \A w \in Window : op[w].at = "writing" => op[w].entries = Registry!Mutated(Registry!Parsed(op[w].guard), op[w])

RegistryInv == RegistryTyped /\ Guarded

-----------------------------------------------------------------------------
(* What one operation does to the record of its window.                    *)

LEMMA KindsApart ==
  ASSUME NEW w \in Window, RegistryTyped
  PROVE  /\ op[w].at = "idle" => op[w] = Registry!Idle
         /\ op[w].at = "reading" => op[w] \in Reading
         /\ op[w].at = "writing" => op[w] \in Writing
BY DEF RegistryTyped, Registry!Idle, Reading, Writing

LEMMA OthersKeepTheirs ==
  ASSUME RegistryInv, NEW w \in Window, NEW o \in {Registry!Idle} \cup Reading \cup Writing,
         op' = [op EXCEPT ![w] = o],
         o.at = "writing" => o.entries = Registry!Mutated(Registry!Parsed(o.guard), o)
  PROVE  op' \in [Window -> {Registry!Idle} \cup Reading \cup Writing] /\ Guarded'
<1>1. op' \in [Window -> {Registry!Idle} \cup Reading \cup Writing]
  BY DEF RegistryInv, RegistryTyped
<1>2. ASSUME NEW v \in Window, op'[v].at = "writing"
      PROVE  op'[v].entries = Registry!Mutated(Registry!Parsed(op'[v].guard), op'[v])
  <2>1. CASE v = w
    BY <1>2, <2>1 DEF RegistryInv, RegistryTyped
  <2>2. CASE v # w
    BY <1>2, <2>2 DEF RegistryInv, RegistryTyped, Guarded
  <2> QED
    BY <2>1, <2>2
<1> QED
  BY <1>1, <1>2 DEF Guarded, Registry!Mutated, Registry!Parsed

LEMMA ParsedType ==
  ASSUME NEW f \in List \cup {None}
  PROVE  Registry!Parsed(f) \in List
BY DEF Registry!Parsed, List, Stamp

-----------------------------------------------------------------------------
LEMMA RegistryInvInit == Registry!Init => RegistryInv
BY DEF Registry!Init, RegistryInv, RegistryTyped, Guarded, Registry!Idle

LEMMA EnqueueKeeps ==
  ASSUME RegistryInv, NEW w \in Window, NEW kind \in {"upsert", "remove"}, NEW p \in Path,
         Registry!Enqueue(w, kind, p)
  PROVE  RegistryInv'
<1> DEFINE o == [at |-> "reading", kind |-> kind, path |-> p, attempt |-> 0,
                 entry |-> IF kind = "upsert" THEN stamps + 1 ELSE None]
<1>1. o \in Reading /\ o.at # "writing"
  BY DEF RegistryInv, RegistryTyped, Reading, Stamp
<1>2. op' = [op EXCEPT ![w] = o]
  BY DEF Registry!Enqueue
<1> HIDE DEF o
<1>3. op' \in [Window -> {Registry!Idle} \cup Reading \cup Writing] /\ Guarded'
  BY <1>1, <1>2, OthersKeepTheirs
<1> QED
  BY <1>3 DEF Registry!Enqueue, RegistryInv, RegistryTyped

LEMMA ReturnsKeeps ==
  ASSUME RegistryInv, NEW w \in Window, Registry!Returns(w)
  PROVE  op' \in [Window -> {Registry!Idle} \cup Reading \cup Writing] /\ Guarded'
BY OthersKeepTheirs DEF Registry!Returns, Registry!Idle

LEMMA ReadKeeps ==
  ASSUME RegistryInv, NEW w \in Window, Registry!ReadRegistryFile(w)
  PROVE  RegistryInv'
<1> DEFINE o == [at |-> "writing", kind |-> op[w].kind, path |-> op[w].path,
                 entry |-> op[w].entry, attempt |-> op[w].attempt,
                 guard |-> registry, entries |-> Registry!Mutated(Registry!Entries, op[w])]
<1>1. op[w] \in Reading
  BY KindsApart DEF Registry!ReadRegistryFile, RegistryInv
<1>2. Registry!Entries \in List /\ registry \in List \cup {None}
  BY ParsedType DEF Registry!Entries, RegistryInv, RegistryTyped
<1>3. Registry!Mutated(Registry!Entries, op[w]) \in List
  BY <1>1, <1>2 DEF Registry!Mutated, Reading, List
<1>4. o \in Writing
  BY <1>1, <1>2, <1>3 DEF Reading, Writing
<1>5. o.entries = Registry!Mutated(Registry!Parsed(o.guard), o)
  BY DEF Registry!Mutated, Registry!Entries
<1>6. CASE Registry!Returns(w)
  BY <1>6, ReturnsKeeps DEF Registry!ReadRegistryFile, RegistryInv, RegistryTyped
<1>7. CASE op' = [op EXCEPT ![w] = o]
  <2> HIDE DEF o
  <2>1. op' \in [Window -> {Registry!Idle} \cup Reading \cup Writing] /\ Guarded'
    BY <1>4, <1>5, <1>7, OthersKeepTheirs
  <2> QED
    BY <2>1 DEF Registry!ReadRegistryFile, RegistryInv, RegistryTyped
<1>8. Registry!Returns(w) \/ op' = [op EXCEPT ![w] = o]
  BY DEF Registry!ReadRegistryFile
<1> QED
  BY <1>6, <1>7, <1>8

LEMMA ConflictKeeps ==
  ASSUME RegistryInv, NEW w \in Window, op[w].at = "writing", Registry!Conflict(w)
  PROVE  op' \in [Window -> {Registry!Idle} \cup Reading \cup Writing] /\ Guarded'
<1> DEFINE o == [at |-> "reading", kind |-> op[w].kind, path |-> op[w].path,
                 entry |-> op[w].entry, attempt |-> op[w].attempt + 1]
<1>1. op[w] \in Writing
  BY KindsApart DEF RegistryInv
<1>2. o \in Reading /\ o.at # "writing"
  BY <1>1 DEF Reading, Writing
<1>3. Registry!Returns(w) \/ op' = [op EXCEPT ![w] = o]
  BY DEF Registry!Conflict, Registry!Returns
<1> HIDE DEF o
<1> QED
  BY <1>2, <1>3, ReturnsKeeps, OthersKeepTheirs

LEMMA FileKeeps ==
  ASSUME RegistryInv, NEW w \in Window, op[w].at = "writing"
  PROVE  op[w].entries \in List \cup {None}
<1>1. op[w] \in Writing
  BY KindsApart DEF RegistryInv
<1> QED
  BY <1>1 DEF Writing

LEMMA WriteFileKeeps ==
  ASSUME RegistryInv, NEW w \in Window, Registry!WriteFile(w)
  PROVE  RegistryInv'
<1>1. op[w].at = "writing" /\ stamps' = stamps
  BY DEF Registry!WriteFile
<1>2. CASE registry = op[w].guard
  <2>1. registry' = op[w].entries /\ Registry!Returns(w)
    BY <1>2 DEF Registry!WriteFile
  <2>2. op' \in [Window -> {Registry!Idle} \cup Reading \cup Writing] /\ Guarded'
    BY <2>1, ReturnsKeeps
  <2> QED
    BY <1>1, <2>1, <2>2, FileKeeps DEF RegistryInv, RegistryTyped
<1>3. CASE registry # op[w].guard
  <2>1. registry' = registry /\ Registry!Conflict(w)
    BY <1>3 DEF Registry!WriteFile
  <2>2. op' \in [Window -> {Registry!Idle} \cup Reading \cup Writing] /\ Guarded'
    BY <1>1, <2>1, ConflictKeeps
  <2> QED
    BY <1>1, <2>1, <2>2 DEF RegistryInv, RegistryTyped
<1> QED
  BY <1>2, <1>3

LEMMA FailureKeeps ==
  ASSUME RegistryInv, NEW w \in Window, Registry!CallFails(w)
  PROVE  RegistryInv'
<1>1. stamps' = stamps /\ Registry!Returns(w)
  BY DEF Registry!CallFails
<1>2. registry' = registry \/ (op[w].at = "writing" /\ registry' = op[w].entries)
  BY DEF Registry!CallFails
<1>3. op' \in [Window -> {Registry!Idle} \cup Reading \cup Writing] /\ Guarded'
  BY <1>1, ReturnsKeeps
<1> QED
  BY <1>1, <1>2, <1>3, FileKeeps DEF RegistryInv, RegistryTyped

(* The invariant of the registry: what is about to be written back is what *)
(* was read, with the operation's own entry changed (lines 89-95).         *)
THEOREM WritesAreMutations == Registry!Spec => []RegistryInv
<1>1. RegistryInv /\ [Registry!Next]_(Registry!vars) => RegistryInv'
  <2> SUFFICES ASSUME RegistryInv, [Registry!Next]_(Registry!vars) PROVE RegistryInv'
    OBVIOUS
  <2>1. CASE Registry!Next
    BY <2>1, EnqueueKeeps, ReadKeeps, WriteFileKeeps, FailureKeeps DEF Registry!Next
  <2>2. CASE UNCHANGED Registry!vars
    BY <2>2 DEF Registry!vars, RegistryInv, RegistryTyped, Guarded
  <2> QED
    BY <2>1, <2>2
<1> QED
  BY <1>1, RegistryInvInit, PTL DEF Registry!Spec

-----------------------------------------------------------------------------
(* Whatever writes the file writes an operation's list, guarded by what    *)
(* that operation read.                                                    *)
LEMMA StepChangesOne ==
  ASSUME RegistryInv, Registry!Next, NEW p \in Path, Registry!Entries'[p] # Registry!Entries[p]
  PROVE  \E w \in Window : op[w].at = "writing" /\ op[w].path = p /\ Registry!Entries'[p] = op[w].entry
<1>1. registry' # registry
  BY DEF Registry!Entries, Registry!Parsed
<1>2. PICK w \in Window : /\ op[w].at = "writing" /\ registry = op[w].guard
                          /\ registry' = op[w].entries
  BY <1>1 DEF Registry!Next, Registry!Enqueue, Registry!ReadRegistryFile, Registry!WriteFile, Registry!CallFails
<1>3. op[w] \in Writing
  BY <1>2, KindsApart DEF RegistryInv
<1>4. op[w].entries \in List /\ op[w].path \in Path
  BY <1>3 DEF Writing
<1>5. Registry!Entries' = op[w].entries
  BY <1>2, <1>4, PartsAssumption DEF Registry!Entries, Registry!Parsed, List, Stamp
<1>6. op[w].entries = Registry!Mutated(Registry!Entries, op[w])
  BY <1>2 DEF RegistryInv, Guarded, Registry!Entries
<1>7. Registry!Entries \in List
  BY ParsedType DEF Registry!Entries, RegistryInv, RegistryTyped
<1>8. Registry!Entries'[p] = IF p = op[w].path THEN op[w].entry ELSE Registry!Entries[p]
  BY <1>5, <1>6, <1>7 DEF Registry!Mutated, List
<1> QED
  BY <1>2, <1>8

(* No window's update is silently lost (line 80): an operation changes the *)
(* one entry it is about, for any windows, paths and number of attempts.   *)
THEOREM UpdatesTouchOneEntry == Registry!Spec => OnlyItsEntry
<1>1. RegistryInv /\ [Registry!Next]_(Registry!vars) =>
        [\A p \in Path : Registry!Entries'[p] # Registry!Entries[p] =>
           \E w \in Window : op[w].at = "writing" /\ op[w].path = p
                               /\ Registry!Entries'[p] = op[w].entry]_(Registry!vars)
  BY StepChangesOne
<1> QED
  BY <1>1, WritesAreMutations, PTL DEF Registry!Spec, OnlyItsEntry, Registry!OnlyItsEntry

-----------------------------------------------------------------------------
(* What a tab shows (Analyzer).  At rest the tab shows its screen because  *)
(* until then a request about it was out, or the next answer was going to  *)
(* look again; and a burst that ends where it began, which is no edge,     *)
(* must not have lost that.                                                *)

Snap == Nat \X (Screen \cup {Blank})
Detector == [lastSnapshot : Snap, settled : BOOLEAN, burstBaseline : Snap,
             reported : BOOLEAN, armed : BOOLEAN]
Verdict == {"Working", "Waiting", "Error"}
AnalyzerState == [inFlightBuffer : Snap \cup {None}, requestInFlight : BOOLEAN,
                  pendingAnalyze : BOOLEAN, cache : [Tab!Snapshot -> Verdict \cup {None}],
                  lastConfiguration : Nat, modelErrorShown : BOOLEAN]
Request == [cycle : Nat, of : Snap]

TabTyped ==
  /\ running \in BOOLEAN /\ starts \in Nat /\ excused \in BOOLEAN
  /\ config \in Nat /\ screen \in Screen \cup {Blank}
  /\ detector \in Detector /\ analyzer \in AnalyzerState /\ requests \subseteq Request

(* What the analyzer believes to be in flight is.                          *)
InFlight(a, sent) ==
  /\ a.inFlightBuffer # None => a.requestInFlight
  /\ a.requestInFlight => sent # {}

StoppedIsReset == ~running => analyzer.inFlightBuffer = None /\ ~detector.armed

(* The detector knows the screen, and no configuration that is to come.    *)
SeesTheScreen ==
  /\ running => detector.lastSnapshot[2] = screen
  /\ detector.lastSnapshot[1] <= config /\ detector.burstBaseline[1] <= config

(* A snapshot is taken care of when it is shown, when a request about it   *)
(* is out, or when the next answer leads to another look.                  *)
TakenCareOf(s) ==
  \/ shown.of = s
  \/ \E r \in requests : r.of = s
  \/ analyzer.pendingAnalyze /\ requests # {}

(* At rest the screen is taken care of.  A burst that may still turn out   *)
(* to be none, because it has not been reported, must find the screen it   *)
(* returns to as it left it.                                               *)
RestIsTakenCareOf ==
  running /\ ~excused =>
    /\ ~detector.armed /\ detector.lastSnapshot = Tab!Now => TakenCareOf(Tab!Now)
    /\ detector.armed /\ ~detector.reported /\ detector.burstBaseline[1] = config =>
         TakenCareOf(detector.burstBaseline)

TabInv ==
  /\ TabTyped /\ InFlight(analyzer, requests) /\ StoppedIsReset /\ SeesTheScreen
  /\ RestIsTakenCareOf

-----------------------------------------------------------------------------
(* analyze() takes care of the present screen, or the state is excused; in *)
(* the middle of a burst it always is.                                     *)
LEMMA AnalyzeTakesCare ==
  ASSUME NEW a \in AnalyzerState, NEW old, NEW sent \in SUBSET Request, InFlight(a, sent),
         Tab!Analyze(a, old, sent), config \in Nat, screen \in Screen \cup {Blank}, starts \in Nat
  PROVE  /\ analyzer' \in AnalyzerState /\ requests' \subseteq Request
         /\ InFlight(analyzer, requests)'
         /\ excused' \in BOOLEAN
         /\ ~excused' => ~Tab!MidBurst
         /\ ~excused' => \/ shown'.of = Tab!Now
                         \/ \E r \in requests' : r.of = Tab!Now
                         \/ analyzer'.pendingAnalyze /\ requests' # {}
<1> DEFINE b == IF config = a.lastConfiguration THEN a
                ELSE [a EXCEPT !.lastConfiguration = config, !.modelErrorShown = FALSE]
<1>1. /\ b \in AnalyzerState /\ b.inFlightBuffer = a.inFlightBuffer
      /\ b.requestInFlight = a.requestInFlight
  BY DEF AnalyzerState
<1>2. Tab!MidBurst \in BOOLEAN
  BY DEF Tab!MidBurst
<1>3. Tab!Now \in Snap
  BY DEF Snap, Tab!Now
<1>4. \A s, t : Tab!Shows(s, t).of = t
  BY DEF Tab!Shows
<1>5. CASE screen = Blank /\ analyzer' = a /\ shown' = Tab!Shows("Idle", Tab!Now)
           /\ requests' = sent /\ excused' = Tab!MidBurst
  BY <1>2, <1>4, <1>5 DEF InFlight
<1>6. CASE /\ a.requestInFlight /\ analyzer' = [a EXCEPT !.pendingAnalyze = TRUE]
           /\ requests' = sent /\ excused' = Tab!MidBurst
  BY <1>2, <1>6 DEF InFlight, AnalyzerState
<1>7. CASE /\ ~a.requestInFlight /\ analyzer' = [b EXCEPT !.modelErrorShown = TRUE]
           /\ shown' = IF b.modelErrorShown THEN old ELSE Tab!Shows("Error", Tab!Now)
           /\ requests' = sent /\ excused' = (b.modelErrorShown \/ Tab!MidBurst)
  <2>1. b.modelErrorShown \in BOOLEAN /\ analyzer' \in AnalyzerState
    BY <1>1, <1>7 DEF AnalyzerState
  <2>2. InFlight(analyzer', requests')
    BY <1>1, <1>7 DEF InFlight, AnalyzerState
  <2> QED
    BY <1>2, <1>4, <1>7, <2>1, <2>2 DEF InFlight
<1>8. CASE /\ analyzer' = b /\ shown' = Tab!Shows(b.cache[Tab!Now], Tab!Now) /\ requests' = sent
           /\ excused' = Tab!MidBurst
  BY <1>1, <1>2, <1>4, <1>8 DEF InFlight
<1>9. CASE /\ analyzer' = [b EXCEPT !.inFlightBuffer = Tab!Now, !.requestInFlight = TRUE]
           /\ requests' = sent \cup {[cycle |-> starts, of |-> Tab!Now]}
           /\ excused' = Tab!MidBurst
  <2>1. [cycle |-> starts, of |-> Tab!Now] \in Request
    BY <1>3 DEF Request
  <2>2. analyzer' \in AnalyzerState /\ analyzer'.requestInFlight
    BY <1>1, <1>3, <1>9 DEF AnalyzerState
  <2> QED
    BY <1>2, <1>9, <2>1, <2>2 DEF InFlight
<1>10. CASE ~a.requestInFlight /\ b.inFlightBuffer = Tab!Now /\ analyzer' = b /\ requests' = sent
            /\ excused' = Tab!MidBurst
  <2>1. a.inFlightBuffer = None /\ Tab!Now = None
    BY <1>1, <1>10 DEF InFlight
  <2> QED
    BY <1>3, <2>1, PartsAssumption DEF Snap
<1> HIDE DEF b
<1>11. Tab!Analyze(a, old, sent) =>
         \/ screen = Blank /\ analyzer' = a /\ shown' = Tab!Shows("Idle", Tab!Now)
              /\ requests' = sent /\ excused' = Tab!MidBurst
         \/ /\ a.requestInFlight /\ analyzer' = [a EXCEPT !.pendingAnalyze = TRUE]
            /\ requests' = sent /\ excused' = Tab!MidBurst
         \/ /\ ~a.requestInFlight /\ analyzer' = [b EXCEPT !.modelErrorShown = TRUE]
            /\ shown' = IF b.modelErrorShown THEN old ELSE Tab!Shows("Error", Tab!Now)
            /\ requests' = sent /\ excused' = (b.modelErrorShown \/ Tab!MidBurst)
         \/ ~a.requestInFlight /\ b.inFlightBuffer = Tab!Now /\ analyzer' = b /\ requests' = sent
              /\ excused' = Tab!MidBurst
         \/ /\ analyzer' = b /\ shown' = Tab!Shows(b.cache[Tab!Now], Tab!Now) /\ requests' = sent
            /\ excused' = Tab!MidBurst
         \/ /\ analyzer' = [b EXCEPT !.inFlightBuffer = Tab!Now, !.requestInFlight = TRUE]
            /\ requests' = sent \cup {[cycle |-> starts, of |-> Tab!Now]}
            /\ excused' = Tab!MidBurst
  BY DEF Tab!Analyze, b
<1> QED
  BY <1>5, <1>6, <1>7, <1>8, <1>9, <1>10, <1>11

(* The rest of the invariant follows, whatever else the step did.          *)
LEMMA CareIsRest ==
  ASSUME TabTyped', UNCHANGED <<config, screen>>,
         ~excused' => ~Tab!MidBurst,
         ~excused' => \/ shown'.of = Tab!Now
                      \/ \E r \in requests' : r.of = Tab!Now
                      \/ analyzer'.pendingAnalyze /\ requests' # {}
  PROVE  RestIsTakenCareOf'
<1>1. Tab!Now' = Tab!Now
  BY DEF Tab!Now
<1>2. ~excused' => TakenCareOf(Tab!Now)'
  BY <1>1 DEF TakenCareOf
<1>3. ASSUME ~excused', detector'.armed  PROVE TakenCareOf(detector.burstBaseline)'
  <2>1. Tab!Now' = detector'.burstBaseline
    BY <1>1, <1>3 DEF Tab!MidBurst
  <2> QED
    BY <1>2, <1>3, <2>1 DEF TakenCareOf
<1> QED
  BY <1>2, <1>3 DEF RestIsTakenCareOf

LEMMA ThenPendingTakesCare ==
  ASSUME NEW a \in AnalyzerState, NEW old, NEW sent \in SUBSET Request, InFlight(a, sent),
         Tab!ThenPending(a, old, sent), TabTyped,
         a.pendingAnalyze \/ old.of = Tab!Now
  PROVE  /\ analyzer' \in AnalyzerState /\ requests' \subseteq Request
         /\ InFlight(analyzer, requests)'
         /\ excused' \in BOOLEAN
         /\ ~excused' => ~Tab!MidBurst
         /\ ~excused' => \/ shown'.of = Tab!Now
                         \/ \E r \in requests' : r.of = Tab!Now
                         \/ analyzer'.pendingAnalyze /\ requests' # {}
<1>1. CASE a.pendingAnalyze
  <2> DEFINE c == [a EXCEPT !.pendingAnalyze = FALSE]
  <2>1. c \in AnalyzerState /\ InFlight(c, sent)
    BY DEF AnalyzerState, InFlight
  <2>2. Tab!Analyze(c, old, sent)
    BY <1>1 DEF Tab!ThenPending
  <2> HIDE DEF c
  <2> QED
    BY <2>1, <2>2, AnalyzeTakesCare DEF TabTyped
<1>2. CASE ~a.pendingAnalyze
  <2>1. /\ analyzer' = a /\ shown' = old /\ requests' = sent
        /\ excused' = (excused \/ Tab!MidBurst)
    BY <1>2 DEF Tab!ThenPending
  <2> QED
    BY <1>2, <2>1 DEF InFlight, TabTyped, Tab!MidBurst
<1> QED
  BY <1>1, <1>2

(* An answer that is thrown away, when nothing was asked for meanwhile:    *)
(* the screen is not the one it was about.                                 *)
LEMMA ThrownAwayKeeps ==
  ASSUME TabInv, TabTyped', NEW r \in requests, r.of # Tab!Now,
         UNCHANGED <<running, config, screen, detector, shown>>,
         ~analyzer.pendingAnalyze,
         requests' = requests \ {r}, excused' = (excused \/ Tab!MidBurst)
  PROVE  RestIsTakenCareOf'
<1>1. SUFFICES ASSUME running, ~excused', ~excused, ~Tab!MidBurst
               PROVE  RestIsTakenCareOf'
  BY DEF RestIsTakenCareOf, TabTyped, Tab!MidBurst
<1>2. Tab!Now' = Tab!Now /\ detector' = detector
  BY DEF Tab!Now
<1>3. TakenCareOf(Tab!Now) => TakenCareOf(Tab!Now)'
  BY <1>2 DEF TakenCareOf, TabInv
<1>4. ASSUME detector.armed, ~detector.reported, detector.burstBaseline[1] = config
      PROVE  TakenCareOf(detector.burstBaseline)'
  <2>1. Tab!Now = detector.burstBaseline
    BY <1>1, <1>2, <1>4 DEF Tab!MidBurst
  <2>2. TakenCareOf(detector.burstBaseline)
    BY <1>1, <1>4 DEF TabInv, RestIsTakenCareOf
  <2> QED
    BY <1>2, <1>3, <2>1, <2>2 DEF TakenCareOf
<1> QED
  BY <1>1, <1>2, <1>3, <1>4 DEF TabInv, RestIsTakenCareOf

LEMMA AnsweredKeeps ==
  ASSUME TabInv, NEW r \in requests, NEW state \in Verdict, Tab!Answered(r, state)
  PROVE  TabInv'
<1> DEFINE a == [analyzer EXCEPT !.requestInFlight = FALSE]
           sent == requests \ {r}
           cached == IF a.cache[r.of] = None /\ state # "Error"
                       THEN [a EXCEPT !.cache[r.of] = state, !.inFlightBuffer = None]
                       ELSE [a EXCEPT !.inFlightBuffer = None]
           gone == [a EXCEPT !.inFlightBuffer = None, !.pendingAnalyze = @ \/ config # r.of[1]]
<1>1. /\ UNCHANGED <<running, starts, config, screen, detector>> /\ SeesTheScreen'
      /\ sent \in SUBSET Request /\ Tab!Now' = Tab!Now
  BY DEF Tab!Answered, TabInv, TabTyped, SeesTheScreen, Tab!Now
<1>2. a \in AnalyzerState /\ ~a.requestInFlight /\ a.pendingAnalyze = analyzer.pendingAnalyze
  BY DEF TabInv, TabTyped, AnalyzerState
<1>3. /\ cached \in AnalyzerState /\ InFlight(cached, sent)
      /\ gone \in AnalyzerState /\ InFlight(gone, sent)
  BY <1>2 DEF AnalyzerState, InFlight
<1>4. SUFFICES ASSUME TRUE
               PROVE  /\ analyzer' \in AnalyzerState /\ requests' \subseteq Request
                      /\ InFlight(analyzer, requests)' /\ excused' \in BOOLEAN
                      /\ TabTyped' => RestIsTakenCareOf'
                      /\ ~running => analyzer'.inFlightBuffer = None
  BY <1>1 DEF TabInv, TabTyped, StoppedIsReset
<1>5. CASE ~running
  <2>1. analyzer' = a /\ requests' = sent /\ UNCHANGED excused
    BY <1>5 DEF Tab!Answered
  <2>2. a.inFlightBuffer = None
    BY <1>5 DEF TabInv, TabTyped, AnalyzerState, StoppedIsReset
  <2> HIDE DEF a
  <2> QED
    BY <1>1, <1>2, <1>5, <2>1, <2>2 DEF InFlight, StoppedIsReset, RestIsTakenCareOf, TabInv, TabTyped
<1>6. CASE running /\ Tab!Now # r.of
  <2>1. Tab!Discarded(a, r)
    BY <1>6 DEF Tab!Answered
  <2>2. CASE gone.pendingAnalyze
    <3>1. Tab!ThenPending(gone, shown, sent)
      BY <2>1, <2>2 DEF Tab!Discarded
    <3> HIDE DEF gone, sent
    <3> QED
      BY <1>1, <1>3, <1>6, <2>2, <3>1, ThenPendingTakesCare, CareIsRest DEF TabInv
  <2>3. CASE ~gone.pendingAnalyze
    <3>1. analyzer' = gone /\ requests' = sent /\ excused' = (excused \/ Tab!MidBurst) /\ UNCHANGED shown
      BY <2>1, <2>3 DEF Tab!Discarded
    <3>2. ~analyzer.pendingAnalyze
      BY <1>2, <2>3 DEF AnalyzerState
    <3>3. excused' \in BOOLEAN
      BY <3>1 DEF TabInv, TabTyped, Tab!MidBurst
    <3> QED
      BY <1>1, <1>3, <1>6, <3>1, <3>2, <3>3, ThrownAwayKeeps
  <2> QED
    BY <2>2, <2>3
<1>7. CASE running /\ Tab!Now = r.of
  <2>1. Tab!ThenPending(cached, Tab!Shows(state, r.of), sent)
    BY <1>7 DEF Tab!Answered
  <2>2. Tab!Shows(state, r.of).of = Tab!Now
    BY <1>7 DEF Tab!Shows
  <2> HIDE DEF cached, sent
  <2> QED
    BY <1>1, <1>3, <1>7, <2>1, <2>2, ThenPendingTakesCare, CareIsRest DEF TabInv
<1> QED
  BY <1>5, <1>6, <1>7

-----------------------------------------------------------------------------
LEMMA RejectedKeeps ==
  ASSUME TabInv, NEW r \in requests, Tab!Rejected(r)
  PROVE  TabInv'
<1> DEFINE a == [analyzer EXCEPT !.requestInFlight = FALSE, !.inFlightBuffer = None]
           sent == requests \ {r}
           c == [a EXCEPT !.pendingAnalyze = FALSE]
<1>1. /\ UNCHANGED <<running, starts, config, screen, detector>> /\ SeesTheScreen'
      /\ sent \in SUBSET Request /\ Tab!Now' = Tab!Now
  BY DEF Tab!Rejected, TabInv, TabTyped, SeesTheScreen, Tab!Now
<1>2. /\ a \in AnalyzerState /\ InFlight(a, sent) /\ a.inFlightBuffer = None
      /\ c \in AnalyzerState /\ InFlight(c, sent)
  BY DEF TabInv, TabTyped, AnalyzerState, InFlight
<1>3. SUFFICES ASSUME TRUE
               PROVE  /\ analyzer' \in AnalyzerState /\ requests' \subseteq Request
                      /\ InFlight(analyzer, requests)' /\ excused' \in BOOLEAN
                      /\ TabTyped' => RestIsTakenCareOf'
                      /\ ~running => analyzer'.inFlightBuffer = None
  BY <1>1 DEF TabInv, TabTyped, StoppedIsReset
<1>4. CASE ~running
  <2>1. analyzer' = a /\ requests' = sent /\ UNCHANGED excused
    BY <1>4 DEF Tab!Rejected
  <2> HIDE DEF a
  <2> QED
    BY <1>1, <1>2, <1>4, <2>1 DEF InFlight, RestIsTakenCareOf, TabInv, TabTyped
<1>5. CASE running /\ config # r.of[1]
  <2>1. Tab!Analyze(c, shown, sent)
    BY <1>5 DEF Tab!Rejected
  <2> HIDE DEF c, sent
  <2> QED
    BY <1>1, <1>2, <1>5, <2>1, AnalyzeTakesCare, CareIsRest DEF TabInv, TabTyped
<1>6. CASE running /\ config = r.of[1] /\ a.pendingAnalyze
  <2>1. Tab!ThenPending(a, Tab!Shows("Error", r.of), sent)
    BY <1>6 DEF Tab!Rejected
  <2> HIDE DEF a, sent
  <2> QED
    BY <1>1, <1>2, <1>6, <2>1, ThenPendingTakesCare, CareIsRest DEF TabInv
<1>7. CASE running /\ config = r.of[1] /\ ~a.pendingAnalyze
  <2>1. /\ analyzer' = a /\ requests' = sent /\ shown' = Tab!Shows("Error", r.of)
        /\ excused' = (excused \/ Tab!MidBurst \/ Tab!Now # r.of)
    BY <1>7 DEF Tab!Rejected
  <2>2. excused' \in BOOLEAN /\ (~excused' => ~Tab!MidBurst /\ Tab!Now = r.of)
    BY <2>1 DEF TabInv, TabTyped, Tab!MidBurst
  <2>3. shown'.of = r.of
    BY <2>1 DEF Tab!Shows
  <2> HIDE DEF a, sent
  <2> QED
    BY <1>1, <1>2, <1>7, <2>1, <2>2, <2>3, CareIsRest DEF TabInv
<1> QED
  BY <1>4, <1>5, <1>6, <1>7

LEMMA IdleTimerKeeps ==
  ASSUME TabInv, Tab!IdleTimer
  PROVE  TabInv'
<1> DEFINE d == detector
           blip == ~d.reported /\ d.lastSnapshot = d.burstBaseline
           working == ~d.reported /\ ~blip /\ d.settled
           old == IF working THEN Tab!Shows("Working", None) ELSE shown
<1>1. /\ d.armed /\ UNCHANGED <<running, starts, config, screen>>
      /\ d' = [d EXCEPT !.armed = FALSE, !.settled = TRUE, !.reported = @ \/ working]
  BY DEF Tab!IdleTimer
<1>2. /\ d' \in Detector /\ ~d'.armed /\ d'.lastSnapshot = d.lastSnapshot
      /\ d'.burstBaseline = d.burstBaseline
  BY <1>1 DEF TabInv, TabTyped, Detector
<1>3. running /\ SeesTheScreen'
  BY <1>1, <1>2 DEF TabInv, StoppedIsReset, SeesTheScreen
<1>4. CASE blip
  <2>1. UNCHANGED <<analyzer, shown, requests, excused>>
    BY <1>4 DEF Tab!IdleTimer
  <2>2. ASSUME ~excused, d.lastSnapshot = Tab!Now  PROVE TakenCareOf(Tab!Now)
    <3>1. d.burstBaseline[1] = config /\ d.burstBaseline = Tab!Now
      BY <1>4, <2>2 DEF Tab!Now
    <3> QED
      BY <1>1, <1>3, <1>4, <2>2, <3>1 DEF TabInv, RestIsTakenCareOf
  <2>3. RestIsTakenCareOf'
    BY <1>1, <1>2, <2>1, <2>2 DEF RestIsTakenCareOf, TakenCareOf, Tab!Now
  <2> QED
    BY <1>1, <1>2, <1>3, <2>1, <2>3 DEF TabInv, TabTyped, StoppedIsReset
<1>5. CASE ~blip
  <2>1. Tab!Analyze(analyzer, old, requests)
    BY <1>5 DEF Tab!IdleTimer
  <2> HIDE DEF old
  <2>2. /\ analyzer' \in AnalyzerState /\ requests' \subseteq Request
        /\ InFlight(analyzer, requests)' /\ excused' \in BOOLEAN
        /\ ~excused' => ~Tab!MidBurst
        /\ ~excused' => \/ shown'.of = Tab!Now
                        \/ \E r \in requests' : r.of = Tab!Now
                        \/ analyzer'.pendingAnalyze /\ requests' # {}
    BY <2>1, AnalyzeTakesCare DEF TabInv, TabTyped
  <2>3. TabTyped'
    BY <1>1, <1>2, <2>2 DEF TabInv, TabTyped
  <2> QED
    BY <1>1, <1>2, <1>3, <2>2, <2>3, CareIsRest DEF TabInv, StoppedIsReset
<1> QED
  BY <1>4, <1>5

(* The snapshot before a burst becomes what the burst must return to.      *)
LEMMA SnapshotKeeps ==
  ASSUME TabInv, running, screen' \in Screen \cup {Blank},
         Tab!ProcessSnapshot(<<config, screen'>>),
         UNCHANGED <<running, starts, config, analyzer, requests, excused>>
  PROVE  TabInv'
<1> DEFINE d == detector
           snapshot == <<config, screen'>>
           burst == IF d.armed THEN d ELSE [d EXCEPT !.burstBaseline = d.lastSnapshot, !.reported = FALSE]
<1>1. snapshot \in Snap /\ snapshot[1] = config /\ snapshot[2] = screen'
  BY DEF Snap, TabInv, TabTyped
<1> HIDE DEF snapshot
<1>2. CASE /\ d.armed /\ ~d.reported
           /\ d' = [d EXCEPT !.lastSnapshot = snapshot, !.reported = TRUE]
  <2>1. d' \in Detector /\ d'.armed /\ d'.reported /\ d'.lastSnapshot = snapshot
        /\ d'.burstBaseline = d.burstBaseline
    BY <1>1, <1>2 DEF TabInv, TabTyped, Detector
  <2> QED
    BY <1>1, <2>1 DEF TabInv, TabTyped, SeesTheScreen, StoppedIsReset, RestIsTakenCareOf, InFlight
<1>3. CASE /\ d' = [burst EXCEPT !.lastSnapshot = snapshot, !.armed = TRUE]
           /\ UNCHANGED shown
  <2>1. /\ d' \in Detector /\ d'.armed /\ d'.lastSnapshot = snapshot
        /\ d.armed => d'.burstBaseline = d.burstBaseline /\ d'.reported = d.reported
        /\ ~d.armed => d'.burstBaseline = d.lastSnapshot
    BY <1>1, <1>3 DEF TabInv, TabTyped, Detector
  <2>2. \A s : TakenCareOf(s) => TakenCareOf(s)'
    BY <1>3 DEF TakenCareOf
  <2>3. ASSUME ~excused, ~d.armed, d.lastSnapshot[1] = config
        PROVE  TakenCareOf(d.lastSnapshot)
    <3>1. d.lastSnapshot \in Nat \X (Screen \cup {Blank}) /\ d.lastSnapshot[2] = screen
      BY DEF TabInv, TabTyped, Detector, Snap, SeesTheScreen
    <3>2. d.lastSnapshot = Tab!Now
      BY <2>3, <3>1 DEF Tab!Now
    <3> QED
      BY <2>3, <3>2 DEF TabInv, RestIsTakenCareOf
  <2>4. ASSUME ~excused, ~d'.reported, d'.burstBaseline[1] = config
        PROVE  TakenCareOf(d'.burstBaseline)
    BY <2>1, <2>3, <2>4 DEF TabInv, RestIsTakenCareOf
  <2>5. RestIsTakenCareOf'
    BY <1>3, <2>1, <2>4 DEF RestIsTakenCareOf, TakenCareOf
  <2>6. SeesTheScreen'
    BY <1>1, <2>1 DEF TabInv, TabTyped, SeesTheScreen
  <2> QED
    BY <2>1, <2>5, <2>6 DEF TabInv, TabTyped, StoppedIsReset, InFlight
<1> QED
  BY <1>2, <1>3 DEF Tab!ProcessSnapshot, snapshot

LEMMA StopKeeps ==
  ASSUME TabInv, Tab!StopPolling
  PROVE  TabInv'
<1>1. /\ running' = FALSE /\ UNCHANGED <<starts, config, screen, requests, excused>>
      /\ analyzer' = Tab!Reset(config) /\ detector' = [detector EXCEPT !.armed = FALSE]
  BY DEF Tab!StopPolling
<1>2. /\ detector' \in Detector /\ ~detector'.armed
      /\ detector'.lastSnapshot = detector.lastSnapshot
      /\ detector'.burstBaseline = detector.burstBaseline
  BY <1>1 DEF TabInv, TabTyped, Detector
<1>3. /\ analyzer' \in AnalyzerState /\ analyzer'.inFlightBuffer = None
      /\ ~analyzer'.requestInFlight
  BY <1>1 DEF TabInv, TabTyped, AnalyzerState, Tab!Reset, Tab!Uncached
<1>4. TabTyped' /\ SeesTheScreen'
  BY <1>1, <1>2, <1>3 DEF TabInv, TabTyped, SeesTheScreen
<1> QED
  BY <1>1, <1>2, <1>3, <1>4 DEF TabInv, InFlight, StoppedIsReset, RestIsTakenCareOf

LEMMA TabInvIsKept ==
  ASSUME TabInv, [Tab!Next]_(Tab!vars)
  PROVE  TabInv'
<1>1. CASE Tab!Start
  <2>1. /\ running' = TRUE /\ starts' = starts + 1 /\ screen' = Blank /\ excused' = TRUE
        /\ detector' = Tab!Fresh(<<config, Blank>>) /\ UNCHANGED <<config, analyzer, requests>>
    BY <1>1 DEF Tab!Start
  <2>2. /\ detector' \in Detector /\ detector'.lastSnapshot = <<config, Blank>>
        /\ detector'.burstBaseline = <<config, Blank>>
    BY <2>1 DEF TabInv, TabTyped, Detector, Snap, Tab!Fresh
  <2> QED
    BY <2>1, <2>2 DEF TabInv, TabTyped, InFlight, StoppedIsReset, SeesTheScreen, RestIsTakenCareOf
<1>2. CASE Tab!Stop \/ Tab!Exit
  BY <1>2, StopKeeps DEF Tab!Stop, Tab!Exit
<1>3. CASE Tab!Configure
  <2>1. /\ config' = config + 1
        /\ UNCHANGED <<running, starts, screen, detector, analyzer, shown, requests, excused>>
    BY <1>3 DEF Tab!Configure
  <2>2. config' \in Nat /\ config < config'
    BY <2>1 DEF TabInv, TabTyped
  <2>3. detector.lastSnapshot \in Snap /\ detector.burstBaseline \in Snap
    BY DEF TabInv, TabTyped, Detector
  <2>4. detector'.lastSnapshot # Tab!Now' /\ detector'.burstBaseline[1] # config'
    BY <2>1, <2>2, <2>3 DEF TabInv, TabTyped, SeesTheScreen, Snap, Tab!Now
  <2>5. SeesTheScreen'
    BY <2>1, <2>2, <2>3 DEF TabInv, TabTyped, SeesTheScreen, Snap
  <2> QED
    BY <2>1, <2>2, <2>4, <2>5 DEF TabInv, TabTyped, InFlight, StoppedIsReset, RestIsTakenCareOf
<1>4. ASSUME NEW s \in Screen \cup {Blank}, Tab!Output(s)  PROVE TabInv'
  BY <1>4, SnapshotKeeps DEF Tab!Output
<1>5. CASE Tab!Poll
  <2>1. Tab!ProcessSnapshot(<<config, screen'>>) /\ screen' = screen
    BY <1>5 DEF Tab!Poll, Tab!Now
  <2> QED
    BY <1>5, <2>1, SnapshotKeeps DEF Tab!Poll, TabInv, TabTyped
<1>6. CASE UNCHANGED Tab!vars
  BY <1>6 DEF Tab!vars, TabInv, TabTyped, InFlight, StoppedIsReset, SeesTheScreen,
              RestIsTakenCareOf, TakenCareOf, Tab!Now
<1> QED
  BY <1>1, <1>2, <1>3, <1>4, <1>5, <1>6, IdleTimerKeeps, RejectedKeeps, AnsweredKeeps
  DEF Tab!Next, Verdict

(* A tab at rest shows what was made of the screen it rests on, under the  *)
(* present settings, but for the excused ways out (createAnalyzerStore.ts: *)
(* 150-420, idleDetector.ts): for any screens, outputs and failures.       *)
THEOREM RestIsAlwaysClassified == Tab!Spec => []RestIsClassified
<1>1. ASSUME Tab!Init  PROVE TabInv
  <2>1. detector \in Detector /\ analyzer \in AnalyzerState
    BY <1>1 DEF Tab!Init, Tab!Fresh, Tab!Reset, Tab!Uncached, Tab!Now, Detector, Snap, AnalyzerState
  <2>2. /\ analyzer.inFlightBuffer = None /\ ~analyzer.requestInFlight /\ ~detector.armed
        /\ detector.lastSnapshot = <<0, Blank>> /\ detector.burstBaseline = <<0, Blank>>
    BY <1>1 DEF Tab!Init, Tab!Fresh, Tab!Reset, Tab!Now
  <2>3. TabTyped
    BY <1>1, <2>1 DEF Tab!Init, TabTyped
  <2>4. SeesTheScreen
    BY <1>1, <2>2 DEF Tab!Init, SeesTheScreen
  <2> QED
    BY <1>1, <2>2, <2>3, <2>4 DEF Tab!Init, TabInv, InFlight, StoppedIsReset, RestIsTakenCareOf
<1>2. TabInv => RestIsClassified
  BY DEF TabInv, RestIsTakenCareOf, TakenCareOf, RestIsClassified, Tab!RestIsClassified, Tab!Resting
<1> QED
  BY <1>1, <1>2, TabInvIsKept, PTL DEF Tab!Spec

-----------------------------------------------------------------------------
(* A nonempty set of numbers has a least element, a finite one a greatest. *)
Less == {ss \in Nat \X Nat : ss[1] < ss[2]}

LEMMA LeastExists ==
  ASSUME NEW S \in SUBSET Nat, S # {}
  PROVE  \E m \in S : \A k \in S : m <= k
<1>1. IsWellFoundedOn(Less, Nat)
  BY NatLessThanWellFounded DEF Less, OpToRel
<1>2. PICK x \in S : \A y \in S : ~(<<y, x>> \in Less)
  <2> HIDE DEF Less
  <2> QED
    BY <1>1, WFMin
<1>3. ASSUME NEW k \in S  PROVE x <= k
  <2>1. k \in Nat /\ x \in Nat /\ ~(k < x)
    BY <1>2 DEF Less
  <2> QED
    BY <2>1
<1> QED
  BY <1>3

LEMMA GreatestExists ==
  ASSUME NEW T \in SUBSET Nat, IsFiniteSet(T), T # {}
  PROVE  \E m \in T : \A n \in T : m >= n
<1> DEFINE Larger(y) == {z \in T : z > y}
<1> DEFINE C == {Cardinality(Larger(y)) : y \in T}
<1>1. \A y \in T : IsFiniteSet(Larger(y)) /\ Cardinality(Larger(y)) \in Nat
  BY FS_Subset, FS_CardinalityType
<1>2. \A y \in T : \A z : z \in Larger(y) <=> z \in T /\ z > y
  OBVIOUS
<1> HIDE DEF Larger
<1>3. PICK y \in T : \A z \in T : Cardinality(Larger(y)) <= Cardinality(Larger(z))
  <2>1. C \in SUBSET Nat /\ C # {}
    BY <1>1
  <2>2. PICK m \in C : \A k \in C : m <= k
    <3> HIDE DEF C
    <3> QED
      BY <2>1, LeastExists
  <2> QED
    BY <2>2
<1>4. ASSUME NEW z \in T, z > y  PROVE FALSE
  <2>1. ~(z > z) /\ \A a \in T : a > z => a > y
    BY <1>4
  <2>2. z \in Larger(y) /\ z \notin Larger(z)
    BY <1>2, <1>4, <2>1, Zenon
  <2>3. Larger(z) \in SUBSET Larger(y)
    BY <1>2, <1>4, <2>1, Zenon
  <2>4. /\ Cardinality(Larger(z)) <= Cardinality(Larger(y))
        /\ Cardinality(Larger(y)) = Cardinality(Larger(z)) => Larger(y) = Larger(z)
    BY <1>1, <2>3, FS_Subset
  <2> QED
    BY <1>1, <1>3, <2>2, <2>4
<1> QED
  BY <1>4

-----------------------------------------------------------------------------
(* Moves in the tree of workspaces (WorkspaceTree).                        *)

Body == [parent : Tree!Id \cup {Tree!Root}, order : Nat]
Trees == [Tree!Id -> Body]

TreeTyped ==
  /\ file \in Trees
  /\ bodies \in [Window -> Trees] /\ seen \in [Window -> Trees]
  /\ mover \in Window

(* Until moves cross, only the window that moved last has something to     *)
(* write, and it has seen all that the others wrote.                       *)
OneMover ==
  /\ seen[mover] = file
  /\ \A v \in Window \ {mover} : bodies[v] = seen[v]

MoverKeepsForest ==
  /\ Tree!IsForest(bodies[mover])
  /\ Tree!PlacesAreDistinct(bodies[mover])
  /\ hung = {}

TreeInv == ~crossed => TreeTyped /\ OneMover /\ MoverKeepsForest

-----------------------------------------------------------------------------
(* A walk visits its start and with a workspace its parent, and stays in   *)
(* every set that holds these.                                             *)
LEMMA WalkVisits ==
  ASSUME NEW tree \in Trees, NEW x \in Tree!Id
  PROVE  /\ x \in Tree!Upwards(tree, x)
         /\ Tree!Upwards(tree, x) \subseteq Tree!Id
         /\ \A y \in Tree!Upwards(tree, x) :
              tree[y].parent \in Tree!Upwards(tree, x) \cup {Tree!Root}
         /\ \A S \in SUBSET Tree!Id :
              x \in S /\ (\A z \in S : tree[z].parent \in S \cup {Tree!Root})
                => Tree!Upwards(tree, x) \subseteq S
<1>1. x \in Tree!Upwards(tree, x) /\ Tree!Upwards(tree, x) \subseteq Tree!Id
  BY DEF Tree!Upwards
<1>2. ASSUME NEW y \in Tree!Upwards(tree, x), tree[y].parent # Tree!Root
      PROVE  tree[y].parent \in Tree!Upwards(tree, x)
  <2>1. y \in Tree!Id /\ tree[y].parent \in Tree!Id
    BY <1>1, <1>2 DEF Trees, Body
  <2>2. ASSUME NEW S \in SUBSET Tree!Id, x \in S,
               \A z \in S : tree[z].parent \in S \cup {Tree!Root}
        PROVE  tree[y].parent \in S
    BY <1>2, <2>2 DEF Tree!Upwards
  <2> QED
    BY <2>1, <2>2 DEF Tree!Upwards
<1>3. ASSUME NEW S \in SUBSET Tree!Id, x \in S,
             \A z \in S : tree[z].parent \in S \cup {Tree!Root}
      PROVE  Tree!Upwards(tree, x) \subseteq S
  BY <1>3 DEF Tree!Upwards
<1> QED
  BY <1>1, <1>2, <1>3

(* The tree is a forest when no set of workspaces has all of their parents.*)
Circular(tree, S) == S # {} /\ \A z \in S : tree[z].parent \in S

LEMMA ForestIsAcyclic ==
  ASSUME NEW tree \in Trees
  PROVE  Tree!IsForest(tree) <=> \A S \in SUBSET Tree!Id : ~Circular(tree, S)
<1>1. Tree!Root \notin Tree!Id
  BY DEF Tree!Root, Tree!Id
<1>2. ASSUME Tree!IsForest(tree), NEW S \in SUBSET Tree!Id, Circular(tree, S)
      PROVE  FALSE
  <2>1. PICK x \in S : TRUE
    BY <1>2 DEF Circular
  <2>2. Tree!Upwards(tree, x) \subseteq S
    BY <1>2, WalkVisits DEF Circular
  <2>3. PICK y \in Tree!Upwards(tree, x) : tree[y].parent = Tree!Root
    BY <1>2 DEF Tree!IsForest
  <2> QED
    BY <1>1, <1>2, <2>2, <2>3 DEF Circular
<1>3. ASSUME \A S \in SUBSET Tree!Id : ~Circular(tree, S), NEW x \in Tree!Id
      PROVE  \E y \in Tree!Upwards(tree, x) : tree[y].parent = Tree!Root
  <2>1. ~Circular(tree, Tree!Upwards(tree, x))
    BY <1>3, WalkVisits
  <2> QED
    BY <2>1, WalkVisits DEF Circular
<1> QED
  BY <1>2, <1>3 DEF Tree!IsForest

(* Whatever else happens to the orders: one workspace gets another parent, *)
(* to which the walk from that parent does not lead back.                  *)
LEMMA ReparentKeepsForest ==
  ASSUME NEW tree \in Trees, NEW after \in Trees, Tree!IsForest(tree), NEW d \in Tree!Id,
         \A x \in Tree!Id \ {d} : after[x].parent = tree[x].parent,
         \/ after[d].parent = tree[d].parent
         \/ after[d].parent = Tree!Root
         \/ d \notin Tree!Upwards(tree, after[d].parent)
  PROVE  Tree!IsForest(after)
<1>1. Tree!Root \notin Tree!Id
  BY DEF Tree!Root, Tree!Id
<1>2. ASSUME NEW S \in SUBSET Tree!Id, Circular(after, S)  PROVE FALSE
  <2>1. CASE d \notin S \/ after[d].parent = tree[d].parent
    <3>1. Circular(tree, S)
      BY <1>2, <2>1 DEF Circular
    <3> QED
      BY <3>1, ForestIsAcyclic
  <2>2. CASE d \in S /\ after[d].parent # tree[d].parent
    <3> DEFINE p == after[d].parent
    <3> DEFINE U == Tree!Upwards(tree, p)
    <3>1. p \in S /\ p \in Tree!Id /\ d \notin U
      BY <1>1, <1>2, <2>2 DEF Circular
    <3>2. /\ p \in U /\ U \subseteq Tree!Id
          /\ \A y \in U : tree[y].parent \in U \cup {Tree!Root}
      BY <3>1, WalkVisits
    <3> HIDE DEF U, p
    <3>3. \A z \in U \cap S : tree[z].parent \in U \cap S
      BY <1>1, <1>2, <3>1, <3>2 DEF Circular
    <3>4. Circular(tree, U \cap S)
      BY <3>1, <3>2, <3>3 DEF Circular
    <3> QED
      BY <3>4, ForestIsAcyclic
  <2> QED
    BY <2>1, <2>2
<1> QED
  BY <1>2, ForestIsAcyclic

-----------------------------------------------------------------------------
(* Siblings have different places in the sort, none beyond its order if    *)
(* the orders differ already.                                              *)
LEMMA IdsAreFinite == IsFiniteSet(Tree!Id) /\ Tree!Id \subseteq Nat /\ Tree!Root \notin Tree!Id
<1>1. Size \in Int /\ 1 \in Int
  BY PartsAssumption
<1> QED
  BY <1>1, FS_Interval DEF Tree!Id, Tree!Root

Earlier(tree, S, x) == {y \in S : Tree!Precedes(tree, y, x)}

LEMMA EarlierIsFinite ==
  ASSUME NEW tree \in Trees, NEW S \in SUBSET Tree!Id, NEW x \in S
  PROVE  /\ IsFiniteSet(Earlier(tree, S, x))
         /\ Tree!Index(tree, S, x) = Cardinality(Earlier(tree, S, x))
         /\ Tree!Index(tree, S, x) \in Nat
<1>1. Earlier(tree, S, x) \in SUBSET Tree!Id
  BY DEF Earlier
<1>2. IsFiniteSet(Earlier(tree, S, x))
  BY <1>1, IdsAreFinite, FS_Subset
<1>3. Tree!Index(tree, S, x) = Cardinality(Earlier(tree, S, x))
  BY DEF Earlier, Tree!Index, Tree!Cardinality, Cardinality
<1> QED
  BY <1>2, <1>3, FS_CardinalityType

LEMMA PrecedesIsTotal ==
  ASSUME NEW tree \in Trees
  PROVE  /\ \A x, y \in Tree!Id : x # y => Tree!Precedes(tree, x, y) \/ Tree!Precedes(tree, y, x)
         /\ \A x \in Tree!Id : ~Tree!Precedes(tree, x, x)
         /\ \A x, y, z \in Tree!Id :
              Tree!Precedes(tree, x, y) /\ Tree!Precedes(tree, y, z) => Tree!Precedes(tree, x, z)
<1>1. \A x \in Tree!Id : x \in Nat /\ tree[x].order \in Nat
  BY IdsAreFinite DEF Trees, Body
<1> QED
  BY <1>1 DEF Tree!Precedes

LEMMA IndexIsInjective ==
  ASSUME NEW tree \in Trees, NEW S \in SUBSET Tree!Id, NEW x \in S, NEW y \in S, x # y
  PROVE  Tree!Index(tree, S, x) # Tree!Index(tree, S, y)
<1>1. ASSUME NEW a \in S, NEW b \in S, Tree!Precedes(tree, a, b)
      PROVE  Tree!Index(tree, S, a) # Tree!Index(tree, S, b)
  <2>1. Earlier(tree, S, a) \in SUBSET Earlier(tree, S, b)
    BY <1>1, PrecedesIsTotal DEF Earlier
  <2>2. a \in Earlier(tree, S, b) /\ a \notin Earlier(tree, S, a)
    BY <1>1, PrecedesIsTotal DEF Earlier
  <2>3. Cardinality(Earlier(tree, S, b)) = Cardinality(Earlier(tree, S, a))
          => Earlier(tree, S, b) = Earlier(tree, S, a)
    BY <2>1, EarlierIsFinite, FS_Subset
  <2> QED
    BY <2>2, <2>3, EarlierIsFinite
<1> QED
  BY <1>1, PrecedesIsTotal

LEMMA IndexIsAtMostOrder ==
  ASSUME NEW tree \in Trees, NEW S \in SUBSET Tree!Id, NEW x \in S,
         \A y, z \in S : y # z => tree[y].order # tree[z].order
  PROVE  Tree!Index(tree, S, x) <= tree[x].order
<1> DEFINE P == Earlier(tree, S, x)
<1> DEFINE n == tree[x].order
<1> DEFINE f == [y \in P |-> tree[y].order]
<1>1. n \in Nat /\ \A y \in S : tree[y].order \in Nat
  BY DEF Trees, Body
<1>2. \A y \in P : y \in S /\ y # x /\ tree[y].order < n
  BY <1>1, IdsAreFinite DEF Earlier, Tree!Precedes
<1>3. f \in Injection(P, 0 .. (n - 1))
  BY <1>1, <1>2 DEF Injection, IsInjective
<1>4. IsFiniteSet(0 .. (n - 1)) /\ Cardinality(0 .. (n - 1)) = n
  <2>1. n - 1 \in Int /\ 0 \in Int /\ (0 > n - 1 => n = 0) /\ n - 1 - 0 + 1 = n
    BY <1>1
  <2> HIDE DEF n
  <2> QED
    BY <2>1, FS_Interval
<1>5. Cardinality(P) <= n
  <2> HIDE DEF f, P, n
  <2> QED
    BY <1>3, <1>4, FS_Injection
<1> QED
  BY <1>5, EarlierIsFinite

LEMMA NextIsLast ==
  ASSUME NEW tree \in Trees, NEW p \in Tree!Id \cup {Tree!Root}
  PROVE  /\ Tree!NextSortOrder(tree, p) \in Nat
         /\ \A x \in Tree!Siblings(tree, p) : tree[x].order < Tree!NextSortOrder(tree, p)
<1> DEFINE S == Tree!Siblings(tree, p)
<1> DEFINE O == {tree[x].order : x \in S}
<1>1. S \in SUBSET Tree!Id /\ O \in SUBSET Nat
  BY DEF Tree!Siblings, Trees, Body
<1>2. CASE S = {}
  BY <1>2 DEF Tree!NextSortOrder
<1>3. CASE S # {}
  <2>1. IsFiniteSet(S)
    BY <1>1, IdsAreFinite, FS_Subset
  <2>2. IsFiniteSet(O)
    <3> DEFINE f == [x \in S |-> tree[x].order]
    <3>1. f \in Surjection(S, O)
      BY DEF Surjection
    <3> QED
      BY <2>1, <3>1, FS_Surjection
  <2>3. O # {}
    BY <1>3
  <2>4. \E m \in O : \A k \in O : m >= k
    <3> HIDE DEF O
    <3> QED
      BY <1>1, <2>2, <2>3, GreatestExists
  <2>5. Tree!Max(O) \in O /\ \A k \in O : Tree!Max(O) >= k
    <3> HIDE DEF O
    <3> QED
      BY <2>4 DEF Tree!Max
  <2>6. Tree!NextSortOrder(tree, p) = Tree!Max(O) + 1
    BY <1>3 DEF Tree!NextSortOrder
  <2>7. Tree!Max(O) \in Nat /\ \A x \in S : tree[x].order \in O
    BY <1>1, <2>5
  <2> HIDE DEF O
  <2>8. \A k \in O : k < Tree!Max(O) + 1
    BY <1>1, <2>5, <2>7
  <2> QED
    BY <2>6, <2>7, <2>8
<1> QED
  BY <1>2, <1>3

-----------------------------------------------------------------------------
(* What a move does to the tree: d gets the parent p, the others keep      *)
(* theirs, and places stay distinct.                                       *)
MovesTo(tree, after, d, p) ==
  /\ after \in Trees
  /\ after[d].parent = p
  /\ \A x \in Tree!Id \ {d} : after[x].parent = tree[x].parent
  /\ Tree!PlacesAreDistinct(after)

Others(tree, p, d) == Tree!Siblings(tree, p) \ {d}

Reindexed(tree, after, p, d) ==
  /\ after \in Trees
  /\ \A x \in Tree!Id : after[x].parent = tree[x].parent
  /\ \A x \in Others(tree, p, d) : after[x].order = Tree!Index(tree, Others(tree, p, d), x)
  /\ \A x \in Tree!Id \ Others(tree, p, d) : after[x] = tree[x]

LEMMA ReindexResult ==
  ASSUME NEW tree \in Trees, NEW p, NEW d \in Tree!Id
  PROVE  Reindexed(tree, Tree!ReindexSiblings(tree, p, d), p, d)
<1> DEFINE S == Others(tree, p, d)
<1> DEFINE after == Tree!ReindexSiblings(tree, p, d)
<1>1. S \in SUBSET Tree!Id
  BY DEF Others, Tree!Siblings
<1>2. \A x \in S : Tree!Index(tree, S, x) \in Nat
  BY <1>1, EarlierIsFinite
<1>3. after = [x \in Tree!Id |-> IF x \in S THEN [tree[x] EXCEPT !.order = Tree!Index(tree, S, x)]
                                 ELSE tree[x]]
  BY DEF Tree!ReindexSiblings, Others
<1> HIDE DEF S, after
<1>4. \A x \in S : /\ after[x] \in Body /\ after[x].parent = tree[x].parent
                   /\ after[x].order = Tree!Index(tree, S, x)
  <2>1. ASSUME NEW x \in S
        PROVE  /\ after[x] \in Body /\ after[x].parent = tree[x].parent
               /\ after[x].order = Tree!Index(tree, S, x)
    <3> DEFINE i == Tree!Index(tree, S, x)
    <3>1. i \in Nat
      BY <1>2
    <3> HIDE DEF i
    <3>2. after[x] = [tree[x] EXCEPT !.order = i]
      BY <1>1, <1>3 DEF i
    <3>3. tree[x] \in Body
      BY <1>1 DEF Trees
    <3> QED
      BY <3>1, <3>2, <3>3 DEF Body, i
  <2> QED
    BY <2>1
<1>5. \A x \in Tree!Id \ S : after[x] = tree[x]
  BY <1>3
<1>6. after \in Trees
  BY <1>1, <1>3, <1>4, <1>5 DEF Trees
<1>7. \A x \in Tree!Id : after[x].parent = tree[x].parent
  BY <1>4, <1>5
<1> QED
  BY <1>4, <1>5, <1>6, <1>7 DEF S, after, Reindexed

LEMMA MovedOntoResult ==
  ASSUME NEW tree \in Trees, NEW d \in Tree!Id, NEW t \in Tree!Id, d # t,
         Tree!PlacesAreDistinct(tree)
  PROVE  MovesTo(tree, Tree!MovedOnto(tree, d, t), d, t)
<1> DEFINE next == Tree!NextSortOrder(tree, t)
<1> DEFINE moved == [tree EXCEPT ![d] = [parent |-> t, order |-> next]]
<1> DEFINE p == tree[d].parent
<1> DEFINE S == Others(moved, p, d)
<1> DEFINE after == Tree!ReindexSiblings(moved, p, d)
<1>1. /\ next \in Nat
      /\ \A x \in Tree!Id : tree[x].parent = t => tree[x].order < next
  BY NextIsLast DEF Tree!Siblings
<1>2. after = Tree!MovedOnto(tree, d, t)
  BY DEF Tree!MovedOnto
<1> HIDE DEF next, after
<1>3. moved \in Trees
  BY <1>1 DEF Trees, Body
<1>4. /\ moved[d] = [parent |-> t, order |-> next]
      /\ \A x \in Tree!Id \ {d} : moved[x] = tree[x]
  BY DEF Trees
<1>5. /\ S \in SUBSET Tree!Id /\ d \notin S
      /\ \A x \in Tree!Id \ {d} : x \in S <=> tree[x].parent = p
  BY <1>4 DEF Others, Tree!Siblings
<1>6. /\ after \in Trees
      /\ \A x \in Tree!Id : after[x].parent = moved[x].parent
      /\ \A x \in S : after[x].order = Tree!Index(moved, S, x)
      /\ \A x \in Tree!Id \ S : after[x] = moved[x]
  <2> HIDE DEF moved, p
  <2> QED
    BY <1>3, ReindexResult DEF after, Reindexed
<1> HIDE DEF moved, S
<1>7. \A x \in S : after[x].order <= tree[x].order
  <2>1. \A y, z \in S : y # z => moved[y].order # moved[z].order
    BY <1>4, <1>5 DEF Tree!PlacesAreDistinct
  <2> QED
    BY <1>3, <1>4, <1>5, <1>6, <2>1, IndexIsAtMostOrder
<1>8. ASSUME NEW x \in Tree!Id, NEW y \in Tree!Id \ {x}, after[x].parent = after[y].parent, y # d
      PROVE  after[x].order # after[y].order
  <2>1. CASE x \in S /\ y \in S
    BY <1>3, <1>5, <1>6, <2>1, IndexIsInjective
  <2>2. CASE x = d
    <3>1. after[d].parent = t /\ after[d].order = next
      BY <1>4, <1>5, <1>6
    <3>2. tree[y].parent = t
      BY <1>4, <1>6, <1>8, <2>2, <3>1
    <3>3. after[y].order <= tree[y].order /\ after[y].order \in Nat /\ tree[y].order \in Nat
      BY <1>4, <1>6, <1>7, <1>8 DEF Trees, Body
    <3> QED
      BY <1>1, <2>2, <3>1, <3>2, <3>3
  <2>3. CASE x # d /\ ~(x \in S /\ y \in S)
    <3>1. tree[x].parent = tree[y].parent
      BY <1>4, <1>6, <1>8, <2>3
    <3>2. x \notin S /\ y \notin S
      BY <1>5, <1>8, <2>3, <3>1
    <3> QED
      BY <1>4, <1>6, <1>8, <2>3, <3>1, <3>2 DEF Tree!PlacesAreDistinct
  <2> QED
    BY <2>1, <2>2, <2>3
<1>9. Tree!PlacesAreDistinct(after)
  <2>1. \A x \in Tree!Id, y \in Tree!Id \ {d} :
          x # y /\ after[x].parent = after[y].parent => after[x].order # after[y].order
    BY <1>8
  <2> QED
    BY <2>1 DEF Tree!PlacesAreDistinct
<1> QED
  BY <1>2, <1>4, <1>5, <1>6, <1>9 DEF MovesTo

LEMMA PlacedResult ==
  ASSUME NEW tree \in Trees, NEW d \in Tree!Id, NEW t \in Tree!Id, d # t, NEW offset \in 0..1,
         Tree!PlacesAreDistinct(tree)
  PROVE  MovesTo(tree, Tree!Placed(tree, d, t, offset), d, tree[t].parent)
<1> DEFINE p == tree[t].parent
<1> DEFINE S == Tree!Siblings(tree, p) \ {d}
<1> DEFINE at == Tree!Index(tree, S, t) + offset
<1> DEFINE shift(i) == IF i < at THEN i ELSE i + 1
<1> DEFINE after == Tree!Placed(tree, d, t, offset)
<1>1. S \in SUBSET Tree!Id /\ d \notin S /\ t \in S /\ p \in Tree!Id \cup {Tree!Root}
  BY DEF Tree!Siblings, Trees, Body
<1>2. \A x \in Tree!Id \ {d} : x \in S <=> tree[x].parent = p
  BY DEF Tree!Siblings
<1>3. (\A x \in S : Tree!Index(tree, S, x) \in Nat) /\ at \in Nat
  BY <1>1, EarlierIsFinite
<1>4. after = [x \in Tree!Id |->
                 IF x = d THEN [parent |-> p, order |-> at]
                 ELSE IF x \in S THEN [tree[x] EXCEPT !.order = shift(Tree!Index(tree, S, x))]
                 ELSE tree[x]]
  BY DEF Tree!Placed
<1> HIDE DEF S, p, after, at
<1>5. after[d] = [parent |-> p, order |-> at]
  BY <1>4
<1>6. \A x \in S : /\ after[x] \in Body /\ after[x].parent = p
                   /\ after[x].order = shift(Tree!Index(tree, S, x))
  <2>1. ASSUME NEW x \in S
        PROVE  /\ after[x] \in Body /\ after[x].parent = p
               /\ after[x].order = shift(Tree!Index(tree, S, x))
    <3> DEFINE i == shift(Tree!Index(tree, S, x))
    <3>1. i \in Nat
      BY <1>3
    <3> HIDE DEF i
    <3>2. after[x] = [tree[x] EXCEPT !.order = i]
      BY <1>1, <1>4 DEF i
    <3>3. tree[x] \in Body /\ tree[x].parent = p
      BY <1>1, <1>2 DEF Trees
    <3> QED
      BY <3>1, <3>2, <3>3 DEF Body, i
  <2> QED
    BY <2>1
<1>7. \A x \in Tree!Id \ (S \cup {d}) : after[x] = tree[x]
  BY <1>4
<1>8. after \in Trees
  BY <1>1, <1>3, <1>4, <1>5, <1>6, <1>7 DEF Trees, Body
<1>9. ASSUME NEW x \in Tree!Id, NEW y \in Tree!Id \ {x}, after[x].parent = after[y].parent, y # d
      PROVE  after[x].order # after[y].order
  <2>1. CASE x \in S /\ y \in S
    <3>1. Tree!Index(tree, S, x) # Tree!Index(tree, S, y)
      BY <1>1, <1>9, <2>1, IndexIsInjective
    <3> QED
      BY <1>3, <1>6, <2>1, <3>1
  <2>2. CASE x = d
    <3>1. y \in S
      BY <1>2, <1>5, <1>7, <1>9, <2>2
    <3> QED
      BY <1>3, <1>5, <1>6, <2>2, <3>1
  <2>3. CASE x # d /\ ~(x \in S /\ y \in S)
    <3>1. x \notin S /\ y \notin S
      BY <1>2, <1>6, <1>7, <1>9, <2>3
    <3> QED
      BY <1>7, <1>9, <2>3, <3>1 DEF Tree!PlacesAreDistinct
  <2> QED
    BY <2>1, <2>2, <2>3
<1>10. Tree!PlacesAreDistinct(after)
  <2>1. \A x \in Tree!Id, y \in Tree!Id \ {d} :
          x # y /\ after[x].parent = after[y].parent => after[x].order # after[y].order
    BY <1>9
  <2> QED
    BY <2>1 DEF Tree!PlacesAreDistinct
<1>11. \A x \in Tree!Id \ {d} : after[x].parent = tree[x].parent
  BY <1>2, <1>6, <1>7
<1> QED
  BY <1>5, <1>8, <1>10, <1>11 DEF MovesTo, after, p

LEMMA MovedBesideResult ==
  ASSUME NEW tree \in Trees, NEW d \in Tree!Id, NEW t \in Tree!Id, d # t, NEW offset \in 0..1,
         Tree!PlacesAreDistinct(tree)
  PROVE  MovesTo(tree, Tree!MovedBeside(tree, d, t, offset), d, tree[t].parent)
<1> DEFINE placed == Tree!Placed(tree, d, t, offset)
<1> DEFINE p == tree[d].parent
<1>1. MovesTo(tree, placed, d, tree[t].parent)
  BY PlacedResult
<1>2. CASE p = tree[t].parent
  BY <1>1, <1>2 DEF Tree!MovedBeside
<1>3. CASE p # tree[t].parent
  <2> DEFINE S == Others(placed, p, d)
  <2> DEFINE after == Tree!ReindexSiblings(placed, p, d)
  <2>1. after = Tree!MovedBeside(tree, d, t, offset)
    BY <1>3 DEF Tree!MovedBeside
  <2> HIDE DEF placed, p
  <2>2. /\ after \in Trees
        /\ \A x \in Tree!Id : after[x].parent = placed[x].parent
        /\ \A x \in S : after[x].order = Tree!Index(placed, S, x)
        /\ \A x \in Tree!Id \ S : after[x] = placed[x]
    BY <1>1, ReindexResult DEF MovesTo, Reindexed
  <2>3. S \in SUBSET Tree!Id /\ \A x \in Tree!Id : x \in S <=> x # d /\ placed[x].parent = p
    BY DEF Others, Tree!Siblings
  <2>4. placed[d].parent # p
    BY <1>1, <1>3 DEF MovesTo
  <2> HIDE DEF S, after
  <2>5. ASSUME NEW x \in Tree!Id, NEW y \in Tree!Id, x # y, after[x].parent = after[y].parent
        PROVE  after[x].order # after[y].order
    <3>1. x \in S <=> y \in S
      BY <2>2, <2>3, <2>4, <2>5
    <3>2. CASE x \in S /\ y \in S
      BY <1>1, <2>2, <2>3, <2>5, <3>2, IndexIsInjective DEF MovesTo
    <3>3. CASE x \notin S /\ y \notin S
      BY <1>1, <2>2, <2>5, <3>3 DEF MovesTo, Tree!PlacesAreDistinct
    <3> QED
      BY <3>1, <3>2, <3>3
  <2> QED
    BY <1>1, <2>1, <2>2, <2>5 DEF MovesTo, Tree!PlacesAreDistinct
<1> QED
  BY <1>2, <1>3

-----------------------------------------------------------------------------
(* A move by a window that is up to date: its own tree was a forest, so    *)
(* the walk ends, and the check makes the move keep it one.                *)
LEMMA MoveKeepsTree ==
  ASSUME TreeInv, NEW w \in Window, NEW d \in Tree!Id, NEW t \in Tree!Id,
         NEW position \in {"onto", "before", "after"}, Tree!MoveWorkspace(w, d, t, position)
  PROVE  TreeInv'
<1> SUFFICES ASSUME ~crossed'  PROVE TreeTyped' /\ OneMover' /\ MoverKeepsForest'
  BY DEF TreeInv
<1> DEFINE tree == bodies[w]
<1> DEFINE after == CASE position = "onto" -> Tree!MovedOnto(tree, d, t)
                      [] position = "before" -> Tree!MovedBeside(tree, d, t, 0)
                      [] position = "after" -> Tree!MovedBeside(tree, d, t, 1)
<1> DEFINE start == IF position = "onto" THEN t
                    ELSE IF tree[d].parent = tree[t].parent THEN Tree!Root ELSE tree[t].parent
<1> DEFINE p == IF position = "onto" THEN t ELSE tree[t].parent
<1>1. /\ d # t /\ mover' = w /\ crossed' = (crossed \/ ~Tree!UpToDate(w))
      /\ file' = file /\ seen' = seen
      /\ IF ~Tree!WalkEnds(tree, d, start)
           THEN hung' = hung \cup {w} /\ bodies' = bodies
           ELSE /\ ~Tree!CheckAncestor(tree, d, start)
                /\ bodies' = [bodies EXCEPT ![w] = after]
                /\ hung' = hung
  BY DEF Tree!MoveWorkspace
<1>2. /\ TreeTyped /\ OneMover /\ MoverKeepsForest /\ tree \in Trees
      /\ seen[w] = file /\ \A v \in Window \ {w} : bodies[v] = seen[v]
  BY <1>1 DEF TreeInv, TreeTyped, Tree!UpToDate
<1>3. Tree!IsForest(tree) /\ Tree!PlacesAreDistinct(tree) /\ hung = {}
  <2>1. bodies[w] = bodies[mover]
    BY <1>2 DEF TreeTyped, OneMover
  <2> QED
    BY <1>2, <2>1 DEF MoverKeepsForest
<1>4. MovesTo(tree, after, d, p)
  <2>1. 0 \in 0..1 /\ 1 \in 0..1
    OBVIOUS
  <2> QED
    BY <1>1, <1>2, <1>3, <2>1, MovedOntoResult, MovedBesideResult DEF after
<1> HIDE DEF after
<1>5. /\ bodies' = [bodies EXCEPT ![w] = after] /\ hung' = {}
      /\ ~Tree!CheckAncestor(tree, d, start)
  <2>1. \A x \in Tree!Id : Tree!WalkEnds(tree, d, x)
    BY <1>3 DEF Tree!IsForest, Tree!WalkEnds
  <2>2. Tree!WalkEnds(tree, d, start)
    BY <1>2, <2>1 DEF Tree!WalkEnds, Trees, Body
  <2> QED
    BY <1>1, <1>3, <2>2
<1>6. Tree!IsForest(after)
  <2>1. \/ after[d].parent = tree[d].parent
        \/ after[d].parent = Tree!Root
        \/ d \notin Tree!Upwards(tree, after[d].parent)
    BY <1>4, <1>5, IdsAreFinite DEF MovesTo, Tree!CheckAncestor
  <2> QED
    BY <1>2, <1>3, <1>4, <2>1, ReparentKeepsForest DEF MovesTo
<1>7. TreeTyped' /\ OneMover'
  BY <1>1, <1>2, <1>4, <1>5 DEF TreeTyped, OneMover, MovesTo
<1>8. MoverKeepsForest'
  BY <1>1, <1>2, <1>4, <1>5, <1>6 DEF TreeTyped, MoverKeepsForest, MovesTo
<1> QED
  BY <1>7, <1>8

LEMMA WriteKeepsTree ==
  ASSUME TreeInv, NEW w \in Window, NEW x \in Tree!Id, Tree!WriteBody(w, x)
  PROVE  TreeInv'
<1> SUFFICES ASSUME ~crossed  PROVE TreeTyped' /\ OneMover' /\ MoverKeepsForest'
  BY DEF TreeInv, Tree!WriteBody
<1>1. w = mover /\ TreeTyped /\ OneMover /\ MoverKeepsForest
  BY DEF TreeInv, OneMover, Tree!WriteBody
<1>2. /\ TreeTyped'
      /\ file' = [file EXCEPT ![x] = bodies[mover][x]]
      /\ seen' = [seen EXCEPT ![mover] = [seen[mover] EXCEPT ![x] = bodies[mover][x]]]
      /\ bodies' = bodies /\ mover' = mover /\ hung' = hung
  BY <1>1 DEF TreeTyped, Trees, Tree!WriteBody
<1>3. OneMover'
  BY <1>1, <1>2 DEF TreeTyped, OneMover
<1> QED
  BY <1>1, <1>2, <1>3 DEF MoverKeepsForest

LEMMA ArrivalKeepsTree ==
  ASSUME TreeInv, NEW w \in Window, NEW x \in Tree!Id, Tree!BodyArrives(w, x)
  PROVE  TreeInv'
<1> SUFFICES ASSUME ~crossed  PROVE TreeTyped' /\ OneMover' /\ MoverKeepsForest'
  BY DEF TreeInv, Tree!BodyArrives
<1>1. w # mover /\ TreeTyped /\ OneMover /\ MoverKeepsForest
  BY DEF TreeInv, OneMover, Tree!BodyArrives
<1>2. /\ TreeTyped'
      /\ bodies' = [bodies EXCEPT ![w] = [bodies[w] EXCEPT ![x] = file[x]]]
      /\ seen' = [seen EXCEPT ![w] = [seen[w] EXCEPT ![x] = file[x]]]
      /\ file' = file /\ mover' = mover /\ hung' = hung
  BY <1>1 DEF TreeTyped, Trees, Tree!BodyArrives
<1>3. OneMover'
  BY <1>1, <1>2 DEF TreeTyped, OneMover
<1> QED
  BY <1>1, <1>2, <1>3 DEF TreeTyped, MoverKeepsForest

LEMMA TreeStartsAsForest ==
  ASSUME Tree!Init
  PROVE  TreeInv
<1>1. /\ file \in [Tree!Id -> [parent : Tree!Id \cup {Tree!Root}, order : Tree!Order]]
      /\ \A x \in Tree!Id :
           /\ file[x].parent < x
           /\ file[x].order = Tree!Cardinality({y \in Tree!Siblings(file, file[x].parent) : y < x})
      /\ bodies = [w \in Window |-> file] /\ seen = [w \in Window |-> file] /\ hung = {}
      /\ mover = (CHOOSE w \in Window : TRUE)
  BY DEF Tree!Init
<1>2. mover \in Window
  BY <1>1, PartsAssumption
<1>3. file \in Trees
  BY <1>1 DEF Trees, Body, Tree!Order
<1>4. TreeTyped /\ OneMover
  BY <1>1, <1>2, <1>3 DEF TreeTyped, OneMover
<1>5. Tree!IsForest(file)
  <2>1. ASSUME NEW S \in SUBSET Tree!Id, Circular(file, S)  PROVE FALSE
    <3>1. PICK m \in S : \A k \in S : m <= k
      BY <2>1, IdsAreFinite, LeastExists DEF Circular
    <3>2. file[m].parent \in S /\ file[m].parent < m
      BY <1>1, <2>1 DEF Circular
    <3>3. m \in Nat /\ file[m].parent \in Nat
      BY <3>2, IdsAreFinite
    <3>4. m <= file[m].parent
      BY <3>1, <3>2
    <3> QED
      BY <3>2, <3>3, <3>4
  <2> QED
    BY <1>3, <2>1, ForestIsAcyclic
<1>6. Tree!PlacesAreDistinct(file)
  <2> DEFINE Below(x) == {y \in Tree!Siblings(file, file[x].parent) : y < x}
  <2>1. ASSUME NEW x \in Tree!Id, NEW y \in Tree!Id, x < y, file[x].parent = file[y].parent
        PROVE  file[x].order # file[y].order
    <3>1. Below(x) \subseteq Tree!Id /\ Below(y) \subseteq Tree!Id
      BY DEF Tree!Siblings
    <3>2. IsFiniteSet(Below(x)) /\ IsFiniteSet(Below(y))
      BY <3>1, IdsAreFinite, FS_Subset
    <3>3. Below(x) \subseteq Below(y)
      <4>1. \A z \in Tree!Id : z < x => z < y
        BY <2>1, IdsAreFinite
      <4> QED
        BY <2>1, <4>1, Zenon DEF Tree!Siblings
    <3>4. x \in Below(y) /\ x \notin Below(x)
      BY <2>1, IdsAreFinite DEF Tree!Siblings
    <3>5. file[x].order = Cardinality(Below(x)) /\ file[y].order = Cardinality(Below(y))
      BY <1>1 DEF Tree!Cardinality, Cardinality
    <3> HIDE DEF Below
    <3>6. Cardinality(Below(y)) # Cardinality(Below(x))
      BY <3>2, <3>3, <3>4, FS_Subset
    <3> QED
      BY <3>5, <3>6
  <2>2. \A x, y \in Tree!Id : x # y => x < y \/ y < x
    BY IdsAreFinite
  <2> QED
    BY <2>1, <2>2 DEF Tree!PlacesAreDistinct
<1> QED
  BY <1>1, <1>2, <1>4, <1>5, <1>6 DEF TreeInv, MoverKeepsForest

(* Moves keep the workspaces a forest with a place of its own for each     *)
(* sibling, and no walk up the tree goes on for ever (checkAncestor), for  *)
(* any number of windows and workspaces, unless moves of two windows       *)
(* crossed.                                                                *)
THEOREM MovesAlwaysKeepForest == Tree!Spec => []MovesKeepForest
<1>1. TreeInv /\ [Tree!Next]_Tree!vars => TreeInv'
  <2> SUFFICES ASSUME TreeInv, [Tree!Next]_Tree!vars  PROVE TreeInv'
    OBVIOUS
  <2>1. CASE UNCHANGED Tree!vars
    BY <2>1 DEF Tree!vars, TreeInv, TreeTyped, OneMover, MoverKeepsForest
  <2> QED
    BY <2>1, MoveKeepsTree, WriteKeepsTree, ArrivalKeepsTree DEF Tree!Next
<1>2. TreeInv => MovesKeepForest
  BY DEF TreeInv, MoverKeepsForest, MovesKeepForest, Tree!MovesKeepForest
<1> QED
  BY <1>1, <1>2, TreeStartsAsForest, PTL DEF Tree!Spec
=============================================================================
