------------------------ MODULE Connection_proofs ---------------------------
(***************************************************************************)
(* Proofs about Connection, for any number of connection objects, tunnels, *)
(* failures and requests.                                                  *)
(***************************************************************************)
EXTENDS Connection, TLAPS

LEMMA Numbers == Conn \subseteq Nat \ {None} /\ Tunnel \subseteq Nat \ {None}
BY DEF Conn, Tunnel, None

LEMMA LeastIsOne ==
  ASSUME NEW S, NEW t \in Least(S)
  PROVE  t \in S
BY DEF Least

LEMMA FreeTunnel ==
  ASSUME NEW t \in Least(FreeTunnels)
  PROVE  /\ t \in Tunnel /\ ~Running(t) /\ proc[t] # "dead" /\ file # t /\ t \notin execs
         /\ \A o \in Conn : tunnel[o] # t /\ client[o] # t
         /\ \A j \in jobs : j.tun # t
BY LeastIsOne DEF FreeTunnels, Used

LEMMA FreeConn ==
  ASSUME NEW o \in Least(FreeConns)
  PROVE  /\ o \in Conn /\ o # entry /\ o \notin pending /\ orphans[o] = 0
         /\ \A j \in jobs : j.obj # o
BY LeastIsOne DEF FreeConns

-----------------------------------------------------------------------------
(* Types                                                                   *)

ProcType == [Tunnel -> {"none", "starting", "up", "dead", "gone"}]
LinkType == [Tunnel -> {"none", "up", "silent", "lost", "closed"}]

LEMMA ReplaceType ==
  ASSUME TypeOK, NEW closed, NEW killed, NEW fresh \in SUBSET Tunnel,
         Replace(closed, killed, fresh)
  PROVE  /\ proc' \in ProcType /\ link' \in LinkType /\ wired' \subseteq Tunnel
         /\ via' \in [Tunnel -> Tunnel \cup {None}] /\ file' \in Tunnel \cup {None}
         /\ evaded' \subseteq Tunnel
<1>1. proc' \in ProcType
  BY DEF Replace, TypeOK, ProcType
<1>2. link' \in LinkType
  BY DEF Replace, TypeOK, LinkType
<1>3. wired' \subseteq Tunnel /\ via' \in [Tunnel -> Tunnel \cup {None}]
  BY DEF Replace, TypeOK
<1>4. file' \in Tunnel \cup {None}
  BY DEF Replace, TypeOK
<1>5. evaded' \subseteq Tunnel
  BY DEF Replace, TypeOK, Job
<1> QED
  BY <1>1, <1>2, <1>3, <1>4, <1>5

LEMMA NewJob ==
  ASSUME NEW o \in Conn, NEW t \in Tunnel, NEW k \in {"connect", "attempt"}
  PROVE  [obj |-> o, tun |-> t, kind |-> k, at |-> "booting"] \in Job
BY DEF Job

LEMMA BeginType ==
  ASSUME TypeOK, NEW o \in Conn, BeginAttempt(o)
  PROVE  /\ client' \in [Conn -> Tunnel \cup {None}] /\ tunnel' \in [Conn -> Tunnel \cup {None}]
         /\ inFlight' \subseteq Conn /\ jobs' \subseteq Job
         /\ proc' \in ProcType /\ link' \in LinkType /\ wired' \subseteq Tunnel
         /\ via' \in [Tunnel -> Tunnel \cup {None}] /\ file' \in Tunnel \cup {None}
         /\ evaded' \subseteq Tunnel
<1>1. PICK t \in Least(FreeTunnels) :
        /\ Replace(ClientOf(o), TunnelOf(o), {t})
        /\ client' = [client EXCEPT ![o] = None]
        /\ tunnel' = [tunnel EXCEPT ![o] = t]
        /\ inFlight' = inFlight \cup {o}
        /\ jobs' = jobs \cup {[obj |-> o, tun |-> t, kind |-> "attempt", at |-> "booting"]}
  BY DEF BeginAttempt
<1>2. t \in Tunnel
  BY FreeTunnel
<1>3. [obj |-> o, tun |-> t, kind |-> "attempt", at |-> "booting"] \in Job
  BY <1>2, NewJob
<1> QED
  BY <1>1, <1>2, <1>3, ReplaceType DEF TypeOK

LEMMA ScheduleType ==
  ASSUME TypeOK, NEW o \in Conn, Schedule(o)
  PROVE  pending' \subseteq Conn /\ orphans' \in [Conn -> Nat]
BY DEF Schedule, TypeOK

LEMMA StartReconnectType ==
  ASSUME TypeOK, NEW o \in Conn, StartReconnect(o)
  PROVE  /\ pending' \subseteq Conn /\ orphans' \in [Conn -> Nat] /\ hb' \subseteq Conn
         /\ status' \in [Conn -> Status] /\ execs' \subseteq Tunnel
BY ScheduleType DEF StartReconnect, SettleExecs, TypeOK, Status

LEMMA AdvanceType ==
  ASSUME TypeOK, NEW j \in jobs, NEW at \in {"waiting", "dialing"}, Advance(j, at)
  PROVE  /\ jobs' \subseteq Job /\ j \in Job
         /\ jobs' = (jobs \ {j}) \cup {[j EXCEPT !.at = at]}
         /\ [j EXCEPT !.at = at].obj = j.obj /\ [j EXCEPT !.at = at].tun = j.tun
         /\ [j EXCEPT !.at = at].kind = j.kind /\ [j EXCEPT !.at = at].at = at
BY DEF Advance, TypeOK, Job

LEMMA AsksType ==
  ASSUME TypeOK, Asks
  PROVE  requests' \in 0..MaxRequests
BY ConnectionAssumption DEF Asks, TypeOK

LEMMA UserType ==
  ASSUME TypeOK,
         ConnectRemote \/ Disconnect \/ Reconnect \/ ReconnectNow \/ CancelReconnect \/ ExecStart
  PROVE  TypeOK'
<1>0. Asks /\ requests' \in 0..MaxRequests
  BY AsksType DEF ConnectRemote, Disconnect, Reconnect, ReconnectNow, CancelReconnect, ExecStart
<1>1. CASE ConnectRemote
  <2>1. PICK o \in Least(FreeConns), t \in Least(FreeTunnels) :
          LET old == {entry} \ {None}
          IN  /\ Replace(UNION {ClientOf(p) : p \in old}, UNION {TunnelOf(p) : p \in old}, {t})
              /\ entry' = o
              /\ status' = [p \in Conn |-> IF p = o THEN "Connecting"
                                           ELSE IF p \in old THEN "Disconnected" ELSE status[p]]
              /\ tunnel' = [p \in Conn |->
                   IF p = o THEN t ELSE IF p \in old THEN None ELSE tunnel[p]]
              /\ client' = [p \in Conn |-> IF p \in old \cup {o} THEN None ELSE client[p]]
              /\ hb' = hb \ (old \cup {o}) /\ pending' = pending \ old
              /\ inFlight' = inFlight \ {o}
              /\ jobs' = jobs \cup {[obj |-> o, tun |-> t, kind |-> "connect", at |-> "booting"]}
    BY <1>1 DEF ConnectRemote
  <2>2. o \in Conn /\ t \in Tunnel
    BY FreeConn, FreeTunnel
  <2>3. [obj |-> o, tun |-> t, kind |-> "connect", at |-> "booting"] \in Job
    BY <2>2, NewJob
  <2>4. /\ proc' \in ProcType /\ link' \in LinkType /\ wired' \subseteq Tunnel
        /\ via' \in [Tunnel -> Tunnel \cup {None}] /\ file' \in Tunnel \cup {None}
        /\ evaded' \subseteq Tunnel
    BY <2>1, <2>2, ReplaceType
  <2>5. status' \in [Conn -> Status]
    BY <2>1 DEF TypeOK, Status
  <2>6. tunnel' \in [Conn -> Tunnel \cup {None}] /\ client' \in [Conn -> Tunnel \cup {None}]
    BY <2>1, <2>2 DEF TypeOK
  <2> QED
    BY <1>0, <1>1, <2>1, <2>2, <2>3, <2>4, <2>5, <2>6
       DEF ConnectRemote, TypeOK, ProcType, LinkType
<1>2. CASE Disconnect
  <2>1. entry \in Conn
    BY <1>2 DEF Disconnect, TypeOK
  <2>2. /\ proc' \in ProcType /\ link' \in LinkType /\ wired' \subseteq Tunnel
        /\ via' \in [Tunnel -> Tunnel \cup {None}] /\ file' \in Tunnel \cup {None}
        /\ evaded' \subseteq Tunnel
    BY <1>2, ReplaceType DEF Disconnect
  <2> QED
    BY <1>0, <1>2, <2>1, <2>2 DEF Disconnect, TypeOK, ProcType, LinkType, Status
<1>3. CASE Reconnect
  <2>1. entry \in Conn
    BY <1>3 DEF Reconnect, TypeOK
  <2> QED
    BY <1>0, <1>3, <2>1, StartReconnectType DEF Reconnect, transport, TypeOK
<1>4. CASE ReconnectNow
  <2>1. entry \in Conn
    BY <1>4 DEF ReconnectNow, TypeOK
  <2>2. CASE BeginAttempt(entry)
    BY <1>0, <1>4, <2>1, <2>2, BeginType DEF ReconnectNow, TypeOK, ProcType, LinkType
  <2>3. CASE UNCHANGED <<client, tunnel, inFlight, transport, evaded>>
    BY <1>0, <1>4, <2>3 DEF ReconnectNow, transport, TypeOK
  <2> QED
    BY <1>4, <2>2, <2>3 DEF ReconnectNow, AttemptUnlessInFlight
<1>5. CASE CancelReconnect
  BY <1>0, <1>5 DEF CancelReconnect, transport, TypeOK, Status
<1>6. CASE ExecStart
  BY <1>0, <1>6 DEF ExecStart, objects, transport, TypeOK
<1> QED
  BY <1>1, <1>2, <1>3, <1>4, <1>5, <1>6

LEMMA JobType ==
  ASSUME TypeOK, NEW j \in jobs, JobStep(j)
  PROVE  TypeOK'
<1>0. j \in Job /\ j.obj \in Conn /\ j.tun \in Tunnel /\ jobs \ {j} \subseteq Job
  BY DEF TypeOK, Job
<1>1. CASE Bootstrapped(j)
  BY <1>0, <1>1, AdvanceType DEF Bootstrapped, objects, TypeOK
<1>2. CASE SocketAppears(j)
  BY <1>0, <1>2, AdvanceType DEF SocketAppears, objects, TypeOK
<1>3. CASE ConnectDone(j)
  <2>1. /\ jobs' \subseteq Job /\ client' \in [Conn -> Tunnel \cup {None}] /\ hb' \subseteq Conn
        /\ via' \in [Tunnel -> Tunnel \cup {None}] /\ status' \in [Conn -> Status]
    BY <1>0, <1>3 DEF ConnectDone, TypeOK, Status
  <2>2. link' \in LinkType
    BY <1>0, <1>3 DEF ConnectDone, TypeOK, LinkType
  <2>3. /\ wired' \subseteq Tunnel /\ proc' \in ProcType /\ file' \in Tunnel \cup {None}
        /\ evaded' \subseteq Tunnel
    BY <1>0, <1>3 DEF ConnectDone, TypeOK, ProcType, TunnelOf
  <2> QED
    BY <1>3, <2>1, <2>2, <2>3 DEF ConnectDone, TypeOK, ProcType, LinkType
<1>4. CASE AttemptDone(j)
  <2>1. CASE AttemptSucceeds(j)
    BY <1>0, <1>4, <2>1 DEF AttemptDone, AttemptSucceeds, TunnelOf, TypeOK, Status
  <2>2. CASE AttemptTooLate(j)
    <3>1. /\ proc' \in ProcType /\ link' \in LinkType /\ wired' \subseteq Tunnel
          /\ via' \in [Tunnel -> Tunnel \cup {None}] /\ file' \in Tunnel \cup {None}
          /\ evaded' \subseteq Tunnel
      BY <2>2, ReplaceType DEF AttemptTooLate
    <3> QED
      BY <1>0, <1>4, <2>2, <3>1 DEF AttemptDone, AttemptTooLate, TypeOK, ProcType, LinkType
  <2> QED
    BY <1>4, <2>1, <2>2 DEF AttemptDone
<1>5. ASSUME Fails(j) PROVE failures' \in 0..MaxFailures
  BY <1>5, ConnectionAssumption DEF Fails, TypeOK
<1>6. CASE ConnectFails(j)
  <2>1. /\ proc' \in ProcType /\ link' \in LinkType /\ wired' \subseteq Tunnel
        /\ via' \in [Tunnel -> Tunnel \cup {None}] /\ file' \in Tunnel \cup {None}
        /\ evaded' \subseteq Tunnel
    BY <1>6, ReplaceType DEF ConnectFails
  <2> QED
    BY <1>0, <1>5, <1>6, <2>1 DEF ConnectFails, TypeOK, ProcType, LinkType, Status
<1>7. CASE AttemptFails(j)
  BY <1>0, <1>5, <1>7, ScheduleType DEF AttemptFails, TypeOK
<1> QED
  BY <1>1, <1>2, <1>3, <1>4, <1>6, <1>7 DEF JobStep

LEMMA DropType ==
  ASSUME TypeOK,
         \/ \E o \in Conn : TimerFires(o) \/ DropNoticed(o)
         \/ \E t \in Tunnel :
              SshBinds(t) \/ SshDies(t) \/ LinkBreaks(t) \/ TunnelCloses(t) \/ ExecEnds(t)
  PROVE  TypeOK'
<1>1. ASSUME NEW o \in Conn, TimerFires(o) PROVE TypeOK'
  <2>1. pending' \subseteq Conn /\ orphans' \in [Conn -> Nat]
    BY <1>1 DEF TimerFires, TypeOK
  <2>2. CASE BeginAttempt(o)
    BY <1>1, <2>1, <2>2, BeginType DEF TimerFires, TypeOK, ProcType, LinkType
  <2>3. CASE UNCHANGED <<client, tunnel, inFlight, transport, evaded>>
    BY <1>1, <2>1, <2>3 DEF TimerFires, transport, TypeOK
  <2> QED
    BY <1>1, <2>2, <2>3 DEF TimerFires, AttemptUnlessInFlight
<1>2. ASSUME NEW o \in Conn, DropNoticed(o) PROVE TypeOK'
  BY <1>2, StartReconnectType DEF DropNoticed, transport, TypeOK
<1>3. ASSUME NEW t \in Tunnel, SshBinds(t) PROVE TypeOK'
  BY <1>3 DEF SshBinds, objects, TypeOK
<1>4. ASSUME Breaks PROVE failures' \in 0..MaxFailures
  BY <1>4, ConnectionAssumption DEF Breaks, TypeOK
<1>5. ASSUME NEW t \in Tunnel, SshDies(t) PROVE TypeOK'
  BY <1>4, <1>5 DEF SshDies, objects, TypeOK
<1>6. ASSUME NEW t \in Tunnel, LinkBreaks(t) PROVE TypeOK'
  BY <1>4, <1>6 DEF LinkBreaks, objects, TypeOK
<1>7. ASSUME NEW t \in Tunnel, TunnelCloses(t) PROVE TypeOK'
  <2>1. proc' \in ProcType
    BY <1>7 DEF TunnelCloses, TypeOK, ProcType
  <2>2. CASE Hears(t) = {}
    BY <1>7, <2>1, <2>2 DEF TunnelCloses, TypeOK, ProcType
  <2>3. CASE Hears(t) # {}
    <3>1. PICK o \in Hears(t) :
            /\ link' = [c \in Tunnel |-> IF c = client[o] THEN "closed" ELSE link[c]]
            /\ client' = [client EXCEPT ![o] = None]
            /\ IF status[o] = "Connected"
               THEN StartReconnect(o)
               ELSE UNCHANGED <<hb, status, execs, pending, orphans>>
      BY <1>7, <2>3 DEF TunnelCloses
    <3>2. o \in Conn
      BY DEF Hears
    <3>3. link' \in LinkType /\ client' \in [Conn -> Tunnel \cup {None}]
      BY <3>1, <3>2 DEF TypeOK, LinkType
    <3>4. /\ pending' \subseteq Conn /\ orphans' \in [Conn -> Nat] /\ hb' \subseteq Conn
          /\ status' \in [Conn -> Status] /\ execs' \subseteq Tunnel
      BY <3>1, <3>2, StartReconnectType DEF TypeOK
    <3> QED
      BY <1>7, <2>1, <3>3, <3>4 DEF TunnelCloses, TypeOK, ProcType, LinkType
  <2> QED
    BY <2>2, <2>3
<1>8. ASSUME NEW t \in Tunnel, ExecEnds(t) PROVE TypeOK'
  BY <1>8 DEF ExecEnds, objects, transport, TypeOK
<1> QED
  BY <1>1, <1>2, <1>3, <1>5, <1>6, <1>7, <1>8

\* Every variable keeps its type, in particular no timer the manager has lost
\* sight of fires more often than it was armed.
THEOREM TypeCorrect == Spec => []TypeOK
<1>1. Init => TypeOK
  BY ConnectionAssumption DEF Init, TypeOK, Status, None
<1>2. TypeOK /\ [Next]_vars => TypeOK'
  <2> SUFFICES ASSUME TypeOK, [Next]_vars PROVE TypeOK'
    OBVIOUS
  <2>1. CASE UNCHANGED vars
    BY <2>1 DEF vars, objects, transport, TypeOK
  <2> QED
    BY <2>1, UserType, JobType, DropType DEF Next
<1> QED
  BY <1>1, <1>2, PTL DEF Spec

-----------------------------------------------------------------------------
(* Commands.  Only StartReconnect makes a connection reconnect, and it      *)
(* settles those of the registered one.                                    *)

\* What the steps that are not about one object's status do to it.
LEMMA StartReconnectSteps ==
  ASSUME TypeOK, NEW o \in Conn, StartReconnect(o)
  PROVE  /\ status'[o] = "Reconnecting" /\ \A p \in Conn \ {o} : status'[p] = status[p]
         /\ o \in pending' /\ pending \subseteq pending'
         /\ \A p \in Conn : orphans[p] > 0 => orphans'[p] > 0
         /\ execs' = IF entry = o THEN {} ELSE execs
BY DEF StartReconnect, Schedule, SettleExecs, TypeOK

LEMMA ExecStep == TypeOK /\ NoExecLeftWaiting /\ [Next]_vars => NoExecLeftWaiting'
<1> SUFFICES ASSUME TypeOK, NoExecLeftWaiting, [Next]_vars PROVE NoExecLeftWaiting'
  OBVIOUS
<1> USE DEF NoExecLeftWaiting
<1>1. ASSUME UNCHANGED <<entry, status>>, execs' \subseteq execs PROVE NoExecLeftWaiting'
  BY <1>1
<1>2. ASSUME UNCHANGED <<entry, execs>>, NEW o \in Conn, NEW s \in Status \ {"Reconnecting"},
             status' = [status EXCEPT ![o] = s]
      PROVE  NoExecLeftWaiting'
  BY <1>2 DEF TypeOK
<1>3. ASSUME UNCHANGED entry, NEW o \in Conn, StartReconnect(o) PROVE NoExecLeftWaiting'
  <2>1. CASE entry = o
    BY <1>3, <2>1, StartReconnectSteps
  <2>2. CASE entry # o
    BY <1>3, <2>2, StartReconnectSteps, Numbers DEF TypeOK
  <2> QED
    BY <2>1, <2>2
<1>4. CASE ConnectRemote
  <2>1. PICK o \in Conn : entry' = o /\ status'[o] = "Connecting"
    <3>1. PICK o \in Least(FreeConns) : entry' = o /\
            \E old : status' = [p \in Conn |-> IF p = o THEN "Connecting"
                                         ELSE IF p \in old THEN "Disconnected" ELSE status[p]]
      BY <1>4, ZenonT(60) DEF ConnectRemote
    <3> QED
      BY <3>1, FreeConn
  <2> QED
    BY <2>1
<1>5. CASE Disconnect
  BY <1>5 DEF Disconnect
<1>6. CASE Reconnect
  BY <1>3, <1>6, Numbers DEF Reconnect, TypeOK
<1>7. CASE ReconnectNow
  BY <1>1, <1>7 DEF ReconnectNow
<1>8. CASE CancelReconnect
  <2>1. entry \in Conn /\ "Error" \in Status \ {"Reconnecting"}
    BY <1>8 DEF CancelReconnect, TypeOK, Status
  <2> QED
    BY <1>2, <1>8, <2>1 DEF CancelReconnect
<1>9. CASE ExecStart
  BY <1>9 DEF ExecStart, objects
<1>10. ASSUME NEW o \in Conn, TimerFires(o) PROVE NoExecLeftWaiting'
  BY <1>1, <1>10 DEF TimerFires
<1>11. ASSUME NEW o \in Conn, DropNoticed(o) PROVE NoExecLeftWaiting'
  BY <1>3, <1>11 DEF DropNoticed
<1>12. ASSUME NEW j \in jobs, JobStep(j) PROVE NoExecLeftWaiting'
  <2>0. j.obj \in Conn /\ {"Error", "Connected"} \subseteq Status \ {"Reconnecting"}
    BY DEF TypeOK, Job, Status
  <2>1. CASE Bootstrapped(j) \/ SocketAppears(j) \/ AttemptFails(j)
    BY <1>1, <2>1 DEF Bootstrapped, SocketAppears, AttemptFails, objects
  <2>2. CASE ConnectDone(j)
    BY <1>2, <2>0, <2>2 DEF ConnectDone
  <2>3. CASE ConnectFails(j)
    BY <1>2, <2>0, <2>3 DEF ConnectFails
  <2>4. CASE AttemptDone(j)
    BY <1>1, <1>2, <2>0, <2>4 DEF AttemptDone, AttemptSucceeds, AttemptTooLate
  <2> QED
    BY <1>12, <2>1, <2>2, <2>3, <2>4 DEF JobStep
<1>13. ASSUME NEW t \in Tunnel, SshBinds(t) \/ SshDies(t) \/ LinkBreaks(t) \/ ExecEnds(t)
       PROVE  NoExecLeftWaiting'
  BY <1>1, <1>13 DEF SshBinds, SshDies, LinkBreaks, ExecEnds, objects
<1>14. ASSUME NEW t \in Tunnel, TunnelCloses(t) PROVE NoExecLeftWaiting'
  BY <1>1, <1>3, <1>14 DEF TunnelCloses, Hears
<1>15. CASE UNCHANGED vars
  BY <1>1, <1>15 DEF vars, objects
<1> QED
  BY <1>4, <1>5, <1>6, <1>7, <1>8, <1>9, <1>10, <1>11, <1>12, <1>13, <1>14, <1>15 DEF Next

\* While the registered connection reconnects no window waits for a command:
\* whichever of the drop handlers, the monitor or the button began the loop, the
\* commands were settled, and none starts until the connection is back.
LEMMA CommandsAreSettled == Spec => []NoExecLeftWaiting
<1>1. Init => NoExecLeftWaiting
  BY DEF Init, NoExecLeftWaiting
<1> QED
  BY <1>1, ExecStep, TypeCorrect, PTL DEF Spec

-----------------------------------------------------------------------------
(* The loop.  An object that is in flight has an attempt to say when it is  *)
(* over, so that a timer that finds it in flight may do nothing.           *)

Attempting(o) == \E j \in jobs : j.obj = o /\ j.kind = "attempt"
InFlightHasJob == \A o \in inFlight : Attempting(o)
Loop == InFlightHasJob /\ LoopAlive

LEMMA LoopStep == TypeOK /\ Loop /\ [Next]_vars => Loop'
<1> SUFFICES ASSUME TypeOK, Loop, [Next]_vars PROVE Loop'
  OBVIOUS
<1> DEFINE Armed(o) == o \in pending \/ orphans[o] > 0
<1>0. /\ Loop <=> /\ \A o \in inFlight : Attempting(o)
                  /\ \A o \in Conn : status[o] = "Reconnecting" => Armed(o) \/ Attempting(o)
      /\ Loop' <=> /\ \A o \in inFlight' : Attempting(o)'
                   /\ \A o \in Conn : status'[o] = "Reconnecting" => Armed(o)' \/ Attempting(o)'
  BY DEF Loop, InFlightHasJob, LoopAlive, Attempting
<1>00. inFlight \subseteq Conn
  BY DEF TypeOK
<1>1. ASSUME inFlight' \subseteq inFlight, \A o \in Conn : Attempting(o) => Attempting(o)',
             pending \subseteq pending', \A o \in Conn : orphans[o] > 0 => orphans'[o] > 0,
             \A o \in Conn : status'[o] = "Reconnecting" => status[o] = "Reconnecting"
      PROVE  Loop'
  BY <1>0, <1>00, <1>1
<1>2. ASSUME NEW o \in Conn, StartReconnect(o), UNCHANGED <<inFlight, jobs>> PROVE Loop'
  <2>1. \A p \in Conn : Attempting(p)' <=> Attempting(p)
    BY <1>2 DEF Attempting
  <2> QED
    BY <1>0, <1>00, <1>2, <2>1, StartReconnectSteps
<1>3. ASSUME NEW o \in Conn, pending \ {o} \subseteq pending', status' = status,
             \A p \in Conn \ {o} : orphans'[p] = orphans[p], AttemptUnlessInFlight(o)
      PROVE  Loop'
  <2>1. CASE BeginAttempt(o)
    <3>1. PICK t \in Tunnel :
            /\ inFlight' = inFlight \cup {o}
            /\ jobs' = jobs \cup {[obj |-> o, tun |-> t, kind |-> "attempt", at |-> "booting"]}
      BY <2>1, FreeTunnel DEF BeginAttempt
    <3>2. PICK k : k.obj = o /\ k.kind = "attempt" /\ jobs' = jobs \cup {k}
      BY <3>1
    <3>3. Attempting(o)' /\ \A p \in Conn : Attempting(p) => Attempting(p)'
      BY <3>2, Zenon DEF Attempting
    <3> QED
      BY <1>0, <1>00, <1>3, <3>1, <3>3
  <2>2. CASE ~MayBegin(o) /\ UNCHANGED <<client, tunnel, inFlight, transport, evaded>>
    <3>1. UNCHANGED <<inFlight, jobs>>
      BY <2>2 DEF transport
    <3>2. \A p \in Conn : Attempting(p)' <=> Attempting(p)
      BY <3>1 DEF Attempting
    <3> QED
      BY <1>0, <1>00, <1>3, <2>2, <3>1, <3>2 DEF MayBegin
  <2> QED
    BY <1>3, <2>1, <2>2 DEF AttemptUnlessInFlight
<1>4. ASSUME NEW j \in jobs, jobs' = jobs \ {j}, inFlight' = inFlight \ {j.obj},
             pending \subseteq pending', \A o \in Conn : orphans[o] > 0 => orphans'[o] > 0,
             \A o \in Conn \ {j.obj} : status'[o] = "Reconnecting" => status[o] = "Reconnecting",
             status'[j.obj] = "Reconnecting" => j.obj \in pending'
      PROVE  Loop'
  <2>1. \A o \in Conn \ {j.obj} : Attempting(o) => Attempting(o)'
    BY <1>4 DEF Attempting
  <2> QED
    BY <1>0, <1>00, <1>4, <2>1
<1>5. CASE ConnectRemote
  <2>1. PICK o \in Least(FreeConns), t \in Least(FreeTunnels) :
          LET old == {entry} \ {None}
          IN  /\ status' = [p \in Conn |-> IF p = o THEN "Connecting"
                                           ELSE IF p \in old THEN "Disconnected" ELSE status[p]]
              /\ pending' = pending \ old
              /\ inFlight' = inFlight \ {o}
              /\ jobs' = jobs \cup {[obj |-> o, tun |-> t, kind |-> "connect", at |-> "booting"]}
    BY <1>5 DEF ConnectRemote
  <2>2. orphans' = orphans
    BY <1>5 DEF ConnectRemote
  <2>3. \A p \in Conn : Attempting(p) => Attempting(p)'
    BY <2>1 DEF Attempting
  <2> QED
    BY <1>0, <1>00, <2>1, <2>2, <2>3
<1>6. CASE Disconnect
  <2>1. /\ status' = [status EXCEPT ![entry] = "Disconnected"] /\ pending' = pending \ {entry}
        /\ UNCHANGED <<orphans, inFlight, jobs>> /\ entry \in Conn
    BY <1>6 DEF Disconnect, TypeOK
  <2>2. \A p \in Conn : Attempting(p)' <=> Attempting(p)
    BY <2>1 DEF Attempting
  <2>3. \A p \in Conn : status'[p] = "Reconnecting" => p # entry /\ status[p] = "Reconnecting"
    BY <2>1 DEF TypeOK
  <2> QED
    BY <1>0, <1>00, <2>1, <2>2, <2>3
<1>7. CASE Reconnect
  <2>1. entry \in Conn /\ StartReconnect(entry) /\ UNCHANGED <<inFlight, jobs>>
    BY <1>7 DEF Reconnect, transport, TypeOK
  <2> QED
    BY <1>2, <2>1
<1>8. CASE ReconnectNow
  BY <1>3, <1>8 DEF ReconnectNow, TypeOK
<1>9. CASE CancelReconnect
  <2>1. /\ status' = [status EXCEPT ![entry] = "Error"] /\ pending' = pending \ {entry}
        /\ UNCHANGED <<orphans, inFlight, jobs>> /\ entry \in Conn
    BY <1>9 DEF CancelReconnect, transport, TypeOK
  <2>2. \A p \in Conn : Attempting(p)' <=> Attempting(p)
    BY <2>1 DEF Attempting
  <2>3. \A p \in Conn : status'[p] = "Reconnecting" => p # entry /\ status[p] = "Reconnecting"
    BY <2>1 DEF TypeOK
  <2> QED
    BY <1>0, <1>00, <2>1, <2>2, <2>3
<1>10. CASE ExecStart
  BY <1>1, <1>10 DEF ExecStart, objects, transport, Attempting
<1>11. ASSUME NEW o \in Conn, TimerFires(o) PROVE Loop'
  BY <1>3, <1>11 DEF TimerFires, TypeOK
<1>12. ASSUME NEW o \in Conn, DropNoticed(o) PROVE Loop'
  BY <1>2, <1>12 DEF DropNoticed, transport
<1>13. ASSUME NEW j \in jobs, JobStep(j) PROVE Loop'
  <2>0. j.obj \in Conn
    BY DEF TypeOK, Job
  <2>1. ASSUME NEW at \in {"waiting", "dialing"}, Advance(j, at), UNCHANGED objects PROVE Loop'
    <3>1. PICK k : k.obj = j.obj /\ k.kind = j.kind /\ jobs' = (jobs \ {j}) \cup {k}
      BY <2>1, AdvanceType
    <3>2. \A o \in Conn : Attempting(o) => Attempting(o)'
      BY <3>1, Zenon DEF Attempting
    <3> QED
      BY <1>1, <2>1, <3>2 DEF objects
  <2>2. CASE ConnectDone(j) \/ ConnectFails(j)
    <3>1. /\ \A o \in Conn : Attempting(o)' <=> Attempting(o)
          /\ UNCHANGED <<inFlight, pending, orphans>>
      BY <2>2 DEF ConnectDone, ConnectFails, Attempting
    <3>2. \A o \in Conn : status'[o] = "Reconnecting" => status[o] = "Reconnecting"
      BY <2>2 DEF ConnectDone, ConnectFails, TypeOK
    <3> QED
      BY <1>1, <3>1, <3>2 DEF TypeOK
  <2>3. CASE AttemptDone(j)
    <3>1. /\ jobs' = jobs \ {j} /\ inFlight' = inFlight \ {j.obj}
          /\ UNCHANGED <<pending, orphans>>
      BY <2>3 DEF AttemptDone
    <3>2. status'[j.obj] # "Reconnecting" /\ \A o \in Conn \ {j.obj} : status'[o] = status[o]
      BY <2>0, <2>3 DEF AttemptDone, AttemptSucceeds, AttemptTooLate, TypeOK
    <3> QED
      BY <1>4, <3>1, <3>2 DEF TypeOK
  <2>4. CASE AttemptFails(j)
    <3>1. /\ jobs' = jobs \ {j} /\ inFlight' = inFlight \ {j.obj} /\ status' = status
      BY <2>4 DEF AttemptFails
    <3>2. /\ pending \subseteq pending' /\ \A o \in Conn : orphans[o] > 0 => orphans'[o] > 0
          /\ status[j.obj] = "Reconnecting" => j.obj \in pending'
      BY <2>0, <2>4 DEF AttemptFails, Schedule, TypeOK
    <3> QED
      BY <1>4, <3>1, <3>2
  <2> QED
    BY <1>13, <2>1, <2>2, <2>3, <2>4 DEF JobStep, Bootstrapped, SocketAppears
<1>14. ASSUME NEW t \in Tunnel, SshBinds(t) \/ SshDies(t) \/ LinkBreaks(t) \/ ExecEnds(t)
       PROVE  Loop'
  BY <1>1, <1>14 DEF SshBinds, SshDies, LinkBreaks, ExecEnds, objects, transport, Attempting
<1>15. ASSUME NEW t \in Tunnel, TunnelCloses(t) PROVE Loop'
  <2>1. UNCHANGED <<inFlight, jobs>>
    BY <1>15 DEF TunnelCloses
  <2>2. CASE \E o \in Conn : StartReconnect(o)
    BY <1>2, <2>1, <2>2
  <2>3. CASE UNCHANGED <<status, pending, orphans>>
    BY <1>1, <2>1, <2>3 DEF Attempting
  <2> QED
    BY <1>15, <2>2, <2>3 DEF TunnelCloses, Hears
<1>16. CASE UNCHANGED vars
  BY <1>1, <1>16 DEF vars, objects, transport, Attempting
<1> QED
  BY <1>5, <1>6, <1>7, <1>8, <1>9, <1>10, <1>11, <1>12, <1>13, <1>14, <1>15, <1>16 DEF Next

LEMMA LoopAlways == Spec => []Loop
<1>1. Init => Loop
  BY DEF Init, Loop, InFlightHasJob, LoopAlive
<1> QED
  BY <1>1, LoopStep, TypeCorrect, PTL DEF Spec

\* The reconnect loop never stops by itself: however timers, attempts, cancels
\* and the reconnect buttons overlap, a connection that reconnects has a timer
\* armed or an attempt that will arm one.
LEMMA LoopIsAlive == Spec => []LoopAlive
BY LoopAlways, PTL DEF Loop

\* Both, of every behaviour.
THEOREM NothingEverStalls == Spec => []NothingStalls
BY CommandsAreSettled, LoopIsAlive, PTL DEF NothingStalls
-----------------------------------------------------------------------------
(* Objects out of the registry.  Every continuation that makes an object    *)
(* connected or reconnecting looks first at what it is, or whether it is    *)
(* the registered one.                                                      *)

Loud == {"Connected", "Reconnecting"}

LEMMA QuietStep == TypeOK /\ GoneIsQuiet /\ [Next]_vars => GoneIsQuiet'
<1> SUFFICES ASSUME TypeOK, GoneIsQuiet, [Next]_vars PROVE GoneIsQuiet'
  OBVIOUS
<1> USE DEF Loud
<1>0. /\ \A o \in Conn : status[o] \in Loud => o = entry
      /\ (\A o \in Conn : status'[o] \in Loud => o = entry') => GoneIsQuiet'
  BY DEF GoneIsQuiet
<1>1. ASSUME UNCHANGED entry, \A o \in Conn : status'[o] \in Loud => status[o] \in Loud
      PROVE  GoneIsQuiet'
  BY <1>0, <1>1
<1>2. ASSUME NEW o \in Conn, status[o] \in Loud \/ o = entry, StartReconnect(o), UNCHANGED entry
      PROVE  GoneIsQuiet'
  BY <1>0, <1>2, StartReconnectSteps
<1>3. CASE ConnectRemote
  <2>1. PICK o \in Least(FreeConns) :
          /\ entry' = o
          /\ status' = [p \in Conn |-> IF p = o THEN "Connecting"
                          ELSE IF p \in {entry} \ {None} THEN "Disconnected" ELSE status[p]]
    BY <1>3 DEF ConnectRemote
  <2>2. \A p \in Conn : p # None
    BY Numbers
  <2> QED
    BY <1>0, <2>1, <2>2
<1>4. CASE Disconnect
  <2>1. entry \in Conn /\ status' = [status EXCEPT ![entry] = "Disconnected"]
    BY <1>4 DEF Disconnect, TypeOK
  <2> QED
    BY <1>0, <2>1 DEF TypeOK
<1>5. CASE Reconnect
  BY <1>2, <1>5 DEF Reconnect, TypeOK
<1>6. CASE ReconnectNow
  BY <1>1, <1>6 DEF ReconnectNow
<1>7. CASE CancelReconnect
  BY <1>1, <1>7 DEF CancelReconnect, TypeOK
<1>8. CASE ExecStart
  BY <1>1, <1>8 DEF ExecStart, objects
<1>9. ASSUME NEW o \in Conn, TimerFires(o) \/ DropNoticed(o) PROVE GoneIsQuiet'
  BY <1>1, <1>2, <1>9 DEF TimerFires, DropNoticed
<1>10. ASSUME NEW j \in jobs, JobStep(j) PROVE GoneIsQuiet'
  <2>0. j.obj \in Conn
    BY DEF TypeOK, Job
  <2>1. CASE Bootstrapped(j) \/ SocketAppears(j) \/ AttemptFails(j)
    BY <1>1, <2>1 DEF Bootstrapped, SocketAppears, AttemptFails, objects
  <2>2. CASE ConnectDone(j)
    BY <1>0, <2>0, <2>2 DEF ConnectDone, TypeOK
  <2>3. CASE ConnectFails(j)
    BY <1>1, <2>0, <2>3 DEF ConnectFails, TypeOK
  <2>4. CASE AttemptDone(j)
    <3>1. UNCHANGED entry
      BY <2>4 DEF AttemptDone
    <3>2. CASE status[j.obj] = "Reconnecting" /\ AttemptSucceeds(j)
      BY <1>1, <2>0, <3>1, <3>2 DEF AttemptSucceeds, TypeOK
    <3>3. CASE AttemptTooLate(j)
      BY <1>1, <3>1, <3>3 DEF AttemptTooLate
    <3> QED
      BY <2>4, <3>2, <3>3 DEF AttemptDone
  <2> QED
    BY <1>10, <2>1, <2>2, <2>3, <2>4 DEF JobStep
<1>11. ASSUME NEW t \in Tunnel, SshBinds(t) \/ SshDies(t) \/ LinkBreaks(t) \/ ExecEnds(t)
       PROVE  GoneIsQuiet'
  BY <1>1, <1>11 DEF SshBinds, SshDies, LinkBreaks, ExecEnds, objects
<1>12. ASSUME NEW t \in Tunnel, TunnelCloses(t) PROVE GoneIsQuiet'
  BY <1>1, <1>2, <1>12 DEF TunnelCloses, Hears
<1>13. CASE UNCHANGED vars
  BY <1>1, <1>13 DEF vars, objects
<1> QED
  BY <1>3, <1>4, <1>5, <1>6, <1>7, <1>8, <1>9, <1>10, <1>11, <1>12, <1>13 DEF Next

\* An object that was disconnected or replaced stays silent: neither an attempt
\* that was under way, nor its timers, nor its drop handlers bring it back.
THEOREM GoneStaysQuiet == Spec => []GoneIsQuiet
<1>1. Init => GoneIsQuiet
  BY DEF Init, GoneIsQuiet
<1> QED
  BY <1>1, QuietStep, TypeCorrect, PTL DEF Spec
-----------------------------------------------------------------------------
(* Jobs and what they are building.  No two jobs are at work on one object  *)
(* or one tunnel; the tunnel is the object's while the object is            *)
(* registered, and when it no longer is, was killed or has evaded it.       *)

JobsApart == \A j, k \in jobs : j.obj = k.obj \/ j.tun = k.tun => j = k

JobOK(j) ==
  /\ j.at = "booting" => proc[j.tun] = "none"
  /\ j.kind = "attempt" => j.obj \in inFlight
  /\ j.kind = "connect" /\ entry = j.obj => status[j.obj] = "Connecting"
  /\ j.kind = "attempt" => status[j.obj] # "Connected"
  /\ entry = j.obj => tunnel[j.obj] = j.tun
  /\ j.kind = "attempt" /\ entry # j.obj => j.tun \in evaded \/ proc[j.tun] = "gone"
  /\ \A o \in Conn : client[o] # j.tun

Jobs == JobsApart /\ \A j \in jobs : JobOK(j)

\* What a step may do around a job it is not about.
Keeps(j) ==
  /\ proc[j.tun] \in {"none", "gone"} => proc'[j.tun] = proc[j.tun]
  /\ j.obj \in inFlight => j.obj \in inFlight'
  /\ status'[j.obj] = "Connected" => status[j.obj] = "Connected"
  /\ entry' = j.obj => /\ entry = j.obj /\ tunnel'[j.obj] = tunnel[j.obj]
                       /\ status[j.obj] = "Connecting" => status'[j.obj] = "Connecting"
  /\ entry = j.obj /\ entry' # j.obj /\ j.kind = "attempt" =>
       j.tun \in evaded' \/ proc'[j.tun] = "gone"
  /\ j.tun \in evaded => j.tun \in evaded'
  /\ \A o \in Conn : client'[o] # j.tun

LEMMA KeptJob ==
  ASSUME NEW j, JobOK(j), Keeps(j)
  PROVE  JobOK(j)'
BY DEF JobOK, Keeps

LEMMA FewerJobs ==
  ASSUME Jobs, jobs' \subseteq jobs, \A j \in jobs' : Keeps(j)
  PROVE  Jobs'
<1>1. \A j \in jobs' : JobOK(j)'
  BY KeptJob DEF Jobs
<1>2. JobsApart'
  BY DEF Jobs, JobsApart
<1> QED
  BY <1>1, <1>2 DEF Jobs

\* The step gives one job a new state, or is the first of a new one.
LEMMA OneMoreJob ==
  ASSUME Jobs, NEW old, NEW n, jobs' = (jobs \ old) \cup {n},
         \A j \in jobs \ old : Keeps(j) /\ j.obj # n.obj /\ j.tun # n.tun, JobOK(n)'
  PROVE  Jobs'
<1>1. \A j \in jobs' : JobOK(j)'
  BY KeptJob DEF Jobs
<1>2. JobsApart'
  <2> SUFFICES ASSUME NEW j \in jobs', NEW k \in jobs', j.obj = k.obj \/ j.tun = k.tun
               PROVE  j = k
    BY DEF JobsApart
  <2>1. CASE j \in jobs \ old /\ k \in jobs \ old
    BY <2>1 DEF Jobs, JobsApart
  <2>2. CASE j = n \/ k = n
    BY <2>2
  <2> QED
    BY <2>1, <2>2
<1> QED
  BY <1>1, <1>2 DEF Jobs

\* Replace, for a job whose tunnel is not one of the new ones.
LEMMA ReplaceKeeps ==
  ASSUME TypeOK, NEW closed, NEW killed, NEW fresh, Replace(closed, killed, fresh),
         NEW j \in jobs, j.tun \notin fresh
  PROVE  /\ proc[j.tun] \in {"none", "gone"} => proc'[j.tun] = proc[j.tun]
         /\ j.tun \in evaded => j.tun \in evaded'
         /\ j.kind = "attempt" /\ j.tun \in killed => j.tun \in evaded' \/ proc'[j.tun] = "gone"
<1>1. j.tun \in Tunnel
  BY DEF TypeOK, Job
<1>2. proc'[j.tun] = IF j.tun \in killed /\ proc[j.tun] # "none" THEN "gone" ELSE proc[j.tun]
  BY <1>1 DEF Replace
<1>3. evaded' = (evaded \ fresh) \cup {k.tun : k \in {m \in jobs :
        m.kind = "attempt" /\ m.tun \in killed /\ proc[m.tun] = "none"}}
  BY DEF Replace
<1>4. j.tun \in evaded => j.tun \in evaded'
  BY <1>3
<1>5. j.kind = "attempt" /\ j.tun \in killed /\ proc[j.tun] = "none" => j.tun \in evaded'
  BY <1>3
<1> QED
  BY <1>2, <1>4, <1>5

\* The objects and tunnels jobs are at work on, and the type of what they change.
LEMMA JobParts ==
  ASSUME TypeOK, NEW j \in jobs
  PROVE  j.obj \in Conn /\ j.tun \in Tunnel /\ j.obj # None /\ j.tun # None
BY Numbers DEF TypeOK, Job

LEMMA BeginKeepsJobs ==
  ASSUME TypeOK, GoneIsQuiet, Jobs, NEW o \in Conn, MayBegin(o), BeginAttempt(o),
         UNCHANGED <<entry, status>>
  PROVE  Jobs'
<1>1. PICK t \in Least(FreeTunnels) :
        /\ Replace(ClientOf(o), TunnelOf(o), {t})
        /\ client' = [client EXCEPT ![o] = None]
        /\ tunnel' = [tunnel EXCEPT ![o] = t]
        /\ inFlight' = inFlight \cup {o}
        /\ jobs' = jobs \cup {[obj |-> o, tun |-> t, kind |-> "attempt", at |-> "booting"]}
  BY DEF BeginAttempt
<1>2. PICK n : /\ n.obj = o /\ n.tun = t /\ n.kind = "attempt" /\ n.at = "booting"
               /\ jobs' = (jobs \ {}) \cup {n}
  BY <1>1
<1>3. o = entry /\ status[o] = "Reconnecting" /\ o \notin inFlight
  BY DEF MayBegin, GoneIsQuiet
<1>4. t \in Tunnel /\ t # None /\ \A p \in Conn : client[p] # t
  BY FreeTunnel, Numbers
<1>5. \A j \in jobs : j.obj # o /\ j.tun # t
  <2>1. ASSUME NEW j \in jobs, j.obj = o PROVE FALSE
    <3>1. JobOK(j) /\ j \in Job
      BY <2>1 DEF Jobs, TypeOK
    <3>2. j.kind \in {"connect", "attempt"}
      BY <3>1 DEF Job
    <3> QED
      BY <1>3, <2>1, <3>1, <3>2 DEF JobOK
  <2> QED
    BY <2>1, FreeTunnel
<1>6. \A p \in Conn : client'[p] # t /\ (client'[p] = client[p] \/ client'[p] = None)
  BY <1>1, <1>4 DEF TypeOK
<1>7. \A j \in jobs : Keeps(j)
  <2> SUFFICES ASSUME NEW j \in jobs PROVE Keeps(j)
    OBVIOUS
  <2>1. /\ proc[j.tun] \in {"none", "gone"} => proc'[j.tun] = proc[j.tun]
        /\ j.tun \in evaded => j.tun \in evaded'
    BY <1>1, <1>5, ReplaceKeeps
  <2>2. \A p \in Conn : client'[p] # j.tun
    BY <1>6, JobParts DEF Jobs, JobOK
  <2>3. entry' # j.obj /\ entry # j.obj /\ inFlight \subseteq inFlight'
    BY <1>1, <1>3, <1>5
  <2> QED
    BY <2>1, <2>2, <2>3 DEF Keeps
<1>8. JobOK(n)'
  <2>1. proc'[t] = "none"
    BY <1>1, <1>4 DEF Replace
  <2>2. tunnel'[o] = t /\ o \in inFlight'
    BY <1>1 DEF TypeOK
  <2> QED
    BY <1>2, <1>3, <1>6, <2>1, <2>2 DEF JobOK
<1> QED
  BY <1>2, <1>5, <1>7, <1>8, OneMoreJob
LEMMA UserKeepsJobs ==
  ASSUME TypeOK, GoneIsQuiet, Jobs,
         ConnectRemote \/ Disconnect \/ Reconnect \/ ReconnectNow \/ CancelReconnect \/ ExecStart
  PROVE  Jobs'
<1>1. CASE ConnectRemote
  <2>1. PICK o \in Least(FreeConns), t \in Least(FreeTunnels) :
          LET old == {entry} \ {None}
          IN  /\ Replace(UNION {ClientOf(p) : p \in old}, UNION {TunnelOf(p) : p \in old}, {t})
              /\ entry' = o
              /\ status' = [p \in Conn |-> IF p = o THEN "Connecting"
                                           ELSE IF p \in old THEN "Disconnected" ELSE status[p]]
              /\ tunnel' = [p \in Conn |->
                   IF p = o THEN t ELSE IF p \in old THEN None ELSE tunnel[p]]
              /\ client' = [p \in Conn |-> IF p \in old \cup {o} THEN None ELSE client[p]]
              /\ inFlight' = inFlight \ {o}
              /\ jobs' = jobs \cup {[obj |-> o, tun |-> t, kind |-> "connect", at |-> "booting"]}
    BY <1>1 DEF ConnectRemote
  <2>2. PICK n : /\ n.obj = o /\ n.tun = t /\ n.kind = "connect" /\ n.at = "booting"
                 /\ jobs' = (jobs \ {}) \cup {n}
    BY <2>1
  <2>3. o \in Conn /\ o # entry /\ t \in Tunnel /\ t # None /\ \A p \in Conn : client[p] # t
    BY FreeConn, FreeTunnel, Numbers
  <2>4. \A j \in jobs : j.obj # o /\ j.tun # t
    BY FreeConn, FreeTunnel
  <2>5. \A p \in Conn : client'[p] # t /\ (client'[p] = client[p] \/ client'[p] = None)
    BY <2>1, <2>3
  <2>6. \A j \in jobs : Keeps(j)
    <3> SUFFICES ASSUME NEW j \in jobs PROVE Keeps(j)
      OBVIOUS
    <3>1. /\ proc[j.tun] \in {"none", "gone"} => proc'[j.tun] = proc[j.tun]
          /\ j.tun \in evaded => j.tun \in evaded'
          /\ j.kind = "attempt" /\ j.tun \in UNION {TunnelOf(p) : p \in {entry} \ {None}} =>
               j.tun \in evaded' \/ proc'[j.tun] = "gone"
      BY <2>1, <2>4, ReplaceKeeps
    <3>2. \A p \in Conn : client'[p] # j.tun
      BY <2>5, JobParts DEF Jobs, JobOK
    <3>3. entry' # j.obj /\ (j.obj \in inFlight => j.obj \in inFlight')
      BY <2>1, <2>4
    <3>4. entry = j.obj => j.tun \in UNION {TunnelOf(p) : p \in {entry} \ {None}}
      BY JobParts DEF Jobs, JobOK, TunnelOf
    <3>5. status'[j.obj] = "Connected" => status[j.obj] = "Connected"
      BY <2>1, JobParts
    <3> QED
      BY <3>1, <3>2, <3>3, <3>4, <3>5 DEF Keeps
  <2>7. JobOK(n)'
    <3>1. proc'[t] = "none"
      BY <2>1, <2>3 DEF Replace
    <3>2. tunnel'[o] = t /\ status'[o] = "Connecting" /\ entry' = o
      BY <2>1, <2>3
    <3> QED
      BY <2>2, <2>5, <3>1, <3>2 DEF JobOK
  <2> QED
    BY <2>2, <2>4, <2>6, <2>7, OneMoreJob
<1>2. CASE Disconnect
  <2>1. /\ Replace(ClientOf(entry), TunnelOf(entry), {})
        /\ client' = [client EXCEPT ![entry] = None] /\ entry \in Conn
        /\ status' = [status EXCEPT ![entry] = "Disconnected"]
        /\ entry' = None /\ UNCHANGED <<inFlight, jobs>>
    BY <1>2 DEF Disconnect, TypeOK
  <2>2. ASSUME NEW j \in jobs PROVE Keeps(j)
    <3>1. /\ proc[j.tun] \in {"none", "gone"} => proc'[j.tun] = proc[j.tun]
          /\ j.tun \in evaded => j.tun \in evaded'
          /\ j.kind = "attempt" /\ j.tun \in TunnelOf(entry) =>
               j.tun \in evaded' \/ proc'[j.tun] = "gone"
      BY <2>1, ReplaceKeeps
    <3>2. \A p \in Conn : client'[p] # j.tun
      BY <2>1, JobParts DEF TypeOK, Jobs, JobOK
    <3>3. entry = j.obj => j.tun \in TunnelOf(entry)
      BY JobParts DEF Jobs, JobOK, TunnelOf
    <3>4. entry' # j.obj /\ (status'[j.obj] = "Connected" => status[j.obj] = "Connected")
      BY <2>1, JobParts DEF TypeOK
    <3> QED
      BY <2>1, <3>1, <3>2, <3>3, <3>4 DEF Keeps
  <2> QED
    BY <2>1, <2>2, FewerJobs
<1>3. ASSUME UNCHANGED <<entry, tunnel, client, inFlight, jobs, proc, evaded>>,
             status[entry] = "Connecting" => status' = status,
             \A o \in Conn : status'[o] = "Connected" => status[o] = "Connected"
      PROVE  Jobs'
  <2>1. \A j \in jobs : Keeps(j)
    BY <1>3, JobParts DEF Keeps, Jobs, JobOK
  <2> QED
    BY <1>3, <2>1, FewerJobs
<1>4. CASE Reconnect
  <2>1. /\ status[entry] # "Connecting" /\ StartReconnect(entry) /\ entry \in Conn
        /\ UNCHANGED <<entry, tunnel, client, inFlight, jobs, proc, evaded>>
    BY <1>4 DEF Reconnect, transport, TypeOK
  <2>2. \A o \in Conn : status'[o] = "Connected" => status[o] = "Connected"
    BY <2>1, StartReconnectSteps
  <2> QED
    BY <1>3, <2>1, <2>2
<1>5. CASE ReconnectNow
  <2>1. entry \in Conn /\ UNCHANGED <<entry, status>>
    BY <1>5 DEF ReconnectNow, TypeOK
  <2>2. CASE MayBegin(entry) /\ BeginAttempt(entry)
    BY <2>1, <2>2, BeginKeepsJobs
  <2>3. CASE UNCHANGED <<client, tunnel, inFlight, transport, evaded>>
    BY <1>3, <2>1, <2>3 DEF transport
  <2> QED
    BY <1>5, <2>2, <2>3 DEF ReconnectNow, AttemptUnlessInFlight
<1>6. CASE CancelReconnect
  <2>1. /\ status[entry] # "Connecting"
        /\ UNCHANGED <<entry, tunnel, client, inFlight, jobs, proc, evaded>>
        /\ \A o \in Conn : status'[o] = "Connected" => status[o] = "Connected"
    BY <1>6 DEF CancelReconnect, transport, TypeOK
  <2> QED
    BY <1>3, <2>1
<1>7. CASE ExecStart
  BY <1>3, <1>7 DEF ExecStart, objects, transport, TypeOK
<1> QED
  BY <1>1, <1>2, <1>4, <1>5, <1>6, <1>7

LEMMA StepKeepsJobs ==
  ASSUME TypeOK, GoneIsQuiet, Jobs, NEW j \in jobs, JobStep(j)
  PROVE  Jobs'
<1>0. j.obj \in Conn /\ j.tun \in Tunnel /\ j.obj # None /\ j.tun # None /\ JobOK(j)
  BY JobParts DEF Jobs
<1>1. \A k \in jobs \ {j} : k.obj # j.obj /\ k.tun # j.tun /\ k.tun \in Tunnel /\ JobOK(k)
  BY JobParts DEF Jobs, JobsApart
<1>2. ASSUME NEW at \in {"waiting", "dialing"}, Advance(j, at), UNCHANGED <<objects, evaded>>,
             j.at # "booting" => proc' = proc,
             j.at = "booting" => proc' = [proc EXCEPT ![j.tun] = "starting"]
      PROVE  Jobs'
  <2>1. PICK n : /\ n.obj = j.obj /\ n.tun = j.tun /\ n.kind = j.kind /\ n.at = at
                 /\ jobs' = (jobs \ {j}) \cup {n}
    BY <1>2, AdvanceType
  <2>2. \A k \in jobs \ {j} : Keeps(k)
    <3> SUFFICES ASSUME NEW k \in jobs \ {j} PROVE Keeps(k)
      OBVIOUS
    <3>1. proc'[k.tun] = proc[k.tun]
      BY <1>0, <1>1, <1>2 DEF TypeOK
    <3> QED
      BY <1>1, <1>2, <3>1 DEF Keeps, JobOK, objects
  <2>3. JobOK(n)'
    BY <1>0, <1>2, <2>1 DEF JobOK, objects
  <2>4. \A k \in jobs \ {j} : Keeps(k) /\ k.obj # n.obj /\ k.tun # n.tun
    BY <1>1, <2>1, <2>2
  <2>5. jobs' = (jobs \ {j}) \cup {n}
    BY <2>1
  <2> QED
    BY <2>3, <2>4, <2>5, OneMoreJob
<1>3. CASE Bootstrapped(j)
  BY <1>2, <1>3 DEF Bootstrapped, objects
<1>4. CASE SocketAppears(j)
  <2>1. j.at # "booting" /\ Advance(j, "dialing") /\ UNCHANGED <<objects, evaded, proc>>
    BY <1>4 DEF SocketAppears
  <2> QED
    BY <1>2, <2>1
<1>5. CASE ConnectDone(j)
  <2>1. /\ jobs' = jobs \ {j} /\ client' = [client EXCEPT ![j.obj] = j.tun]
        /\ proc' = proc \/ proc' = [proc EXCEPT ![j.tun] = "gone"]
        /\ \E s \in Status : status' = [status EXCEPT ![j.obj] = s]
        /\ UNCHANGED <<entry, tunnel, inFlight, evaded>>
    BY <1>5 DEF ConnectDone, Status
  <2>2. \A k \in jobs \ {j} : Keeps(k)
    BY <1>0, <1>1, <2>1 DEF Keeps, JobOK, TypeOK
  <2> QED
    BY <2>1, <2>2, FewerJobs
<1>6. CASE ConnectFails(j)
  <2>1. /\ jobs' = jobs \ {j} /\ status' = [status EXCEPT ![j.obj] = "Error"]
        /\ Replace({}, {j.tun}, {}) /\ UNCHANGED <<entry, tunnel, client, inFlight>>
    BY <1>6 DEF ConnectFails
  <2>2. ASSUME NEW k \in jobs \ {j} PROVE Keeps(k)
    <3>1. /\ proc[k.tun] \in {"none", "gone"} => proc'[k.tun] = proc[k.tun]
          /\ k.tun \in evaded => k.tun \in evaded'
      BY <2>1, ReplaceKeeps
    <3> QED
      BY <1>0, <1>1, <2>1, <3>1 DEF Keeps, JobOK, TypeOK
  <2> QED
    BY <2>1, <2>2, FewerJobs
<1>7. CASE AttemptDone(j)
  <2>1. jobs' = jobs \ {j} /\ inFlight' = inFlight \ {j.obj} /\ UNCHANGED entry
    BY <1>7 DEF AttemptDone
  <2>2. CASE AttemptSucceeds(j)
    <3>1. /\ client' = [client EXCEPT ![j.obj] = j.tun]
          /\ status' = [status EXCEPT ![j.obj] = "Connected"]
          /\ UNCHANGED <<tunnel, proc, evaded>>
      BY <2>2 DEF AttemptSucceeds
    <3>2. \A k \in jobs \ {j} : Keeps(k)
      BY <1>0, <1>1, <2>1, <3>1 DEF Keeps, JobOK, TypeOK
    <3> QED
      BY <2>1, <3>2, FewerJobs
  <2>3. CASE AttemptTooLate(j)
    <3>1. /\ Replace({j.tun}, TunnelOf(j.obj), {}) /\ client' = [client EXCEPT ![j.obj] = None]
          /\ tunnel' = [tunnel EXCEPT ![j.obj] = None] /\ UNCHANGED status
      BY <2>3 DEF AttemptTooLate
    <3>2. ASSUME NEW k \in jobs \ {j} PROVE Keeps(k)
      <4>1. /\ proc[k.tun] \in {"none", "gone"} => proc'[k.tun] = proc[k.tun]
            /\ k.tun \in evaded => k.tun \in evaded'
        BY <3>1, ReplaceKeeps
      <4>2. \A p \in Conn : client'[p] # k.tun
        BY <1>0, <1>1, <3>1, Numbers DEF JobOK, TypeOK
      <4>3. tunnel'[k.obj] = tunnel[k.obj] /\ k.obj # j.obj
        BY <1>1, <3>1, JobParts DEF TypeOK
      <4> QED
        BY <2>1, <3>1, <4>1, <4>2, <4>3 DEF Keeps
    <3> QED
      BY <2>1, <3>2, FewerJobs
  <2> QED
    BY <1>7, <2>2, <2>3 DEF AttemptDone
<1>8. CASE AttemptFails(j)
  <2>1. /\ jobs' = jobs \ {j} /\ inFlight' = inFlight \ {j.obj}
        /\ UNCHANGED <<entry, status, tunnel, client, proc, evaded>>
    BY <1>8 DEF AttemptFails
  <2>2. \A k \in jobs \ {j} : Keeps(k)
    BY <1>0, <1>1, <2>1 DEF Keeps, JobOK
  <2> QED
    BY <2>1, <2>2, FewerJobs
<1> QED
  BY <1>3, <1>4, <1>5, <1>6, <1>7, <1>8 DEF JobStep
LEMMA JobsStep == TypeOK /\ GoneIsQuiet /\ Jobs /\ [Next]_vars => Jobs'
<1> SUFFICES ASSUME TypeOK, GoneIsQuiet, Jobs, [Next]_vars PROVE Jobs'
  OBVIOUS
<1>1. ASSUME UNCHANGED <<entry, tunnel, inFlight, jobs, evaded>>,
             \A o \in Conn : status[o] = "Connecting" => status'[o] = "Connecting",
             \A o \in Conn : status'[o] = "Connected" => status[o] = "Connected",
             \A t \in Tunnel : proc[t] \in {"none", "gone"} => proc'[t] = proc[t],
             \A o \in Conn : client'[o] = client[o] \/ client'[o] = None
      PROVE  Jobs'
  <2>1. \A j \in jobs : Keeps(j)
    <3> SUFFICES ASSUME NEW j \in jobs PROVE Keeps(j)
      OBVIOUS
    <3>1. j.obj \in Conn /\ j.tun \in Tunnel /\ j.tun # None /\ JobOK(j)
      BY JobParts DEF Jobs
    <3> QED
      BY <1>1, <3>1 DEF Keeps, JobOK
  <2> QED
    BY <1>1, <2>1, FewerJobs
<1>2. ASSUME NEW o \in Conn, StartReconnect(o), status[o] # "Connecting",
             UNCHANGED <<entry, tunnel, inFlight, jobs, evaded>>,
             \A t \in Tunnel : proc[t] \in {"none", "gone"} => proc'[t] = proc[t],
             \A p \in Conn : client'[p] = client[p] \/ client'[p] = None
      PROVE  Jobs'
  BY <1>1, <1>2, StartReconnectSteps
<1>3. ASSUME NEW o \in Conn, TimerFires(o) PROVE Jobs'
  <2>1. UNCHANGED <<entry, status>>
    BY <1>3 DEF TimerFires
  <2>2. CASE MayBegin(o) /\ BeginAttempt(o)
    BY <2>1, <2>2, BeginKeepsJobs
  <2>3. CASE UNCHANGED <<client, tunnel, inFlight, transport, evaded>>
    <3>1. UNCHANGED <<jobs, proc>>
      BY <2>3 DEF transport
    <3> QED
      BY <1>1, <2>1, <2>3, <3>1
  <2> QED
    BY <1>3, <2>2, <2>3 DEF TimerFires, AttemptUnlessInFlight
<1>4. ASSUME NEW o \in Conn, DropNoticed(o) PROVE Jobs'
  <2>1. /\ StartReconnect(o) /\ status[o] # "Connecting"
        /\ UNCHANGED <<entry, tunnel, client, inFlight, jobs, proc, evaded>>
    BY <1>4 DEF DropNoticed, transport
  <2> QED
    BY <1>2, <2>1
<1>5. ASSUME NEW t \in Tunnel, SshBinds(t) \/ SshDies(t) \/ LinkBreaks(t) \/ ExecEnds(t)
      PROVE  Jobs'
  <2>1. UNCHANGED <<entry, status, tunnel, client, inFlight, jobs, evaded>>
    BY <1>5 DEF SshBinds, SshDies, LinkBreaks, ExecEnds, objects, transport
  <2>2. \A u \in Tunnel : proc[u] \in {"none", "gone"} => proc'[u] = proc[u]
    BY <1>5 DEF SshBinds, SshDies, LinkBreaks, ExecEnds, Running, transport, TypeOK
  <2> QED
    BY <1>1, <2>1, <2>2
<1>6. ASSUME NEW t \in Tunnel, TunnelCloses(t) PROVE Jobs'
  <2>1. UNCHANGED <<entry, tunnel, inFlight, jobs, evaded>>
    BY <1>6 DEF TunnelCloses
  <2>2. \A u \in Tunnel : proc[u] \in {"none", "gone"} => proc'[u] = proc[u]
    BY <1>6 DEF TunnelCloses, TypeOK
  <2>3. \A p \in Conn : client'[p] = client[p] \/ client'[p] = None
    BY <1>6 DEF TunnelCloses, TypeOK
  <2>4. CASE UNCHANGED status
    BY <1>1, <2>1, <2>2, <2>3, <2>4
  <2>5. CASE \E o \in Conn : StartReconnect(o) /\ status[o] = "Connected"
    BY <1>2, <2>1, <2>2, <2>3, <2>5
  <2> QED
    BY <1>6, <2>4, <2>5 DEF TunnelCloses, Hears
<1>7. CASE UNCHANGED vars
  BY <1>1, <1>7 DEF vars, objects, transport
<1> QED
  BY <1>3, <1>4, <1>5, <1>6, <1>7, UserKeepsJobs, StepKeepsJobs DEF Next

LEMMA JobsAlways == Spec => []Jobs
<1>1. Init => Jobs
  BY DEF Init, Jobs, JobsApart
<1> QED
  BY <1>1, JobsStep, TypeCorrect, GoneStaysQuiet, PTL DEF Spec

-----------------------------------------------------------------------------
(* Tunnels                                                                 *)

Owned(t) ==
  \/ entry # None /\ tunnel[entry] = t
  \/ \E j \in jobs : j.tun = t
  \/ t \in evaded

\* What is not killed and not new is owned as before if no job is over.
LEMMA ReplaceOwned ==
  ASSUME TypeOK, NEW closed, NEW killed, NEW fresh, Replace(closed, killed, fresh),
         NEW t \in Tunnel, Running(t)'
  PROVE  /\ Running(t) /\ t \notin killed /\ t \notin fresh
         /\ t \in evaded => t \in evaded'
<1>1. proc'[t] = IF t \in fresh THEN "none"
                 ELSE IF t \in killed /\ proc[t] # "none" THEN "gone" ELSE proc[t]
  BY DEF Replace
<1>2. proc'[t] \in {"starting", "up"}
  BY DEF Running
<1>3. Running(t) /\ t \notin killed /\ t \notin fresh
  BY <1>1, <1>2 DEF Running
<1>4. t \in evaded => t \in evaded'
  BY <1>3 DEF Replace
<1> QED
  BY <1>3, <1>4

LEMMA OwnedStep == TypeOK /\ GoneIsQuiet /\ Jobs /\ TunnelsOwned /\ [Next]_vars => TunnelsOwned'
<1> SUFFICES ASSUME TypeOK, GoneIsQuiet, Jobs, TunnelsOwned, [Next]_vars,
                    NEW t \in Tunnel, Running(t)'
             PROVE  Owned(t)'
  BY DEF TunnelsOwned, Owned
<1>0. Running(t) => Owned(t)
  BY DEF TunnelsOwned, Owned
<1>1. ASSUME Running(t), UNCHANGED <<entry, tunnel, jobs, evaded>> PROVE Owned(t)'
  BY <1>0, <1>1 DEF Owned
<1>2. ASSUME NEW o \in Conn, BeginAttempt(o), MayBegin(o), UNCHANGED entry PROVE Owned(t)'
  <2>1. PICK u \in Least(FreeTunnels) :
          /\ Replace(ClientOf(o), TunnelOf(o), {u})
          /\ tunnel' = [tunnel EXCEPT ![o] = u]
          /\ jobs' = jobs \cup {[obj |-> o, tun |-> u, kind |-> "attempt", at |-> "booting"]}
    BY <1>2 DEF BeginAttempt
  <2>2. Running(t) /\ t \notin TunnelOf(o) /\ (t \in evaded => t \in evaded')
    BY <2>1, ReplaceOwned
  <2>3. o = entry /\ t # None
    BY <1>2, Numbers DEF MayBegin, GoneIsQuiet
  <2> QED
    BY <1>0, <2>1, <2>2, <2>3 DEF Owned, TunnelOf
<1>3. ASSUME NEW o \in Conn, AttemptUnlessInFlight(o), UNCHANGED entry PROVE Owned(t)'
  <2>1. CASE MayBegin(o) /\ BeginAttempt(o)
    BY <1>2, <1>3, <2>1
  <2>2. CASE UNCHANGED <<client, tunnel, inFlight, transport, evaded>>
    BY <1>1, <1>3, <2>2 DEF transport, Running
  <2> QED
    BY <1>3, <2>1, <2>2 DEF AttemptUnlessInFlight
<1>4. CASE ConnectRemote
  <2>1. PICK o \in Least(FreeConns), u \in Least(FreeTunnels) :
          /\ Replace(UNION {ClientOf(p) : p \in {entry} \ {None}},
                     UNION {TunnelOf(p) : p \in {entry} \ {None}}, {u})
          /\ jobs' = jobs \cup {[obj |-> o, tun |-> u, kind |-> "connect", at |-> "booting"]}
    BY <1>4 DEF ConnectRemote
  <2>2. /\ Running(t) /\ t \notin UNION {TunnelOf(p) : p \in {entry} \ {None}}
        /\ t \in evaded => t \in evaded'
    BY <2>1, ReplaceOwned
  <2>3. ~(entry # None /\ tunnel[entry] = t)
    BY <2>2, Numbers DEF TunnelOf
  <2> QED
    BY <1>0, <2>1, <2>2, <2>3 DEF Owned
<1>5. CASE Disconnect
  <2>1. Replace(ClientOf(entry), TunnelOf(entry), {}) /\ UNCHANGED jobs
    BY <1>5 DEF Disconnect
  <2>2. Running(t) /\ t \notin TunnelOf(entry) /\ (t \in evaded => t \in evaded')
    BY <2>1, ReplaceOwned
  <2>3. tunnel[entry] # t
    BY <2>2, Numbers DEF TunnelOf
  <2> QED
    BY <1>0, <2>1, <2>2, <2>3 DEF Owned
<1>6. CASE Reconnect \/ CancelReconnect \/ ExecStart
  BY <1>1, <1>6 DEF Reconnect, CancelReconnect, ExecStart, objects, transport, Running
<1>7. CASE ReconnectNow
  BY <1>3, <1>7 DEF ReconnectNow, TypeOK
<1>8. ASSUME NEW o \in Conn, TimerFires(o) PROVE Owned(t)'
  BY <1>3, <1>8 DEF TimerFires
<1>9. ASSUME NEW o \in Conn, DropNoticed(o) PROVE Owned(t)'
  BY <1>1, <1>9 DEF DropNoticed, transport, Running
<1>10. ASSUME NEW j \in jobs, Bootstrapped(j) \/ SocketAppears(j) PROVE Owned(t)'
  <2>1. PICK n : n.tun = j.tun /\ jobs' = (jobs \ {j}) \cup {n}
    BY <1>10, AdvanceType DEF Bootstrapped, SocketAppears
  <2>2. t # j.tun => Running(t)
    BY <1>10 DEF Bootstrapped, SocketAppears, Running, TypeOK
  <2>3. UNCHANGED <<entry, tunnel, evaded>>
    BY <1>10 DEF Bootstrapped, SocketAppears, objects
  <2> QED
    BY <1>0, <2>1, <2>2, <2>3 DEF Owned
<1>11. ASSUME NEW j \in jobs, ConnectDone(j) \/ ConnectFails(j) \/ AttemptDone(j) \/ AttemptFails(j)
       PROVE  Owned(t)'
  <2>0. JobOK(j) /\ j.obj \in Conn /\ j.obj # None /\ j.tun \in Tunnel /\ j.tun # None
    BY JobParts DEF Jobs
  <2>1. jobs' = jobs \ {j} /\ UNCHANGED entry
    BY <1>11 DEF ConnectDone, ConnectFails, AttemptDone, AttemptFails
  <2>2. ASSUME Running(t), t \in evaded => t \in evaded', tunnel' = tunnel,
               t = j.tun => Owned(t)'
        PROVE  Owned(t)'
    BY <1>0, <2>1, <2>2 DEF Owned
  <2>3. ASSUME entry = j.obj, tunnel' = tunnel PROVE t = j.tun => Owned(t)'
    BY <2>0, <2>1, <2>3 DEF Owned, JobOK
  <2>4. CASE ConnectDone(j)
    <3>1. Running(t) /\ evaded' = evaded /\ tunnel' = tunnel
      BY <2>0, <2>4 DEF ConnectDone, Running, TypeOK
    <3>2. entry # j.obj => t # j.tun
      BY <2>0, <2>4 DEF ConnectDone, Running, TypeOK
    <3> QED
      BY <2>2, <2>3, <3>1, <3>2
  <2>5. CASE ConnectFails(j)
    <3>1. Replace({}, {j.tun}, {}) /\ tunnel' = tunnel
      BY <2>5 DEF ConnectFails
    <3>2. Running(t) /\ t \notin {j.tun} /\ (t \in evaded => t \in evaded')
      BY <3>1, ReplaceOwned
    <3> QED
      BY <2>2, <3>1, <3>2
  <2>6. CASE AttemptDone(j)
    <3>1. CASE status[j.obj] = "Reconnecting" /\ AttemptSucceeds(j)
      <4>1. UNCHANGED <<tunnel, proc, evaded>> /\ entry = j.obj
        BY <2>0, <3>1 DEF AttemptSucceeds, GoneIsQuiet
      <4> QED
        BY <2>2, <2>3, <4>1 DEF Running
    <3>2. CASE AttemptTooLate(j)
      <4>1. Replace({j.tun}, TunnelOf(j.obj), {}) /\ tunnel' = [tunnel EXCEPT ![j.obj] = None]
        BY <3>2 DEF AttemptTooLate
      <4>2. Running(t) /\ t \notin TunnelOf(j.obj) /\ (t \in evaded => t \in evaded')
        BY <4>1, ReplaceOwned
      <4>3. t = j.tun => t \in evaded
        BY <2>0, <2>6, <4>2 DEF JobOK, TunnelOf, AttemptDone, Running
      <4>4. entry # None /\ tunnel[entry] = t => tunnel'[entry] = t
        BY <2>0, <4>1, <4>2, Numbers DEF TypeOK, TunnelOf
      <4> QED
        BY <1>0, <2>1, <4>2, <4>3, <4>4 DEF Owned
    <3> QED
      BY <2>6, <3>1, <3>2 DEF AttemptDone
  <2>7. CASE AttemptFails(j)
    <3>1. UNCHANGED <<tunnel, proc, evaded>> /\ j.kind = "attempt"
      BY <2>7 DEF AttemptFails
    <3>2. t = j.tun => Owned(t)'
      BY <2>0, <2>1, <3>1 DEF JobOK, Owned, Running
    <3> QED
      BY <2>2, <3>1, <3>2 DEF Running
  <2> QED
    BY <1>11, <2>4, <2>5, <2>6, <2>7
<1>12. ASSUME NEW u \in Tunnel, SshBinds(u) \/ SshDies(u) \/ LinkBreaks(u) \/ ExecEnds(u)
       PROVE  Owned(t)'
  <2>1. UNCHANGED <<entry, tunnel, jobs, evaded>>
    BY <1>12 DEF SshBinds, SshDies, LinkBreaks, ExecEnds, objects, transport
  <2>2. Running(t)
    BY <1>12 DEF SshBinds, SshDies, LinkBreaks, ExecEnds, Running, transport, TypeOK
  <2> QED
    BY <1>1, <2>1, <2>2
<1>13. ASSUME NEW u \in Tunnel, TunnelCloses(u) PROVE Owned(t)'
  BY <1>1, <1>13 DEF TunnelCloses, Running, TypeOK
<1>14. CASE UNCHANGED vars
  BY <1>1, <1>14 DEF vars, objects, transport, Running
<1> QED
  BY <1>4, <1>5, <1>6, <1>7, <1>8, <1>9, <1>10, <1>11, <1>12, <1>13, <1>14 DEF Next, JobStep

\* No ssh process is left behind: whatever the user disconnects, replaces or
\* cancels while a tunnel is being set up, the process belongs to the registered
\* connection or to a job that will end it, except one whose tunnel was
\* disconnected in an attempt before it had a process.
THEOREM NoTunnelLeftBehind == Spec => []TunnelsOwned
<1>1. Init => TunnelsOwned
  BY DEF Init, TunnelsOwned, Running
<1> QED
  BY <1>1, OwnedStep, TypeCorrect, GoneStaysQuiet, JobsAlways, PTL DEF Spec
-----------------------------------------------------------------------------
(* Clients.  Only a registered object is connected, a client is closed with *)
(* the object it belongs to, and no client has the number of a job's tunnel.*)

LEMMA ClientStep == TypeOK /\ GoneIsQuiet /\ Jobs /\ ConnectedHasClient /\ [Next]_vars => ConnectedHasClient'
<1> SUFFICES ASSUME TypeOK, GoneIsQuiet, Jobs, ConnectedHasClient, [Next]_vars,
                    NEW o \in Conn, status'[o] = "Connected"
             PROVE  client'[o] # None /\ link'[client'[o]] # "closed"
  BY DEF ConnectedHasClient
<1> DEFINE Goal == client'[o] # None /\ link'[client'[o]] # "closed"
<1>0. status[o] = "Connected" => /\ client[o] \in Tunnel /\ client[o] # None
                                 /\ link[client[o]] # "closed" /\ o = entry
  BY DEF ConnectedHasClient, GoneIsQuiet, TypeOK
<1>1. ASSUME status[o] = "Connected", client'[o] = client[o],
             link[client[o]] # "closed" => link'[client[o]] # "closed"
      PROVE  Goal
  BY <1>0, <1>1
<1>2. ASSUME NEW p \in Conn, StartReconnect(p), UNCHANGED <<client, link>> PROVE Goal
  BY <1>1, <1>2, StartReconnectSteps
<1>3. ASSUME NEW p \in Conn, AttemptUnlessInFlight(p), UNCHANGED <<entry, status>> PROVE Goal
  <2>1. CASE MayBegin(p)
    BY <1>0, <1>3, <2>1 DEF MayBegin, GoneIsQuiet
  <2>2. CASE ~MayBegin(p)
    <3>1. UNCHANGED <<client, link>>
      BY <1>3, <2>2 DEF AttemptUnlessInFlight, transport
    <3> QED
      BY <1>1, <1>3, <3>1
  <2> QED
    BY <2>1, <2>2
<1>4. CASE ConnectRemote
  <2>1. PICK p \in Least(FreeConns) :
          status' = [q \in Conn |-> IF q = p THEN "Connecting"
                      ELSE IF q \in {entry} \ {None} THEN "Disconnected" ELSE status[q]]
    BY <1>4 DEF ConnectRemote
  <2>2. status[o] = "Connected" /\ o # entry
    BY <2>1, Numbers
  <2> QED
    BY <1>0, <2>2
<1>5. CASE Disconnect
  BY <1>0, <1>5 DEF Disconnect, TypeOK
<1>6. CASE Reconnect
  BY <1>2, <1>6 DEF Reconnect, transport, TypeOK
<1>7. CASE ReconnectNow
  BY <1>3, <1>7 DEF ReconnectNow, TypeOK
<1>8. CASE CancelReconnect
  BY <1>1, <1>8 DEF CancelReconnect, transport, TypeOK
<1>9. CASE ExecStart
  BY <1>1, <1>9 DEF ExecStart, objects, transport
<1>10. ASSUME NEW p \in Conn, TimerFires(p) PROVE Goal
  BY <1>3, <1>10 DEF TimerFires
<1>11. ASSUME NEW p \in Conn, DropNoticed(p) PROVE Goal
  BY <1>2, <1>11 DEF DropNoticed, transport
<1>12. ASSUME NEW j \in jobs, JobStep(j) PROVE Goal
  <2>0. JobOK(j) /\ j.obj \in Conn /\ j.tun \in Tunnel /\ j.tun # None
    BY JobParts DEF Jobs
  <2>1. CASE Bootstrapped(j) \/ SocketAppears(j) \/ AttemptFails(j)
    BY <1>1, <2>1 DEF Bootstrapped, SocketAppears, AttemptFails, objects
  <2>2. CASE ConnectDone(j)
    <3>1. CASE entry = j.obj
      <4>1. /\ client' = [client EXCEPT ![j.obj] = j.tun] /\ link' = [link EXCEPT ![j.tun] = "up"]
            /\ status' = [status EXCEPT ![j.obj] = "Connected"]
        BY <2>2, <3>1 DEF ConnectDone
      <4>2. CASE o = j.obj
        BY <2>0, <4>1, <4>2 DEF TypeOK
      <4>3. CASE o # j.obj
        BY <1>0, <3>1, <4>1, <4>3
      <4> QED
        BY <4>2, <4>3
    <3>2. CASE entry # j.obj
      <4>1. /\ status' = [status EXCEPT ![j.obj] = "Error"]
            /\ client' = [client EXCEPT ![j.obj] = j.tun]
            /\ link' = [t \in Tunnel |->
                 IF t = j.tun THEN IF file = j.tun THEN "lost" ELSE "up"
                 ELSE IF via[t] = j.tun /\ link[t] \in {"up", "silent"} THEN "lost" ELSE link[t]]
        BY <2>2, <3>2 DEF ConnectDone
      <4>2. status[o] = "Connected" /\ o # j.obj /\ client'[o] = client[o]
        BY <2>0, <4>1 DEF TypeOK
      <4> QED
        BY <1>0, <1>1, <4>1, <4>2
    <3> QED
      BY <3>1, <3>2
  <2>3. CASE ConnectFails(j)
    <3>1. /\ status' = [status EXCEPT ![j.obj] = "Error"] /\ UNCHANGED client
          /\ Replace({}, {j.tun}, {})
      BY <2>3 DEF ConnectFails
    <3>2. status[o] = "Connected"
      BY <2>0, <3>1 DEF TypeOK
    <3>3. link[client[o]] # "closed" => link'[client[o]] # "closed"
      BY <1>0, <3>1, <3>2 DEF Replace
    <3> QED
      BY <1>1, <3>1, <3>2, <3>3
  <2>4. CASE AttemptDone(j)
    <3>1. CASE AttemptSucceeds(j) /\ status[j.obj] = "Reconnecting"
      <4>1. /\ client' = [client EXCEPT ![j.obj] = j.tun] /\ link' = [link EXCEPT ![j.tun] = "up"]
            /\ status' = [status EXCEPT ![j.obj] = "Connected"]
        BY <3>1 DEF AttemptSucceeds
      <4>2. CASE o = j.obj
        BY <2>0, <4>1, <4>2 DEF TypeOK
      <4>3. CASE o # j.obj
        BY <1>0, <2>0, <3>1, <4>1, <4>3 DEF GoneIsQuiet
      <4> QED
        BY <4>2, <4>3
    <3>2. CASE AttemptTooLate(j) /\ status[j.obj] # "Reconnecting"
      <4>1. /\ Replace({j.tun}, TunnelOf(j.obj), {}) /\ UNCHANGED status
            /\ client' = [client EXCEPT ![j.obj] = None]
        BY <3>2 DEF AttemptTooLate
      <4>2. o # j.obj
        BY <2>0, <2>4, <4>1 DEF AttemptDone, JobOK
      <4>3. client'[o] = client[o] /\ client[o] # j.tun
        BY <2>0, <4>1, <4>2 DEF JobOK, TypeOK
      <4>4. link[client[o]] # "closed" => link'[client[o]] # "closed"
        BY <1>0, <4>1, <4>3 DEF Replace
      <4> QED
        BY <1>1, <4>1, <4>3, <4>4
    <3> QED
      BY <2>4, <3>1, <3>2 DEF AttemptDone
  <2> QED
    BY <1>12, <2>1, <2>2, <2>3, <2>4 DEF JobStep
<1>13. ASSUME NEW t \in Tunnel, SshBinds(t) \/ SshDies(t) \/ LinkBreaks(t) \/ ExecEnds(t)
       PROVE  Goal
  <2>1. UNCHANGED <<status, client>>
    BY <1>13 DEF SshBinds, SshDies, LinkBreaks, ExecEnds, objects
  <2>2. \A c \in Tunnel : link[c] # "closed" => link'[c] # "closed"
    BY <1>13 DEF SshBinds, SshDies, LinkBreaks, ExecEnds, transport, TypeOK
  <2> QED
    BY <1>0, <1>1, <2>1, <2>2
<1>14. ASSUME NEW t \in Tunnel, TunnelCloses(t) PROVE Goal
  <2>1. CASE UNCHANGED <<link, client, status>>
    BY <1>1, <2>1
  <2>2. CASE \E p \in Hears(t) :
               /\ client' = [client EXCEPT ![p] = None]
               /\ IF status[p] = "Connected" THEN StartReconnect(p) ELSE UNCHANGED status
    <3>1. PICK p \in Conn : /\ status[p] \in {"Connected", "Reconnecting"}
                            /\ IF status[p] = "Connected" THEN StartReconnect(p) ELSE UNCHANGED status
      BY <2>2 DEF Hears
    <3>2. p = entry
      BY <3>1 DEF GoneIsQuiet
    <3>3. status'[p] = "Reconnecting" /\ (o # p => status'[o] = status[o])
      BY <3>1, StartReconnectSteps
    <3> QED
      BY <1>0, <3>2, <3>3
  <2> QED
    BY <1>14, <2>1, <2>2 DEF TunnelCloses
<1>15. CASE UNCHANGED vars
  BY <1>1, <1>15 DEF vars, objects, transport
<1> QED
  BY <1>4, <1>5, <1>6, <1>7, <1>8, <1>9, <1>10, <1>11, <1>12, <1>13, <1>14, <1>15 DEF Next

\* A connection that says it is connected has a client that nobody of ours
\* closed: neither an attempt that finishes too late nor the close of a tunnel
\* takes the client away and leaves the status.
THEOREM ConnectedKeepsItsClient == Spec => []ConnectedHasClient
<1>1. Init => ConnectedHasClient
  BY DEF Init, ConnectedHasClient
<1> QED
  BY <1>1, ClientStep, TypeCorrect, GoneStaysQuiet, JobsAlways, PTL DEF Spec

\* The status of the registered connection is true of what exists: its client
\* when it is connected, its tunnel, and nothing of the objects before it.
THEOREM StatusStaysTrue == Spec => []StatusIsTrue
BY ConnectedKeepsItsClient, GoneStaysQuiet, NoTunnelLeftBehind, PTL DEF StatusIsTrue
=============================================================================
