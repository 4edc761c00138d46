----------------------------- MODULE Connection -----------------------------
(***************************************************************************)
(* The connection manager's entry for one remote host: the Connection      *)
(* objects that take its place one after another, their ssh tunnels and    *)
(* gRPC clients, the first connect, the drop handlers, the heartbeat       *)
(* monitor, the reconnect loop, and the commands running over the client   *)
(* (the exec stream registry).                                             *)
(*                                                                         *)
(* doConnectRemote and doReconnectAttempt are jobs: they wait for the      *)
(* bootstrap, for the local socket and for the client, and whatever the    *)
(* user, a timer or a drop handler does comes between.  All tunnels of a   *)
(* host share the path of the local socket.                                *)
(*                                                                         *)
(* Objects and tunnels are numbers, used again when nothing refers to      *)
(* them; a client has the number of the tunnel its job made.               *)
(***************************************************************************)
EXTENDS Naturals, FiniteSets

CONSTANTS
  MaxConns,    \* Connection objects alive at a time
  MaxTunnels,  \* tunnels alive at a time
  MaxFailures, \* failures of ssh, the network or the remote host
  MaxRequests  \* what the user asks for after the first connect

ASSUME ConnectionAssumption ==
  /\ MaxConns \in Nat /\ MaxTunnels \in Nat
  /\ MaxFailures \in Nat /\ MaxRequests \in Nat

Conn == 1..MaxConns
Tunnel == 1..MaxTunnels
None == 0

VARIABLES
  entry,     \* connections.get(id), or None
  status,    \* of each object; "unused" ones are not there
  tunnel,    \* this.tunnel
  client,    \* this.client
  hb,        \* objects whose heartbeat monitor runs
  pending,   \* objects whose reconnectTimer is armed
  orphans,   \* how many armed timers reconnectTimer no longer refers to
  inFlight   \* reconnectInFlight
objects == <<entry, status, tunnel, client, hb, pending, orphans, inFlight>>

VARIABLES
  jobs,      \* doConnectRemote and doReconnectAttempt under way
  proc,      \* ssh processes: "none", "starting", "up", "dead", "gone" when noticed
  wired,     \* tunnels with a drop handler
  link,      \* clients: "none", "up", "silent", "lost", "closed"
  via,       \* the tunnel a client goes through
  file       \* the tunnel that listens, or listened, at the socket's path
transport == <<jobs, proc, wired, link, via, file>>

VARIABLES
  execs,     \* clients with a command running, as the registry has them
  failures, requests,
  evaded     \* history: tunnels of attempts disconnected before they had a process
vars == <<objects, transport, execs, failures, requests, evaded>>

Status == {"unused", "Connecting", "Connected", "Reconnecting", "Error", "Disconnected"}
Job == [obj : Conn, tun : Tunnel, kind : {"connect", "attempt"},
        at : {"booting", "waiting", "dialing"}]

TypeOK ==
  /\ entry \in Conn \cup {None} /\ status \in [Conn -> Status]
  /\ tunnel \in [Conn -> Tunnel \cup {None}] /\ client \in [Conn -> Tunnel \cup {None}]
  /\ hb \subseteq Conn /\ pending \subseteq Conn /\ inFlight \subseteq Conn
  /\ orphans \in [Conn -> Nat]
  /\ jobs \subseteq Job /\ wired \subseteq Tunnel
  /\ proc \in [Tunnel -> {"none", "starting", "up", "dead", "gone"}]
  /\ link \in [Tunnel -> {"none", "up", "silent", "lost", "closed"}]
  /\ via \in [Tunnel -> Tunnel \cup {None}] /\ file \in Tunnel \cup {None}
  /\ execs \subseteq Tunnel /\ evaded \subseteq Tunnel
  /\ failures \in 0..MaxFailures /\ requests \in 0..MaxRequests

Init ==
  /\ entry = None /\ status = [o \in Conn |-> "unused"]
  /\ tunnel = [o \in Conn |-> None] /\ client = [o \in Conn |-> None]
  /\ hb = {} /\ pending = {} /\ orphans = [o \in Conn |-> 0] /\ inFlight = {}
  /\ jobs = {} /\ wired = {} /\ proc = [t \in Tunnel |-> "none"]
  /\ link = [t \in Tunnel |-> "none"] /\ via = [t \in Tunnel |-> None] /\ file = None
  /\ execs = {} /\ failures = 0 /\ requests = 0 /\ evaded = {}

-----------------------------------------------------------------------------
(* Parts of the steps                                                      *)

Running(t) == proc[t] \in {"starting", "up"}
Used(t) ==
  \/ Running(t) \/ proc[t] = "dead" \/ file = t \/ t \in execs
  \/ \E o \in Conn : t \in {tunnel[o], client[o]}
  \/ \E j \in jobs : j.tun = t
  \/ \E c \in Tunnel : via[c] = t /\ link[c] \in {"up", "silent"}
Least(S) == {t \in S : \A u \in S : t <= u}
FreeTunnels == {t \in Tunnel : ~Used(t)}
FreeConns ==
  {o \in Conn : o # entry /\ o \notin pending /\ orphans[o] = 0 /\ \A j \in jobs : j.obj # o}

\* Clients of closed are disconnected, then tunnels of killed; fresh is a new
\* tunnel whose connect() begins.  disconnect() kills the process there is, so a
\* tunnel that still bootstraps evades it, and unlinks the socket, whosever it
\* is; connect() begins by unlinking it too.
Replace(closed, killed, fresh) ==
  /\ proc' = [t \in Tunnel |->
       IF t \in fresh THEN "none"
       ELSE IF t \in killed /\ proc[t] # "none" THEN "gone" ELSE proc[t]]
  /\ link' = [t \in Tunnel |->
       IF t \in fresh THEN "none"
       ELSE IF t \in closed THEN "closed"
       ELSE IF via[t] \in killed /\ link[t] \in {"up", "silent"} THEN "lost" ELSE link[t]]
  /\ wired' = wired \ (killed \cup fresh)
  /\ via' = [t \in Tunnel |-> IF t \in fresh THEN None ELSE via[t]]
  /\ file' = IF killed \cup fresh = {} THEN file ELSE None
  /\ evaded' = (evaded \ fresh) \cup {j.tun : j \in {k \in jobs :
       k.kind = "attempt" /\ k.tun \in killed /\ proc[k.tun] = "none"}}

ClientOf(o) == {client[o]} \ {None}
TunnelOf(o) == {tunnel[o]} \ {None}

Schedule(o) ==
  /\ orphans' = [orphans EXCEPT ![o] = IF o \in pending THEN @ + 1 ELSE @]
  /\ pending' = pending \cup {o}

\* Mutant: only the commands of the present client are settled.
SettleExecsOfClient(o) == execs' = IF entry = o THEN execs \ ClientOf(o) ELSE execs

\* The first emission of Reconnecting settles the commands.
SettleExecs(o) == execs' = IF entry = o THEN {} ELSE execs

StartReconnect(o) ==
  /\ hb' = hb \ {o}
  /\ status' = [status EXCEPT ![o] = "Reconnecting"]
  /\ SettleExecs(o)
  /\ Schedule(o)

\* doReconnectAttempt up to its first await.
BeginAttempt(o) ==
  \E t \in Least(FreeTunnels) :
    /\ Replace(ClientOf(o), TunnelOf(o), {t})
    /\ client' = [client EXCEPT ![o] = None]
    /\ tunnel' = [tunnel EXCEPT ![o] = t]
    /\ inFlight' = inFlight \cup {o}
    /\ jobs' = jobs \cup {[obj |-> o, tun |-> t, kind |-> "attempt", at |-> "booting"]}

MayBegin(o) == status[o] = "Reconnecting" /\ o \notin inFlight

AttemptUnlessInFlight(o) ==
  IF MayBegin(o) THEN BeginAttempt(o)
  ELSE UNCHANGED <<client, tunnel, inFlight, transport, evaded>>

-----------------------------------------------------------------------------
(* The user, through the connection manager                                *)

Asks == requests < MaxRequests /\ requests' = requests + 1

\* connectRemote: nothing while connected, the pending promise while another
\* connect is under way.
ConnectRemote ==
  /\ Asks
  /\ entry # None => status[entry] # "Connected"
  /\ \A j \in jobs : j.kind # "connect"
  /\ \E o \in Least(FreeConns), t \in Least(FreeTunnels) :
       LET old == {entry} \ {None}
       IN  /\ Replace(UNION {ClientOf(p) : p \in old}, UNION {TunnelOf(p) : p \in old}, {t})
           /\ entry' = o
           /\ status' = [p \in Conn |-> IF p = o THEN "Connecting"
                                        ELSE IF p \in old THEN "Disconnected" ELSE status[p]]
           /\ tunnel' = [p \in Conn |->
                IF p = o THEN t ELSE IF p \in old THEN None ELSE tunnel[p]]
           /\ client' = [p \in Conn |-> IF p \in old \cup {o} THEN None ELSE client[p]]
           /\ hb' = hb \ (old \cup {o}) /\ pending' = pending \ old
           /\ inFlight' = inFlight \ {o}
           /\ jobs' = jobs \cup {[obj |-> o, tun |-> t, kind |-> "connect", at |-> "booting"]}
  /\ UNCHANGED <<orphans, execs, failures>>

\* The status comes first, which silences the drop handlers.
Disconnect ==
  /\ Asks /\ entry # None
  /\ Replace(ClientOf(entry), TunnelOf(entry), {})
  /\ status' = [status EXCEPT ![entry] = "Disconnected"]
  /\ client' = [client EXCEPT ![entry] = None]
  /\ tunnel' = [tunnel EXCEPT ![entry] = None]
  /\ hb' = hb \ {entry} /\ pending' = pending \ {entry}
  /\ entry' = None
  /\ UNCHANGED <<orphans, inFlight, jobs, execs, failures>>

\* reconnect and forceReconnect, as their buttons are there to be pressed: of a
\* session in error and of a connected one.  forceReconnect itself refuses only
\* one that reconnects; a press that reaches a connection which has meanwhile
\* failed, been cancelled and been connected anew is left out.
Reconnect ==
  /\ Asks /\ entry # None /\ status[entry] \in {"Connected", "Error"}
  /\ StartReconnect(entry)
  /\ UNCHANGED <<entry, tunnel, client, inFlight, transport, failures, evaded>>

\* The timer is cleared also when the attempt under way makes this do nothing.
ReconnectNow ==
  /\ Asks /\ entry # None /\ status[entry] = "Reconnecting"
  /\ pending' = pending \ {entry}
  /\ AttemptUnlessInFlight(entry)
  /\ UNCHANGED <<entry, status, hb, orphans, execs, failures>>

\* An attempt under way goes on.
CancelReconnect ==
  /\ Asks /\ entry # None /\ status[entry] = "Reconnecting"
  /\ pending' = pending \ {entry}
  /\ status' = [status EXCEPT ![entry] = "Error"]
  /\ UNCHANGED <<entry, tunnel, client, hb, orphans, inFlight, transport, execs, failures, evaded>>

-----------------------------------------------------------------------------
(* The jobs                                                                *)

TimerFires(o) ==
  /\ \/ o \in pending /\ pending' = pending \ {o} /\ orphans' = orphans
     \/ orphans[o] > 0 /\ orphans' = [orphans EXCEPT ![o] = @ - 1] /\ pending' = pending
  /\ AttemptUnlessInFlight(o)
  /\ UNCHANGED <<entry, status, hb, execs, failures, requests>>

Advance(j, at) == jobs' = (jobs \ {j}) \cup {[j EXCEPT !.at = at]}

\* The bootstrap is done: startTunnel spawns ssh.
Bootstrapped(j) ==
  /\ j.at = "booting"
  /\ Advance(j, "waiting")
  /\ proc' = [proc EXCEPT ![j.tun] = "starting"]
  /\ UNCHANGED <<objects, wired, link, via, file, execs, failures, requests, evaded>>

\* ssh exits when it cannot bind its socket.
SshBinds(t) ==
  /\ proc[t] = "starting"
  /\ IF file = None
     THEN file' = t /\ proc' = [proc EXCEPT ![t] = "up"]
     ELSE file' = file /\ proc' = [proc EXCEPT ![t] = "dead"]
  /\ UNCHANGED <<objects, jobs, wired, link, via, execs, failures, requests, evaded>>

\* waitForSocket asks only whether there is a file.
SocketAppears(j) ==
  /\ j.at = "waiting" /\ file # None
  /\ Advance(j, "dialing")
  /\ UNCHANGED <<objects, proc, wired, link, via, file, execs, failures, requests, evaded>>

Reachable == file # None /\ proc[file] = "up"

\* The client is up: what follows the last await of either job.
ConnectDone(j) ==
  /\ j.kind = "connect" /\ j.at = "dialing" /\ Reachable
  /\ jobs' = jobs \ {j}
  /\ client' = [client EXCEPT ![j.obj] = j.tun]
  /\ hb' = hb \cup {j.obj}
  /\ via' = [via EXCEPT ![j.tun] = file]
  /\ IF entry = j.obj
     THEN /\ status' = [status EXCEPT ![j.obj] = "Connected"]
          /\ link' = [link EXCEPT ![j.tun] = "up"]
          /\ wired' = wired \cup TunnelOf(j.obj)
          /\ UNCHANGED <<proc, file, evaded>>
     ELSE \* "Connection not found after connect": the tunnel goes, the client stays
          /\ status' = [status EXCEPT ![j.obj] = "Error"]
          /\ link' = [t \in Tunnel |->
               IF t = j.tun THEN IF file = j.tun THEN "lost" ELSE "up"
               ELSE IF via[t] = j.tun /\ link[t] \in {"up", "silent"} THEN "lost" ELSE link[t]]
          /\ proc' = [proc EXCEPT ![j.tun] = "gone"]
          /\ file' = None
          /\ UNCHANGED <<wired, evaded>>
  /\ UNCHANGED <<entry, tunnel, pending, orphans, inFlight, execs, failures, requests>>

\* Disconnected or cancelled while the attempt was under way: what it built goes.
AttemptTooLate(j) ==
  /\ Replace({j.tun}, TunnelOf(j.obj), {})
  /\ client' = [client EXCEPT ![j.obj] = None]
  /\ tunnel' = [tunnel EXCEPT ![j.obj] = None]
  /\ UNCHANGED <<status, hb>>

\* Mutant: the heartbeat monitor is not started again.
AttemptSucceedsUnmonitored(j) ==
  /\ client' = [client EXCEPT ![j.obj] = j.tun]
  /\ status' = [status EXCEPT ![j.obj] = "Connected"]
  /\ hb' = hb
  /\ link' = [link EXCEPT ![j.tun] = "up"]
  /\ via' = [via EXCEPT ![j.tun] = file]
  /\ wired' = wired \cup TunnelOf(j.obj)
  /\ UNCHANGED <<tunnel, proc, file, evaded>>

AttemptSucceeds(j) ==
  /\ client' = [client EXCEPT ![j.obj] = j.tun]
  /\ status' = [status EXCEPT ![j.obj] = "Connected"]
  /\ hb' = hb \cup {j.obj}
  /\ link' = [link EXCEPT ![j.tun] = "up"]
  /\ via' = [via EXCEPT ![j.tun] = file]
  /\ wired' = wired \cup TunnelOf(j.obj)
  /\ UNCHANGED <<tunnel, proc, file, evaded>>

AttemptDone(j) ==
  /\ j.kind = "attempt" /\ j.at = "dialing" /\ Reachable
  /\ jobs' = jobs \ {j}
  /\ inFlight' = inFlight \ {j.obj}
  /\ IF status[j.obj] = "Reconnecting" THEN AttemptSucceeds(j) ELSE AttemptTooLate(j)
  /\ UNCHANGED <<entry, pending, orphans, execs, failures, requests>>

\* What makes a job fail; a step that could have succeeded counts as a failure.
Fails(j) ==
  LET hopeless == \/ j.at = "waiting" /\ file = None /\ proc[j.tun] \in {"up", "gone"}
                  \/ j.at = "dialing" /\ ~Reachable
  IN  /\ hopeless \/ failures < MaxFailures
      /\ failures' = IF hopeless THEN failures ELSE failures + 1

\* Mutant: a connect that fails leaves its tunnel.
ConnectFailsOnly(j) ==
  /\ j.kind = "connect" /\ Fails(j)
  /\ jobs' = jobs \ {j}
  /\ status' = [status EXCEPT ![j.obj] = "Error"]
  /\ UNCHANGED <<entry, tunnel, client, hb, pending, orphans, inFlight, proc, wired, link,
                 via, file, execs, requests, evaded>>

\* Also the refusal of a daemon of another version, which is an error to the user.
ConnectFails(j) ==
  /\ j.kind = "connect" /\ Fails(j)
  /\ jobs' = jobs \ {j}
  /\ status' = [status EXCEPT ![j.obj] = "Error"]
  /\ Replace({}, {j.tun}, {})
  /\ UNCHANGED <<entry, tunnel, client, hb, pending, orphans, inFlight, execs, requests>>

AttemptFails(j) ==
  /\ j.kind = "attempt" /\ Fails(j)
  /\ jobs' = jobs \ {j}
  /\ inFlight' = inFlight \ {j.obj}
  /\ IF status[j.obj] = "Reconnecting" THEN Schedule(j.obj) ELSE UNCHANGED <<pending, orphans>>
  /\ UNCHANGED <<entry, status, tunnel, client, hb, proc, wired, link, via, file,
                 execs, requests, evaded>>

-----------------------------------------------------------------------------
(* Drops                                                                   *)

Breaks == failures < MaxFailures /\ failures' = failures + 1

SshDies(t) ==
  /\ Breaks /\ Running(t)
  /\ proc' = [proc EXCEPT ![t] = "dead"]
  /\ link' = [c \in Tunnel |-> IF via[c] = t /\ link[c] \in {"up", "silent"} THEN "lost" ELSE link[c]]
  /\ UNCHANGED <<objects, jobs, wired, via, file, execs, requests, evaded>>

\* The transport breaks, or the remote host falls silent.
LinkBreaks(c) ==
  /\ Breaks /\ link[c] = "up"
  /\ \E how \in {"lost", "silent"} : link' = [link EXCEPT ![c] = how]
  /\ UNCHANGED <<objects, jobs, proc, wired, via, file, execs, requests, evaded>>

\* ssh's close event, and the tunnel's drop handler if it is wired.
Hears(t) ==
  {o \in Conn : t \in wired /\ tunnel[o] = t /\ status[o] \in {"Connected", "Reconnecting"}}

TunnelCloses(t) ==
  /\ proc[t] = "dead"
  /\ proc' = [proc EXCEPT ![t] = "gone"]
  /\ IF Hears(t) = {}
     THEN UNCHANGED <<link, client, hb, status, execs, pending, orphans>>
     ELSE \E o \in Hears(t) :
            /\ link' = [c \in Tunnel |-> IF c = client[o] THEN "closed" ELSE link[c]]
            /\ client' = [client EXCEPT ![o] = None]
            /\ IF status[o] = "Connected"
               THEN StartReconnect(o)
               ELSE UNCHANGED <<hb, status, execs, pending, orphans>>
  /\ UNCHANGED <<entry, tunnel, inFlight, jobs, wired, via, file, failures, requests, evaded>>

\* The client's drop handler, or the heartbeat monitor after HEARTBEAT_TIMEOUT_MS
\* or when its stream fails.
DropNoticed(o) ==
  /\ status[o] = "Connected" /\ client[o] # None
  /\ \/ link[client[o]] = "lost"
     \/ o \in hb /\ link[client[o]] = "silent"
  /\ StartReconnect(o)
  /\ UNCHANGED <<entry, tunnel, client, inFlight, transport, failures, requests, evaded>>

-----------------------------------------------------------------------------
(* Commands                                                                *)

\* getClient refuses a connection that is not connected.
ExecStart ==
  /\ Asks /\ entry # None /\ status[entry] = "Connected" /\ client[entry] # None
  /\ execs' = execs \cup {client[entry]}
  /\ UNCHANGED <<objects, transport, failures, evaded>>

\* A result, an error or the end of the stream; a silent link delivers none.
ExecEnds(c) ==
  /\ c \in execs /\ link[c] # "silent"
  /\ execs' = execs \ {c}
  /\ UNCHANGED <<objects, transport, failures, requests, evaded>>

-----------------------------------------------------------------------------
JobStep(j) ==
  Bootstrapped(j) \/ SocketAppears(j) \/ ConnectDone(j) \/ AttemptDone(j)
  \/ ConnectFails(j) \/ AttemptFails(j)

Next ==
  \/ ConnectRemote \/ Disconnect \/ Reconnect \/ ReconnectNow \/ CancelReconnect \/ ExecStart
  \/ \E o \in Conn : TimerFires(o) \/ DropNoticed(o)
  \/ \E j \in jobs : JobStep(j)
  \/ \E t \in Tunnel :
       SshBinds(t) \/ SshDies(t) \/ LinkBreaks(t) \/ TunnelCloses(t) \/ ExecEnds(t)

Spec == Init /\ [][Next]_vars

\* Timers fire, jobs get an answer, and drops are noticed.
FairSpec ==
  /\ Spec
  /\ \A o \in Conn : WF_vars(TimerFires(o)) /\ WF_vars(DropNoticed(o))
  /\ WF_vars(\E j \in jobs : JobStep(j))
  /\ \A t \in Tunnel : WF_vars(SshBinds(t)) /\ WF_vars(TunnelCloses(t))

-----------------------------------------------------------------------------
(* Properties                                                              *)

\* A connected session has a client that nobody of ours closed: no attempt that
\* finishes late, and no tunnel of an earlier one, takes it away.
ConnectedHasClient ==
  \A o \in Conn : status[o] = "Connected" =>
    client[o] # None /\ link[client[o]] # "closed"

\* An object out of the registry neither is connected nor reconnects: nothing
\* would be left to stop it.
GoneIsQuiet ==
  \A o \in Conn \ {entry} : status[o] \notin {"Connected", "Reconnecting"}

\* Every ssh process belongs to the registered object or to a job under way,
\* whatever the user did while it was being set up, except that of an attempt
\* whose tunnel was disconnected before it had a process.
TunnelsOwned ==
  \A t \in Tunnel : Running(t) =>
    \/ entry # None /\ tunnel[entry] = t
    \/ \E j \in jobs : j.tun = t
    \/ t \in evaded

\* All three: what a status claims is there, and nothing else is.
StatusIsTrue == ConnectedHasClient /\ GoneIsQuiet /\ TunnelsOwned

\* The loop is never lost: while reconnecting a timer is armed or an attempt runs.
LoopAlive ==
  \A o \in Conn : status[o] = "Reconnecting" =>
    o \in pending \/ orphans[o] > 0 \/ \E j \in jobs : j.obj = o /\ j.kind = "attempt"

\* While the registered connection reconnects no window waits for a command:
\* each was settled when its client was given up, whichever way that happened.
NoExecLeftWaiting ==
  entry # None /\ status[entry] = "Reconnecting" => execs = {}

\* Neither the loop nor a window's command waits for something that is not to come.
NothingStalls == LoopAlive /\ NoExecLeftWaiting

\* A registered connection whose link is gone gets a new one, or the user ends it.
Healthy(o) == status[o] = "Connected" /\ client[o] # None /\ link[client[o]] = "up"
Recovers ==
  \A o \in Conn :
    (entry = o /\ status[o] \in {"Connected", "Reconnecting"} /\ ~Healthy(o))
      ~> (entry # o \/ status[o] = "Error" \/ Healthy(o))
=============================================================================
