---------------------------- MODULE MainProcess ----------------------------
(***************************************************************************)
(* What the main process keeps for its window's local connections          *)
(* (index.ts): the connection of each localConnect, the session watch and  *)
(* the file watches over its client, and the session client that gives the *)
(* window its identity for the session lock.  A dropped connection is      *)
(* given a new client, to which the watches are moved; each moved session  *)
(* watch then makes a new session client and tells the window to rebuild.  *)
(*                                                                         *)
(* Every new GrpcDaemonClient has the next number.  Connections are        *)
(* numbered likewise, as their ids are random.  The reconnect loop by hand *)
(* and over ssh is in Connection.                                          *)
(***************************************************************************)
EXTENDS Naturals
CONSTANTS MaxConns,   \* bound: localConnect calls that get a connection
          MaxClients, \* bound: clients
          MaxFiles,   \* bound: file watches opened
          MaxFaults   \* bound: restarts of the daemon, failed connects

Conn == 1..MaxConns
Client == 1..MaxClients
File == 1..MaxFiles
Idle == 0
Timer == MaxClients + 1

VARIABLES
  window,   \* "open", "closed"
  home,     \* windowConnectionMap: the window's connection, or 0
  calls,    \* localConnect handlers under way
  status,   \* of the connections
  client,   \* Connection.client, or 0
  retry,    \* its reconnect loop: Idle, Timer, or the client it dials
  link,     \* of the clients
  session,  \* sessionClientMap
  watch,    \* sessionWatchUnsubs: the client a connection's watch is on, or 0
  moves,    \* the continuations of moved session watches
  told,     \* history: the client whose watch gave the window its session
  files,    \* fileWatches: its connection and the client it is on
  overtaken,\* history: a page loaded, or the window closed, during the connect
            \* of another localConnect
  raced,    \* history: connections that dropped before the window was told of
            \* them or of their last reconnect, or the telling failed
  faults
vars == <<window, home, calls, status, client, retry, link, session, watch, moves,
          told, files, overtaken, raced, faults>>

NoFile == [conn |-> 0, on |-> 0]

Init ==
  /\ window = "open" /\ home = 0 /\ calls = {}
  /\ status = [c \in Conn |-> "none"]
  /\ client = [c \in Conn |-> 0] /\ retry = [c \in Conn |-> Idle]
  /\ link = [k \in Client |-> "none"]
  /\ session = [c \in Conn |-> 0] /\ watch = [c \in Conn |-> 0]
  /\ moves = {} /\ told = [c \in Conn |-> 0]
  /\ files = [f \in File |-> NoFile]
  /\ overtaken = FALSE /\ raced = {} /\ faults = 0

-----------------------------------------------------------------------------
Next1(f) == {x \in DOMAIN f : f[x] = "none" /\ \A y \in DOMAIN f : y < x => f[y] # "none"}
Fault == faults < MaxFaults /\ faults' = faults + 1
Fails(k) == IF link[k] = "lost" THEN UNCHANGED faults ELSE Fault

(* getClient throws for a connection that is not Connected.                *)
HasClient(c) == status[c] = "Connected" /\ client[c] # 0

(* disconnect().  The entry of its session watch stays, its stream does    *)
(* not.                                                                    *)
Disconnected(c) ==
  /\ status' = [status EXCEPT ![c] = "gone"]
  /\ client' = [client EXCEPT ![c] = 0]
  /\ retry' = [retry EXCEPT ![c] = IF @ = Timer THEN Idle ELSE @]
  /\ home' = 0

ClientsWithout(gone) == [k \in Client |-> IF k \in gone THEN "closed" ELSE link[k]]

(* onLocalConnect: a reloaded page gives up its previous connection.       *)
LocalConnect ==
  /\ window = "open" /\ \E c \in Conn : status[c] = "none"
  /\ \E k \in Next1(link) :
       /\ calls' = calls \cup {[at |-> "dialing", conn |-> 0, dials |-> k]}
       /\ link' = [ClientsWithout(IF home = 0 THEN {} ELSE {client[home]}) EXCEPT ![k] = "dialing"]
  /\ IF home = 0 THEN UNCHANGED <<status, client, retry, home, watch>>
     ELSE Disconnected(home) /\ watch' = [watch EXCEPT ![home] = 0]
  /\ overtaken' = (overtaken \/ \E call \in calls : call.at = "dialing")
  /\ UNCHANGED <<window, session, moves, told, files, raced, faults>>

CloseWindowOnly == \* a slip: the window's connection stays
  /\ window = "open" /\ window' = "closed"
  /\ overtaken' = (overtaken \/ \E call \in calls : call.at = "dialing")
  /\ UNCHANGED <<home, calls, status, client, retry, link, session, watch, moves, told,
                 files, raced, faults>>

(* The closed event.  Session watches are registered for connections, so   *)
(* looking for the window's finds none.                                    *)
CloseWindow ==
  /\ window = "open" /\ window' = "closed"
  /\ IF home = 0 THEN UNCHANGED <<status, client, retry, home, link>>
     ELSE Disconnected(home) /\ link' = ClientsWithout({client[home]})
  /\ overtaken' = (overtaken \/ \E call \in calls : call.at = "dialing")
  /\ UNCHANGED <<calls, session, watch, moves, told, files, raced, faults>>

(* GrpcDaemonClient.connect.                                               *)
Connects(k) == link[k] = "dialing"

(* connectLocal has resolved: the connection is the window's and watched.  *)
LocalConnected(call) ==
  /\ call.at = "dialing" /\ Connects(call.dials)
  /\ \E c \in Next1(status) :
       /\ link' = [link EXCEPT ![call.dials] = "up"]
       /\ status' = [status EXCEPT ![c] = "Connected"]
       /\ client' = [client EXCEPT ![c] = call.dials]
       /\ home' = c
       /\ watch' = [watch EXCEPT ![c] = call.dials]
       /\ calls' = (calls \ {call}) \cup {[at |-> "initial", conn |-> c, dials |-> call.dials]}
  /\ UNCHANGED <<window, retry, session, moves, told, files, overtaken, raced, faults>>

(* The watch's first event; the session client dials.                      *)
InitialSession(call) ==
  /\ call.at = "initial" /\ link[call.dials] = "up"
  /\ watch[call.conn] = call.dials \* not unsubscribed
  /\ \E k \in Next1(link) :
       /\ link' = [link EXCEPT ![k] = "dialing"]
       /\ calls' = (calls \ {call}) \cup {[call EXCEPT !.at = "session", !.dials = k]}
  /\ UNCHANGED <<window, home, status, client, retry, session, watch, moves, told, files,
                 overtaken, raced, faults>>

(* createSessionClient; localConnect answers.                              *)
LocalConnectAnswers(call) ==
  /\ call.at = "session" /\ Connects(call.dials)
  /\ link' = [link EXCEPT ![call.dials] = "up"]
  /\ session' = [session EXCEPT ![call.conn] = call.dials]
  /\ told' = [told EXCEPT ![call.conn] = watch[call.conn]]
  /\ calls' = calls \ {call}
  /\ UNCHANGED <<window, home, status, client, retry, watch, moves, files, overtaken, raced,
                 faults>>

(* A connect fails, or the watch ends before its first event.              *)
LocalConnectFails(call) ==
  /\ \/ call.at # "initial" /\ Fails(call.dials)
     \/ /\ call.at = "initial" /\ UNCHANGED faults
        /\ link[call.dials] # "up" \/ watch[call.conn] # call.dials
  /\ calls' = calls \ {call}
  /\ link' = IF call.at = "initial" THEN link ELSE [link EXCEPT ![call.dials] = "lost"]
  /\ raced' = raced \cup ({call.conn} \ {0})
  /\ UNCHANGED <<window, home, status, client, retry, session, watch, moves, told, files,
                 overtaken>>

-----------------------------------------------------------------------------
(* A drop and the reconnect of a local connection.                         *)

DaemonRestarts ==
  /\ Fault
  /\ link' = [k \in Client |-> IF link[k] \in {"up", "dialing"} THEN "lost" ELSE link[k]]
  /\ UNCHANGED <<window, home, calls, status, client, retry, session, watch, moves, told,
                 files, overtaken, raced>>

(* The channel's watcher or the heartbeat: startReconnect.                 *)
DropNoticed(c) ==
  /\ status[c] = "Connected" /\ link[client[c]] = "lost"
  /\ status' = [status EXCEPT ![c] = "Reconnecting"]
  /\ retry' = [retry EXCEPT ![c] = Timer]
  /\ raced' = IF \E m \in moves \cup calls : m.conn = c THEN raced \cup {c} ELSE raced
  /\ UNCHANGED <<window, home, calls, client, link, session, watch, moves, told, files,
                 overtaken, faults>>

(* reconnectLocal takes the path of the socket from the client it drops:   *)
(* after one failed attempt there is none, and every later attempt fails.  *)
ReconnectLocal(c) ==
  /\ retry[c] = Timer /\ client[c] # 0
  /\ \E k \in Next1(link) :
       /\ link' = [link EXCEPT ![client[c]] = "closed", ![k] = "dialing"]
       /\ retry' = [retry EXCEPT ![c] = k]
  /\ client' = [client EXCEPT ![c] = 0]
  /\ UNCHANGED <<window, home, calls, status, session, watch, moves, told, files,
                 overtaken, raced, faults>>

(* reestablishSessionWatches: onto the new client, with a continuation.    *)
SessionWatchMoved(c, k) ==
  IF watch[c] = 0 THEN UNCHANGED <<watch, moves>>
  ELSE /\ watch' = [watch EXCEPT ![c] = k]
       /\ moves' = moves \cup {[at |-> "initial", conn |-> c, on |-> k, dials |-> k]}

(* reestablishFileWatches: those of a window that is gone are dropped.     *)
ReestablishFileWatches(c, k) ==
  files' = [f \in File |-> IF files[f].conn # c THEN files[f]
                           ELSE IF window = "closed" THEN NoFile ELSE [conn |-> c, on |-> k]]

(* An attempt for a connection that was disconnected meanwhile is torn     *)
(* down, any other is Connected and its watches are moved.                 *)
Reconnected(c) ==
  LET k == retry[c] IN
  /\ k \in Client /\ Connects(k)
  /\ retry' = [retry EXCEPT ![c] = Idle]
  /\ IF status[c] = "Reconnecting"
       THEN /\ link' = [link EXCEPT ![k] = "up"]
            /\ status' = [status EXCEPT ![c] = "Connected"]
            /\ client' = [client EXCEPT ![c] = k]
            /\ SessionWatchMoved(c, k)
            /\ ReestablishFileWatches(c, k)
       ELSE /\ link' = [link EXCEPT ![k] = "closed"]
            /\ UNCHANGED <<status, client, watch, moves, files>>
  /\ UNCHANGED <<window, home, calls, session, told, overtaken, raced, faults>>

ReconnectFails(c) ==
  LET k == retry[c] IN
  /\ k \in Client /\ Fails(k)
  /\ link' = [link EXCEPT ![k] = "lost"]
  /\ retry' = [retry EXCEPT ![c] = IF status[c] = "Reconnecting" THEN Timer ELSE Idle]
  /\ UNCHANGED <<window, home, calls, status, client, session, watch, moves, told, files,
                 overtaken, raced>>

(* The moved watch's first event: the session client dials, unless the     *)
(* connection is not Connected by then.                                    *)
MoveInitial(m) ==
  /\ m.at = "initial" /\ link[m.on] = "up" /\ watch[m.conn] = m.on
  /\ IF HasClient(m.conn)
       THEN \E k \in Next1(link) :
              /\ link' = [link EXCEPT ![k] = "dialing"]
              /\ moves' = (moves \ {m}) \cup {[m EXCEPT !.at = "session", !.dials = k]}
       ELSE moves' = moves \ {m} /\ UNCHANGED link
  /\ UNCHANGED <<window, home, calls, status, client, retry, session, watch, told, files,
                 overtaken, raced, faults>>

(* connectionReconnected: the window rebuilds from this watch's snapshot.  *)
MoveDone(m) ==
  /\ m.at = "session" /\ Connects(m.dials)
  /\ link' = [link EXCEPT ![m.dials] = "up"]
  /\ session' = [session EXCEPT ![m.conn] = m.dials]
  /\ told' = IF status[m.conn] = "gone" THEN told ELSE [told EXCEPT ![m.conn] = m.on]
  /\ moves' = moves \ {m}
  /\ UNCHANGED <<window, home, calls, status, client, retry, watch, files, overtaken, raced,
                 faults>>

(* The error is logged, the window is not told.                            *)
MoveFails(m) ==
  /\ \/ m.at = "session" /\ Fails(m.dials) /\ link' = [link EXCEPT ![m.dials] = "lost"]
     \/ /\ m.at = "initial" /\ UNCHANGED <<faults, link>>
        /\ link[m.on] # "up" \/ watch[m.conn] # m.on
  /\ moves' = moves \ {m}
  /\ raced' = raced \cup {m.conn}
  /\ UNCHANGED <<window, home, calls, status, client, retry, session, watch, told, files,
                 overtaken>>

-----------------------------------------------------------------------------
(* onFsWatchFile and onFsUnwatchFile.                                      *)

WatchFile(f) ==
  /\ window = "open" /\ home # 0 /\ HasClient(home)
  /\ files[f] = NoFile /\ \A g \in File : g < f => files[g] # NoFile
  /\ files' = [files EXCEPT ![f] = [conn |-> home, on |-> client[home]]]
  /\ UNCHANGED <<window, home, calls, status, client, retry, link, session, watch, moves, told,
                 overtaken, raced, faults>>

UnwatchFile(f) ==
  /\ window = "open" /\ files[f] # NoFile
  /\ files' = [files EXCEPT ![f] = NoFile]
  /\ UNCHANGED <<window, home, calls, status, client, retry, link, session, watch, moves, told,
                 overtaken, raced, faults>>

Next ==
  \/ LocalConnect \/ CloseWindow \/ DaemonRestarts
  \/ \E call \in calls : LocalConnected(call) \/ InitialSession(call)
                         \/ LocalConnectAnswers(call) \/ LocalConnectFails(call)
  \/ \E c \in Conn : DropNoticed(c) \/ ReconnectLocal(c) \/ Reconnected(c) \/ ReconnectFails(c)
  \/ \E m \in moves : MoveInitial(m) \/ MoveDone(m) \/ MoveFails(m)
  \/ \E f \in File : WatchFile(f) \/ UnwatchFile(f)

Spec == Init /\ [][Next]_vars

-----------------------------------------------------------------------------
(* The watches of a Connected connection are streams of its client, also   *)
(* after a reconnect: none is left on a client that was dropped.           *)
WatchesFollow ==
  \A c \in Conn : status[c] = "Connected" =>
    /\ watch[c] \in {0, client[c]}
    /\ \A f \in File : files[f].conn = c => files[f].on = client[c]

(* Only an open window's own connection is kept, unless a localConnect was *)
(* overtaken while it connected: then nothing disconnects its connection.  *)
OnlyHomeIsKept ==
  ~overtaken => \A c \in Conn : window = "closed" \/ c # home =>
                  status[c] \in {"none", "gone"} /\ client[c] = 0

(* The window was told of the newest session watch of its connection, and  *)
(* last of it, unless a drop came before the telling.                      *)
ToldOfNewest ==
  \A c \in Conn \ raced :
    status[c] = "Connected" /\ (\A m \in moves \cup calls : m.conn # c) => told[c] = watch[c]
=============================================================================
