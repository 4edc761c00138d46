---------------------------- MODULE AppSessions ----------------------------
(***************************************************************************)
(* The sessions of one window (store/app.ts, ConnectionPicker.tsx,         *)
(* SessionInfoPane.tsx, SessionPanel.tsx) over the connections of the main *)
(* process (index.ts, connectionManager.ts).  A session store is made      *)
(* before its connection is, when its connection answers, or anew after a  *)
(* reconnect, and is found again by the connection's id.                   *)
(*                                                                         *)
(* Calls reach the main process at once; answers and events come back in   *)
(* one queue.  A reconnect's transport is in Connection and MainProcess,   *)
(* a store's content in RefSync and ContentSync.  Left out: other windows' *)
(* uses of the same connections, attempts within one reconnect, output.    *)
(***************************************************************************)
EXTENDS Naturals, Sequences
CONSTANTS Conn, Home,  \* the connections; Home, one of them, is the local one
          Lively,      \* bound: connections that drop, and whose session changes
          MaxStores,   \* bound: session stores
          MaxCalls,    \* bound: connect calls
          MaxChanges,  \* bound: session changes and renames
          MaxFaults    \* bound: drops, failed connects and loads

Key == 1..MaxStores

VARIABLES
  listening, \* initialize() has registered its handlers
  stores,    \* sessionStores, by key: up, connection, status, sessionVersion
  view,      \* activeView's session, or 0
  names,     \* sessionNames, by key; 0 is none
  flushes,   \* handleReconnected while it awaits flushDeferredWrites
  homes,     \* addRemoteSession while it awaits resolveHomedir
  inbox,     \* answers and events on their way to the window
  status,    \* of the connections in the main process
  watched,   \* sessionWatchUnsubs: watches of a connection
  version,   \* of its daemon's session
  refs,      \* the daemon's session has workspaces
  loads,     \* connect handlers: "dialing", or waiting for the session
  moving,    \* watches moved by a reconnect, the window not yet told
  given,     \* history: the name the user gave to a connection's session
  crossed,   \* history: connections with an answer or event that overtook, was
             \* overtaken, or never came
  calls, changes, faults
window == <<listening, stores, view, names, flushes, homes>>
main == <<status, watched, version, refs, loads, moving>>
vars == <<window, inbox, main, given, crossed, calls, changes, faults>>

NoStore == [up |-> FALSE, conn |-> Home, status |-> "none", version |-> 0]

Init ==
  /\ listening = FALSE
  /\ stores = [k \in Key |-> NoStore] /\ view = 0
  /\ names = [k \in Key |-> 0] /\ flushes = {} /\ homes = {}
  /\ inbox = <<>>
  /\ status = [c \in Conn |-> "none"] /\ watched = [c \in Conn |-> 0]
  /\ version = [c \in Conn |-> 1] /\ refs \in [Conn -> BOOLEAN]
  /\ loads = {[conn |-> Home, at |-> "dialing", version |-> 0, no |-> 1]}
  /\ moving = [c \in Conn |-> 0]
  /\ given = [c \in Conn |-> 0] /\ crossed = {}
  /\ calls = 1 /\ changes = 0 /\ faults = 0

-----------------------------------------------------------------------------
Up == {k \in Key : stores[k].up}
Of(c) == {k \in Up : stores[k].conn = c}
First(keys) == CHOOSE k \in keys : \A j \in keys : k <= j
Unused == {k \in Key : stores[k].conn = Home /\ stores[k].status = "none"
                       /\ \A j \in Key : j < k => stores[j].status # "none"}

Larger(m, n) == IF m < n THEN n ELSE m
Event(type, c, what, v) == [type |-> type, conn |-> c, what |-> what, version |-> v]
Told(c) == Event("status", c, status'[c], 0)

(* Something about the connection is on its way, or awaited.               *)
UnderWay(c) ==
  \/ \E i \in DOMAIN inbox : inbox[i].conn = c
  \/ \E l \in loads : l.conn = c
  \/ moving[c] # 0
  \/ \E f \in flushes : f.conn = c
  \/ \E h \in homes : h.conn = c

Change == changes < MaxChanges /\ changes' = changes + 1
Fault == faults < MaxFaults /\ faults' = faults + 1

-----------------------------------------------------------------------------
(* The main process.                                                       *)

(* connectRemote: a connected one answers, concurrent calls share one      *)
(* attempt, and any other is replaced.                                     *)
ConnectCalled(c) ==
  /\ calls < MaxCalls /\ calls' = calls + 1
  /\ LET load(at) == [conn |-> c, at |-> at, version |-> 0, no |-> calls + 1] IN
       IF status[c] = "Connected"
         THEN /\ loads' = loads \cup {load("loading")}
              /\ watched' = [watched EXCEPT ![c] = @ + 1]
              /\ UNCHANGED <<status, inbox>>
         ELSE /\ loads' = loads \cup {load("dialing")}
              /\ status' = [status EXCEPT ![c] = "Connecting"]
              /\ inbox' = IF \E l \in loads : l.conn = c /\ l.at = "dialing" THEN inbox
                          ELSE Append(inbox, Told(c))
              /\ UNCHANGED watched
  /\ UNCHANGED <<version, refs, moving>>

Dialing(c) == {l \in loads : l.conn = c /\ l.at = "dialing"}

(* doConnectRemote, or connectLocal.  Each handler that waited opens a     *)
(* session watch.                                                          *)
Connects(c) ==
  /\ Dialing(c) # {} /\ status[c] \in {"Connecting", "none"}
  /\ status' = [status EXCEPT ![c] = "Connected"]
  /\ inbox' = Append(inbox, Told(c))
  /\ loads' = {IF l \in Dialing(c) THEN [l EXCEPT !.at = "loading"] ELSE l : l \in loads}
  /\ watched' = [watched EXCEPT ![c] = @ + 1]
  /\ UNCHANGED <<window, version, refs, moving, given, crossed, calls, changes, faults>>

(* A failed local connect leaves no connection.                            *)
ConnectFails(c) ==
  /\ Dialing(c) # {}
  /\ IF status[c] = "Connecting" \/ c = Home THEN Fault ELSE UNCHANGED faults
  /\ LET answers == [i \in {1} |-> Event("answer", c, "Error", 0)] IN
       IF c = Home THEN inbox' = inbox \o answers /\ UNCHANGED status
       ELSE /\ status' = [status EXCEPT ![c] = IF @ = "none" THEN @ ELSE "Error"]
            /\ inbox' = (IF status[c] = "none" THEN inbox ELSE Append(inbox, Told(c))) \o answers
  /\ loads' = loads \ Dialing(c)
  /\ crossed' = IF c = Home THEN crossed \cup {c} ELSE crossed
  /\ UNCHANGED <<window, watched, version, refs, moving, given, calls, changes>>

(* The watch's first event, then createSessionClient.                      *)
InitialSession(l) ==
  /\ l.at = "loading" /\ status[l.conn] = "Connected" /\ watched[l.conn] # 0
  /\ loads' = (loads \ {l}) \cup {[l EXCEPT !.at = "loaded", !.version = version[l.conn]]}
  /\ UNCHANGED <<window, inbox, status, watched, version, refs, moving, given, crossed, calls,
                 changes, faults>>

ConnectAnswers(l) ==
  /\ l.at = "loaded"
  /\ loads' = loads \ {l}
  /\ inbox' = Append(inbox, Event("answer", l.conn, "Connected", l.version))
  /\ crossed' = IF status[l.conn] = "Connected" THEN crossed ELSE crossed \cup {l.conn}
  /\ UNCHANGED <<window, status, watched, version, refs, moving, given, calls, changes, faults>>

(* The session is not loaded: the answer is an error, and the connection   *)
(* goes on in the main process.                                            *)
LoadFails(l) ==
  /\ l.at \in {"loading", "loaded"}
  /\ IF status[l.conn] = "Connected" THEN Fault ELSE UNCHANGED faults
  /\ loads' = loads \ {l}
  /\ inbox' = Append(inbox, Event("answer", l.conn, "Error", 0))
  /\ crossed' = crossed \cup {l.conn}
  /\ UNCHANGED <<window, status, watched, version, refs, moving, given, calls, changes>>

(* Another window, or this one, changes the daemon's session.              *)
SessionChanges(c) ==
  /\ c \in Lively /\ Change
  /\ version' = [version EXCEPT ![c] = @ + 1]
  /\ inbox' = IF watched[c] = 0 \/ status[c] # "Connected" THEN inbox
              ELSE Append(inbox, Event("sync", c, "none", version'[c]))
  /\ UNCHANGED <<window, status, watched, refs, loads, moving, given, crossed, calls, faults>>

Drops(c) ==
  /\ c \in Lively /\ status[c] = "Connected" /\ Fault
  /\ status' = [status EXCEPT ![c] = "Reconnecting"]
  /\ inbox' = Append(inbox, Told(c))
  /\ crossed' = IF moving[c] # 0 THEN crossed \cup {c} ELSE crossed
  /\ moving' = [moving EXCEPT ![c] = 0]
  /\ UNCHANGED <<window, watched, version, refs, loads, given, calls, changes>>

(* reestablishSessionWatches.  A connection without a watch is Connected,  *)
(* and the window is told of no session.                                   *)
Reconnects(c) ==
  /\ status[c] = "Reconnecting"
  /\ status' = [status EXCEPT ![c] = "Connected"]
  /\ inbox' = Append(inbox, Told(c))
  /\ moving' = [moving EXCEPT ![c] = IF watched[c] = 0 THEN 0 ELSE 1]
  /\ crossed' = IF watched[c] = 0 THEN crossed \cup {c} ELSE crossed
  /\ UNCHANGED <<window, watched, version, refs, loads, given, calls, changes, faults>>

(* connectionReconnected, with the moved watch's snapshot.                 *)
TellsReconnected(c) ==
  /\ moving[c] = 1 /\ status[c] = "Connected"
  /\ moving' = [moving EXCEPT ![c] = 0]
  /\ inbox' = Append(inbox, Event("reconnected", c, "Connected", version[c]))
  /\ UNCHANGED <<window, status, watched, version, refs, loads, given, crossed, calls, changes, faults>>

-----------------------------------------------------------------------------
(* The window: what the user does.                                         *)

Put(k, c, what, v) ==
  stores' = [stores EXCEPT ![k] = [up |-> TRUE, conn |-> c, status |-> what, version |-> v]]

(* connectAndCreateSession: a saved connection may have a session already. *)
Connect(c) ==
  /\ listening /\ c # Home
  /\ \E k \in Unused : Put(k, c, "Connecting", 0) /\ view' = k
  /\ crossed' = IF Of(c) # {} \/ UnderWay(c) THEN crossed \cup {c} ELSE crossed \ {c}
  /\ given' = [given EXCEPT ![c] = 0]
  /\ ConnectCalled(c)
  /\ UNCHANGED <<listening, names, flushes, homes, changes, faults>>

(* "Retry" of the session's page.                                          *)
Retry(k) ==
  /\ stores[k].up /\ stores[k].status = "Error" /\ stores[k].conn # Home
  /\ stores' = [stores EXCEPT ![k].status = "Connecting"]
  /\ ConnectCalled(stores[k].conn)
  /\ UNCHANGED <<listening, view, names, flushes, homes, given, crossed, changes, faults>>

(* "Reconnect", "Retry now" and "Stop" of the session's banner.            *)
Reconnect(k) ==
  LET c == stores[k].conn IN
  /\ stores[k].up /\ stores[k].status = "Error" /\ status[c] = "Error"
  /\ status' = [status EXCEPT ![c] = "Reconnecting"]
  /\ inbox' = Append(inbox, Told(c))
  /\ UNCHANGED <<window, watched, version, refs, loads, moving, given, crossed, calls, changes, faults>>

Stop(k) ==
  LET c == stores[k].conn IN
  /\ stores[k].up /\ stores[k].status = "Reconnecting" /\ status[c] = "Reconnecting"
  /\ status' = [status EXCEPT ![c] = "Error"]
  /\ inbox' = Append(inbox, Told(c))
  /\ UNCHANGED <<window, watched, version, refs, loads, moving, given, crossed, calls, changes, faults>>

DisconnectSessionOnly(k) == \* a slip: the main process keeps the connection
  /\ stores[k].up
  /\ stores' = [stores EXCEPT ![k].up = FALSE]
  /\ view' = IF view = k /\ Up \ {k} # {} THEN First(Up \ {k}) ELSE view
  /\ crossed' = IF UnderWay(stores[k].conn) THEN crossed \cup {stores[k].conn} ELSE crossed
  /\ UNCHANGED <<listening, names, flushes, homes, inbox, main, given, calls, changes, faults>>

(* disconnectSession.  The window of the last session keeps its view.      *)
DisconnectSession(k) ==
  LET c == stores[k].conn IN
  /\ stores[k].up
  /\ stores' = [stores EXCEPT ![k].up = FALSE]
  /\ view' = IF view = k /\ Up \ {k} # {} THEN First(Up \ {k}) ELSE view
  /\ status' = [status EXCEPT ![c] = "none"]
  /\ watched' = [watched EXCEPT ![c] = 0]
  /\ moving' = [moving EXCEPT ![c] = 0]
  /\ inbox' = IF status[c] = "none" THEN inbox ELSE Append(inbox, Event("status", c, "Disconnected", 0))
  /\ crossed' = IF UnderWay(c) \/ Of(c) # {k} THEN crossed \cup {c} ELSE crossed
  /\ UNCHANGED <<listening, names, flushes, homes, version, refs, loads, given, calls, changes, faults>>

Rename(k) ==
  /\ stores[k].up /\ stores[k].conn \in Lively /\ Change
  /\ LET n == 1 + Larger(given[stores[k].conn], names[k]) IN
       names' = [names EXCEPT ![k] = n] /\ given' = [given EXCEPT ![stores[k].conn] = n]
  /\ crossed' = IF \E f \in flushes : f.conn = stores[k].conn
                  THEN crossed \cup {stores[k].conn} ELSE crossed
  /\ UNCHANGED <<listening, stores, view, flushes, homes, inbox, main, calls, faults>>

-----------------------------------------------------------------------------
(* The window: what it is told.                                            *)

Next1(type, c) == inbox # <<>> /\ inbox[1].type = type /\ inbox[1].conn = c
Take1 == inbox' = Tail(inbox)

(* The answer of localConnect, before which nobody listens.                *)
LocalAnswer ==
  /\ ~listening /\ Next1("answer", Home) /\ Take1
  /\ listening' = TRUE
  /\ IF inbox[1].what = "Connected"
       THEN \E k \in Unused :
              /\ Put(k, Home, "Connected", inbox[1].version)
              /\ view' = IF refs[Home] THEN k ELSE view
       ELSE UNCHANGED <<stores, view>>
  /\ UNCHANGED <<names, flushes, homes, main, given, crossed, calls, changes, faults>>

NobodyListens ==
  /\ ~listening /\ inbox # <<>> /\ inbox[1].type # "answer" /\ Take1
  /\ crossed' = IF inbox[1].type = "status" /\ inbox[1].what = "Connected" THEN crossed
                ELSE crossed \cup {inbox[1].conn}
  /\ UNCHANGED <<window, main, given, calls, changes, faults>>

(* onConnectionStatus.                                                     *)
StatusArrives(c) ==
  /\ listening /\ Next1("status", c) /\ Take1
  /\ stores' = [k \in Key |-> IF k \in Of(c) THEN [stores[k] EXCEPT !.status = inbox[1].what]
                              ELSE stores[k]]
  /\ UNCHANGED <<listening, view, names, flushes, homes, main, given, crossed, calls, changes, faults>>

(* onSync: the first store of the connection.                              *)
SyncArrives(c) ==
  /\ listening /\ Next1("sync", c) /\ Take1
  /\ stores' = IF Of(c) = {} THEN stores
               ELSE [stores EXCEPT ![First(Of(c))].version = Larger(@, inbox[1].version)]
  /\ UNCHANGED <<listening, view, names, flushes, homes, main, given, crossed, calls, changes, faults>>

(* addRemoteSession.  An empty session is not seeded: a workspace is made  *)
(* for it, in the home directory.                                          *)
AddRemoteSession(c) ==
  /\ listening /\ Next1("answer", c) /\ inbox[1].what = "Connected" /\ Take1
  /\ \E k \in IF Of(c) # {} THEN {First(Of(c))} ELSE Unused :
       /\ IF refs[c]
            THEN /\ Put(k, c, "Connected", Larger(IF k \in Up THEN stores[k].version ELSE 0,
                                                  inbox[1].version))
                 /\ view' = k /\ UNCHANGED homes
            ELSE /\ Put(k, c, "Connected", IF k \in Up THEN stores[k].version ELSE 0)
                 /\ homes' = homes \cup {[key |-> k, conn |-> c]} /\ UNCHANGED view
  /\ UNCHANGED <<listening, names, flushes, main, given, crossed, calls, changes, faults>>

HomeResolved(h) ==
  /\ homes' = homes \ {h}
  /\ view' = h.key
  /\ UNCHANGED <<listening, stores, names, flushes, inbox, main, given, crossed, calls, changes, faults>>

(* setSessionError.                                                        *)
SetSessionError(c) ==
  /\ listening /\ Next1("answer", c) /\ inbox[1].what = "Error" /\ Take1
  /\ stores' = IF Of(c) = {} THEN stores ELSE [stores EXCEPT ![First(Of(c))].status = "Error"]
  /\ crossed' = IF status[c] = "Error" THEN crossed ELSE crossed \cup {c}
  /\ UNCHANGED <<listening, view, names, flushes, homes, main, given, calls, changes, faults>>

(* handleReconnected, up to its await.                                     *)
HandleReconnected(c) ==
  /\ listening /\ Next1("reconnected", c) /\ Take1
  /\ LET old == IF Of(c) = {} THEN 0 ELSE First(Of(c)) IN
       /\ flushes' = flushes \cup {[conn |-> c, version |-> inbox[1].version,
                                    name |-> IF old = 0 THEN 0 ELSE names[old]]}
       /\ stores' = IF old = 0 THEN stores ELSE [stores EXCEPT ![old].status = "Connected"]
  /\ UNCHANGED <<listening, view, names, homes, main, given, crossed, calls, changes, faults>>

(* Its rest: every store of the connection is replaced by a new one.       *)
Rebuild(f) ==
  /\ \E k \in Unused :
       /\ stores' = [j \in Key |->
            IF j = k THEN [up |-> TRUE, conn |-> f.conn, status |-> "Connected", version |-> f.version]
            ELSE IF j \in Of(f.conn) THEN [stores[j] EXCEPT !.up = FALSE] ELSE stores[j]]
       /\ names' = [names EXCEPT ![k] = f.name]
       /\ view' = IF refs[f.conn] THEN k ELSE view
  /\ flushes' = flushes \ {f}
  /\ crossed' = \* what came during the flush went to the old store
       IF \E i \in Of(f.conn) : stores[i].status # "Connected" \/ stores[i].version > f.version
         THEN crossed \cup {f.conn} ELSE crossed
  /\ UNCHANGED <<listening, homes, inbox, main, given, calls, changes, faults>>

Next ==
  \/ LocalAnswer \/ NobodyListens
  \/ \E c \in Conn :
       \/ Connects(c) \/ ConnectFails(c) \/ SessionChanges(c) \/ Drops(c) \/ Reconnects(c)
       \/ TellsReconnected(c) \/ Connect(c) \/ StatusArrives(c) \/ SyncArrives(c)
       \/ AddRemoteSession(c) \/ SetSessionError(c) \/ HandleReconnected(c)
  \/ \E l \in loads : InitialSession(l) \/ ConnectAnswers(l) \/ LoadFails(l)
  \/ \E k \in Key : Retry(k) \/ Reconnect(k) \/ Stop(k) \/ DisconnectSession(k) \/ Rename(k)
  \/ \E h \in homes : HomeResolved(h)
  \/ \E f \in flushes : Rebuild(f)

Spec == Init /\ [][Next]_vars

-----------------------------------------------------------------------------
AtRest(c) == listening /\ ~UnderWay(c)

(* A connection that the main process keeps alive has its session in the   *)
(* window, and only one, in the same state and with the same version and   *)
(* name; a connection of no session is given up.  Excused is a connection  *)
(* whose answers and events crossed (see crossed) since it was connected.  *)
WindowFollowsMain ==
  \A c \in Conn \ crossed : AtRest(c) =>
    /\ \A j, k \in Of(c) : j = k
    /\ Of(c) = {} => status[c] = "none"
    /\ \A k \in Of(c) :
         /\ stores[k].status = status[c]
         /\ status[c] = "Connected" /\ refs[c] => stores[k].version = version[c]
         /\ names[k] = given[c]

(* The view is of a session that exists, unless it was of the last one, or *)
(* of an empty one that was rebuilt.                                       *)
ViewExists ==
  crossed = {} /\ (\A c \in Conn : AtRest(c) /\ refs[c]) => view \in Up \cup {0} \/ Up = {}
=============================================================================
