----------------------------- MODULE App_proofs -----------------------------
(***************************************************************************)
(* Theorems about the components that MCApp puts side by side, for every   *)
(* value of their constants.  Each is about the specification of its       *)
(* component, which MCApp instantiates.                                    *)
(***************************************************************************)
EXTENDS MCApp, SequenceTheorems, WellFoundedInduction, TLAPS

-----------------------------------------------------------------------------
(* The main process (MainProcess).  A connection goes from none to         *)
(* Connected, back and forth to Reconnecting, and to gone for good; what is*)
(* said of its watches, and of who may still speak of it, goes with that.  *)

Conns == Main!Conn
Clients == Main!Client

DialCall == [at : {"dialing", "initial", "session"}, conn : Conns \cup {0}, dials : Clients]
Move == [at : {"initial", "session"}, conn : Conns, on : Clients, dials : Clients]

MainTyped ==
  /\ mainWindow \in {"open", "closed"} /\ home \in Conns \cup {0}
  /\ connection \in [Conns -> {"none", "Connected", "Reconnecting", "gone"}]
  /\ client \in [Conns -> Clients \cup {0}]
  /\ retry \in [Conns -> Nat]
  /\ link \in [Clients -> {"none", "dialing", "up", "lost", "closed"}]
  /\ watch \in [Conns -> Clients \cup {0}] /\ told \in [Conns -> Clients \cup {0}]
  /\ files \in [Main!File -> [conn : Conns \cup {0}, on : Clients \cup {0}]]
  /\ dials \subseteq DialCall /\ moves \subseteq Move
  /\ \A d \in dials : d.at = "dialing" <=> d.conn = 0
  /\ raced \subseteq Conns

(* The stages of a connection.                                             *)
StagesOfConn ==
  /\ home # 0 => connection[home] # "none"
  /\ \A c \in Conns :
       /\ connection[c] = "none" =>
            /\ client[c] = 0 /\ watch[c] = 0 /\ retry[c] = 0
            /\ \A f \in Main!File : files[f].conn # c
            /\ \A m \in moves \cup dials : m.conn # c
       /\ connection[c] = "Connected" =>
            /\ client[c] # 0 /\ watch[c] = client[c] /\ retry[c] = 0
            /\ \A f \in Main!File : files[f].conn = c => files[f].on = client[c]
       /\ connection[c] = "Reconnecting" => watch[c] # 0

(* At most one localConnect dials, and none beside a home.                 *)
OneDials ==
  ~overtaken => \A d \in dials : d.at = "dialing" =>
    /\ home = 0 /\ mainWindow = "open"
    /\ \A e \in dials : e.at = "dialing" => e = d

(* What may still tell the window of a connection: nothing while it        *)
(* reconnects, and one at most, which is of its newest watch.              *)
OneSpeaks ==
  \A c \in Conns \ raced :
    /\ \A m, n \in moves \cup dials : m.conn = c /\ n.conn = c => m = n
    /\ connection[c] = "Reconnecting" => \A m \in moves \cup dials : m.conn # c
    /\ \A m \in moves : m.conn = c => m.on = watch[c] \/ connection[c] = "gone"

MainInv ==
  MainTyped /\ StagesOfConn /\ OneDials /\ OneSpeaks /\ Main!OnlyHomeIsKept /\ Main!ToldOfNewest

LEMMA MainNumbers ==
  ASSUME AppAssumption
  PROVE  /\ Conns \subseteq Nat /\ Clients \subseteq Nat /\ 0 \notin Conns /\ 0 \notin Clients
         /\ Main!Timer \in Nat /\ Main!Timer \notin Clients /\ Main!Timer # 0 /\ Main!Idle = 0
BY DEF AppAssumption, Conns, Clients, Main!Conn, Main!Client, Main!Timer, Main!Idle

LEMMA MainFresh ==
  ASSUME MainTyped
  PROVE  /\ \A k \in Main!Next1(link) : k \in Clients /\ link[k] = "none"
         /\ \A c \in Main!Next1(connection) : c \in Conns /\ connection[c] = "none"
BY DEF MainTyped, Main!Next1

LEMMA MainInvInit ==
  ASSUME AppAssumption, Main!Init
  PROVE  MainInv
<1> USE MainNumbers DEF Main!Init
<1>1. MainTyped
  BY DEF MainTyped, Main!NoFile, Conns, Clients
<1>2. StagesOfConn
  BY DEF StagesOfConn, Main!NoFile, Conns
<1>3. OneDials /\ OneSpeaks /\ Main!OnlyHomeIsKept /\ Main!ToldOfNewest
  BY DEF OneDials, OneSpeaks, Main!OnlyHomeIsKept, Main!ToldOfNewest, Conns
<1> QED
  BY <1>1, <1>2, <1>3 DEF MainInv

LEMMA ThenTheSession ==
  /\ \A d \in DialCall, k \in Clients :
       [d EXCEPT !.at = "session", !.dials = k] = [at |-> "session", conn |-> d.conn, dials |-> k]
  /\ \A m \in Move, k \in Clients :
       [m EXCEPT !.at = "session", !.dials = k]
         = [at |-> "session", conn |-> m.conn, on |-> m.on, dials |-> k]
<1>1. ASSUME NEW d \in DialCall, NEW k \in Clients
      PROVE  [d EXCEPT !.at = "session", !.dials = k] = [at |-> "session", conn |-> d.conn, dials |-> k]
  <2> DEFINE e == [d EXCEPT !.at = "session"]
  <2>1. e = [at |-> "session", conn |-> d.conn, dials |-> d.dials]
    BY DEF DialCall
  <2> HIDE DEF e
  <2>2. [e EXCEPT !.dials = k] = [at |-> "session", conn |-> d.conn, dials |-> k]
    BY <2>1
  <2> QED
    BY <2>2 DEF e
<1>2. ASSUME NEW m \in Move, NEW k \in Clients
      PROVE  [m EXCEPT !.at = "session", !.dials = k]
               = [at |-> "session", conn |-> m.conn, on |-> m.on, dials |-> k]
  <2> DEFINE e == [m EXCEPT !.at = "session"]
  <2>1. e = [at |-> "session", conn |-> m.conn, on |-> m.on, dials |-> m.dials]
    BY DEF Move
  <2> HIDE DEF e
  <2>2. [e EXCEPT !.dials = k] = [at |-> "session", conn |-> m.conn, on |-> m.on, dials |-> k]
    BY <2>1
  <2> QED
    BY <2>2 DEF e
<1> QED
  BY <1>1, <1>2

LEMMA MainTypedStep ==
  ASSUME AppAssumption, MainTyped, [Main!Next]_(Main!vars)
  PROVE  MainTyped'
<1> USE MainNumbers, MainFresh DEF Conns, Clients
<1>1. CASE Main!LocalConnect
  <2>1. PICK k \in Main!Next1(link) :
          /\ dials' = dials \cup {[at |-> "dialing", conn |-> 0, dials |-> k]}
          /\ link' = [Main!ClientsWithout(IF home = 0 THEN {} ELSE {client[home]})
                        EXCEPT ![k] = "dialing"]
    BY <1>1 DEF Main!LocalConnect
  <2>2. dials' \subseteq DialCall /\ \A d \in dials' : d.at = "dialing" <=> d.conn = 0
    BY <2>1 DEF MainTyped, DialCall
  <2>3. link' \in [Clients -> {"none", "dialing", "up", "lost", "closed"}]
    BY <2>1 DEF MainTyped, Main!ClientsWithout
  <2>4. CASE home = 0
    BY <1>1, <2>2, <2>3, <2>4 DEF Main!LocalConnect, MainTyped
  <2>5. CASE home # 0
    <3>1. home \in Conns /\ Main!Disconnected(home) /\ watch' = [watch EXCEPT ![home] = 0]
      BY <1>1, <2>5 DEF Main!LocalConnect, MainTyped
    <3>2. /\ connection' \in [Conns -> {"none", "Connected", "Reconnecting", "gone"}]
          /\ client' \in [Conns -> Clients \cup {0}] /\ watch' \in [Conns -> Clients \cup {0}]
          /\ retry' \in [Conns -> Nat] /\ home' = 0
      BY <3>1 DEF Main!Disconnected, MainTyped
    <3> QED
      BY <1>1, <2>2, <2>3, <3>2 DEF Main!LocalConnect, MainTyped
  <2> QED
    BY <2>4, <2>5
<1>2. CASE Main!CloseWindow
  BY <1>2 DEF Main!CloseWindow, Main!Disconnected, Main!ClientsWithout, MainTyped
<1>3. CASE Main!DaemonRestarts
  BY <1>3 DEF Main!DaemonRestarts, MainTyped
<1>4. ASSUME NEW d \in dials, Main!LocalConnected(d)  PROVE MainTyped'
  <2>1. d \in DialCall /\ d.dials \in Clients
    BY DEF MainTyped, DialCall
  <2>2. PICK c \in Main!Next1(connection) :
          /\ connection' = [connection EXCEPT ![c] = "Connected"]
          /\ client' = [client EXCEPT ![c] = d.dials] /\ home' = c
          /\ watch' = [watch EXCEPT ![c] = d.dials]
          /\ dials' = (dials \ {d}) \cup {[at |-> "initial", conn |-> c, dials |-> d.dials]}
          /\ link' = [link EXCEPT ![d.dials] = "up"]
    BY <1>4 DEF Main!LocalConnected
  <2>3. c \in Conns /\ c # 0
    BY <2>2
  <2>4. dials' \subseteq DialCall /\ \A e \in dials' : e.at = "dialing" <=> e.conn = 0
    BY <2>1, <2>2, <2>3 DEF MainTyped, DialCall
  <2> QED
    BY <1>4, <2>1, <2>2, <2>3, <2>4 DEF Main!LocalConnected, MainTyped
<1>5. ASSUME NEW d \in dials, Main!InitialSession(d)  PROVE MainTyped'
  <2>1. d \in DialCall /\ d.at = "initial" /\ d.conn # 0
    BY <1>5 DEF Main!InitialSession, MainTyped
  <2>2. PICK k \in Main!Next1(link) :
          /\ link' = [link EXCEPT ![k] = "dialing"]
          /\ dials' = (dials \ {d}) \cup {[at |-> "session", conn |-> d.conn, dials |-> k]}
    BY <1>5, <2>1, ThenTheSession DEF Main!InitialSession
  <2>4. dials' \subseteq DialCall /\ \A e \in dials' : e.at = "dialing" <=> e.conn = 0
    BY <2>1, <2>2 DEF MainTyped, DialCall
  <2>5. link' \in [Clients -> {"none", "dialing", "up", "lost", "closed"}]
    BY <2>2 DEF MainTyped
  <2>6. UNCHANGED <<mainWindow, home, connection, client, retry, session, watch, moves, told, files,
                    overtaken, raced>>
    BY <1>5 DEF Main!InitialSession
  <2> QED
    BY <2>4, <2>5, <2>6 DEF MainTyped
<1>6. ASSUME NEW d \in dials, Main!LocalConnectAnswers(d)  PROVE MainTyped'
  BY <1>6 DEF Main!LocalConnectAnswers, MainTyped, DialCall
<1>7. ASSUME NEW d \in dials, Main!LocalConnectFails(d)  PROVE MainTyped'
  BY <1>7 DEF Main!LocalConnectFails, MainTyped, DialCall
<1>8. ASSUME NEW c \in Conns, Main!DropNoticed(c)  PROVE MainTyped'
  BY <1>8 DEF Main!DropNoticed, MainTyped
<1>9. ASSUME NEW c \in Conns, Main!ReconnectLocal(c)  PROVE MainTyped'
  BY <1>9 DEF Main!ReconnectLocal, MainTyped
<1>10. ASSUME NEW c \in Conns, Main!Reconnected(c)  PROVE MainTyped'
  <2> DEFINE k == retry[c]
  <2>1. k \in Clients /\ retry' = [retry EXCEPT ![c] = 0]
        /\ UNCHANGED <<mainWindow, home, dials, session, told, overtaken, raced>>
    BY <1>10 DEF Main!Reconnected
  <2>2. CASE connection[c] = "Reconnecting"
    <3>1. /\ link' = [link EXCEPT ![k] = "up"] /\ connection' = [connection EXCEPT ![c] = "Connected"]
          /\ client' = [client EXCEPT ![c] = k]
          /\ Main!SessionWatchMoved(c, k) /\ Main!ReestablishFileWatches(c, k)
      BY <1>10, <2>2 DEF Main!Reconnected
    <3>2. watch' \in [Conns -> Clients \cup {0}] /\ moves' \subseteq Move
      BY <2>1, <3>1 DEF Main!SessionWatchMoved, MainTyped, Move
    <3>3. files' \in [Main!File -> [conn : Conns \cup {0}, on : Clients \cup {0}]]
      BY <2>1, <3>1 DEF Main!ReestablishFileWatches, MainTyped, Main!NoFile
    <3> QED
      BY <2>1, <3>1, <3>2, <3>3 DEF MainTyped
  <2>3. CASE connection[c] # "Reconnecting"
    BY <1>10, <2>1, <2>3 DEF Main!Reconnected, MainTyped
  <2> QED
    BY <2>2, <2>3
<1>11. ASSUME NEW c \in Conns, Main!ReconnectFails(c)  PROVE MainTyped'
  BY <1>11 DEF Main!ReconnectFails, MainTyped
<1>12. ASSUME NEW m \in moves, Main!MoveInitial(m)  PROVE MainTyped'
  <2>1. m \in Move
    BY DEF MainTyped
  <2>2. CASE Main!HasClient(m.conn)
    <3>0. PICK k \in Main!Next1(link) :
            /\ link' = [link EXCEPT ![k] = "dialing"]
            /\ moves' = (moves \ {m}) \cup {[m EXCEPT !.at = "session", !.dials = k]}
      BY <1>12, <2>2 DEF Main!MoveInitial
    <3>1. /\ k \in Clients /\ link' = [link EXCEPT ![k] = "dialing"]
          /\ moves' = (moves \ {m}) \cup
                        {[at |-> "session", conn |-> m.conn, on |-> m.on, dials |-> k]}
      BY <2>1, <3>0, ThenTheSession
    <3>2. [at |-> "session", conn |-> m.conn, on |-> m.on, dials |-> k] \in Move
      BY <2>1, <3>1 DEF MainTyped, Move
    <3> QED
      BY <1>12, <3>1, <3>2 DEF Main!MoveInitial, MainTyped
  <2> QED
    BY <1>12, <2>2 DEF Main!MoveInitial, MainTyped
<1>13. ASSUME NEW m \in moves, Main!MoveDone(m)  PROVE MainTyped'
  BY <1>13 DEF Main!MoveDone, MainTyped, Move
<1>14. ASSUME NEW m \in moves, Main!MoveFails(m)  PROVE MainTyped'
  BY <1>14 DEF Main!MoveFails, MainTyped, Move
<1>15. ASSUME NEW f \in Main!File, Main!WatchFile(f) \/ Main!UnwatchFile(f)  PROVE MainTyped'
  BY <1>15 DEF Main!WatchFile, Main!UnwatchFile, MainTyped, Main!NoFile
<1>16. CASE UNCHANGED Main!vars
  BY <1>16 DEF Main!vars, MainTyped
<1> QED
  BY <1>1, <1>2, <1>3, <1>4, <1>5, <1>6, <1>7, <1>8, <1>9, <1>10, <1>11, <1>12, <1>13, <1>14,
     <1>15, <1>16 DEF Main!Next

(* What the three steps that replace a call or a continuation do to it.    *)
LEMMA DialStages ==
  ASSUME AppAssumption, MainTyped, NEW d \in dials
  PROVE  /\ Main!LocalConnected(d) =>
              /\ d.at = "dialing" /\ d.conn = 0 /\ d.dials \in Clients
              /\ \E c \in Conns :
                   /\ connection[c] = "none"
                   /\ connection' = [connection EXCEPT ![c] = "Connected"]
                   /\ client' = [client EXCEPT ![c] = d.dials] /\ home' = c
                   /\ watch' = [watch EXCEPT ![c] = d.dials]
                   /\ dials' = (dials \ {d}) \cup
                                 {[at |-> "initial", conn |-> c, dials |-> d.dials]}
         /\ Main!InitialSession(d) =>
              \E e : /\ d.at # "dialing" /\ e.at = "session" /\ e.conn = d.conn
                    /\ d.conn \in Conns /\ dials' = (dials \ {d}) \cup {e}
<1>1. d \in DialCall /\ d.dials \in Clients /\ (d.at = "dialing" <=> d.conn = 0)
  BY DEF MainTyped, DialCall
<1>2. ASSUME Main!LocalConnected(d)
      PROVE  \E c \in Conns :
               /\ connection[c] = "none"
               /\ connection' = [connection EXCEPT ![c] = "Connected"]
               /\ client' = [client EXCEPT ![c] = d.dials] /\ home' = c
               /\ watch' = [watch EXCEPT ![c] = d.dials]
               /\ dials' = (dials \ {d}) \cup
                             {[at |-> "initial", conn |-> c, dials |-> d.dials]}
  BY <1>2, MainFresh DEF Main!LocalConnected
<1>3. ASSUME Main!InitialSession(d)
      PROVE  \E e : /\ d.at # "dialing" /\ e.at = "session" /\ e.conn = d.conn
                   /\ d.conn \in Conns /\ dials' = (dials \ {d}) \cup {e}
  <2>1. PICK k \in Main!Next1(link) :
          dials' = (dials \ {d}) \cup {[d EXCEPT !.at = "session", !.dials = k]}
    BY <1>3 DEF Main!InitialSession
  <2>2. k \in Clients
    BY MainFresh
  <2> DEFINE e == [at |-> "session", conn |-> d.conn, dials |-> k]
  <2>3. dials' = (dials \ {d}) \cup {e}
    BY <1>1, <2>1, <2>2, ThenTheSession
  <2>4. d.at # "dialing" /\ d.conn \in Conns
    BY <1>1, <1>3 DEF Main!InitialSession, DialCall
  <2>5. e.at = "session" /\ e.conn = d.conn
    OBVIOUS
  <2> QED
    BY <2>3, <2>4, <2>5
<1> QED
  BY <1>1, <1>2, <1>3 DEF Main!LocalConnected

LEMMA DialIsNoMove ==
  ASSUME MainTyped
  PROVE  \A d \in dials, m \in moves : d # m
<1>1. \A d \in dials : "on" \notin DOMAIN d
  BY DEF MainTyped, DialCall
<1>2. \A m \in moves : "on" \in DOMAIN m
  BY DEF MainTyped, Move
<1> QED
  BY <1>1, <1>2

LEMMA MoveStages ==
  ASSUME AppAssumption, MainTyped, NEW m \in moves, Main!MoveInitial(m)
  PROVE  \/ connection[m.conn] # "Connected" /\ moves' = moves \ {m}
         \/ client[m.conn] = 0 /\ moves' = moves \ {m}
         \/ \E n : n.conn = m.conn /\ n.on = m.on /\ moves' = (moves \ {m}) \cup {n}
<1>1. m \in Move
  BY DEF MainTyped
<1>2. CASE Main!HasClient(m.conn)
  <2>1. PICK k \in Main!Next1(link) :
          moves' = (moves \ {m}) \cup {[m EXCEPT !.at = "session", !.dials = k]}
    BY <1>2 DEF Main!MoveInitial
  <2>2. k \in Clients
    BY MainFresh
  <2> DEFINE n == [at |-> "session", conn |-> m.conn, on |-> m.on, dials |-> k]
  <2>3. moves' = (moves \ {m}) \cup {n}
    BY <1>1, <2>1, <2>2, ThenTheSession
  <2>4. n.conn = m.conn /\ n.on = m.on
    OBVIOUS
  <2> QED
    BY <2>3, <2>4
<1>3. CASE ~Main!HasClient(m.conn)
  BY <1>3 DEF Main!MoveInitial, Main!HasClient
<1> QED
  BY <1>2, <1>3

LEMMA StagesStep ==
  ASSUME AppAssumption, MainInv, [Main!Next]_(Main!vars)
  PROVE  StagesOfConn'
<1> USE MainNumbers DEF Conns, Clients, MainInv, MainTyped, StagesOfConn
<1>1. CASE Main!LocalConnect
  BY <1>1 DEF Main!LocalConnect, Main!Disconnected
<1>2. CASE Main!CloseWindow
  BY <1>2 DEF Main!CloseWindow, Main!Disconnected
<1>3. CASE Main!DaemonRestarts
  BY <1>3 DEF Main!DaemonRestarts
<1>4. ASSUME NEW d \in dials, Main!LocalConnected(d)  PROVE StagesOfConn'
  <2>1. d.at = "dialing" /\ d.conn = 0 /\ d.dials \in Clients
    BY <1>4, DialStages
  <2>2. PICK c \in Conns :
          /\ connection[c] = "none"
          /\ connection' = [connection EXCEPT ![c] = "Connected"]
          /\ client' = [client EXCEPT ![c] = d.dials] /\ home' = c
          /\ watch' = [watch EXCEPT ![c] = d.dials]
          /\ dials' = (dials \ {d}) \cup {[at |-> "initial", conn |-> c, dials |-> d.dials]}
    BY <1>4, DialStages
  <2>3. UNCHANGED <<mainWindow, retry, moves, told, files, overtaken, raced>>
    BY <1>4 DEF Main!LocalConnected
  <2> QED
    BY <2>1, <2>2, <2>3
<1>5. ASSUME NEW d \in dials, Main!InitialSession(d)  PROVE StagesOfConn'
  <2>1. PICK e : /\ d.at # "dialing" /\ e.at = "session" /\ e.conn = d.conn
                 /\ d.conn \in Conns /\ dials' = (dials \ {d}) \cup {e}
    BY <1>5, DialStages
  <2>2. UNCHANGED <<mainWindow, home, connection, client, retry, watch, moves, told, files,
                    overtaken, raced>>
    BY <1>5 DEF Main!InitialSession
  <2> QED
    BY <2>1, <2>2
<1>6. ASSUME NEW d \in dials, Main!LocalConnectAnswers(d)  PROVE StagesOfConn'
  BY <1>6 DEF Main!LocalConnectAnswers
<1>7. ASSUME NEW d \in dials, Main!LocalConnectFails(d)  PROVE StagesOfConn'
  BY <1>7 DEF Main!LocalConnectFails
<1>8. ASSUME NEW c \in Conns, Main!DropNoticed(c)  PROVE StagesOfConn'
  BY <1>8 DEF Main!DropNoticed
<1>9. ASSUME NEW c \in Conns, Main!ReconnectLocal(c)  PROVE StagesOfConn'
  BY <1>9 DEF Main!ReconnectLocal
<1>10. ASSUME NEW c \in Conns, Main!Reconnected(c)  PROVE StagesOfConn'
  BY <1>10 DEF Main!Reconnected, Main!SessionWatchMoved, Main!ReestablishFileWatches, Main!NoFile
<1>11. ASSUME NEW c \in Conns, Main!ReconnectFails(c)  PROVE StagesOfConn'
  BY <1>11 DEF Main!ReconnectFails
<1>12. ASSUME NEW m \in moves, Main!MoveInitial(m)  PROVE StagesOfConn'
  <2>1. m.conn \in Conns
    BY DEF Move
  <2>2. UNCHANGED <<mainWindow, home, dials, connection, client, retry, watch, told, files,
                    overtaken, raced>>
    BY <1>12 DEF Main!MoveInitial
  <2>3. CASE moves' = moves \ {m}
    BY <2>1, <2>2, <2>3, <1>12, MoveStages
  <2>4. CASE \E n : n.conn = m.conn /\ n.on = m.on /\ moves' = (moves \ {m}) \cup {n}
    BY <2>1, <2>2, <2>4
  <2> QED
    BY <2>3, <2>4, <1>12, MoveStages
<1>13. ASSUME NEW m \in moves, Main!MoveDone(m)  PROVE StagesOfConn'
  BY <1>13 DEF Main!MoveDone
<1>14. ASSUME NEW m \in moves, Main!MoveFails(m)  PROVE StagesOfConn'
  BY <1>14 DEF Main!MoveFails
<1>15. ASSUME NEW f \in Main!File, Main!WatchFile(f) \/ Main!UnwatchFile(f)  PROVE StagesOfConn'
  <2>1. UNCHANGED <<home, connection, client, retry, watch, moves, dials>>
    BY <1>15 DEF Main!WatchFile, Main!UnwatchFile
  <2>2. CASE Main!WatchFile(f)
    <3>1. home \in Conns /\ client[home] # 0
      BY <2>2 DEF Main!WatchFile, Main!HasClient
    <3>2. files' = [files EXCEPT ![f] = [conn |-> home, on |-> client[home]]]
      BY <2>2 DEF Main!WatchFile
    <3> QED
      BY <2>1, <3>1, <3>2
  <2>3. CASE Main!UnwatchFile(f)
    <3>1. files' = [files EXCEPT ![f] = [conn |-> 0, on |-> 0]]
      BY <2>3 DEF Main!UnwatchFile, Main!NoFile
    <3> QED
      BY <2>1, <3>1
  <2> QED
    BY <1>15, <2>2, <2>3
<1>16. CASE UNCHANGED Main!vars
  BY <1>16 DEF Main!vars
<1> QED
  BY <1>1, <1>2, <1>3, <1>4, <1>5, <1>6, <1>7, <1>8, <1>9, <1>10, <1>11, <1>12, <1>13, <1>14,
     <1>15, <1>16 DEF Main!Next, Conns

LEMMA OneDialsStep ==
  ASSUME AppAssumption, MainInv, [Main!Next]_(Main!vars)
  PROVE  (OneDials /\ Main!OnlyHomeIsKept)'
<1> USE MainNumbers DEF Conns, Clients, MainInv, MainTyped, OneDials, Main!OnlyHomeIsKept
<1>1. CASE Main!LocalConnect
  <2>1. ~overtaken' => ~overtaken /\ \A d \in dials : d.at # "dialing"
    BY <1>1, Zenon DEF Main!LocalConnect
  <2>2. mainWindow = "open" /\ mainWindow' = mainWindow /\ home' = 0
    BY <1>1 DEF Main!LocalConnect, Main!Disconnected
  <2>3. PICK k : dials' = dials \cup {[at |-> "dialing", conn |-> 0, dials |-> k]}
    BY <1>1 DEF Main!LocalConnect
  <2>4. CASE home = 0
    <3>1. UNCHANGED <<connection, client>>
      BY <1>1, <2>4 DEF Main!LocalConnect
    <3> QED
      BY <2>1, <2>2, <2>3, <2>4, <3>1
  <2>5. CASE home # 0
    <3>1. /\ connection' = [connection EXCEPT ![home] = "gone"]
          /\ client' = [client EXCEPT ![home] = 0]
      BY <1>1, <2>5 DEF Main!LocalConnect, Main!Disconnected
    <3> QED
      BY <2>1, <2>2, <2>3, <2>5, <3>1
  <2> QED
    BY <2>4, <2>5
<1>2. CASE Main!CloseWindow
  <2>1. ~overtaken' => ~overtaken /\ \A d \in dials : d.at # "dialing"
    BY <1>2, Zenon DEF Main!CloseWindow
  <2>2. dials' = dials
    BY <1>2 DEF Main!CloseWindow
  <2>3. CASE home = 0
    <3>1. UNCHANGED <<connection, client, home>>
      BY <1>2, <2>3 DEF Main!CloseWindow
    <3> QED
      BY <2>1, <2>2, <2>3, <3>1
  <2>4. CASE home # 0
    <3>1. /\ connection' = [connection EXCEPT ![home] = "gone"] /\ home' = 0
          /\ client' = [client EXCEPT ![home] = 0]
      BY <1>2, <2>4 DEF Main!CloseWindow, Main!Disconnected
    <3> QED
      BY <2>1, <2>2, <2>4, <3>1
  <2> QED
    BY <2>3, <2>4
<1>3. CASE Main!DaemonRestarts
  BY <1>3 DEF Main!DaemonRestarts
<1>4. ASSUME NEW d \in dials, Main!LocalConnected(d)  PROVE (OneDials /\ Main!OnlyHomeIsKept)'
  <2>1. d.at = "dialing" /\ d.conn = 0 /\ d.dials \in Clients
    BY <1>4, DialStages
  <2>2. PICK c \in Conns :
          /\ connection[c] = "none"
          /\ connection' = [connection EXCEPT ![c] = "Connected"]
          /\ client' = [client EXCEPT ![c] = d.dials] /\ home' = c
          /\ watch' = [watch EXCEPT ![c] = d.dials]
          /\ dials' = (dials \ {d}) \cup {[at |-> "initial", conn |-> c, dials |-> d.dials]}
    BY <1>4, DialStages
  <2>3. UNCHANGED <<mainWindow, retry, moves, told, files, overtaken, raced>>
    BY <1>4 DEF Main!LocalConnected
  <2> QED
    BY <2>1, <2>2, <2>3
<1>5. ASSUME NEW d \in dials, Main!InitialSession(d)  PROVE (OneDials /\ Main!OnlyHomeIsKept)'
  <2>1. PICK e : /\ d.at # "dialing" /\ e.at = "session" /\ e.conn = d.conn
                 /\ d.conn \in Conns /\ dials' = (dials \ {d}) \cup {e}
    BY <1>5, DialStages
  <2>2. UNCHANGED <<mainWindow, home, connection, client, retry, watch, moves, told, files,
                    overtaken, raced>>
    BY <1>5 DEF Main!InitialSession
  <2> QED
    BY <2>1, <2>2
<1>6. ASSUME NEW d \in dials, Main!LocalConnectAnswers(d)  PROVE (OneDials /\ Main!OnlyHomeIsKept)'
  BY <1>6 DEF Main!LocalConnectAnswers
<1>7. ASSUME NEW d \in dials, Main!LocalConnectFails(d)  PROVE (OneDials /\ Main!OnlyHomeIsKept)'
  BY <1>7 DEF Main!LocalConnectFails
<1>8. ASSUME NEW c \in Conns, Main!DropNoticed(c)  PROVE (OneDials /\ Main!OnlyHomeIsKept)'
  BY <1>8 DEF Main!DropNoticed
<1>9. ASSUME NEW c \in Conns, Main!ReconnectLocal(c)  PROVE (OneDials /\ Main!OnlyHomeIsKept)'
  BY <1>9 DEF Main!ReconnectLocal
<1>10. ASSUME NEW c \in Conns, Main!Reconnected(c)  PROVE (OneDials /\ Main!OnlyHomeIsKept)'
  BY <1>10 DEF Main!Reconnected
<1>11. ASSUME NEW c \in Conns, Main!ReconnectFails(c)  PROVE (OneDials /\ Main!OnlyHomeIsKept)'
  BY <1>11 DEF Main!ReconnectFails
<1>12. ASSUME NEW m \in moves, Main!MoveInitial(m)  PROVE (OneDials /\ Main!OnlyHomeIsKept)'
  <2>1. m.conn \in Conns
    BY DEF Move
  <2>2. UNCHANGED <<mainWindow, home, dials, connection, client, retry, watch, told, files,
                    overtaken, raced>>
    BY <1>12 DEF Main!MoveInitial
  <2>3. CASE moves' = moves \ {m}
    BY <2>1, <2>2, <2>3, <1>12, MoveStages
  <2>4. CASE \E n : n.conn = m.conn /\ n.on = m.on /\ moves' = (moves \ {m}) \cup {n}
    BY <2>1, <2>2, <2>4
  <2> QED
    BY <2>3, <2>4, <1>12, MoveStages
<1>13. ASSUME NEW m \in moves, Main!MoveDone(m)  PROVE (OneDials /\ Main!OnlyHomeIsKept)'
  BY <1>13 DEF Main!MoveDone
<1>14. ASSUME NEW m \in moves, Main!MoveFails(m)  PROVE (OneDials /\ Main!OnlyHomeIsKept)'
  BY <1>14 DEF Main!MoveFails
<1>15. ASSUME NEW f \in Main!File, Main!WatchFile(f) \/ Main!UnwatchFile(f) 
       PROVE  (OneDials /\ Main!OnlyHomeIsKept)'
  BY <1>15 DEF Main!WatchFile, Main!UnwatchFile, Main!NoFile
<1>16. CASE UNCHANGED Main!vars
  BY <1>16 DEF Main!vars
<1> QED
  BY <1>1, <1>2, <1>3, <1>4, <1>5, <1>6, <1>7, <1>8, <1>9, <1>10, <1>11, <1>12, <1>13, <1>14,
     <1>15, <1>16 DEF Main!Next, Conns

LEMMA OneSpeaksStep ==
  ASSUME AppAssumption, MainInv, [Main!Next]_(Main!vars)
  PROVE  OneSpeaks'
<1> USE MainNumbers DEF Conns, Clients, MainInv, MainTyped, OneSpeaks, StagesOfConn
<1>1. CASE Main!LocalConnect
  BY <1>1 DEF Main!LocalConnect, Main!Disconnected
<1>2. CASE Main!CloseWindow
  BY <1>2 DEF Main!CloseWindow, Main!Disconnected
<1>3. CASE Main!DaemonRestarts
  BY <1>3 DEF Main!DaemonRestarts
<1>4. ASSUME NEW d \in dials, Main!LocalConnected(d)  PROVE OneSpeaks'
  <2>1. d.at = "dialing" /\ d.conn = 0 /\ d.dials \in Clients
    BY <1>4, DialStages
  <2>2. PICK c \in Conns :
          /\ connection[c] = "none"
          /\ connection' = [connection EXCEPT ![c] = "Connected"]
          /\ client' = [client EXCEPT ![c] = d.dials] /\ home' = c
          /\ watch' = [watch EXCEPT ![c] = d.dials]
          /\ dials' = (dials \ {d}) \cup {[at |-> "initial", conn |-> c, dials |-> d.dials]}
    BY <1>4, DialStages
  <2>3. UNCHANGED <<mainWindow, retry, moves, told, files, overtaken, raced>>
    BY <1>4 DEF Main!LocalConnected
  <2> QED
    BY <2>1, <2>2, <2>3
<1>5. ASSUME NEW d \in dials, Main!InitialSession(d)  PROVE OneSpeaks'
  <2>1. PICK e : /\ d.at # "dialing" /\ e.at = "session" /\ e.conn = d.conn
                 /\ d.conn \in Conns /\ dials' = (dials \ {d}) \cup {e}
    BY <1>5, DialStages
  <2>2. UNCHANGED <<mainWindow, home, connection, client, retry, watch, moves, told, files,
                    overtaken, raced>>
    BY <1>5 DEF Main!InitialSession
  <2>3. d \notin moves
    BY DialIsNoMove
  <2> QED
    BY <2>1, <2>2, <2>3
<1>6. ASSUME NEW d \in dials, Main!LocalConnectAnswers(d)  PROVE OneSpeaks'
  BY <1>6 DEF Main!LocalConnectAnswers
<1>7. ASSUME NEW d \in dials, Main!LocalConnectFails(d)  PROVE OneSpeaks'
  BY <1>7 DEF Main!LocalConnectFails
<1>8. ASSUME NEW c \in Conns, Main!DropNoticed(c)  PROVE OneSpeaks'
  BY <1>8 DEF Main!DropNoticed
<1>9. ASSUME NEW c \in Conns, Main!ReconnectLocal(c)  PROVE OneSpeaks'
  BY <1>9 DEF Main!ReconnectLocal
<1>10. ASSUME NEW c \in Conns, Main!Reconnected(c)  PROVE OneSpeaks'
  BY <1>10 DEF Main!Reconnected, Main!SessionWatchMoved
<1>11. ASSUME NEW c \in Conns, Main!ReconnectFails(c)  PROVE OneSpeaks'
  BY <1>11 DEF Main!ReconnectFails
<1>12. ASSUME NEW m \in moves, Main!MoveInitial(m)  PROVE OneSpeaks'
  <2>1. m.conn \in Conns
    BY DEF Move
  <2>2. UNCHANGED <<mainWindow, home, dials, connection, client, retry, watch, told, files,
                    overtaken, raced>>
    BY <1>12 DEF Main!MoveInitial
  <2>3. CASE moves' = moves \ {m}
    BY <2>1, <2>2, <2>3, <1>12, MoveStages
  <2>4. CASE \E n : n.conn = m.conn /\ n.on = m.on /\ moves' = (moves \ {m}) \cup {n}
    <3>1. PICK n : n.conn = m.conn /\ n.on = m.on /\ moves' = (moves \ {m}) \cup {n}
      BY <2>4
    <3>2. m \notin dials
      BY DialIsNoMove
    <3> QED
      BY <2>1, <2>2, <3>1, <3>2
  <2> QED
    BY <2>3, <2>4, <1>12, MoveStages
<1>13. ASSUME NEW m \in moves, Main!MoveDone(m)  PROVE OneSpeaks'
  BY <1>13 DEF Main!MoveDone
<1>14. ASSUME NEW m \in moves, Main!MoveFails(m)  PROVE OneSpeaks'
  BY <1>14 DEF Main!MoveFails
<1>15. ASSUME NEW f \in Main!File, Main!WatchFile(f) \/ Main!UnwatchFile(f)  PROVE OneSpeaks'
  BY <1>15 DEF Main!WatchFile, Main!UnwatchFile, Main!NoFile
<1>16. CASE UNCHANGED Main!vars
  BY <1>16 DEF Main!vars
<1> QED
  BY <1>1, <1>2, <1>3, <1>4, <1>5, <1>6, <1>7, <1>8, <1>9, <1>10, <1>11, <1>12, <1>13, <1>14,
     <1>15, <1>16 DEF Main!Next, Conns

LEMMA ToldStep ==
  ASSUME AppAssumption, MainInv, [Main!Next]_(Main!vars)
  PROVE  Main!ToldOfNewest'
<1> USE MainNumbers DEF Conns, Clients, MainInv, MainTyped, Main!ToldOfNewest, OneSpeaks, StagesOfConn
<1>1. CASE Main!LocalConnect
  BY <1>1 DEF Main!LocalConnect, Main!Disconnected
<1>2. CASE Main!CloseWindow
  BY <1>2 DEF Main!CloseWindow, Main!Disconnected
<1>3. CASE Main!DaemonRestarts
  BY <1>3 DEF Main!DaemonRestarts
<1>4. ASSUME NEW d \in dials, Main!LocalConnected(d)  PROVE Main!ToldOfNewest'
  <2>1. d.at = "dialing" /\ d.conn = 0 /\ d.dials \in Clients
    BY <1>4, DialStages
  <2>2. PICK c \in Conns :
          /\ connection[c] = "none"
          /\ connection' = [connection EXCEPT ![c] = "Connected"]
          /\ client' = [client EXCEPT ![c] = d.dials] /\ home' = c
          /\ watch' = [watch EXCEPT ![c] = d.dials]
          /\ dials' = (dials \ {d}) \cup {[at |-> "initial", conn |-> c, dials |-> d.dials]}
    BY <1>4, DialStages
  <2>3. UNCHANGED <<mainWindow, retry, moves, told, files, overtaken, raced>>
    BY <1>4 DEF Main!LocalConnected
  <2> SUFFICES ASSUME NEW x \in Conns, x \notin raced, connection'[x] = "Connected",
                      \A m \in moves \cup dials' : m.conn # x
               PROVE  told[x] = watch'[x]
    BY <2>3
  <2> DEFINE e == [at |-> "initial", conn |-> c, dials |-> d.dials]
  <2>4. e \in dials' /\ e.conn = c
    BY <2>2
  <2>5. x # c
    BY <2>4
  <2>6. x # c /\ connection[x] = "Connected" /\ watch'[x] = watch[x]
    BY <2>2, <2>5
  <2>7. \A m \in moves \cup dials : m.conn # x
    BY <2>1, <2>2
  <2> QED
    BY <2>6, <2>7
<1>5. ASSUME NEW d \in dials, Main!InitialSession(d)  PROVE Main!ToldOfNewest'
  <2>1. PICK e : /\ d.at # "dialing" /\ e.at = "session" /\ e.conn = d.conn
                 /\ d.conn \in Conns /\ dials' = (dials \ {d}) \cup {e}
    BY <1>5, DialStages
  <2>2. UNCHANGED <<mainWindow, home, connection, client, retry, watch, moves, told, files,
                    overtaken, raced>>
    BY <1>5 DEF Main!InitialSession
  <2> QED
    BY <2>1, <2>2
<1>6. ASSUME NEW d \in dials, Main!LocalConnectAnswers(d)  PROVE Main!ToldOfNewest'
  BY <1>6 DEF Main!LocalConnectAnswers
<1>7. ASSUME NEW d \in dials, Main!LocalConnectFails(d)  PROVE Main!ToldOfNewest'
  BY <1>7 DEF Main!LocalConnectFails
<1>8. ASSUME NEW c \in Conns, Main!DropNoticed(c)  PROVE Main!ToldOfNewest'
  BY <1>8 DEF Main!DropNoticed
<1>9. ASSUME NEW c \in Conns, Main!ReconnectLocal(c)  PROVE Main!ToldOfNewest'
  BY <1>9 DEF Main!ReconnectLocal
<1>10. ASSUME NEW c \in Conns, Main!Reconnected(c)  PROVE Main!ToldOfNewest'
  <2>1. UNCHANGED <<dials, told, raced>>
    BY <1>10 DEF Main!Reconnected
  <2>2. CASE connection[c] = "Reconnecting"
    <3>1. /\ connection' = [connection EXCEPT ![c] = "Connected"]
          /\ Main!SessionWatchMoved(c, retry[c])
      BY <1>10, <2>2 DEF Main!Reconnected
    <3>2. PICK n : n.conn = c /\ moves' = moves \cup {n} /\ watch' = [watch EXCEPT ![c] = retry[c]]
      BY <2>2, <3>1 DEF Main!SessionWatchMoved
    <3> QED
      BY <2>1, <3>1, <3>2
  <2>3. CASE connection[c] # "Reconnecting"
    <3>1. UNCHANGED <<connection, moves, watch>>
      BY <1>10, <2>3 DEF Main!Reconnected
    <3> QED
      BY <2>1, <3>1
  <2> QED
    BY <2>2, <2>3
<1>11. ASSUME NEW c \in Conns, Main!ReconnectFails(c)  PROVE Main!ToldOfNewest'
  BY <1>11 DEF Main!ReconnectFails
<1>12. ASSUME NEW m \in moves, Main!MoveInitial(m)  PROVE Main!ToldOfNewest'
  <2>1. m.conn \in Conns
    BY DEF Move
  <2>2. UNCHANGED <<mainWindow, home, dials, connection, client, retry, watch, told, files,
                    overtaken, raced>>
    BY <1>12 DEF Main!MoveInitial
  <2>3. CASE moves' = moves \ {m}
    BY <2>1, <2>2, <2>3, <1>12, MoveStages
  <2>4. CASE \E n : n.conn = m.conn /\ n.on = m.on /\ moves' = (moves \ {m}) \cup {n}
    BY <2>1, <2>2, <2>4
  <2> QED
    BY <2>3, <2>4, <1>12, MoveStages
<1>13. ASSUME NEW m \in moves, Main!MoveDone(m)  PROVE Main!ToldOfNewest'
  BY <1>13 DEF Main!MoveDone
<1>14. ASSUME NEW m \in moves, Main!MoveFails(m)  PROVE Main!ToldOfNewest'
  BY <1>14 DEF Main!MoveFails
<1>15. ASSUME NEW f \in Main!File, Main!WatchFile(f) \/ Main!UnwatchFile(f)  PROVE Main!ToldOfNewest'
  BY <1>15 DEF Main!WatchFile, Main!UnwatchFile, Main!NoFile
<1>16. CASE UNCHANGED Main!vars
  BY <1>16 DEF Main!vars
<1> QED
  BY <1>1, <1>2, <1>3, <1>4, <1>5, <1>6, <1>7, <1>8, <1>9, <1>10, <1>11, <1>12, <1>13, <1>14,
     <1>15, <1>16 DEF Main!Next, Conns

(* MCApp's MainFollows, for every number of connections, clients, file     *)
(* watches and faults: the watches follow the connection onto its new      *)
(* client, a connection that is not the window's own is not kept, and the  *)
(* window was told of the newest watch.                                    *)
THEOREM MainAlwaysFollows ==
  ASSUME AppAssumption
  PROVE  Main!Spec => []MainFollows
<1>1. Main!Init => MainInv
  BY MainInvInit
<1>2. MainInv /\ [Main!Next]_(Main!vars) => MainInv'
  BY MainTypedStep, StagesStep, OneDialsStep, OneSpeaksStep, ToldStep DEF MainInv
<1>3. MainInv => MainFollows
  BY DEF MainInv, StagesOfConn, MainFollows, Main!WatchesFollow, Conns
<1> QED
  BY <1>1, <1>2, <1>3, PTL DEF Main!Spec

-----------------------------------------------------------------------------
(* A terminal tab (TabTerminal): what its records hold, and what the       *)
(* updates of several fields at once make of them.                         *)

Creations == Tab!Creation
Effects == Tab!Effect

EffectInit ==
  [stage : {"none", "engine", "stream", "cached"}, cancelled : BOOLEAN, ref : Nat,
   pty : Creations \cup {0}, handler : BOOLEAN, ended : BOOLEAN]
AppRef ==
  [no : Nat, creating : Creations \cup {0}, state : Creations \cup {0},
   cached : Effects \cup {0}, refused : BOOLEAN]
View == [up : BOOLEAN, init : Effects \cup {0}, overlay : {"none", "error"}]
Promise ==
  [stage : {"none", "pending", "done", "failed"}, pty : Creations \cup {0}, kill : BOOLEAN]

TabTyped ==
  /\ tab \in [open : BOOLEAN, pty : Creations \cup {0}]
  /\ ref \in AppRef
  /\ memo \in Creations \cup {0}
  /\ creation \in [Creations -> Promise]
  /\ program \in [Creations -> {"none", "live", "over"}]
  /\ tabView \in View
  /\ init \in [Effects -> EffectInit]

LEMMA TabNumbers ==
  ASSUME AppAssumption
  PROVE  /\ Creations \subseteq Nat /\ 0 \notin Creations
         /\ Effects \subseteq Nat /\ 0 \notin Effects
BY DEF AppAssumption, Creations, Effects, Tab!Creation, Tab!Effect

(* Updates of two fields and more, and what they make of the records.      *)
LEMMA NewRef ==
  ASSUME NEW x \in AppRef, NEW n \in Nat, NEW c \in Creations \cup {0}
  PROVE  /\ [x EXCEPT !.no = n, !.state = c] =
              [no |-> n, creating |-> x.creating, state |-> c, cached |-> x.cached,
               refused |-> x.refused]
         /\ [x EXCEPT !.no = n, !.creating = c] =
              [no |-> n, creating |-> c, state |-> x.state, cached |-> x.cached,
               refused |-> x.refused]
<1> DEFINE e == [x EXCEPT !.no = n]
<1>1. e = [no |-> n, creating |-> x.creating, state |-> x.state, cached |-> x.cached,
           refused |-> x.refused]
  BY DEF AppRef
<1>2. e \in AppRef
  BY DEF AppRef
<1> HIDE DEF e
<1>3. [e EXCEPT !.state = c] = [no |-> e.no, creating |-> e.creating, state |-> c,
                                cached |-> e.cached, refused |-> e.refused]
  BY <1>2 DEF AppRef
<1>4. [e EXCEPT !.creating = c] = [no |-> e.no, creating |-> c, state |-> e.state,
                                   cached |-> e.cached, refused |-> e.refused]
  BY <1>2 DEF AppRef
<1> QED
  BY <1>1, <1>3, <1>4 DEF e

LEMMA NewInit ==
  ASSUME NEW x \in EffectInit, NEW n \in Nat, NEW c \in Creations \cup {0}
  PROVE  [x EXCEPT !.stage = "engine", !.ref = n, !.pty = c] =
           [stage |-> "engine", cancelled |-> x.cancelled, ref |-> n, pty |-> c,
            handler |-> x.handler, ended |-> x.ended]
<1> DEFINE e == [x EXCEPT !.stage = "engine"]
           g == [e EXCEPT !.ref = n]
<1>1. e \in EffectInit /\ e = [x EXCEPT !.stage = "engine"]
  BY DEF EffectInit
<1>2. e.stage = "engine" /\ e.cancelled = x.cancelled /\ e.handler = x.handler /\ e.ended = x.ended
  BY DEF EffectInit
<1> HIDE DEF e
<1>3. g \in EffectInit
  BY <1>1 DEF EffectInit
<1>4. g.stage = e.stage /\ g.cancelled = e.cancelled /\ g.ref = n /\ g.handler = e.handler /\ g.ended = e.ended
  BY <1>1 DEF EffectInit
<1> HIDE DEF g
<1>5. [g EXCEPT !.pty = c] = [stage |-> g.stage, cancelled |-> g.cancelled, ref |-> g.ref, pty |-> c,
                              handler |-> g.handler, ended |-> g.ended]
  BY <1>3 DEF EffectInit
<1> QED
  BY <1>2, <1>4, <1>5 DEF e, g

Same(x, y) == x.stage = y.stage /\ x.ref = y.ref /\ (x.ended <=> y.ended)

LEMMA HandledInit ==
  ASSUME NEW x \in EffectInit, NEW a \in BOOLEAN
  PROVE  /\ [x EXCEPT !.handler = @ \/ a] \in EffectInit
         /\ Same([x EXCEPT !.handler = @ \/ a], x)
         /\ [x EXCEPT !.handler = @ \/ a].cancelled <=> x.cancelled
         /\ [x EXCEPT !.handler = @ \/ a].handler <=> x.handler \/ a
BY DEF EffectInit, Same

LEMMA CleanedInit ==
  ASSUME NEW x \in EffectInit, NEW a \in BOOLEAN, NEW b \in BOOLEAN
  PROVE  /\ [x EXCEPT !.cancelled = @ \/ a, !.handler = @ /\ b] \in EffectInit
         /\ Same([x EXCEPT !.cancelled = @ \/ a, !.handler = @ /\ b], x)
         /\ [x EXCEPT !.cancelled = @ \/ a, !.handler = @ /\ b].cancelled <=> x.cancelled \/ a
         /\ [x EXCEPT !.cancelled = @ \/ a, !.handler = @ /\ b].handler <=> x.handler /\ b
<1> DEFINE e == [x EXCEPT !.cancelled = @ \/ a]
<1>1. e \in EffectInit /\ Same(e, x) /\ (e.cancelled <=> x.cancelled \/ a) /\ (e.handler <=> x.handler)
  BY DEF EffectInit, Same
<1> HIDE DEF e
<1>2. /\ [e EXCEPT !.handler = @ /\ b] \in EffectInit /\ Same([e EXCEPT !.handler = @ /\ b], e)
      /\ [e EXCEPT !.handler = @ /\ b].cancelled <=> e.cancelled
      /\ [e EXCEPT !.handler = @ /\ b].handler <=> e.handler /\ b
  BY <1>1 DEF EffectInit, Same
<1>3. Same([e EXCEPT !.handler = @ /\ b], x)
  BY <1>1, <1>2 DEF Same
<1> QED
  BY <1>1, <1>2, <1>3 DEF e

(* What becomes of the inits of the effects.                               *)
LEMMA CleanedUpSays ==
  ASSUME TabTyped
  PROVE  /\ Tab!CleanedUp(init) \in [Effects -> EffectInit]
         /\ \A j \in Effects :
              /\ Same(Tab!CleanedUp(init)[j], init[j])
              /\ Tab!CleanedUp(init)[j].cancelled <=> init[j].cancelled \/ j = tabView.init
              /\ Tab!CleanedUp(init)[j].handler <=> init[j].handler /\ j # ref.cached
<1>1. ASSUME NEW j \in Effects
      PROVE  /\ Tab!CleanedUp(init)[j] \in EffectInit
             /\ Same(Tab!CleanedUp(init)[j], init[j])
             /\ Tab!CleanedUp(init)[j].cancelled <=> init[j].cancelled \/ j = tabView.init
             /\ Tab!CleanedUp(init)[j].handler <=> init[j].handler /\ j # ref.cached
  <2> DEFINE x == init[j]
             a == j = tabView.init
             b == j # ref.cached
  <2>1. x \in EffectInit /\ a \in BOOLEAN /\ b \in BOOLEAN
    BY DEF TabTyped
  <2>2. Tab!CleanedUp(init)[j] = [x EXCEPT !.cancelled = @ \/ a, !.handler = @ /\ b]
    BY DEF Tab!CleanedUp, Effects
  <2> DEFINE e == [x EXCEPT !.cancelled = @ \/ a, !.handler = @ /\ b]
  <2> HIDE DEF x, a, b
  <2>3. /\ e \in EffectInit /\ Same(e, x) /\ (e.cancelled <=> x.cancelled \/ a)
        /\ e.handler <=> x.handler /\ b
    BY <2>1, CleanedInit
  <2>4. Tab!CleanedUp(init)[j] = e
    BY <2>2
  <2> HIDE DEF e
  <2>5. /\ Tab!CleanedUp(init)[j] \in EffectInit /\ Same(Tab!CleanedUp(init)[j], x)
        /\ Tab!CleanedUp(init)[j].cancelled <=> x.cancelled \/ a
        /\ Tab!CleanedUp(init)[j].handler <=> x.handler /\ b
    BY <2>3, <2>4
  <2> QED
    BY <2>5 DEF x, a, b
<1>2. Tab!CleanedUp(init) \in [Effects -> EffectInit]
  BY <1>1 DEF Tab!CleanedUp, Effects
<1> QED
  BY <1>1, <1>2

LEMMA NoInitTyped ==
  /\ Tab!NoInit \in EffectInit
  /\ Tab!NoInit.stage = "none" /\ ~Tab!NoInit.cancelled /\ ~Tab!NoInit.handler /\ ~Tab!NoInit.ended
BY DEF Tab!NoInit, EffectInit

LEMMA DisposedSays ==
  ASSUME NEW in \in [Effects -> EffectInit], NEW i
  PROVE  /\ Tab!Disposed(in, i) \in [Effects -> EffectInit]
         /\ \A j \in Effects : Tab!Disposed(in, i)[j] = IF j = i THEN Tab!NoInit ELSE in[j]
BY NoInitTyped DEF Tab!Disposed, Effects

LEMMA RunEffectSays ==
  ASSUME AppAssumption, TabTyped, NEW in \in [Effects -> EffectInit],
         NEW cached \in Effects \cup {0}, NEW overlay \in {"none", "error"},
         Tab!RunEffect(in, cached, overlay)
  PROVE  /\ init' \in [Effects -> EffectInit]
         /\ tabView' \in View /\ tabView'.up /\ tabView'.overlay = overlay
         /\ cached # 0 =>
              /\ tabView'.init = 0
              /\ \A j \in Effects :
                   /\ Same(init'[j], in[j]) /\ (init'[j].cancelled <=> in[j].cancelled)
                   /\ init'[j].handler <=> in[j].handler \/ j = cached
         /\ cached = 0 =>
              /\ tabView'.init \in Effects /\ in[tabView'.init].stage = "none"
              /\ init'[tabView'.init].stage = "engine" /\ init'[tabView'.init].ref = ref.no
              /\ ~init'[tabView'.init].cancelled /\ ~init'[tabView'.init].handler
              /\ ~init'[tabView'.init].ended
              /\ \A j \in Effects : j # tabView'.init => init'[j] = in[j]
<1>1. CASE cached # 0
  <2>1. /\ init' = [j \in Effects |-> [in[j] EXCEPT !.handler = @ \/ j = cached]]
        /\ tabView' = [up |-> TRUE, init |-> 0, overlay |-> overlay]
    BY <1>1 DEF Tab!RunEffect, Effects
  <2>2. ASSUME NEW j \in Effects
        PROVE  /\ init'[j] \in EffectInit /\ Same(init'[j], in[j])
               /\ init'[j].cancelled <=> in[j].cancelled
               /\ init'[j].handler <=> in[j].handler \/ j = cached
    <3> DEFINE x == in[j]
               a == j = cached
    <3>1. x \in EffectInit /\ a \in BOOLEAN
      OBVIOUS
    <3>2. init'[j] = [x EXCEPT !.handler = @ \/ a]
      BY <2>1
    <3> HIDE DEF x, a
    <3>3. /\ init'[j] \in EffectInit /\ Same(init'[j], x)
          /\ init'[j].cancelled <=> x.cancelled
          /\ init'[j].handler <=> x.handler \/ a
      BY <3>1, <3>2, HandledInit
    <3> QED
      BY <3>3 DEF x, a
  <2>4. init' \in [Effects -> EffectInit]
    BY <2>1, <2>2
  <2>5. tabView' \in View /\ tabView'.up /\ tabView'.overlay = overlay /\ tabView'.init = 0
    BY <2>1 DEF View
  <2> QED
    BY <1>1, <2>2, <2>4, <2>5
<1>2. CASE cached = 0
  <2>1. PICK i \in Effects :
          /\ in[i].stage = "none"
          /\ init' = [in EXCEPT ![i] = [Tab!NoInit EXCEPT !.stage = "engine", !.ref = ref.no,
                                                         !.pty = tab.pty]]
          /\ tabView' = [up |-> TRUE, init |-> i, overlay |-> overlay]
    BY <1>2 DEF Tab!RunEffect, Effects
  <2> DEFINE x == [stage |-> "engine", cancelled |-> Tab!NoInit.cancelled, ref |-> ref.no,
                   pty |-> tab.pty, handler |-> Tab!NoInit.handler, ended |-> Tab!NoInit.ended]
  <2>2. ref.no \in Nat /\ tab.pty \in Creations \cup {0}
    BY DEF TabTyped, AppRef
  <2>3. init' = [in EXCEPT ![i] = x]
    BY <2>1, <2>2, NewInit, NoInitTyped
  <2>4. /\ x \in EffectInit /\ x.stage = "engine" /\ x.ref = ref.no
        /\ ~x.cancelled /\ ~x.handler /\ ~x.ended
    BY <2>2, NoInitTyped DEF EffectInit
  <2>5. tabView' \in View /\ tabView'.up /\ tabView'.overlay = overlay /\ tabView'.init = i
    BY <2>1 DEF View
  <2> HIDE DEF x
  <2>6. init' \in [Effects -> EffectInit] /\ init'[i] = x /\ \A j \in Effects : j # i => init'[j] = in[j]
    BY <2>3, <2>4
  <2> QED
    BY <1>2, TabNumbers, <2>1, <2>4, <2>5, <2>6
<1> QED
  BY <1>1, <1>2

LEMMA InitEnds ==
  ASSUME NEW f \in [Effects -> EffectInit], NEW i \in Effects
  PROVE  /\ [f EXCEPT ![i].ended = TRUE] \in [Effects -> EffectInit]
         /\ \A j \in Effects : j # i => [f EXCEPT ![i].ended = TRUE][j] = f[j]
         /\ [f EXCEPT ![i].ended = TRUE][i].stage = f[i].stage
         /\ [f EXCEPT ![i].ended = TRUE][i].ref = f[i].ref
         /\ [f EXCEPT ![i].ended = TRUE][i].cancelled <=> f[i].cancelled
         /\ [f EXCEPT ![i].ended = TRUE][i].handler <=> f[i].handler
         /\ [f EXCEPT ![i].ended = TRUE][i].ended
<1> DEFINE x == f[i]
           e == [x EXCEPT !.ended = TRUE]
<1>1. /\ e \in EffectInit /\ e.stage = f[i].stage /\ e.ref = f[i].ref
      /\ e.cancelled <=> f[i].cancelled
      /\ e.handler <=> f[i].handler
      /\ e.ended
  BY DEF EffectInit
<1>2. [f EXCEPT ![i].ended = TRUE] = [f EXCEPT ![i] = e]
  OBVIOUS
<1> HIDE DEF e
<1> QED
  BY <1>1, <1>2

LEMMA InitStreams ==
  ASSUME NEW f \in [Effects -> EffectInit], NEW i \in Effects
  PROVE  /\ [f EXCEPT ![i].stage = "stream"] \in [Effects -> EffectInit]
         /\ \A j \in Effects : j # i => [f EXCEPT ![i].stage = "stream"][j] = f[j]
         /\ [f EXCEPT ![i].stage = "stream"][i].stage = "stream"
         /\ [f EXCEPT ![i].stage = "stream"][i].ref = f[i].ref
         /\ [f EXCEPT ![i].stage = "stream"][i].cancelled <=> f[i].cancelled
         /\ [f EXCEPT ![i].stage = "stream"][i].handler <=> f[i].handler
         /\ [f EXCEPT ![i].stage = "stream"][i].ended <=> f[i].ended
<1> DEFINE x == f[i]
           e == [x EXCEPT !.stage = "stream"]
<1>1. /\ e \in EffectInit /\ e.stage = "stream" /\ e.ref = f[i].ref
      /\ e.cancelled <=> f[i].cancelled
      /\ e.handler <=> f[i].handler
      /\ e.ended <=> f[i].ended
  BY DEF EffectInit
<1>2. [f EXCEPT ![i].stage = "stream"] = [f EXCEPT ![i] = e]
  OBVIOUS
<1> HIDE DEF e
<1> QED
  BY <1>1, <1>2

LEMMA InitKept ==
  ASSUME NEW f \in [Effects -> EffectInit], NEW i \in Effects
  PROVE  /\ [f EXCEPT ![i].stage = "cached", ![i].handler = TRUE] \in [Effects -> EffectInit]
         /\ \A j \in Effects :
              j # i => [f EXCEPT ![i].stage = "cached", ![i].handler = TRUE][j] = f[j]
         /\ [f EXCEPT ![i].stage = "cached", ![i].handler = TRUE][i].stage = "cached"
         /\ [f EXCEPT ![i].stage = "cached", ![i].handler = TRUE][i].handler
         /\ [f EXCEPT ![i].stage = "cached", ![i].handler = TRUE][i].ended <=> f[i].ended
<1> DEFINE x == f[i]
           e == [x EXCEPT !.stage = "cached"]
           g == [f EXCEPT ![i] = e]
           y == [e EXCEPT !.handler = TRUE]
<1>1. e \in EffectInit /\ e.stage = "cached" /\ (e.ended <=> f[i].ended)
  BY DEF EffectInit
<1>2. [f EXCEPT ![i].stage = "cached"] = g
  OBVIOUS
<1> HIDE DEF e
<1>3. y \in EffectInit /\ y.stage = "cached" /\ y.handler /\ (y.ended <=> f[i].ended)
  BY <1>1 DEF EffectInit
<1>4. g \in [Effects -> EffectInit] /\ g[i] = e /\ \A j \in Effects : j # i => g[j] = f[j]
  BY <1>1
<1> HIDE DEF g
<1>5. [g EXCEPT ![i].handler = TRUE] = [g EXCEPT ![i] = y]
  BY <1>4
<1>6. [f EXCEPT ![i].stage = "cached", ![i].handler = TRUE] = [g EXCEPT ![i].handler = TRUE]
  BY <1>2
<1> HIDE DEF y
<1> QED
  BY <1>3, <1>4, <1>5, <1>6

LEMMA CreationDone ==
  ASSUME NEW f \in [Creations -> Promise], NEW c \in Creations, NEW p \in Creations
  PROVE  /\ [f EXCEPT ![c].stage = "done", ![c].pty = p] \in [Creations -> Promise]
         /\ \A d \in Creations : d # c => [f EXCEPT ![c].stage = "done", ![c].pty = p][d] = f[d]
         /\ [f EXCEPT ![c].stage = "done", ![c].pty = p][c].stage = "done"
         /\ [f EXCEPT ![c].stage = "done", ![c].pty = p][c].pty = p
<1> DEFINE x == f[c]
           e == [x EXCEPT !.stage = "done"]
           g == [f EXCEPT ![c] = e]
           y == [e EXCEPT !.pty = p]
<1>1. e \in Promise /\ e.stage = "done"
  BY DEF Promise
<1>2. [f EXCEPT ![c].stage = "done"] = g
  OBVIOUS
<1> HIDE DEF e
<1>3. y \in Promise /\ y.stage = "done" /\ y.pty = p
  BY <1>1 DEF Promise
<1>4. g \in [Creations -> Promise] /\ g[c] = e /\ \A d \in Creations : d # c => g[d] = f[d]
  BY <1>1
<1> HIDE DEF g
<1>5. [g EXCEPT ![c].pty = p] = [g EXCEPT ![c] = y]
  BY <1>4
<1>6. [f EXCEPT ![c].stage = "done", ![c].pty = p] = [g EXCEPT ![c].pty = p]
  BY <1>2
<1> HIDE DEF y
<1> QED
  BY <1>3, <1>4, <1>5, <1>6

LEMMA ErrorView ==
  ASSUME NEW x \in View
  PROVE  /\ [x EXCEPT !.init = 0, !.overlay = "error"] \in View
         /\ [x EXCEPT !.init = 0, !.overlay = "error"].up <=> x.up
         /\ [x EXCEPT !.init = 0, !.overlay = "error"].init = 0
         /\ [x EXCEPT !.init = 0, !.overlay = "error"].overlay = "error"
<1> DEFINE e == [x EXCEPT !.init = 0]
<1>1. e \in View /\ (e.up <=> x.up) /\ e.init = 0
  BY DEF View
<1> HIDE DEF e
<1>2. /\ [e EXCEPT !.overlay = "error"] \in View
      /\ [e EXCEPT !.overlay = "error"].up <=> x.up
      /\ [e EXCEPT !.overlay = "error"].init = 0
      /\ [e EXCEPT !.overlay = "error"].overlay = "error"
  BY <1>1 DEF View
<1> QED
  BY <1>2 DEF e

(* onWorkspaceLoad makes a new ref, for a PTY or for a promise.            *)
LEMMA LoadSays ==
  ASSUME AppAssumption, TabTyped, NEW pty \in Creations \cup {0}, Tab!Load(pty)
  PROVE  /\ ref' \in AppRef /\ ref'.no = ref.no + 1 /\ ref'.cached = 0 /\ ~ref'.refused
         /\ tab' \in [open : BOOLEAN, pty : Creations \cup {0}] /\ tab'.open
         /\ pty # 0 => /\ ref'.creating = 0 /\ ref'.state = pty /\ tab'.pty = pty
                       /\ UNCHANGED <<memo, creation>>
         /\ pty = 0 => /\ memo' \in Creations /\ ref'.creating = memo' /\ ref'.state = 0
                       /\ tab'.pty = creation[memo'].pty
                       /\ memo # 0 => memo' = memo
                       /\ memo = 0 => creation[memo'].stage = "none"
                       /\ creation' \in [Creations -> Promise]
                       /\ \A c \in Creations : c # memo' => creation'[c] = creation[c]
                       /\ creation'[memo'].pty = creation[memo'].pty
                       /\ creation'[memo'].kill <=> creation[memo'].kill
                       /\ creation'[memo'].stage = IF creation[memo'].stage = "none" THEN "pending"
                                                   ELSE creation[memo'].stage
<1>1. /\ Tab!NoRef \in AppRef /\ Tab!NoRef.creating = 0 /\ Tab!NoRef.state = 0
      /\ Tab!NoRef.cached = 0 /\ ~Tab!NoRef.refused
  BY DEF Tab!NoRef, AppRef
<1>2. ref.no + 1 \in Nat
  BY DEF TabTyped, AppRef
<1>3. CASE pty # 0
  <2>1. /\ ref' = [Tab!NoRef EXCEPT !.no = ref.no + 1, !.state = pty]
        /\ tab' = [open |-> TRUE, pty |-> pty] /\ UNCHANGED <<memo, creation>>
    BY <1>3 DEF Tab!Load
  <2>2. ref' = [no |-> ref.no + 1, creating |-> Tab!NoRef.creating, state |-> pty,
                cached |-> Tab!NoRef.cached, refused |-> Tab!NoRef.refused]
    BY <1>1, <1>2, <2>1, NewRef
  <2>3. ref' \in AppRef /\ ref'.no = ref.no + 1 /\ ref'.cached = 0 /\ ~ref'.refused
        /\ ref'.creating = 0 /\ ref'.state = pty
    BY <1>1, <1>2, <2>2 DEF AppRef
  <2>4. tab' \in [open : BOOLEAN, pty : Creations \cup {0}] /\ tab'.open /\ tab'.pty = pty
    BY <2>1
  <2> QED
    BY <1>3, <2>1, <2>3, <2>4
<1>4. CASE pty = 0
  <2>1. PICK c \in Creations :
          /\ Tab!EnsureTty(c) /\ memo' = c
          /\ creation' = [creation EXCEPT ![c].stage = IF @ = "none" THEN "pending" ELSE @]
          /\ ref' = [Tab!NoRef EXCEPT !.no = ref.no + 1, !.creating = c]
          /\ tab' = [open |-> TRUE, pty |-> creation[c].pty]
    BY <1>4 DEF Tab!Load, Creations
  <2>2. ref' = [no |-> ref.no + 1, creating |-> c, state |-> Tab!NoRef.state,
                cached |-> Tab!NoRef.cached, refused |-> Tab!NoRef.refused]
    BY <1>1, <1>2, <2>1, NewRef
  <2>3. ref' \in AppRef /\ ref'.no = ref.no + 1 /\ ref'.cached = 0 /\ ~ref'.refused
        /\ ref'.creating = c /\ ref'.state = 0
    BY <1>1, <1>2, <2>2 DEF AppRef
  <2>4. creation[c].pty \in Creations \cup {0} /\ creation[c] \in Promise
    BY DEF TabTyped, Promise
  <2>5. tab' \in [open : BOOLEAN, pty : Creations \cup {0}] /\ tab'.open
        /\ tab'.pty = creation[c].pty
    BY <2>1, <2>4
  <2>6. /\ creation' \in [Creations -> Promise]
        /\ \A d \in Creations : d # c => creation'[d] = creation[d]
        /\ creation'[c].pty = creation[c].pty /\ (creation'[c].kill <=> creation[c].kill)
        /\ creation'[c].stage = IF creation[c].stage = "none" THEN "pending" ELSE creation[c].stage
    BY <2>1, <2>4 DEF TabTyped, Promise
  <2>7. (memo # 0 => c = memo) /\ (memo = 0 => creation[c].stage = "none")
    BY <2>1 DEF Tab!EnsureTty
  <2> QED
    BY <1>4, <2>1, <2>3, <2>5, <2>6, <2>7
<1> QED
  BY <1>3, <1>4

(* What becomes of a tab that goes, and of its PTY when it is closed.      *)
LEMMA CancelledInit ==
  ASSUME NEW x \in EffectInit, NEW a \in BOOLEAN
  PROVE  /\ [x EXCEPT !.cancelled = @ \/ a] \in EffectInit
         /\ Same([x EXCEPT !.cancelled = @ \/ a], x)
         /\ [x EXCEPT !.cancelled = @ \/ a].cancelled <=> x.cancelled \/ a
         /\ [x EXCEPT !.cancelled = @ \/ a].handler <=> x.handler
BY DEF EffectInit, Same

LEMMA TabGoesSays ==
  ASSUME TabTyped, NEW in \in [Effects -> EffectInit], Tab!TabGoes(in)
  PROVE  /\ tab' \in [open : BOOLEAN, pty : Creations \cup {0}] /\ ~tab'.open /\ tab'.pty = 0
         /\ ref' \in AppRef /\ ref'.cached = 0 /\ ref'.no = ref.no
         /\ tabView' \in View /\ ~tabView'.up /\ tabView'.init = 0
         /\ init' \in [Effects -> EffectInit]
         /\ \A j \in Effects :
              /\ j = ref.cached => init'[j] = Tab!NoInit
              /\ j # ref.cached =>
                   /\ Same(init'[j], in[j]) /\ (init'[j].handler <=> in[j].handler)
                   /\ init'[j].cancelled <=> in[j].cancelled \/ j = tabView.init
<1> DEFINE f == [i \in Tab!Effect |-> [in[i] EXCEPT !.cancelled = @ \/ i = tabView.init]]
<1>1. /\ tab' = [open |-> FALSE, pty |-> 0] /\ ref' = [ref EXCEPT !.cached = 0]
      /\ tabView' = [up |-> FALSE, init |-> 0, overlay |-> "none"]
      /\ init' = Tab!Disposed(f, ref.cached)
  BY DEF Tab!TabGoes, Tab!NoTab, Tab!NoView
<1>2. ASSUME NEW j \in Effects
      PROVE  /\ f[j] \in EffectInit /\ Same(f[j], in[j]) /\ (f[j].handler <=> in[j].handler)
             /\ f[j].cancelled <=> in[j].cancelled \/ j = tabView.init
  <2> DEFINE x == in[j]
             a == j = tabView.init
             e == [x EXCEPT !.cancelled = @ \/ a]
  <2>1. x \in EffectInit /\ a \in BOOLEAN
    OBVIOUS
  <2>2. f[j] = e
    BY DEF Effects
  <2> HIDE DEF f, x, a
  <2>3. /\ e \in EffectInit /\ Same(e, x) /\ (e.cancelled <=> x.cancelled \/ a)
        /\ e.handler <=> x.handler
    BY <2>1, CancelledInit
  <2> HIDE DEF e
  <2>4. /\ f[j] \in EffectInit /\ Same(f[j], x) /\ (f[j].cancelled <=> x.cancelled \/ a)
        /\ f[j].handler <=> x.handler
    BY <2>2, <2>3
  <2> QED
    BY <2>4 DEF x, a
<1>3. f \in [Effects -> EffectInit]
  BY <1>2 DEF Effects
<1> HIDE DEF f
<1>4. init' \in [Effects -> EffectInit]
      /\ \A j \in Effects : init'[j] = IF j = ref.cached THEN Tab!NoInit ELSE f[j]
  BY <1>1, <1>3, DisposedSays
<1>5. tab' \in [open : BOOLEAN, pty : Creations \cup {0}] /\ ~tab'.open /\ tab'.pty = 0
  BY <1>1
<1>6. ref' \in AppRef /\ ref'.cached = 0 /\ ref'.no = ref.no
  BY <1>1 DEF TabTyped, AppRef
<1>7. tabView' \in View /\ ~tabView'.up /\ tabView'.init = 0
  BY <1>1 DEF View
<1> QED
  BY <1>2, <1>4, <1>5, <1>6, <1>7

Shown == IF tab.pty # 0 THEN tab.pty ELSE ref.state
Known == IF Shown # 0 THEN Shown
         ELSE IF ref.creating # 0 THEN creation[ref.creating].pty ELSE 0

LEMMA CloseSays ==
  ASSUME TabTyped, Tab!Close
  PROVE  /\ Known \in Creations \cup {0}
         /\ Known # 0 => program' = [program EXCEPT ![Known] = "over"] /\ creation' = creation
         /\ Known = 0 => program' = program
         /\ creation' \in [Creations -> Promise]
         /\ \A c \in Creations :
              /\ creation'[c].stage = creation[c].stage /\ creation'[c].pty = creation[c].pty
              /\ Known = 0 =>
                   (creation'[c].kill <=> creation[c].kill
                                            \/ (c = ref.creating /\ creation[c].stage = "pending"))
<1>1. Known \in Creations \cup {0}
  BY DEF Known, Shown, TabTyped, AppRef, Promise
<1>2. CASE Known # 0
  BY <1>1, <1>2 DEF Tab!Close, Tab!Killed, Known, Shown, TabTyped
<1>3. CASE Known = 0
  <2>1. /\ creation' = [c \in Creations |-> [creation[c] EXCEPT
                          !.kill = @ \/ (c = ref.creating /\ creation[c].stage = "pending")]]
        /\ program' = program
    BY <1>3 DEF Tab!Close, Known, Shown, Creations
  <2>2. ASSUME NEW c \in Creations
        PROVE  /\ creation'[c] \in Promise
               /\ creation'[c].stage = creation[c].stage /\ creation'[c].pty = creation[c].pty
               /\ creation'[c].kill <=> creation[c].kill
                                          \/ (c = ref.creating /\ creation[c].stage = "pending")
    <3> DEFINE x == creation[c]
               a == c = ref.creating /\ creation[c].stage = "pending"
               e == [x EXCEPT !.kill = @ \/ a]
    <3>1. x \in Promise /\ a \in BOOLEAN
      BY DEF TabTyped
    <3>2. creation'[c] = e
      BY <2>1
    <3> HIDE DEF x, a
    <3>3. e \in Promise /\ e.stage = x.stage /\ e.pty = x.pty /\ (e.kill <=> x.kill \/ a)
      BY <3>1 DEF Promise
    <3> HIDE DEF e
    <3>4. /\ creation'[c] \in Promise /\ creation'[c].stage = x.stage /\ creation'[c].pty = x.pty
          /\ creation'[c].kill <=> x.kill \/ a
      BY <3>2, <3>3
    <3> QED
      BY <3>4 DEF x, a
  <2>3. creation' \in [Creations -> Promise]
    BY <2>1, <2>2
  <2> QED
    BY <1>1, <1>3, <2>1, <2>2, <2>3
<1> QED
  BY <1>2, <1>3

(* The engines with their streams: who owns them, who may hear of the end  *)
(* of one, and what the view shows.                                        *)
OwnedStreams ==
  /\ tabView.init # 0 =>
       /\ tabView.up /\ ref.cached = 0
       /\ init[tabView.init].stage \in {"engine", "stream"}
       /\ ~init[tabView.init].cancelled /\ init[tabView.init].ref = ref.no
  /\ ref.cached # 0 => tab.open /\ init[ref.cached].stage = "cached"
  /\ tabView.up => tab.open
  /\ \A i \in Effects :
       /\ init[i].stage # "cached" => ~init[i].handler
       /\ init[i].stage \in {"none", "engine"} => ~init[i].ended
       /\ init[i].stage = "stream" /\ init[i].ended => init[i].cancelled \/ missed
       /\ init[i].stage \in {"engine", "stream"} => init[i].cancelled \/ tabView.init = i
       /\ init[i].stage = "cached" => tab.open /\ ref.cached = i

(* The programs and who knows of them.  Only the newest may be alive; an   *)
(* open tab or a ref does not name one that never was.                     *)
KnownPrograms ==
  /\ \A p, q \in Creations : q < p /\ program[p] # "none" => program[q] = "over"
  /\ \A c \in Creations : /\ creation[c].stage = "done" <=> creation[c].pty # 0
                          /\ creation[c].pty # 0 => program[creation[c].pty] # "none"
  /\ memo # 0 => creation[memo].stage \in {"pending", "done"}
  /\ tab.pty # 0 => program[tab.pty] # "none"
  /\ ref.state # 0 => program[ref.state] # "none"
  /\ tab.open \/ closed => ref.no # 0
  /\ closed => ~tab.open
  /\ ref.no = 0 => \A c \in Creations : creation[c].stage = "none" /\ program[c] = "none"

(* Unless it strayed: a live program is the one of the handle's promise,   *)
(* which the open tab knows or will know, and a promise that is left       *)
(* behind kills its own.                                                   *)
NoneForgotten ==
  ~strayed =>
    /\ \A p \in Creations : program[p] = "live" =>
         /\ memo # 0 /\ creation[memo].pty = p
         /\ tab.open => /\ tab.pty \in {0, p}
                        /\ \/ ref.state = p
                           \/ ref.state = 0 /\ ref.creating # 0 /\ creation[ref.creating].pty = p
    /\ \A c \in Creations : creation[c].stage = "pending" =>
         /\ c = memo \/ (creation[c].kill /\ memo = 0)
         /\ tab.open => c = memo /\ c = ref.creating /\ tab.pty = 0 /\ ref.state = 0
    /\ closed => memo = 0

(* A tab without a PTY waits for its promise.                              *)
PtyComes ==
  tab.open /\ ~reset /\ ~ref.refused /\ tab.pty = 0
    => ref.creating # 0 /\ creation[ref.creating].stage = "pending"

TabInv ==
  TabTyped /\ OwnedStreams /\ Tab!ViewTellsTheEnd /\ KnownPrograms /\ NoneForgotten /\ PtyComes

LEMMA TabInvInit ==
  ASSUME AppAssumption, Tab!Init
  PROVE  TabInv
<1> USE TabNumbers, NoInitTyped DEF Tab!Init, Tab!NoTab, Tab!NoRef, Tab!NoView
<1>1. TabTyped
  BY DEF TabTyped, AppRef, View, Promise, Creations, Effects
<1>2. OwnedStreams /\ Tab!ViewTellsTheEnd
  BY DEF OwnedStreams, Tab!ViewTellsTheEnd, Effects
<1>3. KnownPrograms /\ NoneForgotten /\ PtyComes
  BY DEF KnownPrograms, NoneForgotten, PtyComes, Creations
<1> QED
  BY <1>1, <1>2, <1>3 DEF TabInv

LEMMA CreationFailed ==
  ASSUME NEW f \in [Creations -> Promise], NEW c \in Creations
  PROVE  /\ [f EXCEPT ![c].stage = "failed"] \in [Creations -> Promise]
         /\ \A d \in Creations : d # c => [f EXCEPT ![c].stage = "failed"][d] = f[d]
         /\ [f EXCEPT ![c].stage = "failed"][c].stage = "failed"
         /\ [f EXCEPT ![c].stage = "failed"][c].pty = f[c].pty
<1> DEFINE x == f[c]
           e == [x EXCEPT !.stage = "failed"]
<1>1. e \in Promise /\ e.stage = "failed" /\ e.pty = f[c].pty
  BY DEF Promise
<1>2. [f EXCEPT ![c].stage = "failed"] = [f EXCEPT ![c] = e]
  OBVIOUS
<1> HIDE DEF e
<1> QED
  BY <1>1, <1>2

LEMMA RemoveTabTyped ==
  ASSUME TabTyped, NEW in \in [Effects -> EffectInit], Tab!RemoveTab(in)
  PROVE  TabTyped'
<1>1. Tab!Close /\ Tab!TabGoes(in) /\ memo' = 0
  BY DEF Tab!RemoveTab
<1>2. program' \in [Creations -> {"none", "live", "over"}] /\ creation' \in [Creations -> Promise]
  BY <1>1, CloseSays DEF TabTyped
<1>3. tab' \in [open : BOOLEAN, pty : Creations \cup {0}] /\ ref' \in AppRef /\ tabView' \in View
      /\ init' \in [Effects -> EffectInit]
  BY <1>1, TabGoesSays
<1> QED
  BY <1>1, <1>2, <1>3 DEF TabTyped

LEMMA TabTypedStep ==
  ASSUME AppAssumption, TabTyped, [Tab!Next]_(Tab!vars)
  PROVE  TabTyped'
<1> USE TabNumbers
<1>1. CASE Tab!AddTab
  <2>1. Tab!Load(0) /\ UNCHANGED <<program, tabView, init>>
    BY <1>1 DEF Tab!AddTab
  <2> QED
    BY <2>1, LoadSays DEF TabTyped
<1>2. CASE Tab!Mount
  <2>1. Tab!RunEffect(init, ref.cached, "none") /\ UNCHANGED <<tab, ref, memo, creation, program>>
    BY <1>2 DEF Tab!Mount
  <2>2. init \in [Effects -> EffectInit] /\ ref.cached \in Effects \cup {0}
    BY DEF TabTyped, AppRef
  <2>3. init' \in [Effects -> EffectInit] /\ tabView' \in View
    BY <2>1, <2>2, RunEffectSays
  <2> QED
    BY <2>1, <2>3 DEF TabTyped
<1>3. CASE Tab!Unmount
  <2>1. /\ init' = Tab!CleanedUp(init) /\ tabView' = [up |-> FALSE, init |-> 0, overlay |-> "none"]
        /\ UNCHANGED <<tab, ref, memo, creation, program>>
    BY <1>3 DEF Tab!Unmount, Tab!NoView
  <2> QED
    BY <2>1, CleanedUpSays DEF TabTyped, View
<1>4. CASE Tab!SettingsChange
  <2>1. /\ Tab!RunEffect(Tab!CleanedUp(init), ref.cached, tabView.overlay)
        /\ UNCHANGED <<tab, ref, memo, creation, program>>
    BY <1>4 DEF Tab!SettingsChange
  <2>2. /\ Tab!CleanedUp(init) \in [Effects -> EffectInit] /\ ref.cached \in Effects \cup {0}
        /\ tabView.overlay \in {"none", "error"}
    BY CleanedUpSays DEF TabTyped, AppRef, View
  <2>3. init' \in [Effects -> EffectInit] /\ tabView' \in View
    BY <2>1, <2>2, RunEffectSays
  <2> QED
    BY <2>1, <2>3 DEF TabTyped
<1>5. CASE Tab!RefreshStream
  <2>1. /\ Tab!RunEffect(Tab!Disposed(Tab!CleanedUp(init), ref.cached), 0, "none")
        /\ ref' = [ref EXCEPT !.cached = 0] /\ UNCHANGED <<tab, memo, creation, program>>
    BY <1>5 DEF Tab!RefreshStream
  <2>2. Tab!Disposed(Tab!CleanedUp(init), ref.cached) \in [Effects -> EffectInit]
    BY CleanedUpSays, DisposedSays
  <2>3. init' \in [Effects -> EffectInit] /\ tabView' \in View
    BY <2>1, <2>2, RunEffectSays
  <2>4. ref' \in AppRef
    BY <2>1 DEF TabTyped, AppRef
  <2> QED
    BY <2>1, <2>3, <2>4 DEF TabTyped
<1>6. CASE Tab!CloseTab
  BY <1>6, RemoveTabTyped DEF Tab!CloseTab, TabTyped
<1>7. CASE Tab!DroppedElsewhere
  <2>1. /\ Tab!TabGoes(init) /\ UNCHANGED <<memo, creation>>
        /\ program' \in {program, IF tab.pty = 0 THEN program ELSE Tab!Killed(tab.pty)}
    BY <1>7 DEF Tab!DroppedElsewhere
  <2>2. init \in [Effects -> EffectInit]
    BY DEF TabTyped
  <2>3. program' \in [Creations -> {"none", "live", "over"}]
    BY <2>1 DEF TabTyped, Tab!Killed
  <2> QED
    BY <2>1, <2>2, <2>3, TabGoesSays DEF TabTyped
<1>8. CASE Tab!RestoredElsewhere
  <2>1. PICK pty \in {0} \cup Tab!Newest : Tab!Load(pty)
    BY <1>8 DEF Tab!RestoredElsewhere
  <2>2. pty \in Creations \cup {0}
    BY DEF Tab!Newest, Creations
  <2>3. UNCHANGED <<program, tabView, init>>
    BY <1>8 DEF Tab!RestoredElsewhere
  <2>4. pty = 0 \/ UNCHANGED <<memo, creation>>
    BY <2>1, <2>2, LoadSays
  <2> QED
    BY <2>1, <2>2, <2>3, <2>4, LoadSays DEF TabTyped
<1>9. CASE Tab!StaleBody
  <2>1. /\ tab' = [tab EXCEPT !.pty = 0] /\ init' = Tab!CleanedUp(init)
        /\ tabView' = [up |-> FALSE, init |-> 0, overlay |-> "none"]
        /\ UNCHANGED <<ref, memo, creation, program>>
    BY <1>9 DEF Tab!StaleBody, Tab!NoView
  <2> QED
    BY <2>1, CleanedUpSays DEF TabTyped, View
<1>10. ASSUME NEW c \in Creations, Tab!CreationResolves(c)  PROVE TabTyped'
  <2>1. PICK p \in Creations :
          /\ creation' = [creation EXCEPT ![c].stage = "done", ![c].pty = p]
          /\ program' = [program EXCEPT ![p] = IF creation[c].kill THEN "over" ELSE "live"]
          /\ tab' = IF tab.open /\ (kind = "terminal" \/ ref.creating = c)
                      THEN [tab EXCEPT !.pty = p] ELSE tab
    BY <1>10 DEF Tab!CreationResolves, Creations
  <2>2. UNCHANGED <<ref, memo, tabView, init>>
    BY <1>10 DEF Tab!CreationResolves
  <2>3. creation \in [Creations -> Promise]
    BY DEF TabTyped
  <2>4. creation' \in [Creations -> Promise]
    BY <2>1, <2>3, CreationDone
  <2>5. program' \in [Creations -> {"none", "live", "over"}]
    BY <2>1 DEF TabTyped
  <2>6. tab' \in [open : BOOLEAN, pty : Creations \cup {0}]
    BY <2>1 DEF TabTyped
  <2> QED
    BY <2>2, <2>4, <2>5, <2>6 DEF TabTyped
<1>11. ASSUME NEW c \in Creations, Tab!CreationFails(c)  PROVE TabTyped'
  <2>1. /\ creation' = [creation EXCEPT ![c].stage = "failed"] /\ memo' \in {0, memo}
        /\ ref' = [ref EXCEPT !.refused = @ \/ ref.creating = c] /\ UNCHANGED <<tab, tabView, init>>
    BY <1>11 DEF Tab!CreationFails, Tab!Refused
  <2>2. program' = program \/ \E p \in Creations : program' = [program EXCEPT ![p] = "live"]
    BY <1>11 DEF Tab!CreationFails, Tab!Refused, Creations
  <2>3. creation' \in [Creations -> Promise]
    BY <2>1, CreationFailed DEF TabTyped
  <2>4. ref' \in AppRef
    BY <2>1 DEF TabTyped, AppRef
  <2>5. program' \in [Creations -> {"none", "live", "over"}]
    BY <2>2 DEF TabTyped
  <2> QED
    BY <2>1, <2>3, <2>4, <2>5 DEF TabTyped
<1>12. ASSUME NEW c \in Creations, Tab!ProgramExits(c)  PROVE TabTyped'
  BY <1>12 DEF Tab!ProgramExits, Tab!Killed, TabTyped
<1>13. ASSUME NEW i \in Effects, Tab!EngineCreated(i)  PROVE TabTyped'
  <2>1. init' \in {Tab!Disposed(init, i), [init EXCEPT ![i].stage = "stream"]}
    BY <1>13 DEF Tab!EngineCreated
  <2>2. UNCHANGED <<tab, ref, memo, creation, program, tabView>>
    BY <1>13 DEF Tab!EngineCreated
  <2>3. init \in [Effects -> EffectInit]
    BY DEF TabTyped
  <2> QED
    BY <2>1, <2>2, <2>3, DisposedSays, InitStreams DEF TabTyped
<1>14. ASSUME NEW i \in Effects, Tab!Attached(i)  PROVE TabTyped'
  <2>1. UNCHANGED <<tab, memo, creation, program>>
    BY <1>14 DEF Tab!Attached
  <2>2. init \in [Effects -> EffectInit]
    BY DEF TabTyped
  <2>3. CASE init[i].cancelled
    <3>1. init' = Tab!Disposed(init, i) /\ UNCHANGED <<ref, tabView>>
      BY <1>14, <2>3 DEF Tab!Attached
    <3> QED
      BY <2>1, <2>2, <3>1, DisposedSays DEF TabTyped
  <2>4. CASE ~init[i].cancelled
    <3>1. /\ init' = [init EXCEPT ![i].stage = "cached", ![i].handler = TRUE]
          /\ ref' = (IF init[i].ref = ref.no THEN [ref EXCEPT !.cached = i] ELSE ref)
          /\ tabView' = [tabView EXCEPT !.init = 0]
      BY <1>14, <2>4 DEF Tab!Attached
    <3>2. init' \in [Effects -> EffectInit]
      BY <2>2, <3>1, InitKept
    <3>3. ref' \in AppRef /\ tabView' \in View
      BY <3>1 DEF TabTyped, AppRef, View
    <3> QED
      BY <2>1, <3>2, <3>3 DEF TabTyped
  <2> QED
    BY <2>3, <2>4
<1>15. ASSUME NEW i \in Effects, Tab!AttachFails(i)  PROVE TabTyped'
  <2>1. /\ init' = Tab!Disposed(init, i)
        /\ tabView' \in {tabView, [tabView EXCEPT !.init = 0, !.overlay = "error"]}
        /\ UNCHANGED <<tab, ref, memo, creation, program>>
    BY <1>15 DEF Tab!AttachFails
  <2>2. init \in [Effects -> EffectInit] /\ tabView \in View
    BY DEF TabTyped
  <2>3. init' \in [Effects -> EffectInit]
    BY <2>1, <2>2, DisposedSays
  <2>4. [tabView EXCEPT !.init = 0, !.overlay = "error"] \in View
    BY <2>2, ErrorView
  <2>5. tabView' \in View
    BY <2>1, <2>2, <2>4
  <2> QED
    BY <2>1, <2>3, <2>5 DEF TabTyped
<1>16. ASSUME NEW i \in Effects, Tab!ExitArrives(i)  PROVE TabTyped'
  <2>1. CASE /\ init' = [init EXCEPT ![i].ended = TRUE]
             /\ tabView' \in {tabView, [tabView EXCEPT !.overlay = "error"]}
             /\ UNCHANGED <<tab, ref, memo, creation, program>>
    <3>1. init \in [Effects -> EffectInit]
      BY DEF TabTyped
    <3>2. init' \in [Effects -> EffectInit]
      BY <2>1, <3>1, InitEnds
    <3>3. tabView' \in View
      BY <2>1 DEF TabTyped, View
    <3> QED
      BY <2>1, <3>2, <3>3 DEF TabTyped
  <2>2. CASE Tab!RemoveTab([init EXCEPT ![i].ended = TRUE])
    <3>1. init \in [Effects -> EffectInit]
      BY DEF TabTyped
    <3>2. [init EXCEPT ![i].ended = TRUE] \in [Effects -> EffectInit]
      BY <3>1, InitEnds
    <3> QED
      BY <2>2, <3>2, RemoveTabTyped
  <2> QED
    BY <1>16, <2>1, <2>2 DEF Tab!ExitArrives
<1>17. ASSUME NEW i \in Effects, Tab!StreamEnds(i)  PROVE TabTyped'
  <2>1. CASE /\ init' = [init EXCEPT ![i].ended = TRUE]
             /\ tabView' \in {tabView, [tabView EXCEPT !.overlay = "error"]}
             /\ UNCHANGED <<tab, ref, memo, creation, program>>
    <3>1. init \in [Effects -> EffectInit]
      BY DEF TabTyped
    <3>2. init' \in [Effects -> EffectInit]
      BY <2>1, <3>1, InitEnds
    <3>3. tabView' \in View
      BY <2>1 DEF TabTyped, View
    <3> QED
      BY <2>1, <3>2, <3>3 DEF TabTyped
  <2> QED
    BY <1>17, <2>1 DEF Tab!StreamEnds
<1>18. CASE UNCHANGED Tab!vars
  BY <1>18 DEF Tab!vars, TabTyped
<1> QED
  BY <1>1, <1>2, <1>3, <1>4, <1>5, <1>6, <1>7, <1>8, <1>9, <1>10, <1>11, <1>12, <1>13, <1>14,
     <1>15, <1>16, <1>17, <1>18 DEF Tab!Next, Creations, Effects

(* The effect ran and began an init of its own.                            *)
RunsAnew(in) ==
  /\ tabView'.up /\ tabView'.init \in Effects /\ in[tabView'.init].stage = "none"
  /\ init'[tabView'.init].stage = "engine" /\ init'[tabView'.init].ref = ref.no
  /\ ~init'[tabView'.init].cancelled /\ ~init'[tabView'.init].handler
  /\ ~init'[tabView'.init].ended
  /\ \A j \in Effects : j # tabView'.init => init'[j] = in[j]

(* What an action does that does not touch the streams.                    *)
LEMMA StreamsStay ==
  ASSUME OwnedStreams, Tab!ViewTellsTheEnd, UNCHANGED <<init, tabView, missed>>,
         tab'.open <=> tab.open, ref'.cached = ref.cached, ref'.no = ref.no
  PROVE  (OwnedStreams /\ Tab!ViewTellsTheEnd)'
BY DEF OwnedStreams, Tab!ViewTellsTheEnd

LEMMA StreamsLoaded ==
  ASSUME AppAssumption, TabTyped, OwnedStreams, Tab!ViewTellsTheEnd,
         UNCHANGED <<init, tabView, missed>>,
         ~tab.open, tab'.open, ref'.cached = 0
  PROVE  (OwnedStreams /\ Tab!ViewTellsTheEnd)'
BY TabNumbers DEF OwnedStreams, Tab!ViewTellsTheEnd, TabTyped, View

LEMMA StreamsRemoved ==
  ASSUME AppAssumption, TabTyped, OwnedStreams, NEW in \in [Effects -> EffectInit], Tab!TabGoes(in),
         missed' = missed,
         \A j \in Effects :
           /\ in[j].stage = init[j].stage /\ in[j].ref = init[j].ref
           /\ in[j].cancelled <=> init[j].cancelled
           /\ in[j].handler <=> init[j].handler
           /\ init[j].ended => in[j].ended
           /\ in[j].ended => init[j].ended \/ init[j].stage \in {"stream", "cached"}
  PROVE  (OwnedStreams /\ Tab!ViewTellsTheEnd)'
<1>1. /\ ~tab'.open /\ ref'.cached = 0 /\ ~tabView'.up /\ tabView'.init = 0
      /\ \A j \in Effects :
           /\ j = ref.cached => init'[j] = Tab!NoInit
           /\ j # ref.cached =>
                /\ Same(init'[j], in[j]) /\ (init'[j].handler <=> in[j].handler)
                /\ init'[j].cancelled <=> in[j].cancelled \/ j = tabView.init
  BY TabGoesSays
<1>2. ASSUME NEW i \in Effects
      PROVE  /\ init'[i].stage # "cached" => ~init'[i].handler
             /\ init'[i].stage \in {"none", "engine"} => ~init'[i].ended
             /\ init'[i].stage \in {"engine", "stream"} => init'[i].cancelled
             /\ init'[i].stage # "cached"
  <2>1. CASE i = ref.cached
    BY <1>1, <2>1, NoInitTyped
  <2>2. CASE i # ref.cached
    BY <1>1, <2>2 DEF Same, OwnedStreams
  <2> QED
    BY <2>1, <2>2
<1> QED
  BY <1>1, <1>2 DEF OwnedStreams, Tab!ViewTellsTheEnd

LEMMA StreamsEnd ==
  ASSUME AppAssumption, TabTyped, OwnedStreams, Tab!ViewTellsTheEnd, NEW i \in Effects,
         init[i].stage \in {"stream", "cached"},
         init' = [init EXCEPT ![i].ended = TRUE],
         tabView' = IF init[i].handler THEN [tabView EXCEPT !.overlay = "error"] ELSE tabView,
         missed' = (missed \/ ~init[i].handler), UNCHANGED <<tab, ref>>
  PROVE  (OwnedStreams /\ Tab!ViewTellsTheEnd)'
<1>1. init \in [Effects -> EffectInit] /\ tabView \in View
  BY DEF TabTyped
<1>2. /\ \A j \in Effects : j # i => init'[j] = init[j]
      /\ init'[i].stage = init[i].stage /\ init'[i].ref = init[i].ref
      /\ init'[i].cancelled <=> init[i].cancelled
      /\ init'[i].handler <=> init[i].handler
      /\ init'[i].ended
  BY <1>1, InitEnds
<1>3. /\ tabView'.init = tabView.init /\ (tabView'.up <=> tabView.up)
      /\ tabView'.overlay \in {tabView.overlay, "error"}
      /\ init[i].handler => tabView'.overlay = "error"
  BY <1>1 DEF View
<1>4. ref.cached \in Effects \cup {0}
  BY DEF TabTyped, AppRef
<1>5. missed' <=> missed \/ ~init[i].handler
  OBVIOUS
<1>6. OwnedStreams'
  BY <1>2, <1>3, <1>5 DEF OwnedStreams
<1>7. Tab!ViewTellsTheEnd'
  BY <1>2, <1>3, <1>4, <1>5 DEF Tab!ViewTellsTheEnd
<1> QED
  BY <1>6, <1>7

LEMMA StreamsStep ==
  ASSUME AppAssumption, TabInv, [Tab!Next]_(Tab!vars)
  PROVE  (OwnedStreams /\ Tab!ViewTellsTheEnd)'
<1> USE TabNumbers
<1>0. /\ TabTyped /\ init \in [Effects -> EffectInit] /\ tabView \in View /\ ref \in AppRef
      /\ tabView.init \in Effects \cup {0} /\ ref.cached \in Effects \cup {0}
      /\ \A i \in Effects : init[i].stage \in {"none", "engine", "stream", "cached"}
      /\ OwnedStreams /\ Tab!ViewTellsTheEnd /\ KnownPrograms
  BY DEF TabInv, TabTyped, View, AppRef, EffectInit
<1> USE <1>0
<1>1. CASE Tab!AddTab
  <2>1. Tab!Load(0) /\ ref.no = 0 /\ UNCHANGED <<init, tabView, missed>>
    BY <1>1 DEF Tab!AddTab
  <2>2. ~tab.open
    BY <2>1 DEF KnownPrograms
  <2>3. tab'.open /\ ref'.cached = 0
    BY <2>1, LoadSays
  <2> QED
    BY <2>1, <2>2, <2>3, StreamsLoaded
<1>2. CASE Tab!Mount
  <2>1. /\ Tab!RunEffect(init, ref.cached, "none") /\ tab.open /\ ~tabView.up
        /\ UNCHANGED <<tab, ref>>
    BY <1>2 DEF Tab!Mount
  <2>2. missed' <=> missed \/ \E i \in Effects : i = ref.cached /\ init[i].ended
    BY <1>2, Zenon DEF Tab!Mount, Effects
  <2>3. CASE ref.cached # 0
    <3>1. /\ tabView'.up /\ tabView'.init = 0
          /\ \A j \in Effects :
               /\ Same(init'[j], init[j]) /\ (init'[j].cancelled <=> init[j].cancelled)
               /\ init'[j].handler <=> init[j].handler \/ j = ref.cached
      BY <2>1, <2>3, RunEffectSays
    <3>2. OwnedStreams'
      BY <2>1, <2>2, <2>3, <3>1 DEF Same, OwnedStreams
    <3>3. Tab!ViewTellsTheEnd'
      BY <2>1, <2>2, <2>3, <3>1 DEF Same, Tab!ViewTellsTheEnd
    <3> QED
      BY <3>2, <3>3
  <2>4. CASE ref.cached = 0
    <3>1. RunsAnew(init)
      BY <2>1, <2>4, RunEffectSays DEF RunsAnew
    <3>2. OwnedStreams'
      BY <2>1, <2>2, <2>4, <3>1 DEF RunsAnew, OwnedStreams
    <3>3. Tab!ViewTellsTheEnd'
      BY <3>1 DEF RunsAnew, Tab!ViewTellsTheEnd
    <3> QED
      BY <3>2, <3>3
  <2> QED
    BY <2>3, <2>4
<1>3. CASE Tab!Unmount
  <2>1. /\ init' = Tab!CleanedUp(init) /\ UNCHANGED <<tab, ref, missed>>
        /\ ~tabView'.up /\ tabView'.init = 0
    BY <1>3 DEF Tab!Unmount, Tab!NoView
  <2> QED
    BY <2>1, CleanedUpSays DEF Same, OwnedStreams, Tab!ViewTellsTheEnd
<1>4. CASE Tab!SettingsChange
  <2>1. /\ Tab!RunEffect(Tab!CleanedUp(init), ref.cached, tabView.overlay) /\ tabView.up
        /\ UNCHANGED <<tab, ref, missed>>
    BY <1>4 DEF Tab!SettingsChange
  <2>2. tabView.overlay \in {"none", "error"}
    BY DEF View
  <2> DEFINE in == Tab!CleanedUp(init)
  <2>3. /\ in \in [Effects -> EffectInit]
        /\ \A j \in Effects :
             /\ Same(in[j], init[j])
             /\ in[j].cancelled <=> init[j].cancelled \/ j = tabView.init
             /\ in[j].handler <=> init[j].handler /\ j # ref.cached
    BY CleanedUpSays
  <2> HIDE DEF in
  <2>4. Tab!RunEffect(in, ref.cached, tabView.overlay)
    BY <2>1 DEF in
  <2>5. CASE ref.cached # 0
    <3>1. /\ tabView'.up /\ tabView'.init = 0 /\ tabView'.overlay = tabView.overlay
          /\ \A j \in Effects :
               /\ Same(init'[j], in[j]) /\ (init'[j].cancelled <=> in[j].cancelled)
               /\ init'[j].handler <=> in[j].handler \/ j = ref.cached
      BY <2>2, <2>3, <2>4, <2>5, RunEffectSays
    <3>2. tabView.init = 0
      BY <2>5 DEF OwnedStreams
    <3>3. OwnedStreams'
      BY <2>1, <2>3, <2>5, <3>1, <3>2 DEF Same, OwnedStreams
    <3>4. Tab!ViewTellsTheEnd'
      BY <2>1, <2>3, <2>5, <3>1, <3>2 DEF Same, Tab!ViewTellsTheEnd
    <3> QED
      BY <3>3, <3>4
  <2>6. CASE ref.cached = 0
    <3>1. RunsAnew(in)
      BY <2>2, <2>3, <2>4, <2>6, RunEffectSays DEF RunsAnew
    <3>2. OwnedStreams'
      BY <2>1, <2>3, <2>6, <3>1 DEF RunsAnew, Same, OwnedStreams
    <3>3. Tab!ViewTellsTheEnd'
      BY <3>1 DEF RunsAnew, Tab!ViewTellsTheEnd
    <3> QED
      BY <3>2, <3>3
  <2> QED
    BY <2>5, <2>6
<1>5. CASE Tab!RefreshStream
  <2> DEFINE up == Tab!CleanedUp(init)
             in == Tab!Disposed(up, ref.cached)
  <2>1. /\ Tab!RunEffect(in, 0, "none") /\ ref' = [ref EXCEPT !.cached = 0]
        /\ tabView.up /\ UNCHANGED <<tab, missed>>
    BY <1>5 DEF Tab!RefreshStream
  <2>2. /\ up \in [Effects -> EffectInit]
        /\ \A j \in Effects :
             /\ Same(up[j], init[j])
             /\ up[j].cancelled <=> init[j].cancelled \/ j = tabView.init
             /\ up[j].handler <=> init[j].handler /\ j # ref.cached
    BY CleanedUpSays
  <2> HIDE DEF up
  <2>3. /\ in \in [Effects -> EffectInit]
        /\ \A j \in Effects : in[j] = IF j = ref.cached THEN Tab!NoInit ELSE up[j]
    BY <2>2, DisposedSays
  <2> HIDE DEF in
  <2>4. RunsAnew(in)
    BY <2>1, <2>3, RunEffectSays DEF RunsAnew
  <2>5. ref'.cached = 0 /\ ref'.no = ref.no
    BY <2>1 DEF AppRef
  <2>6. ASSUME NEW j \in Effects
        PROVE  /\ in[j].stage # "cached" /\ ~in[j].handler
               /\ in[j].stage \in {"none", "engine"} => ~in[j].ended
               /\ in[j].stage = "stream" => in[j].cancelled
               /\ in[j].stage = "engine" => in[j].cancelled
    <3>1. CASE j = ref.cached
      BY <2>3, <3>1, NoInitTyped
    <3>2. CASE j # ref.cached
      BY <2>2, <2>3, <3>2 DEF Same, OwnedStreams
    <3> QED
      BY <3>1, <3>2
  <2>7. OwnedStreams'
    BY <2>1, <2>4, <2>5, <2>6 DEF RunsAnew, OwnedStreams
  <2>8. Tab!ViewTellsTheEnd'
    BY <2>4 DEF RunsAnew, Tab!ViewTellsTheEnd
  <2> QED
    BY <2>7, <2>8
<1>6. CASE Tab!CloseTab
  <2>1. Tab!TabGoes(init) /\ missed' = missed
    BY <1>6 DEF Tab!CloseTab, Tab!RemoveTab
  <2> QED
    BY <2>1, StreamsRemoved
<1>7. CASE Tab!DroppedElsewhere
  <2>1. Tab!TabGoes(init) /\ missed' = missed
    BY <1>7 DEF Tab!DroppedElsewhere
  <2> QED
    BY <2>1, StreamsRemoved
<1>8. CASE Tab!RestoredElsewhere
  <2>1. PICK pty \in {0} \cup Tab!Newest : Tab!Load(pty)
    BY <1>8 DEF Tab!RestoredElsewhere
  <2>2. pty \in Creations \cup {0}
    BY DEF Tab!Newest, Creations
  <2>3. ~tab.open /\ UNCHANGED <<init, tabView, missed>>
    BY <1>8 DEF Tab!RestoredElsewhere
  <2>4. tab'.open /\ ref'.cached = 0
    BY <2>1, <2>2, LoadSays
  <2> QED
    BY <2>3, <2>4, StreamsLoaded
<1>9. CASE Tab!StaleBody
  <2>1. /\ init' = Tab!CleanedUp(init) /\ UNCHANGED <<ref, missed>> /\ tab.open
        /\ tab' = [tab EXCEPT !.pty = 0] /\ ~tabView'.up /\ tabView'.init = 0
    BY <1>9 DEF Tab!StaleBody, Tab!NoView
  <2>2. tab'.open
    BY <2>1
  <2> QED
    BY <2>1, <2>2, CleanedUpSays DEF Same, OwnedStreams, Tab!ViewTellsTheEnd
<1>10. ASSUME NEW c \in Creations, Tab!CreationResolves(c)  PROVE (OwnedStreams /\ Tab!ViewTellsTheEnd)'
  <2>1. PICK p \in Creations : tab' \in {tab, [tab EXCEPT !.pty = p]}
    BY <1>10 DEF Tab!CreationResolves, Creations
  <2>2. tab'.open <=> tab.open
    BY <2>1 DEF TabTyped
  <2>3. UNCHANGED <<ref, init, tabView, missed>>
    BY <1>10 DEF Tab!CreationResolves
  <2> QED
    BY <2>2, <2>3, StreamsStay
<1>11. ASSUME NEW c \in Creations, Tab!CreationFails(c)  PROVE (OwnedStreams /\ Tab!ViewTellsTheEnd)'
  <2>1. ref' = [ref EXCEPT !.refused = @ \/ ref.creating = c]
    BY <1>11 DEF Tab!CreationFails, Tab!Refused
  <2>2. ref'.cached = ref.cached /\ ref'.no = ref.no
    BY <2>1 DEF AppRef
  <2>3. UNCHANGED <<tab, init, tabView, missed>>
    BY <1>11 DEF Tab!CreationFails, Tab!Refused
  <2> QED
    BY <2>2, <2>3, StreamsStay
<1>12. ASSUME NEW c \in Creations, Tab!ProgramExits(c)  PROVE (OwnedStreams /\ Tab!ViewTellsTheEnd)'
  BY <1>12, StreamsStay DEF Tab!ProgramExits
<1>13. ASSUME NEW i \in Effects, Tab!EngineCreated(i)  PROVE (OwnedStreams /\ Tab!ViewTellsTheEnd)'
  <2>1. init[i].stage = "engine" /\ UNCHANGED <<tab, ref, tabView, missed>>
    BY <1>13 DEF Tab!EngineCreated
  <2>2. CASE init[i].cancelled
    <3>1. init' = Tab!Disposed(init, i)
      BY <1>13, <2>2 DEF Tab!EngineCreated
    <3>2. \A j \in Effects : init'[j] = IF j = i THEN Tab!NoInit ELSE init[j]
      BY <3>1, DisposedSays
    <3> QED
      BY <2>1, <2>2, <3>2, NoInitTyped DEF OwnedStreams, Tab!ViewTellsTheEnd
  <2>3. CASE ~init[i].cancelled
    <3>1. init' = [init EXCEPT ![i].stage = "stream"]
      BY <1>13, <2>3 DEF Tab!EngineCreated
    <3>2. /\ \A j \in Effects : j # i => init'[j] = init[j]
          /\ init'[i].stage = "stream" /\ init'[i].ref = init[i].ref
          /\ init'[i].cancelled <=> init[i].cancelled
          /\ init'[i].handler <=> init[i].handler
          /\ init'[i].ended <=> init[i].ended
      BY <3>1, InitStreams
    <3> QED
      BY <2>1, <2>3, <3>2 DEF OwnedStreams, Tab!ViewTellsTheEnd
  <2> QED
    BY <2>2, <2>3
<1>14. ASSUME NEW i \in Effects, Tab!Attached(i)  PROVE (OwnedStreams /\ Tab!ViewTellsTheEnd)'
  <2>1. init[i].stage = "stream" /\ UNCHANGED <<tab, missed>>
    BY <1>14 DEF Tab!Attached
  <2>2. CASE init[i].cancelled
    <3>1. init' = Tab!Disposed(init, i) /\ UNCHANGED <<ref, tabView>>
      BY <1>14, <2>2 DEF Tab!Attached
    <3>2. \A j \in Effects : init'[j] = IF j = i THEN Tab!NoInit ELSE init[j]
      BY <3>1, DisposedSays
    <3> QED
      BY <2>1, <2>2, <3>1, <3>2, NoInitTyped DEF OwnedStreams, Tab!ViewTellsTheEnd
  <2>3. CASE ~init[i].cancelled
    <3>1. /\ init' = [init EXCEPT ![i].stage = "cached", ![i].handler = TRUE]
          /\ ref' = (IF init[i].ref = ref.no THEN [ref EXCEPT !.cached = i] ELSE ref)
          /\ tabView' = [tabView EXCEPT !.init = 0]
      BY <1>14, <2>3 DEF Tab!Attached
    <3>2. /\ \A j \in Effects : j # i => init'[j] = init[j]
          /\ init'[i].stage = "cached" /\ init'[i].handler /\ (init'[i].ended <=> init[i].ended)
      BY <3>1, InitKept
    <3>3. tabView.init = i /\ init[i].ref = ref.no /\ tab.open /\ ref.cached = 0
          /\ (init[i].ended => missed) /\ tabView.up
      BY <2>1, <2>3 DEF OwnedStreams
    <3>4. ref'.cached = i /\ ref'.no = ref.no
      BY <3>1, <3>3 DEF AppRef
    <3>5. tabView'.up /\ tabView'.init = 0
      BY <3>1, <3>3 DEF View
    <3>6. OwnedStreams'
      BY <2>1, <3>2, <3>3, <3>4, <3>5 DEF OwnedStreams
    <3>7. Tab!ViewTellsTheEnd'
      BY <2>1, <3>2, <3>3, <3>4, <3>5 DEF Tab!ViewTellsTheEnd
    <3> QED
      BY <3>6, <3>7
  <2> QED
    BY <2>2, <2>3
<1>15. ASSUME NEW i \in Effects, Tab!AttachFails(i)  PROVE (OwnedStreams /\ Tab!ViewTellsTheEnd)'
  <2>1. /\ init[i].stage = "stream" /\ UNCHANGED <<tab, ref, missed>>
        /\ init' = Tab!Disposed(init, i)
        /\ tabView' = (IF init[i].cancelled THEN tabView
                        ELSE [tabView EXCEPT !.init = 0, !.overlay = "error"])
    BY <1>15 DEF Tab!AttachFails
  <2>2. \A j \in Effects : init'[j] = IF j = i THEN Tab!NoInit ELSE init[j]
    BY <2>1, DisposedSays
  <2>3. CASE init[i].cancelled
    BY <2>1, <2>2, <2>3, NoInitTyped DEF OwnedStreams, Tab!ViewTellsTheEnd
  <2>4. CASE ~init[i].cancelled
    <3>1. tabView'.init = 0 /\ tabView'.overlay = "error" /\ (tabView'.up <=> tabView.up)
      BY <2>1, <2>4, ErrorView
    <3>2. tabView.init = i
      BY <2>1, <2>4 DEF OwnedStreams
    <3> QED
      BY <2>1, <2>2, <2>4, <3>1, <3>2, NoInitTyped DEF OwnedStreams, Tab!ViewTellsTheEnd
  <2> QED
    BY <2>3, <2>4
<1>16. ASSUME NEW i \in Effects, Tab!ExitArrives(i)  PROVE (OwnedStreams /\ Tab!ViewTellsTheEnd)'
  <2>1. init[i].stage \in {"stream", "cached"} /\ ~init[i].ended
    BY <1>16 DEF Tab!ExitArrives, Tab!Attending
  <2>2. CASE /\ Tab!RemoveTab([init EXCEPT ![i].ended = TRUE]) /\ missed' = missed
    <3> DEFINE in == [init EXCEPT ![i].ended = TRUE]
    <3>1. /\ in \in [Effects -> EffectInit] /\ \A j \in Effects : j # i => in[j] = init[j]
          /\ in[i].stage = init[i].stage /\ in[i].ref = init[i].ref
          /\ in[i].cancelled <=> init[i].cancelled
          /\ in[i].handler <=> init[i].handler
          /\ in[i].ended
      BY InitEnds
    <3>2. Tab!TabGoes(in)
      BY <2>2 DEF Tab!RemoveTab
    <3> HIDE DEF in
    <3>3. \A j \in Effects :
           /\ in[j].stage = init[j].stage /\ in[j].ref = init[j].ref
           /\ in[j].cancelled <=> init[j].cancelled
           /\ in[j].handler <=> init[j].handler
           /\ init[j].ended => in[j].ended
           /\ in[j].ended => init[j].ended \/ init[j].stage \in {"stream", "cached"}
      BY <2>1, <3>1
    <3> QED
      BY <2>2, <3>1, <3>2, <3>3, StreamsRemoved
  <2>3. CASE /\ init' = [init EXCEPT ![i].ended = TRUE]
             /\ tabView' = IF init[i].handler THEN [tabView EXCEPT !.overlay = "error"] ELSE tabView
             /\ missed' = (missed \/ ~init[i].handler) /\ UNCHANGED <<tab, ref>>
    BY <2>1, <2>3, StreamsEnd
  <2> QED
    BY <1>16, <2>2, <2>3 DEF Tab!ExitArrives
<1>17. ASSUME NEW i \in Effects, Tab!StreamEnds(i)  PROVE (OwnedStreams /\ Tab!ViewTellsTheEnd)'
  BY <1>17, StreamsEnd DEF Tab!StreamEnds
<1>18. CASE UNCHANGED Tab!vars
  BY <1>18, StreamsStay DEF Tab!vars
<1> QED
  BY <1>1, <1>2, <1>3, <1>4, <1>5, <1>6, <1>7, <1>8, <1>9, <1>10, <1>11, <1>12, <1>13, <1>14,
     <1>15, <1>16, <1>17, <1>18 DEF Tab!Next, Creations, Effects

(* The same for what does not touch the programs.                          *)
LEMMA ProgramsStay ==
  ASSUME KnownPrograms, NoneForgotten, PtyComes,
         UNCHANGED <<tab, memo, creation, program, closed, strayed, reset>>,
         ref' = ref \/ \E k : ref' = [ref EXCEPT !.cached = k], ref \in AppRef
  PROVE  (KnownPrograms /\ NoneForgotten /\ PtyComes)'
<1>1. /\ ref'.no = ref.no /\ ref'.creating = ref.creating /\ ref'.state = ref.state
      /\ ref'.refused <=> ref.refused
  BY DEF AppRef
<1> QED
  BY <1>1 DEF KnownPrograms, NoneForgotten, PtyComes

LEMMA ProgramsRemoved ==
  ASSUME AppAssumption, TabInv, NEW in \in [Effects -> EffectInit], tab.open, Tab!RemoveTab(in),
         UNCHANGED <<strayed, reset>>
  PROVE  (KnownPrograms /\ NoneForgotten /\ PtyComes)'
<1> USE TabNumbers
<1>1. /\ program \in [Creations -> {"none", "live", "over"}] /\ memo \in Creations \cup {0}
      /\ KnownPrograms /\ NoneForgotten /\ PtyComes
  BY DEF TabInv, TabTyped
<1>2. /\ Known \in Creations \cup {0}
      /\ Known # 0 => program' = [program EXCEPT ![Known] = "over"]
      /\ Known = 0 => program' = program
      /\ \A c \in Creations :
           /\ creation'[c].stage = creation[c].stage /\ creation'[c].pty = creation[c].pty
           /\ Known = 0 => (c = ref.creating /\ creation[c].stage = "pending" => creation'[c].kill)
  BY CloseSays DEF TabInv, Tab!RemoveTab
<1>3. /\ ~tab'.open /\ tab'.pty = 0 /\ memo' = 0 /\ closed'
  BY TabGoesSays DEF TabInv, Tab!RemoveTab
<1>4. ref' = [ref EXCEPT !.cached = 0] /\ ref \in AppRef
  BY DEF Tab!RemoveTab, Tab!TabGoes, TabInv, TabTyped
<1>5. ref'.no = ref.no /\ ref'.state = ref.state
  BY <1>4 DEF AppRef
<1>6. ref.state \in Creations \cup {0} /\ ref.creating \in Creations \cup {0}
      /\ tab.pty \in Creations \cup {0}
  BY <1>4 DEF AppRef, TabInv, TabTyped
<1>7. Known # 0 => program[Known] # "none"
  BY <1>1, <1>2, <1>6 DEF Known, Shown, KnownPrograms
<1>8. KnownPrograms'
  <2>1. \A q \in Creations : program'[q] = "none" <=> program[q] = "none"
    BY <1>1, <1>2, <1>7
  <2>2. \A q \in Creations : program[q] = "over" => program'[q] = "over"
    BY <1>1, <1>2
  <2>3. \A c \in Creations : creation[c].pty \in Creations \cup {0}
    BY DEF TabInv, TabTyped, Promise
  <2> QED
    BY <1>1, <1>2, <1>3, <1>5, <1>6, <2>1, <2>2, <2>3 DEF KnownPrograms
<1>9. ASSUME ~strayed
      PROVE  /\ \A p \in Creations : program'[p] # "live"
             /\ \A c \in Creations : creation[c].stage = "pending" => creation'[c].kill
  <2>1. ASSUME NEW p \in Creations, program[p] = "live"
        PROVE  p = Known
    BY <1>1, <1>6, <1>9, <2>1 DEF NoneForgotten, Known, Shown
  <2>2. ASSUME NEW c \in Creations, creation[c].stage = "pending"
        PROVE  c = ref.creating /\ Known = 0
    BY <1>1, <1>9, <2>2 DEF NoneForgotten, KnownPrograms, Known, Shown
  <2> QED
    BY <1>1, <1>2, <2>1, <2>2
<1>10. NoneForgotten'
  BY <1>2, <1>3, <1>9 DEF NoneForgotten
<1>11. PtyComes'
  BY <1>3 DEF PtyComes
<1> QED
  BY <1>8, <1>10, <1>11

(* A tab that is loaded while no other promise than its own is under way,  *)
(* or by a body that makes it stray.                                       *)
LEMMA ProgramsLoaded ==
  ASSUME AppAssumption, TabInv, ~tab.open, NEW pty \in Creations \cup {0}, Tab!Load(pty),
         pty # 0 => pty \in Tab!Newest,
         program' = program, reset' = reset, ~closed',
         strayed => strayed',
         ~strayed' => \A c \in Creations : creation[c].stage = "pending" => ref'.creating = c
  PROVE  (KnownPrograms /\ NoneForgotten /\ PtyComes)'
<1> USE TabNumbers
<1>1. /\ program \in [Creations -> {"none", "live", "over"}] /\ memo \in Creations \cup {0}
      /\ KnownPrograms /\ NoneForgotten /\ creation \in [Creations -> Promise] /\ ref.no \in Nat
  BY DEF TabInv, TabTyped, AppRef
<1>2. ref'.no # 0 /\ ~ref'.refused /\ tab'.open
  <2>1. ref'.no = ref.no + 1 /\ ~ref'.refused /\ tab'.open
    BY LoadSays DEF TabInv
  <2> QED
    BY <1>1, <2>1
<1>3. CASE pty # 0
  <2>1. /\ ref'.creating = 0 /\ ref'.state = pty /\ tab'.pty = pty /\ UNCHANGED <<memo, creation>>
    BY <1>3, LoadSays DEF TabInv
  <2>2. program[pty] # "none" /\ \A q \in Creations : q > pty => program[q] = "none"
    BY <1>3 DEF Tab!Newest, Creations
  <2>3. KnownPrograms'
    BY <1>1, <1>2, <2>1, <2>2 DEF KnownPrograms
  <2>4. ASSUME ~strayed'
        PROVE  /\ \A c \in Creations : creation[c].stage # "pending"
               /\ \A p \in Creations : program[p] = "live" =>
                    p = pty /\ memo # 0 /\ creation[memo].pty = p
    <3>1. \A c \in Creations : creation[c].stage # "pending"
      BY <2>1, <2>4
    <3>2. ASSUME NEW p \in Creations, program[p] = "live"
          PROVE  p = pty /\ memo # 0 /\ creation[memo].pty = p
      <4>1. memo # 0 /\ creation[memo].pty = p
        BY <1>1, <2>4, <3>2 DEF NoneForgotten
      <4>2. ~(p < pty) /\ ~(pty < p)
        BY <1>1, <1>3, <2>2, <3>2 DEF KnownPrograms
      <4>3. p \in Nat /\ pty \in Nat
        BY <1>3
      <4> QED
        BY <4>1, <4>2, <4>3
    <3> QED
      BY <3>1, <3>2
  <2>5. NoneForgotten'
    BY <1>3, <2>1, <2>4 DEF NoneForgotten
  <2>6. PtyComes'
    BY <1>3, <2>1 DEF PtyComes
  <2> QED
    BY <2>3, <2>5, <2>6
<1>4. CASE pty = 0
  <2>1. /\ memo' \in Creations /\ ref'.creating = memo' /\ ref'.state = 0
        /\ tab'.pty = creation[memo'].pty
        /\ memo # 0 => memo' = memo
        /\ memo = 0 => creation[memo'].stage = "none"
        /\ \A c \in Creations : c # memo' => creation'[c] = creation[c]
        /\ creation'[memo'].pty = creation[memo'].pty
        /\ creation'[memo'].kill <=> creation[memo'].kill
        /\ creation'[memo'].stage = IF creation[memo'].stage = "none" THEN "pending"
                                    ELSE creation[memo'].stage
    BY <1>4, LoadSays DEF TabInv
  <2>2. creation[memo'].stage \in {"none", "pending", "done"}
    BY <1>1, <2>1 DEF KnownPrograms
  <2>3. /\ creation'[memo'].stage = "done" <=> creation'[memo'].pty # 0
        /\ creation'[memo'].stage \in {"pending", "done"}
        /\ creation'[memo'].pty # 0 => program[creation'[memo'].pty] # "none"
    BY <1>1, <2>1, <2>2 DEF KnownPrograms
  <2>4. KnownPrograms'
    BY <1>1, <1>2, <2>1, <2>3 DEF KnownPrograms
  <2>5. ASSUME ~strayed'
        PROVE  /\ \A c \in Creations : creation'[c].stage = "pending" => c = memo'
               /\ creation'[memo'].stage = "pending" => creation[memo'].pty = 0
               /\ \A p \in Creations : program[p] = "live" => creation'[memo'].pty = p
    <3>1. \A c \in Creations : creation[c].stage = "pending" => c = memo'
      BY <2>1, <2>5
    <3>2. \A c \in Creations : creation'[c].stage = "pending" => c = memo'
      BY <2>1, <3>1
    <3>3. \A p \in Creations : program[p] = "live" => memo # 0 /\ creation[memo].pty = p
      BY <1>1, <2>5 DEF NoneForgotten
    <3> QED
      BY <2>1, <2>3, <3>2, <3>3
  <2>6. NoneForgotten'
    BY <1>2, <2>1, <2>5 DEF NoneForgotten
  <2>7. PtyComes'
    BY <2>1, <2>3 DEF PtyComes
  <2> QED
    BY <2>4, <2>6, <2>7
<1> QED
  BY <1>3, <1>4

(* The daemon's answer leaves one program alive at most, the newest.       *)
LEMMA AnswersSay ==
  ASSUME AppAssumption, TabTyped, KnownPrograms, NEW p \in Creations, Tab!AnswersWith(p), NEW s,
         program' = [program EXCEPT ![p] = s]
  PROVE  /\ \A q \in Creations : q # p => program[q] # "live" /\ program'[q] = program[q]
         /\ program'[p] = s
         /\ \A q \in Creations : q < p => program[q] = "over"
         /\ \A q \in Creations : p < q => program[q] = "none"
<1> USE TabNumbers
<1>1. program \in [Creations -> {"none", "live", "over"}]
  BY DEF TabTyped
<1>2. CASE program[p] = "live"
  <2>1. \A q \in Creations : q < p => program[q] = "over"
    BY <1>2 DEF KnownPrograms
  <2>2. \A q \in Creations : p < q => program[q] = "none"
    BY <1>1, <1>2 DEF KnownPrograms
  <2>3. \A q \in Creations : q = p \/ q < p \/ p < q
    OBVIOUS
  <2> QED
    BY <1>1, <2>1, <2>2, <2>3
<1>3. CASE /\ program[p] = "none"
           /\ \A q \in Creations : program[q] # "live" /\ (q < p => program[q] # "none")
  <2>1. \A q \in Creations : q < p => program[q] = "over"
    BY <1>1, <1>3
  <2>2. \A q \in Creations : p < q => program[q] = "none"
    BY <1>3 DEF KnownPrograms
  <2> QED
    BY <1>1, <1>3, <2>1, <2>2
<1> QED
  BY <1>2, <1>3 DEF Tab!AnswersWith, Creations

LEMMA RefusalSays ==
  ASSUME AppAssumption, TabInv, NEW c \in Creations, creation[c].stage = "pending",
         creation' = [creation EXCEPT ![c].stage = "failed"],
         memo' = (IF memo = c THEN 0 ELSE memo),
         ref' = [ref EXCEPT !.refused = @ \/ ref.creating = c], UNCHANGED <<tab, closed, reset>>,
         \/ UNCHANGED <<program, strayed>>
         \/ \E p \in Creations : /\ Tab!AnswersWith(p)
                                 /\ program' = [program EXCEPT ![p] = "live"] /\ strayed'
  PROVE  (KnownPrograms /\ NoneForgotten /\ PtyComes)'
<1> USE TabNumbers
<1>1. /\ program \in [Creations -> {"none", "live", "over"}] /\ memo \in Creations \cup {0}
      /\ KnownPrograms /\ NoneForgotten /\ PtyComes /\ creation \in [Creations -> Promise]
      /\ ref \in AppRef /\ ref.creating \in Creations \cup {0} /\ ref.state \in Creations \cup {0}
      /\ tab.pty \in Creations \cup {0} /\ TabTyped
  BY DEF TabInv, TabTyped, AppRef
<1>2. /\ \A d \in Creations : d # c => creation'[d] = creation[d]
      /\ creation'[c].stage = "failed" /\ creation'[c].pty = creation[c].pty
  BY <1>1, CreationFailed
<1>3. /\ ref'.no = ref.no /\ ref'.creating = ref.creating /\ ref'.state = ref.state
      /\ ref'.refused <=> ref.refused \/ ref.creating = c
  BY <1>1 DEF AppRef
<1>4. PtyComes'
  BY <1>1, <1>2, <1>3 DEF PtyComes
<1>5. /\ \A q, s \in Creations : q < s /\ program'[s] # "none" => program'[q] = "over"
      /\ \A q \in Creations : program[q] # "none" => program'[q] # "none"
  <2>1. CASE program' = program
    BY <1>1, <2>1 DEF KnownPrograms
  <2>2. CASE \E p \in Creations : /\ Tab!AnswersWith(p) /\ program' = [program EXCEPT ![p] = "live"]
    <3>1. PICK p \in Creations : Tab!AnswersWith(p) /\ program' = [program EXCEPT ![p] = "live"]
      BY <2>2
    <3>2. /\ \A q \in Creations : q # p => program[q] # "live" /\ program'[q] = program[q]
          /\ program'[p] = "live"
          /\ \A q \in Creations : q < p => program[q] = "over"
          /\ \A q \in Creations : p < q => program[q] = "none"
      BY <1>1, <3>1, AnswersSay
    <3> QED
      BY <1>1, <3>2 DEF KnownPrograms
  <2> QED
    BY <2>1, <2>2
<1>6. creation[c].pty = 0 /\ ref.no # 0
  BY <1>1 DEF KnownPrograms
<1>7. KnownPrograms'
  <2>1. \A d \in Creations :
            /\ creation'[d].stage = "done" <=> creation'[d].pty # 0
            /\ creation'[d].pty # 0 => program'[creation'[d].pty] # "none"
    BY <1>1, <1>2, <1>5, <1>6 DEF KnownPrograms, Promise
  <2>2. /\ memo' # 0 => creation'[memo'].stage \in {"pending", "done"}
        /\ tab'.pty # 0 => program'[tab'.pty] # "none"
        /\ ref'.state # 0 => program'[ref'.state] # "none"
    BY <1>1, <1>2, <1>3, <1>5 DEF KnownPrograms
  <2>3. closed' => ~tab'.open
    BY <1>1 DEF KnownPrograms
  <2> QED
    BY <1>3, <1>5, <1>6, <2>1, <2>2, <2>3 DEF KnownPrograms
<1>8. NoneForgotten'
  <2>1. CASE strayed'
    BY <2>1 DEF NoneForgotten
  <2>2. CASE ~strayed'
    <3>1. program' = program /\ ~strayed
      BY <2>2
    <3>2. \A p \in Creations : program[p] = "live" => memo # 0 /\ creation[memo].pty = p /\ memo # c
      BY <1>1, <1>6, <3>1 DEF NoneForgotten
    <3>3. \A p \in Creations : program[p] = "live" /\ tab.open =>
            /\ tab.pty \in {0, p}
            /\ \/ ref.state = p
               \/ ref.state = 0 /\ ref.creating # 0 /\ creation'[ref.creating].pty = p
      BY <1>1, <1>2, <3>1 DEF NoneForgotten
    <3>4. \A d \in Creations : creation'[d].stage = "pending" =>
            /\ d # c /\ (d = memo \/ (creation'[d].kill /\ memo = 0))
            /\ ~tab.open
      BY <1>1, <1>2, <3>1 DEF NoneForgotten
    <3>5. closed => memo = 0
      BY <1>1, <3>1 DEF NoneForgotten
    <3> QED
      BY <1>1, <1>2, <1>3, <3>1, <3>2, <3>3, <3>4, <3>5 DEF NoneForgotten
  <2> QED
    BY <2>1, <2>2
<1> QED
  BY <1>4, <1>7, <1>8

LEMMA ProgramsStep ==
  ASSUME AppAssumption, TabInv, [Tab!Next]_(Tab!vars)
  PROVE  (KnownPrograms /\ NoneForgotten /\ PtyComes)'
<1> USE TabNumbers
<1>0. /\ TabTyped /\ init \in [Effects -> EffectInit] /\ ref \in AppRef
      /\ program \in [Creations -> {"none", "live", "over"}] /\ memo \in Creations \cup {0}
      /\ creation \in [Creations -> Promise]
      /\ ref.creating \in Creations \cup {0} /\ ref.state \in Creations \cup {0}
      /\ tab.pty \in Creations \cup {0}
      /\ KnownPrograms /\ NoneForgotten /\ PtyComes
  BY DEF TabInv, TabTyped, AppRef
<1> USE <1>0
<1>1. CASE Tab!AddTab
  <2>1. Tab!Load(0) /\ ref.no = 0 /\ UNCHANGED <<program, closed, strayed, reset>>
    BY <1>1 DEF Tab!AddTab
  <2>2. ~tab.open /\ ~closed /\ \A c \in Creations : creation[c].stage = "none"
    BY <2>1 DEF KnownPrograms
  <2>3. ~closed' /\ (strayed => strayed')
        /\ \A c \in Creations : creation[c].stage = "pending" => ref'.creating = c
    BY <2>1, <2>2
  <2> QED
    BY <2>1, <2>2, <2>3, ProgramsLoaded
<1>2. CASE Tab!Mount
  BY <1>2, ProgramsStay DEF Tab!Mount
<1>3. CASE Tab!Unmount
  BY <1>3, ProgramsStay DEF Tab!Unmount
<1>4. CASE Tab!SettingsChange
  BY <1>4, ProgramsStay DEF Tab!SettingsChange
<1>5. CASE Tab!RefreshStream
  <2>1. ref' = [ref EXCEPT !.cached = 0]
        /\ UNCHANGED <<tab, memo, creation, program, closed, strayed, reset>>
    BY <1>5 DEF Tab!RefreshStream
  <2> QED
    BY <2>1, ProgramsStay
<1>6. CASE Tab!CloseTab
  BY <1>6, ProgramsRemoved DEF Tab!CloseTab
<1>7. CASE Tab!DroppedElsewhere
  <2>1. Tab!TabGoes(init) /\ UNCHANGED <<memo, creation, closed, strayed, reset>> /\ tab.open
    BY <1>7 DEF Tab!DroppedElsewhere
  <2>2. program' = program \/ (tab.pty # 0 /\ program' = [program EXCEPT ![tab.pty] = "over"])
    BY <1>7 DEF Tab!DroppedElsewhere, Tab!Killed
  <2>3. ~tab'.open /\ tab'.pty = 0
    BY <2>1, TabGoesSays
  <2>4. ref' = [ref EXCEPT !.cached = 0]
    BY <2>1 DEF Tab!TabGoes
  <2>5. ref'.no = ref.no /\ ref'.state = ref.state
    BY <2>4 DEF AppRef
  <2>6. KnownPrograms'
    <3>1. \A q \in Creations : program'[q] = "none" <=> program[q] = "none"
      BY <2>2 DEF KnownPrograms
    <3>2. \A q \in Creations : program[q] = "over" => program'[q] = "over"
      BY <2>2
    <3>3. \A c \in Creations : creation[c].pty \in Creations \cup {0}
      BY DEF Promise
    <3> QED
      BY <2>1, <2>3, <2>5, <3>1, <3>2, <3>3 DEF KnownPrograms
  <2>7. NoneForgotten'
    BY <2>1, <2>2, <2>3 DEF NoneForgotten
  <2>8. PtyComes'
    BY <2>3 DEF PtyComes
  <2> QED
    BY <2>6, <2>7, <2>8
<1>8. CASE Tab!RestoredElsewhere
  <2>1. PICK pty \in {0} \cup Tab!Newest : Tab!Load(pty)
    BY <1>8 DEF Tab!RestoredElsewhere
  <2>2. pty \in Creations \cup {0} /\ (pty # 0 => pty \in Tab!Newest)
    BY DEF Tab!Newest, Creations
  <2>3. ~tab.open /\ UNCHANGED <<program, reset>> /\ ~closed'
    BY <1>8 DEF Tab!RestoredElsewhere
  <2>4. strayed' <=> strayed \/ \E c \in Creations : creation[c].stage = "pending" /\ ref'.creating # c
    BY <1>8, Zenon DEF Tab!RestoredElsewhere, Creations
  <2>5. /\ strayed => strayed'
        /\ ~strayed' => \A c \in Creations : creation[c].stage = "pending" => ref'.creating = c
    BY <2>4
  <2> QED
    BY <2>1, <2>2, <2>3, <2>5, ProgramsLoaded
<1>9. CASE Tab!StaleBody
  <2>1. /\ tab' = [tab EXCEPT !.pty = 0] /\ tab.open /\ tab.pty # 0 /\ reset'
        /\ UNCHANGED <<ref, memo, creation, program, closed, strayed>>
    BY <1>9 DEF Tab!StaleBody
  <2>2. tab'.open /\ tab'.pty = 0
    BY <2>1 DEF TabTyped
  <2>3. KnownPrograms'
    BY <2>1, <2>2 DEF KnownPrograms
  <2>4. NoneForgotten'
    BY <2>1, <2>2 DEF NoneForgotten
  <2>5. PtyComes'
    BY <2>1 DEF PtyComes
  <2> QED
    BY <2>3, <2>4, <2>5
<1>10. ASSUME NEW c \in Creations, Tab!CreationResolves(c) 
       PROVE  (KnownPrograms /\ NoneForgotten /\ PtyComes)'
  <2>1. PICK p \in Creations :
          /\ Tab!AnswersWith(p)
          /\ creation' = [creation EXCEPT ![c].stage = "done", ![c].pty = p]
          /\ program' = [program EXCEPT ![p] = IF creation[c].kill THEN "over" ELSE "live"]
          /\ tab' = IF tab.open /\ (kind = "terminal" \/ ref.creating = c)
                      THEN [tab EXCEPT !.pty = p] ELSE tab
    BY <1>10 DEF Tab!CreationResolves, Creations
  <2>2. creation[c].stage = "pending" /\ UNCHANGED <<ref, memo, closed, strayed, reset>>
    BY <1>10 DEF Tab!CreationResolves
  <2>3. /\ \A d \in Creations : d # c => creation'[d] = creation[d]
        /\ creation'[c].stage = "done" /\ creation'[c].pty = p
    BY <2>1, CreationDone
  <2>4. /\ \A q \in Creations : q # p => program[q] # "live" /\ program'[q] = program[q]
        /\ program'[p] = IF creation[c].kill THEN "over" ELSE "live"
        /\ \A q \in Creations : q < p => program[q] = "over"
        /\ \A q \in Creations : p < q => program[q] = "none"
    BY <2>1, AnswersSay
  <2>5. /\ tab'.open <=> tab.open
        /\ tab'.pty \in {tab.pty, p}
        /\ tab.open /\ ref.creating = c => tab'.pty = p
    BY <2>1 DEF TabTyped
  <2>6. KnownPrograms'
    <3>1. \A q, s \in Creations : q < s /\ program'[s] # "none" => program'[q] = "over"
      BY <2>4 DEF KnownPrograms
    <3>2. \A d \in Creations :
              /\ creation'[d].stage = "done" <=> creation'[d].pty # 0
              /\ creation'[d].pty # 0 => program'[creation'[d].pty] # "none"
      BY <2>3, <2>4 DEF KnownPrograms, Promise
    <3>3. /\ memo' # 0 => creation'[memo'].stage \in {"pending", "done"}
          /\ tab'.pty # 0 => program'[tab'.pty] # "none"
          /\ ref'.state # 0 => program'[ref'.state] # "none"
      BY <2>2, <2>3, <2>4, <2>5 DEF KnownPrograms
    <3>4. /\ tab'.open \/ closed' => ref'.no # 0
          /\ closed' => ~tab'.open
          /\ ref.no # 0
      BY <2>2, <2>5 DEF KnownPrograms
    <3> QED
      BY <2>2, <3>1, <3>2, <3>3, <3>4 DEF KnownPrograms
  <2>7. NoneForgotten'
    <3> SUFFICES ASSUME ~strayed  PROVE NoneForgotten'
      BY <2>2 DEF NoneForgotten
    <3>1. ASSUME NEW q \in Creations, program'[q] = "live"
          PROVE  q = p /\ c = memo
      BY <2>2, <2>4, <3>1 DEF NoneForgotten
    <3>2. tab.open => c = memo /\ c = ref.creating /\ tab.pty = 0 /\ ref.state = 0 /\ tab'.pty = p
      BY <2>2, <2>5 DEF NoneForgotten
    <3>3. \A d \in Creations : creation'[d].stage = "pending" =>
            /\ d = memo \/ (creation'[d].kill /\ memo = 0)
            /\ ~tab.open
      BY <2>2, <2>3, <3>2 DEF NoneForgotten
    <3> QED
      BY <2>2, <2>3, <2>5, <3>1, <3>2, <3>3 DEF NoneForgotten
  <2>8. PtyComes'
    BY <2>2, <2>3, <2>5 DEF PtyComes
  <2> QED
    BY <2>6, <2>7, <2>8
<1>11. ASSUME NEW c \in Creations, Tab!CreationFails(c) 
       PROVE  (KnownPrograms /\ NoneForgotten /\ PtyComes)'
  <2>1. /\ creation' = [creation EXCEPT ![c].stage = "failed"] /\ creation[c].stage = "pending"
        /\ memo' = (IF memo = c THEN 0 ELSE memo)
        /\ ref' = [ref EXCEPT !.refused = @ \/ ref.creating = c] /\ UNCHANGED <<tab, closed, reset>>
    BY <1>11 DEF Tab!CreationFails, Tab!Refused
  <2>2. CASE UNCHANGED <<program, strayed>>
    BY <2>1, <2>2, RefusalSays
  <2>3. CASE \E p \in Creations : /\ Tab!AnswersWith(p)
                                 /\ program' = [program EXCEPT ![p] = "live"] /\ strayed'
    BY <2>1, <2>3, RefusalSays
  <2> QED
    BY <1>11, <2>2, <2>3 DEF Tab!CreationFails, Tab!Refused, Creations
<1>12. ASSUME NEW c \in Creations, Tab!ProgramExits(c) 
       PROVE  (KnownPrograms /\ NoneForgotten /\ PtyComes)'
  <2>1. /\ program' = [program EXCEPT ![c] = "over"] /\ program[c] = "live"
        /\ UNCHANGED <<tab, ref, memo, creation, closed, strayed, reset>>
    BY <1>12 DEF Tab!ProgramExits, Tab!Killed
  <2>2. KnownPrograms'
    BY <2>1 DEF KnownPrograms
  <2>3. NoneForgotten'
    BY <2>1 DEF NoneForgotten
  <2>4. PtyComes'
    BY <2>1 DEF PtyComes
  <2> QED
    BY <2>2, <2>3, <2>4
<1>13. ASSUME NEW i \in Effects, Tab!EngineCreated(i) 
       PROVE  (KnownPrograms /\ NoneForgotten /\ PtyComes)'
  BY <1>13, ProgramsStay DEF Tab!EngineCreated
<1>14. ASSUME NEW i \in Effects, Tab!Attached(i)  PROVE (KnownPrograms /\ NoneForgotten /\ PtyComes)'
  <2>1. ref' = ref \/ ref' = [ref EXCEPT !.cached = i]
    BY <1>14 DEF Tab!Attached
  <2>2. UNCHANGED <<tab, memo, creation, program, closed, strayed, reset>>
    BY <1>14 DEF Tab!Attached
  <2> QED
    BY <2>1, <2>2, ProgramsStay
<1>15. ASSUME NEW i \in Effects, Tab!AttachFails(i)  PROVE (KnownPrograms /\ NoneForgotten /\ PtyComes)'
  BY <1>15, ProgramsStay DEF Tab!AttachFails
<1>16. ASSUME NEW i \in Effects, Tab!ExitArrives(i)  PROVE (KnownPrograms /\ NoneForgotten /\ PtyComes)'
  <2>1. CASE tab.open /\ Tab!RemoveTab([init EXCEPT ![i].ended = TRUE])
    <3>1. [init EXCEPT ![i].ended = TRUE] \in [Effects -> EffectInit]
      BY InitEnds
    <3>2. UNCHANGED <<strayed, reset>>
      BY <1>16 DEF Tab!ExitArrives
    <3> QED
      BY <2>1, <3>1, <3>2, ProgramsRemoved
  <2>2. CASE UNCHANGED <<tab, ref, memo, creation, program, closed>>
    <3>1. UNCHANGED <<strayed, reset>>
      BY <1>16 DEF Tab!ExitArrives
    <3> QED
      BY <2>2, <3>1, ProgramsStay
  <2> QED
    BY <1>16, <2>1, <2>2 DEF Tab!ExitArrives
<1>17. ASSUME NEW i \in Effects, Tab!StreamEnds(i)  PROVE (KnownPrograms /\ NoneForgotten /\ PtyComes)'
  BY <1>17, ProgramsStay DEF Tab!StreamEnds
<1>18. CASE UNCHANGED Tab!vars
  BY <1>18, ProgramsStay DEF Tab!vars
<1> QED
  BY <1>1, <1>2, <1>3, <1>4, <1>5, <1>6, <1>7, <1>8, <1>9, <1>10, <1>11, <1>12, <1>13, <1>14,
     <1>15, <1>16, <1>17, <1>18 DEF Tab!Next, Creations, Effects

(* MCApp's TabKept, for every number of creations, effects, bodies and     *)
(* faults: a tab's streams have an owner, the program of a closed tab is   *)
(* killed, an open tab gets its PTY, and a view tells the end.             *)
THEOREM TabsAreAlwaysKept ==
  ASSUME AppAssumption
  PROVE  Tab!Spec => []TabKept
<1>1. Tab!Init => TabInv
  BY TabInvInit
<1>2. TabInv /\ [Tab!Next]_(Tab!vars) => TabInv'
  BY TabTypedStep, StreamsStep, ProgramsStep DEF TabInv
<1>3. TabInv => TabKept
  <2> SUFFICES ASSUME TabInv  PROVE TabKept
    OBVIOUS
  <2>1. Tab!StreamsOwned
    BY DEF TabInv, OwnedStreams, Tab!StreamsOwned, Effects
  <2>2. Tab!ClosedIsKilled
    BY DEF TabInv, NoneForgotten, Tab!ClosedIsKilled, Creations
  <2>3. Tab!OpenTabHasPty
    BY DEF TabInv, TabTyped, AppRef, PtyComes, Tab!OpenTabHasPty, Creations
  <2> QED
    BY <2>1, <2>2, <2>3 DEF TabInv, TabKept
<1> QED
  BY <1>1, <1>2, <1>3, PTL DEF Tab!Spec

-----------------------------------------------------------------------------
(* The settings (Settings): the file, a window's copy of it and its queue  *)
(* of calls, and the dialog's draft.                                       *)

Sections == Dialog!Section
Values == [Sections -> Nat]
Request ==
  [kind : {"load", "sound", "field", "dialog"}, what : Values, own : SUBSET Sections,
   reply : {"none", "done", "failed"}]
Draft == [open : BOOLEAN, at : Values, edited : SUBSET Sections]

SettingsTyped ==
  /\ file \in Values /\ latest \in Values /\ held \subseteq Sections
  /\ store \in [Window -> Values] /\ loaded \in [Window -> BOOLEAN]
  /\ offered \in [Window -> Nat] /\ draft \in [Window -> Draft]
  /\ requests \in [Window -> Seq(Request)]

Calls(w) == 1..Len(requests[w])

(* No other window has a copy of the settings, or asks for one.            *)
Sole(w) == \A v \in Window \ {w} : ~loaded[v] /\ requests[v] = <<>>

(* The sections of a window's copy of which something is known.  Only the  *)
(* dialog changes the profiles.                                            *)
Clean(w, s) == s \notin held /\ IF Sole(w) THEN s # "focusKey" ELSE s = "profiles"

(* A window that has not loaded waits for its load only, and the main      *)
(* process answers in order.                                               *)
Queued(w) ==
  /\ ~loaded[w] => ~draft[w].open /\ \A i \in Calls(w) : i = 1 /\ requests[w][i].kind = "load"
  /\ \A i \in Calls(w) :
       /\ requests[w][i].kind = "load" =>
            ~loaded[w] /\ (requests[w][i].reply = "failed" => held = Sections)
       /\ requests[w][i].kind # "dialog" => "profiles" \notin requests[w][i].own
       /\ \A j \in Calls(w) :
            j < i /\ requests[w][i].reply # "none" => requests[w][j].reply # "none"

(* A call writes its own changes and, of the other sections, what the      *)
(* window holds and what the calls before it write.                        *)
WritesCopy(w, s) ==
  \A i \in Calls(w) : s \notin requests[w][i].own =>
    /\ requests[w][i].what[s] = store[w][s]
    /\ \A j \in Calls(w) :
         j < i /\ s \in requests[w][j].own => requests[w][j].what[s] = requests[w][i].what[s]

(* What was not edited in the dialog's draft is as the window holds it.    *)
Unedited(w, s) ==
  draft[w].open /\ s \notin draft[w].edited =>
    /\ draft[w].at[s] = store[w][s]
    /\ \A i \in Calls(w) : s \in requests[w][i].own =>
         /\ requests[w][i].kind # "dialog"
         /\ requests[w][i].reply = "done" => requests[w][i].what[s] = draft[w].at[s]

(* The call has written the section, and the window does not know yet.     *)
Wrote(w, s, i) == i \in Calls(w) /\ s \in requests[w][i].own /\ requests[w][i].reply = "done"

(* The file holds what the last of these wrote, or what the window holds.  *)
InFile(w, s) ==
  \/ (\A i \in Calls(w) : ~Wrote(w, s, i)) /\ file[s] = store[w][s]
  \/ \E m \in Calls(w) :
       /\ Wrote(w, s, m) /\ \A j \in Calls(w) : Wrote(w, s, j) => j <= m
       /\ file[s] = requests[w][m].what[s]

(* A window's load brings what the file holds.                             *)
LoadsFile(w, s) ==
  \A i \in Calls(w) :
    requests[w][i].kind = "load" /\ requests[w][i].reply = "done" => requests[w][i].what[s] = file[s]

CopyKnown(w) ==
  /\ loaded[w] => \A s \in Sections : Clean(w, s) => WritesCopy(w, s) /\ Unedited(w, s)
  /\ Sole(w) => \A s \in Sections : Clean(w, s) =>
       (loaded[w] => InFile(w, s)) /\ LoadsFile(w, s)
  /\ loaded[w] => offered[w] = store[w]["profiles"] \/ "profiles" \in held

SavedInFile == \A s \in Sections : s \notin held /\ s # "focusKey" => file[s] = latest[s]

SettingsInv ==
  SettingsTyped /\ SavedInFile /\ \A w \in Window : Queued(w) /\ CopyKnown(w)

LEMMA SectionNames ==
  /\ Sections = {"fields", "prompts", "profiles", "sound", "focusKey", "saved"}
  /\ Dialog!Profiles = "profiles" /\ Dialog!Defaults \in Values
BY DEF Sections, Values, Dialog!Section, Dialog!Fields, Dialog!Profiles, Dialog!Defaults

LEMMA QueueTyped ==
  ASSUME SettingsTyped, NEW w \in Window
  PROVE  /\ requests[w] \in Seq(Request) /\ Len(requests[w]) \in Nat
         /\ \A i \in Calls(w) : /\ requests[w][i] \in Request /\ i \in Nat /\ i >= 1
                                /\ requests[w][i].what \in Values
                                /\ requests[w][i].own \subseteq Sections
         /\ DOMAIN requests[w] = Calls(w)
<1>1. requests[w] \in Seq(Request)
  BY DEF SettingsTyped
<1>2. /\ Len(requests[w]) \in Nat /\ DOMAIN requests[w] = 1..Len(requests[w])
      /\ \A i \in 1..Len(requests[w]) : requests[w][i] \in Request
  BY <1>1
<1>3. \A c \in Request : c.what \in Values /\ c.own \subseteq Sections
  BY DEF Request
<1> QED
  BY <1>1, <1>2, <1>3 DEF Calls

LEMMA SettingsInvInit ==
  ASSUME Dialog!Init
  PROVE  SettingsInv
<1> USE SectionNames DEF Dialog!Init, Dialog!Closed
<1>1. SettingsTyped
  BY DEF SettingsTyped, Draft, Values
<1>2. SavedInFile
  BY DEF SavedInFile
<1>3. ASSUME NEW w \in Window  PROVE Queued(w) /\ CopyKnown(w)
  <2>1. Calls(w) = {} /\ ~loaded[w] /\ ~draft[w].open
    BY DEF Calls
  <2> QED
    BY <2>1 DEF Queued, CopyKnown, LoadsFile
<1> QED
  BY <1>1, <1>2, <1>3 DEF SettingsInv

(* What a call adds to the queue, an answer changes in it, and a reply     *)
(* takes off it.                                                           *)
LEMMA CallSays ==
  ASSUME SettingsTyped, NEW w \in Window, NEW kd \in {"load", "sound", "field", "dialog"},
         NEW what \in Values, NEW own \in SUBSET Sections, Dialog!Call(w, kd, what, own)
  PROVE  /\ requests' \in [Window -> Seq(Request)]
         /\ \A v \in Window \ {w} : requests'[v] = requests[v]
         /\ Len(requests'[w]) = Len(requests[w]) + 1
         /\ \A i \in Calls(w) : requests'[w][i] = requests[w][i]
         /\ requests'[w][Len(requests[w]) + 1].kind = kd
         /\ requests'[w][Len(requests[w]) + 1].what = what
         /\ requests'[w][Len(requests[w]) + 1].own = own
         /\ requests'[w][Len(requests[w]) + 1].reply = "none"
         /\ held \subseteq held' /\ held' \subseteq Sections
         /\ \A s \in Sections : s \notin held' /\ s \notin own =>
              \A i \in Calls(w) : s \in requests[w][i].own => requests[w][i].what[s] = what[s]
<1> DEFINE c == [kind |-> kd, what |-> what, own |-> own, reply |-> "none"]
           q == Append(requests[w], c)
<1>1. c \in Request /\ c.kind = kd /\ c.what = what /\ c.own = own /\ c.reply = "none"
  BY DEF Request
<1>2. requests' = [requests EXCEPT ![w] = q]
  BY DEF Dialog!Call
<1>3. held' = held \cup {s \in Sections \ own :
                 \E i \in DOMAIN requests[w] : s \in requests[w][i].own /\ requests[w][i].what[s] # what[s]}
  BY DEF Dialog!Call, Sections
<1> HIDE DEF c
<1>4. /\ q \in Seq(Request) /\ Len(q) = Len(requests[w]) + 1
      /\ \A i \in 1..Len(requests[w]) : q[i] = requests[w][i]
      /\ q[Len(requests[w]) + 1] = c
  BY <1>1, QueueTyped, AppendProperties
<1> HIDE DEF q
<1>5. requests' \in [Window -> Seq(Request)] /\ requests'[w] = q
      /\ \A v \in Window \ {w} : requests'[v] = requests[v]
  BY <1>2, <1>4 DEF SettingsTyped
<1>6. /\ held \subseteq held' /\ held' \subseteq Sections
      /\ \A s \in Sections : s \notin held' /\ s \notin own =>
           \A i \in Calls(w) : s \in requests[w][i].own => requests[w][i].what[s] = what[s]
  BY <1>3, QueueTyped DEF SettingsTyped
<1> QED
  BY <1>1, <1>4, <1>5, <1>6 DEF Calls

LEMMA AnswerSays ==
  ASSUME SettingsTyped, NEW w \in Window, NEW i \in Calls(w), NEW reply \in {"done", "failed"},
         NEW what \in Values, Dialog!Answer(w, i, reply, what)
  PROVE  /\ requests' \in [Window -> Seq(Request)]
         /\ \A v \in Window \ {w} : requests'[v] = requests[v]
         /\ Len(requests'[w]) = Len(requests[w])
         /\ \A j \in Calls(w) : j # i => requests'[w][j] = requests[w][j]
         /\ requests'[w][i].kind = requests[w][i].kind
         /\ requests'[w][i].own = requests[w][i].own
         /\ requests'[w][i].reply = reply /\ requests'[w][i].what = what
<1> DEFINE l == requests[w]
           x == l[i]
           e == [x EXCEPT !.reply = reply]
           q == [l EXCEPT ![i] = e]
           g == [requests EXCEPT ![w] = q]
           y == [e EXCEPT !.what = what]
           p == [q EXCEPT ![i] = y]
<1>1. /\ x \in Request /\ l \in Seq(Request) /\ i \in 1..Len(l) /\ requests \in [Window -> Seq(Request)]
      /\ Len(l) \in Nat
  BY QueueTyped DEF Calls, SettingsTyped
<1>2. requests' = [requests EXCEPT ![w] = [l EXCEPT ![i] = [x EXCEPT !.reply = reply]],
                                   ![w][i].what = what]
  BY DEF Dialog!Answer
<1> HIDE DEF x
<1>3. e \in Request /\ e.kind = x.kind /\ e.own = x.own /\ e.reply = reply
  BY <1>1 DEF Request
<1>4. requests' = [g EXCEPT ![w][i].what = what]
  BY <1>2
<1> HIDE DEF e
<1>5. /\ q \in Seq(Request) /\ Len(q) = Len(l)
      /\ \A j \in 1..Len(l) : q[j] = IF j = i THEN e ELSE l[j]
  BY <1>1, <1>3, ExceptSeq
<1> HIDE DEF l, q
<1>6. g \in [Window -> Seq(Request)] /\ g[w] = q /\ \A v \in Window \ {w} : g[v] = requests[v]
  BY <1>1, <1>5
<1> HIDE DEF g
<1>7. requests' = [g EXCEPT ![w] = [q EXCEPT ![i] = [e EXCEPT !.what = what]]]
  BY <1>1, <1>4, <1>5, <1>6
<1>8. y \in Request /\ y.kind = x.kind /\ y.own = x.own /\ y.reply = reply /\ y.what = what
  BY <1>3 DEF Request
<1>9. requests' = [g EXCEPT ![w] = p]
  BY <1>7
<1> HIDE DEF y
<1>10. i \in 1..Len(q)
  BY <1>1, <1>5
<1>11. /\ p \in Seq(Request) /\ Len(p) = Len(q)
       /\ \A j \in 1..Len(q) : p[j] = IF j = i THEN y ELSE q[j]
  BY <1>5, <1>8, <1>10, ExceptSeq
<1> HIDE DEF p
<1>12. /\ requests' \in [Window -> Seq(Request)] /\ requests'[w] = p
       /\ \A v \in Window \ {w} : requests'[v] = requests[v]
  BY <1>6, <1>9, <1>11
<1>13. /\ Len(p) = Len(l) /\ p[i] = y
       /\ \A j \in 1..Len(l) : j # i => p[j] = l[j]
  BY <1>1, <1>5, <1>11
<1> QED
  BY <1>8, <1>12, <1>13 DEF Calls, l, x

LEMMA TailSays ==
  ASSUME SettingsTyped, NEW w \in Window, requests[w] # <<>>,
         requests' = [requests EXCEPT ![w] = Tail(@)]
  PROVE  /\ requests' \in [Window -> Seq(Request)]
         /\ \A v \in Window \ {w} : requests'[v] = requests[v]
         /\ 1 \in Calls(w) /\ Head(requests[w]) = requests[w][1]
         /\ Len(requests'[w]) = Len(requests[w]) - 1
         /\ \A i \in Calls(w)' : requests'[w][i] = requests[w][i + 1] /\ i + 1 \in Calls(w)
<1> DEFINE l == requests[w]
           q == Tail(l)
<1>1. l \in Seq(Request) /\ l # <<>> /\ Len(l) \in Nat
  BY QueueTyped
<1>2. requests' = [requests EXCEPT ![w] = q]
  OBVIOUS
<1>3. Len(l) # 0
  BY <1>1, EmptySeq
<1>4. Head(l) = l[1]
  BY <1>1
<1>5. /\ q \in Seq(Request) /\ Len(q) = Len(l) - 1 /\ \A i \in 1..Len(q) : q[i] = l[i + 1]
  BY <1>1, HeadTailProperties
<1> HIDE DEF q, l
<1>6. /\ requests' \in [Window -> Seq(Request)] /\ requests'[w] = q
      /\ \A v \in Window \ {w} : requests'[v] = requests[v]
  BY <1>2, <1>5 DEF SettingsTyped
<1> QED
  BY <1>1, <1>3, <1>4, <1>5, <1>6 DEF Calls, l

(* What is known of the copy of one window stays known when another acts.  *)
LEMMA CleanStays ==
  ASSUME NEW v \in Window, NEW s, held \subseteq held', Clean(v, s)', Sole(v)' => Sole(v)
  PROVE  Clean(v, s)
BY SectionNames DEF Clean

LEMMA OthersKept ==
  ASSUME SettingsInv, NEW w \in Window, NEW v \in Window \ {w},
         requests'[v] = requests[v], store'[v] = store[v], loaded'[v] = loaded[v],
         offered'[v] = offered[v], draft'[v] = draft[v],
         held \subseteq held', held' \subseteq Sections,
         loaded'[w] \/ requests'[w] # <<>>
  PROVE  Queued(v)' /\ CopyKnown(v)'
<1> v \in Window
  OBVIOUS
<1>1. ~Sole(v)'
  BY DEF Sole
<1>2. Queued(v) /\ CopyKnown(v)
  BY DEF SettingsInv
<1>3. ASSUME NEW s \in Sections, Clean(v, s)'  PROVE Clean(v, s)
  BY <1>1, <1>3, CleanStays
<1>4. held = Sections => held' = Sections
  OBVIOUS
<1>5. Queued(v)'
  BY <1>2, <1>4 DEF Queued, Calls
<1>6. ASSUME loaded[v], NEW s \in Sections, Clean(v, s)'
      PROVE  WritesCopy(v, s)' /\ Unedited(v, s)'
  <2>1. WritesCopy(v, s) /\ Unedited(v, s)
    BY <1>2, <1>3, <1>6 DEF CopyKnown
  <2> QED
    BY <2>1 DEF WritesCopy, Unedited, Calls
<1>7. CopyKnown(v)'
  BY <1>1, <1>2, <1>6 DEF CopyKnown
<1> QED
  BY <1>5, <1>7

-----------------------------------------------------------------------------
(* The main process changes the file, without a call.                      *)
LEMMA FileChangeKeeps ==
  ASSUME SettingsInv, UNCHANGED <<store, loaded, offered, draft, requests>>,
         file' \in Values, latest' \in Values, held \subseteq held', held' \subseteq Sections,
         SavedInFile',
         \A w \in Window, s \in Sections :
           (loaded[w] \/ requests[w] # <<>>) /\ s \notin held' /\ s # "focusKey" => file'[s] = file[s]
  PROVE  SettingsInv'
<1>1. SettingsTyped'
  BY DEF SettingsInv, SettingsTyped
<1>2. ASSUME NEW w \in Window  PROVE Queued(w)' /\ CopyKnown(w)'
  <2>1. Queued(w) /\ CopyKnown(w) /\ SettingsTyped
    BY DEF SettingsInv
  <2>2. Sole(w)' <=> Sole(w)
    BY DEF Sole
  <2>3. ASSUME NEW s \in Sections, Clean(w, s)'  PROVE Clean(w, s)
    BY <2>2, <2>3, CleanStays
  <2>4. Queued(w)'
    BY <2>1, ZenonT(60) DEF Queued, Calls
  <2>5. ASSUME loaded[w], NEW s \in Sections, Clean(w, s)'
        PROVE  WritesCopy(w, s)' /\ Unedited(w, s)'
    <3>1. WritesCopy(w, s) /\ Unedited(w, s)
      BY <2>1, <2>3, <2>5 DEF CopyKnown
    <3> QED
      BY <3>1 DEF WritesCopy, Unedited, Calls
  <2>6. ASSUME Sole(w), NEW s \in Sections, Clean(w, s)'
        PROVE  (loaded[w] => InFile(w, s)') /\ LoadsFile(w, s)'
    <3>1. (loaded[w] => InFile(w, s)) /\ LoadsFile(w, s)
      BY <2>1, <2>3, <2>6 DEF CopyKnown
    <3>2. s \notin held' /\ s # "focusKey"
      BY <2>2, <2>6 DEF Clean
    <3>3. loaded[w] \/ requests[w] # <<>> => file'[s] = file[s]
      BY <3>2
    <3>4. requests[w] = <<>> => LoadsFile(w, s)'
      BY DEF LoadsFile, Calls
    <3>5. requests[w] # <<>> => LoadsFile(w, s)'
      BY <3>1, <3>3 DEF LoadsFile, Calls
    <3>6. loaded[w] => InFile(w, s)'
      BY <3>1, <3>3 DEF InFile, Wrote, Calls
    <3> QED
      BY <3>4, <3>5, <3>6
  <2>7. loaded[w] => offered[w] = store[w]["profiles"] \/ "profiles" \in held'
    BY <2>1 DEF CopyKnown
  <2> QED
    BY <2>2, <2>4, <2>5, <2>6, <2>7 DEF CopyKnown
<1> QED
  BY <1>1, <1>2 DEF SettingsInv

(* What the main process loads is the file, but for the focus key.         *)
LEMMA LoadedSays ==
  ASSUME SettingsTyped
  PROVE  /\ Dialog!Loaded \in Values
         /\ health = "good" => \A s \in Sections : s # "focusKey" => Dialog!Loaded[s] = file[s]
         /\ health # "good" => Dialog!Loaded = Dialog!Defaults
<1>1. file \in Values
  BY DEF SettingsTyped
<1>2. \A x \in Values : /\ [x EXCEPT !.focusKey = 0] \in Values
                        /\ \A s \in Sections : s # "focusKey" => [x EXCEPT !.focusKey = 0][s] = x[s]
  BY SectionNames DEF Values
<1> QED
  BY <1>1, <1>2, SectionNames DEF Dialog!Loaded, Dialog!MigrateKeybindings

LEMMA MainChangesSavedKeeps ==
  ASSUME SettingsInv, Dialog!MainChangesSaved
  PROVE  SettingsInv'
<1>1. SettingsTyped /\ SavedInFile
  BY DEF SettingsInv
<1>2. PICK n \in 1..MaxEdits :
        /\ file' = [Dialog!Loaded EXCEPT !.saved = n]
        /\ latest' = [(IF health = "good" THEN latest ELSE Dialog!Defaults) EXCEPT !.saved = n]
  BY DEF Dialog!MainChangesSaved, Dialog!SaveSettings
<1>3. UNCHANGED <<store, loaded, offered, draft, requests>>
  BY DEF Dialog!MainChangesSaved
<1>4. held' = IF ~Dialog!Copied THEN held
              ELSE IF health = "good" THEN held \cup {"saved"} ELSE Sections
  BY DEF Dialog!MainChangesSaved, Sections
<1>5. \A x \in Values : /\ [x EXCEPT !.saved = n] \in Values /\ [x EXCEPT !.saved = n]["saved"] = n
                        /\ \A s \in Sections : s # "saved" => [x EXCEPT !.saved = n][s] = x[s]
  BY SectionNames DEF Values
<1>6. latest \in Values /\ Dialog!Defaults \in Values /\ held \subseteq Sections
  BY <1>1, SectionNames DEF SettingsTyped
<1>7. /\ file' \in Values /\ file'["saved"] = n
      /\ \A s \in Sections : s # "saved" => file'[s] = Dialog!Loaded[s]
  BY <1>1, <1>2, <1>5, LoadedSays
<1>8. /\ latest' \in Values /\ latest'["saved"] = n
      /\ \A s \in Sections : s # "saved" =>
           latest'[s] = IF health = "good" THEN latest[s] ELSE Dialog!Defaults[s]
  BY <1>2, <1>5, <1>6
<1>9. held \subseteq held' /\ held' \subseteq Sections
  BY <1>4, <1>6, SectionNames
<1>10. SavedInFile'
  <2> SUFFICES ASSUME NEW s \in Sections, s \notin held', s # "focusKey"
               PROVE  file'[s] = latest'[s]
    BY DEF SavedInFile
  <2>1. health = "good" /\ s # "saved" => file'[s] = file[s] /\ latest'[s] = latest[s]
    BY <1>1, <1>7, <1>8, LoadedSays
  <2>2. file[s] = latest[s]
    BY <1>1, <1>9 DEF SavedInFile
  <2>3. health # "good" /\ s # "saved" => file'[s] = latest'[s]
    BY <1>1, <1>7, <1>8, LoadedSays
  <2> QED
    BY <1>7, <1>8, <2>1, <2>2, <2>3
<1>11. ASSUME NEW w \in Window, NEW s \in Sections, loaded[w] \/ requests[w] # <<>>,
              s \notin held', s # "focusKey"
       PROVE  file'[s] = file[s]
  <2>1. Dialog!Copied
    BY <1>11 DEF Dialog!Copied
  <2>2. health = "good" /\ s # "saved"
    BY <1>4, <1>11, <2>1
  <2> QED
    BY <1>1, <1>7, <1>11, <2>2, LoadedSays
<1> QED
  BY <1>3, <1>7, <1>8, <1>9, <1>10, <1>11, FileChangeKeeps

LEMMA HandEditKeeps ==
  ASSUME SettingsInv, Dialog!HandEdit
  PROVE  SettingsInv'
<1>1. UNCHANGED <<file, store, loaded, offered, draft, requests, latest, held>>
  BY DEF Dialog!HandEdit
<1>2. file' \in Values /\ latest' \in Values /\ held' \subseteq Sections /\ SavedInFile'
  BY <1>1 DEF SettingsInv, SettingsTyped, SavedInFile
<1> QED
  BY <1>1, <1>2, FileChangeKeeps

-----------------------------------------------------------------------------
(* The main process handles the first call that waits.                     *)
Least == {p \in Nat \X Nat : p[1] < p[2]}

LEMMA LeastOfSome ==
  ASSUME NEW S \in SUBSET Nat, S # {}
  PROVE  \E m \in S : \A k \in S : m <= k
<1>1. IsWellFoundedOn(Least, Nat)
  BY NatLessThanWellFounded DEF Least, OpToRel
<1>2. PICK x \in S : \A y \in S : ~(<<y, x>> \in Least)
  <2> HIDE DEF Least
  <2> QED
    BY <1>1, WFMin
<1>3. ASSUME NEW k \in S PROVE x <= k
  <2>1. k \in Nat /\ x \in Nat /\ ~(k < x)
    BY <1>2 DEF Least
  <2> QED
    BY <2>1
<1> QED
  BY <1>3

LEMMA NextWaits ==
  ASSUME SettingsTyped, NEW w \in Window, Dialog!Pending(w) # {}
  PROVE  /\ Dialog!Next1(w) \in Calls(w) /\ requests[w][Dialog!Next1(w)].reply = "none"
         /\ \A j \in Calls(w) : j < Dialog!Next1(w) => requests[w][j].reply # "none"
<1>1. DOMAIN requests[w] = Calls(w) /\ Calls(w) \subseteq Nat
  BY QueueTyped
<1>2. Dialog!Pending(w) = {i \in Calls(w) : requests[w][i].reply = "none"}
  BY <1>1 DEF Dialog!Pending
<1>3. \E m \in Dialog!Pending(w) : \A k \in Dialog!Pending(w) : m <= k
  BY <1>1, <1>2, LeastOfSome
<1>4. /\ Dialog!Next1(w) \in Dialog!Pending(w)
      /\ \A j \in Dialog!Pending(w) : Dialog!Next1(w) <= j
  BY <1>3 DEF Dialog!Next1
<1>5. ASSUME NEW j \in Calls(w), j < Dialog!Next1(w)  PROVE requests[w][j].reply # "none"
  BY <1>1, <1>2, <1>4, <1>5
<1> QED
  BY <1>2, <1>4, <1>5

LEMMA HandleLoadKeeps ==
  ASSUME SettingsInv, NEW w \in Window, Dialog!HandleLoad(w)
  PROVE  SettingsInv'
<1> DEFINE i == Dialog!Next1(w)
<1>1. SettingsTyped /\ SavedInFile /\ Queued(w) /\ CopyKnown(w)
  BY DEF SettingsInv
<1>2. i \in Calls(w) /\ requests[w][i].reply = "none"
  BY <1>1, NextWaits DEF Dialog!HandleLoad
<1>3. requests[w][i].kind = "load" /\ UNCHANGED <<store, loaded, offered, draft>>
  BY DEF Dialog!HandleLoad
<1>4. /\ Dialog!Loads => /\ Dialog!Answer(w, i, "done", Dialog!Loaded)
                         /\ health = "good" => UNCHANGED <<file, latest, held>>
                         /\ health # "good" =>
                              /\ file' = Dialog!Defaults /\ latest' = Dialog!Defaults
                              /\ held' = IF \E v \in Window : loaded[v] THEN Sections ELSE held
      /\ ~Dialog!Loads => /\ Dialog!Answer(w, i, "failed", Dialog!Defaults)
                          /\ held' = Sections /\ UNCHANGED <<file, latest>>
  BY DEF Dialog!HandleLoad, Dialog!SaveSettings, Sections
<1> HIDE DEF i
<1>5. ~loaded[w] /\ i = 1 /\ \A j \in Calls(w) : j = 1
  BY <1>1, <1>2, <1>3 DEF Queued
<1>6. held \subseteq held' /\ held' \subseteq Sections
  BY <1>1, <1>4 DEF SettingsTyped
<1>7. file' \in Values /\ latest' \in Values
  BY <1>1, <1>4, SectionNames DEF SettingsTyped
<1>8. SavedInFile'
  BY <1>1, <1>4, <1>6 DEF SavedInFile
<1>9. PICK reply \in {"done", "failed"}, what \in Values :
        /\ Dialog!Answer(w, i, reply, what)
        /\ reply = "failed" => held' = Sections
        /\ reply = "done" => what = Dialog!Loaded /\ Dialog!Loads
  BY <1>1, <1>4, SectionNames, LoadedSays
<1>10. /\ requests' \in [Window -> Seq(Request)]
       /\ \A v \in Window \ {w} : requests'[v] = requests[v]
       /\ Len(requests'[w]) = Len(requests[w])
       /\ requests'[w][1].kind = "load" /\ requests'[w][1].own = requests[w][1].own
       /\ requests'[w][1].reply = reply /\ requests'[w][1].what = what
  BY <1>1, <1>2, <1>3, <1>5, <1>9, AnswerSays
<1>11. Calls(w)' = Calls(w) /\ requests'[w] # <<>>
  <2>1. Calls(w)' = Calls(w)
    BY <1>10 DEF Calls
  <2>2. requests'[w] = <<>> => Calls(w)' = {}
    BY DEF Calls
  <2> QED
    BY <1>2, <2>1, <2>2
<1>12. SettingsTyped'
  BY <1>1, <1>3, <1>6, <1>7, <1>10 DEF SettingsTyped
<1>13. ASSUME NEW v \in Window, v # w  PROVE Queued(v)' /\ CopyKnown(v)'
  BY <1>3, <1>6, <1>10, <1>11, <1>13, OthersKept
<1>14. Queued(w)'
  BY <1>1, <1>2, <1>3, <1>5, <1>9, <1>10, <1>11 DEF Queued
<1>15. ASSUME Sole(w)', NEW s \in Sections, Clean(w, s)'  PROVE LoadsFile(w, s)'
  <2>1. s # "focusKey" /\ s \notin held'
    BY <1>15 DEF Clean
  <2>2. reply = "done" => what[s] = file'[s]
    <3>1. CASE health = "good"
      BY <1>1, <1>4, <1>9, <2>1, <3>1, LoadedSays
    <3>2. CASE health # "good"
      BY <1>1, <1>4, <1>9, <3>2, LoadedSays
    <3> QED
      BY <3>1, <3>2
  <2> QED
    BY <1>5, <1>10, <1>11, <2>2 DEF LoadsFile
<1>16. CopyKnown(w)'
  BY <1>3, <1>5, <1>15 DEF CopyKnown
<1> QED
  BY <1>8, <1>12, <1>13, <1>14, <1>16 DEF SettingsInv

(* Before a call writes, the file holds what it says of all that it does   *)
(* not change itself.                                                      *)
LEMMA WritesTheFile ==
  ASSUME SettingsTyped, NEW w \in Window, NEW s \in Sections, NEW i \in Calls(w), Queued(w),
         requests[w][i].reply = "none", s \notin requests[w][i].own,
         WritesCopy(w, s), InFile(w, s)
  PROVE  requests[w][i].what[s] = file[s]
<1>1. \A j \in Calls(w) : j > i => requests[w][j].reply = "none"
  BY DEF Queued
<1>2. Calls(w) \subseteq Nat
  BY QueueTyped
<1>3. CASE \A m \in Calls(w) : ~Wrote(w, s, m)
  <2>1. file[s] = store[w][s]
    BY <1>3 DEF InFile
  <2> QED
    BY <2>1 DEF WritesCopy
<1>4. CASE \E m \in Calls(w) : Wrote(w, s, m)
  <2>1. PICK m \in Calls(w) : Wrote(w, s, m) /\ file[s] = requests[w][m].what[s]
    BY <1>4 DEF InFile
  <2>2. s \in requests[w][m].own /\ requests[w][m].reply = "done"
    BY <2>1 DEF Wrote
  <2>3. m < i
    BY <1>1, <1>2, <2>2
  <2> QED
    BY <2>1, <2>2, <2>3 DEF WritesCopy
<1> QED
  BY <1>3, <1>4

LEMMA HandleSaveKeeps ==
  ASSUME SettingsInv, NEW w \in Window, Dialog!HandleSave(w)
  PROVE  SettingsInv'
<1>1. SettingsTyped /\ SavedInFile /\ Queued(w) /\ CopyKnown(w)
  BY DEF SettingsInv
<1>2. PICK i \in Calls(w) :
        /\ i = Dialog!Next1(w) /\ requests[w][i].reply = "none"
        /\ \A j \in Calls(w) : j < i => requests[w][j].reply # "none"
  BY <1>1, NextWaits DEF Dialog!HandleSave
<1> DEFINE c == requests[w][i]
           changed == {s \in Sections : file[s] # c.what[s]}
           stale == {s \in changed : c.kind # "dialog" /\ draft[w].open /\ draft[w].at[s] # c.what[s]}
<1>3. c.kind # "load" /\ UNCHANGED <<store, loaded, offered, draft>>
  BY <1>2 DEF Dialog!HandleSave
<1>4. \/ /\ file' = c.what /\ Dialog!Answer(w, i, "done", c.what)
         /\ latest' = [s \in Sections |-> IF s \in c.own THEN c.what[s] ELSE latest[s]]
         /\ held' = held \cup stale \cup
              IF \E v \in Window \ {w} : loaded[v] \/ requests[v] # <<>> THEN changed ELSE {}
      \/ Dialog!Answer(w, i, "failed", c.what) /\ UNCHANGED <<file, latest, held>>
  BY <1>2 DEF Dialog!HandleSave, Dialog!SaveSettings, Sections
<1>5. c.what \in Values /\ c.own \subseteq Sections /\ i \in Nat /\ Calls(w) \subseteq Nat
  BY <1>1, <1>2, QueueTyped
<1>6. held \subseteq held' /\ held' \subseteq Sections
  BY <1>1, <1>4 DEF SettingsTyped
<1>7. file' \in Values /\ latest' \in Values
  BY <1>1, <1>4, <1>5 DEF SettingsTyped, Values
<1>8. PICK reply \in {"done", "failed"} :
        /\ Dialog!Answer(w, i, reply, c.what)
        /\ reply = "failed" => UNCHANGED <<file, latest, held>>
        /\ reply = "done" =>
             /\ file' = c.what
             /\ latest' = [s \in Sections |-> IF s \in c.own THEN c.what[s] ELSE latest[s]]
             /\ held' = held \cup stale \cup
                  IF \E v \in Window \ {w} : loaded[v] \/ requests[v] # <<>> THEN changed ELSE {}
  BY <1>4
<1>9. /\ requests' \in [Window -> Seq(Request)]
      /\ \A v \in Window \ {w} : requests'[v] = requests[v]
      /\ Len(requests'[w]) = Len(requests[w])
      /\ \A j \in Calls(w) : /\ j # i => requests'[w][j] = requests[w][j]
                             /\ requests'[w][j].kind = requests[w][j].kind
                             /\ requests'[w][j].own = requests[w][j].own
                             /\ requests'[w][j].what = requests[w][j].what
      /\ requests'[w][i].reply = reply
  BY <1>1, <1>2, <1>5, <1>8, AnswerSays
<1>10. Calls(w)' = Calls(w)
  BY <1>9 DEF Calls
<1>11. requests'[w] # <<>> /\ requests[w] # <<>>
  BY <1>2, <1>10 DEF Calls
<1>12. loaded[w]
  BY <1>1, <1>2, <1>3 DEF Queued
<1>13. SettingsTyped'
  BY <1>1, <1>3, <1>6, <1>7, <1>9 DEF SettingsTyped
<1>14. ASSUME NEW v \in Window, v # w  PROVE Queued(v)' /\ CopyKnown(v)'
  BY <1>3, <1>6, <1>9, <1>11, <1>14, OthersKept
<1>15. Queued(w)'
  BY <1>1, <1>2, <1>3, <1>5, <1>6, <1>9, <1>10, <1>12 DEF Queued
<1>16. Sole(w)' <=> Sole(w)
  BY <1>3, <1>9 DEF Sole
<1>17. ASSUME NEW s \in Sections, Clean(w, s)'  PROVE Clean(w, s) /\ WritesCopy(w, s) /\ Unedited(w, s)
  <2>1. Clean(w, s)
    BY <1>6, <1>16, <1>17, CleanStays
  <2> QED
    BY <1>1, <1>12, <2>1 DEF CopyKnown
<1>18. ASSUME NEW s \in Sections, s \notin held', s # "focusKey", s \notin c.own, reply = "done"
       PROVE  c.what[s] = file[s]
  <2>1. CASE Sole(w)
    <3>1. Clean(w, s)
      BY <1>6, <1>18, <2>1 DEF Clean
    <3>2. WritesCopy(w, s) /\ InFile(w, s)
      BY <1>1, <1>12, <2>1, <3>1 DEF CopyKnown
    <3> QED
      BY <1>1, <1>2, <1>18, <3>2, WritesTheFile
  <2>2. CASE ~Sole(w)
    <3>1. \E v \in Window \ {w} : loaded[v] \/ requests[v] # <<>>
      BY <2>2 DEF Sole
    <3> QED
      BY <1>8, <1>18, <3>1
  <2> QED
    BY <2>1, <2>2
<1>19. SavedInFile'
  <2> SUFFICES ASSUME NEW s \in Sections, s \notin held', s # "focusKey"
               PROVE  file'[s] = latest'[s]
    BY DEF SavedInFile
  <2>1. s \notin held /\ file[s] = latest[s]
    BY <1>1, <1>6 DEF SavedInFile
  <2> QED
    BY <1>8, <1>18, <2>1
<1>20. ASSUME NEW s \in Sections, Clean(w, s)'  PROVE WritesCopy(w, s)'
  BY <1>3, <1>9, <1>10, <1>17, <1>20 DEF WritesCopy
<1>21. ASSUME NEW s \in Sections, Clean(w, s)'  PROVE Unedited(w, s)'
  <2> SUFFICES ASSUME draft[w].open, s \notin draft[w].edited
               PROVE  /\ draft[w].at[s] = store[w][s]
                      /\ \A j \in Calls(w) : s \in requests[w][j].own =>
                           /\ requests[w][j].kind # "dialog"
                           /\ requests'[w][j].reply = "done" => requests[w][j].what[s] = draft[w].at[s]
    BY <1>3, <1>9, <1>10 DEF Unedited
  <2>1. /\ draft[w].at[s] = store[w][s]
        /\ \A j \in Calls(w) : s \in requests[w][j].own =>
             /\ requests[w][j].kind # "dialog"
             /\ requests[w][j].reply = "done" => requests[w][j].what[s] = draft[w].at[s]
    BY <1>17, <1>21 DEF Unedited
  <2>2. ASSUME s \in c.own, reply = "done"  PROVE c.what[s] = draft[w].at[s]
    <3>1. s \notin stale /\ s \notin held'
      BY <1>8, <1>21, <2>2 DEF Clean
    <3>2. CASE file[s] # c.what[s]
      BY <1>2, <2>1, <2>2, <3>1, <3>2
    <3>3. CASE file[s] = c.what[s] /\ Sole(w)
      <4>1. InFile(w, s)
        BY <1>1, <1>12, <1>17, <1>21, <3>3 DEF CopyKnown
      <4>2. file[s] = store[w][s] \/ \E m \in Calls(w) : Wrote(w, s, m) /\ file[s] = requests[w][m].what[s]
        BY <4>1 DEF InFile
      <4> QED
        BY <2>1, <3>3, <4>2 DEF Wrote
    <3>4. CASE ~Sole(w)
      <4>1. s = "profiles"
        BY <1>17, <1>21, <3>4 DEF Clean
      <4> QED
        BY <1>1, <1>2, <2>1, <2>2, <4>1 DEF Queued
    <3> QED
      BY <3>2, <3>3, <3>4
  <2> QED
    BY <1>9, <2>1, <2>2
<1>22. ASSUME Sole(w), NEW s \in Sections, Clean(w, s)'  PROVE InFile(w, s)'
  <2>1. s # "focusKey" /\ s \notin held'
    BY <1>16, <1>22 DEF Clean
  <2>2. WritesCopy(w, s) /\ InFile(w, s)
    BY <1>1, <1>12, <1>17, <1>22 DEF CopyKnown
  <2>3. ASSUME NEW j 
        PROVE  Wrote(w, s, j)' <=> Wrote(w, s, j) \/ (j = i /\ s \in c.own /\ reply = "done")
    BY <1>2, <1>9, <1>10 DEF Wrote
  <2>4. CASE s \in c.own /\ reply = "done"
    <3>1. file'[s] = requests'[w][i].what[s] /\ Wrote(w, s, i)'
      BY <1>2, <1>8, <1>9, <2>3, <2>4
    <3>2. ASSUME NEW j \in Calls(w), Wrote(w, s, j)'  PROVE j <= i
      <4>1. requests[w][j].reply # "none" \/ j = i
        BY <2>3, <3>2 DEF Wrote
      <4> QED
        BY <1>1, <1>2, <1>5, <4>1 DEF Queued
    <3> QED
      BY <1>2, <1>10, <3>1, <3>2 DEF InFile
  <2>5. CASE ~(s \in c.own /\ reply = "done")
    <3>1. file'[s] = file[s]
      BY <1>8, <1>18, <2>1, <2>5
    <3>2. \A j : Wrote(w, s, j)' <=> Wrote(w, s, j)
      BY <2>3, <2>5
    <3> QED
      BY <1>3, <1>9, <1>10, <2>2, <3>1, <3>2 DEF InFile
  <2> QED
    BY <2>4, <2>5
<1>23. \A s \in Sections : LoadsFile(w, s)'
  BY <1>1, <1>9, <1>10, <1>12 DEF LoadsFile, Queued
<1>24. CopyKnown(w)'
  <2>1. offered[w] = store[w]["profiles"] \/ "profiles" \in held'
    BY <1>1, <1>6, <1>12 DEF CopyKnown
  <2> QED
    BY <1>3, <1>16, <1>20, <1>21, <1>22, <1>23, <2>1 DEF CopyKnown
<1> QED
  BY <1>13, <1>14, <1>15, <1>19, <1>24 DEF SettingsInv

-----------------------------------------------------------------------------
(* A window makes a call: its load, or one that writes its changes on top  *)
(* of its copy.                                                            *)
LEMMA CallKeeps ==
  ASSUME SettingsInv, NEW w \in Window, NEW kd \in {"load", "sound", "field", "dialog"},
         NEW what \in Values, NEW own \in SUBSET Sections, Dialog!Call(w, kd, what, own),
         UNCHANGED <<file, store, loaded, offered, draft, latest>>,
         kd = "load" => ~loaded[w] /\ requests[w] = <<>>,
         kd # "load" => loaded[w],
         kd # "dialog" => "profiles" \notin own,
         loaded[w] => \A s \in Sections : Clean(w, s) /\ s \notin own => what[s] = store[w][s],
         kd = "dialog" => draft[w].open /\ own = draft[w].edited
  PROVE  SettingsInv'
<1>1. SettingsTyped /\ SavedInFile /\ Queued(w) /\ CopyKnown(w)
  BY DEF SettingsInv
<1>2. PICK m \in Nat : m = Len(requests[w]) + 1
  BY <1>1, QueueTyped
<1>3. /\ requests' \in [Window -> Seq(Request)]
      /\ \A v \in Window \ {w} : requests'[v] = requests[v]
      /\ \A i \in Calls(w) : requests'[w][i] = requests[w][i]
      /\ requests'[w][m].kind = kd /\ requests'[w][m].what = what
      /\ requests'[w][m].own = own /\ requests'[w][m].reply = "none"
      /\ held \subseteq held' /\ held' \subseteq Sections
      /\ Len(requests'[w]) = Len(requests[w]) + 1
  BY <1>1, <1>2, CallSays
<1>4. \A s \in Sections : s \notin held' /\ s \notin own =>
        \A i \in Calls(w) : s \in requests[w][i].own => requests[w][i].what[s] = what[s]
  BY <1>1, CallSays
<1>5. Calls(w)' = Calls(w) \cup {m} /\ m \in Nat /\ \A i \in Calls(w) : i \in Nat /\ i < m
  <2>1. Len(requests[w]) \in Nat
    BY <1>1, QueueTyped
  <2> QED
    BY <1>2, <1>3, <2>1 DEF Calls
<1>6. SettingsTyped'
  BY <1>1, <1>3 DEF SettingsTyped
<1>7. SavedInFile'
  BY <1>1, <1>3 DEF SavedInFile
<1>8. requests'[w] # <<>>
  BY <1>2, <1>3, <1>1, QueueTyped
<1>9. ASSUME NEW v \in Window, v # w  PROVE Queued(v)' /\ CopyKnown(v)'
  BY <1>3, <1>8, <1>9, OthersKept
<1>10. Sole(w)' <=> Sole(w)
  BY <1>3 DEF Sole
<1>11. ASSUME NEW s \in Sections, Clean(w, s)'  PROVE Clean(w, s)
  BY <1>3, <1>10, <1>11, CleanStays
<1>12. ASSUME ~loaded[w]  PROVE Queued(w)' /\ CopyKnown(w)'
  <2>1. kd = "load" /\ requests[w] = <<>>
    BY <1>12
  <2>2. Calls(w) = {} /\ Calls(w)' = {1}
    BY <1>2, <1>3, <2>1 DEF Calls
  <2>3. m = 1
    BY <1>2, <2>1
  <2>4. Queued(w)'
    BY <1>1, <1>3, <1>12, <2>1, <2>2, <2>3 DEF Queued
  <2>5. \A s \in Sections : LoadsFile(w, s)'
    BY <1>3, <2>2, <2>3 DEF LoadsFile
  <2> QED
    BY <1>12, <2>4, <2>5 DEF CopyKnown
<1>13. ASSUME loaded[w]  PROVE Queued(w)'
  <2>1. ASSUME NEW i \in Calls(w)'
        PROVE  /\ requests'[w][i].kind # "load"
               /\ requests'[w][i].kind # "dialog" => "profiles" \notin requests'[w][i].own
    BY <1>1, <1>3, <1>5, <1>13, <2>1 DEF Queued
  <2>2. ASSUME NEW i \in Calls(w)', NEW j \in Calls(w)', j < i, requests'[w][i].reply # "none"
        PROVE  requests'[w][j].reply # "none"
    <3>1. i \in Calls(w)
      BY <1>3, <1>5, <2>2
    <3>2. j \in Calls(w)
      BY <1>5, <2>2, <3>1
    <3> QED
      BY <1>1, <1>3, <2>2, <3>1, <3>2 DEF Queued
  <2> QED
    BY <1>13, <2>1, <2>2 DEF Queued
<1>14. ASSUME loaded[w], NEW s \in Sections, Clean(w, s)'  PROVE WritesCopy(w, s)' /\ Unedited(w, s)'
  <2>1. Clean(w, s) /\ s \notin held' /\ WritesCopy(w, s) /\ Unedited(w, s)
    BY <1>1, <1>11, <1>14 DEF CopyKnown, Clean
  <2>2. ASSUME NEW i \in Calls(w)', s \notin requests'[w][i].own
        PROVE  /\ requests'[w][i].what[s] = store[w][s]
               /\ \A j \in Calls(w)' :
                    j < i /\ s \in requests'[w][j].own => requests'[w][j].what[s] = requests'[w][i].what[s]
    <3>1. CASE i \in Calls(w)
      <4>1. \A j \in Calls(w)' : j < i => j \in Calls(w)
        BY <1>5, <3>1
      <4> QED
        BY <1>3, <2>1, <2>2, <3>1, <4>1, SMTT(30) DEF WritesCopy
    <3>2. CASE i = m
      <4>1. \A j \in Calls(w)' : j < i => j \in Calls(w)
        BY <1>5, <3>2
      <4> QED
        BY <1>3, <1>4, <1>14, <2>1, <2>2, <3>2, <4>1
    <3> QED
      BY <1>5, <3>1, <3>2
  <2>3. WritesCopy(w, s)'
    BY <2>2 DEF WritesCopy
  <2>4. Unedited(w, s)'
    BY <1>3, <1>5, <2>1 DEF Unedited
  <2> QED
    BY <2>3, <2>4
<1>15. ASSUME loaded[w], Sole(w), NEW s \in Sections, Clean(w, s)' 
       PROVE  InFile(w, s)' /\ LoadsFile(w, s)'
  <2>1. InFile(w, s) /\ \A i \in Calls(w)' : requests'[w][i].kind # "load"
    BY <1>1, <1>3, <1>5, <1>11, <1>15 DEF CopyKnown, Queued
  <2>2. \A j : Wrote(w, s, j)' <=> Wrote(w, s, j)
    BY <1>3, <1>5 DEF Wrote
  <2>3. InFile(w, s)'
    <3>1. CASE \A j : ~Wrote(w, s, j)
      BY <2>1, <2>2, <3>1 DEF InFile
    <3>2. CASE \E j : Wrote(w, s, j)
      <4>1. PICK k \in Calls(w) :
              /\ Wrote(w, s, k) /\ \A j \in Calls(w) : Wrote(w, s, j) => j <= k
              /\ file[s] = requests[w][k].what[s]
        BY <2>1, <3>2 DEF InFile, Wrote
      <4>2. \A j \in Calls(w)' : Wrote(w, s, j)' => j <= k
        BY <2>2, <4>1 DEF Wrote
      <4>3. Wrote(w, s, k)' /\ k \in Calls(w)' /\ file'[s] = requests'[w][k].what[s]
        BY <1>3, <1>5, <2>2, <4>1
      <4> QED
        BY <4>2, <4>3 DEF InFile
    <3> QED
      BY <3>1, <3>2
  <2> QED
    BY <2>1, <2>3 DEF LoadsFile
<1>16. ASSUME loaded[w]  PROVE CopyKnown(w)'
  <2>1. offered[w] = store[w]["profiles"] \/ "profiles" \in held'
    BY <1>1, <1>3, <1>16 DEF CopyKnown
  <2> QED
    BY <1>10, <1>14, <1>15, <1>16, <2>1 DEF CopyKnown
<1> QED
  BY <1>6, <1>7, <1>9, <1>12, <1>13, <1>16 DEF SettingsInv

LEMMA StartKeeps ==
  ASSUME SettingsInv, NEW w \in Window, Dialog!Start(w)
  PROVE  SettingsInv'
<1>1. /\ Dialog!Call(w, "load", Dialog!Defaults, {}) /\ ~loaded[w] /\ requests[w] = <<>>
      /\ UNCHANGED <<file, store, loaded, offered, draft, latest>>
  BY DEF Dialog!Start
<1> QED
  BY <1>1, SectionNames, CallKeeps

(* A section of the copy is changed and all of it is written.              *)
LEMMA OneSectionKeeps ==
  ASSUME SettingsInv, NEW w \in Window, NEW what \in Values,
         NEW kd \in {"sound", "field"}, NEW s \in Sections, s # "profiles",
         loaded[w], Dialog!Call(w, kd, what, {s}), \A x \in Sections \ {s} : what[x] = store[w][x],
         UNCHANGED <<file, store, loaded, offered, draft, latest>>
  PROVE  SettingsInv'
BY CallKeeps

LEMMA StoreSays ==
  ASSUME SettingsInv, NEW w \in Window, NEW n \in 1..MaxEdits
  PROVE  /\ [store[w] EXCEPT !.sound = n] \in Values
         /\ \A x \in Sections \ {"sound"} : [store[w] EXCEPT !.sound = n][x] = store[w][x]
         /\ [store[w] EXCEPT !.prompts = n] \in Values
         /\ \A x \in Sections \ {"prompts"} : [store[w] EXCEPT !.prompts = n][x] = store[w][x]
<1>1. store[w] \in Values
  BY DEF SettingsInv, SettingsTyped
<1> QED
  BY <1>1, SectionNames DEF Values

LEMMA ToggleSoundKeeps ==
  ASSUME SettingsInv, NEW w \in Window, Dialog!ToggleSound(w)
  PROVE  SettingsInv'
<1>1. PICK n \in 1..MaxEdits : Dialog!Call(w, "sound", [store[w] EXCEPT !.sound = n], {"sound"})
  BY DEF Dialog!ToggleSound
<1>2. loaded[w] /\ UNCHANGED <<file, store, loaded, offered, draft, latest>>
  BY DEF Dialog!ToggleSound
<1>3. "sound" \in Sections
  BY SectionNames
<1> DEFINE what == [store[w] EXCEPT !.sound = n]
<1>4. what \in Values /\ \A x \in Sections \ {"sound"} : what[x] = store[w][x]
  BY StoreSays
<1>5. Dialog!Call(w, "sound", what, {"sound"})
  BY <1>1
<1> HIDE DEF what
<1> QED
  BY <1>2, <1>3, <1>4, <1>5, OneSectionKeeps

LEMMA UpdateSettingKeeps ==
  ASSUME SettingsInv, NEW w \in Window, Dialog!UpdateSetting(w)
  PROVE  SettingsInv'
<1>1. PICK n \in 1..MaxEdits : Dialog!Call(w, "field", [store[w] EXCEPT !.prompts = n], {"prompts"})
  BY DEF Dialog!UpdateSetting
<1>2. loaded[w] /\ UNCHANGED <<file, store, loaded, offered, draft, latest>>
  BY DEF Dialog!UpdateSetting
<1>3. "prompts" \in Sections
  BY SectionNames
<1> DEFINE what == [store[w] EXCEPT !.prompts = n]
<1>4. what \in Values /\ \A x \in Sections \ {"prompts"} : what[x] = store[w][x]
  BY StoreSays
<1>5. Dialog!Call(w, "field", what, {"prompts"})
  BY <1>1
<1> HIDE DEF what
<1> QED
  BY <1>2, <1>3, <1>4, <1>5, OneSectionKeeps

LEMMA SaveDialogKeeps ==
  ASSUME SettingsInv, NEW w \in Window, Dialog!SaveDialog(w)
  PROVE  SettingsInv'
<1>1. /\ draft[w].open /\ Dialog!Call(w, "dialog", draft[w].at, draft[w].edited)
      /\ UNCHANGED <<file, store, loaded, offered, draft, latest>>
  BY DEF Dialog!SaveDialog
<1>2. draft[w] \in Draft /\ Queued(w) /\ CopyKnown(w)
  BY DEF SettingsInv, SettingsTyped
<1>3. draft[w].at \in Values /\ draft[w].edited \in SUBSET Sections
  BY <1>2 DEF Draft
<1>4. loaded[w]
  BY <1>1, <1>2 DEF Queued
<1>5. \A s \in Sections : Clean(w, s) /\ s \notin draft[w].edited => draft[w].at[s] = store[w][s]
  BY <1>1, <1>2, <1>4 DEF CopyKnown, Unedited
<1> QED
  BY <1>1, <1>3, <1>4, <1>5, CallKeeps

-----------------------------------------------------------------------------
(* The reply to the first call of a window: the copy becomes what was      *)
(* written, and what is said of the other calls moves up by one.           *)
LEMMA ReplyTyped ==
  ASSUME SettingsInv, NEW w \in Window, Dialog!Reply(w)
  PROVE  /\ SettingsTyped'
         /\ loaded'[w] /\ \A v \in Window \ {w} : loaded'[v] = loaded[v]
         /\ store'[w] = IF requests[w][1].reply = "done" THEN requests[w][1].what ELSE store[w]
         /\ \A v \in Window \ {w} : store'[v] = store[v]
         /\ offered'[w] = IF requests[w][1].reply = "done" /\ requests[w][1].kind # "sound"
                            THEN requests[w][1].what["profiles"] ELSE offered[w]
         /\ \A v \in Window \ {w} : offered'[v] = offered[v]
         /\ requests[w][1].reply = "done" /\ requests[w][1].kind = "dialog" => ~draft'[w].open
         /\ ~(requests[w][1].reply = "done" /\ requests[w][1].kind = "dialog") => draft'[w] = draft[w]
         /\ \A v \in Window \ {w} : draft'[v] = draft[v]
<1> DEFINE c == requests[w][1]
           x == draft[w]
           e == [x EXCEPT !.open = FALSE]
<1>1. SettingsTyped
  BY DEF SettingsInv
<1>2. /\ requests[w] # <<>> /\ requests' = [requests EXCEPT ![w] = Tail(@)]
      /\ UNCHANGED <<file, latest, held>>
      /\ loaded' = [loaded EXCEPT ![w] = TRUE]
  BY DEF Dialog!Reply
<1>3. /\ requests' \in [Window -> Seq(Request)] /\ Head(requests[w]) = c
      /\ c.what \in Values
  BY <1>1, <1>2, TailSays, QueueTyped
<1>4. /\ store' = IF c.reply = "done" THEN [store EXCEPT ![w] = c.what] ELSE store
      /\ offered' = IF c.reply = "done" /\ c.kind # "sound"
                      THEN [offered EXCEPT ![w] = c.what["profiles"]] ELSE offered
      /\ draft' = IF c.reply = "done" /\ c.kind = "dialog" THEN [draft EXCEPT ![w] = e] ELSE draft
  BY <1>3, SectionNames DEF Dialog!Reply, Dialog!Registers
<1>5. x \in Draft
  BY <1>1 DEF SettingsTyped
<1> HIDE DEF x
<1>6. e \in Draft /\ ~e.open
  BY <1>5 DEF Draft
<1> HIDE DEF e, c
<1>7. c.what["profiles"] \in Nat
  BY <1>3, SectionNames DEF Values
<1>8. store' \in [Window -> Values] /\ offered' \in [Window -> Nat] /\ draft' \in [Window -> Draft]
  BY <1>1, <1>3, <1>4, <1>6, <1>7 DEF SettingsTyped
<1>9. SettingsTyped'
  BY <1>1, <1>2, <1>3, <1>8 DEF SettingsTyped
<1>10. loaded'[w] /\ \A v \in Window \ {w} : loaded'[v] = loaded[v]
  BY <1>1, <1>2 DEF SettingsTyped
<1>11. /\ store'[w] = IF c.reply = "done" THEN c.what ELSE store[w]
       /\ \A v \in Window \ {w} : store'[v] = store[v]
  BY <1>1, <1>4 DEF SettingsTyped
<1>12. /\ offered'[w] = IF c.reply = "done" /\ c.kind # "sound" THEN c.what["profiles"] ELSE offered[w]
       /\ \A v \in Window \ {w} : offered'[v] = offered[v]
  BY <1>1, <1>4 DEF SettingsTyped
<1>13. /\ c.reply = "done" /\ c.kind = "dialog" => ~draft'[w].open
       /\ ~(c.reply = "done" /\ c.kind = "dialog") => draft'[w] = draft[w]
       /\ \A v \in Window \ {w} : draft'[v] = draft[v]
  BY <1>1, <1>4, <1>6 DEF SettingsTyped
<1> QED
  BY <1>9, <1>10, <1>11, <1>12, <1>13 DEF c

LEMMA ReplyKeeps ==
  ASSUME SettingsInv, NEW w \in Window, Dialog!Reply(w)
  PROVE  SettingsInv'
<1> DEFINE c == requests[w][1]
           done == c.reply = "done"
<1>1. SettingsTyped /\ SavedInFile /\ Queued(w) /\ CopyKnown(w)
  BY DEF SettingsInv
<1>2. /\ requests[w] # <<>> /\ requests' = [requests EXCEPT ![w] = Tail(@)]
      /\ UNCHANGED <<file, latest, held>>
  BY DEF Dialog!Reply
<1>3. /\ \A v \in Window \ {w} : requests'[v] = requests[v]
      /\ 1 \in Calls(w) /\ Len(requests'[w]) = Len(requests[w]) - 1
      /\ \A i \in Calls(w)' : requests'[w][i] = requests[w][i + 1] /\ i + 1 \in Calls(w)
  BY <1>1, <1>2, TailSays
<1>4. c.reply \in {"done", "failed"}
  <2>1. Head(requests[w]).reply # "none"
    BY DEF Dialog!Reply
  <2>2. Head(requests[w]) = c /\ c \in Request
    BY <1>1, <1>2, TailSays, QueueTyped
  <2> QED
    BY <2>1, <2>2 DEF Request
<1>5. /\ SettingsTyped' /\ loaded'[w] /\ \A v \in Window \ {w} : loaded'[v] = loaded[v]
      /\ store'[w] = IF done THEN c.what ELSE store[w]
      /\ \A v \in Window \ {w} : store'[v] = store[v]
      /\ offered'[w] = IF done /\ c.kind # "sound" THEN c.what["profiles"] ELSE offered[w]
      /\ \A v \in Window \ {w} : offered'[v] = offered[v]
      /\ done /\ c.kind = "dialog" => ~draft'[w].open
      /\ ~(done /\ c.kind = "dialog") => draft'[w] = draft[w]
      /\ \A v \in Window \ {w} : draft'[v] = draft[v]
  BY ReplyTyped
<1>6. Calls(w) \subseteq Nat /\ \A i \in Calls(w) : i >= 1
  BY <1>1, QueueTyped
<1>7. \A i \in Calls(w) : i = 1 \/ (i - 1 \in Calls(w)' /\ requests'[w][i - 1] = requests[w][i])
  <2>1. Len(requests[w]) \in Nat
    BY <1>1, QueueTyped
  <2>2. \A i \in Calls(w) : i = 1 \/ (i - 1 \in Calls(w)' /\ (i - 1) + 1 = i)
    BY <1>3, <2>1 DEF Calls
  <2> QED
    BY <1>3, <2>2
<1>8. Calls(w)' \subseteq Nat
  <2>1. Len(requests[w]) \in Nat
    BY <1>1, QueueTyped
  <2> QED
    BY <1>3, <2>1 DEF Calls
<1> HIDE DEF c, done
<1>9. SavedInFile'
  BY <1>1, <1>2 DEF SavedInFile
<1>10. held \subseteq held' /\ held' \subseteq Sections
  BY <1>1, <1>2 DEF SettingsTyped
<1>11. ASSUME NEW v \in Window, v # w  PROVE Queued(v)' /\ CopyKnown(v)'
  BY <1>3, <1>5, <1>10, <1>11, OthersKept
<1>12. Sole(w)' <=> Sole(w)
  BY <1>3, <1>5 DEF Sole
<1>13. ASSUME NEW s \in Sections, Clean(w, s)'  PROVE Clean(w, s)
  BY <1>10, <1>12, <1>13, CleanStays
<1>14. CASE ~loaded[w]
  <2>1. c.kind = "load" /\ (c.reply = "failed" => held = Sections) /\ Calls(w)' = {} /\ ~draft[w].open
    <3>1. c.kind = "load" /\ (c.reply = "failed" => held = Sections) /\ ~draft[w].open
      BY <1>1, <1>3, <1>14 DEF Queued, c
    <3>2. ASSUME NEW i \in Calls(w)'  PROVE FALSE
      <4>1. i + 1 = 1
        BY <1>1, <1>3, <1>14 DEF Queued
      <4>2. i \in Nat /\ i >= 1
        BY <1>8 DEF Calls
      <4> QED
        BY <4>1, <4>2
    <3> QED
      BY <3>1, <3>2
  <2>2. ~draft'[w].open
    BY <1>5, <2>1
  <2>3. Queued(w)'
    BY <1>5, <2>1 DEF Queued
  <2>4. ASSUME NEW s \in Sections, Clean(w, s)' 
        PROVE  WritesCopy(w, s)' /\ Unedited(w, s)' /\ LoadsFile(w, s)'
    BY <2>1, <2>2 DEF WritesCopy, Unedited, LoadsFile
  <2>5. ASSUME Sole(w), NEW s \in Sections, Clean(w, s)'  PROVE InFile(w, s)'
    <3>1. done
      BY <1>2, <1>4, <2>1, <2>5 DEF Clean, done
    <3>2. c.what[s] = file[s]
      BY <1>1, <1>3, <1>13, <2>1, <2>5, <3>1 DEF CopyKnown, LoadsFile, c, done
    <3> QED
      BY <1>2, <1>5, <2>1, <3>1, <3>2 DEF InFile
  <2>6. offered'[w] = store'[w]["profiles"] \/ "profiles" \in held'
    BY <1>2, <1>4, <1>5, <2>1, SectionNames DEF done
  <2>7. CopyKnown(w)'
    BY <1>12, <2>4, <2>5, <2>6 DEF CopyKnown
  <2> QED
    BY <1>5, <1>9, <1>11, <2>3, <2>7 DEF SettingsInv
<1>15. CASE loaded[w]
  <2>1. Queued(w)'
    <3>1. ASSUME NEW i \in Calls(w)'
          PROVE  /\ requests'[w][i].kind # "load"
                 /\ requests'[w][i].kind # "dialog" => "profiles" \notin requests'[w][i].own
      BY <1>1, <1>3, <1>15 DEF Queued
    <3>2. ASSUME NEW i \in Calls(w)', NEW j \in Calls(w)', j < i, requests'[w][i].reply # "none"
          PROVE  requests'[w][j].reply # "none"
      <4>1. i + 1 \in Calls(w) /\ j + 1 \in Calls(w) /\ j + 1 < i + 1
        BY <1>3, <1>8, <3>2
      <4> QED
        BY <1>1, <1>3, <3>2, <4>1 DEF Queued
    <3> QED
      BY <1>5, <3>1, <3>2 DEF Queued
  <2>2. c.kind # "load" /\ (c.kind # "dialog" => "profiles" \notin c.own)
    BY <1>1, <1>3, <1>15 DEF Queued, c
  <2>3. ASSUME NEW s \in Sections, Clean(w, s)'
        PROVE  /\ Clean(w, s) /\ WritesCopy(w, s) /\ Unedited(w, s)
               /\ s \notin c.own => c.what[s] = store[w][s]
    <3>1. Clean(w, s) /\ WritesCopy(w, s) /\ Unedited(w, s)
      BY <1>1, <1>13, <1>15, <2>3 DEF CopyKnown
    <3> QED
      BY <1>3, <3>1 DEF WritesCopy, c
  <2>4. ASSUME NEW s \in Sections, Clean(w, s)'  PROVE WritesCopy(w, s)'
    <3> SUFFICES ASSUME NEW i \in Calls(w)', s \notin requests'[w][i].own
                 PROVE  /\ requests'[w][i].what[s] = store'[w][s]
                        /\ \A j \in Calls(w)' : j < i /\ s \in requests'[w][j].own =>
                             requests'[w][j].what[s] = requests'[w][i].what[s]
      BY DEF WritesCopy
    <3>1. i + 1 \in Calls(w) /\ requests'[w][i] = requests[w][i + 1] /\ i \in Nat /\ 1 < i + 1
      <4>1. i \in Nat /\ i >= 1
        BY <1>8 DEF Calls
      <4> QED
        BY <1>3, <4>1
    <3>2. /\ requests[w][i + 1].what[s] = store[w][s]
          /\ \A j \in Calls(w) : j < i + 1 /\ s \in requests[w][j].own =>
               requests[w][j].what[s] = requests[w][i + 1].what[s]
      BY <2>3, <2>4, <3>1 DEF WritesCopy
    <3>3. requests'[w][i].what[s] = store'[w][s]
      BY <1>3, <1>5, <2>3, <2>4, <3>1, <3>2 DEF c
    <3>4. ASSUME NEW j \in Calls(w)', j < i, s \in requests'[w][j].own
          PROVE  requests'[w][j].what[s] = requests'[w][i].what[s]
      <4>1. j + 1 \in Calls(w) /\ requests'[w][j] = requests[w][j + 1] /\ j + 1 < i + 1
        BY <1>3, <1>8, <3>1, <3>4
      <4> QED
        BY <3>1, <3>2, <3>4, <4>1
    <3> QED
      BY <3>3, <3>4
  <2>5. ASSUME NEW s \in Sections, Clean(w, s)'  PROVE Unedited(w, s)'
    <3> SUFFICES ASSUME draft'[w].open, s \notin draft'[w].edited
                 PROVE  /\ draft'[w].at[s] = store'[w][s]
                        /\ \A i \in Calls(w)' : s \in requests'[w][i].own =>
                             /\ requests'[w][i].kind # "dialog"
                             /\ requests'[w][i].reply = "done" => requests'[w][i].what[s] = draft'[w].at[s]
      BY DEF Unedited
    <3>1. ~(done /\ c.kind = "dialog") /\ draft'[w] = draft[w]
      BY <1>5
    <3>2. /\ draft[w].at[s] = store[w][s]
          /\ \A i \in Calls(w) : s \in requests[w][i].own =>
               /\ requests[w][i].kind # "dialog"
               /\ requests[w][i].reply = "done" => requests[w][i].what[s] = draft[w].at[s]
      BY <2>3, <2>5, <3>1 DEF Unedited
    <3>3. done => c.what[s] = draft[w].at[s]
      BY <1>3, <2>3, <2>5, <3>2 DEF c, done
    <3> QED
      BY <1>3, <1>5, <3>1, <3>2, <3>3
  <2>6. ASSUME Sole(w), NEW s \in Sections, Clean(w, s)'  PROVE InFile(w, s)' /\ LoadsFile(w, s)'
    <3>1. InFile(w, s)
      BY <1>1, <1>15, <2>3, <2>6 DEF CopyKnown
    <3>2. \A i \in Calls(w)' : requests'[w][i].kind # "load"
      BY <1>1, <1>3, <1>15 DEF Queued
    <3>3. \A i \in Calls(w)' : Wrote(w, s, i)' <=> Wrote(w, s, i + 1)
      BY <1>3 DEF Wrote
    <3>4. CASE \A i \in Calls(w) : ~Wrote(w, s, i)
      <4>1. file[s] = store[w][s] /\ ~Wrote(w, s, 1)
        BY <1>3, <3>1, <3>4 DEF InFile
      <4>2. done => c.what[s] = store[w][s]
        BY <1>3, <2>3, <2>6, <4>1 DEF Wrote, c, done
      <4>3. \A i \in Calls(w)' : ~Wrote(w, s, i)'
        BY <1>3, <3>3, <3>4
      <4> QED
        BY <1>2, <1>5, <3>2, <4>1, <4>2, <4>3 DEF InFile, LoadsFile
    <3>5. ASSUME NEW m \in Calls(w), Wrote(w, s, m), \A j \in Calls(w) : Wrote(w, s, j) => j <= m,
                 file[s] = requests[w][m].what[s]
          PROVE  InFile(w, s)'
      <4>1. CASE m = 1
        <5>1. done /\ file[s] = c.what[s]
          BY <3>5, <4>1 DEF Wrote, c, done
        <5>2. \A i \in Calls(w)' : ~Wrote(w, s, i)'
          <6> SUFFICES ASSUME NEW i \in Calls(w)', Wrote(w, s, i)'
                       PROVE  FALSE
            OBVIOUS
          <6>1. i \in Nat /\ i >= 1 /\ i + 1 \in Calls(w)
            BY <1>3, <1>8 DEF Calls
          <6>2. i + 1 <= 1
            BY <3>3, <3>5, <4>1, <6>1
          <6> QED
            BY <6>1, <6>2
        <5> QED
          BY <1>2, <1>5, <5>1, <5>2 DEF InFile
      <4>2. CASE m # 1
        <5>1. PICK k \in Nat : k = m - 1
          BY <1>6
        <5>2. k \in Calls(w)' /\ requests'[w][k] = requests[w][m] /\ k + 1 = m
          BY <1>6, <1>7, <4>2, <5>1
        <5>3. Wrote(w, s, k)'
          BY <3>3, <3>5, <5>2
        <5>4. ASSUME NEW i \in Calls(w)', Wrote(w, s, i)'  PROVE i <= k
          <6>1. i + 1 <= m /\ i \in Nat
            BY <1>3, <1>8, <3>3, <3>5, <5>4
          <6> QED
            BY <5>2, <6>1
        <5> QED
          BY <1>2, <3>5, <5>2, <5>3, <5>4 DEF InFile
      <4> QED
        BY <4>1, <4>2
    <3>6. InFile(w, s)'
      <4>1. CASE \E m \in Calls(w) :
                   /\ Wrote(w, s, m) /\ \A j \in Calls(w) : Wrote(w, s, j) => j <= m
                   /\ file[s] = requests[w][m].what[s]
        BY <3>5, <4>1
      <4> QED
        BY <3>1, <3>4, <4>1 DEF InFile
    <3> QED
      BY <3>2, <3>6 DEF LoadsFile
  <2>7. offered'[w] = store'[w]["profiles"] \/ "profiles" \in held'
    <3>1. CASE "profiles" \in held
      BY <1>2, <3>1
    <3>2. CASE "profiles" \notin held
      <4>1. "profiles" \in Sections /\ Clean(w, "profiles")'
        BY <1>2, <3>2, SectionNames DEF Clean
      <4>2. offered[w] = store[w]["profiles"]
        BY <1>1, <1>15, <3>2 DEF CopyKnown
      <4>3. c.kind = "sound" => c.what["profiles"] = store[w]["profiles"]
        BY <2>2, <2>3, <4>1
      <4> QED
        BY <1>5, <4>2, <4>3
    <3> QED
      BY <3>1, <3>2
  <2>8. CopyKnown(w)'
    BY <1>12, <2>4, <2>5, <2>6, <2>7 DEF CopyKnown
  <2> QED
    BY <1>5, <1>9, <1>11, <2>1, <2>8 DEF SettingsInv
<1> QED
  BY <1>14, <1>15

-----------------------------------------------------------------------------
(* The dialog: what is opened, edited and closed is a draft.               *)
LEMMA DraftKeeps ==
  ASSUME SettingsInv, NEW w \in Window, NEW d \in Draft, draft' = [draft EXCEPT ![w] = d],
         UNCHANGED <<file, store, loaded, offered, requests, latest>>,
         held \subseteq held', held' \subseteq Sections,
         d.open => loaded[w],
         \A s \in Sections : loaded[w] /\ Clean(w, s) /\ s \notin held' => Unedited(w, s)'
  PROVE  SettingsInv'
<1>1. SettingsTyped /\ SavedInFile
  BY DEF SettingsInv
<1>2. SettingsTyped' /\ draft'[w] = d /\ \A v \in Window \ {w} : draft'[v] = draft[v]
  BY <1>1 DEF SettingsTyped
<1>3. SavedInFile'
  BY <1>1 DEF SavedInFile
<1>4. ASSUME NEW v \in Window  PROVE Queued(v)' /\ CopyKnown(v)'
  <2>1. Queued(v) /\ CopyKnown(v)
    BY DEF SettingsInv
  <2>2. Sole(v)' <=> Sole(v)
    BY DEF Sole
  <2>3. ASSUME NEW s \in Sections, Clean(v, s)'  PROVE Clean(v, s) /\ s \notin held'
    BY <2>2, <2>3, CleanStays DEF Clean
  <2>4. ~loaded[v] => ~draft'[v].open
    <3>1. CASE v = w
      BY <1>2, <3>1
    <3>2. CASE v # w
      BY <1>2, <2>1, <3>2 DEF Queued
    <3> QED
      BY <3>1, <3>2
  <2>5. held = Sections => held' = Sections
    OBVIOUS
  <2>6. Queued(v)'
    BY <2>1, <2>4, <2>5 DEF Queued, Calls
  <2>7. ASSUME loaded[v], NEW s \in Sections, Clean(v, s)'
        PROVE  WritesCopy(v, s)' /\ Unedited(v, s)'
    <3>1. WritesCopy(v, s) /\ Unedited(v, s)
      BY <2>1, <2>3, <2>7 DEF CopyKnown
    <3>2. WritesCopy(v, s)'
      BY <3>1 DEF WritesCopy, Calls
    <3>3. CASE v = w
      BY <2>3, <2>7, <3>2, <3>3
    <3>4. CASE v # w
      BY <1>2, <3>1, <3>2, <3>4 DEF Unedited, Calls
    <3> QED
      BY <3>3, <3>4
  <2>8. ASSUME Sole(v), NEW s \in Sections, Clean(v, s)'
        PROVE  (loaded[v] => InFile(v, s)') /\ LoadsFile(v, s)'
    <3>1. (loaded[v] => InFile(v, s)) /\ LoadsFile(v, s)
      BY <2>1, <2>3, <2>8 DEF CopyKnown
    <3> QED
      BY <3>1 DEF InFile, LoadsFile, Wrote, Calls
  <2>9. loaded[v] => offered[v] = store[v]["profiles"] \/ "profiles" \in held'
    BY <2>1 DEF CopyKnown
  <2> QED
    BY <2>2, <2>6, <2>7, <2>8, <2>9 DEF CopyKnown
<1> QED
  BY <1>2, <1>3, <1>4 DEF SettingsInv

LEMMA OpenDialogKeeps ==
  ASSUME SettingsInv, NEW w \in Window, Dialog!OpenDialog(w)
  PROVE  SettingsInv'
<1> DEFINE d == [open |-> TRUE, at |-> store[w], edited |-> {}]
<1>1. SettingsTyped
  BY DEF SettingsInv
<1>2. /\ loaded[w] /\ draft' = [draft EXCEPT ![w] = d]
      /\ held' = held \cup UNION {requests[w][i].own : i \in DOMAIN requests[w]}
      /\ UNCHANGED <<file, store, loaded, offered, requests, latest>>
  BY DEF Dialog!OpenDialog
<1>3. d \in Draft /\ d.open /\ d.at = store[w] /\ d.edited = {}
  BY <1>1 DEF SettingsTyped, Draft
<1> HIDE DEF d
<1>4. /\ DOMAIN requests[w] = Calls(w) /\ \A i \in Calls(w) : requests[w][i].own \subseteq Sections
      /\ held \subseteq Sections
  BY <1>1, QueueTyped DEF SettingsTyped
<1>5. held \subseteq held' /\ held' \subseteq Sections
  BY <1>2, <1>4
<1>6. draft'[w] = d
  BY <1>1, <1>2 DEF SettingsTyped
<1>7. ASSUME NEW s \in Sections, s \notin held'  PROVE Unedited(w, s)'
  <2>1. \A i \in Calls(w) : s \notin requests[w][i].own
    BY <1>2, <1>4, <1>7
  <2> QED
    BY <1>2, <1>3, <1>6, <2>1 DEF Unedited, Calls
<1> QED
  BY <1>2, <1>3, <1>5, <1>7, DraftKeeps

LEMMA EditKeeps ==
  ASSUME SettingsInv, NEW w \in Window, NEW s \in Sections, NEW value \in Nat,
         Dialog!Edit(w, s, value)
  PROVE  SettingsInv'
<1> DEFINE x == draft[w]
           a == [x.at EXCEPT ![s] = value]
           e == [x EXCEPT !.at = a]
           d == [e EXCEPT !.edited = x.edited \cup {s}]
           g == [draft EXCEPT ![w] = e]
<1>1. SettingsTyped /\ Queued(w)
  BY DEF SettingsInv
<1>2. /\ x.open
      /\ draft' = [draft EXCEPT ![w].at[s] = value, ![w].edited = @ \cup {s}]
      /\ UNCHANGED <<file, store, loaded, offered, requests, latest, held>>
  BY DEF Dialog!Edit
<1>3. x \in Draft /\ draft \in [Window -> Draft]
  BY <1>1 DEF SettingsTyped
<1>4. draft' = [[draft EXCEPT ![w].at[s] = value] EXCEPT ![w].edited = @ \cup {s}]
  BY <1>2
<1>5. [draft EXCEPT ![w].at[s] = value] = g
  OBVIOUS
<1>6. draft' = [g EXCEPT ![w].edited = @ \cup {s}]
  BY <1>4, <1>5
<1> HIDE DEF x
<1>7. a \in Values /\ \A z \in Sections : z # s => a[z] = x.at[z]
  BY <1>3 DEF Draft, Values
<1> HIDE DEF a
<1>8. e \in Draft /\ e.open = x.open /\ e.at = a /\ e.edited = x.edited
  BY <1>3, <1>7 DEF Draft
<1> HIDE DEF e
<1>9. g[w] = e /\ g \in [Window -> Draft]
  BY <1>3, <1>8
<1>10. draft' = [g EXCEPT ![w] = [e EXCEPT !.edited = e.edited \cup {s}]]
  BY <1>6, <1>9
<1>11. draft' = [g EXCEPT ![w] = d]
  BY <1>8, <1>10
<1>12. d \in Draft /\ d.open = x.open /\ d.at = a /\ d.edited = x.edited \cup {s}
  BY <1>3, <1>8 DEF Draft
<1> HIDE DEF d
<1>13. draft' = [draft EXCEPT ![w] = d]
  BY <1>3, <1>8, <1>11, <1>12
<1>14. draft'[w] = d
  BY <1>3, <1>13
<1>15. loaded[w]
  BY <1>1, <1>2 DEF Queued, x
<1>16. held \subseteq held' /\ held' \subseteq Sections
  BY <1>1, <1>2 DEF SettingsTyped
<1>17. ASSUME NEW z \in Sections, Clean(w, z)  PROVE Unedited(w, z)'
  <2>1. Unedited(w, z)
    BY <1>15, <1>17 DEF SettingsInv, CopyKnown
  <2> QED
    BY <1>2, <1>7, <1>12, <1>14, <2>1 DEF Unedited, Calls, x
<1> QED
  BY <1>2, <1>12, <1>13, <1>15, <1>16, <1>17, DraftKeeps

LEMMA CloseDialogKeeps ==
  ASSUME SettingsInv, NEW w \in Window, Dialog!CloseDialog(w)
  PROVE  SettingsInv'
<1> DEFINE x == draft[w]
           d == [x EXCEPT !.open = FALSE]
<1>1. SettingsTyped
  BY DEF SettingsInv
<1>2. draft' = [draft EXCEPT ![w] = d] /\ UNCHANGED <<file, store, loaded, offered, requests, latest, held>>
  BY DEF Dialog!CloseDialog
<1>3. x \in Draft
  BY <1>1 DEF SettingsTyped
<1> HIDE DEF x
<1>4. d \in Draft /\ ~d.open
  BY <1>3 DEF Draft
<1> HIDE DEF d
<1>5. ~draft'[w].open
  BY <1>1, <1>2, <1>4 DEF SettingsTyped
<1>6. \A s \in Sections : Unedited(w, s)'
  BY <1>5 DEF Unedited
<1>7. held' \subseteq Sections /\ held \subseteq held'
  BY <1>1, <1>2 DEF SettingsTyped
<1> QED
  BY <1>2, <1>4, <1>6, <1>7, DraftKeeps

LEMMA EditsKeep ==
  ASSUME AppAssumption, SettingsInv, NEW w \in Window,
         \/ Dialog!EditField(w) \/ Dialog!EditPrompt(w) \/ Dialog!ResetPrompt(w)
         \/ Dialog!EditProfiles(w) \/ Dialog!RecordKey(w)
  PROVE  SettingsInv'
<1>1. MaxEdits \in Nat
  BY DEF AppAssumption
<1>2. PICK s \in Sections, value \in Nat : Dialog!Edit(w, s, value)
  <2>1. {"fields", "prompts", "profiles", "focusKey"} \subseteq Sections
    BY SectionNames
  <2>2. 1..MaxEdits \subseteq Nat /\ 0 \in Nat
    BY <1>1
  <2> QED
    BY <2>1, <2>2, SectionNames
       DEF Dialog!EditField, Dialog!EditPrompt, Dialog!ResetPrompt, Dialog!EditProfiles,
           Dialog!RecordKey
<1> QED
  BY <1>2, EditKeeps

LEMMA SettingsStep ==
  ASSUME AppAssumption, SettingsInv, [Dialog!Next]_(Dialog!vars)
  PROVE  SettingsInv'
<1>1. CASE Dialog!MainChangesSaved
  BY <1>1, MainChangesSavedKeeps
<1>2. CASE Dialog!HandEdit
  BY <1>2, HandEditKeeps
<1>3. ASSUME NEW w \in Window, Dialog!HandleLoad(w)  PROVE SettingsInv'
  BY <1>3, HandleLoadKeeps
<1>4. ASSUME NEW w \in Window, Dialog!HandleSave(w)  PROVE SettingsInv'
  BY <1>4, HandleSaveKeeps
<1>5. ASSUME NEW w \in Window, Dialog!Start(w)  PROVE SettingsInv'
  BY <1>5, StartKeeps
<1>6. ASSUME NEW w \in Window, Dialog!Reply(w)  PROVE SettingsInv'
  BY <1>6, ReplyKeeps
<1>7. ASSUME NEW w \in Window, Dialog!ToggleSound(w)  PROVE SettingsInv'
  BY <1>7, ToggleSoundKeeps
<1>8. ASSUME NEW w \in Window, Dialog!UpdateSetting(w)  PROVE SettingsInv'
  BY <1>8, UpdateSettingKeeps
<1>9. ASSUME NEW w \in Window, Dialog!OpenDialog(w)  PROVE SettingsInv'
  BY <1>9, OpenDialogKeeps
<1>10. ASSUME NEW w \in Window,
              \/ Dialog!EditField(w) \/ Dialog!EditPrompt(w) \/ Dialog!ResetPrompt(w)
              \/ Dialog!EditProfiles(w) \/ Dialog!RecordKey(w)
       PROVE  SettingsInv'
  BY <1>10, EditsKeep
<1>11. ASSUME NEW w \in Window, Dialog!CloseDialog(w)  PROVE SettingsInv'
  BY <1>11, CloseDialogKeeps
<1>12. ASSUME NEW w \in Window, Dialog!SaveDialog(w)  PROVE SettingsInv'
  BY <1>12, SaveDialogKeeps
<1>13. CASE UNCHANGED Dialog!vars
  <2>1. UNCHANGED <<file, store, loaded, offered, draft, requests, latest, held>>
    BY <1>13 DEF Dialog!vars
  <2>2. file' \in Values /\ latest' \in Values /\ held' \subseteq Sections /\ SavedInFile'
    BY <2>1 DEF SettingsInv, SettingsTyped, SavedInFile
  <2> QED
    BY <2>1, <2>2, FileChangeKeeps
<1> QED
  BY <1>1, <1>2, <1>3, <1>4, <1>5, <1>6, <1>7, <1>8, <1>9, <1>10, <1>11, <1>12, <1>13
     DEF Dialog!Next

(* A setting that was saved is in the file until it is changed again, and  *)
(* a window at rest offers the profiles of its settings: for any number of *)
(* windows, changes, calls under way and faults, but for the sections that *)
(* were changed while somebody held an older copy (`held`) and for the     *)
(* focus key, which no load returns.                                       *)
THEOREM SettingsAlwaysKept ==
  ASSUME AppAssumption
  PROVE  Dialog!Spec => []SettingsKept
<1>1. Dialog!Init => SettingsInv
  BY SettingsInvInit
<1>2. SettingsInv /\ [Dialog!Next]_(Dialog!vars) => SettingsInv'
  BY SettingsStep
<1>3. SettingsInv => SettingsKept
  <2> SUFFICES ASSUME SettingsInv  PROVE SettingsKept
    OBVIOUS
  <2>1. Dialog!ChangesSurvive
    BY DEF SettingsInv, SavedInFile, Dialog!ChangesSurvive, Sections
  <2>2. Dialog!ProfilesOffered
    BY SectionNames DEF SettingsInv, CopyKnown, Dialog!ProfilesOffered
  <2> QED
    BY <2>1, <2>2 DEF SettingsKept
<1> QED
  BY <1>1, <1>2, <1>3, PTL DEF Dialog!Spec

-----------------------------------------------------------------------------
(* The window's sessions (AppSessions).  What the window knows of a        *)
(* connection, and what is on its way to it, make up what the main process *)
(* has: the last of its events says how it is, and its newest version is in*)
(* its session or in something that will reach it.                         *)
ConnStatus == {"none", "Connecting", "Connected", "Reconnecting", "Error", "Disconnected"}
StoreRec == [up : BOOLEAN, conn : Peer, status : ConnStatus, version : Nat]
InboxRec ==
  [type : {"status", "sync", "answer", "reconnected"}, conn : Peer, what : ConnStatus, version : Nat]
FlushRec == [conn : Peer, version : Nat, name : Nat]
HomeRec == [key : Sessions!Key, conn : Peer]
CallRec == [conn : Peer, at : {"dialing", "loading", "loaded"}, version : Nat, no : Nat]

SessionsTyped ==
  /\ listening \in BOOLEAN
  /\ stores \in [Sessions!Key -> StoreRec] /\ names \in [Sessions!Key -> Nat]
  /\ flushes \in SUBSET FlushRec /\ homes \in SUBSET HomeRec
  /\ inbox \in Seq(InboxRec)
  /\ status \in [Peer -> ConnStatus] /\ watched \in [Peer -> Nat] /\ version \in [Peer -> Nat]
  /\ refs \in [Peer -> BOOLEAN] /\ loads \in SUBSET CallRec /\ moving \in [Peer -> 0..1]
  /\ given \in [Peer -> Nat] /\ crossed \in SUBSET Peer /\ calls \in Nat

(* A key is used once, and before initialize() there is no session.        *)
StoresOK ==
  /\ \A k \in Sessions!Key : stores[k].status = "none" => ~stores[k].up /\ names[k] = 0
  /\ ~listening => /\ \A k \in Sessions!Key : ~stores[k].up
                   /\ given[Home] = 0 /\ flushes = {}
                   /\ \A i \in 1..Len(inbox) : inbox[i].what # "Disconnected"
  /\ \A d \in homes : ~refs[d.conn]

EventOK(i) ==
  /\ inbox[i].type = "status" => inbox[i].what # "none"
  /\ inbox[i].type = "answer" => inbox[i].what \in {"Connected", "Error"}
  /\ inbox[i].type = "answer" /\ inbox[i].what = "Error" /\ inbox[i].conn = Home => Home \in crossed
  /\ inbox[i].type = "reconnected" => inbox[i].what = "Connected"
  /\ inbox[i].version <= version[inbox[i].conn]
EventsOK == \A i \in 1..Len(inbox) : EventOK(i)

UpTo ==
  /\ \A k \in Sessions!Key : stores[k].version <= version[stores[k].conn]
  /\ \A c \in loads : c.version <= version[c.conn]
  /\ \A f \in flushes : f.version <= version[f.conn]

ViewOK == crossed = {} /\ (\A c \in Peer : refs[c]) => view \in Sessions!Up \cup {0} \/ Sessions!Up = {}

Bears(e, c) ==
  e.conn = c /\ (e.type \in {"status", "reconnected"} \/ (e.type = "answer" /\ e.what = "Connected"))
Quiet(c) == \A i \in 1..Len(inbox) : ~Bears(inbox[i], c)

(* A connection that did not cross has one session in the window; one that *)
(* has none is given up, and nothing but that is on its way.               *)
OneStore(c) == \A j, k \in Sessions!Of(c) : j = k
Gone(c) ==
  Sessions!Of(c) = {} /\ (listening \/ c # Home) =>
    /\ status[c] = "none" /\ moving[c] = 0
    /\ \A l \in loads : l.conn # c
    /\ \A f \in flushes : f.conn # c
    /\ \A d \in homes : d.conn # c
    /\ \A i \in 1..Len(inbox) : inbox[i].conn = c => inbox[i].type = "status"
Parted(c) ==
  \A i \in 1..Len(inbox) :
    inbox[i].conn = c /\ inbox[i].what = "Disconnected" => Sessions!Of(c) = {} /\ status[c] = "none"
Dials(c) == c # Home => \A l \in loads : l.conn = c /\ l.at = "dialing" => status[c] = "Connecting"
Watches(c) == status[c] = "Connected" => watched[c] # 0

(* The last of its events says how it is; if there is none, its session    *)
(* knows, or will be told by a call's answer.                              *)
Says(e, c) == e.what = IF status[c] = "none" THEN "Disconnected" ELSE status[c]
LastSays(c) ==
  \A i \in 1..Len(inbox) :
    Bears(inbox[i], c) /\ (\A j \in (i + 1)..Len(inbox) : ~Bears(inbox[j], c)) => Says(inbox[i], c)
Loading(c) == \E l \in loads : l.conn = c /\ l.at # "dialing"
StatusOK(c) ==
  Quiet(c) =>
    \A k \in Sessions!Of(c) : stores[k].status = status[c] \/ (status[c] = "Connected" /\ Loading(c))

NamesOK(c) ==
  /\ \A k \in Sessions!Of(c) : names[k] = given[c]
  /\ \A f \in flushes : f.conn = c => f.name = given[c]

(* The newest version is in the session, or in what will get there.        *)
Tells(e, c) ==
  /\ e.conn = c /\ e.version = version[c]
  /\ e.type \in {"sync", "reconnected"} \/ (e.type = "answer" /\ e.what = "Connected")
Newest(c) ==
  status[c] = "Connected" /\ refs[c] =>
    \/ moving[c] = 1
    \/ \E l \in loads : l.conn = c /\ (l.at = "loading" \/ (l.at = "loaded" /\ l.version = version[c]))
    \/ \E k \in Sessions!Of(c) : stores[k].version = version[c]
    \/ \E i \in 1..Len(inbox) : Tells(inbox[i], c)
    \/ \E f \in flushes : f.conn = c /\ f.version = version[c]

ConnOK(c) ==
  /\ OneStore(c) /\ Gone(c) /\ Parted(c) /\ Dials(c) /\ Watches(c)
  /\ LastSays(c) /\ StatusOK(c) /\ NamesOK(c) /\ Newest(c)

SessionsInv ==
  /\ SessionsTyped /\ StoresOK /\ EventsOK /\ UpTo /\ ViewOK
  /\ \A c \in Peer \ crossed : ConnOK(c)

-----------------------------------------------------------------------------
(* The keys of sessions.                                                   *)
LEMMA OfSays ==
  ASSUME NEW c, NEW k
  PROVE  k \in Sessions!Of(c) <=> k \in Sessions!Key /\ stores[k].up /\ stores[k].conn = c
BY DEF Sessions!Of, Sessions!Up

LEMMA FirstSays ==
  ASSUME NEW S \in SUBSET Sessions!Key, S # {}
  PROVE  Sessions!First(S) \in S
<1>1. S \in SUBSET Nat
  BY AppAssumption DEF Sessions!Key
<1>2. \E m \in S : \A k \in S : m <= k
  BY <1>1, LeastOfSome
<1> QED
  BY <1>2 DEF Sessions!First

LEMMA UnusedSays ==
  ASSUME SessionsTyped, StoresOK, NEW k \in Sessions!Unused
  PROVE  k \in Sessions!Key /\ ~stores[k].up /\ names[k] = 0
BY DEF Sessions!Unused, StoresOK

-----------------------------------------------------------------------------
(* What an inbox becomes: d events are taken, n are added.                 *)
Shifts(d, n) ==
  /\ d \in 0..1 /\ n \in 0..2 /\ d <= Len(inbox) /\ Len(inbox') = Len(inbox) - d + n
  /\ \A i \in 1..(Len(inbox) - d) : inbox'[i] = inbox[i + d]

LEMMA StaysShifts ==
  ASSUME SessionsTyped, inbox' = inbox
  PROVE  Shifts(0, 0) /\ inbox' \in Seq(InboxRec)
BY DEF SessionsTyped, Shifts

LEMMA AppendShifts ==
  ASSUME SessionsTyped, NEW e \in InboxRec, inbox' = Append(inbox, e)
  PROVE  Shifts(0, 1) /\ inbox' \in Seq(InboxRec) /\ Len(inbox') = Len(inbox) + 1
           /\ inbox'[Len(inbox')] = e
BY DEF SessionsTyped, Shifts

LEMMA TailShifts ==
  ASSUME SessionsTyped, inbox # <<>>, Sessions!Take1
  PROVE  Shifts(1, 0) /\ inbox' \in Seq(InboxRec) /\ inbox[1] \in InboxRec /\ Len(inbox) \in Nat \ {0}
BY DEF SessionsTyped, Shifts, Sessions!Take1

(* A connection that a step does not touch.                                *)
Aside(c) ==
  /\ status'[c] = status[c] /\ version'[c] = version[c] /\ watched'[c] = watched[c]
  /\ moving'[c] = moving[c] /\ refs' = refs /\ given'[c] = given[c]
  /\ \A l : l.conn = c => (l \in loads' <=> l \in loads)
  /\ \A f : f.conn = c => (f \in flushes' <=> f \in flushes)
  /\ \A d : d.conn = c => (d \in homes' => d \in homes)
  /\ \A k : k \in Sessions!Of(c)' <=> k \in Sessions!Of(c)
  /\ \A k \in Sessions!Of(c) : stores'[k] = stores[k] /\ names'[k] = names[k]
  /\ c = Home => listening' = listening

LEMMA AsideKeeps ==
  ASSUME SessionsTyped, NEW c \in Peer, ConnOK(c), Aside(c), NEW d, NEW n, Shifts(d, n),
         d = 1 => inbox[1].conn # c,
         \A i \in 1..Len(inbox') : i > Len(inbox) - d => inbox'[i].conn # c
  PROVE  ConnOK(c)'
<1>0. Len(inbox) \in Nat /\ d \in 0..1 /\ n \in 0..2 /\ Len(inbox') \in Nat
  BY DEF SessionsTyped, Shifts
<1>1. \A i \in 1..Len(inbox') : inbox'[i].conn = c =>
        i + d \in 1..Len(inbox) /\ inbox'[i] = inbox[i + d]
  BY <1>0 DEF Shifts
<1>2. \A i \in 1..Len(inbox) : inbox[i].conn = c =>
        i - d \in 1..Len(inbox') /\ inbox'[i - d] = inbox[i]
  BY <1>0 DEF Shifts
<1>3. Sessions!Of(c)' = Sessions!Of(c)
  BY DEF Aside
<1>4. OneStore(c)' /\ Dials(c)' /\ Watches(c)' /\ NamesOK(c)'
  BY <1>3 DEF Aside, ConnOK, OneStore, Dials, Watches, NamesOK
<1>5. Gone(c)' /\ Parted(c)'
  BY <1>1, <1>3 DEF Aside, ConnOK, Gone, Parted
<1>6. LastSays(c)'
  <2>1. ASSUME NEW i \in 1..Len(inbox'), Bears(inbox'[i], c),
               \A j \in (i + 1)..Len(inbox') : ~Bears(inbox'[j], c)
        PROVE  Says(inbox[i + d], c) /\ inbox'[i] = inbox[i + d]
    <3>1. i + d \in 1..Len(inbox) /\ Bears(inbox[i + d], c) /\ inbox'[i] = inbox[i + d]
      BY <1>1, <2>1 DEF Bears
    <3>2. ASSUME NEW j \in (i + d + 1)..Len(inbox), Bears(inbox[j], c) PROVE FALSE
      <4>1. j \in 1..Len(inbox) /\ inbox[j].conn = c
        BY <1>0, <3>1, <3>2 DEF Bears
      <4>2. j - d \in 1..Len(inbox') /\ inbox'[j - d] = inbox[j] /\ j - d \in (i + 1)..Len(inbox')
        BY <1>0, <1>2, <4>1
      <4> QED
        BY <2>1, <3>2, <4>2
    <3> QED
      BY <1>0, <3>1, <3>2 DEF ConnOK, LastSays
  <2> QED
    BY <2>1 DEF LastSays, Says, Aside
<1>7. StatusOK(c)'
  <2>1. Quiet(c)' => Quiet(c)
    BY <1>2 DEF Quiet, Bears
  <2>2. Loading(c)' <=> Loading(c)
    BY DEF Loading, Aside
  <2> QED
    BY <1>3, <2>1, <2>2 DEF StatusOK, ConnOK, Aside
<1>8. Newest(c)'
  <2>1. (\E i \in 1..Len(inbox) : Tells(inbox[i], c)) => (\E i \in 1..Len(inbox) : Tells(inbox[i], c))'
    BY <1>2 DEF Tells, Aside
  <2> QED
    BY <1>3, <2>1 DEF Newest, ConnOK, Aside, Tells
<1> QED
  BY <1>4, <1>5, <1>6, <1>7, <1>8 DEF ConnOK

LEMMA LastKept ==
  ASSUME SessionsTyped, NEW c \in Peer, LastSays(c), status'[c] = status[c],
         NEW d, NEW n, Shifts(d, n),
         \A i \in 1..Len(inbox') : i > Len(inbox) - d => ~Bears(inbox'[i], c)
  PROVE  LastSays(c)'
<1>0. Len(inbox) \in Nat /\ d \in 0..1 /\ n \in 0..2 /\ Len(inbox') \in Nat
  BY DEF SessionsTyped, Shifts
<1>1. ASSUME NEW i \in 1..Len(inbox'), Bears(inbox'[i], c),
             \A j \in (i + 1)..Len(inbox') : ~Bears(inbox'[j], c)
      PROVE  Says(inbox[i + d], c) /\ inbox'[i] = inbox[i + d]
  <2>1. i + d \in 1..Len(inbox) /\ Bears(inbox[i + d], c) /\ inbox'[i] = inbox[i + d]
    BY <1>0, <1>1 DEF Shifts
  <2>2. ASSUME NEW j \in (i + d + 1)..Len(inbox), Bears(inbox[j], c) PROVE FALSE
    <3>1. j - d \in (i + 1)..Len(inbox') /\ inbox'[j - d] = inbox[j]
      BY <1>0, <2>1 DEF Shifts
    <3> QED
      BY <1>1, <2>2, <3>1
  <2> QED
    BY <1>0, <2>1, <2>2 DEF LastSays
<1> QED
  BY <1>1 DEF LastSays, Says

LEMMA LastNew ==
  ASSUME NEW c, NEW m, m \in 1..Len(inbox'), Bears(inbox'[m], c), Len(inbox') \in Nat,
         \A j \in (m + 1)..Len(inbox') : ~Bears(inbox'[j], c),
         inbox'[m].what = status'[c], status'[c] # "none"
  PROVE  LastSays(c)' /\ ~Quiet(c)'
<1>1. ~Quiet(c)'
  BY DEF Quiet, Bears
<1>2. ASSUME NEW i \in 1..Len(inbox'), Bears(inbox'[i], c),
             \A j \in (i + 1)..Len(inbox') : ~Bears(inbox'[j], c)
      PROVE  i = m
  <2>1. m \notin (i + 1)..Len(inbox') /\ i \notin (m + 1)..Len(inbox')
    BY <1>2
  <2> QED
    BY <2>1
<1> QED
  BY <1>1, <1>2 DEF LastSays, Says

LEMMA QuietKept ==
  ASSUME SessionsTyped, NEW c, NEW n, Shifts(0, n), Quiet(c)'
  PROVE  Quiet(c)
<1>1. \A i \in 1..Len(inbox) : i \in 1..Len(inbox') /\ inbox'[i] = inbox[i]
  BY DEF Shifts, SessionsTyped
<1> QED
  BY <1>1 DEF Quiet, Bears

LEMMA TellsKept ==
  ASSUME SessionsTyped, NEW c, NEW n, Shifts(0, n), version'[c] = version[c],
         \E i \in 1..Len(inbox) : Tells(inbox[i], c)
  PROVE  (\E i \in 1..Len(inbox) : Tells(inbox[i], c))'
<1>1. \A i \in 1..Len(inbox) : i \in 1..Len(inbox') /\ inbox'[i] = inbox[i]
  BY DEF Shifts, SessionsTyped
<1> QED
  BY <1>1 DEF Tells

(* Something goes on with a connection.                                    *)
LEMMA ActiveSays ==
  ASSUME SessionsInv, NEW c \in Peer \ crossed,
         \/ status[c] # "none" \/ moving[c] # 0 \/ \E l \in loads : l.conn = c
         \/ \E f \in flushes : f.conn = c
         \/ \E i \in 1..Len(inbox) : inbox[i].conn = c /\ inbox[i].type # "status"
  PROVE  /\ Sessions!Of(c) # {} \/ (~listening /\ c = Home)
         /\ \A i \in 1..Len(inbox) : inbox[i].conn = c => inbox[i].what # "Disconnected"
<1>1. ConnOK(c)
  BY DEF SessionsInv
<1>2. Sessions!Of(c) # {} \/ (~listening /\ c = Home)
  BY <1>1 DEF ConnOK, Gone
<1> QED
  BY <1>1, <1>2 DEF SessionsInv, ConnOK, Parted, StoresOK

(* What the main process does: the window does not notice yet.             *)
Inside == UNCHANGED <<listening, stores, view, names, flushes, homes, given, refs>>

LEMMA InsideKeepsRest ==
  ASSUME SessionsInv, Inside, SessionsTyped', crossed \subseteq crossed', NEW n, Shifts(0, n),
         \A c \in Peer : version[c] <= version'[c],
         \A l \in loads' : l.version <= version'[l.conn],
         \A i \in 1..Len(inbox') : i > Len(inbox) =>
           EventOK(i)' /\ (inbox'[i].what = "Disconnected" => listening)
  PROVE  StoresOK' /\ EventsOK' /\ UpTo' /\ ViewOK'
<1>0. Len(inbox) \in Nat /\ Len(inbox') \in Nat /\ \A i \in 1..Len(inbox) : i \in 1..Len(inbox')
        /\ inbox'[i] = inbox[i]
  BY DEF Shifts, SessionsInv, SessionsTyped
<1>1. StoresOK'
  BY <1>0 DEF StoresOK, SessionsInv, Inside
<1>2. EventsOK'
  <2> SUFFICES ASSUME NEW i \in 1..Len(inbox'), i <= Len(inbox) PROVE EventOK(i)'
    BY <1>0 DEF EventsOK
  <2>0. i \in 1..Len(inbox) /\ inbox[i] \in InboxRec
    BY <1>0 DEF SessionsInv, SessionsTyped
  <2>1. EventOK(i) /\ inbox'[i] = inbox[i] /\ inbox[i].conn \in Peer /\ inbox[i].version \in Nat
    BY <1>0, <2>0 DEF SessionsInv, EventsOK, InboxRec
  <2>2. version[inbox[i].conn] \in Nat /\ version'[inbox[i].conn] \in Nat
    BY <2>1 DEF SessionsInv, SessionsTyped
  <2>3. inbox'[i].version <= version'[inbox'[i].conn]
    <3>1. inbox[i].version <= version[inbox[i].conn]
      BY <2>1 DEF EventOK
    <3>2. version[inbox[i].conn] <= version'[inbox[i].conn]
      BY <2>1
    <3> QED
      BY <2>1, <2>2, <3>1, <3>2
  <2> QED
    BY <2>1, <2>3 DEF EventOK
<1>3. UpTo'
  <2>1. \A c \in Peer : version[c] \in Nat /\ version'[c] \in Nat /\ version[c] <= version'[c]
    BY DEF SessionsInv, SessionsTyped
  <2>2. \A k \in Sessions!Key : stores[k].conn \in Peer /\ stores[k].version \in Nat
          /\ stores[k].version <= version[stores[k].conn]
    BY DEF SessionsInv, SessionsTyped, StoreRec, UpTo
  <2>3. \A f \in flushes : f.conn \in Peer /\ f.version \in Nat /\ f.version <= version[f.conn]
    BY DEF SessionsInv, SessionsTyped, FlushRec, UpTo
  <2> QED
    BY <2>1, <2>2, <2>3 DEF UpTo, Inside
<1>4. ViewOK'
  BY DEF ViewOK, SessionsInv, Inside, Sessions!Up
<1> QED
  BY <1>1, <1>2, <1>3, <1>4

LEMMA InsideKeepsConn ==
  ASSUME SessionsInv, Inside, NEW c \in Peer \ crossed,
         \/ status[c] # "none" \/ moving[c] # 0 \/ \E l \in loads : l.conn = c,
         NEW n, Shifts(0, n),
         \A i \in 1..Len(inbox') : i > Len(inbox) /\ inbox'[i].conn = c
           => inbox'[i].what # "Disconnected",
         Dials(c)', Watches(c)', LastSays(c)', StatusOK(c)', Newest(c)'
  PROVE  ConnOK(c)'
<1>0. ConnOK(c) /\ Len(inbox) \in Nat /\ Len(inbox') \in Nat
  BY DEF SessionsInv, SessionsTyped, Shifts
<1>1. Sessions!Of(c)' = Sessions!Of(c)
  BY DEF Sessions!Of, Sessions!Up, Inside
<1>2. /\ Sessions!Of(c) # {} \/ (~listening /\ c = Home)
      /\ \A i \in 1..Len(inbox) : inbox[i].conn = c => inbox[i].what # "Disconnected"
  BY ActiveSays
<1>3. Gone(c)'
  BY <1>1, <1>2 DEF Gone, Inside
<1>4. Parted(c)'
  <2> SUFFICES ASSUME NEW i \in 1..Len(inbox'), inbox'[i].conn = c, inbox'[i].what = "Disconnected"
               PROVE  FALSE
    BY DEF Parted
  <2>1. i \in 1..Len(inbox) /\ inbox'[i] = inbox[i]
    BY <1>0 DEF Shifts
  <2> QED
    BY <1>2, <2>1
<1>5. OneStore(c)' /\ NamesOK(c)'
  BY <1>0, <1>1 DEF OneStore, NamesOK, Inside, ConnOK
<1> QED
  BY <1>3, <1>4, <1>5 DEF ConnOK

LEMMA InsideAside ==
  ASSUME Inside, NEW b, status'[b] = status[b], version'[b] = version[b], watched'[b] = watched[b],
         moving'[b] = moving[b], \A l : l.conn = b => (l \in loads' <=> l \in loads)
  PROVE  Aside(b)
BY DEF Inside, Aside, Sessions!Of, Sessions!Up

LEMMA EventSays ==
  ASSUME NEW type \in {"status", "sync", "answer", "reconnected"}, NEW c \in Peer,
         NEW what \in ConnStatus, NEW v \in Nat
  PROVE  /\ Sessions!Event(type, c, what, v) \in InboxRec
         /\ Sessions!Event(type, c, what, v).type = type /\ Sessions!Event(type, c, what, v).conn = c
         /\ Sessions!Event(type, c, what, v).what = what /\ Sessions!Event(type, c, what, v).version = v
BY DEF Sessions!Event, InboxRec

(* A step of the main process that tells one event of c.                   *)
LEMMA InsideOne ==
  ASSUME SessionsInv, Inside, SessionsTyped', crossed \subseteq crossed', NEW c \in Peer,
         NEW type \in {"status", "sync", "answer", "reconnected"}, NEW what \in ConnStatus,
         NEW v \in Nat, v <= version'[c],
         inbox' = Append(inbox, Sessions!Event(type, c, what, v)),
         type = "status" => what # "none",
         type = "answer" => what \in {"Connected", "Error"},
         type = "answer" /\ what = "Error" /\ c = Home => Home \in crossed',
         type = "reconnected" => what = "Connected",
         what = "Disconnected" => listening,
         \A b \in Peer : version[b] <= version'[b],
         \A l \in loads' : l.version <= version'[l.conn],
         \A b \in Peer \ {c} : Aside(b),
         c \notin crossed' => ConnOK(c)'
  PROVE  SessionsInv'
<1> DEFINE e == Sessions!Event(type, c, what, v)
<1>1. e \in InboxRec /\ e.type = type /\ e.conn = c /\ e.what = what /\ e.version = v
  BY EventSays
<1> HIDE DEF e
<1>0. SessionsTyped /\ inbox' = Append(inbox, e)
  BY DEF SessionsInv, e
<1>2. Shifts(0, 1) /\ Len(inbox') = Len(inbox) + 1 /\ inbox'[Len(inbox')] = e /\ Len(inbox) \in Nat
  <2>1. Shifts(0, 1) /\ Len(inbox') = Len(inbox) + 1 /\ inbox'[Len(inbox')] = e
    BY <1>0, <1>1, AppendShifts
  <2>2. inbox \in Seq(InboxRec)
    BY <1>0 DEF SessionsTyped
  <2> QED
    BY <2>1, <2>2
<1>3. ASSUME NEW i \in 1..Len(inbox'), i > Len(inbox) PROVE inbox'[i] = e
  BY <1>2, <1>3
<1>4. StoresOK' /\ EventsOK' /\ UpTo' /\ ViewOK'
  <2>1. \A i \in 1..Len(inbox') : i > Len(inbox) =>
           EventOK(i)' /\ (inbox'[i].what = "Disconnected" => listening)
    BY <1>1, <1>3 DEF EventOK
  <2> QED
    BY <1>2, <2>1, InsideKeepsRest
<1>5. ASSUME NEW b \in Peer \ crossed', b # c PROVE ConnOK(b)'
  <2>1. ConnOK(b) /\ Aside(b)
    BY <1>5 DEF SessionsInv
  <2>2. \A i \in 1..Len(inbox') : i > Len(inbox) - 0 => inbox'[i].conn # b
    BY <1>1, <1>2, <1>3, <1>5
  <2> QED
    BY <1>0, <1>2, <1>5, <2>1, <2>2, AsideKeeps
<1> QED
  BY <1>4, <1>5 DEF SessionsInv

LEMMA InsideNone ==
  ASSUME SessionsInv, Inside, SessionsTyped', crossed \subseteq crossed', NEW c \in Peer,
         inbox' = inbox,
         \A b \in Peer : version[b] <= version'[b],
         \A l \in loads' : l.version <= version'[l.conn],
         \A b \in Peer \ {c} : Aside(b),
         c \notin crossed' => ConnOK(c)'
  PROVE  SessionsInv'
<1>0. SessionsTyped /\ Len(inbox) \in Nat
  BY DEF SessionsInv, SessionsTyped
<1>2. Shifts(0, 0)
  BY <1>0, StaysShifts
<1>3. ~(\E i \in 1..Len(inbox') : i > Len(inbox))
  BY <1>0
<1>4. StoresOK' /\ EventsOK' /\ UpTo' /\ ViewOK'
  BY <1>2, <1>3, InsideKeepsRest
<1>5. ASSUME NEW b \in Peer \ crossed', b # c PROVE ConnOK(b)'
  <2>1. ConnOK(b) /\ Aside(b)
    BY <1>5 DEF SessionsInv
  <2>2. \A i \in 1..Len(inbox') : i > Len(inbox) - 0 => inbox'[i].conn # b
    BY <1>0
  <2> QED
    BY <1>0, <1>2, <1>5, <2>1, <2>2, AsideKeeps
<1> QED
  BY <1>4, <1>5 DEF SessionsInv

LEMMA ToldConn ==
  ASSUME SessionsInv, Inside, NEW c \in Peer \ crossed,
         \/ status[c] # "none" \/ moving[c] # 0 \/ \E l \in loads : l.conn = c,
         NEW type \in {"status", "answer", "reconnected"},
         NEW what \in ConnStatus \ {"none", "Disconnected"},
         NEW v \in Nat, inbox' = Append(inbox, Sessions!Event(type, c, what, v)),
         type = "answer" => what = "Connected", what = status'[c],
         Dials(c)', Watches(c)', Newest(c)'
  PROVE  ConnOK(c)'
<1> DEFINE e == Sessions!Event(type, c, what, v)
<1>1. e \in InboxRec /\ e.type = type /\ e.conn = c /\ e.what = what /\ e.version = v
  BY EventSays
<1> HIDE DEF e
<1>0. SessionsTyped /\ inbox' = Append(inbox, e)
  BY DEF SessionsInv, e
<1>2. Shifts(0, 1) /\ Len(inbox') = Len(inbox) + 1 /\ inbox'[Len(inbox')] = e /\ Len(inbox) \in Nat
  BY <1>0, <1>1, AppendShifts DEF SessionsTyped
<1>3. \A i \in 1..Len(inbox') : i > Len(inbox) /\ inbox'[i].conn = c => inbox'[i].what # "Disconnected"
  <2> SUFFICES ASSUME NEW i \in 1..Len(inbox'), i > Len(inbox) PROVE inbox'[i].what # "Disconnected"
    OBVIOUS
  <2> QED
    BY <1>1, <1>2
<1>4. LastSays(c)' /\ ~Quiet(c)'
  <2>1. Bears(inbox'[Len(inbox')], c) /\ inbox'[Len(inbox')].what = status'[c] /\ status'[c] # "none"
    BY <1>1, <1>2 DEF Bears
  <2>2. Len(inbox') \in Nat /\ Len(inbox') \in 1..Len(inbox')
        /\ \A j \in (Len(inbox') + 1)..Len(inbox') : ~Bears(inbox'[j], c)
    BY <1>2
  <2> QED
    BY <2>1, <2>2, LastNew
<1>5. StatusOK(c)'
  BY <1>4 DEF StatusOK
<1> QED
  BY <1>2, <1>3, <1>4, <1>5, InsideKeepsConn

LEMMA ConnectsKeepsSessions ==
  ASSUME SessionsInv, NEW c \in Peer, Sessions!Connects(c)
  PROVE  SessionsInv'
<1> DEFINE g(l) == IF l \in Sessions!Dialing(c) THEN [l EXCEPT !.at = "loading"] ELSE l
<1>0. SessionsTyped
  BY DEF SessionsInv
<1>1. /\ Sessions!Dialing(c) # {} /\ status' = [status EXCEPT ![c] = "Connected"] /\ Inside
      /\ loads' = {g(l) : l \in loads} /\ watched' = [watched EXCEPT ![c] = @ + 1]
      /\ UNCHANGED <<version, moving, crossed, calls>>
      /\ inbox' = Append(inbox, Sessions!Event("status", c, status'[c], 0))
  BY DEF Sessions!Connects, Inside, Sessions!window, Sessions!Told
<1>2. \A l \in loads : /\ g(l) \in CallRec /\ g(l).conn = l.conn /\ g(l).version = l.version
                       /\ (l.conn # c => g(l) = l)
                       /\ l \in Sessions!Dialing(c) => g(l).at = "loading"
                       /\ g(l).conn = c => g(l).at # "dialing"
  BY <1>0 DEF SessionsTyped, CallRec, Sessions!Dialing
<1> HIDE DEF g
<1>3. status'[c] = "Connected" /\ "Connected" \in ConnStatus /\ watched'[c] # 0
  BY <1>0, <1>1 DEF SessionsTyped, ConnStatus
<1>4. SessionsTyped'
  <2>1. Sessions!Event("status", c, status'[c], 0) \in InboxRec
    BY <1>3, EventSays
  <2>2. inbox' \in Seq(InboxRec)
    BY <1>0, <1>1, <2>1, AppendShifts
  <2>3. loads' \in SUBSET CallRec
    BY <1>1, <1>2
  <2> QED
    BY <1>0, <1>1, <1>3, <2>2, <2>3 DEF SessionsTyped, Inside
<1>5. \A b \in Peer \ {c} : Aside(b)
  <2> TAKE b \in Peer \ {c}
  <2>1. status'[b] = status[b] /\ version'[b] = version[b] /\ watched'[b] = watched[b]
          /\ moving'[b] = moving[b]
    BY <1>0, <1>1 DEF SessionsTyped
  <2>2. \A l : l.conn = b => (l \in loads' <=> l \in loads)
    BY <1>1, <1>2
  <2> QED
    BY <1>1, <2>1, <2>2, InsideAside
<1>6. ASSUME c \notin crossed' PROVE ConnOK(c)'
  <2>1. Dials(c)' /\ Watches(c)'
    BY <1>1, <1>2, <1>3 DEF Dials, Watches
  <2>2. Newest(c)'
    <3>1. PICK l \in Sessions!Dialing(c) : TRUE
      BY <1>1
    <3>2. g(l) \in loads' /\ g(l).at = "loading" /\ g(l).conn = c
      BY <1>1, <1>2, <3>1 DEF Sessions!Dialing
    <3> QED
      BY <3>2 DEF Newest
  <2>3. \E l \in loads : l.conn = c
    BY <1>1 DEF Sessions!Dialing
  <2>4. /\ c \in Peer \ crossed /\ "status" \in {"status", "answer", "reconnected"} /\ 0 \in Nat
        /\ status'[c] \in ConnStatus \ {"none", "Disconnected"}
    BY <1>1, <1>3, <1>6
  <2> QED
    BY <1>1, <2>1, <2>2, <2>3, <2>4, ToldConn
<1>7. \A b \in Peer : version[b] <= version'[b]
  BY <1>0, <1>1 DEF SessionsTyped
<1>8. \A l \in loads' : l.version <= version'[l.conn]
  BY <1>1, <1>2 DEF SessionsInv, UpTo
<1> QED
  <2>1. 0 <= version'[c] /\ status'[c] \in ConnStatus /\ 0 \in Nat
    BY <1>0, <1>1, <1>3 DEF SessionsTyped
  <2>2. crossed \subseteq crossed' /\ status'[c] # "none" /\ status'[c] # "Disconnected"
    BY <1>1, <1>3
  <2> QED
    BY <1>1, <1>4, <1>5, <1>6, <1>7, <1>8, <2>1, <2>2, InsideOne

LEMMA OneAppended ==
  ASSUME NEW R, NEW s \in Seq(R), NEW e \in R
  PROVE  s \o [i \in {1} |-> e] = Append(s, e)
<1>1. [i \in {1} |-> e] = <<e>>
  <2>1. {1} = 1..1
    OBVIOUS
  <2> QED
    BY <2>1
<1>2. s \o <<e>> = Append(s, e)
  OBVIOUS
<1> QED
  BY <1>1, <1>2

LEMMA ConnectFailsKeepsSessions ==
  ASSUME SessionsInv, NEW c \in Peer, Sessions!ConnectFails(c)
  PROVE  SessionsInv'
<1> DEFINE a == Sessions!Event("answer", c, "Error", 0)
           b == Sessions!Event("status", c, status'[c], 0)
<1>0. SessionsTyped /\ Len(inbox) \in Nat /\ inbox \in Seq(InboxRec)
  BY DEF SessionsInv, SessionsTyped
<1>1. a \in InboxRec /\ a.type = "answer" /\ a.conn = c /\ a.what = "Error" /\ a.version = 0
  BY EventSays DEF ConnStatus
<1>2. /\ Sessions!Dialing(c) # {} /\ loads' = loads \ Sessions!Dialing(c) /\ Inside
      /\ UNCHANGED <<watched, version, moving, calls>>
      /\ crossed' = IF c = Home THEN crossed \cup {c} ELSE crossed
      /\ IF c = Home THEN inbox' = inbox \o [i \in {1} |-> a] /\ status' = status
         ELSE /\ status' = [status EXCEPT ![c] = IF @ = "none" THEN @ ELSE "Error"]
              /\ inbox' = (IF status[c] = "none" THEN inbox ELSE Append(inbox, b)) \o [i \in {1} |-> a]
  BY DEF Sessions!ConnectFails, Inside, Sessions!window, Sessions!Told
<1> HIDE DEF a, b
<1>3. \A d \in Peer \ {c} : Aside(d)
  <2> TAKE d \in Peer \ {c}
  <2>1. status'[d] = status[d] /\ version'[d] = version[d] /\ watched'[d] = watched[d]
          /\ moving'[d] = moving[d]
    BY <1>0, <1>2 DEF SessionsTyped
  <2>2. \A l : l.conn = d => (l \in loads' <=> l \in loads)
    BY <1>2 DEF Sessions!Dialing
  <2> QED
    BY <1>2, <2>1, <2>2, InsideAside
<1>4. /\ \A d \in Peer : version[d] <= version'[d]
      /\ \A l \in loads' : l.version <= version'[l.conn]
      /\ loads' \in SUBSET CallRec /\ crossed \subseteq crossed' /\ crossed' \in SUBSET Peer
      /\ 0 <= version'[c]
  BY <1>0, <1>2 DEF SessionsInv, UpTo, SessionsTyped
<1>5. CASE c = Home \/ status[c] = "none"
  <2>1. status' = status /\ inbox' = Append(inbox, a)
    <3>1. inbox \o [i \in {1} |-> a] = Append(inbox, a)
      BY <1>0, <1>1, OneAppended
    <3>2. CASE c = Home
      BY <1>2, <3>1, <3>2
    <3>3. CASE c # Home
      <4>1. [status EXCEPT ![c] = IF @ = "none" THEN @ ELSE "Error"] = status
        BY <1>0, <1>5, <3>3 DEF SessionsTyped
      <4> QED
        BY <1>2, <1>5, <3>1, <3>3, <4>1
    <3> QED
      BY <3>2, <3>3
  <2>2. c \in crossed'
    <3>1. CASE c = Home
      BY <1>2, <3>1
    <3>2. CASE c # Home /\ c \notin crossed
      <4>1. Dials(c)
        BY <3>2 DEF SessionsInv, ConnOK
      <4> QED
        BY <1>2, <1>5, <3>2, <4>1 DEF Dials, Sessions!Dialing
    <3> QED
      BY <1>2, <3>1, <3>2
  <2>3. SessionsTyped'
    BY <1>0, <1>1, <1>2, <1>4, <2>1, AppendShifts DEF SessionsTyped, Inside
  <2>4. "Error" \in ConnStatus /\ 0 \in Nat
    BY DEF ConnStatus
  <2> QED
    BY <1>2, <1>3, <1>4, <2>1, <2>2, <2>3, <2>4, InsideOne DEF a
<1>6. CASE c # Home /\ status[c] # "none"
  <2>1. status'[c] = "Error" /\ crossed' = crossed /\ status' \in [Peer -> ConnStatus]
    BY <1>0, <1>2, <1>6 DEF SessionsTyped, ConnStatus
  <2>2. b \in InboxRec /\ b.type = "status" /\ b.conn = c /\ b.what = "Error" /\ b.version = 0
    BY <2>1, EventSays DEF b, ConnStatus
  <2>3. inbox' = Append(Append(inbox, b), a)
    <3>1. Append(inbox, b) \in Seq(InboxRec)
      BY <1>0, <2>2
    <3>2. Append(inbox, b) \o [i \in {1} |-> a] = Append(Append(inbox, b), a)
      BY <1>1, <3>1, OneAppended
    <3> QED
      BY <1>2, <1>6, <3>2
  <2>4. /\ inbox' \in Seq(InboxRec) /\ Len(inbox') = Len(inbox) + 2 /\ inbox'[Len(inbox) + 1] = b
        /\ inbox'[Len(inbox) + 2] = a /\ \A i \in 1..Len(inbox) : inbox'[i] = inbox[i]
    BY <1>0, <1>1, <2>2, <2>3
  <2>5. Shifts(0, 2)
    BY <1>0, <2>4 DEF Shifts
  <2>6. ASSUME NEW i \in 1..Len(inbox'), i > Len(inbox)
        PROVE  inbox'[i] = b \/ inbox'[i] = a
    <3>1. i = Len(inbox) + 1 \/ i = Len(inbox) + 2
      BY <1>0, <2>4, <2>6
    <3> QED
      BY <2>4, <3>1
  <2>7. SessionsTyped'
    BY <1>0, <1>2, <1>4, <2>1, <2>4 DEF SessionsTyped, Inside
  <2>8. StoresOK' /\ EventsOK' /\ UpTo' /\ ViewOK'
    <3>1. \A i \in 1..Len(inbox') : i > Len(inbox) =>
             EventOK(i)' /\ (inbox'[i].what = "Disconnected" => listening)
      BY <1>1, <1>4, <1>6, <2>2, <2>6 DEF EventOK
    <3> QED
      BY <1>2, <1>4, <2>5, <2>7, <3>1, InsideKeepsRest
  <2>9. ASSUME NEW d \in Peer \ crossed' PROVE ConnOK(d)'
    <3>0. ConnOK(d)
      BY <2>1, <2>9 DEF SessionsInv
    <3>1. CASE d # c
      <4>1. \A i \in 1..Len(inbox') : i > Len(inbox) - 0 => inbox'[i].conn # d
        BY <1>0, <1>1, <2>2, <2>6, <3>1
      <4> QED
        BY <1>0, <1>3, <2>5, <3>0, <3>1, <4>1, AsideKeeps
    <3>2. CASE d = c
      <4>1. Dials(c)' /\ Watches(c)' /\ Newest(c)'
        BY <1>2, <2>1 DEF Dials, Watches, Newest, Sessions!Dialing
      <4>2. LastSays(c)' /\ ~Quiet(c)'
        <5>1. Len(inbox) + 1 \in 1..Len(inbox') /\ Len(inbox') \in Nat
                /\ Bears(inbox'[Len(inbox) + 1], c)
              /\ inbox'[Len(inbox) + 1].what = status'[c] /\ status'[c] # "none"
          BY <1>0, <2>1, <2>2, <2>4 DEF Bears
        <5>2. \A j \in (Len(inbox) + 1 + 1)..Len(inbox') : ~Bears(inbox'[j], c)
          <6> TAKE j \in (Len(inbox) + 1 + 1)..Len(inbox')
          <6>1. j = Len(inbox) + 2
            BY <1>0, <2>4
          <6> QED
            BY <1>1, <2>4, <6>1 DEF Bears
        <5> QED
          BY <5>1, <5>2, LastNew
      <4>3. StatusOK(c)'
        BY <4>2 DEF StatusOK
      <4>4. \A i \in 1..Len(inbox') : i > Len(inbox) /\ inbox'[i].conn = c
              => inbox'[i].what # "Disconnected"
        BY <1>1, <2>2, <2>6
      <4>5. c \in Peer \ crossed /\ \E l \in loads : l.conn = c
        BY <1>2, <2>1, <2>9, <3>2 DEF Sessions!Dialing
      <4> QED
        BY <1>2, <2>5, <3>2, <4>1, <4>2, <4>3, <4>4, <4>5, InsideKeepsConn
    <3> QED
      BY <3>1, <3>2
  <2> QED
    BY <2>7, <2>8, <2>9 DEF SessionsInv
<1> QED
  BY <1>5, <1>6

LEMMA InitialSessionKeepsSessions ==
  ASSUME SessionsInv, NEW l \in loads, Sessions!InitialSession(l)
  PROVE  SessionsInv'
<1> DEFINE c == l.conn
           a == [l EXCEPT !.at = "loaded"]
           b == [a EXCEPT !.version = version[c]]
<1>0. SessionsTyped /\ l \in CallRec /\ c \in Peer /\ version[c] \in Nat
  BY DEF SessionsInv, SessionsTyped, CallRec
<1>1. /\ status[c] = "Connected" /\ loads' = (loads \ {l}) \cup {b} /\ l.at = "loading" /\ Inside
      /\ UNCHANGED <<inbox, status, watched, version, moving, crossed, calls>>
  BY DEF Sessions!InitialSession, Inside, Sessions!window
<1>2. a \in CallRec /\ a.conn = c /\ a.at = "loaded"
  BY <1>0 DEF CallRec
<1>3. b \in CallRec /\ b.conn = c /\ b.at = "loaded" /\ b.version = version[c]
  <2> HIDE DEF a, c
  <2> QED
    BY <1>0, <1>2 DEF CallRec
<1> HIDE DEF a, b
<1>4. SessionsTyped'
  BY <1>0, <1>1, <1>3 DEF SessionsTyped, Inside
<1>5. \A d \in Peer \ {c} : Aside(d)
  <2> TAKE d \in Peer \ {c}
  <2>1. \A m : m.conn = d => (m \in loads' <=> m \in loads)
    BY <1>1, <1>3
  <2> QED
    BY <1>1, <2>1, InsideAside
<1>6. ASSUME c \notin crossed' PROVE ConnOK(c)'
  <2>0. ConnOK(c) /\ c \in Peer \ crossed
    BY <1>0, <1>1, <1>6 DEF SessionsInv
  <2>1. Dials(c)' /\ Watches(c)'
    BY <1>1, <1>3, <2>0 DEF Dials, Watches, ConnOK
  <2>2. Newest(c)'
    BY <1>1, <1>3 DEF Newest
  <2>3. LastSays(c)' /\ StatusOK(c)'
    <3>1. Sessions!Of(c)' = Sessions!Of(c) /\ (Quiet(c)' <=> Quiet(c)) /\ stores' = stores
      BY <1>1 DEF Sessions!Of, Sessions!Up, Inside, Quiet, Bears
    <3>2. Loading(c)'
      BY <1>1, <1>3 DEF Loading
    <3>3. LastSays(c)'
      BY <1>1, <2>0 DEF LastSays, Bears, Says, ConnOK
    <3>4. StatusOK(c)'
      BY <1>1, <2>0, <3>1, <3>2 DEF StatusOK, ConnOK
    <3> QED
      BY <3>3, <3>4
  <2>4. Shifts(0, 0) /\ ~(\E i \in 1..Len(inbox') : i > Len(inbox))
    BY <1>0, <1>1, StaysShifts DEF SessionsTyped
  <2> QED
    BY <1>1, <2>0, <2>1, <2>2, <2>3, <2>4, InsideKeepsConn
<1>7. \A m \in loads' : m.version <= version'[m.conn]
  BY <1>0, <1>1, <1>3 DEF SessionsInv, UpTo
<1>8. \A d \in Peer : version[d] <= version'[d]
  BY <1>0, <1>1 DEF SessionsTyped
<1> QED
  BY <1>0, <1>1, <1>4, <1>5, <1>6, <1>7, <1>8, InsideNone

LEMMA NewestStays ==
  ASSUME SessionsTyped, NEW c \in Peer, Newest(c), Inside, NEW n, Shifts(0, n),
         version'[c] = version[c], status[c] = "Connected", moving'[c] = moving[c],
         NEW l, loads' = loads \ {l},
         (l \in loads /\ l.conn = c) =>
           /\ l.at = "loaded"
           /\ l.version = version[c] => \E i \in 1..Len(inbox') : Tells(inbox'[i], c)
  PROVE  Newest(c)'
<1>1. Sessions!Of(c)' = Sessions!Of(c)
  BY DEF Sessions!Of, Sessions!Up, Inside
<1>2. (\E i \in 1..Len(inbox) : Tells(inbox[i], c)) => (\E i \in 1..Len(inbox) : Tells(inbox[i], c))'
  BY TellsKept
<1>3. (\E i \in 1..Len(inbox') : Tells(inbox'[i], c)) => (\E i \in 1..Len(inbox) : Tells(inbox[i], c))'
  BY DEF Tells
<1> QED
  BY <1>1, <1>2, <1>3 DEF Newest, Inside

LEMMA AnswersKeepsSessions ==
  ASSUME SessionsInv, NEW l \in loads, Sessions!ConnectAnswers(l)
  PROVE  SessionsInv'
<1> DEFINE c == l.conn
           e == Sessions!Event("answer", c, "Connected", l.version)
<1>0. SessionsTyped /\ l \in CallRec /\ c \in Peer /\ l.version \in Nat /\ l.version <= version[c]
  BY DEF SessionsInv, SessionsTyped, CallRec, UpTo
<1>1. /\ l.at = "loaded" /\ loads' = loads \ {l} /\ Inside
      /\ inbox' = Append(inbox, e)
      /\ UNCHANGED <<status, watched, version, moving, calls>>
      /\ crossed \subseteq crossed' /\ crossed' \in SUBSET Peer
      /\ c \notin crossed' => c \notin crossed /\ status[c] = "Connected"
  BY <1>0 DEF Sessions!ConnectAnswers, Inside, Sessions!window, SessionsTyped
<1>2. e \in InboxRec /\ e.type = "answer" /\ e.conn = c /\ e.what = "Connected" /\ e.version = l.version
  BY <1>0, EventSays DEF ConnStatus
<1>3. "Connected" \in ConnStatus \ {"none", "Disconnected"}
        /\ "answer" \in {"status", "answer", "reconnected"}
  BY DEF ConnStatus
<1>4. SessionsTyped'
  <2>1. inbox' \in Seq(InboxRec)
    BY <1>0, <1>1, <1>2, AppendShifts
  <2> QED
    BY <1>0, <1>1, <2>1 DEF SessionsTyped, Inside
<1>5. \A d \in Peer \ {c} : Aside(d)
  BY <1>1, InsideAside
<1>6. ASSUME c \notin crossed' PROVE ConnOK(c)'
  <2>0. ConnOK(c) /\ c \in Peer \ crossed
    BY <1>0, <1>1, <1>6 DEF SessionsInv
  <2>1. Dials(c)' /\ Watches(c)'
    BY <1>1, <2>0 DEF Dials, Watches, ConnOK
  <2>2. Shifts(0, 1) /\ Len(inbox') \in 1..Len(inbox') /\ inbox'[Len(inbox')] = e
    BY <1>0, <1>1, <1>2, AppendShifts DEF SessionsTyped
  <2>3. l.version = version[c] => \E i \in 1..Len(inbox') : Tells(inbox'[i], c)
    BY <1>2, <2>2 DEF Tells
  <2>4. Newest(c)'
    BY <1>0, <1>1, <1>6, <2>0, <2>2, <2>3, NewestStays DEF ConnOK
  <2> HIDE DEF c
  <2> QED
    BY <1>0, <1>1, <1>3, <1>6, <2>0, <2>1, <2>4, ToldConn
<1>7. \A m \in loads' : m.version <= version'[m.conn]
  BY <1>1 DEF SessionsInv, UpTo
<1>8. \A d \in Peer : version[d] <= version'[d]
  BY <1>0, <1>1 DEF SessionsTyped
<1> HIDE DEF c
<1> QED
  BY <1>0, <1>1, <1>3, <1>4, <1>5, <1>6, <1>7, <1>8, InsideOne

LEMMA LoadFailsKeepsSessions ==
  ASSUME SessionsInv, NEW l \in loads, Sessions!LoadFails(l)
  PROVE  SessionsInv'
<1> DEFINE c == l.conn
           e == Sessions!Event("answer", c, "Error", 0)
<1>0. SessionsTyped /\ l \in CallRec /\ c \in Peer /\ 0 <= version[c]
  <2>1. SessionsTyped
    BY DEF SessionsInv
  <2>2. l \in CallRec /\ version \in [Peer -> Nat]
    BY <2>1 DEF SessionsTyped
  <2>3. c \in Peer
    BY <2>2 DEF CallRec
  <2> QED
    BY <2>1, <2>2, <2>3
<1>1. /\ loads' = loads \ {l} /\ Inside /\ inbox' = Append(inbox, e)
      /\ UNCHANGED <<status, watched, version, moving, calls>>
      /\ crossed' = crossed \cup {c}
  BY DEF Sessions!LoadFails, Inside, Sessions!window
<1>2. e \in InboxRec /\ "Error" \in ConnStatus
  BY <1>0, EventSays DEF ConnStatus
<1>4. SessionsTyped'
  <2>1. inbox' \in Seq(InboxRec)
    BY <1>0, <1>1, <1>2, AppendShifts
  <2> QED
    BY <1>0, <1>1, <2>1 DEF SessionsTyped, Inside
<1>5. \A d \in Peer \ {c} : Aside(d)
  BY <1>1, InsideAside
<1>7. \A m \in loads' : m.version <= version'[m.conn]
  BY <1>1 DEF SessionsInv, UpTo
<1>8. \A d \in Peer : version[d] <= version'[d]
  BY <1>0, <1>1 DEF SessionsTyped
<1> HIDE DEF c
<1> QED
  BY <1>0, <1>1, <1>2, <1>4, <1>5, <1>7, <1>8, InsideOne

LEMMA ChangesKeepsSessions ==
  ASSUME SessionsInv, NEW c \in Peer, Sessions!SessionChanges(c)
  PROVE  SessionsInv'
<1> DEFINE e == Sessions!Event("sync", c, "none", version'[c])
<1>0. SessionsTyped /\ version[c] \in Nat /\ Len(inbox) \in Nat
  BY DEF SessionsInv, SessionsTyped
<1>1. /\ Inside /\ UNCHANGED <<status, watched, loads, moving, crossed, calls>>
      /\ version' = [version EXCEPT ![c] = @ + 1]
      /\ inbox' = IF watched[c] = 0 \/ status[c] # "Connected" THEN inbox ELSE Append(inbox, e)
  BY DEF Sessions!SessionChanges, Inside, Sessions!window
<1>2. version'[c] = version[c] + 1 /\ version' \in [Peer -> Nat]
        /\ \A d \in Peer : version[d] <= version'[d]
  <2>1. version \in [Peer -> Nat] /\ version' = [version EXCEPT ![c] = @ + 1]
    BY <1>0, <1>1 DEF SessionsTyped
  <2> QED
    BY <2>1
<1>3. e \in InboxRec /\ e.type = "sync" /\ e.conn = c /\ e.what = "none" /\ e.version = version'[c]
  BY <1>2, EventSays DEF ConnStatus
<1>4. SessionsTyped'
  <2>1. inbox' \in Seq(InboxRec)
    BY <1>0, <1>1, <1>3, AppendShifts DEF SessionsTyped
  <2> QED
    BY <1>0, <1>1, <1>2, <2>1 DEF SessionsTyped, Inside
<1>5. \A d \in Peer \ {c} : Aside(d)
  BY <1>0, <1>1, InsideAside DEF SessionsTyped
<1>6. \A m \in loads' : m.version <= version'[m.conn]
  <2> TAKE m \in loads'
  <2>1. m \in CallRec /\ m \in loads /\ m.version <= version[m.conn]
    BY <1>0, <1>1 DEF SessionsInv, UpTo, SessionsTyped
  <2> QED
    BY <1>0, <1>2, <2>1 DEF CallRec, SessionsTyped
<1>7. CASE watched[c] = 0 \/ status[c] # "Connected"
  <2>1. ASSUME c \notin crossed' PROVE ConnOK(c)'
    <3>0. ConnOK(c) /\ status[c] # "Connected"
      BY <1>1, <1>7, <2>1 DEF SessionsInv, ConnOK, Watches
    <3>1. Sessions!Of(c)' = Sessions!Of(c) /\ inbox' = inbox
      BY <1>1, <1>7 DEF Sessions!Of, Sessions!Up, Inside
    <3>2. OneStore(c)' /\ Gone(c)' /\ Parted(c)' /\ Dials(c)' /\ Watches(c)'
      BY <1>1, <3>0, <3>1 DEF ConnOK, OneStore, Gone, Parted, Dials, Watches, Inside
    <3>3. LastSays(c)' /\ StatusOK(c)' /\ NamesOK(c)'
      BY <1>1, <3>0, <3>1 DEF ConnOK, LastSays, StatusOK, NamesOK, Inside, Says, Bears, Quiet, Loading
    <3>4. Newest(c)'
      BY <1>1, <3>0 DEF Newest
    <3> QED
      BY <3>2, <3>3, <3>4 DEF ConnOK
  <2> HIDE DEF e
  <2> QED
    BY <1>0, <1>1, <1>2, <1>4, <1>5, <1>6, <1>7, <2>1, InsideNone
<1>8. CASE watched[c] # 0 /\ status[c] = "Connected"
  <2>1. inbox' = Append(inbox, e)
    BY <1>1, <1>8
  <2>2. Shifts(0, 1) /\ Len(inbox') = Len(inbox) + 1 /\ inbox'[Len(inbox')] = e
    BY <1>0, <1>3, <2>1, AppendShifts
  <2>3. \A i \in 1..Len(inbox') : i > Len(inbox) => inbox'[i] = e
    BY <1>0, <2>2
  <2>4. ASSUME c \notin crossed' PROVE ConnOK(c)'
    <3>0. ConnOK(c) /\ c \in Peer \ crossed
      BY <1>1, <2>4 DEF SessionsInv
    <3>1. Dials(c)' /\ Watches(c)'
      BY <1>1, <3>0 DEF Dials, Watches, ConnOK
    <3>2. LastSays(c)'
      <4>1. \A i \in 1..Len(inbox') : i > Len(inbox) - 0 => ~Bears(inbox'[i], c)
        BY <1>0, <1>3, <2>3 DEF Bears
      <4>2. LastSays(c) /\ status'[c] = status[c]
        BY <1>1, <3>0 DEF ConnOK
      <4> QED
        BY <1>0, <2>2, <4>1, <4>2, LastKept
    <3>3. StatusOK(c)'
      <4>1. Quiet(c)' => Quiet(c)
        BY <1>0, <2>2, QuietKept
      <4> QED
        BY <1>1, <3>0, <4>1 DEF StatusOK, ConnOK, Sessions!Of, Sessions!Up, Inside, Loading
    <3>4. Newest(c)'
      <4>1. (\E i \in 1..Len(inbox) : Tells(inbox[i], c))'
        BY <1>0, <1>3, <2>2 DEF Tells
      <4> QED
        BY <4>1 DEF Newest
    <3>5. \A i \in 1..Len(inbox') : i > Len(inbox) /\ inbox'[i].conn = c
            => inbox'[i].what # "Disconnected"
      BY <1>3, <2>3
    <3> QED
      BY <1>1, <1>8, <2>2, <3>0, <3>1, <3>2, <3>3, <3>4, <3>5, InsideKeepsConn
  <2>5. "none" \in ConnStatus /\ version'[c] \in Nat /\ version'[c] <= version'[c]
          /\ crossed \subseteq crossed'
    BY <1>1, <1>2 DEF ConnStatus
  <2> QED
    BY <1>1, <1>2, <1>4, <1>5, <1>6, <2>1, <2>4, <2>5, InsideOne
<1> QED
  BY <1>7, <1>8

(* A step that changes the status of c and tells it.                       *)
LEMMA StatusKeeps ==
  ASSUME SessionsInv, NEW c \in Peer, status[c] # "none",
         NEW what \in {"Connecting", "Connected", "Reconnecting", "Error"},
         status' = [status EXCEPT ![c] = what],
         inbox' = Append(inbox, Sessions!Event("status", c, what, 0)),
         Inside, UNCHANGED <<watched, version, loads>>,
         moving' \in [Peer -> 0..1], \A d \in Peer \ {c} : moving'[d] = moving[d],
         crossed \subseteq crossed', crossed' \in SUBSET Peer, calls' \in Nat,
         c \notin crossed' /\ c # Home => status[c] # "Connecting",
         c \notin crossed' /\ what = "Connected" => watched[c] # 0 /\ moving'[c] = 1
  PROVE  SessionsInv'
<1>0. SessionsTyped
  BY DEF SessionsInv
<1>1. status'[c] = what /\ status' \in [Peer -> ConnStatus]
        /\ what \in ConnStatus \ {"none", "Disconnected"}
  BY <1>0 DEF SessionsTyped, ConnStatus
<1>2. SessionsTyped'
  <2>1. Sessions!Event("status", c, what, 0) \in InboxRec
    BY <1>1, EventSays
  <2>2. inbox' \in Seq(InboxRec)
    BY <1>0, <2>1, AppendShifts
  <2> QED
    BY <1>0, <1>1, <2>2 DEF SessionsTyped, Inside
<1>3. \A d \in Peer \ {c} : Aside(d)
  BY <1>0, InsideAside DEF SessionsTyped
<1>4. ASSUME c \notin crossed' PROVE ConnOK(c)'
  <2>0. ConnOK(c) /\ c \in Peer \ crossed
    BY <1>4 DEF SessionsInv
  <2>1. Dials(c)'
    BY <1>4, <2>0 DEF Dials, ConnOK
  <2>2. Watches(c)' /\ Newest(c)'
    BY <1>1, <1>4 DEF Watches, Newest
  <2>3. 0 \in Nat /\ what = status'[c] /\ "status" \in {"status", "answer", "reconnected"}
    BY <1>1
  <2> QED
    BY <1>1, <2>0, <2>1, <2>2, <2>3, ToldConn
<1>5. \A d \in Peer : version[d] <= version'[d]
  BY <1>0 DEF SessionsTyped
<1>6. \A m \in loads' : m.version <= version'[m.conn]
  BY DEF SessionsInv, UpTo
<1>7. 0 <= version'[c] /\ 0 \in Nat /\ what \in ConnStatus /\ what # "none" /\ what # "Disconnected"
  BY <1>0, <1>1 DEF SessionsTyped
<1> QED
  BY <1>2, <1>3, <1>4, <1>5, <1>6, <1>7, InsideOne

LEMMA LinkKeepsSessions ==
  ASSUME SessionsInv, NEW c \in Peer, Sessions!Drops(c) \/ Sessions!Reconnects(c)
  PROVE  SessionsInv'
<1>0. SessionsTyped
  BY DEF SessionsInv
<1>1. CASE Sessions!Drops(c)
  <2>1. /\ status[c] = "Connected" /\ status' = [status EXCEPT ![c] = "Reconnecting"]
        /\ inbox' = Append(inbox, Sessions!Event("status", c, status'[c], 0)) /\ Inside
        /\ UNCHANGED <<watched, version, loads, calls>> /\ moving' = [moving EXCEPT ![c] = 0]
        /\ crossed \subseteq crossed' /\ crossed' \in SUBSET Peer
    BY <1>0, <1>1 DEF Sessions!Drops, Inside, Sessions!window, Sessions!Told, SessionsTyped
  <2>2. status'[c] = "Reconnecting"
    BY <1>0, <2>1 DEF SessionsTyped
  <2>3. moving' \in [Peer -> 0..1] /\ (\A d \in Peer \ {c} : moving'[d] = moving[d]) /\ calls' \in Nat
    BY <1>0, <2>1 DEF SessionsTyped
  <2>4. inbox' = Append(inbox, Sessions!Event("status", c, "Reconnecting", 0))
    BY <2>1, <2>2
  <2> QED
    BY <2>1, <2>3, <2>4, StatusKeeps
<1>2. CASE Sessions!Reconnects(c)
  <2>1. /\ status[c] = "Reconnecting" /\ status' = [status EXCEPT ![c] = "Connected"]
        /\ inbox' = Append(inbox, Sessions!Event("status", c, status'[c], 0)) /\ Inside
        /\ UNCHANGED <<watched, version, loads, calls>>
        /\ moving' = [moving EXCEPT ![c] = IF watched[c] = 0 THEN 0 ELSE 1]
        /\ crossed' = IF watched[c] = 0 THEN crossed \cup {c} ELSE crossed
    BY <1>0, <1>2 DEF Sessions!Reconnects, Inside, Sessions!window, Sessions!Told, SessionsTyped
  <2>2. status'[c] = "Connected"
    BY <1>0, <2>1 DEF SessionsTyped
  <2>3. moving' \in [Peer -> 0..1] /\ (\A d \in Peer \ {c} : moving'[d] = moving[d]) /\ calls' \in Nat
        /\ crossed \subseteq crossed' /\ crossed' \in SUBSET Peer
    BY <1>0, <2>1 DEF SessionsTyped
  <2>4. inbox' = Append(inbox, Sessions!Event("status", c, "Connected", 0))
    BY <2>1, <2>2
  <2>5. c \notin crossed' => watched[c] # 0 /\ moving'[c] = 1
    BY <1>0, <2>1 DEF SessionsTyped
  <2> QED
    BY <2>1, <2>3, <2>4, <2>5, StatusKeeps
<1> QED
  BY <1>1, <1>2

LEMMA BannerKeepsSessions ==
  ASSUME SessionsInv, NEW k \in Sessions!Key, Sessions!Reconnect(k) \/ Sessions!Stop(k)
  PROVE  SessionsInv'
<1> DEFINE c == stores[k].conn
<1>0. SessionsTyped /\ c \in Peer
  BY DEF SessionsInv, SessionsTyped, StoreRec
<1>1. PICK what \in {"Reconnecting", "Error"} :
        /\ status[c] \in {"Error", "Reconnecting"} /\ status' = [status EXCEPT ![c] = what]
        /\ inbox' = Append(inbox, Sessions!Event("status", c, status'[c], 0)) /\ Inside
        /\ UNCHANGED <<watched, version, loads, moving, crossed, calls>>
  BY DEF Sessions!Reconnect, Sessions!Stop, Inside, Sessions!window, Sessions!Told
<1> HIDE DEF c
<1>2. status'[c] = what
  BY <1>0, <1>1 DEF SessionsTyped
<1>3. inbox' = Append(inbox, Sessions!Event("status", c, what, 0))
  BY <1>1, <1>2
<1>4. /\ moving' \in [Peer -> 0..1] /\ calls' \in Nat /\ crossed' \in SUBSET Peer
           /\ crossed \subseteq crossed'
      /\ \A d \in Peer \ {c} : moving'[d] = moving[d]
  BY <1>0, <1>1 DEF SessionsTyped
<1>5. what \in {"Connecting", "Connected", "Reconnecting", "Error"} /\ what # "Connected"
  OBVIOUS
<1>6. status[c] # "none" /\ status[c] # "Connecting"
  BY <1>1
<1> QED
  BY <1>0, <1>1, <1>3, <1>4, <1>5, <1>6, StatusKeeps

LEMMA TellsKeepsSessions ==
  ASSUME SessionsInv, NEW c \in Peer, Sessions!TellsReconnected(c)
  PROVE  SessionsInv'
<1> DEFINE e == Sessions!Event("reconnected", c, "Connected", version[c])
<1>0. SessionsTyped /\ version[c] \in Nat
  BY DEF SessionsInv, SessionsTyped
<1>1. /\ moving[c] = 1 /\ status[c] = "Connected" /\ moving' = [moving EXCEPT ![c] = 0]
      /\ inbox' = Append(inbox, e) /\ Inside
      /\ UNCHANGED <<status, watched, version, loads, crossed, calls>>
  BY DEF Sessions!TellsReconnected, Inside, Sessions!window
<1>2. e \in InboxRec /\ e.type = "reconnected" /\ e.conn = c /\ e.what = "Connected"
        /\ e.version = version[c]
  BY <1>0, EventSays DEF ConnStatus
<1>3. "Connected" \in ConnStatus \ {"none", "Disconnected"}
        /\ "reconnected" \in {"status", "answer", "reconnected"}
  BY DEF ConnStatus
<1>4. SessionsTyped'
  <2>1. inbox' \in Seq(InboxRec)
    BY <1>0, <1>1, <1>2, AppendShifts
  <2> QED
    BY <1>0, <1>1, <2>1 DEF SessionsTyped, Inside
<1>5. \A d \in Peer \ {c} : Aside(d)
  BY <1>0, <1>1, InsideAside DEF SessionsTyped
<1>6. ASSUME c \notin crossed' PROVE ConnOK(c)'
  <2>0. ConnOK(c) /\ c \in Peer \ crossed
    BY <1>1, <1>6 DEF SessionsInv
  <2>1. Dials(c)' /\ Watches(c)'
    BY <1>1, <2>0 DEF Dials, Watches, ConnOK
  <2>2. Len(inbox') \in 1..Len(inbox') /\ inbox'[Len(inbox')] = e
    BY <1>0, <1>1, <1>2, AppendShifts DEF SessionsTyped
  <2>3. (\E i \in 1..Len(inbox) : Tells(inbox[i], c))'
    BY <1>1, <1>2, <2>2 DEF Tells
  <2>4. Newest(c)'
    BY <2>3 DEF Newest
  <2> QED
    BY <1>0, <1>1, <1>3, <2>0, <2>1, <2>4, ToldConn
<1>7. \A m \in loads' : m.version <= version'[m.conn]
  BY <1>1 DEF SessionsInv, UpTo
<1>8. (\A d \in Peer : version[d] <= version'[d]) /\ version[c] <= version'[c]
  BY <1>0, <1>1 DEF SessionsTyped
<1> QED
  BY <1>0, <1>1, <1>3, <1>4, <1>5, <1>6, <1>7, <1>8, InsideOne

-----------------------------------------------------------------------------
(* What the window is told.                                                *)
Outside == UNCHANGED <<status, watched, version, refs, loads, moving, given, calls>>

LEMMA TakeSays ==
  ASSUME SessionsInv, inbox # <<>>, Sessions!Take1, version' = version, crossed \subseteq crossed'
  PROVE  /\ EventsOK' /\ inbox' \in Seq(InboxRec) /\ Shifts(1, 0)
         /\ inbox[1] \in InboxRec /\ EventOK(1) /\ Len(inbox) \in Nat \ {0} /\ 1 \in 1..Len(inbox)
         /\ Len(inbox') = Len(inbox) - 1
         /\ \A i \in 1..Len(inbox') : i + 1 \in 1..Len(inbox) /\ inbox'[i] = inbox[i + 1]
<1>0. SessionsTyped
  BY DEF SessionsInv
<1>1. inbox' \in Seq(InboxRec) /\ Shifts(1, 0) /\ inbox[1] \in InboxRec /\ Len(inbox) \in Nat \ {0}
  BY <1>0, TailShifts
<1>2. /\ 1 \in 1..Len(inbox) /\ Len(inbox') = Len(inbox) - 1
      /\ \A i \in 1..Len(inbox') : i + 1 \in 1..Len(inbox) /\ inbox'[i] = inbox[i + 1]
  BY <1>1 DEF Shifts
<1>3. EventsOK'
  BY <1>2 DEF EventsOK, EventOK, SessionsInv
<1> QED
  BY <1>1, <1>2, <1>3 DEF SessionsInv, EventsOK

LEMMA LastOne ==
  ASSUME SessionsInv, inbox # <<>>, Sessions!Take1, version' = version, crossed \subseteq crossed',
         NEW c \in Peer \ crossed, Quiet(c)'
  PROVE  IF Bears(inbox[1], c)
           THEN \/ inbox[1].what = status[c]
                \/ inbox[1].what = "Disconnected" /\ Sessions!Of(c) = {}
           ELSE Quiet(c)
<1>1. /\ 1 \in 1..Len(inbox) /\ Len(inbox) \in Nat /\ Len(inbox') = Len(inbox) - 1 /\ Shifts(1, 0)
  BY TakeSays
<1>2. \A i \in 2..Len(inbox) : ~Bears(inbox[i], c)
  <2> TAKE i \in 2..Len(inbox)
  <2>1. i - 1 \in 1..Len(inbox') /\ inbox'[i - 1] = inbox[i]
    BY <1>1 DEF Shifts
  <2> QED
    BY <2>1 DEF Quiet, Bears
<1>3. CASE Bears(inbox[1], c)
  <2>1. Says(inbox[1], c)
    BY <1>1, <1>2, <1>3 DEF SessionsInv, ConnOK, LastSays
  <2> QED
    BY <1>1, <1>3, <2>1 DEF Says, SessionsInv, ConnOK, Parted, Bears
<1>4. CASE ~Bears(inbox[1], c)
  <2>1. Quiet(c)
    BY <1>1, <1>2, <1>4 DEF Quiet
  <2> QED
    BY <1>4, <2>1
<1> QED
  BY <1>3, <1>4

LEMMA TellsTaken ==
  ASSUME SessionsInv, inbox # <<>>, Sessions!Take1, version' = version, crossed \subseteq crossed',
         NEW c,
         \E i \in 1..Len(inbox) : Tells(inbox[i], c)
  PROVE  Tells(inbox[1], c) \/ (\E i \in 1..Len(inbox) : Tells(inbox[i], c))'
<1>1. /\ Len(inbox) \in Nat /\ Len(inbox') = Len(inbox) - 1 /\ Shifts(1, 0)
  BY TakeSays
<1>2. PICK i \in 1..Len(inbox) : Tells(inbox[i], c)
  OBVIOUS
<1>3. CASE i # 1
  <2>1. i - 1 \in 1..Len(inbox') /\ inbox'[i - 1] = inbox[i]
    BY <1>1, <1>3 DEF Shifts
  <2> QED
    BY <1>2, <2>1 DEF Tells
<1> QED
  BY <1>2, <1>3

(* The connection that an event is about.                                  *)
LEMMA TakeConn ==
  ASSUME SessionsInv, inbox # <<>>, Sessions!Take1, Outside, crossed \subseteq crossed',
         listening' = listening,
         NEW c \in Peer \ crossed, Sessions!Of(c)' = Sessions!Of(c),
         Sessions!Of(c) = {} => (\A f \in flushes' : f.conn = c => f \in flushes)
                       /\ (\A d \in homes' : d.conn = c => d \in homes),
         StatusOK(c)', NamesOK(c)', Newest(c)'
  PROVE  ConnOK(c)'
<1>0. /\ SessionsTyped /\ ConnOK(c) /\ Shifts(1, 0) /\ Len(inbox) \in Nat
           /\ Len(inbox') = Len(inbox) - 1
      /\ \A i \in 1..Len(inbox') : i + 1 \in 1..Len(inbox) /\ inbox'[i] = inbox[i + 1]
  BY TakeSays DEF SessionsInv, Outside
<1>1. OneStore(c)' /\ Dials(c)' /\ Watches(c)'
  BY <1>0 DEF OneStore, Dials, Watches, ConnOK, Outside
<1>2. Gone(c)' /\ Parted(c)'
  BY <1>0 DEF Gone, Parted, ConnOK, Outside
<1>3. LastSays(c)'
  <2>1. ~(\E i \in 1..Len(inbox') : i > Len(inbox) - 1)
    BY <1>0
  <2> QED
    BY <1>0, <2>1, LastKept DEF ConnOK, Outside
<1> QED
  BY <1>1, <1>2, <1>3 DEF ConnOK

LEMMA OutsideAside ==
  ASSUME Outside, listening' = listening, NEW c,
         \A f : f.conn = c => (f \in flushes' <=> f \in flushes),
         \A d : d.conn = c => (d \in homes' => d \in homes),
         \A k : k \in Sessions!Of(c)' <=> k \in Sessions!Of(c),
         \A k \in Sessions!Of(c) : stores'[k] = stores[k] /\ names'[k] = names[k]
  PROVE  Aside(c)
BY DEF Outside, Aside

LEMMA TakeOther ==
  ASSUME SessionsInv, inbox # <<>>, Sessions!Take1, version' = version, crossed \subseteq crossed',
         NEW c \in Peer \ crossed, inbox[1].conn # c, Aside(c)
  PROVE  ConnOK(c)'
<1>1. Shifts(1, 0) /\ Len(inbox) \in Nat /\ Len(inbox') = Len(inbox) - 1
  BY TakeSays
<1>2. ~(\E i \in 1..Len(inbox') : i > Len(inbox) - 1)
  BY <1>1
<1> QED
  BY <1>1, <1>2, AsideKeeps DEF SessionsInv

(* The newest version is in the session, or will get there, as before.     *)
LEMMA NewestTaken ==
  ASSUME SessionsInv, inbox # <<>>, Sessions!Take1, Outside, crossed \subseteq crossed',
         NEW c \in Peer \ crossed,
         \A f : f.conn = c => (f \in flushes => f \in flushes'),
         \A k \in Sessions!Of(c) : k \in Sessions!Of(c)'
           /\ (stores[k].version = version[c] => stores'[k].version = version[c]),
         (Tells(inbox[1], c) /\ refs[c]) =>
           \/ \E k \in Sessions!Of(c)' : stores'[k].version = version[c]
           \/ \E f \in flushes' : f.conn = c /\ f.version = version[c]
  PROVE  Newest(c)'
<1>1. version' = version /\ Newest(c)
  BY DEF Outside, SessionsInv, ConnOK
<1>2. (\E i \in 1..Len(inbox) : Tells(inbox[i], c)) =>
        Tells(inbox[1], c) \/ (\E i \in 1..Len(inbox) : Tells(inbox[i], c))'
  BY <1>1, TellsTaken
<1> QED
  BY <1>1, <1>2 DEF Newest, Outside

LEMMA NobodyKeepsSessions ==
  ASSUME SessionsInv, Sessions!NobodyListens
  PROVE  SessionsInv'
<1>0. SessionsTyped
  BY DEF SessionsInv
<1>1. /\ ~listening /\ inbox # <<>> /\ inbox[1].type # "answer" /\ Sessions!Take1
      /\ UNCHANGED <<listening, stores, view, names, flushes, homes>> /\ Outside
      /\ crossed' = IF inbox[1].type = "status" /\ inbox[1].what = "Connected" THEN crossed
                    ELSE crossed \cup {inbox[1].conn}
  BY DEF Sessions!NobodyListens, Sessions!window, Sessions!main, Outside
<1>2. inbox[1] \in InboxRec /\ inbox[1].conn \in Peer
  BY <1>0, <1>1, TailShifts DEF InboxRec
<1>3. crossed \subseteq crossed' /\ crossed' \in SUBSET Peer /\ version' = version
  BY <1>0, <1>1, <1>2 DEF SessionsTyped, Outside
<1>4. /\ EventsOK' /\ inbox' \in Seq(InboxRec)
      /\ \A i \in 1..Len(inbox') : i + 1 \in 1..Len(inbox) /\ inbox'[i] = inbox[i + 1]
  BY <1>1, <1>3, TakeSays
<1>5. SessionsTyped' /\ UpTo' /\ ViewOK'
  BY <1>0, <1>1, <1>3, <1>4 DEF SessionsInv, SessionsTyped, UpTo, ViewOK, Sessions!Up, Outside
<1>6. StoresOK'
  BY <1>1, <1>4 DEF SessionsInv, StoresOK, Outside
<1>7. ASSUME NEW c \in Peer \ crossed' PROVE ConnOK(c)'
  <2>1. c \in Peer \ crossed /\ \A k : k \in Sessions!Of(c)' <=> k \in Sessions!Of(c)
    BY <1>1, <1>3, <1>7 DEF Sessions!Of, Sessions!Up
  <2>2. CASE inbox[1].conn # c
    <3>1. Aside(c)
      BY <1>1, <2>1, OutsideAside
    <3> QED
      BY <1>1, <1>3, <2>1, <2>2, <3>1, TakeOther
  <2>3. CASE inbox[1].conn = c
    <3>1. inbox[1].type = "status"
      BY <1>1, <1>7, <2>3
    <3>2. Sessions!Of(c) = {} /\ Sessions!Of(c)' = {}
      BY <1>1 DEF SessionsInv, StoresOK, Sessions!Of, Sessions!Up
    <3>3. ~Tells(inbox[1], c)
      BY <3>1 DEF Tells
    <3>4. StatusOK(c)' /\ NamesOK(c)'
      BY <1>1, <2>1, <3>2 DEF StatusOK, NamesOK, SessionsInv, ConnOK, Outside
    <3>5. Newest(c)'
      BY <1>1, <1>3, <2>1, <3>2, <3>3, NewestTaken
    <3> QED
      BY <1>1, <1>3, <2>1, <3>2, <3>4, <3>5, TakeConn
  <2> QED
    BY <2>2, <2>3
<1> QED
  BY <1>4, <1>5, <1>6, <1>7 DEF SessionsInv

LEMMA StatusKeepsSessions ==
  ASSUME SessionsInv, NEW c \in Peer, Sessions!StatusArrives(c)
  PROVE  SessionsInv'
<1> DEFINE e == inbox[1]
           s(k) == [stores[k] EXCEPT !.status = e.what]
<1>0. SessionsTyped
  BY DEF SessionsInv
<1>1. /\ listening /\ inbox # <<>> /\ e.type = "status" /\ e.conn = c /\ Sessions!Take1 /\ Outside
      /\ stores' = [k \in Sessions!Key |-> IF k \in Sessions!Of(c) THEN s(k) ELSE stores[k]]
      /\ UNCHANGED <<listening, view, names, flushes, homes, crossed>>
  BY DEF Sessions!StatusArrives, Sessions!Next1, Sessions!main, Outside
<1>2. crossed \subseteq crossed' /\ version' = version
  BY <1>1 DEF Outside
<1>3. EventsOK' /\ inbox' \in Seq(InboxRec) /\ e \in InboxRec /\ EventOK(1)
  BY <1>1, <1>2, TakeSays
<1>4. e.what \in ConnStatus \ {"none"}
  BY <1>1, <1>3 DEF InboxRec, EventOK
<1> HIDE DEF e
<1>5. \A k \in Sessions!Key : s(k) \in StoreRec /\ s(k).up = stores[k].up /\ s(k).conn = stores[k].conn
                     /\ s(k).version = stores[k].version /\ s(k).status = e.what
  BY <1>0, <1>4 DEF SessionsTyped, StoreRec
<1> HIDE DEF s
<1>6. \A k \in Sessions!Key : /\ stores'[k] \in StoreRec /\ stores'[k].up = stores[k].up
                              /\ stores'[k].conn = stores[k].conn
                                   /\ stores'[k].version = stores[k].version
                              /\ stores'[k].status = IF k \in Sessions!Of(c) THEN e.what
                                   ELSE stores[k].status
                              /\ k \notin Sessions!Of(c) => stores'[k] = stores[k]
  BY <1>0, <1>1, <1>5 DEF SessionsTyped
<1>7. SessionsTyped'
  BY <1>0, <1>1, <1>3, <1>6 DEF SessionsTyped, Outside
<1>8. StoresOK' /\ UpTo' /\ ViewOK'
  <2>1. Sessions!Up' = Sessions!Up
    BY <1>6 DEF Sessions!Up
  <2> QED
    BY <1>1, <1>4, <1>6, <2>1 DEF SessionsInv, StoresOK, UpTo, ViewOK, Outside
<1>9. ASSUME NEW d \in Peer \ crossed' PROVE ConnOK(d)'
  <2>0. ConnOK(d) /\ d \in Peer \ crossed
    BY <1>1, <1>9 DEF SessionsInv
  <2>1. Sessions!Of(d)' = Sessions!Of(d) /\ \A k \in Sessions!Of(d) : k \in Sessions!Key
          /\ stores[k].conn = d
    BY <1>6 DEF Sessions!Of, Sessions!Up
  <2>2. CASE d # c
    <3>1. \A k \in Sessions!Of(d) : stores'[k] = stores[k] /\ names'[k] = names[k]
      BY <1>1, <1>6, <2>1, <2>2 DEF Sessions!Of
    <3>2. Aside(d)
      BY <1>1, <2>1, <3>1, OutsideAside
    <3> QED
      BY <1>1, <1>2, <2>0, <2>2, <3>2, TakeOther DEF e
  <2>3. CASE d = c
    <3>1. StatusOK(c)'
      <4> SUFFICES ASSUME Quiet(c)', NEW k \in Sessions!Of(c) PROVE stores'[k].status = status[c]
        BY <1>1, <2>1, <2>3 DEF StatusOK, Outside
      <4>1. Bears(inbox[1], c) /\ Sessions!Of(c) # {}
        BY <1>1 DEF Bears, e
      <4>2. e.what = status[c]
        BY <1>1, <1>2, <2>0, <2>3, <4>1, LastOne DEF e
      <4> QED
        BY <1>6, <2>1, <2>3, <4>2
    <3>2. NamesOK(c)'
      BY <1>1, <2>0, <2>1, <2>3 DEF NamesOK, ConnOK, Outside
    <3>3. Newest(c)'
      <4>1. ~Tells(inbox[1], c)
        BY <1>1 DEF Tells, e
      <4> QED
        BY <1>1, <1>2, <1>6, <2>0, <2>1, <2>3, <4>1, NewestTaken
    <3> QED
      BY <1>1, <1>2, <2>0, <2>1, <2>3, <3>1, <3>2, <3>3, TakeConn
  <2> QED
    BY <2>2, <2>3
<1> QED
  BY <1>3, <1>7, <1>8, <1>9 DEF SessionsInv

(* One store is set, for connection c.                                     *)
LEMMA SetsOne ==
  ASSUME SessionsTyped, NEW c \in Peer, NEW k \in Sessions!Key, k \in Sessions!Of(c) \/ ~stores[k].up,
         NEW v \in StoreRec, v.up, v.conn = c, stores' = [stores EXCEPT ![k] = v]
  PROVE  /\ stores' \in [Sessions!Key -> StoreRec] /\ stores'[k] = v
              /\ \A j \in Sessions!Key \ {k} : stores'[j] = stores[j]
         /\ Sessions!Of(c)' = Sessions!Of(c) \cup {k} /\ k \in Sessions!Up'
         /\ \A d \in Peer \ {c} : Sessions!Of(d)' = Sessions!Of(d)
              /\ \A j \in Sessions!Of(d) : stores'[j] = stores[j]
<1>1. stores' \in [Sessions!Key -> StoreRec] /\ stores'[k] = v
        /\ \A j \in Sessions!Key \ {k} : stores'[j] = stores[j]
  BY DEF SessionsTyped
<1>2. Sessions!Of(c)' = Sessions!Of(c) \cup {k} /\ k \in Sessions!Up'
  BY <1>1 DEF Sessions!Of, Sessions!Up
<1>3. ASSUME NEW d \in Peer \ {c}
      PROVE  Sessions!Of(d)' = Sessions!Of(d) /\ \A j \in Sessions!Of(d) : stores'[j] = stores[j]
  <2>1. k \notin Sessions!Of(d)
    BY <1>3 DEF Sessions!Of, Sessions!Up
  <2> QED
    BY <1>1, <1>3, <2>1 DEF Sessions!Of, Sessions!Up
<1> QED
  BY <1>1, <1>2, <1>3

LEMMA SyncKeepsSessions ==
  ASSUME SessionsInv, NEW c \in Peer, Sessions!SyncArrives(c)
  PROVE  SessionsInv'
<1> DEFINE e == inbox[1]
           k == Sessions!First(Sessions!Of(c))
           v == [stores[k] EXCEPT !.version = Sessions!Larger(@, e.version)]
<1>0. SessionsTyped
  BY DEF SessionsInv
<1>1. /\ listening /\ inbox # <<>> /\ e.type = "sync" /\ e.conn = c /\ Sessions!Take1 /\ Outside
      /\ UNCHANGED <<listening, view, names, flushes, homes, crossed>>
      /\ stores' = IF Sessions!Of(c) = {} THEN stores ELSE [stores EXCEPT ![k] = v]
  BY DEF Sessions!SyncArrives, Sessions!Next1, Sessions!main, Outside
<1>2. crossed \subseteq crossed' /\ version' = version
  BY <1>1 DEF Outside
<1>3. EventsOK' /\ inbox' \in Seq(InboxRec) /\ e \in InboxRec /\ EventOK(1)
  BY <1>1, <1>2, TakeSays
<1>4. e.version \in Nat /\ e.version <= version[c] /\ version[c] \in Nat
  BY <1>0, <1>1, <1>3 DEF InboxRec, EventOK, SessionsTyped
<1> HIDE DEF e
<1>5. Sessions!Of(c) # {} => k \in Sessions!Of(c) /\ k \in Sessions!Key /\ stores[k].up
        /\ stores[k].conn = c
  <2>1. Sessions!Of(c) \in SUBSET Sessions!Key
    BY DEF Sessions!Of, Sessions!Up
  <2>2. Sessions!Of(c) # {} => k \in Sessions!Of(c)
    BY <2>1, FirstSays
  <2> QED
    BY <2>2 DEF Sessions!Of, Sessions!Up
<1> HIDE DEF k
<1>6. Sessions!Of(c) # {} => /\ v \in StoreRec /\ v.up = stores[k].up /\ v.conn = stores[k].conn
                             /\ v.status = stores[k].status /\ v.version \in Nat
                                  /\ v.version <= version[c]
                             /\ v.version >= stores[k].version /\ v.version >= e.version
  <2> SUFFICES ASSUME Sessions!Of(c) # {}
               PROVE  /\ v \in StoreRec /\ v.up = stores[k].up /\ v.conn = stores[k].conn
                      /\ v.status = stores[k].status /\ v.version \in Nat /\ v.version <= version[c]
                      /\ v.version >= stores[k].version /\ v.version >= e.version
    OBVIOUS
  <2>1. stores[k] \in StoreRec /\ stores[k].version \in Nat /\ stores[k].version <= version[c]
    BY <1>0, <1>5 DEF SessionsInv, SessionsTyped, UpTo, StoreRec
  <2>2. Sessions!Larger(stores[k].version, e.version) \in Nat
          /\ Sessions!Larger(stores[k].version, e.version) <= version[c]
        /\ Sessions!Larger(stores[k].version, e.version) >= stores[k].version
        /\ Sessions!Larger(stores[k].version, e.version) >= e.version
    BY <1>4, <2>1 DEF Sessions!Larger
  <2> HIDE DEF Sessions!Larger
  <2>3. v.version = Sessions!Larger(stores[k].version, e.version)
    BY <2>1 DEF StoreRec
  <2> QED
    BY <2>1, <2>2, <2>3 DEF StoreRec
<1> HIDE DEF v
<1>7. /\ stores' \in [Sessions!Key -> StoreRec] /\ \A d \in Peer : Sessions!Of(d)' = Sessions!Of(d)
      /\ \A j \in Sessions!Key : /\ stores'[j].up = stores[j].up /\ stores'[j].conn = stores[j].conn
                                 /\ stores'[j].status = stores[j].status
      /\ \A j \in Sessions!Key : j \notin Sessions!Of(c) => stores'[j] = stores[j]
      /\ \A j \in Sessions!Key : stores'[j].version <= version[stores'[j].conn]
      /\ \A j \in Sessions!Of(c) : stores[j].version = version[c] => stores'[j].version = version[c]
  <2>1. CASE Sessions!Of(c) = {}
    BY <1>0, <1>1, <2>1 DEF SessionsInv, SessionsTyped, UpTo, Sessions!Of, Sessions!Up
  <2>2. CASE Sessions!Of(c) # {}
    <3>1. stores' \in [Sessions!Key -> StoreRec] /\ stores'[k] = v
            /\ \A j \in Sessions!Key \ {k} : stores'[j] = stores[j]
      BY <1>0, <1>1, <1>5, <1>6, <2>2 DEF SessionsTyped
    <3>2. stores[k].version \in Nat /\ v.version \in Nat /\ version[c] \in Nat
      BY <1>0, <1>4, <1>5, <1>6, <2>2 DEF SessionsTyped, StoreRec
    <3>3. stores[k].version = version[c] => v.version = version[c]
      BY <1>6, <2>2, <3>2
    <3>4. \A j \in Sessions!Key : stores'[j].up = stores[j].up /\ stores'[j].conn = stores[j].conn
                         /\ stores'[j].status = stores[j].status
      BY <1>5, <1>6, <2>2, <3>1
    <3>5. \A d \in Peer : Sessions!Of(d)' = Sessions!Of(d)
      BY <3>4 DEF Sessions!Of, Sessions!Up
    <3>6. \A j \in Sessions!Key : stores'[j].version <= version[stores'[j].conn]
      BY <1>5, <1>6, <2>2, <3>1 DEF SessionsInv, UpTo
    <3>7. \A j \in Sessions!Key : j \notin Sessions!Of(c) => stores'[j] = stores[j]
      BY <1>5, <2>2, <3>1
    <3>8. \A j \in Sessions!Of(c) : stores[j].version = version[c] => stores'[j].version = version[c]
      BY <3>1, <3>3 DEF Sessions!Of, Sessions!Up
    <3> HIDE DEF Sessions!Key, Sessions!Of
    <3> QED
      BY <3>1, <3>4, <3>5, <3>6, <3>7, <3>8
  <2> QED
    BY <2>1, <2>2
<1>8. SessionsTyped'
  BY <1>0, <1>1, <1>3, <1>7 DEF SessionsTyped, Outside
<1>9. StoresOK' /\ UpTo' /\ ViewOK'
  <2>1. Sessions!Up' = Sessions!Up
    BY <1>7 DEF Sessions!Up
  <2> QED
    BY <1>1, <1>7, <2>1 DEF SessionsInv, StoresOK, UpTo, ViewOK, Outside
<1>10. ASSUME NEW d \in Peer \ crossed' PROVE ConnOK(d)'
  <2>0. ConnOK(d) /\ d \in Peer \ crossed
    BY <1>1, <1>10 DEF SessionsInv
  <2>1. Sessions!Of(d)' = Sessions!Of(d) /\ \A j \in Sessions!Of(d) : j \in Sessions!Key
          /\ stores[j].conn = d
    BY <1>7 DEF Sessions!Of, Sessions!Up
  <2>2. CASE d # c
    <3>1. \A j \in Sessions!Of(d) : stores'[j] = stores[j] /\ names'[j] = names[j]
      BY <1>1, <1>7, <2>1, <2>2 DEF Sessions!Of
    <3>2. Aside(d)
      BY <1>1, <2>1, <3>1, OutsideAside
    <3> QED
      BY <1>1, <1>2, <2>0, <2>2, <3>2, TakeOther DEF e
  <2>3. CASE d = c
    <3>1. StatusOK(c)'
      <4> SUFFICES ASSUME Quiet(c)' PROVE Quiet(c)
        BY <1>1, <1>7, <2>0, <2>1, <2>3 DEF StatusOK, Outside, ConnOK, Loading
      <4>1. ~Bears(inbox[1], c)
        BY <1>1 DEF Bears, e
      <4> QED
        BY <1>1, <1>2, <2>0, <2>3, <4>1, LastOne
    <3>2. NamesOK(c)'
      BY <1>1, <2>0, <2>1, <2>3 DEF NamesOK, ConnOK, Outside
    <3>3. Newest(c)'
      <4>1. ASSUME Tells(inbox[1], c) PROVE \E j \in Sessions!Of(c)' : stores'[j].version = version[c]
        <5>1. e.version = version[c] /\ Sessions!Of(c) # {}
          BY <1>1, <2>0, <2>3, <4>1, <1>3, TakeSays, <1>2 DEF Tells, e, ConnOK, Gone
        <5>2. stores'[k] = v /\ k \in Sessions!Of(c)'
          BY <1>0, <1>1, <1>5, <1>7, <5>1 DEF SessionsTyped
        <5>3. v.version = version[c]
          BY <1>4, <1>6, <5>1
        <5> QED
          BY <5>2, <5>3
      <4> QED
        BY <1>1, <1>2, <1>7, <2>0, <2>1, <2>3, <4>1, NewestTaken
    <3> QED
      BY <1>1, <1>2, <2>0, <2>1, <2>3, <3>1, <3>2, <3>3, TakeConn
  <2> QED
    BY <2>2, <2>3
<1> QED
  BY <1>3, <1>8, <1>9, <1>10 DEF SessionsInv


(* An event of c changes its sessions only.                                *)
LEMMA TakeKeepsRest ==
  ASSUME SessionsInv, inbox # <<>>, Sessions!Take1, Outside, crossed \subseteq crossed',
         crossed' \in SUBSET Peer,
         listening, listening' = listening, names' = names,
         NEW c \in Peer, inbox[1].conn = c,
         stores' \in [Sessions!Key -> StoreRec],
         \A d \in Peer \ {c} : Sessions!Of(d)' = Sessions!Of(d)
           /\ \A j \in Sessions!Of(d) : stores'[j] = stores[j],
         \A j \in Sessions!Key : \/ stores'[j] = stores[j]
                                 \/ stores'[j].status # "none"
                                      /\ stores'[j].version <= version[stores'[j].conn],
         flushes' \in SUBSET FlushRec, homes' \in SUBSET HomeRec,
         \A f \in flushes' : f \in flushes \/ (f.conn = c /\ f.version <= version[c]),
         \A f \in flushes : f \in flushes',
         \A d \in homes' : d \in homes \/ (d.conn = c /\ ~refs[c]),
         \/ view' \in Sessions!Up' \/ ~refs[c] \/ (view' = view /\ Sessions!Up' = Sessions!Up),
         c \notin crossed' => ConnOK(c)'
  PROVE  SessionsInv'
<1>0. SessionsTyped /\ version' = version
  BY DEF SessionsInv, Outside
<1>1. EventsOK' /\ inbox' \in Seq(InboxRec)
  BY <1>0, TakeSays
<1>2. SessionsTyped'
  BY <1>0, <1>1 DEF SessionsTyped, Outside
<1>3. StoresOK'
  BY DEF SessionsInv, StoresOK, Outside
<1>4. UpTo'
  BY <1>0 DEF SessionsInv, UpTo, Outside
<1>5. ViewOK'
  BY DEF SessionsInv, ViewOK, Outside
<1>6. ASSUME NEW d \in Peer \ crossed', d # c PROVE ConnOK(d)'
  <2>1. Sessions!Of(d)' = Sessions!Of(d) /\ \A j \in Sessions!Of(d) : stores'[j] = stores[j]
    BY <1>6
  <2>2. Aside(d)
    <3>1. \A f : f.conn = d => (f \in flushes' <=> f \in flushes)
      BY <1>6
    <3>2. \A h : h.conn = d => (h \in homes' => h \in homes)
      BY <1>6
    <3> QED
      BY <2>1, <3>1, <3>2, OutsideAside
  <2> QED
    BY <1>0, <1>6, <2>2, TakeOther
<1> QED
  BY <1>1, <1>2, <1>3, <1>4, <1>5, <1>6 DEF SessionsInv

LEMMA SetErrorKeepsSessions ==
  ASSUME SessionsInv, NEW c \in Peer, Sessions!SetSessionError(c)
  PROVE  SessionsInv'
<1> DEFINE k == Sessions!First(Sessions!Of(c))
           v == [stores[k] EXCEPT !.status = "Error"]
<1>0. SessionsTyped
  BY DEF SessionsInv
<1>1. /\ listening /\ inbox # <<>> /\ inbox[1].type = "answer" /\ inbox[1].conn = c
      /\ inbox[1].what = "Error" /\ Sessions!Take1 /\ Outside
      /\ UNCHANGED <<listening, view, names, flushes, homes>>
      /\ stores' = IF Sessions!Of(c) = {} THEN stores ELSE [stores EXCEPT ![k] = v]
      /\ crossed' = IF status[c] = "Error" THEN crossed ELSE crossed \cup {c}
  BY DEF Sessions!SetSessionError, Sessions!Next1, Sessions!main, Outside
<1>2. crossed \subseteq crossed' /\ version' = version /\ crossed' \in SUBSET Peer
  BY <1>0, <1>1 DEF Outside, SessionsTyped
<1>3. Sessions!Of(c) # {} => k \in Sessions!Of(c) /\ k \in Sessions!Key /\ stores[k].up
        /\ stores[k].conn = c
  <2>1. Sessions!Of(c) \in SUBSET Sessions!Key
    BY DEF Sessions!Of, Sessions!Up
  <2>2. Sessions!Of(c) # {} => k \in Sessions!Of(c)
    BY <2>1, FirstSays
  <2> QED
    BY <2>2 DEF Sessions!Of, Sessions!Up
<1> HIDE DEF k
<1>4. Sessions!Of(c) # {} => /\ v \in StoreRec /\ v.up /\ v.conn = c /\ v.status = "Error"
                             /\ v.version = stores[k].version /\ v.version <= version[c]
  <2>1. Sessions!Of(c) # {} => stores[k] \in StoreRec /\ stores[k].version <= version[c]
    BY <1>0, <1>3 DEF SessionsInv, SessionsTyped, UpTo
  <2> QED
    BY <1>3, <2>1 DEF StoreRec, ConnStatus
<1> HIDE DEF v
<1>5. Sessions!Of(c) # {} =>
        /\ stores' \in [Sessions!Key -> StoreRec] /\ stores'[k] = v
             /\ \A j \in Sessions!Key \ {k} : stores'[j] = stores[j]
        /\ Sessions!Of(c)' = Sessions!Of(c) \cup {k} /\ k \in Sessions!Up'
        /\ \A d \in Peer \ {c} : Sessions!Of(d)' = Sessions!Of(d)
             /\ \A j \in Sessions!Of(d) : stores'[j] = stores[j]
  BY <1>0, <1>1, <1>3, <1>4, SetsOne
<1>6. Sessions!Of(c) = {} => stores' = stores /\ \A d \in Peer : Sessions!Of(d)' = Sessions!Of(d)
  BY <1>1 DEF Sessions!Of, Sessions!Up
<1>7. Sessions!Up' = Sessions!Up
  <2>1. ASSUME NEW j \in Sessions!Key PROVE stores'[j].up <=> stores[j].up
    <3>1. CASE Sessions!Of(c) = {}
      BY <1>6, <3>1
    <3>2. CASE Sessions!Of(c) # {}
      <4>1. stores'[k].up /\ stores[k].up
        BY <1>3, <1>4, <1>5, <3>2
      <4>2. j # k => stores'[j] = stores[j]
        BY <1>5, <3>2
      <4> QED
        BY <4>1, <4>2
    <3> QED
      BY <3>1, <3>2
  <2> QED
    BY <2>1 DEF Sessions!Up
<1>8. ASSUME c \notin crossed' PROVE ConnOK(c)'
  <2>0. ConnOK(c) /\ c \in Peer \ crossed /\ status[c] = "Error"
    BY <1>1, <1>8 DEF SessionsInv
  <2>1. Sessions!Of(c) # {}
    BY <1>1, <2>0 DEF ConnOK, Gone
  <2>2. Sessions!Of(c)' = Sessions!Of(c) /\ \A j \in Sessions!Of(c) : j = k
    BY <1>3, <1>5, <2>0, <2>1 DEF ConnOK, OneStore
  <2>3. StatusOK(c)'
    BY <1>1, <1>4, <1>5, <2>0, <2>1, <2>2 DEF StatusOK, Outside
  <2>4. NamesOK(c)'
    BY <1>1, <2>0, <2>2 DEF NamesOK, ConnOK, Outside
  <2>5. Newest(c)'
    BY <1>1, <2>0 DEF Newest, Outside
  <2> QED
    BY <1>1, <1>2, <2>0, <2>1, <2>2, <2>3, <2>4, <2>5, TakeConn
<1>9. \A j \in Sessions!Key : \/ stores'[j] = stores[j]
                              \/ stores'[j].status # "none"
                                   /\ stores'[j].version <= version[stores'[j].conn]
  BY <1>4, <1>5, <1>6
<1>10. /\ stores' \in [Sessions!Key -> StoreRec] /\ flushes' \in SUBSET FlushRec
            /\ homes' \in SUBSET HomeRec
       /\ \A d \in Peer \ {c} : Sessions!Of(d)' = Sessions!Of(d)
            /\ \A j \in Sessions!Of(d) : stores'[j] = stores[j]
  BY <1>0, <1>1, <1>5, <1>6 DEF SessionsTyped
<1> QED
  BY <1>1, <1>2, <1>7, <1>8, <1>9, <1>10, TakeKeepsRest


LEMMA HandleKeepsSessions ==
  ASSUME SessionsInv, NEW c \in Peer, Sessions!HandleReconnected(c)
  PROVE  SessionsInv'
<1> DEFINE k == Sessions!First(Sessions!Of(c))
           v == [stores[k] EXCEPT !.status = "Connected"]
           name == IF Sessions!Of(c) = {} THEN 0 ELSE names[k]
           g == [conn |-> c, version |-> inbox[1].version, name |-> name]
<1>0. SessionsTyped
  BY DEF SessionsInv
<1>3. Sessions!Of(c) # {} => k \in Sessions!Of(c) /\ k \in Sessions!Key /\ k # 0 /\ stores[k].up
        /\ stores[k].conn = c
  <2>1. Sessions!Of(c) \in SUBSET Sessions!Key
    BY DEF Sessions!Of, Sessions!Up
  <2>2. Sessions!Of(c) # {} => k \in Sessions!Of(c)
    BY <2>1, FirstSays
  <2> QED
    BY <2>2, AppAssumption DEF Sessions!Of, Sessions!Up, Sessions!Key
<1>1. /\ listening /\ inbox # <<>> /\ inbox[1].type = "reconnected" /\ inbox[1].conn = c
           /\ Sessions!Take1 /\ Outside
      /\ UNCHANGED <<listening, view, names, homes, crossed>>
      /\ stores' = IF Sessions!Of(c) = {} THEN stores ELSE [stores EXCEPT ![k] = v]
      /\ flushes' = flushes \cup {g}
  BY <1>3 DEF Sessions!HandleReconnected, Sessions!Next1, Sessions!main, Outside
<1>2. crossed \subseteq crossed' /\ version' = version /\ crossed' \in SUBSET Peer
  BY <1>0, <1>1 DEF Outside, SessionsTyped
<1> HIDE DEF k
<1>4. Sessions!Of(c) # {} => /\ v \in StoreRec /\ v.up /\ v.conn = c /\ v.status = "Connected"
                             /\ v.version = stores[k].version /\ v.version <= version[c]
  <2>1. Sessions!Of(c) # {} => stores[k] \in StoreRec /\ stores[k].version <= version[c]
    BY <1>0, <1>3 DEF SessionsInv, SessionsTyped, UpTo
  <2> QED
    BY <1>3, <2>1 DEF StoreRec, ConnStatus
<1> HIDE DEF v
<1>5. Sessions!Of(c) # {} =>
        /\ stores' \in [Sessions!Key -> StoreRec] /\ stores'[k] = v
             /\ \A j \in Sessions!Key \ {k} : stores'[j] = stores[j]
        /\ Sessions!Of(c)' = Sessions!Of(c) \cup {k} /\ k \in Sessions!Up'
        /\ \A d \in Peer \ {c} : Sessions!Of(d)' = Sessions!Of(d)
             /\ \A j \in Sessions!Of(d) : stores'[j] = stores[j]
  BY <1>0, <1>1, <1>3, <1>4, SetsOne
<1>6. Sessions!Of(c) = {} => stores' = stores /\ \A d \in Peer : Sessions!Of(d)' = Sessions!Of(d)
  BY <1>1 DEF Sessions!Of, Sessions!Up
<1>7. Sessions!Up' = Sessions!Up
  <2>1. ASSUME NEW j \in Sessions!Key PROVE stores'[j].up <=> stores[j].up
    <3>1. CASE Sessions!Of(c) = {}
      BY <1>6, <3>1
    <3>2. CASE Sessions!Of(c) # {}
      <4>1. stores'[k].up /\ stores[k].up
        BY <1>3, <1>4, <1>5, <3>2
      <4>2. j # k => stores'[j] = stores[j]
        BY <1>5, <3>2
      <4> QED
        BY <4>1, <4>2
    <3> QED
      BY <3>1, <3>2
  <2> QED
    BY <2>1 DEF Sessions!Up
<1>8. /\ inbox[1] \in InboxRec /\ inbox[1].version \in Nat /\ inbox[1].version <= version[c]
      /\ inbox[1].what = "Connected" /\ 1 \in 1..Len(inbox)
  <2>1. inbox[1] \in InboxRec /\ EventOK(1) /\ 1 \in 1..Len(inbox)
    BY <1>1, <1>2, TakeSays
  <2> QED
    BY <1>1, <2>1 DEF InboxRec, EventOK
<1>9. name \in Nat
  BY <1>0, <1>3 DEF SessionsTyped
<1> HIDE DEF name
<1>10. g \in FlushRec /\ g.conn = c /\ g.version = inbox[1].version /\ g.name = name
  BY <1>8, <1>9 DEF FlushRec
<1> HIDE DEF g
<1>11. ASSUME c \notin crossed' PROVE ConnOK(c)'
  <2>0. ConnOK(c) /\ c \in Peer \ crossed
    BY <1>1, <1>11 DEF SessionsInv
  <2>1. Sessions!Of(c) # {}
    BY <1>1, <1>8, <2>0 DEF ConnOK, Gone
  <2>2. Sessions!Of(c)' = Sessions!Of(c) /\ \A j \in Sessions!Of(c) : j = k
    BY <1>3, <1>5, <2>0, <2>1 DEF ConnOK, OneStore
  <2>3. StatusOK(c)'
    <3> SUFFICES ASSUME Quiet(c)' PROVE status[c] = "Connected"
      BY <1>1, <1>4, <1>5, <2>1, <2>2 DEF StatusOK, Outside
    <3>1. Bears(inbox[1], c)
      BY <1>1 DEF Bears
    <3> QED
      BY <1>1, <1>2, <1>8, <2>0, <2>1, <3>1, LastOne
  <2>4. NamesOK(c)'
    <3>1. name = given[c] /\ NamesOK(c)
      BY <1>3, <2>0, <2>1 DEF name, NamesOK, ConnOK
    <3> QED
      BY <1>1, <1>10, <2>2, <3>1 DEF NamesOK, Outside
  <2>5. Newest(c)'
    <3>1. \A f : f.conn = c => (f \in flushes => f \in flushes')
      BY <1>1
    <3>2. ASSUME NEW j \in Sessions!Of(c)
          PROVE  j \in Sessions!Of(c)'
                   /\ (stores[j].version = version[c] => stores'[j].version = version[c])
      BY <1>4, <1>5, <2>1, <2>2
    <3>3. Tells(inbox[1], c) => \E f \in flushes' : f.conn = c /\ f.version = version[c]
      BY <1>1, <1>10 DEF Tells
    <3> QED
      BY <1>1, <1>2, <2>0, <3>1, <3>2, <3>3, NewestTaken
  <2> QED
    BY <1>1, <1>2, <2>0, <2>1, <2>2, <2>3, <2>4, <2>5, TakeConn
<1>12. \A j \in Sessions!Key : \/ stores'[j] = stores[j]
                               \/ stores'[j].status # "none"
                                    /\ stores'[j].version <= version[stores'[j].conn]
  BY <1>4, <1>5, <1>6
<1>13. /\ stores' \in [Sessions!Key -> StoreRec] /\ flushes' \in SUBSET FlushRec
            /\ homes' \in SUBSET HomeRec
       /\ \A d \in Peer \ {c} : Sessions!Of(d)' = Sessions!Of(d)
            /\ \A j \in Sessions!Of(d) : stores'[j] = stores[j]
  BY <1>0, <1>1, <1>5, <1>6, <1>10 DEF SessionsTyped
<1>14. /\ \A f \in flushes' : f \in flushes \/ (f.conn = c /\ f.version <= version[c])
       /\ \A f \in flushes : f \in flushes'
  BY <1>1, <1>8, <1>10
<1> QED
  BY <1>1, <1>2, <1>7, <1>11, <1>12, <1>13, <1>14, TakeKeepsRest


LEMMA AddKeepsSessions ==
  ASSUME SessionsInv, NEW c \in Peer, Sessions!AddRemoteSession(c)
  PROVE  SessionsInv'
<1>0. SessionsTyped
  BY DEF SessionsInv
<1>1. /\ listening /\ inbox # <<>> /\ inbox[1].type = "answer" /\ inbox[1].conn = c
      /\ inbox[1].what = "Connected" /\ Sessions!Take1 /\ Outside
      /\ UNCHANGED <<listening, names, flushes, crossed>>
  BY DEF Sessions!AddRemoteSession, Sessions!Next1, Sessions!main, Outside
<1>2. crossed \subseteq crossed' /\ version' = version /\ crossed' \in SUBSET Peer
  BY <1>0, <1>1 DEF Outside, SessionsTyped
<1>3. /\ inbox[1] \in InboxRec /\ inbox[1].version \in Nat /\ inbox[1].version <= version[c]
      /\ version[c] \in Nat /\ 1 \in 1..Len(inbox)
  <2>1. inbox[1] \in InboxRec /\ EventOK(1) /\ 1 \in 1..Len(inbox)
    BY <1>1, <1>2, TakeSays
  <2> QED
    BY <1>0, <1>1, <2>1 DEF InboxRec, EventOK, SessionsTyped
<1>4. PICK k \in IF Sessions!Of(c) # {} THEN {Sessions!First(Sessions!Of(c))} ELSE Sessions!Unused :
       IF refs[c]
         THEN /\ Sessions!Put(k, c, "Connected",
                              Sessions!Larger(IF k \in Sessions!Up THEN stores[k].version ELSE 0,
                                              inbox[1].version))
              /\ view' = k /\ UNCHANGED homes
         ELSE /\ Sessions!Put(k, c, "Connected", IF k \in Sessions!Up THEN stores[k].version ELSE 0)
              /\ homes' = homes \cup {[key |-> k, conn |-> c]} /\ UNCHANGED view
  BY DEF Sessions!AddRemoteSession
<1>5. k \in Sessions!Key /\ (IF Sessions!Of(c) # {} THEN k \in Sessions!Of(c) ELSE ~stores[k].up)
  <2>1. CASE Sessions!Of(c) # {}
    <3>1. Sessions!Of(c) \in SUBSET Sessions!Key
      BY DEF Sessions!Of, Sessions!Up
    <3> QED
      BY <1>4, <2>1, <3>1, FirstSays
  <2>2. CASE Sessions!Of(c) = {}
    BY <1>0, <1>4, <2>2, UnusedSays DEF SessionsInv
  <2> QED
    BY <2>1, <2>2
<1> DEFINE old == IF k \in Sessions!Up THEN stores[k].version ELSE 0
           new == IF refs[c] THEN Sessions!Larger(old, inbox[1].version) ELSE old
           v == [up |-> TRUE, conn |-> c, status |-> "Connected", version |-> new]
<1>6. /\ stores' = [stores EXCEPT ![k] = v]
      /\ refs[c] => view' = k /\ homes' = homes
      /\ ~refs[c] => view' = view /\ homes' = homes \cup {[key |-> k, conn |-> c]}
  BY <1>4 DEF Sessions!Put
<1>7. old \in Nat /\ old <= version[c]
  <2>1. CASE k \in Sessions!Up
    <3>1. stores[k] \in StoreRec /\ stores[k].version <= version[stores[k].conn] /\ stores[k].conn = c
      BY <1>0, <1>5, <2>1 DEF SessionsInv, SessionsTyped, UpTo, Sessions!Of, Sessions!Up
    <3> QED
      BY <2>1, <3>1 DEF StoreRec
  <2>2. CASE k \notin Sessions!Up
    BY <1>3, <2>2
  <2> QED
    BY <2>1, <2>2
<1>8. k \in Sessions!Of(c) => old = stores[k].version
  BY DEF Sessions!Of
<1> HIDE DEF old
<1>9. new \in Nat /\ new <= version[c] /\ new >= old /\ (refs[c] => new >= inbox[1].version)
  BY <1>3, <1>7 DEF Sessions!Larger
<1> HIDE DEF new
<1>10. v \in StoreRec /\ v.up /\ v.conn = c /\ v.status = "Connected" /\ v.version = new
  BY <1>9 DEF StoreRec, ConnStatus
<1> HIDE DEF v
<1>11. /\ stores' \in [Sessions!Key -> StoreRec] /\ stores'[k] = v
            /\ \A j \in Sessions!Key \ {k} : stores'[j] = stores[j]
       /\ Sessions!Of(c)' = Sessions!Of(c) \cup {k} /\ k \in Sessions!Up'
       /\ \A d \in Peer \ {c} : Sessions!Of(d)' = Sessions!Of(d)
            /\ \A j \in Sessions!Of(d) : stores'[j] = stores[j]
  <2>1. k \in Sessions!Of(c) \/ ~stores[k].up
    BY <1>5
  <2> QED
    BY <1>0, <1>5, <1>6, <1>10, <2>1, SetsOne
<1>12. ASSUME c \notin crossed' PROVE ConnOK(c)'
  <2>0. ConnOK(c) /\ c \in Peer \ crossed
    BY <1>1, <1>12 DEF SessionsInv
  <2>1. Sessions!Of(c) # {}
    BY <1>1, <1>3, <2>0 DEF ConnOK, Gone
  <2>2. Sessions!Of(c)' = Sessions!Of(c) /\ k \in Sessions!Of(c) /\ \A j \in Sessions!Of(c) : j = k
    BY <1>5, <1>11, <2>0, <2>1 DEF ConnOK, OneStore
  <2>3. StatusOK(c)'
    <3> SUFFICES ASSUME Quiet(c)' PROVE status[c] = "Connected"
      BY <1>1, <1>10, <1>11, <2>2 DEF StatusOK, Outside
    <3>1. Bears(inbox[1], c)
      BY <1>1 DEF Bears
    <3> QED
      BY <1>1, <1>2, <2>0, <2>1, <3>1, LastOne
  <2>4. NamesOK(c)'
    BY <1>1, <2>0, <2>2 DEF NamesOK, ConnOK, Outside
  <2>5. Newest(c)'
    <3>1. \A f : f.conn = c => (f \in flushes => f \in flushes')
      BY <1>1
    <3>2. stores[k].version = version[c] => stores'[k].version = version[c]
      BY <1>3, <1>7, <1>8, <1>9, <1>10, <1>11, <2>2
    <3>3. \A j \in Sessions!Of(c) : j \in Sessions!Of(c)'
            /\ (stores[j].version = version[c] => stores'[j].version = version[c])
      BY <2>2, <3>2
    <3>4. Tells(inbox[1], c) /\ refs[c] => stores'[k].version = version[c]
      BY <1>3, <1>9, <1>10, <1>11 DEF Tells
    <3> QED
      BY <1>1, <1>2, <2>0, <2>2, <3>1, <3>3, <3>4, NewestTaken
  <2> QED
    BY <1>1, <1>2, <2>0, <2>1, <2>2, <2>3, <2>4, <2>5, TakeConn
<1>13. \A j \in Sessions!Key : \/ stores'[j] = stores[j]
                               \/ stores'[j].status # "none"
                                    /\ stores'[j].version <= version[stores'[j].conn]
  BY <1>9, <1>10, <1>11
<1>14. flushes' \in SUBSET FlushRec /\ homes' \in SUBSET HomeRec
  BY <1>0, <1>1, <1>5, <1>6 DEF SessionsTyped, HomeRec
<1>15. \A f \in flushes' : f \in flushes \/ (f.conn = c /\ f.version <= version[c])
  BY <1>1
<1>16. \A d \in homes' : d \in homes \/ (d.conn = c /\ ~refs[c])
  BY <1>6
<1>17. view' \in Sessions!Up' \/ ~refs[c]
  BY <1>6, <1>11
<1> QED
  BY <1>1, <1>2, <1>11, <1>12, <1>13, <1>14, <1>15, <1>16, <1>17, TakeKeepsRest

LEMMA HomeKeepsSessions ==
  ASSUME SessionsInv, NEW h \in homes, Sessions!HomeResolved(h)
  PROVE  SessionsInv'
<1>0. SessionsTyped /\ h \in HomeRec
  BY DEF SessionsInv, SessionsTyped
<1>1. /\ homes' = homes \ {h} /\ Outside
           /\ UNCHANGED <<listening, stores, names, flushes, inbox, crossed>>
  BY DEF Sessions!HomeResolved, Sessions!main, Outside
<1>2. SessionsTyped' /\ StoresOK' /\ UpTo' /\ EventsOK'
  BY <1>0, <1>1 DEF SessionsInv, SessionsTyped, StoresOK, UpTo, EventsOK, EventOK, Outside
<1>3. ViewOK'
  <2>1. h.conn \in Peer /\ ~refs[h.conn]
    BY <1>0 DEF SessionsInv, StoresOK, HomeRec
  <2> QED
    BY <1>1, <2>1 DEF ViewOK, Outside
<1>4. ASSUME NEW c \in Peer \ crossed' PROVE ConnOK(c)'
  <2>1. Aside(c)
    BY <1>1 DEF Aside, Outside, Sessions!Of, Sessions!Up
  <2>2. Shifts(0, 0) /\ ~(\E i \in 1..Len(inbox') : i > Len(inbox) - 0)
    BY <1>0, <1>1, StaysShifts DEF SessionsTyped
  <2> QED
    BY <1>0, <1>1, <1>4, <2>1, <2>2, AsideKeeps DEF SessionsInv
<1> QED
  BY <1>2, <1>3, <1>4 DEF SessionsInv


LEMMA LocalAnswerKeepsSessions ==
  ASSUME SessionsInv, Sessions!LocalAnswer
  PROVE  SessionsInv'
<1>0. SessionsTyped /\ Home \in Peer
  BY AppAssumption DEF SessionsInv
<1>1. /\ ~listening /\ inbox # <<>> /\ inbox[1].type = "answer" /\ inbox[1].conn = Home
           /\ Sessions!Take1 /\ Outside
      /\ listening' = TRUE /\ UNCHANGED <<names, flushes, homes, crossed>>
  BY DEF Sessions!LocalAnswer, Sessions!Next1, Sessions!main, Outside
<1>2. crossed \subseteq crossed' /\ version' = version
  BY <1>1 DEF Outside
<1>3. /\ EventsOK' /\ inbox' \in Seq(InboxRec) /\ Shifts(1, 0) /\ inbox[1] \in InboxRec /\ EventOK(1)
      /\ 1 \in 1..Len(inbox) /\ Len(inbox) \in Nat /\ Len(inbox') = Len(inbox) - 1
      /\ \A i \in 1..Len(inbox') : i + 1 \in 1..Len(inbox) /\ inbox'[i] = inbox[i + 1]
  BY <1>1, <1>2, TakeSays
<1>4. inbox[1].version \in Nat /\ inbox[1].version <= version[Home]
  BY <1>1, <1>3 DEF InboxRec, EventOK
<1>5. Sessions!Up = {} /\ given[Home] = 0 /\ flushes = {}
        /\ \A i \in 1..Len(inbox) : inbox[i].what # "Disconnected"
  BY <1>1 DEF SessionsInv, StoresOK, Sessions!Up
<1>6. CASE inbox[1].what = "Connected"
  <2>1. PICK k \in Sessions!Unused : /\ Sessions!Put(k, Home, "Connected", inbox[1].version)
                                     /\ view' = IF refs[Home] THEN k ELSE view
    BY <1>6 DEF Sessions!LocalAnswer
  <2> DEFINE v == [up |-> TRUE, conn |-> Home, status |-> "Connected", version |-> inbox[1].version]
  <2>2. stores' = [stores EXCEPT ![k] = v]
    BY <2>1 DEF Sessions!Put
  <2>3. v \in StoreRec /\ v.up /\ v.conn = Home /\ v.status = "Connected"
          /\ v.version = inbox[1].version
    BY <1>0, <1>4 DEF StoreRec, ConnStatus
  <2> HIDE DEF v
  <2>4. k \in Sessions!Key /\ ~stores[k].up /\ names[k] = 0
    BY <1>0, UnusedSays DEF SessionsInv
  <2>5. /\ stores' \in [Sessions!Key -> StoreRec] /\ stores'[k] = v
             /\ \A j \in Sessions!Key \ {k} : stores'[j] = stores[j]
        /\ Sessions!Of(Home)' = Sessions!Of(Home) \cup {k} /\ k \in Sessions!Up'
        /\ \A d \in Peer \ {Home} : Sessions!Of(d)' = Sessions!Of(d)
             /\ \A j \in Sessions!Of(d) : stores'[j] = stores[j]
    BY <1>0, <2>2, <2>3, <2>4, SetsOne
  <2>6. Sessions!Of(Home) = {} /\ Sessions!Of(Home)' = {k}
    BY <1>5, <2>5 DEF Sessions!Of
  <2>7. SessionsTyped'
    BY <1>0, <1>1, <1>3, <2>5 DEF SessionsTyped, Outside
  <2>8. StoresOK'
    BY <1>1, <2>3, <2>5 DEF SessionsInv, StoresOK, Outside
  <2>9. UpTo'
    BY <1>1, <1>4, <2>3, <2>5 DEF SessionsInv, UpTo, Outside
  <2>10. ViewOK'
    BY <1>0, <1>1, <2>1, <2>5 DEF ViewOK, Outside
  <2>11. ASSUME NEW d \in Peer \ crossed', d # Home PROVE ConnOK(d)'
    <3>1. Sessions!Of(d)' = Sessions!Of(d) /\ \A j \in Sessions!Of(d) : stores'[j] = stores[j]
      BY <2>5, <2>11
    <3>2. Aside(d)
      BY <1>1, <2>11, <3>1 DEF Outside, Aside
    <3> QED
      BY <1>1, <1>2, <2>11, <3>2, TakeOther
  <2>12. ASSUME Home \notin crossed' PROVE ConnOK(Home)'
    <3>0. ConnOK(Home) /\ Home \in Peer \ crossed
      BY <1>0, <1>1, <2>12 DEF SessionsInv
    <3>1. OneStore(Home)' /\ Gone(Home)' /\ Dials(Home)' /\ Watches(Home)'
      BY <1>1, <2>6, <3>0 DEF OneStore, Gone, Dials, Watches, ConnOK, Outside
    <3>2. Parted(Home)'
      BY <1>3, <1>5 DEF Parted
    <3>3. LastSays(Home)'
      <4>1. ~(\E i \in 1..Len(inbox') : i > Len(inbox) - 1)
        BY <1>3
      <4> QED
        BY <1>0, <1>1, <1>3, <3>0, <4>1, LastKept DEF ConnOK, Outside
    <3>4. StatusOK(Home)'
      <4> SUFFICES ASSUME Quiet(Home)' PROVE status[Home] = "Connected"
        BY <1>1, <2>3, <2>5, <2>6 DEF StatusOK, Outside
      <4>1. Bears(inbox[1], Home)
        BY <1>1, <1>6 DEF Bears
      <4> QED
        BY <1>1, <1>2, <1>6, <3>0, <4>1, LastOne
    <3>5. NamesOK(Home)'
      BY <1>1, <1>5, <2>4, <2>6 DEF NamesOK, Outside
    <3>6. Newest(Home)'
      <4>1. Tells(inbox[1], Home) => stores'[k].version = version[Home]
        BY <2>3, <2>5 DEF Tells
      <4> QED
        BY <1>1, <1>2, <2>6, <3>0, <4>1, NewestTaken
    <3> QED
      BY <3>1, <3>2, <3>3, <3>4, <3>5, <3>6 DEF ConnOK
  <2> QED
    BY <1>3, <2>7, <2>8, <2>9, <2>10, <2>11, <2>12 DEF SessionsInv
<1>7. CASE inbox[1].what = "Error"
  <2>1. stores' = stores /\ view' = view /\ Home \in crossed
    BY <1>1, <1>3, <1>7 DEF Sessions!LocalAnswer, EventOK
  <2>2. SessionsTyped' /\ StoresOK' /\ UpTo' /\ ViewOK'
    BY <1>0, <1>1, <1>3, <2>1 DEF SessionsInv, SessionsTyped, StoresOK, UpTo, ViewOK, Outside
  <2>3. ASSUME NEW d \in Peer \ crossed' PROVE ConnOK(d)'
    <3>1. d # Home /\ Aside(d)
      BY <1>1, <2>1, <2>3 DEF Outside, Aside, Sessions!Of, Sessions!Up
    <3> QED
      BY <1>1, <1>2, <2>3, <3>1, TakeOther
  <2> QED
    BY <1>3, <2>2, <2>3 DEF SessionsInv
<1> QED
  BY <1>1, <1>3, <1>6, <1>7 DEF EventOK


LEMMA RebuildKeepsSessions ==
  ASSUME SessionsInv, NEW f \in flushes, Sessions!Rebuild(f)
  PROVE  SessionsInv'
<1> DEFINE c == f.conn
           v == [up |-> TRUE, conn |-> c, status |-> "Connected", version |-> f.version]
           g(j) == [stores[j] EXCEPT !.up = FALSE]
<1>0. /\ SessionsTyped /\ f \in FlushRec /\ c \in Peer /\ f.version \in Nat /\ f.name \in Nat
      /\ f.version <= version[c] /\ version[c] \in Nat /\ listening
  <2>1. SessionsTyped /\ f \in FlushRec /\ listening
    BY DEF SessionsInv, SessionsTyped, StoresOK
  <2>2. c \in Peer /\ f.version \in Nat /\ f.name \in Nat /\ f.version <= version[c]
    BY <2>1 DEF FlushRec, SessionsInv, UpTo
  <2> QED
    BY <2>1, <2>2 DEF SessionsTyped
<1>1. PICK k \in Sessions!Unused :
        /\ stores' = [j \in Sessions!Key |-> IF j = k THEN v
                                             ELSE IF j \in Sessions!Of(c) THEN g(j) ELSE stores[j]]
        /\ names' = [names EXCEPT ![k] = f.name]
        /\ view' = IF refs[c] THEN k ELSE view
  BY DEF Sessions!Rebuild
<1>2. /\ flushes' = flushes \ {f} /\ Outside /\ UNCHANGED <<listening, homes, inbox>>
      /\ crossed' = IF \E i \in Sessions!Of(c) : stores[i].status # "Connected"
           \/ stores[i].version > f.version
                      THEN crossed \cup {c} ELSE crossed
  BY DEF Sessions!Rebuild, Sessions!main, Outside
<1> HIDE DEF c
<1>3. v \in StoreRec /\ v.up /\ v.conn = c /\ v.status = "Connected" /\ v.version = f.version
  BY <1>0 DEF StoreRec, ConnStatus
<1> HIDE DEF v
<1>4. \A j \in Sessions!Key : /\ g(j) \in StoreRec /\ ~g(j).up /\ g(j).conn = stores[j].conn
                              /\ g(j).status = stores[j].status /\ g(j).version = stores[j].version
  BY <1>0 DEF SessionsTyped, StoreRec
<1> HIDE DEF g
<1>5. k \in Sessions!Key /\ ~stores[k].up /\ names[k] = 0
  BY <1>0, UnusedSays DEF SessionsInv
<1>6. /\ stores' \in [Sessions!Key -> StoreRec] /\ stores'[k] = v
      /\ \A j \in Sessions!Key \ {k} : /\ stores'[j].conn = stores[j].conn
                                       /\ stores'[j].version = stores[j].version
                                       /\ stores'[j].status = stores[j].status
                                       /\ stores'[j].up <=> (stores[j].up /\ j \notin Sessions!Of(c))
                                       /\ j \notin Sessions!Of(c) => stores'[j] = stores[j]
  BY <1>0, <1>1, <1>3, <1>4, <1>5 DEF SessionsTyped
<1>7. names' \in [Sessions!Key -> Nat] /\ names'[k] = f.name
        /\ \A j \in Sessions!Key \ {k} : names'[j] = names[j]
  BY <1>0, <1>1, <1>5 DEF SessionsTyped
<1>8. SessionsTyped'
  <2>1. crossed' \in SUBSET Peer
    BY <1>0, <1>2 DEF SessionsTyped
  <2>2. view' = view' /\ flushes' \in SUBSET FlushRec
    BY <1>0, <1>2 DEF SessionsTyped
  <2> QED
    BY <1>0, <1>2, <1>6, <1>7, <2>1, <2>2 DEF SessionsTyped, Outside
<1>9. StoresOK'
  <2>1. ASSUME NEW j \in Sessions!Key, stores'[j].status = "none" PROVE ~stores'[j].up /\ names'[j] = 0
    <3>1. j # k
      BY <1>3, <1>6, <2>1
    <3> QED
      BY <1>6, <1>7, <2>1, <3>1 DEF SessionsInv, StoresOK
  <2> QED
    BY <1>0, <1>2, <2>1 DEF SessionsInv, StoresOK, Outside
<1>10. EventsOK'
  BY <1>2 DEF SessionsInv, EventsOK, EventOK, Outside
<1>11. UpTo'
  <2>1. ASSUME NEW j \in Sessions!Key PROVE stores'[j].version <= version[stores'[j].conn]
    BY <1>0, <1>3, <1>6, <2>1 DEF SessionsInv, UpTo
  <2> QED
    BY <1>2, <2>1 DEF SessionsInv, UpTo, Outside
<1>12. ViewOK'
  <2>1. k \in Sessions!Up'
    BY <1>3, <1>5, <1>6 DEF Sessions!Up
  <2> QED
    BY <1>0, <1>1, <1>2, <2>1 DEF ViewOK, Outside
<1>13. \A d \in Peer \ {c} : Sessions!Of(d)' = Sessions!Of(d)
         /\ \A j \in Sessions!Of(d) : stores'[j] = stores[j] /\ names'[j] = names[j]
  <2> TAKE d \in Peer \ {c}
  <2>1. ASSUME NEW j \in Sessions!Key PROVE j \in Sessions!Of(d)' <=> j \in Sessions!Of(d)
    <3>1. CASE j = k
      BY <1>3, <1>5, <1>6, <3>1 DEF Sessions!Of, Sessions!Up
    <3>2. CASE j # k
      BY <1>6, <3>2 DEF Sessions!Of, Sessions!Up
    <3> QED
      BY <3>1, <3>2
  <2>2. \A j \in Sessions!Of(d) : j \in Sessions!Key /\ j # k /\ j \notin Sessions!Of(c)
    BY <1>5 DEF Sessions!Of, Sessions!Up
  <2>3. Sessions!Of(d)' = Sessions!Of(d)
    BY <2>1 DEF Sessions!Of, Sessions!Up
  <2> QED
    BY <1>6, <1>7, <2>2, <2>3
<1>14. Sessions!Of(c)' = {k}
  <2>1. ASSUME NEW j \in Sessions!Key PROVE j \in Sessions!Of(c)' <=> j = k
    <3>1. CASE j = k
      BY <1>3, <1>5, <1>6, <3>1 DEF Sessions!Of, Sessions!Up
    <3>2. CASE j # k
      BY <1>6, <3>2 DEF Sessions!Of, Sessions!Up
    <3> QED
      BY <3>1, <3>2
  <2> QED
    BY <1>5, <2>1 DEF Sessions!Of, Sessions!Up
<1>15. ASSUME NEW d \in Peer \ crossed', d # c PROVE ConnOK(d)'
  <2>1. Aside(d)
    <3>1. \A x : x.conn = d => (x \in flushes' <=> x \in flushes)
      BY <1>2, <1>15 DEF c
    <3> QED
      BY <1>2, <1>13, <1>15, <3>1, OutsideAside
  <2>2. Shifts(0, 0) /\ ~(\E i \in 1..Len(inbox') : i > Len(inbox) - 0)
    BY <1>0, <1>2, StaysShifts DEF SessionsTyped
  <2>3. d \in Peer \ crossed
    BY <1>2, <1>15
  <2> QED
    BY <1>0, <1>2, <2>1, <2>2, <2>3, AsideKeeps DEF SessionsInv
<1>16. ASSUME c \notin crossed' PROVE ConnOK(c)'
  <2>0. /\ ConnOK(c) /\ c \in Peer \ crossed
        /\ \A i \in Sessions!Of(c) : stores[i].status = "Connected" /\ ~(stores[i].version > f.version)
    BY <1>0, <1>2, <1>16 DEF SessionsInv
  <2>1. /\ Sessions!Of(c) # {} /\ \A i \in 1..Len(inbox) : inbox[i].conn = c
             => inbox[i].what # "Disconnected"
    <3>1. \E x \in flushes : x.conn = c
      BY DEF c
    <3> QED
      BY <1>0, <2>0, <3>1, ActiveSays
  <2>2. OneStore(c)' /\ Gone(c)' /\ Parted(c)' /\ Dials(c)' /\ Watches(c)'
    BY <1>2, <1>14, <2>0, <2>1 DEF OneStore, Gone, Parted, Dials, Watches, ConnOK, Outside
  <2>3. LastSays(c)' /\ (Quiet(c)' <=> Quiet(c))
    BY <1>2, <2>0 DEF LastSays, Bears, Says, ConnOK, Quiet, Outside
  <2>4. StatusOK(c)'
    <3> SUFFICES ASSUME Quiet(c) PROVE status[c] = "Connected"
      BY <1>2, <1>3, <1>6, <1>14, <2>3 DEF StatusOK, Outside
    <3> QED
      BY <2>0, <2>1 DEF ConnOK, StatusOK
  <2>5. NamesOK(c)'
    BY <1>2, <1>7, <1>14, <2>0 DEF NamesOK, ConnOK, Outside, c
  <2>6. Newest(c)'
    <3>1. ASSUME NEW i \in Sessions!Of(c), stores[i].version = version[c] PROVE f.version = version[c]
      BY <1>0, <2>0, <3>1
    <3>2. (\E i \in 1..Len(inbox) : Tells(inbox[i], c))
            => (\E i \in 1..Len(inbox) : Tells(inbox[i], c))'
      BY <1>2 DEF Tells, Outside
    <3>3. f.version = version[c] => \E j \in Sessions!Of(c)' : stores'[j].version = version[c]
      BY <1>3, <1>6, <1>14
    <3>4. \A x \in flushes : x = f \/ x \in flushes'
      BY <1>2
    <3> QED
      BY <1>2, <2>0, <3>1, <3>2, <3>3, <3>4 DEF Newest, ConnOK, Outside
  <2> QED
    BY <2>2, <2>3, <2>4, <2>5, <2>6 DEF ConnOK
<1> QED
  BY <1>8, <1>9, <1>10, <1>11, <1>12, <1>15, <1>16 DEF SessionsInv


LEMMA RenameKeepsSessions ==
  ASSUME SessionsInv, NEW k \in Sessions!Key, Sessions!Rename(k)
  PROVE  SessionsInv'
<1>. PICK c \in Peer : stores[k].conn = c
  BY DEF SessionsInv, SessionsTyped, StoreRec
<1> DEFINE n == 1 + Sessions!Larger(given[c], names[k])
<1>0. SessionsTyped /\ given[c] \in Nat /\ names[k] \in Nat
  BY DEF SessionsInv, SessionsTyped
<1>1. /\ stores[k].up /\ names' = [names EXCEPT ![k] = n] /\ given' = [given EXCEPT ![c] = n]
      /\ crossed' = IF \E f \in flushes : f.conn = c THEN crossed \cup {c} ELSE crossed
      /\ UNCHANGED <<listening, stores, view, flushes, homes, inbox, calls>>
      /\ UNCHANGED <<status, watched, version, refs, loads, moving>>
  BY DEF Sessions!Rename, Sessions!main
<1>2. n \in Nat
  BY <1>0 DEF Sessions!Larger
<1> HIDE DEF n
<1>3. k \in Sessions!Of(c) /\ listening /\ stores[k].status # "none"
  BY <1>1 DEF SessionsInv, StoresOK, Sessions!Of, Sessions!Up
<1>4. /\ names' \in [Sessions!Key -> Nat] /\ names'[k] = n
           /\ \A j \in Sessions!Key \ {k} : names'[j] = names[j]
      /\ given' \in [Peer -> Nat] /\ given'[c] = n /\ \A d \in Peer \ {c} : given'[d] = given[d]
  BY <1>0, <1>1, <1>2 DEF SessionsTyped
<1>5. SessionsTyped'
  BY <1>0, <1>1, <1>4 DEF SessionsTyped
<1>6. StoresOK' /\ EventsOK' /\ UpTo' /\ ViewOK'
  <2>1. ASSUME NEW j \in Sessions!Key, stores[j].status = "none" PROVE names'[j] = 0
    BY <1>3, <1>4, <2>1 DEF SessionsInv, StoresOK
  <2>2. StoresOK'
    BY <1>1, <1>3, <2>1 DEF SessionsInv, StoresOK
  <2>3. EventsOK' /\ UpTo' /\ ViewOK'
    BY <1>1 DEF SessionsInv, EventsOK, EventOK, UpTo, ViewOK, Sessions!Up
  <2> QED
    BY <2>2, <2>3
<1>7. \A d \in Peer : Sessions!Of(d)' = Sessions!Of(d)
  BY <1>1 DEF Sessions!Of, Sessions!Up
<1>8. ASSUME NEW d \in Peer \ crossed' PROVE ConnOK(d)'
  <2>0. ConnOK(d) /\ d \in Peer \ crossed
    BY <1>1, <1>8 DEF SessionsInv
  <2>1. CASE d # c
    <3>0. k \notin Sessions!Of(d)
      BY <2>1 DEF Sessions!Of
    <3>1. \A j \in Sessions!Of(d) : names'[j] = names[j]
      BY <1>4, <3>0 DEF Sessions!Of, Sessions!Up
    <3>2. Aside(d)
      BY <1>1, <1>4, <1>7, <2>1, <3>1 DEF Aside
    <3>3. Shifts(0, 0) /\ ~(\E i \in 1..Len(inbox') : i > Len(inbox) - 0)
      BY <1>0, <1>1, StaysShifts DEF SessionsTyped
    <3> QED
      BY <1>0, <2>0, <3>2, <3>3, AsideKeeps
  <2>2. CASE d = c
    <3>1. \A j \in Sessions!Of(c) : j = k
      BY <1>3, <2>0, <2>2 DEF ConnOK, OneStore
    <3>2. NamesOK(c)'
      BY <1>1, <1>4, <1>7, <1>8, <2>2, <3>1 DEF NamesOK
    <3>3. OneStore(c)' /\ Gone(c)' /\ Parted(c)' /\ Dials(c)' /\ Watches(c)'
      BY <1>1, <1>7, <2>0, <2>2 DEF OneStore, Gone, Parted, Dials, Watches, ConnOK
    <3>4. LastSays(c)' /\ StatusOK(c)' /\ Newest(c)'
      BY <1>1, <1>7, <2>0, <2>2
         DEF LastSays, StatusOK, Newest, ConnOK, Bears, Says, Quiet, Loading, Tells
    <3> QED
      BY <2>2, <3>2, <3>3, <3>4 DEF ConnOK
  <2> QED
    BY <2>1, <2>2
<1> QED
  BY <1>5, <1>6, <1>8 DEF SessionsInv

LEMMA DisconnectKeepsSessions ==
  ASSUME SessionsInv, NEW k \in Sessions!Key, Sessions!DisconnectSession(k)
  PROVE  SessionsInv'
<1>. PICK c \in Peer : stores[k].conn = c
  BY DEF SessionsInv, SessionsTyped, StoreRec
<1> DEFINE v == [stores[k] EXCEPT !.up = FALSE]
           e == Sessions!Event("status", c, "Disconnected", 0)
<1>0. SessionsTyped /\ stores[k] \in StoreRec /\ Len(inbox) \in Nat
  BY DEF SessionsInv, SessionsTyped
<1>1. /\ stores[k].up /\ stores' = [stores EXCEPT ![k] = v]
      /\ view' = IF view = k /\ Sessions!Up \ {k} # {} THEN Sessions!First(Sessions!Up \ {k}) ELSE view
      /\ status' = [status EXCEPT ![c] = "none"] /\ watched' = [watched EXCEPT ![c] = 0]
      /\ moving' = [moving EXCEPT ![c] = 0]
      /\ inbox' = IF status[c] = "none" THEN inbox ELSE Append(inbox, e)
      /\ crossed' = IF Sessions!UnderWay(c) \/ Sessions!Of(c) # {k} THEN crossed \cup {c} ELSE crossed
      /\ UNCHANGED <<listening, names, flushes, homes, version, refs, loads, given, calls>>
  BY DEF Sessions!DisconnectSession
<1>2. k \in Sessions!Of(c) /\ k \in Sessions!Up /\ listening
  BY <1>1 DEF SessionsInv, StoresOK, Sessions!Of, Sessions!Up
<1>3. v \in StoreRec /\ ~v.up /\ v.conn = stores[k].conn /\ v.status = stores[k].status
      /\ v.version = stores[k].version
  BY <1>0 DEF StoreRec
<1> HIDE DEF v
<1>4. /\ stores' \in [Sessions!Key -> StoreRec] /\ ~stores'[k].up
      /\ \A j \in Sessions!Key \ {k} : stores'[j] = stores[j]
      /\ \A j \in Sessions!Key : /\ stores'[j].conn = stores[j].conn
                                 /\ stores'[j].version = stores[j].version
                                 /\ stores'[j].status = stores[j].status
                                      /\ (stores'[j].up => stores[j].up)
  BY <1>0, <1>1, <1>3 DEF SessionsTyped
<1>5. e \in InboxRec /\ e.type = "status" /\ e.conn = c /\ e.what = "Disconnected" /\ e.version = 0
  BY <1>0, EventSays DEF ConnStatus
<1> HIDE DEF e
<1>6. /\ status' \in [Peer -> ConnStatus] /\ status'[c] = "none"
      /\ watched' \in [Peer -> Nat] /\ moving' \in [Peer -> 0..1] /\ moving'[c] = 0
      /\ \A d \in Peer \ {c} : status'[d] = status[d] /\ watched'[d] = watched[d]
           /\ moving'[d] = moving[d]
  BY <1>0, <1>1 DEF SessionsTyped, ConnStatus
<1>7. \E n \in {0, 1} :
        /\ Shifts(0, n) /\ inbox' \in Seq(InboxRec) /\ Len(inbox') = Len(inbox) + n
        /\ \A i \in 1..Len(inbox') : i > Len(inbox) => inbox'[i] = e
  <2>1. CASE status[c] = "none"
    <3>1. Shifts(0, 0) /\ inbox' \in Seq(InboxRec) /\ Len(inbox') = Len(inbox) + 0
          /\ ~(\E i \in 1..Len(inbox') : i > Len(inbox))
      BY <1>0, <1>1, <2>1, StaysShifts
    <3> QED
      BY <3>1
  <2>2. CASE status[c] # "none"
    <3>1. Shifts(0, 1) /\ inbox' \in Seq(InboxRec) /\ Len(inbox') = Len(inbox) + 1
            /\ inbox'[Len(inbox')] = e
      BY <1>0, <1>1, <1>5, <2>2, AppendShifts
    <3>2. \A i \in 1..Len(inbox') : i > Len(inbox) => inbox'[i] = e
      BY <1>0, <3>1
    <3> QED
      BY <3>1, <3>2
  <2> QED
    BY <2>1, <2>2
<1>8. PICK n \in {0, 1} :
        /\ Shifts(0, n) /\ inbox' \in Seq(InboxRec) /\ Len(inbox') = Len(inbox) + n
        /\ \A i \in 1..Len(inbox') : i > Len(inbox) => inbox'[i] = e
  BY <1>7
<1>9. \A i \in 1..Len(inbox) : i \in 1..Len(inbox') /\ inbox'[i] = inbox[i]
  BY <1>0, <1>8 DEF Shifts
<1>10. SessionsTyped'
  BY <1>0, <1>1, <1>4, <1>6, <1>8 DEF SessionsTyped
<1>11. \A d \in Peer \ {c} : Sessions!Of(d)' = Sessions!Of(d)
         /\ \A j \in Sessions!Of(d) : stores'[j] = stores[j]
  <2> TAKE d \in Peer \ {c}
  <2>1. k \notin Sessions!Of(d)
    BY DEF Sessions!Of
  <2>2. \A j \in Sessions!Key : j # k => (j \in Sessions!Of(d)' <=> j \in Sessions!Of(d))
    BY <1>4 DEF Sessions!Of, Sessions!Up
  <2>3. k \notin Sessions!Of(d)'
    BY <1>4 DEF Sessions!Of, Sessions!Up
  <2>4. Sessions!Of(d)' = Sessions!Of(d)
    BY <2>1, <2>2, <2>3 DEF Sessions!Of, Sessions!Up
  <2> QED
    BY <1>4, <2>1, <2>4 DEF Sessions!Of, Sessions!Up
<1>12. Sessions!Of(c)' = Sessions!Of(c) \ {k} /\ Sessions!Up' = Sessions!Up \ {k}
  BY <1>4 DEF Sessions!Of, Sessions!Up
<1>13. StoresOK'
  BY <1>1, <1>2, <1>4 DEF SessionsInv, StoresOK
<1>14. UpTo'
  BY <1>1, <1>4 DEF SessionsInv, UpTo
<1>15. EventsOK'
  <2> SUFFICES ASSUME NEW i \in 1..Len(inbox') PROVE EventOK(i)'
    BY DEF EventsOK
  <2>1. CASE i <= Len(inbox)
    <3>1. i \in 1..Len(inbox) /\ inbox'[i] = inbox[i] /\ EventOK(i)
      BY <1>0, <1>9, <2>1 DEF SessionsInv, EventsOK
    <3> QED
      BY <1>1, <3>1 DEF EventOK
  <2>2. CASE i > Len(inbox)
    <3>1. inbox'[i] = e /\ 0 <= version[c]
      BY <1>0, <1>8, <2>2 DEF SessionsTyped
    <3> QED
      BY <1>1, <1>5, <3>1 DEF EventOK
  <2> QED
    BY <1>0, <1>8, <2>1, <2>2
<1>16. ViewOK'
  <2>1. Sessions!Up \ {k} # {} => Sessions!First(Sessions!Up \ {k}) \in Sessions!Up \ {k}
    BY FirstSays DEF Sessions!Up
  <2>2. crossed' = {} => crossed = {}
    BY <1>1
  <2> QED
    BY <1>1, <1>2, <1>12, <2>1, <2>2 DEF SessionsInv, ViewOK
<1>17. ASSUME NEW d \in Peer \ crossed', d # c PROVE ConnOK(d)'
  <2>1. Aside(d)
    BY <1>1, <1>6, <1>11, <1>17 DEF Aside
  <2>2. \A i \in 1..Len(inbox') : i > Len(inbox) - 0 => inbox'[i].conn # d
    BY <1>0, <1>5, <1>8, <1>17
  <2>3. ConnOK(d)
    BY <1>1, <1>17 DEF SessionsInv
  <2> QED
    BY <1>0, <1>8, <1>17, <2>1, <2>2, <2>3, AsideKeeps
<1>18. ASSUME c \notin crossed' PROVE ConnOK(c)'
  <2>0. ConnOK(c) /\ ~Sessions!UnderWay(c) /\ Sessions!Of(c) = {k} /\ Sessions!Of(c)' = {}
    BY <1>0, <1>1, <1>12, <1>18 DEF SessionsInv
  <2>1. /\ \A i \in 1..Len(inbox) : inbox[i].conn # c
        /\ \A l \in loads : l.conn # c
        /\ \A f \in flushes : f.conn # c
        /\ \A d \in homes : d.conn # c
    <3>1. DOMAIN inbox = 1..Len(inbox)
      BY <1>0 DEF SessionsTyped
    <3> QED
      BY <2>0, <3>1 DEF Sessions!UnderWay
  <2>2. \A i \in 1..Len(inbox') : inbox'[i].conn = c => inbox'[i] = e
    <3> TAKE i \in 1..Len(inbox')
    <3>1. i > Len(inbox) \/ i \in 1..Len(inbox)
      BY <1>0
    <3> QED
      BY <1>8, <1>9, <2>1, <3>1
  <2>3. OneStore(c)' /\ Gone(c)' /\ Parted(c)' /\ Dials(c)' /\ Watches(c)'
    BY <1>1, <1>5, <1>6, <2>0, <2>1, <2>2 DEF OneStore, Gone, Parted, Dials, Watches
  <2>4. LastSays(c)'
    BY <1>5, <1>6, <2>2 DEF LastSays, Says, Bears
  <2>5. StatusOK(c)' /\ NamesOK(c)' /\ Newest(c)'
    BY <1>1, <1>6, <2>0, <2>1 DEF StatusOK, NamesOK, Newest
  <2> QED
    BY <2>3, <2>4, <2>5 DEF ConnOK
<1> QED
  BY <1>10, <1>13, <1>14, <1>15, <1>16, <1>17, <1>18 DEF SessionsInv


-----------------------------------------------------------------------------
(* A connect call.                                                         *)
Dialed(c) == Sessions!Event("status", c, "Connecting", 0)
Grows(c, n) ==
  /\ Shifts(0, n) /\ n \in {0, 1} /\ Len(inbox') = Len(inbox) + n
  /\ \A i \in 1..Len(inbox') : i > Len(inbox) => inbox'[i] = Dialed(c)

LEMMA CalledSays ==
  ASSUME SessionsInv, NEW c \in Peer, Sessions!ConnectCalled(c)
  PROVE  /\ calls' \in Nat /\ UNCHANGED <<version, refs, moving>>
         /\ status' \in [Peer -> ConnStatus] /\ watched' \in [Peer -> Nat]
         /\ loads' \in SUBSET CallRec /\ inbox' \in Seq(InboxRec)
         /\ \A d \in Peer \ {c} : status'[d] = status[d] /\ watched'[d] = watched[d]
         /\ loads \subseteq loads'
         /\ \A l \in loads' : l \in loads \/ (l.conn = c /\ l.version = 0)
         /\ status[c] = "Connected" =>
              /\ status'[c] = "Connected" /\ watched'[c] # 0 /\ inbox' = inbox
              /\ \A l \in loads' : l \in loads \/ l.at = "loading"
              /\ \E l \in loads' : l.conn = c /\ l.at = "loading"
         /\ status[c] # "Connected" =>
              /\ status'[c] = "Connecting"
              /\ inbox' = IF \E l \in loads : l.conn = c /\ l.at = "dialing" THEN inbox
                          ELSE Append(inbox, Dialed(c))
         /\ \E n : Grows(c, n)
<1> DEFINE load(at) == [conn |-> c, at |-> at, version |-> 0, no |-> calls + 1]
<1>0. SessionsTyped /\ calls \in Nat /\ Len(inbox) \in Nat
  BY DEF SessionsInv, SessionsTyped
<1>1. /\ calls' = calls + 1 /\ UNCHANGED <<version, refs, moving>>
      /\ IF status[c] = "Connected"
         THEN /\ loads' = loads \cup {load("loading")}
              /\ watched' = [watched EXCEPT ![c] = @ + 1]
              /\ UNCHANGED <<status, inbox>>
         ELSE /\ loads' = loads \cup {load("dialing")}
              /\ status' = [status EXCEPT ![c] = "Connecting"]
              /\ inbox' = IF \E l \in loads : l.conn = c /\ l.at = "dialing" THEN inbox
                          ELSE Append(inbox, Sessions!Event("status", c, status'[c], 0))
              /\ UNCHANGED watched
  BY DEF Sessions!ConnectCalled, Sessions!Told
<1>2. \A at \in {"dialing", "loading"} :
        load(at) \in CallRec /\ load(at).conn = c /\ load(at).at = at /\ load(at).version = 0
  BY <1>0 DEF CallRec
<1> HIDE DEF load
<1>3. Dialed(c) \in InboxRec
  BY EventSays DEF Dialed, ConnStatus
<1>4. CASE status[c] = "Connected"
  <2>1. Shifts(0, 0) /\ Len(inbox') = Len(inbox) + 0 /\ ~(\E i \in 1..Len(inbox') : i > Len(inbox))
    BY <1>0, <1>1, <1>4, StaysShifts
  <2>2. Grows(c, 0)
    BY <2>1 DEF Grows
  <2>3. watched' \in [Peer -> Nat] /\ watched'[c] # 0 /\ \A d \in Peer \ {c} : watched'[d] = watched[d]
    <3>1. watched' = [watched EXCEPT ![c] = @ + 1] /\ watched \in [Peer -> Nat]
      BY <1>0, <1>1, <1>4 DEF SessionsTyped
    <3> QED
      BY <3>1
  <2>4. loads' = loads \cup {load("loading")} /\ UNCHANGED <<status, inbox>>
    BY <1>1, <1>4
  <2>5. /\ loads' \in SUBSET CallRec /\ inbox' \in Seq(InboxRec) /\ calls' \in Nat
        /\ status' \in [Peer -> ConnStatus]
    BY <1>0, <1>1, <1>2, <2>4 DEF SessionsTyped
  <2> QED
    BY <1>1, <1>2, <1>4, <2>2, <2>3, <2>4, <2>5
<1>5. CASE status[c] # "Connected"
  <2>1. /\ status' \in [Peer -> ConnStatus] /\ status'[c] = "Connecting"
        /\ \A d \in Peer \ {c} : status'[d] = status[d]
    BY <1>0, <1>1, <1>5 DEF SessionsTyped, ConnStatus
  <2>2. inbox' = IF \E l \in loads : l.conn = c /\ l.at = "dialing" THEN inbox
          ELSE Append(inbox, Dialed(c))
    BY <1>1, <1>5, <2>1 DEF Dialed
  <2>3. inbox' \in Seq(InboxRec) /\ \E n : Grows(c, n)
    <3>1. CASE inbox' = inbox
      <4>1. Shifts(0, 0) /\ Len(inbox') = Len(inbox) + 0 /\ ~(\E i \in 1..Len(inbox') : i > Len(inbox))
        BY <1>0, <3>1, StaysShifts
      <4>2. Grows(c, 0)
        BY <4>1 DEF Grows
      <4> QED
        BY <1>0, <3>1, <4>2 DEF SessionsTyped
    <3>2. CASE inbox' = Append(inbox, Dialed(c))
      <4>1. Shifts(0, 1) /\ inbox' \in Seq(InboxRec) /\ Len(inbox') = Len(inbox) + 1
            /\ inbox'[Len(inbox')] = Dialed(c)
        BY <1>0, <1>3, <3>2, AppendShifts
      <4>2. \A i \in 1..Len(inbox') : i > Len(inbox) => inbox'[i] = Dialed(c)
        BY <1>0, <4>1
      <4>3. Grows(c, 1)
        BY <4>1, <4>2 DEF Grows
      <4> QED
        BY <4>1, <4>3
    <3> QED
      BY <2>2, <3>1, <3>2
  <2>4. loads' = loads \cup {load("dialing")} /\ watched' = watched
    BY <1>1, <1>5
  <2>5. loads' \in SUBSET CallRec /\ watched' \in [Peer -> Nat] /\ calls' \in Nat
    BY <1>0, <1>1, <1>2, <2>4 DEF SessionsTyped
  <2> QED
    BY <1>1, <1>2, <1>5, <2>1, <2>2, <2>3, <2>4, <2>5
<1> QED
  BY <1>4, <1>5

LEMMA DialedSays ==
  ASSUME NEW c \in Peer
  PROVE  /\ Dialed(c) \in InboxRec /\ Dialed(c).type = "status" /\ Dialed(c).conn = c
         /\ Dialed(c).what = "Connecting" /\ Dialed(c).version = 0 /\ Bears(Dialed(c), c)
BY EventSays DEF Dialed, ConnStatus, Bears

(* A call of c changes its sessions only.                                  *)
LEMMA CallKeepsRest ==
  ASSUME SessionsInv, NEW c \in Peer \ {Home}, Sessions!ConnectCalled(c),
         listening, listening' = listening, UNCHANGED <<names, flushes, homes>>,
         given' \in [Peer -> Nat], \A d \in Peer \ {c} : given'[d] = given[d],
         stores' \in [Sessions!Key -> StoreRec],
         \A d \in Peer \ {c} : Sessions!Of(d)' = Sessions!Of(d)
           /\ \A j \in Sessions!Of(d) : stores'[j] = stores[j],
         \A j \in Sessions!Key : \/ stores'[j] = stores[j]
                                 \/ stores'[j].status # "none"
                                      /\ stores'[j].version <= version[stores'[j].conn],
         view' \in Sessions!Up' \/ (view' = view /\ Sessions!Up' = Sessions!Up /\ crossed' = crossed),
         crossed' \in SUBSET Peer, crossed \ {c} \subseteq crossed',
         c \notin crossed' => ConnOK(c)'
  PROVE  SessionsInv'
<1>0. SessionsTyped /\ Len(inbox) \in Nat
  BY DEF SessionsInv, SessionsTyped
<1>1. /\ calls' \in Nat /\ UNCHANGED <<version, refs, moving>>
      /\ status' \in [Peer -> ConnStatus] /\ watched' \in [Peer -> Nat]
      /\ loads' \in SUBSET CallRec /\ inbox' \in Seq(InboxRec)
      /\ \A d \in Peer \ {c} : status'[d] = status[d] /\ watched'[d] = watched[d]
      /\ loads \subseteq loads'
      /\ \A l \in loads' : l \in loads \/ (l.conn = c /\ l.version = 0)
      /\ \E n : Grows(c, n)
  BY CalledSays
<1>2. PICK n : Grows(c, n)
  BY <1>1
<1>3. Dialed(c).type = "status" /\ Dialed(c).conn = c /\ Dialed(c).what = "Connecting"
        /\ Dialed(c).version = 0
  BY DialedSays
<1>4. SessionsTyped'
  BY <1>0, <1>1 DEF SessionsTyped
<1>5. StoresOK'
  BY <1>1 DEF SessionsInv, StoresOK
<1>6. UpTo'
  <2>1. version[c] \in Nat
    BY <1>0 DEF SessionsTyped
  <2> QED
    BY <1>1, <2>1 DEF SessionsInv, UpTo
<1>7. EventsOK'
  <2> SUFFICES ASSUME NEW i \in 1..Len(inbox') PROVE EventOK(i)'
    BY DEF EventsOK
  <2>1. CASE i <= Len(inbox)
    <3>1. i \in 1..Len(inbox) /\ inbox'[i] = inbox[i] /\ EventOK(i)
      BY <1>0, <1>2, <2>1 DEF SessionsInv, EventsOK, Grows, Shifts
    <3> QED
      BY <1>1, <3>1 DEF EventOK
  <2>2. CASE i > Len(inbox)
    <3>1. inbox'[i] = Dialed(c) /\ 0 <= version[c]
      BY <1>0, <1>2, <2>2 DEF SessionsTyped, Grows
    <3> QED
      BY <1>1, <1>3, <3>1 DEF EventOK
  <2> QED
    BY <1>0, <1>2, <2>1, <2>2 DEF Grows
<1>8. ViewOK'
  BY <1>1 DEF SessionsInv, ViewOK
<1>9. ASSUME NEW d \in Peer \ crossed', d # c PROVE ConnOK(d)'
  <2>0. ConnOK(d) /\ d \in Peer \ {c}
    BY <1>9 DEF SessionsInv
  <2>1. \A l : l.conn = d => (l \in loads' <=> l \in loads)
    BY <1>1, <1>9
  <2>2. Aside(d)
    BY <1>1, <2>0, <2>1 DEF Aside
  <2>3. Shifts(0, n) /\ \A i \in 1..Len(inbox') : i > Len(inbox) - 0 => inbox'[i].conn # d
    BY <1>0, <1>2, <1>3, <1>9 DEF Grows
  <2> QED
    BY <1>0, <2>0, <2>2, <2>3, AsideKeeps
<1> QED
  BY <1>4, <1>5, <1>6, <1>7, <1>8, <1>9 DEF SessionsInv


LEMMA ConnectKeepsSessions ==
  ASSUME SessionsInv, NEW c \in Peer, Sessions!Connect(c)
  PROVE  SessionsInv'
<1>0. SessionsTyped /\ Len(inbox) \in Nat
  BY DEF SessionsInv, SessionsTyped
<1>1. /\ listening /\ c # Home /\ given' = [given EXCEPT ![c] = 0] /\ Sessions!ConnectCalled(c)
      /\ crossed' = IF Sessions!Of(c) # {} \/ Sessions!UnderWay(c) THEN crossed \cup {c}
           ELSE crossed \ {c}
      /\ UNCHANGED <<listening, names, flushes, homes>>
  BY DEF Sessions!Connect
<1>2. PICK k \in Sessions!Unused : Sessions!Put(k, c, "Connecting", 0) /\ view' = k
  BY DEF Sessions!Connect
<1> DEFINE v == [up |-> TRUE, conn |-> c, status |-> "Connecting", version |-> 0]
<1>3. stores' = [stores EXCEPT ![k] = v]
  BY <1>2 DEF Sessions!Put
<1>4. v \in StoreRec /\ v.up /\ v.conn = c /\ v.status = "Connecting" /\ v.version = 0
  BY DEF StoreRec, ConnStatus
<1> HIDE DEF v
<1>5. k \in Sessions!Key /\ ~stores[k].up /\ names[k] = 0
  BY <1>0, UnusedSays DEF SessionsInv
<1>6. /\ stores' \in [Sessions!Key -> StoreRec] /\ stores'[k] = v
           /\ \A j \in Sessions!Key \ {k} : stores'[j] = stores[j]
      /\ Sessions!Of(c)' = Sessions!Of(c) \cup {k} /\ k \in Sessions!Up'
      /\ \A d \in Peer \ {c} : Sessions!Of(d)' = Sessions!Of(d)
           /\ \A j \in Sessions!Of(d) : stores'[j] = stores[j]
  BY <1>0, <1>3, <1>4, <1>5, SetsOne
<1>7. given' \in [Peer -> Nat] /\ given'[c] = 0 /\ \A d \in Peer \ {c} : given'[d] = given[d]
  BY <1>0, <1>1 DEF SessionsTyped
<1>8. \A j \in Sessions!Key : \/ stores'[j] = stores[j]
                              \/ stores'[j].status # "none"
                                   /\ stores'[j].version <= version[stores'[j].conn]
  <2>1. version[c] \in Nat
    BY <1>0 DEF SessionsTyped
  <2> QED
    BY <1>4, <1>6, <2>1
<1>9. crossed' \in SUBSET Peer /\ crossed \ {c} \subseteq crossed'
  BY <1>0, <1>1 DEF SessionsTyped
<1>10. ASSUME c \notin crossed' PROVE ConnOK(c)'
  <2>0. Sessions!Of(c) = {} /\ ~Sessions!UnderWay(c) /\ Sessions!Of(c)' = {k}
    BY <1>1, <1>6, <1>10
  <2>1. /\ \A i \in 1..Len(inbox) : inbox[i].conn # c
        /\ \A l \in loads : l.conn # c
        /\ \A f \in flushes : f.conn # c
    <3>1. DOMAIN inbox = 1..Len(inbox)
      BY <1>0 DEF SessionsTyped
    <3> QED
      BY <2>0, <3>1 DEF Sessions!UnderWay
  <2>2. /\ UNCHANGED <<version, refs, moving>>
        /\ \A l \in loads' : l \in loads \/ (l.conn = c /\ l.version = 0)
        /\ status[c] = "Connected" =>
             /\ status'[c] = "Connected" /\ watched'[c] # 0 /\ inbox' = inbox
             /\ \A l \in loads' : l \in loads \/ l.at = "loading"
             /\ \E l \in loads' : l.conn = c /\ l.at = "loading"
        /\ status[c] # "Connected" =>
             /\ status'[c] = "Connecting"
             /\ inbox' = IF \E l \in loads : l.conn = c /\ l.at = "dialing" THEN inbox
                         ELSE Append(inbox, Dialed(c))
        /\ \E n : Grows(c, n)
    BY <1>1, CalledSays
  <2>3. /\ Dialed(c) \in InboxRec /\ Dialed(c).type = "status" /\ Dialed(c).conn = c
        /\ Dialed(c).what = "Connecting" /\ Dialed(c).version = 0 /\ Bears(Dialed(c), c)
    BY DialedSays
  <2>4. PICK n : Grows(c, n)
    BY <2>2
  <2>5. \A i \in 1..Len(inbox') : inbox'[i].conn = c => i = Len(inbox) + 1 /\ inbox'[i] = Dialed(c)
    <3> TAKE i \in 1..Len(inbox')
    <3>1. CASE i <= Len(inbox)
      BY <1>0, <2>1, <2>4, <3>1 DEF Grows, Shifts
    <3>2. CASE i > Len(inbox)
      BY <1>0, <2>4, <3>2 DEF Grows
    <3> QED
      BY <1>0, <2>4, <3>1, <3>2 DEF Grows
  <2>6. OneStore(c)' /\ Gone(c)'
    BY <2>0 DEF OneStore, Gone
  <2>7. Parted(c)'
    BY <2>3, <2>5 DEF Parted
  <2>8. Dials(c)' /\ Watches(c)' /\ Newest(c)'
    BY <2>1, <2>2 DEF Dials, Watches, Newest
  <2>9. NamesOK(c)'
    BY <1>1, <1>5, <1>7, <2>0, <2>1 DEF NamesOK
  <2>10. CASE status[c] = "Connected"
    <3>1. inbox' = inbox /\ status'[c] = "Connected" /\ Loading(c)'
      BY <2>2, <2>10 DEF Loading
    <3>2. StatusOK(c)'
      BY <3>1 DEF StatusOK
    <3>3. LastSays(c)'
      BY <2>1, <3>1 DEF LastSays, Bears
    <3> QED
      BY <2>6, <2>7, <2>8, <2>9, <3>2, <3>3 DEF ConnOK
  <2>11. CASE status[c] # "Connected"
    <3>1. inbox' = Append(inbox, Dialed(c)) /\ status'[c] = "Connecting"
      BY <2>1, <2>2, <2>11
    <3>2. Len(inbox') = Len(inbox) + 1 /\ inbox'[Len(inbox')] = Dialed(c)
      BY <1>0, <2>3, <3>1, AppendShifts
    <3>3. LastSays(c)' /\ ~Quiet(c)'
      <4>1. /\ Len(inbox') \in 1..Len(inbox') /\ Len(inbox') \in Nat
            /\ \A j \in (Len(inbox') + 1)..Len(inbox') : ~Bears(inbox'[j], c)
        BY <1>0, <3>2
      <4> QED
        BY <2>3, <3>1, <3>2, <4>1, LastNew
    <3>4. StatusOK(c)'
      BY <3>3 DEF StatusOK
    <3> QED
      BY <2>6, <2>7, <2>8, <2>9, <3>3, <3>4 DEF ConnOK
  <2> QED
    BY <2>10, <2>11
<1>11. c \in Peer \ {Home} /\ view' \in Sessions!Up'
  BY <1>1, <1>2, <1>6
<1> QED
  BY <1>1, <1>6, <1>7, <1>8, <1>9, <1>10, <1>11, CallKeepsRest


LEMMA RetryKeepsSessions ==
  ASSUME SessionsInv, NEW k \in Sessions!Key, Sessions!Retry(k)
  PROVE  SessionsInv'
<1>. PICK c \in Peer : stores[k].conn = c
  BY DEF SessionsInv, SessionsTyped, StoreRec
<1> DEFINE v == [stores[k] EXCEPT !.status = "Connecting"]
<1>0. SessionsTyped /\ Len(inbox) \in Nat /\ stores[k] \in StoreRec
  BY DEF SessionsInv, SessionsTyped
<1>1. /\ stores[k].up /\ stores[k].status = "Error" /\ c # Home /\ Sessions!ConnectCalled(c)
      /\ stores' = [stores EXCEPT ![k] = v]
      /\ UNCHANGED <<listening, view, names, flushes, homes, given, crossed>>
  BY DEF Sessions!Retry
<1>2. k \in Sessions!Of(c) /\ listening
  BY <1>1 DEF SessionsInv, StoresOK, Sessions!Of, Sessions!Up
<1>3. v \in StoreRec /\ v.up /\ v.conn = c /\ v.status = "Connecting" /\ v.version = stores[k].version
  BY <1>0, <1>1 DEF StoreRec, ConnStatus
<1> HIDE DEF v
<1>4. /\ stores' \in [Sessions!Key -> StoreRec] /\ stores'[k] = v
           /\ \A j \in Sessions!Key \ {k} : stores'[j] = stores[j]
      /\ Sessions!Of(c)' = Sessions!Of(c) \cup {k} /\ k \in Sessions!Up'
      /\ \A d \in Peer \ {c} : Sessions!Of(d)' = Sessions!Of(d)
           /\ \A j \in Sessions!Of(d) : stores'[j] = stores[j]
  BY <1>0, <1>1, <1>2, <1>3, SetsOne
<1>5. Sessions!Up' = Sessions!Up
  <2>1. ASSUME NEW j \in Sessions!Key PROVE stores'[j].up <=> stores[j].up
    <3>1. j # k => stores'[j] = stores[j]
      BY <1>4
    <3> QED
      BY <1>1, <1>3, <1>4, <3>1
  <2> QED
    BY <2>1 DEF Sessions!Up
<1>6. \A j \in Sessions!Key : \/ stores'[j] = stores[j]
                              \/ stores'[j].status # "none"
                                   /\ stores'[j].version <= version[stores'[j].conn]
  BY <1>3, <1>4 DEF SessionsInv, UpTo
<1>7. /\ UNCHANGED <<version, refs, moving>> /\ loads \subseteq loads'
      /\ \A l \in loads' : l \in loads \/ (l.conn = c /\ l.version = 0)
      /\ status[c] = "Connected" =>
           /\ status'[c] = "Connected" /\ watched'[c] # 0 /\ inbox' = inbox
           /\ \A l \in loads' : l \in loads \/ l.at = "loading"
           /\ \E l \in loads' : l.conn = c /\ l.at = "loading"
      /\ status[c] # "Connected" =>
           /\ status'[c] = "Connecting"
           /\ inbox' = IF \E l \in loads : l.conn = c /\ l.at = "dialing" THEN inbox
                       ELSE Append(inbox, Dialed(c))
      /\ \E n : Grows(c, n)
  BY <1>1, CalledSays
<1>8. ASSUME c \notin crossed' PROVE ConnOK(c)'
  <2>0. ConnOK(c) /\ c \in Peer \ crossed
    BY <1>1, <1>8 DEF SessionsInv
  <2>1. Sessions!Of(c)' = Sessions!Of(c) /\ \A j \in Sessions!Of(c) : j = k
    BY <1>2, <1>4, <2>0 DEF ConnOK, OneStore
  <2>2. /\ Dialed(c) \in InboxRec /\ Dialed(c).type = "status" /\ Dialed(c).conn = c
        /\ Dialed(c).what = "Connecting" /\ Dialed(c).version = 0 /\ Bears(Dialed(c), c)
    BY DialedSays
  <2>3. PICK n : Grows(c, n)
    BY <1>7
  <2>4. \A i \in 1..Len(inbox') : inbox'[i].what = "Disconnected" => i \in 1..Len(inbox)
          /\ inbox'[i] = inbox[i]
    <3> TAKE i \in 1..Len(inbox')
    <3>1. CASE i <= Len(inbox)
      BY <1>0, <2>3, <3>1 DEF Grows, Shifts
    <3>2. CASE i > Len(inbox)
      BY <1>0, <2>2, <2>3, <3>2 DEF Grows
    <3> QED
      BY <1>0, <2>3, <3>1, <3>2 DEF Grows
  <2>5. OneStore(c)' /\ Gone(c)'
    BY <1>2, <2>1 DEF OneStore, Gone
  <2>6. Parted(c)'
    BY <1>2, <2>0, <2>1, <2>4 DEF Parted, ConnOK
  <2>7. NamesOK(c)'
    BY <1>1, <2>0, <2>1 DEF NamesOK, ConnOK
  <2>8. CASE status[c] = "Connected"
    <3>1. inbox' = inbox /\ status'[c] = status[c] /\ Loading(c)' /\ watched'[c] # 0
      BY <1>7, <2>8 DEF Loading
    <3>2. StatusOK(c)'
      BY <2>8, <3>1 DEF StatusOK
    <3>3. LastSays(c)'
      BY <2>0, <3>1 DEF LastSays, Bears, Says, ConnOK
    <3>4. Dials(c)' /\ Watches(c)' /\ Newest(c)'
      BY <1>7, <2>0, <2>8 DEF Dials, Watches, Newest, ConnOK
    <3> QED
      BY <2>5, <2>6, <2>7, <3>2, <3>3, <3>4 DEF ConnOK
  <2>9. CASE status[c] # "Connected"
    <3>1. Dials(c)' /\ Watches(c)' /\ Newest(c)'
      BY <1>7, <2>9 DEF Dials, Watches, Newest
    <3>2. CASE \E l \in loads : l.conn = c /\ l.at = "dialing"
      <4>1. inbox' = inbox /\ status'[c] = "Connecting" /\ status[c] = "Connecting"
        BY <1>1, <1>7, <2>0, <2>9, <3>2 DEF ConnOK, Dials
      <4>2. LastSays(c)'
        BY <2>0, <4>1 DEF LastSays, Bears, Says, ConnOK
      <4>3. StatusOK(c)'
        BY <1>3, <1>4, <2>1, <4>1 DEF StatusOK
      <4> QED
        BY <2>5, <2>6, <2>7, <3>1, <4>2, <4>3 DEF ConnOK
    <3>3. CASE ~(\E l \in loads : l.conn = c /\ l.at = "dialing")
      <4>1. inbox' = Append(inbox, Dialed(c)) /\ status'[c] = "Connecting"
        BY <1>7, <2>9, <3>3
      <4>2. Len(inbox') = Len(inbox) + 1 /\ inbox'[Len(inbox')] = Dialed(c)
        BY <1>0, <2>2, <4>1, AppendShifts
      <4>3. /\ Len(inbox') \in 1..Len(inbox') /\ Len(inbox') \in Nat
            /\ \A j \in (Len(inbox') + 1)..Len(inbox') : ~Bears(inbox'[j], c)
        BY <1>0, <4>2
      <4>4. LastSays(c)' /\ ~Quiet(c)'
        BY <2>2, <4>1, <4>2, <4>3, LastNew
      <4>5. StatusOK(c)'
        BY <4>4 DEF StatusOK
      <4> QED
        BY <2>5, <2>6, <2>7, <3>1, <4>4, <4>5 DEF ConnOK
    <3> QED
      BY <3>2, <3>3
  <2> QED
    BY <2>8, <2>9
<1>9. /\ c \in Peer \ {Home} /\ given' \in [Peer -> Nat] /\ (\A d \in Peer \ {c} : given'[d] = given[d])
      /\ crossed' \in SUBSET Peer /\ crossed \ {c} \subseteq crossed'
  BY <1>0, <1>1 DEF SessionsTyped
<1> QED
  BY <1>1, <1>2, <1>4, <1>5, <1>6, <1>8, <1>9, CallKeepsRest

-----------------------------------------------------------------------------
LEMMA InitialSessions ==
  ASSUME Sessions!Init
  PROVE  SessionsInv
<1>0. /\ listening = FALSE /\ stores = [k \in Sessions!Key |-> Sessions!NoStore]
           /\ names = [k \in Sessions!Key |-> 0]
      /\ flushes = {} /\ homes = {} /\ inbox = <<>> /\ status = [c \in Peer |-> "none"]
      /\ watched = [c \in Peer |-> 0] /\ version = [c \in Peer |-> 1] /\ refs \in [Peer -> BOOLEAN]
      /\ loads = {[conn |-> Home, at |-> "dialing", version |-> 0, no |-> 1]}
      /\ moving = [c \in Peer |-> 0] /\ given = [c \in Peer |-> 0] /\ crossed = {} /\ calls = 1
      /\ Home \in Peer
  BY AppAssumption DEF Sessions!Init
<1>1. Sessions!NoStore \in StoreRec /\ ~Sessions!NoStore.up /\ Sessions!NoStore.version = 0
        /\ Sessions!NoStore.conn = Home
  BY <1>0 DEF Sessions!NoStore, StoreRec, ConnStatus
<1>2. SessionsTyped
  <2>1. inbox \in Seq(InboxRec) /\ loads \in SUBSET CallRec
    BY <1>0 DEF CallRec
  <2>2. stores \in [Sessions!Key -> StoreRec] /\ names \in [Sessions!Key -> Nat]
    BY <1>0, <1>1
  <2>3. status \in [Peer -> ConnStatus] /\ watched \in [Peer -> Nat] /\ version \in [Peer -> Nat]
    BY <1>0 DEF ConnStatus
  <2>4. moving \in [Peer -> 0..1] /\ given \in [Peer -> Nat]
    BY <1>0
  <2> QED
    BY <1>0, <2>1, <2>2, <2>3, <2>4 DEF SessionsTyped
<1>3. \A k \in Sessions!Key : ~stores[k].up
  BY <1>0, <1>1
<1>4. Len(inbox) = 0 /\ \A i \in 1..Len(inbox) : FALSE
  BY <1>0
<1>5. StoresOK /\ EventsOK /\ ViewOK
  BY <1>0, <1>3, <1>4 DEF StoresOK, EventsOK, ViewOK, Sessions!Up
<1>6. UpTo
  BY <1>0, <1>1 DEF UpTo
<1>7. ASSUME NEW c \in Peer PROVE ConnOK(c)
  <2>1. Sessions!Of(c) = {}
    BY <1>3 DEF Sessions!Of, Sessions!Up
  <2>2. status[c] = "none" /\ moving[c] = 0 /\ \A l \in loads : l.conn = Home
    BY <1>0
  <2>3. OneStore(c) /\ Gone(c) /\ Parted(c) /\ Dials(c) /\ Watches(c)
    BY <1>0, <1>4, <2>1, <2>2 DEF OneStore, Gone, Parted, Dials, Watches
  <2>4. LastSays(c) /\ StatusOK(c) /\ NamesOK(c) /\ Newest(c)
    BY <1>0, <1>4, <2>1, <2>2 DEF LastSays, StatusOK, NamesOK, Newest
  <2> QED
    BY <2>3, <2>4 DEF ConnOK
<1> QED
  BY <1>2, <1>5, <1>6, <1>7 DEF SessionsInv

LEMMA SessionsStays ==
  ASSUME SessionsInv, UNCHANGED Sessions!vars
  PROVE  SessionsInv'
<1>1. UNCHANGED <<listening, stores, view, names, flushes, homes, inbox, status, watched, version, refs,
                  loads, moving, given, crossed, calls>>
  BY DEF Sessions!vars, Sessions!window, Sessions!main
<1>2. SessionsTyped' /\ StoresOK' /\ EventsOK' /\ UpTo' /\ ViewOK'
  BY <1>1 DEF SessionsInv, SessionsTyped, StoresOK, EventsOK, EventOK, UpTo, ViewOK, Sessions!Up
<1>3. ASSUME NEW c \in Peer \ crossed' PROVE ConnOK(c)'
  <2>1. Aside(c) /\ SessionsTyped /\ ConnOK(c) /\ Len(inbox) \in Nat
    BY <1>1, <1>3 DEF Aside, Sessions!Of, Sessions!Up, SessionsInv, SessionsTyped
  <2>2. Shifts(0, 0) /\ ~(\E i \in 1..Len(inbox') : i > Len(inbox) - 0)
    BY <1>1, <2>1, StaysShifts
  <2> QED
    BY <1>3, <2>1, <2>2, AsideKeeps
<1> QED
  BY <1>2, <1>3 DEF SessionsInv

LEMMA StepKeepsSessions ==
  ASSUME SessionsInv, [Sessions!Next]_(Sessions!vars)
  PROVE  SessionsInv'
<1>1. CASE Sessions!LocalAnswer \/ Sessions!NobodyListens
  BY <1>1, LocalAnswerKeepsSessions, NobodyKeepsSessions
<1>2. ASSUME NEW c \in Peer,
             \/ Sessions!Connects(c) \/ Sessions!ConnectFails(c) \/ Sessions!SessionChanges(c)
                  \/ Sessions!Drops(c) \/ Sessions!Reconnects(c)
             \/ Sessions!TellsReconnected(c)
      PROVE  SessionsInv'
  BY <1>2, ConnectsKeepsSessions, ConnectFailsKeepsSessions, ChangesKeepsSessions, LinkKeepsSessions,
     TellsKeepsSessions
<1>3. ASSUME NEW c \in Peer,
             \/ Sessions!Connect(c) \/ Sessions!StatusArrives(c) \/ Sessions!SyncArrives(c)
             \/ Sessions!AddRemoteSession(c) \/ Sessions!SetSessionError(c)
                  \/ Sessions!HandleReconnected(c)
      PROVE  SessionsInv'
  BY <1>3, ConnectKeepsSessions, StatusKeepsSessions, SyncKeepsSessions, AddKeepsSessions,
     SetErrorKeepsSessions, HandleKeepsSessions
<1>4. ASSUME NEW l \in loads,
             Sessions!InitialSession(l) \/ Sessions!ConnectAnswers(l) \/ Sessions!LoadFails(l)
      PROVE  SessionsInv'
  BY <1>4, InitialSessionKeepsSessions, AnswersKeepsSessions, LoadFailsKeepsSessions
<1>5. ASSUME NEW k \in Sessions!Key,
             Sessions!Retry(k) \/ Sessions!Reconnect(k) \/ Sessions!Stop(k)
               \/ Sessions!DisconnectSession(k) \/ Sessions!Rename(k)
      PROVE  SessionsInv'
  BY <1>5, RetryKeepsSessions, BannerKeepsSessions, DisconnectKeepsSessions, RenameKeepsSessions
<1>6. ASSUME NEW h \in homes, Sessions!HomeResolved(h) PROVE SessionsInv'
  BY <1>6, HomeKeepsSessions
<1>7. ASSUME NEW f \in flushes, Sessions!Rebuild(f) PROVE SessionsInv'
  BY <1>7, RebuildKeepsSessions
<1>8. CASE UNCHANGED Sessions!vars
  BY <1>8, SessionsStays
<1> QED
  BY <1>1, <1>2, <1>3, <1>4, <1>5, <1>6, <1>7, <1>8 DEF Sessions!Next

LEMMA InvFollows ==
  ASSUME SessionsInv
  PROVE  Sessions!WindowFollowsMain /\ Sessions!ViewExists
<1>1. Sessions!ViewExists
  BY DEF SessionsInv, ViewOK, Sessions!ViewExists
<1>2. ASSUME NEW c \in Peer \ crossed, Sessions!AtRest(c)
      PROVE  /\ \A j, k \in Sessions!Of(c) : j = k
             /\ Sessions!Of(c) = {} => status[c] = "none"
             /\ \A k \in Sessions!Of(c) :
                  /\ stores[k].status = status[c]
                  /\ status[c] = "Connected" /\ refs[c] => stores[k].version = version[c]
                  /\ names[k] = given[c]
  <2>1. ConnOK(c) /\ listening /\ SessionsTyped
    BY <1>2 DEF SessionsInv, Sessions!AtRest
  <2>2. /\ \A i \in 1..Len(inbox) : inbox[i].conn # c
        /\ \A l \in loads : l.conn # c
        /\ moving[c] = 0
        /\ \A f \in flushes : f.conn # c
    <3>1. DOMAIN inbox = 1..Len(inbox)
      BY <2>1 DEF SessionsTyped
    <3> QED
      BY <1>2, <3>1 DEF Sessions!AtRest, Sessions!UnderWay
  <2>3. Sessions!Of(c) = {} => status[c] = "none"
    BY <2>1 DEF ConnOK, Gone
  <2>4. ASSUME NEW k \in Sessions!Of(c)
        PROVE  /\ stores[k].status = status[c]
               /\ status[c] = "Connected" /\ refs[c] => stores[k].version = version[c]
               /\ names[k] = given[c]
    <3>1. Quiet(c) /\ ~Loading(c)
      BY <2>2 DEF Quiet, Bears, Loading
    <3>2. stores[k].status = status[c] /\ names[k] = given[c] /\ \A j \in Sessions!Of(c) : j = k
      BY <2>1, <3>1 DEF ConnOK, StatusOK, NamesOK, OneStore
    <3>3. ASSUME status[c] = "Connected", refs[c] PROVE stores[k].version = version[c]
      <4>1. ~(\E i \in 1..Len(inbox) : Tells(inbox[i], c))
        BY <2>2 DEF Tells
      <4> QED
        BY <2>1, <2>2, <3>2, <3>3, <4>1 DEF ConnOK, Newest
    <3> QED
      BY <3>2, <3>3
  <2>5. \A j, k \in Sessions!Of(c) : j = k
    BY <2>1 DEF ConnOK, OneStore
  <2> QED
    BY <2>3, <2>4, <2>5
<1> QED
  BY <1>1, <1>2 DEF Sessions!WindowFollowsMain

(* Once nothing about a connection is on its way, the window has one       *)
(* session of it, with the status, the version and the name that the       *)
(* connection's session has, or none if it is given up, and the view is of *)
(* a session that exists: however many connections, sessions, calls,       *)
(* changes and faults there are, but for the connections whose answers and *)
(* events crossed (`crossed`).                                             *)
THEOREM SessionsAlwaysFollow ==
  ASSUME AppAssumption
  PROVE  Sessions!Spec => []SessionsFollow
<1>1. Sessions!Init => SessionsInv
  BY InitialSessions
<1>2. SessionsInv /\ [Sessions!Next]_(Sessions!vars) => SessionsInv'
  BY StepKeepsSessions
<1>3. SessionsInv => SessionsFollow
  BY InvFollows DEF SessionsFollow
<1> QED
  BY <1>1, <1>2, <1>3, PTL DEF Sessions!Spec
=============================================================================
