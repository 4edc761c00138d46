------------------------------- MODULE MCApp -------------------------------
(* Small instances of the window's and the main process's components that  *)
(* are modelled by themselves: a behaviour is one of `part`, the others    *)
(* stand still.                                                            *)
EXTENDS Naturals, AppTrees
CONSTANTS
  Peer, Home, Lively, MaxStores, MaxCalls, MaxChanges, \* AppSessions
  Window, MaxEdits, MaxRequests,          \* Settings
  MaxCreations, MaxEffects, MaxBodies,    \* TabTerminal
  MaxConns, MaxClients, MaxFiles, MaxDrops \* MainProcess

ASSUME AppAssumption ==
  /\ {MaxEdits, MaxRequests, MaxCreations, MaxEffects, MaxBodies, MaxConns, MaxClients, MaxFiles,
      MaxDrops, MaxStores, MaxCalls, MaxChanges} \subseteq Nat
  /\ Home \in Peer

VARIABLES
  part, changes,
  listening, stores, view, names, flushes, homes, inbox, status, watched, version,
  refs, loads, moving, given, crossed, calls,
  file, health, store, loaded, offered, draft, requests, latest, held,
  kind, tab, ref, memo, creation, program, tabView, init, closed, strayed, reset, missed, bodies,
  mainWindow, home, dials, connection, client, retry, link, session, watch, moves, told, files,
  overtaken, raced

Sessions == INSTANCE AppSessions WITH Conn <- Peer
Dialog == INSTANCE Settings WITH
  MaxChanges <- MaxEdits, MaxCalls <- MaxRequests, calls <- requests
Tab == INSTANCE TabTerminal WITH view <- tabView
Main == INSTANCE MainProcess WITH
  MaxFaults <- MaxDrops, window <- mainWindow, calls <- dials, status <- connection

sessionVars == <<listening, stores, view, names, flushes, homes, inbox, status, watched, version,
                 refs, loads, moving, given, crossed, calls>>
dialogVars == <<file, health, store, loaded, offered, draft, requests, latest, held>>
tabVars == <<kind, tab, ref, memo, creation, program, tabView, init, closed, strayed, reset,
             missed, bodies>>
mainVars == <<mainWindow, home, dials, connection, client, retry, link, session, watch, moves,
              told, files, overtaken, raced>>

AppInit ==
  /\ part \in {"local", "remote", "dialog", "tab", "main", "alone", "two"}
  /\ Sessions!Init /\ (part \notin {"local", "remote"} => refs = [c \in Peer |-> FALSE])
  /\ Dialog!Init
  /\ Tab!Init /\ (part # "tab" => kind = "terminal")
  /\ Main!Init
  /\ Trees!Init /\ begun = (IF part = "alone" THEN MaxOps - 1 ELSE 0)
  /\ part \notin {"alone", "two"} => ~tree[3].here

(* The local session alone, or a lively remote one beside it.              *)
SessionsStep ==
  /\ part \in {"local", "remote"}
  /\ Sessions!Next
  /\ part = "local" => calls' = 1
  /\ \A c \in IF part = "local" THEN Peer \ {Home} ELSE {Home} :
       /\ version'[c] = version[c] /\ given'[c] \in {0, given[c]}
       /\ status[c] = "Connected" => status'[c] # "Reconnecting"
  /\ UNCHANGED <<part, dialogVars, tabVars, mainVars, treeVars>>
DialogStep ==
  /\ part = "dialog" /\ Dialog!Next
  /\ UNCHANGED <<part, sessionVars, tabVars, mainVars, treeVars>>
TabStep ==
  /\ part = "tab" /\ Tab!Next
  /\ UNCHANGED <<part, changes, sessionVars, dialogVars, mainVars, treeVars>>
MainStep ==
  /\ part = "main" /\ Main!Next
  /\ UNCHANGED <<part, changes, sessionVars, dialogVars, tabVars, treeVars>>
(* One operation of any kind with faults, or two at a time without.        *)
TreeStep ==
  /\ part \in {"alone", "two"}
  /\ Trees!Next
  /\ \/ part = "alone"
     \/ /\ part = "two" /\ faults' = faults /\ switches' = switches
        /\ \A i \in Slot : \/ op'[i].kind \in {"none", "adopt", "mergeRemove"}
                           \/ op'[i].kind = "remove" /\ ~op'[i].keepBranch /\ op'[i].saved.path # 1
  /\ UNCHANGED <<part, changes, sessionVars, dialogVars, tabVars, mainVars>>

AppNext == SessionsStep \/ DialogStep \/ TabStep \/ MainStep \/ TreeStep

AppSpec ==
  AppInit /\ [][AppNext]_<<part, faults, changes, sessionVars, dialogVars, tabVars, mainVars,
                           treeVars>>

(* The window's sessions are those of the main process's connections.      *)
SessionsFollow ==
  Sessions!WindowFollowsMain /\ Sessions!ViewExists
(* A saved setting stays until it is changed again, and is what is offered.*)
SettingsKept == Dialog!ChangesSurvive /\ Dialog!ProfilesOffered
(* A tab's PTY, its stream, its view and its end belong together.          *)
TabKept == Tab!StreamsOwned /\ Tab!ClosedIsKilled /\ Tab!OpenTabHasPty /\ Tab!ViewTellsTheEnd
(* The watches follow the connection, the window is told, nothing is left. *)
MainFollows == Main!WatchesFollow /\ Main!OnlyHomeIsKept /\ Main!ToldOfNewest
=============================================================================
