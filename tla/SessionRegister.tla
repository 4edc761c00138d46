-------------------------- MODULE SessionRegister ---------------------------
(***************************************************************************)
(* What the daemon's session store promises its clients, with handlers,    *)
(* watch streams and the clock abstracted away: a register of workspace    *)
(* refs whose version grows by one with every write, and a lock that at    *)
(* most one connection holds and that keeps every other connection from    *)
(* writing.  A write computed from an old version is stale: only the lock  *)
(* holder gets one through.  SessionStore implements the register          *)
(* (RegisterRefinement there).                                             *)
(***************************************************************************)
EXTENDS Integers

CONSTANTS Conn, Nobody, RefList, NoRefs

VARIABLES
  version, refs, holder,
  author    \* who made the last write, and whether it was stale

regVars == <<version, refs, holder, author>>

RegInit ==
  /\ version = 1
  /\ refs = NoRefs
  /\ holder = Nobody
  /\ author = [conn |-> Nobody, stale |-> FALSE]

\* A connection that is not locked out replaces the ref list.
Commit(c, stale) ==
  /\ holder = c \/ (holder = Nobody /\ ~stale)
  /\ author' = [conn |-> c, stale |-> stale]
  /\ version' = version + 1
  /\ refs' \in RefList
  /\ UNCHANGED holder

\* A connection takes the free lock, or renews its own.
Acquire(c) ==
  /\ holder \in {Nobody, c}
  /\ version' = version + 1
  /\ holder' = c
  /\ UNCHANGED <<refs, author>>

\* The lock is given up, or taken away, and everybody can tell by the version.
GiveUp ==
  /\ version' = version + 1
  /\ holder' = Nobody
  /\ UNCHANGED <<refs, author>>

\* The lock's time runs out: nothing else changes.
Lapse ==
  /\ holder' = Nobody
  /\ UNCHANGED <<version, refs, author>>

RegNext ==
  \/ \E c \in Conn, stale \in BOOLEAN : Commit(c, stale)
  \/ \E c \in Conn : Acquire(c)
  \/ GiveUp
  \/ Lapse

RegSpec == RegInit /\ [][RegNext]_regVars
=============================================================================
