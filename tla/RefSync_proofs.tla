--------------------------- MODULE RefSync_proofs ---------------------------
(***************************************************************************)
(* Two proofs about the windows, for any windows, slots and workspaces.    *)
(*                                                                         *)
(* LockHeld: an operation which was granted the session lock holds it      *)
(* until it gives it back, for any failures and attempts, any number of    *)
(* operations in a window and locks that run out; it is excused only when  *)
(* the daemon finds its lock expired or its own window gives the lock back *)
(* for another operation, the two ways in which the code loses it.  The    *)
(* argument follows the calls.  An operation awaits at most one call, and  *)
(* which one is known from where it stands; so the call that gives the     *)
(* lock back is that of an operation which needs it no more or the excuse  *)
(* of one that does, and those of other windows are refused.               *)
(*                                                                         *)
(* What the lists of a window are always good for: no workspace that waits *)
(* to be published is in the list that counts as synced, a rejected sync   *)
(* is not forgotten, and the work of a window is taken away by nobody but  *)
(* its users.  An id is new until its creation ends and its workspace is   *)
(* built; only what was built gets into a window's lists or into the       *)
(* daemon's, and what the daemon ever listed, or a user took off, is gone  *)
(* from the unpublished ones.  So the list a window counts as synced names *)
(* unpublished workspaces at most while a sync that offers them is in      *)
(* flight; and unless an answer publishes them, a sync is queued, a file   *)
(* is being written, an event is awaited or the attempts are used up.      *)
(***************************************************************************)
EXTENDS RefSync, SessionStore_proofs, FiniteSetTheorems, WellFoundedInduction, TLAPS

Fields == {"ver", "synced", "order", "loaded", "known", "unpub", "watched", "arriving",
           "attempts", "retry", "queue", "cur", "job"}
Shape(s) == DOMAIN s = Fields /\ s = [f \in Fields |-> s[f]]

\* What an operation awaits, by where it stands.
Awaited(pc) == CASE pc = "locking" -> "lock" [] pc = "unlocking" -> "unlock"
                 [] pc = "syncing" -> "sync" [] OTHER -> "nothing"

Pcs == {"locking", "working", "writing", "syncing", "deleting", "unlocking"}
Kinds == {"root", "child", "adopt", "remove"}
IsJob(j) ==
  /\ DOMAIN j = {"op", "id", "pc"} /\ j = [f \in {"op", "id", "pc"} |-> j[f]]
  /\ j.op \in Kinds /\ j.pc \in Pcs
Calls == [op : {"lock", "unlock"}, slots : {{k} : k \in Slot}]
           \cup [op : {"sync"}, slots : SUBSET Slot]

JobsOK(s) ==
  /\ DOMAIN s.job = Slot /\ s.job = [k \in Slot |-> s.job[k]]
  /\ \A k \in Slot : s.job[k] = NoJob \/ IsJob(s.job[k])
  /\ \A k \in Slot : s.job[k].pc = "locking" => s.job[k].op # "root"

\* The calls of a window that some operation awaits, queued and in flight.
CallsTyped(s) ==
  /\ s.queue \in Seq(Calls)
  /\ s.cur # NoCall => /\ s.cur.op \in {"lock", "unlock", "sync"}
                       /\ s.cur.slots \subseteq Slot
                       /\ s.cur.op # "sync" => s.cur.slots # {}

Queued1(s, k) == \E i \in 1..Len(s.queue) : k \in s.queue[i].slots
InFlight1(s, k) == s.cur # NoCall /\ k \in s.cur.slots

CallsAwaited(s, k) ==
  /\ \A i \in 1..Len(s.queue) :
       k \in s.queue[i].slots => Awaited(s.job[k].pc) = s.queue[i].op
  /\ \A i, j \in 1..Len(s.queue) :
       k \in s.queue[i].slots /\ k \in s.queue[j].slots => i = j
  /\ InFlight1(s, k) => Awaited(s.job[k].pc) = s.cur.op /\ ~Queued1(s, k)

StoreInv(s) == Shape(s) /\ JobsOK(s) /\ CallsTyped(s) /\ \A k \in Slot : CallsAwaited(s, k)

\* A store some of whose operations await nothing, wherever they say they stand.
AllQuiet(s, K) ==
  /\ Shape(s) /\ JobsOK(s) /\ CallsTyped(s)
  /\ \A k \in K : ~Queued1(s, k) /\ ~InFlight1(s, k)
  /\ \A l \in Slot \ K : CallsAwaited(s, l)
Quiet(s, k) == AllQuiet(s, {k})

Held(s, k) ==
  s.job[k].pc \in {"working", "writing", "syncing", "deleting"} /\ s.job[k].op # "root"

SameCalls(t, s) == Shape(t) /\ t.job = s.job /\ t.queue = s.queue /\ t.cur = s.cur

-----------------------------------------------------------------------------
(* The bookkeeping of a store leaves its calls alone.                      *)

LEMMA EntriesKeepCalls ==
  ASSUME NEW s, Shape(s), NEW id
  PROVE  /\ SameCalls(PutLoaded(s, id), s) /\ SameCalls(PutPlaceholder(s, id), s)
         /\ SameCalls(DeleteEntry(s, id), s)
<1>1. SameCalls(PutEntry(s, id), s)
  BY DEF PutEntry, SameCalls, Shape, Fields
<1> QED
  BY <1>1 DEF PutLoaded, PutPlaceholder, DeleteEntry, SameCalls, Shape, Fields

LEMMA SetsKeepCalls ==
  ASSUME NEW s, Shape(s), NEW ids
  PROVE  SameCalls(EnsureWatch(s, ids), s) /\ SameCalls(OnWorkspaceRemoved(s, ids), s)
BY DEF EnsureWatch, OnWorkspaceRemoved, SameCalls, Shape, Fields

LEMMA ReconcileKeepsCalls ==
  ASSUME NEW s, Shape(s), NEW list
  PROVE  SameCalls(ReconcileRefs(s, list), s)
<1> DEFINE watching == EnsureWatch(s, IdsOf(list))
           adopted == [watching EXCEPT
             !.known = IdsOf(list),
             !.unpub = @ \ IdsOf(list),
             !.order = @ \o Only(list, IdsOf(list) \ Entries(s))]
           removed == RemovedElsewhere(adopted, IdsOf(list))
<1>1. SameCalls(watching, s)
  BY SetsKeepCalls
<1>2. SameCalls(adopted, s)
  <2> HIDE DEF watching
  <2> QED
    BY <1>1 DEF SameCalls, Shape, Fields
<1>3. SameCalls(OnWorkspaceRemoved(adopted, removed), adopted)
  <2>1. Shape(adopted)
    BY <1>2 DEF SameCalls
  <2> HIDE DEF adopted, removed
  <2> QED
    BY <2>1, SetsKeepCalls
<1>4. ReconcileRefs(s, list) = OnWorkspaceRemoved(adopted, removed)
  BY DEF ReconcileRefs
<1> HIDE DEF adopted, removed
<1> QED
  BY <1>2, <1>3, <1>4 DEF SameCalls

-----------------------------------------------------------------------------
(* What such changes and the steps of an operation keep.                   *)

LEMMA SameIsFine ==
  ASSUME NEW s, NEW t, SameCalls(t, s), NEW k \in Slot
  PROVE  /\ StoreInv(s) => StoreInv(t)
         /\ Quiet(s, k) => Quiet(t, k)
         /\ Held(t, k) <=> Held(s, k)
BY DEF SameCalls, StoreInv, Quiet, AllQuiet, Held, JobsOK, CallsTyped, CallsAwaited,
       Queued1, InFlight1

LEMMA NothingIsAwaited ==
  ASSUME NEW s, NEW k, ~Queued1(s, k), ~InFlight1(s, k)
  PROVE  CallsAwaited(s, k)
BY DEF CallsAwaited, Queued1, InFlight1

LEMMA AllQuietIsFine ==
  ASSUME NEW K, NEW s, AllQuiet(s, K)
  PROVE  StoreInv(s)
BY NothingIsAwaited DEF StoreInv, AllQuiet

LEMMA QuietIsFine ==
  ASSUME NEW k \in Slot, NEW s, Quiet(s, k)
  PROVE  StoreInv(s)
BY AllQuietIsFine DEF Quiet

LEMMA FineIsQuiet ==
  ASSUME NEW k \in Slot, NEW s, StoreInv(s), Awaited(s.job[k].pc) = "nothing"
  PROVE  Quiet(s, k)
<1>1. \A i \in 1..Len(s.queue) : s.queue[i].op \in {"lock", "unlock", "sync"}
  BY DEF StoreInv, CallsTyped, Calls
<1> QED
  BY <1>1 DEF StoreInv, CallsTyped, CallsAwaited, Quiet, AllQuiet, Queued1, InFlight1

\* Some of the quiet operations move on together, and others stay.
PcMoved(t, s, D, pc) ==
  /\ t.cur = s.cur
  /\ \A k \in D : IsJob(t.job[k]) /\ t.job[k] = [s.job[k] EXCEPT !.pc = pc]
  /\ \A l \in Slot \ D : t.job[l] = s.job[l]
OthersStay(t, s, k) == \A l \in Slot \ {k} : t.job[l] = s.job[l]

LEMMA SetPcOfSome ==
  ASSUME NEW K \in SUBSET Slot, NEW s, AllQuiet(s, K), NEW D \in SUBSET K,
         \A k \in D : IsJob(s.job[k]),
         NEW pc \in Pcs \ {"locking"}
  PROVE  AllQuiet(SetPc(s, D, pc), K) /\ PcMoved(SetPc(s, D, pc), s, D, pc)
<1> DEFINE t == SetPc(s, D, pc)
<1>1. /\ t.job = [l \in Slot |-> IF l \in D THEN [s.job[l] EXCEPT !.pc = pc] ELSE s.job[l]]
      /\ t.queue = s.queue /\ t.cur = s.cur /\ Shape(t)
  BY DEF SetPc, AllQuiet, Shape, Fields
<1> HIDE DEF t
<1>2. \A k \in D : t.job[k] = [s.job[k] EXCEPT !.pc = pc]
  BY <1>1
<1>3. \A k \in D : IsJob(t.job[k]) /\ t.job[k].op = s.job[k].op /\ t.job[k].pc = pc
  BY <1>2 DEF IsJob
<1>4. \A l \in Slot \ D : t.job[l] = s.job[l]
  BY <1>1
<1>5. JobsOK(t)
  <2>1. DOMAIN t.job = Slot /\ t.job = [l \in Slot |-> t.job[l]]
    BY <1>1
  <2>2. \A l \in Slot : /\ t.job[l] = NoJob \/ IsJob(t.job[l])
                        /\ t.job[l].pc = "locking" => t.job[l].op # "root"
    <3>1. \A l \in Slot : /\ s.job[l] = NoJob \/ IsJob(s.job[l])
                          /\ s.job[l].pc = "locking" => s.job[l].op # "root"
      BY DEF JobsOK, AllQuiet
    <3>2. pc # "locking"
      OBVIOUS
    <3> TAKE l \in Slot
    <3>3. CASE l \in D
      BY <1>3, <3>2, <3>3
    <3>4. CASE l \in Slot \ D
      BY <1>4, <3>1, <3>4
    <3> QED
      BY <3>3, <3>4
  <2> QED
    BY <2>1, <2>2 DEF JobsOK
<1>6. \A l \in Slot \ K : CallsAwaited(t, l)
  BY <1>1, <1>4 DEF AllQuiet, CallsAwaited, Queued1, InFlight1
<1>7. AllQuiet(t, K)
  BY <1>1, <1>5, <1>6 DEF AllQuiet, CallsTyped, Queued1, InFlight1
<1> QED
  BY <1>1, <1>2, <1>3, <1>4, <1>7 DEF t, PcMoved

LEMMA SetPcIsQuiet ==
  ASSUME NEW k \in Slot, NEW s, Quiet(s, k), IsJob(s.job[k]), NEW pc \in Pcs \ {"locking"}
  PROVE  /\ Quiet(SetPc(s, {k}, pc), k)
         /\ SetPc(s, {k}, pc).job[k] = [s.job[k] EXCEPT !.pc = pc]
         /\ SetPc(s, {k}, pc).cur = s.cur
         /\ OthersStay(SetPc(s, {k}, pc), s, k)
<1> DEFINE K == {k}
<1>1. K \in SUBSET Slot /\ AllQuiet(s, K) /\ \A l \in K : IsJob(s.job[l])
  BY DEF Quiet
<1>2. AllQuiet(SetPc(s, K, pc), K) /\ PcMoved(SetPc(s, K, pc), s, K, pc)
  <2> HIDE DEF K
  <2> QED
    BY <1>1, SetPcOfSome
<1> QED
  BY <1>2 DEF Quiet, PcMoved, OthersStay

LEMMA EndJobIsQuiet ==
  ASSUME NEW k \in Slot, NEW s, Quiet(s, k)
  PROVE  /\ Quiet(EndJob(s, k), k) /\ ~Held(EndJob(s, k), k) /\ EndJob(s, k).cur = s.cur
         /\ EndJob(s, k).job[k] = NoJob
         /\ OthersStay(EndJob(s, k), s, k)
<1> DEFINE t == EndJob(s, k)
<1>1. /\ t.job = [s.job EXCEPT ![k] = NoJob]
      /\ t.queue = s.queue /\ t.cur = s.cur /\ Shape(t)
  BY DEF EndJob, Quiet, AllQuiet, Shape, Fields
<1> HIDE DEF t
<1>2. t.job[k] = NoJob /\ \A l \in Slot \ {k} : t.job[l] = s.job[l]
  BY <1>1 DEF JobsOK, Quiet, AllQuiet
<1>3. JobsOK(t)
  BY <1>1, <1>2 DEF JobsOK, Quiet, AllQuiet, NoJob
<1>4. \A l \in Slot \ {k} : CallsAwaited(t, l)
  BY <1>1, <1>2 DEF Quiet, AllQuiet, CallsAwaited, Queued1, InFlight1
<1>5. Quiet(t, k)
  BY <1>1, <1>3, <1>4 DEF Quiet, AllQuiet, CallsTyped, Queued1, InFlight1
<1>6. ~Held(t, k)
  BY <1>2 DEF Held, NoJob
<1> QED
  BY <1>1, <1>2, <1>5, <1>6 DEF t, OthersStay

-----------------------------------------------------------------------------
(* The queue.                                                              *)

\* The calls that enqueueOp adds: one for each operation, in some order.
OpsAdded(t, s, op, D, n, m) ==
  /\ Shape(t) /\ t.job = s.job /\ t.cur = s.cur
  /\ t.queue \in Seq(Calls) /\ n = Len(s.queue) /\ m = Len(t.queue)
  /\ n \in Nat /\ m \in Nat /\ n <= m
  /\ \A i \in 1..n : t.queue[i] = s.queue[i]
  /\ \A i \in (n + 1)..m : t.queue[i].op = op /\ t.queue[i].slots \subseteq D
  /\ \A i, j \in (n + 1)..m : \A k \in D :
       k \in t.queue[i].slots /\ k \in t.queue[j].slots => i = j

LEMMA EnqueueOpAdds ==
  ASSUME NEW s, s.queue \in Seq(Calls), Shape(s), NEW op \in {"lock", "unlock"},
         NEW D \in SUBSET Slot
  PROVE  OpsAdded(EnqueueOp(s, op, D), s, op, D, Len(s.queue), Len(EnqueueOp(s, op, D).queue))
<1> DEFINE requests == [op : {op}, slots : {{l} : l \in D}]
           calls == CHOOSE q \in [1..Cardinality(D) -> requests] : Injective(q)
           c == Cardinality(D)
           n == Len(s.queue)
           t == EnqueueOp(s, op, D)
           request(l) == [op |-> op, slots |-> {l}]
<1>1. IsFiniteSet(D) /\ c \in Nat
  BY RefSyncAssumption, FS_Subset, FS_CardinalityType
<1>2. calls \in [1..c -> requests] /\ Injective(calls)
  <2>1. PICK f : f \in [1..c -> D] /\ \A i, j \in 1..c : f[i] = f[j] => i = j
    <3>1. Bijection(1..c, D) # {}
      BY <1>1, FS_CardinalityType DEF ExistsBijection
    <3>2. PICK f : f \in Bijection(1..c, D)
      BY <3>1
    <3> QED
      BY <3>2 DEF Bijection, Injection, IsInjective
  <2> DEFINE q == [i \in 1..c |-> request(f[i])]
  <2>2. \A l \in D : request(l) \in requests
    OBVIOUS
  <2>3. \A l, x \in D : request(l) = request(x) => l = x
    <3> TAKE l, x \in D
    <3> HAVE request(l) = request(x)
    <3>1. request(l).slots = request(x).slots
      OBVIOUS
    <3>2. {l} = {x}
      BY <3>1
    <3> QED
      BY <3>2
  <2> HIDE DEF requests, request
  <2>4. q \in [1..c -> requests]
    BY <2>1, <2>2
  <2>5. Injective(q)
    BY <2>1, <2>3 DEF Injective
  <2> HIDE DEF q, c
  <2> QED
    BY <2>4, <2>5 DEF c
<1>3. t = [s EXCEPT !.queue = @ \o calls]
  BY DEF EnqueueOp
<1>4. \A r \in requests : r.op = op /\ r.slots \subseteq D /\ r \in Calls
  BY DEF Calls
<1>5. \A r1, r2 \in requests : \A k \in D : k \in r1.slots /\ k \in r2.slots => r1 = r2
  <2> TAKE r1, r2 \in requests
  <2> TAKE k \in D
  <2> HAVE k \in r1.slots /\ k \in r2.slots
  <2>1. r1 = [op |-> r1.op, slots |-> r1.slots] /\ r2 = [op |-> r2.op, slots |-> r2.slots]
    OBVIOUS
  <2>2. r1.op = r2.op /\ r1.slots = {k} /\ r2.slots = {k}
    OBVIOUS
  <2> QED
    BY <2>1, <2>2
<1> HIDE DEF requests, calls, t
<1>6. calls \in Seq(Calls) /\ Len(calls) = c /\ DOMAIN calls = 1..c
  BY <1>1, <1>2, <1>4
<1>7. Shape(t) /\ t.job = s.job /\ t.cur = s.cur /\ t.queue = s.queue \o calls
  BY <1>3 DEF Shape, Fields
<1>8. /\ n \in Nat /\ Len(t.queue) = n + c /\ t.queue \in Seq(Calls)
      /\ \A i \in 1..n : t.queue[i] = s.queue[i]
      /\ \A i \in (n + 1)..(n + c) : t.queue[i] = calls[i - n] /\ i - n \in 1..c
  <2> DEFINE q == s.queue
  <2>1. q \in Seq(Calls) /\ n = Len(q)
    OBVIOUS
  <2> HIDE DEF q, n
  <2>2. /\ n \in Nat /\ Len(q \o calls) = n + c /\ q \o calls \in Seq(Calls)
        /\ \A i \in 1..(n + c) : (q \o calls)[i] = IF i <= n THEN q[i] ELSE calls[i - n]
    BY <1>1, <1>6, <2>1
  <2>3. t.queue = q \o calls
    BY <1>7 DEF q
  <2>4. \A i \in (n + 1)..(n + c) : i - n \in 1..c /\ i \in 1..(n + c) /\ ~(i <= n)
    BY <1>1, <2>2
  <2>5. \A i \in 1..n : i \in 1..(n + c) /\ i <= n
    BY <1>1, <2>2
  <2> QED
    BY <2>2, <2>3, <2>4, <2>5 DEF q
<1>9. \A i \in 1..c : calls[i] \in requests
  BY <1>2
<1> HIDE DEF c, n
<1>10. \A i, j \in (n + 1)..Len(t.queue) : \A k \in D :
         k \in t.queue[i].slots /\ k \in t.queue[j].slots => i = j
  <2> TAKE i, j \in (n + 1)..Len(t.queue)
  <2> TAKE k \in D
  <2> HAVE k \in t.queue[i].slots /\ k \in t.queue[j].slots
  <2>1. calls[i - n] = calls[j - n]
    BY <1>5, <1>8, <1>9
  <2>2. i - n = j - n
    BY <1>2, <1>6, <1>8, <2>1 DEF Injective
  <2> QED
    BY <1>8, <2>2
<1>11. \A i \in (n + 1)..Len(t.queue) : t.queue[i].op = op /\ t.queue[i].slots \subseteq D
  BY <1>4, <1>8, <1>9
<1>12. Len(t.queue) \in Nat /\ n <= Len(t.queue)
  BY <1>1, <1>8 DEF c
<1> QED
  BY <1>7, <1>8, <1>10, <1>11, <1>12 DEF t, n, OpsAdded

\* Operations that stand where they await `op` enqueue that call, each its own.
LEMMA EnqueueOpOfSome ==
  ASSUME NEW K \in SUBSET Slot, NEW s, AllQuiet(s, K), NEW op \in {"lock", "unlock"},
         NEW D \in SUBSET K, \A k \in D : Awaited(s.job[k].pc) = op
  PROVE  /\ StoreInv(EnqueueOp(s, op, D))
         /\ EnqueueOp(s, op, D).job = s.job /\ EnqueueOp(s, op, D).cur = s.cur
<1> DEFINE t == EnqueueOp(s, op, D)
           n == Len(s.queue)
           m == Len(t.queue)
<1>1. /\ Shape(t) /\ t.job = s.job /\ t.cur = s.cur
      /\ t.queue \in Seq(Calls) /\ n \in Nat /\ m \in Nat /\ n <= m
      /\ \A i \in 1..n : t.queue[i] = s.queue[i]
      /\ \A i \in (n + 1)..m : t.queue[i].op = op /\ t.queue[i].slots \subseteq D
      /\ \A i, j \in (n + 1)..m : \A k \in D :
           k \in t.queue[i].slots /\ k \in t.queue[j].slots => i = j
  <2>1. s.queue \in Seq(Calls) /\ Shape(s) /\ D \in SUBSET Slot
    BY DEF AllQuiet, CallsTyped
  <2>2. OpsAdded(t, s, op, D, n, m)
    BY <2>1, EnqueueOpAdds
  <2> HIDE DEF t, n, m
  <2> QED
    BY <2>2 DEF OpsAdded
<1> HIDE DEF t
<1>2. JobsOK(t) /\ CallsTyped(t)
  BY <1>1 DEF AllQuiet, JobsOK, CallsTyped
<1>3. \A i \in 1..m : i \in 1..n \/ i \in (n + 1)..m
  BY <1>1
<1> HIDE DEF n, m
<1>4. ASSUME NEW k \in K PROVE CallsAwaited(t, k)
  <2>1. ~Queued1(s, k) /\ ~InFlight1(s, k)
    BY DEF AllQuiet
  <2>2. \A i \in 1..m : k \in t.queue[i].slots => k \in D /\ i \in (n + 1)..m
    BY <1>1, <1>3, <2>1 DEF Queued1, n
  <2>3. ~InFlight1(t, k)
    BY <1>1, <2>1 DEF InFlight1
  <2> QED
    BY <1>1, <2>2, <2>3 DEF CallsAwaited, m
<1>5. ASSUME NEW k \in Slot \ K PROVE CallsAwaited(t, k)
  <2>1. CallsAwaited(s, k)
    BY DEF AllQuiet
  <2>2. \A i \in 1..m : k \in t.queue[i].slots => i \in 1..n
    BY <1>1, <1>3
  <2> QED
    BY <1>1, <2>1, <2>2 DEF CallsAwaited, Queued1, InFlight1, n, m
<1> QED
  BY <1>1, <1>2, <1>4, <1>5 DEF StoreInv, t

LEMMA EnqueueOpIsFine ==
  ASSUME NEW k \in Slot, NEW s, Quiet(s, k), NEW op \in {"lock", "unlock"},
         Awaited(s.job[k].pc) = op
  PROVE  /\ StoreInv(EnqueueOp(s, op, {k}))
         /\ EnqueueOp(s, op, {k}).job = s.job
         /\ EnqueueOp(s, op, {k}).cur = s.cur
<1> DEFINE K == {k}
<1>1. /\ K \in SUBSET Slot /\ K \in SUBSET K /\ AllQuiet(s, K)
      /\ \A l \in K : Awaited(s.job[l].pc) = op
  BY DEF Quiet
<1> HIDE DEF K
<1>2. /\ StoreInv(EnqueueOp(s, op, K))
      /\ EnqueueOp(s, op, K).job = s.job /\ EnqueueOp(s, op, K).cur = s.cur
  BY <1>1, EnqueueOpOfSome
<1> QED
  BY <1>2 DEF K

LEMMA EnqueueSyncKeepsRest ==
  ASSUME NEW s, Shape(s), s.queue \in Seq(Calls), NEW slots \in SUBSET Slot
  PROVE  LET t == EnqueueSync(s, slots)
             n == Len(s.queue)
             m == Len(t.queue)
         IN  /\ Shape(t) /\ t.job = s.job /\ t.cur = s.cur
             /\ t.queue \in Seq(Calls) /\ n \in Nat /\ m \in {n, n + 1} /\ m > 0
             /\ \A i \in 1..m : i < m => t.queue[i] = s.queue[i]
             /\ t.queue[m].op = "sync"
             /\ \/ m = n /\ s.queue[m].op = "sync" /\ t.queue[m].slots = s.queue[m].slots \cup slots
                \/ m = n + 1 /\ t.queue[m].slots = slots
<1> DEFINE t == EnqueueSync(s, slots)
           n == Len(s.queue)
           call == [op |-> "sync", slots |-> slots]
<1>1. n \in Nat /\ call \in Calls
  BY DEF Calls
<1>2. CASE n > 0 /\ s.queue[n].op = "sync"
  <2> DEFINE joined == [s.queue[n] EXCEPT !.slots = @ \cup slots]
  <2>1. s.queue[n] \in Calls
    BY <1>2
  <2>2. s.queue[n] \in [op : {"sync"}, slots : SUBSET Slot]
    BY <1>2, <2>1 DEF Calls
  <2>3. joined \in Calls /\ joined.op = "sync" /\ joined.slots = s.queue[n].slots \cup slots
    BY <2>2 DEF Calls
  <2>4. t = [s EXCEPT !.queue = [s.queue EXCEPT ![n] = joined]]
    BY <1>2 DEF EnqueueSync
  <2> HIDE DEF joined, t
  <2>5. Shape(t) /\ t.job = s.job /\ t.cur = s.cur /\ t.queue = [s.queue EXCEPT ![n] = joined]
    BY <2>4 DEF Shape, Fields
  <2>6. t.queue \in Seq(Calls) /\ Len(t.queue) = n
        /\ \A i \in 1..n : t.queue[i] = IF i = n THEN joined ELSE s.queue[i]
    BY <1>1, <1>2, <2>3, <2>5
  <2> QED
    BY <1>1, <1>2, <2>3, <2>5, <2>6 DEF t
<1>3. CASE ~(n > 0 /\ s.queue[n].op = "sync")
  <2>1. t = [s EXCEPT !.queue = Append(@, call)]
    BY <1>3 DEF EnqueueSync
  <2> HIDE DEF t
  <2>2. Shape(t) /\ t.job = s.job /\ t.cur = s.cur /\ t.queue = Append(s.queue, call)
    BY <2>1 DEF Shape, Fields
  <2>3. /\ t.queue \in Seq(Calls) /\ Len(t.queue) = n + 1 /\ t.queue[n + 1] = call
        /\ \A i \in 1..n : t.queue[i] = s.queue[i]
    BY <1>1, <2>2
  <2> QED
    BY <1>1, <2>2, <2>3 DEF t
<1> QED
  BY <1>2, <1>3

\* A sync nobody awaits disturbs nothing.
LEMMA EnqueueSyncOfNone ==
  ASSUME NEW s, Shape(s), JobsOK(s), CallsTyped(s)
  PROVE  /\ StoreInv(s) => StoreInv(EnqueueSync(s, {}))
         /\ \A k \in Slot : Quiet(s, k) => Quiet(EnqueueSync(s, {}), k)
         /\ EnqueueSync(s, {}).job = s.job
         /\ EnqueueSync(s, {}).cur = s.cur
<1> DEFINE t == EnqueueSync(s, {})
           n == Len(s.queue)
           m == Len(t.queue)
<1>1. /\ Shape(t) /\ t.job = s.job /\ t.cur = s.cur
      /\ t.queue \in Seq(Calls) /\ n \in Nat /\ m \in {n, n + 1} /\ m > 0
      /\ \A i \in 1..m : i < m => t.queue[i] = s.queue[i]
      /\ t.queue[m].op = "sync"
      /\ \/ m = n /\ s.queue[m].op = "sync" /\ t.queue[m].slots = s.queue[m].slots \cup {}
         \/ m = n + 1 /\ t.queue[m].slots = {}
  BY EnqueueSyncKeepsRest DEF CallsTyped
<1> HIDE DEF t
<1>2. JobsOK(t) /\ CallsTyped(t)
  BY <1>1 DEF JobsOK, CallsTyped
<1>3. \A i \in 1..m : \A k \in t.queue[i].slots :
        i \in 1..n /\ k \in s.queue[i].slots /\ t.queue[i].op = s.queue[i].op
  BY <1>1
<1>4. ASSUME NEW k \in Slot
      PROVE  /\ CallsAwaited(s, k) => CallsAwaited(t, k)
             /\ Queued1(t, k) => Queued1(s, k)
             /\ InFlight1(t, k) => InFlight1(s, k)
  <2>1. Queued1(t, k) => Queued1(s, k)
    BY <1>3 DEF Queued1
  <2>2. InFlight1(t, k) => InFlight1(s, k)
    BY <1>1 DEF InFlight1
  <2>3. CallsAwaited(s, k) => CallsAwaited(t, k)
    BY <1>1, <1>3, <2>1, <2>2 DEF CallsAwaited
  <2> QED
    BY <2>1, <2>2, <2>3
<1> QED
  BY <1>1, <1>2, <1>4 DEF StoreInv, Quiet, AllQuiet, t

\* An operation that stands where it awaits a sync enqueues one.
LEMMA EnqueueSyncOfOne ==
  ASSUME NEW k \in Slot, NEW s, Quiet(s, k), s.job[k].pc = "syncing"
  PROVE  /\ StoreInv(EnqueueSync(s, {k})) /\ EnqueueSync(s, {k}).job = s.job
         /\ EnqueueSync(s, {k}).cur = s.cur
<1> DEFINE t == EnqueueSync(s, {k})
           n == Len(s.queue)
           m == Len(t.queue)
<1>1. /\ Shape(t) /\ t.job = s.job /\ t.cur = s.cur
      /\ t.queue \in Seq(Calls) /\ n \in Nat /\ m \in {n, n + 1} /\ m > 0
      /\ \A i \in 1..m : i < m => t.queue[i] = s.queue[i]
      /\ t.queue[m].op = "sync"
      /\ \/ m = n /\ s.queue[m].op = "sync" /\ t.queue[m].slots = s.queue[m].slots \cup {k}
         \/ m = n + 1 /\ t.queue[m].slots = {k}
  <2>1. Shape(s) /\ s.queue \in Seq(Calls) /\ {k} \in SUBSET Slot
    BY DEF Quiet, AllQuiet, CallsTyped
  <2> QED
    BY <2>1, EnqueueSyncKeepsRest, ZenonT(60)
<1> HIDE DEF t
<1>2. JobsOK(t) /\ CallsTyped(t)
  BY <1>1 DEF Quiet, AllQuiet, JobsOK, CallsTyped
<1>3. \A i \in 1..m : k \in t.queue[i].slots => i = m
  BY <1>1 DEF Quiet, AllQuiet, Queued1
<1>4. Awaited(t.job[k].pc) = "sync"
  BY <1>1 DEF Awaited
<1>5. CallsAwaited(t, k)
  BY <1>1, <1>3, <1>4 DEF Quiet, AllQuiet, CallsAwaited, InFlight1
<1>6. ASSUME NEW l \in Slot \ {k} PROVE CallsAwaited(t, l)
  <2>1. CallsAwaited(s, l)
    BY DEF Quiet, AllQuiet
  <2>2. \A i \in 1..m : l \in t.queue[i].slots =>
          i \in 1..n /\ l \in s.queue[i].slots /\ t.queue[i].op = s.queue[i].op
    BY <1>1, SMTT(30)
  <2> QED
    BY <1>1, <2>1, <2>2 DEF CallsAwaited, Queued1, InFlight1
<1> QED
  BY <1>1, <1>2, <1>5, <1>6 DEF StoreInv, t

-----------------------------------------------------------------------------
(* The steps of a store that no operation awaits.                          *)

Basic(s) == Shape(s) /\ JobsOK(s) /\ CallsTyped(s)

Harmless(t, s) ==
  /\ Basic(t) /\ t.job = s.job /\ t.cur = s.cur
  /\ StoreInv(s) => StoreInv(t)
  /\ \A k \in Slot : Quiet(s, k) => Quiet(t, k)

LEMMA HarmlessTwice ==
  ASSUME NEW s, NEW t, NEW u, Harmless(t, s), Harmless(u, t)
  PROVE  Harmless(u, s)
BY DEF Harmless

LEMMA SameIsHarmless ==
  ASSUME NEW s, NEW t, Basic(s), SameCalls(t, s)
  PROVE  Harmless(t, s)
<1>1. Basic(t) /\ t.job = s.job /\ t.cur = s.cur
  BY DEF SameCalls, Basic, JobsOK, CallsTyped
<1>2. StoreInv(s) => StoreInv(t)
  BY DEF SameCalls, StoreInv, JobsOK, CallsTyped, CallsAwaited, Queued1, InFlight1
<1>3. \A k \in Slot : Quiet(s, k) => Quiet(t, k)
  BY SameIsFine
<1> QED
  BY <1>1, <1>2, <1>3 DEF Harmless

LEMMA SyncIsHarmless ==
  ASSUME NEW s, Basic(s)
  PROVE  Harmless(EnqueueSync(s, {}), s)
<1> DEFINE t == EnqueueSync(s, {})
<1>1. s.queue \in Seq(Calls) /\ Shape(s)
  BY DEF Basic, CallsTyped
<1>2. Shape(t) /\ t.job = s.job /\ t.cur = s.cur /\ t.queue \in Seq(Calls)
  BY <1>1, EnqueueSyncKeepsRest
<1> HIDE DEF t
<1>3. Basic(t)
  BY <1>2 DEF Basic, JobsOK, CallsTyped
<1> QED
  BY <1>2, <1>3, EnqueueSyncOfNone DEF Basic, Harmless, t

LEMMA RetryIsHarmless ==
  ASSUME NEW s, Basic(s), NEW locked
  PROVE  Harmless(ScheduleRetry(s, locked), s)
<1> DEFINE t == [s EXCEPT !.attempts = @ + 1]
           waiting == [t EXCEPT !.retry = TRUE]
<1>1. SameCalls(s, s) /\ SameCalls(t, s) /\ SameCalls(waiting, s)
  BY DEF SameCalls, Basic, Shape, Fields
<1>2. Basic(t)
  BY <1>1, SameIsHarmless DEF Harmless
<1>3. ScheduleRetry(s, locked) \in {s, t, waiting, EnqueueSync(t, {})}
  BY DEF ScheduleRetry
<1> HIDE DEF t, waiting
<1>4. Harmless(s, s) /\ Harmless(t, s) /\ Harmless(waiting, s)
  BY <1>1, SameIsHarmless
<1>5. Harmless(EnqueueSync(t, {}), s)
  BY <1>2, <1>4, SyncIsHarmless, HarmlessTwice
<1> QED
  BY <1>3, <1>4, <1>5

LEMMA AnswerIsHarmless ==
  ASSUME NEW s, Basic(s), NEW call, NEW snap
  PROVE  Harmless(SyncAnswered(s, call, snap), s) /\ Harmless(SyncFailed(s, call), s)
<1> DEFINE fresh == [s EXCEPT !.ver = snap.version]
           published == [fresh EXCEPT !.unpub = @ \ IdsOf(call.refs), !.attempts = 0,
                                      !.retry = FALSE]
           read == [fresh EXCEPT !.synced = snap.refs]
           adopted == ReconcileRefs(read, snap.refs)
<1>1. SameCalls(published, s) /\ SameCalls(read, s) /\ SameCalls(SyncFailed(s, call), s)
  BY DEF SyncFailed, SameCalls, Basic, Shape, Fields
<1>2. SyncAnswered(s, call, snap) \in {published, ScheduleRetry(adopted, snap.since # 0)}
  BY DEF SyncAnswered
<1> HIDE DEF published, read
<1>3. Harmless(published, s) /\ Harmless(read, s) /\ Harmless(SyncFailed(s, call), s)
  BY <1>1, SameIsHarmless
<1>4. Basic(read) /\ Shape(read)
  BY <1>3 DEF Harmless, Basic
<1>5. SameCalls(adopted, read)
  BY <1>4, ReconcileKeepsCalls
<1> HIDE DEF adopted
<1>6. Harmless(adopted, read) /\ Basic(adopted)
  BY <1>4, <1>5, SameIsHarmless DEF Harmless
<1>7. Harmless(ScheduleRetry(adopted, snap.since # 0), s)
  BY <1>3, <1>6, RetryIsHarmless, HarmlessTwice
<1> QED
  BY <1>2, <1>3, <1>7

LEMMA EventIsHarmless ==
  ASSUME NEW s, Basic(s), NEW snap, NEW gone
  PROVE  Harmless(HandleExternalUpdate(s, snap, gone), s)
<1> DEFINE fresh == [s EXCEPT !.ver = snap.version]
           cleared == [fresh EXCEPT !.retry = FALSE]
           retried == IF s.retry /\ gone THEN EnqueueSync(cleared, {}) ELSE fresh
           read == [retried EXCEPT !.synced = snap.refs]
<1>1. SameCalls(s, s) /\ SameCalls(fresh, s) /\ SameCalls(cleared, s)
  BY DEF SameCalls, Basic, Shape, Fields
<1>2. HandleExternalUpdate(s, snap, gone) \in {s, retried, ReconcileRefs(read, snap.refs)}
  BY DEF HandleExternalUpdate
<1> HIDE DEF fresh, cleared
<1>3. Harmless(s, s) /\ Harmless(fresh, s) /\ Harmless(cleared, s) /\ Basic(cleared)
  BY <1>1, SameIsHarmless DEF Harmless
<1>4. Harmless(EnqueueSync(cleared, {}), s)
  BY <1>3, SyncIsHarmless, HarmlessTwice
<1>5. Harmless(retried, s)
  BY <1>3, <1>4
<1> HIDE DEF retried
<1>6. Basic(retried)
  BY <1>5 DEF Harmless
<1>7. SameCalls(read, retried)
  BY <1>6 DEF SameCalls, Basic, Shape, Fields
<1> HIDE DEF read
<1>8. Harmless(read, s) /\ Basic(read)
  BY <1>5, <1>6, <1>7, SameIsHarmless, HarmlessTwice DEF Harmless
<1>9. Harmless(ReconcileRefs(read, snap.refs), s)
  <2>1. SameCalls(ReconcileRefs(read, snap.refs), read)
    BY <1>8, ReconcileKeepsCalls DEF Basic
  <2>2. Harmless(ReconcileRefs(read, snap.refs), read)
    BY <1>8, <2>1, SameIsHarmless
  <2> QED
    BY <1>8, <2>2, HarmlessTwice
<1> QED
  BY <1>2, <1>3, <1>5, <1>9

-----------------------------------------------------------------------------
(* The ends of what an operation awaits.                                   *)

\* An awaited sync is over for all that awaited it: some delete a file, the
\* others ask for the release of the lock.
MovedOn(t, s, K) ==
  /\ t.cur = s.cur
  /\ \A k \in K : /\ t.job[k].op = s.job[k].op /\ t.job[k].id = s.job[k].id
                  /\ t.job[k].pc = IF s.job[k].op = "remove" THEN "deleting" ELSE "unlocking"
  /\ \A l \in Slot \ K : t.job[l] = s.job[l]

LEMMA SettledForSome ==
  ASSUME NEW K \in SUBSET Slot, NEW s, AllQuiet(s, K), \A k \in K : s.job[k].pc = "syncing"
  PROVE  StoreInv(SyncSettled(s, K)) /\ MovedOn(SyncSettled(s, K), s, K)
<1> DEFINE D == {k \in K : s.job[k].op = "remove"}
           U == K \ D
           d == SetPc(s, D, "deleting")
           u == SetPc(d, U, "unlocking")
           t == EnqueueOp(u, "unlock", U)
<1>1. SyncSettled(s, K) = t
  BY DEF SyncSettled
<1>2. \A k \in K : IsJob(s.job[k])
  BY DEF AllQuiet, JobsOK, NoJob
<1>3. D \in SUBSET K /\ U \in SUBSET K
  OBVIOUS
<1>4. /\ AllQuiet(d, K) /\ d.cur = s.cur
      /\ \A k \in D : IsJob(d.job[k]) /\ d.job[k] = [s.job[k] EXCEPT !.pc = "deleting"]
      /\ \A l \in Slot \ D : d.job[l] = s.job[l]
  <2> HIDE DEF D
  <2>1. "deleting" \in Pcs \ {"locking"} /\ \A k \in D : IsJob(s.job[k])
    BY <1>2, <1>3 DEF Pcs
  <2>2. AllQuiet(d, K) /\ PcMoved(d, s, D, "deleting")
    BY <1>3, <2>1, SetPcOfSome
  <2> QED
    BY <2>2 DEF PcMoved
<1> HIDE DEF d
<1>5. \A k \in U : IsJob(d.job[k]) /\ d.job[k] = s.job[k]
  BY <1>2, <1>4
<1>6. /\ AllQuiet(u, K) /\ u.cur = d.cur
      /\ \A k \in U : IsJob(u.job[k]) /\ u.job[k] = [d.job[k] EXCEPT !.pc = "unlocking"]
      /\ \A l \in Slot \ U : u.job[l] = d.job[l]
  <2> HIDE DEF U
  <2>1. "unlocking" \in Pcs \ {"locking"}
    BY DEF Pcs
  <2>2. AllQuiet(u, K) /\ PcMoved(u, d, U, "unlocking")
    BY <1>3, <1>4, <1>5, <2>1, SetPcOfSome
  <2> QED
    BY <2>2 DEF PcMoved
<1> HIDE DEF u
<1>7. \A k \in U : u.job[k].pc = "unlocking" /\ u.job[k].op = s.job[k].op
                  /\ u.job[k].id = s.job[k].id
  <2> TAKE k \in U
  <2>1. IsJob(d.job[k]) /\ d.job[k] = s.job[k] /\ u.job[k] = [d.job[k] EXCEPT !.pc = "unlocking"]
    BY <1>5, <1>6
  <2> HIDE DEF U
  <2> QED
    BY <2>1 DEF IsJob
<1>8. StoreInv(t) /\ t.job = u.job /\ t.cur = u.cur
  <2>1. \A k \in U : Awaited(u.job[k].pc) = "unlock"
    BY <1>7 DEF Awaited
  <2> HIDE DEF U
  <2> QED
    BY <1>3, <1>6, <2>1, EnqueueOpOfSome
<1> HIDE DEF t
<1>9. \A k \in D : /\ u.job[k].pc = "deleting" /\ u.job[k].op = s.job[k].op
                   /\ u.job[k].id = s.job[k].id
  <2> TAKE k \in D
  <2>1. IsJob(s.job[k]) /\ d.job[k] = [s.job[k] EXCEPT !.pc = "deleting"] /\ k \in Slot \ U
    BY <1>2, <1>4
  <2>2. u.job[k] = d.job[k]
    BY <1>6, <2>1
  <2> QED
    BY <2>1, <2>2 DEF IsJob
<1>10. \A l \in Slot \ K : u.job[l] = s.job[l]
  BY <1>4, <1>6
<1> QED
  BY <1>1, <1>4, <1>6, <1>7, <1>8, <1>9, <1>10 DEF MovedOn

LEMMA CreationIsQuiet ==
  ASSUME NEW k \in Slot, NEW s, Quiet(s, k), IsJob(s.job[k])
  PROVE  /\ Quiet(CreateWorkspace(s, k), k)
         /\ CreateWorkspace(s, k).job[k] = [s.job[k] EXCEPT !.pc = "writing"]
         /\ CreateWorkspace(s, k).cur = s.cur
         /\ OthersStay(CreateWorkspace(s, k), s, k)
<1> DEFINE id == s.job[k].id
           shown == PutLoaded(s, id)
           t == [shown EXCEPT !.unpub = @ \cup {id}, !.attempts = 0]
<1>1. SameCalls(shown, s)
  BY EntriesKeepCalls DEF Quiet, AllQuiet
<1> HIDE DEF shown
<1>2. SameCalls(t, s)
  BY <1>1 DEF SameCalls, Shape, Fields
<1>3. CreateWorkspace(s, k) = SetPc(t, {k}, "writing")
  BY DEF CreateWorkspace, shown
<1> HIDE DEF t
<1>4. Quiet(t, k) /\ t.job = s.job /\ t.cur = s.cur
  BY <1>2, SameIsFine DEF SameCalls
<1>5. IsJob(t.job[k])
  BY <1>4
<1>6. Quiet(SetPc(t, {k}, "writing"), k)
      /\ SetPc(t, {k}, "writing").cur = t.cur
      /\ SetPc(t, {k}, "writing").job[k] = [t.job[k] EXCEPT !.pc = "writing"]
      /\ OthersStay(SetPc(t, {k}, "writing"), t, k)
  BY <1>4, <1>5, SetPcIsQuiet, SMTT(30) DEF Pcs
<1> QED
  BY <1>3, <1>4, <1>6 DEF OthersStay

LEMMA GrantIsQuiet ==
  ASSUME NEW k \in Slot, NEW s, Quiet(s, k), IsJob(s.job[k]),
         s.job[k].op # "root", NEW snap
  PROVE  LET t == LockGranted(s, k, snap)
         IN  StoreInv(t) /\ t.cur = s.cur /\ OthersStay(t, s, k)
<1> DEFINE fresh == [s EXCEPT !.ver = snap.version]
           held == SetPc(fresh, {k}, "working")
<1>1. SameCalls(fresh, s)
  BY DEF SameCalls, Quiet, AllQuiet, Shape, Fields
<1>2. LockGranted(s, k, snap) \in {held, CreateWorkspace(held, k), PutLoaded(held, s.job[k].id)}
  <2>1. s.job[k].op \in {"child", "adopt", "remove"}
    BY DEF IsJob, Kinds
  <2>2. CASE s.job[k].op = "child"
    BY <2>2 DEF LockGranted
  <2>3. CASE s.job[k].op = "adopt"
    BY <2>3 DEF LockGranted
  <2>4. CASE s.job[k].op = "remove"
    BY <2>4 DEF LockGranted
  <2> QED
    BY <2>1, <2>2, <2>3, <2>4
<1> HIDE DEF fresh
<1>3. Quiet(fresh, k) /\ fresh.job = s.job /\ fresh.cur = s.cur
  BY <1>1, SameIsFine DEF SameCalls
<1>4. /\ Quiet(held, k) /\ held.job[k] = [fresh.job[k] EXCEPT !.pc = "working"]
      /\ held.cur = s.cur /\ OthersStay(held, s, k)
  <2>1. IsJob(fresh.job[k])
    BY <1>3
  <2>2. OthersStay(held, fresh, k)
    BY <1>3, <2>1, SetPcIsQuiet DEF Pcs
  <2> QED
    BY <1>3, <2>1, <2>2, SetPcIsQuiet, SMTT(30) DEF Pcs, OthersStay
<1> HIDE DEF held
<1>5. IsJob(held.job[k])
  BY <1>3, <1>4 DEF IsJob, Pcs
<1> DEFINE c == CreateWorkspace(held, k)
           p == PutLoaded(held, s.job[k].id)
<1>6. Quiet(c, k) /\ c.cur = held.cur /\ OthersStay(c, held, k)
  BY <1>4, <1>5, CreationIsQuiet
<1>7. SameCalls(p, held)
  BY <1>4, EntriesKeepCalls DEF Quiet, AllQuiet
<1> HIDE DEF c, p
<1>8. Quiet(p, k) /\ p.cur = held.cur /\ p.job = held.job
  BY <1>4, <1>7, SameIsFine DEF SameCalls
<1>9. \A t \in {held, c, p} : StoreInv(t) /\ t.cur = s.cur /\ OthersStay(t, s, k)
  BY <1>4, <1>6, <1>8, QuietIsFine DEF OthersStay
<1> QED
  BY <1>2, <1>9 DEF c, p

LEMMA RefusalIsQuiet ==
  ASSUME NEW k \in Slot, NEW s, Quiet(s, k), IsJob(s.job[k]),
         s.job[k].op # "root"
  PROVE  LET t == LockRefused(s, k)
         IN  /\ StoreInv(t) /\ ~Held(t, k) /\ t.cur = s.cur
             /\ t.job[k] = NoJob /\ OthersStay(t, s, k)
<1> DEFINE over == EndJob(s, k)
           id == s.job[k].id
<1>1. /\ Quiet(over, k) /\ ~Held(over, k) /\ over.cur = s.cur
      /\ over.job[k] = NoJob /\ OthersStay(over, s, k)
  BY EndJobIsQuiet
<1>2. LockRefused(s, k) \in {over, PutPlaceholder(over, id), PutLoaded(over, id)}
  <2>1. s.job[k].op \in {"child", "adopt", "remove"}
    BY DEF IsJob, Kinds
  <2>2. CASE s.job[k].op = "child"
    BY <2>2 DEF LockRefused
  <2>3. CASE s.job[k].op = "adopt"
    BY <2>3 DEF LockRefused
  <2>4. CASE s.job[k].op = "remove"
    BY <2>4 DEF LockRefused
  <2> QED
    BY <2>1, <2>2, <2>3, <2>4
<1> HIDE DEF over
<1>3. SameCalls(PutPlaceholder(over, id), over) /\ SameCalls(PutLoaded(over, id), over)
  BY <1>1, EntriesKeepCalls DEF Quiet, AllQuiet
<1>4. \A t \in {over, PutPlaceholder(over, id), PutLoaded(over, id)} :
        /\ Quiet(t, k) /\ ~Held(t, k) /\ t.cur = s.cur
        /\ t.job[k] = NoJob /\ OthersStay(t, s, k)
  BY <1>1, <1>3, SameIsFine DEF SameCalls, OthersStay
<1> QED
  BY <1>2, <1>4, QuietIsFine

-----------------------------------------------------------------------------
(* The invariant.                                                          *)

AnswerFields == {"stage", "snap", "sender", "ok"}
Answer(a) ==
  \/ a = Idle
  \/ DOMAIN a = AnswerFields /\ a = [f \in AnswerFields |-> a[f]] /\ a.stage # "idle"

Tasks ==
  /\ DOMAIN task = Task \cup {Heartbeat}
  /\ task = [t \in Task \cup {Heartbeat} |-> task[t]]
  /\ \A t \in Task \cup {Heartbeat} : Answer(task[t])

\* The lock is with window w, or the operation of slot k has lost it.
Kept(w, k) == lock.holder = w \/ <<w, k>> \in lapsed

\* The daemon serves a window's call in flight, and what it granted is held.
ServedFor(w) ==
  task[w] # Idle =>
    /\ win[w].cur # NoCall
    /\ win[w].cur.op = "lock" /\ task[w].ok => \A k \in win[w].cur.slots : Kept(w, k)

Stores ==
  /\ DOMAIN win = Window /\ win = [w \in Window |-> win[w]]
  /\ \A w \in Window : StoreInv(win[w])

LockInv == Stores /\ Tasks /\ (\A w \in Window : ServedFor(w)) /\ LockHeld

LEMMA HeldIsHoldsLock ==
  ASSUME LockInv, NEW w \in Window, NEW k \in Slot, Held(win[w], k)
  PROVE  Kept(w, k)
BY DEF LockInv, LockHeld, HoldsLock, Held, Kept

LEMMA InvInit == RefInit => LockInv
<1> SUFFICES ASSUME RefInit PROVE LockInv
  OBVIOUS
<1>1. \A w \in Window : win[w] = EmptyStore
  BY DEF RefInit
<1>2. StoreInv(EmptyStore)
  <2>1. Shape(EmptyStore)
    BY DEF Shape, Fields, EmptyStore
  <2>2. JobsOK(EmptyStore)
    BY DEF JobsOK, EmptyStore, NoJob
  <2>3. EmptyStore.queue = <<>> /\ EmptyStore.cur = NoCall
    BY DEF EmptyStore
  <2>4. CallsTyped(EmptyStore) /\ \A k \in Slot : CallsAwaited(EmptyStore, k)
    BY <2>3 DEF CallsTyped, CallsAwaited, InFlight1, Queued1
  <2> QED
    BY <2>1, <2>2, <2>4 DEF StoreInv
<1>3. Stores
  BY <1>1, <1>2 DEF Stores, RefInit
<1>4. Tasks /\ \A w \in Window : task[w] = Idle
  BY RefSyncAssumption DEF Tasks, Answer, RefInit, Init, Window
<1>5. LockHeld
  BY <1>1 DEF LockHeld, HoldsLock, EmptyStore, NoJob
<1> QED
  BY <1>3, <1>4, <1>5 DEF LockInv, ServedFor

\* What is recorded of lost locks stays, but for an operation that starts.
Remembered(w, t) ==
  \/ lapsed' = lapsed
  \/ \E k \in Slot : Quiet(win[w], k) /\ ~Held(t, k) /\ lapsed' = lapsed \ {<<w, k>>}

\* A step of one window that leaves the lock alone.
LEMMA WindowKeeps ==
  ASSUME LockInv, NEW w \in Window, NEW t, StoreInv(t), win' = [win EXCEPT ![w] = t],
         lock' = lock, task' \in {task, [task EXCEPT ![w] = Idle]},
         task'[w] # Idle => t.cur = win[w].cur, Remembered(w, t),
         \A k \in Slot : Held(t, k) => Held(win[w], k) \/ Kept(w, k)
  PROVE  LockInv'
<1>1. win'[w] = t /\ \A v \in Window : v # w => win'[v] = win[v]
  BY DEF LockInv, Stores
<1>2. Stores'
  <2>1. \A v \in Window : StoreInv(win'[v])
    BY <1>1 DEF LockInv, Stores
  <2>2. DOMAIN win' = Window /\ win' = [v \in Window |-> win'[v]]
    BY DEF LockInv, Stores
  <2> QED
    BY <2>1, <2>2 DEF Stores, StoreInv, Shape, JobsOK, CallsTyped, CallsAwaited,
                     Queued1, InFlight1, IsJob
<1>3. /\ \A v \in Task \cup {Heartbeat} : v # w => task'[v] = task[v]
      /\ DOMAIN task' = Task \cup {Heartbeat}
      /\ task' = [u \in Task \cup {Heartbeat} |-> task'[u]]
  BY DEF LockInv, Tasks
<1>4. Window \subseteq Task \cup {Heartbeat} /\ task'[w] \in {Idle, task[w]}
  <2>1. Window \subseteq Task \cup {Heartbeat}
    BY RefSyncAssumption DEF Window
  <2> QED
    BY <2>1 DEF LockInv, Tasks
<1>5. Tasks'
  BY <1>3, <1>4, SMTT(30) DEF LockInv, Tasks, Answer
<1>6. ASSUME NEW v \in Window, NEW k \in Slot, Kept(v, k), v = w => Held(t, k) \/ ~Quiet(win[w], k)
      PROVE  Kept(v, k)'
  BY <1>6 DEF Kept, Remembered
<1>7. ASSUME NEW v \in Window PROVE ServedFor(v)'
  <2> SUFFICES ASSUME task'[v] # Idle
               PROVE  /\ win'[v].cur # NoCall
                      /\ win'[v].cur.op = "lock" /\ task'[v].ok
                           => \A k \in win'[v].cur.slots : Kept(v, k)'
    BY DEF ServedFor
  <2>1. task'[v] = task[v] /\ task[v] # Idle /\ win'[v].cur = win[v].cur
    BY <1>1, <1>3, <1>4
  <2>2. /\ win[v].cur # NoCall
        /\ win[v].cur.op = "lock" /\ task[v].ok => \A k \in win[v].cur.slots : Kept(v, k)
    BY <2>1 DEF LockInv, ServedFor
  <2>3. \A k \in win[v].cur.slots : k \in Slot /\ ~Quiet(win[v], k)
    <3>1. StoreInv(win[v])
      BY DEF LockInv, Stores
    <3> QED
      BY <2>2, <3>1 DEF StoreInv, CallsTyped, Quiet, AllQuiet, InFlight1
  <2> QED
    BY <1>6, <2>1, <2>2, <2>3
<1>8. LockHeld'
  <2> SUFFICES ASSUME NEW v \in Window, NEW k \in Slot, HoldsLock(v, k)'
               PROVE  Kept(v, k)'
    BY DEF LockHeld, Kept
  <2>1. Kept(v, k) /\ (v = w => Held(t, k))
    BY <1>1, HeldIsHoldsLock DEF HoldsLock, Held
  <2> QED
    BY <1>6, <2>1
<1> QED
  BY <1>2, <1>5, <1>7, <1>8 DEF LockInv

\* The same for a step that touches no call in flight.
LEMMA OperationKeeps ==
  ASSUME LockInv, NEW w \in Window, NEW k \in Slot, NEW t, StoreInv(t),
         t.cur = win[w].cur, win' = [win EXCEPT ![w] = t], lock' = lock, task' = task,
         Remembered(w, t), OthersStay(t, win[w], k), Held(t, k) => Held(win[w], k)
  PROVE  LockInv'
<1>1. \A l \in Slot : Held(t, l) => Held(win[w], l)
  BY DEF OthersStay, Held
<1> QED
  BY <1>1, WindowKeeps

-----------------------------------------------------------------------------
(* User operations.                                                        *)

LEMMA QuietOperation ==
  ASSUME LockInv, NEW w \in Window, NEW k \in Slot,
         win[w].job[k].pc \in {"none", "working", "writing", "deleting"}
  PROVE  Quiet(win[w], k)
BY FineIsQuiet DEF LockInv, Stores, Awaited

LEMMA BusyIsJob ==
  ASSUME LockInv, NEW w \in Window, NEW k \in Slot, win[w].job[k].pc # "none"
  PROVE  IsJob(win[w].job[k])
<1>1. win[w].job[k] = NoJob \/ IsJob(win[w].job[k])
  BY DEF LockInv, Stores, StoreInv, JobsOK
<1> QED
  BY <1>1 DEF NoJob

LEMMA NewJobIsQuiet ==
  ASSUME NEW k \in Slot, NEW s, Quiet(s, k), NEW op \in Kinds, NEW id,
         NEW pc \in Pcs, pc = "locking" => op # "root"
  PROVE  LET j == [op |-> op, id |-> id, pc |-> pc]
             t == [s EXCEPT !.job[k] = j]
         IN  /\ Quiet(t, k) /\ t.job[k] = j /\ t.cur = s.cur
             /\ OthersStay(t, s, k)
<1> DEFINE j == [op |-> op, id |-> id, pc |-> pc]
           t == [s EXCEPT !.job[k] = j]
<1>1. IsJob(j) /\ j.op = op /\ j.pc = pc
  BY DEF IsJob
<1> HIDE DEF j
<1>2. t.job = [s.job EXCEPT ![k] = j] /\ t.queue = s.queue /\ t.cur = s.cur /\ Shape(t)
  BY DEF Quiet, AllQuiet, Shape, Fields
<1> HIDE DEF t
<1>3. t.job[k] = j /\ \A l \in Slot \ {k} : t.job[l] = s.job[l]
  BY <1>2 DEF Quiet, AllQuiet, JobsOK
<1>4. JobsOK(t)
  BY <1>1, <1>2, <1>3 DEF Quiet, AllQuiet, JobsOK
<1>5. \A l \in Slot \ {k} : CallsAwaited(t, l)
  BY <1>2, <1>3 DEF Quiet, AllQuiet, CallsAwaited, Queued1, InFlight1
<1>6. Quiet(t, k)
  BY <1>2, <1>4, <1>5 DEF Quiet, AllQuiet, CallsTyped, Queued1, InFlight1
<1> QED
  BY <1>2, <1>3, <1>6 DEF j, t, OthersStay

LEMMA HarmlessKeeps ==
  ASSUME LockInv, NEW w \in Window, NEW t, Harmless(t, win[w]),
         win' = [win EXCEPT ![w] = t], lock' = lock, task' = task, lapsed' = lapsed
  PROVE  LockInv'
<1>1. StoreInv(t)
  BY DEF LockInv, Stores, Harmless
<1>2. /\ t.cur = win[w].cur /\ Remembered(w, t)
      /\ \A k \in Slot : Held(t, k) => Held(win[w], k)
  BY DEF Harmless, Held, Remembered
<1> QED
  BY <1>1, <1>2, WindowKeeps

\* A request for the lock, from an operation that stands at "locking".
LEMMA LockRequestIsFine ==
  ASSUME NEW k \in Slot, NEW s, Quiet(s, k), s.job[k].pc = "locking"
  PROVE  LET t == EnqueueOp(s, "lock", {k})
         IN  StoreInv(t) /\ ~Held(t, k) /\ t.cur = s.cur /\ OthersStay(t, s, k)
<1>1. Awaited(s.job[k].pc) = "lock"
  BY DEF Awaited
<1> QED
  BY <1>1, EnqueueOpIsFine DEF Held, OthersStay

LEMMA AddKeeps ==
  ASSUME LockInv, NEW w \in Window, NEW k \in Slot, AddWorkspace(w, k)
  PROVE  LockInv'
<1>1. PICK op \in Operations[w] \cap {"root", "child", "adopt"}, id \in Id \ used :
        LET job == [op |-> op, id |-> id, pc |-> IF op = "root" THEN "working" ELSE "locking"]
            begun == [Store(w) EXCEPT !.job[k] = job]
            shown == IF op = "adopt" THEN begun ELSE PutPlaceholder(begun, id)
        IN  /\ Store(w).job[k] = NoJob
            /\ Begin(w)
            /\ used' = used \cup {id}
            /\ lapsed' = lapsed \ {<<w, k>>}
            /\ Update(w, IF op = "root" THEN shown ELSE EnqueueOp(shown, "lock", {k}))
            /\ UNCHANGED retired
  BY DEF AddWorkspace
<1> DEFINE pc == IF op = "root" THEN "working" ELSE "locking"
           begun == [win[w] EXCEPT !.job[k] = [op |-> op, id |-> id, pc |-> pc]]
           shown == IF op = "adopt" THEN begun ELSE PutPlaceholder(begun, id)
           t == IF op = "root" THEN shown ELSE EnqueueOp(shown, "lock", {k})
<1>2. /\ win[w].job[k] = NoJob /\ win' = [win EXCEPT ![w] = t]
      /\ lock' = lock /\ task' = task /\ lapsed' = lapsed \ {<<w, k>>}
  BY <1>1 DEF Begin, Update, Store, vars
<1>3. Quiet(win[w], k)
  BY <1>2, QuietOperation DEF NoJob
<1>4. pc \in Pcs /\ op \in Kinds /\ (pc = "locking" <=> op # "root")
  BY DEF Pcs, Kinds
<1> HIDE DEF pc
<1>5. /\ Quiet(begun, k) /\ begun.job[k] = [op |-> op, id |-> id, pc |-> pc]
      /\ begun.cur = win[w].cur /\ OthersStay(begun, win[w], k)
  BY <1>3, <1>4, NewJobIsQuiet
<1> HIDE DEF begun
<1>6. /\ Quiet(shown, k) /\ shown.job[k] = [op |-> op, id |-> id, pc |-> pc]
      /\ shown.cur = win[w].cur /\ OthersStay(shown, win[w], k)
  <2>1. SameCalls(PutPlaceholder(begun, id), begun)
    BY <1>5, EntriesKeepCalls DEF Quiet, AllQuiet
  <2> QED
    BY <1>5, <2>1, SameIsFine DEF SameCalls, OthersStay
<1> HIDE DEF shown
<1>7. shown.job[k].op = op /\ shown.job[k].pc = pc
  BY <1>6
<1>8. /\ StoreInv(t) /\ (Held(t, k) => op = "root" /\ t = shown)
      /\ t.cur = win[w].cur /\ OthersStay(t, win[w], k)
  <2>1. CASE op = "root"
    BY <1>6, <2>1, QuietIsFine
  <2>2. CASE op # "root"
    <3>1. shown.job[k].pc = "locking"
      BY <1>4, <1>7, <2>2
    <3> QED
      BY <1>6, <2>2, <3>1, LockRequestIsFine DEF OthersStay
  <2> QED
    BY <2>1, <2>2
<1>9. ~Held(t, k)
  BY <1>7, <1>8 DEF Held
<1> HIDE DEF t
<1>10. Remembered(w, t)
  BY <1>2, <1>3, <1>9 DEF Remembered
<1> QED
  BY <1>2, <1>8, <1>9, <1>10, OperationKeeps

LEMMA RemoveKeeps ==
  ASSUME LockInv, NEW w \in Window, NEW k \in Slot, RemoveWorkspace(w, k)
  PROVE  LockInv'
<1>1. PICK id \in Store(w).loaded :
        LET job == [op |-> "remove", id |-> id, pc |-> "locking"]
        IN  /\ Store(w).job[k] = NoJob /\ Begin(w) /\ lapsed' = lapsed \ {<<w, k>>}
            /\ Update(w, EnqueueOp([Store(w) EXCEPT !.job[k] = job], "lock", {k}))
  BY DEF RemoveWorkspace
<1> DEFINE begun == [win[w] EXCEPT !.job[k] = [op |-> "remove", id |-> id, pc |-> "locking"]]
           t == EnqueueOp(begun, "lock", {k})
<1>2. /\ win[w].job[k] = NoJob /\ win' = [win EXCEPT ![w] = t]
      /\ lock' = lock /\ task' = task /\ lapsed' = lapsed \ {<<w, k>>}
  BY <1>1 DEF Begin, Update, Store, vars
<1>3. Quiet(win[w], k)
  BY <1>2, QuietOperation DEF NoJob
<1>4. /\ Quiet(begun, k) /\ begun.job[k] = [op |-> "remove", id |-> id, pc |-> "locking"]
      /\ begun.cur = win[w].cur /\ OthersStay(begun, win[w], k)
  <2>1. "remove" \in Kinds /\ "locking" \in Pcs /\ "remove" # "root"
    BY DEF Kinds, Pcs
  <2> QED
    BY <1>3, <2>1, NewJobIsQuiet
<1> HIDE DEF begun
<1>5. begun.job[k].pc = "locking"
  BY <1>4
<1>6. StoreInv(t) /\ ~Held(t, k) /\ t.cur = win[w].cur /\ OthersStay(t, win[w], k)
  BY <1>4, <1>5, LockRequestIsFine DEF OthersStay
<1> HIDE DEF t
<1>7. Remembered(w, t)
  BY <1>2, <1>3, <1>6 DEF Remembered
<1> QED
  BY <1>2, <1>6, <1>7, OperationKeeps

LEMMA DismissKeeps ==
  ASSUME LockInv, NEW w \in Window, DismissWorkspace(w)
  PROVE  LockInv'
<1>1. PICK id : Begin(w) /\ Update(w, DeleteEntry(Store(w), id)) /\ lapsed' = lapsed
  BY DEF DismissWorkspace
<1> DEFINE t == DeleteEntry(win[w], id)
<1>2. win' = [win EXCEPT ![w] = t] /\ lock' = lock /\ task' = task /\ lapsed' = lapsed
  BY <1>1 DEF Begin, Update, Store, vars
<1>3. Basic(win[w])
  BY DEF LockInv, Stores, StoreInv, Basic
<1>4. Harmless(t, win[w])
  BY <1>3, EntriesKeepCalls, SameIsHarmless DEF Basic
<1> HIDE DEF t
<1> QED
  BY <1>2, <1>4, HarmlessKeeps

\* An operation gives the lock back, asks for a sync, or is over.
LEMMA UnlockRequestIsFine ==
  ASSUME NEW k \in Slot, NEW s, Quiet(s, k), IsJob(s.job[k])
  PROVE  LET t == EnqueueOp(SetPc(s, {k}, "unlocking"), "unlock", {k})
         IN  StoreInv(t) /\ ~Held(t, k) /\ t.cur = s.cur /\ OthersStay(t, s, k)
<1> DEFINE u == SetPc(s, {k}, "unlocking")
           t == EnqueueOp(u, "unlock", {k})
<1>1. /\ Quiet(u, k) /\ u.job[k] = [s.job[k] EXCEPT !.pc = "unlocking"] /\ u.cur = s.cur
      /\ OthersStay(u, s, k)
  BY SetPcIsQuiet DEF Pcs
<1> HIDE DEF u
<1>2. u.job[k].pc = "unlocking"
  BY <1>1 DEF IsJob
<1>3. Awaited(u.job[k].pc) = "unlock" /\ "unlock" \in {"lock", "unlock"}
  BY <1>2 DEF Awaited
<1>4. StoreInv(t) /\ t.job = u.job /\ t.cur = u.cur
  BY <1>1, <1>3, EnqueueOpIsFine
<1> HIDE DEF t
<1>5. StoreInv(t) /\ ~Held(t, k) /\ t.cur = s.cur /\ OthersStay(t, s, k)
  BY <1>1, <1>2, <1>4 DEF Held, OthersStay
<1> QED
  BY <1>5 DEF t, u

LEMMA SyncPcIsQuiet ==
  ASSUME NEW k \in Slot, NEW s, Quiet(s, k), IsJob(s.job[k])
  PROVE  LET t == SetPc(s, {k}, "syncing")
         IN  /\ Quiet(t, k) /\ t.cur = s.cur /\ t.job[k].pc = "syncing"
             /\ t.job[k].op = s.job[k].op /\ OthersStay(t, s, k)
<1> DEFINE t == SetPc(s, {k}, "syncing")
<1>1. /\ Quiet(t, k) /\ t.job[k] = [s.job[k] EXCEPT !.pc = "syncing"] /\ t.cur = s.cur
      /\ OthersStay(t, s, k)
  BY SetPcIsQuiet DEF Pcs
<1> HIDE DEF t
<1>2. t.job[k].pc = "syncing" /\ t.job[k].op = s.job[k].op
  BY <1>1 DEF IsJob
<1> QED
  BY <1>1, <1>2 DEF t

LEMMA WorkFailsKeeps ==
  ASSUME LockInv, NEW w \in Window, NEW k \in Slot, WorkFails(w, k)
  PROVE  LockInv'
<1> DEFINE s == win[w]
           kept == IF s.job[k].op = "remove" THEN PutLoaded(s, s.job[k].id)
                   ELSE PutPlaceholder(s, s.job[k].id)
           t == IF s.job[k].op = "root" THEN EndJob(kept, k)
                ELSE EnqueueOp(SetPc(kept, {k}, "unlocking"), "unlock", {k})
<1>1. /\ s.job[k].pc = "working" /\ win' = [win EXCEPT ![w] = t]
      /\ lock' = lock /\ task' = task /\ lapsed' = lapsed
  BY DEF WorkFails, Update, Store, vars
<1>2. Quiet(s, k) /\ IsJob(s.job[k])
  BY <1>1, QuietOperation, BusyIsJob
<1>3. SameCalls(kept, s)
  BY <1>2, EntriesKeepCalls DEF Quiet, AllQuiet
<1> HIDE DEF kept
<1>4. Quiet(kept, k) /\ IsJob(kept.job[k]) /\ kept.cur = s.cur /\ kept.job = s.job
  BY <1>2, <1>3, SameIsFine DEF SameCalls
<1>5. StoreInv(t) /\ ~Held(t, k) /\ t.cur = s.cur /\ OthersStay(t, s, k)
  <2>1. CASE s.job[k].op = "root"
    BY <1>4, <2>1, EndJobIsQuiet, QuietIsFine DEF OthersStay
  <2>2. CASE s.job[k].op # "root"
    <3> DEFINE u == EnqueueOp(SetPc(kept, {k}, "unlocking"), "unlock", {k})
    <3>1. StoreInv(u) /\ ~Held(u, k) /\ u.cur = kept.cur /\ OthersStay(u, kept, k)
      BY <1>4, UnlockRequestIsFine
    <3>2. t = u
      BY <2>2
    <3> HIDE DEF t, u
    <3> QED
      BY <1>4, <3>1, <3>2 DEF OthersStay
  <2> QED
    BY <2>1, <2>2
<1> HIDE DEF t
<1> QED
  BY <1>1, <1>5, OperationKeeps DEF Remembered

LEMMA CreationWorkedKeeps ==
  ASSUME LockInv, NEW w \in Window, NEW k \in Slot, CreationWorked(w, k)
  PROVE  LockInv'
<1> DEFINE s == win[w]
           t == CreateWorkspace(s, k)
<1>1. /\ s.job[k].pc = "working" /\ win' = [win EXCEPT ![w] = t]
      /\ lock' = lock /\ task' = task /\ lapsed' = lapsed
  BY DEF CreationWorked, Update, Store, vars, world
<1>2. Quiet(s, k) /\ IsJob(s.job[k])
  BY <1>1, QuietOperation, BusyIsJob
<1>3. /\ Quiet(t, k) /\ t.cur = s.cur /\ t.job[k] = [s.job[k] EXCEPT !.pc = "writing"]
      /\ OthersStay(t, s, k)
  BY <1>2, CreationIsQuiet
<1> HIDE DEF t
<1>4. t.job[k].op = s.job[k].op
  BY <1>2, <1>3 DEF IsJob
<1>5. StoreInv(t) /\ (Held(t, k) => Held(s, k))
  BY <1>1, <1>3, <1>4, QuietIsFine DEF Held
<1> QED
  BY <1>1, <1>3, <1>5, OperationKeeps DEF Remembered

LEMMA RemovalWorkedKeeps ==
  ASSUME LockInv, NEW w \in Window, NEW k \in Slot, RemovalWorked(w, k)
  PROVE  LockInv'
<1> DEFINE s == win[w]
           id == s.job[k].id
           waiting == SetPc(s, {k}, "syncing")
           removed == OnWorkspaceRemoved(waiting, {id})
           t == EnqueueSync(removed, {k})
           u == EnqueueOp(SetPc(s, {k}, "unlocking"), "unlock", {k})
<1>1. /\ s.job[k].pc = "working" /\ s.job[k].op = "remove"
      /\ lock' = lock /\ task' = task /\ lapsed' = lapsed
      /\ win' = [win EXCEPT ![w] = t] \/ win' = [win EXCEPT ![w] = u]
  BY DEF RemovalWorked, Update, Store, vars
<1>2. Quiet(s, k) /\ IsJob(s.job[k]) /\ Held(s, k)
  BY <1>1, QuietOperation, BusyIsJob DEF Held
<1>3. StoreInv(u) /\ ~Held(u, k) /\ u.cur = s.cur /\ OthersStay(u, s, k)
  BY <1>2, UnlockRequestIsFine
<1>4. /\ Quiet(waiting, k) /\ waiting.cur = s.cur /\ waiting.job[k].pc = "syncing"
      /\ OthersStay(waiting, s, k)
  BY <1>2, SyncPcIsQuiet
<1> HIDE DEF u, waiting
<1>5. SameCalls(removed, waiting)
  BY <1>4, SetsKeepCalls DEF Quiet, AllQuiet
<1> HIDE DEF removed
<1>6. /\ Quiet(removed, k) /\ removed.cur = s.cur /\ removed.job[k].pc = "syncing"
      /\ OthersStay(removed, s, k)
  BY <1>4, <1>5, SameIsFine DEF SameCalls, OthersStay
<1>7. StoreInv(t) /\ t.cur = s.cur /\ OthersStay(t, s, k)
  BY <1>6, EnqueueSyncOfOne DEF OthersStay
<1> HIDE DEF t
<1> QED
  BY <1>1, <1>2, <1>3, <1>7, OperationKeeps DEF Remembered

LEMMA FileWrittenKeeps ==
  ASSUME LockInv, NEW w \in Window, NEW k \in Slot, FileWritten(w, k)
  PROVE  LockInv'
<1> DEFINE s == win[w]
           watching == EnsureWatch(s, {s.job[k].id})
           over == EndJob(watching, k)
           waiting == SetPc(watching, {k}, "syncing")
           t == IF s.job[k].op = "root" THEN EnqueueSync(over, {})
                ELSE EnqueueSync(waiting, {k})
<1>1. /\ s.job[k].pc = "writing" /\ win' = [win EXCEPT ![w] = t]
      /\ lock' = lock /\ task' = task /\ lapsed' = lapsed
  BY DEF FileWritten, Update, Store, vars
<1>2. Quiet(s, k) /\ IsJob(s.job[k])
  BY <1>1, QuietOperation, BusyIsJob
<1>3. SameCalls(watching, s)
  BY <1>2, SetsKeepCalls DEF Quiet, AllQuiet
<1> HIDE DEF watching
<1>4. /\ Quiet(watching, k) /\ IsJob(watching.job[k]) /\ watching.cur = s.cur
      /\ watching.job = s.job
  BY <1>2, <1>3, SameIsFine DEF SameCalls
<1>5. CASE s.job[k].op = "root"
  <2>1. Quiet(over, k) /\ ~Held(over, k) /\ over.cur = s.cur /\ OthersStay(over, s, k)
    BY <1>4, EndJobIsQuiet DEF OthersStay
  <2>2. t = EnqueueSync(over, {})
    BY <1>5
  <2> HIDE DEF over, t
  <2>3. Basic(over)
    BY <2>1 DEF Quiet, AllQuiet, Basic
  <2>4. Harmless(t, over)
    BY <2>2, <2>3, SyncIsHarmless
  <2>5. StoreInv(t) /\ t.cur = s.cur /\ ~Held(t, k) /\ OthersStay(t, s, k)
    BY <2>1, <2>4, QuietIsFine DEF Harmless, Held, OthersStay
  <2> QED
    BY <1>1, <2>5, OperationKeeps DEF Remembered
<1>6. CASE s.job[k].op # "root"
  <2>1. /\ Quiet(waiting, k) /\ waiting.cur = s.cur /\ waiting.job[k].pc = "syncing"
        /\ OthersStay(waiting, s, k)
    <3>1. /\ Quiet(waiting, k) /\ waiting.cur = watching.cur
          /\ waiting.job[k].pc = "syncing" /\ OthersStay(waiting, watching, k)
      BY <1>4, SyncPcIsQuiet
    <3> HIDE DEF waiting
    <3> QED
      BY <1>4, <3>1 DEF OthersStay
  <2>2. t = EnqueueSync(waiting, {k})
    BY <1>6
  <2> HIDE DEF waiting, t
  <2>3. StoreInv(t) /\ t.cur = s.cur /\ OthersStay(t, s, k)
    BY <2>1, <2>2, EnqueueSyncOfOne DEF OthersStay
  <2>4. Held(s, k)
    BY <1>1, <1>6 DEF Held
  <2> QED
    BY <1>1, <2>3, <2>4, OperationKeeps DEF Remembered
<1> QED
  BY <1>5, <1>6

LEMMA FileDeletedKeeps ==
  ASSUME LockInv, NEW w \in Window, NEW k \in Slot, FileDeleted(w, k)
  PROVE  LockInv'
<1> DEFINE s == SetPc(win[w], {k}, "unlocking")
           kept == PutLoaded(s, s.job[k].id)
           t == EnqueueOp(s, "unlock", {k})
           u == EnqueueOp(kept, "unlock", {k})
<1>1. /\ win[w].job[k].pc = "deleting" /\ lock' = lock /\ task' = task /\ lapsed' = lapsed
      /\ win' = [win EXCEPT ![w] = t] \/ win' = [win EXCEPT ![w] = u]
  BY DEF FileDeleted, Update, Store, vars
<1>2. Quiet(win[w], k) /\ IsJob(win[w].job[k])
  BY <1>1, QuietOperation, BusyIsJob
<1>3. StoreInv(t) /\ ~Held(t, k) /\ t.cur = win[w].cur /\ OthersStay(t, win[w], k)
  BY <1>2, UnlockRequestIsFine
<1>4. /\ Quiet(s, k) /\ s.cur = win[w].cur
      /\ s.job[k] = [win[w].job[k] EXCEPT !.pc = "unlocking"] /\ OthersStay(s, win[w], k)
  <2>1. "unlocking" \in Pcs \ {"locking"}
    BY DEF Pcs
  <2> DEFINE v == win[w]
  <2>2. Quiet(v, k) /\ IsJob(v.job[k])
    BY <1>2
  <2> HIDE DEF v
  <2>3. /\ Quiet(SetPc(v, {k}, "unlocking"), k)
        /\ SetPc(v, {k}, "unlocking").job[k] = [v.job[k] EXCEPT !.pc = "unlocking"]
        /\ SetPc(v, {k}, "unlocking").cur = v.cur
        /\ OthersStay(SetPc(v, {k}, "unlocking"), v, k)
    BY <2>1, <2>2, SetPcIsQuiet
  <2> QED
    BY <2>3 DEF v
<1> HIDE DEF s
<1>5. SameCalls(kept, s)
  BY <1>4, EntriesKeepCalls DEF Quiet, AllQuiet
<1> HIDE DEF kept
<1>6. /\ Quiet(kept, k) /\ kept.cur = win[w].cur /\ kept.job[k].pc = "unlocking"
      /\ OthersStay(kept, win[w], k)
  BY <1>2, <1>4, <1>5, SameIsFine DEF SameCalls, IsJob, OthersStay
<1>7. Awaited(kept.job[k].pc) = "unlock"
  BY <1>6 DEF Awaited
<1>8. StoreInv(u) /\ u.job = kept.job /\ u.cur = kept.cur
  BY <1>6, <1>7, EnqueueOpIsFine
<1> HIDE DEF t, u
<1>9. ~Held(u, k) /\ OthersStay(u, win[w], k)
  BY <1>6, <1>8 DEF Held, OthersStay
<1> QED
  BY <1>1, <1>3, <1>6, <1>8, <1>9, OperationKeeps DEF Remembered

-----------------------------------------------------------------------------
(* Calls.                                                                  *)

\* What a call's slots await once it is neither queued nor in flight.
LEMMA HeadIsTaken ==
  ASSUME NEW S, StoreInv(S), S.cur = NoCall, S.queue # <<>>
  PROVE  LET s == [S EXCEPT !.queue = Tail(@)]
             next == Head(S.queue)
         IN  /\ StoreInv(s) /\ s.job = S.job /\ s.cur = NoCall /\ next \in Calls
             /\ \A k \in next.slots :
                  k \in Slot /\ ~Queued1(s, k) /\ Awaited(s.job[k].pc) = next.op
<1> DEFINE s == [S EXCEPT !.queue = Tail(@)]
           next == Head(S.queue)
<1>1. Shape(s) /\ s.job = S.job /\ s.cur = S.cur /\ s.queue = Tail(S.queue)
  BY DEF StoreInv, Shape, Fields
<1> HIDE DEF s
<1>2. S.queue \in Seq(Calls) /\ Len(S.queue) \in Nat /\ Len(S.queue) > 0
  BY DEF StoreInv, CallsTyped
<1>3. /\ s.queue \in Seq(Calls) /\ Len(s.queue) = Len(S.queue) - 1
      /\ \A i \in 1..Len(s.queue) : s.queue[i] = S.queue[i + 1]
      /\ next = S.queue[1] /\ next \in Calls
  BY <1>1, <1>2
<1>4. \A k \in next.slots : k \in Slot
  BY <1>3 DEF Calls
<1>5. JobsOK(s) /\ CallsTyped(s)
  BY <1>1, <1>3 DEF StoreInv, JobsOK, CallsTyped
<1>6. ASSUME NEW k \in Slot
      PROVE  /\ CallsAwaited(s, k)
             /\ k \in next.slots => ~Queued1(s, k) /\ Awaited(s.job[k].pc) = next.op
  <2>1. CallsAwaited(S, k)
    BY DEF StoreInv
  <2>2. \A i \in 1..Len(s.queue) : i + 1 \in 1..Len(S.queue) /\ i + 1 # 1
    BY <1>2, <1>3
  <2>3. 1 \in 1..Len(S.queue)
    BY <1>2
  <2>4. k \in next.slots => ~Queued1(s, k) /\ Awaited(s.job[k].pc) = next.op
    BY <1>1, <1>3, <2>1, <2>2, <2>3 DEF CallsAwaited, Queued1
  <2>5. CallsAwaited(s, k)
    <3>1. \A i \in 1..Len(s.queue) :
            k \in s.queue[i].slots => Awaited(s.job[k].pc) = s.queue[i].op
      BY <1>1, <1>3, <2>1, <2>2 DEF CallsAwaited
    <3>2. \A i, j \in 1..Len(s.queue) :
            k \in s.queue[i].slots /\ k \in s.queue[j].slots => i = j
      <4> TAKE i, j \in 1..Len(s.queue)
      <4> HAVE k \in s.queue[i].slots /\ k \in s.queue[j].slots
      <4>1. i + 1 = j + 1
        BY <1>3, <2>1, <2>2 DEF CallsAwaited
      <4> QED
        BY <4>1
    <3>3. ~InFlight1(s, k)
      BY <1>1 DEF InFlight1
    <3> QED
      BY <3>1, <3>2, <3>3 DEF CallsAwaited
  <2> QED
    BY <2>4, <2>5
<1>7. StoreInv(s)
  BY <1>1, <1>5, <1>6 DEF StoreInv
<1> QED
  BY <1>1, <1>3, <1>4, <1>6, <1>7 DEF s

LEMMA CallIsOver ==
  ASSUME NEW S, StoreInv(S), S.cur # NoCall
  PROVE  LET s == [S EXCEPT !.cur = NoCall]
         IN  /\ StoreInv(s) /\ s.job = S.job /\ s.cur = NoCall
             /\ \A k \in S.cur.slots :
                  k \in Slot /\ Quiet(s, k) /\ Awaited(s.job[k].pc) = S.cur.op
<1> DEFINE s == [S EXCEPT !.cur = NoCall]
<1>1. Shape(s) /\ s.job = S.job /\ s.cur = NoCall /\ s.queue = S.queue
  BY DEF StoreInv, Shape, Fields
<1> HIDE DEF s
<1>2. JobsOK(s) /\ CallsTyped(s) /\ S.cur.slots \subseteq Slot
  BY <1>1 DEF StoreInv, JobsOK, CallsTyped
<1>3. ASSUME NEW k \in Slot
      PROVE  /\ CallsAwaited(s, k) /\ ~InFlight1(s, k)
             /\ k \in S.cur.slots => ~Queued1(s, k) /\ Awaited(s.job[k].pc) = S.cur.op
  <2>1. CallsAwaited(S, k)
    BY DEF StoreInv
  <2>2. ~InFlight1(s, k) /\ (k \in S.cur.slots => InFlight1(S, k))
    BY <1>1 DEF InFlight1
  <2> QED
    BY <1>1, <2>1, <2>2 DEF CallsAwaited, Queued1
<1>4. StoreInv(s)
  BY <1>1, <1>2, <1>3 DEF StoreInv
<1>5. \A k \in S.cur.slots :
        k \in Slot /\ Quiet(s, k) /\ Awaited(s.job[k].pc) = S.cur.op
  BY <1>1, <1>2, <1>3 DEF Quiet, AllQuiet, StoreInv
<1> QED
  BY <1>1, <1>4, <1>5 DEF s

\* The end of an awaited sync, whoever awaits it.
LEMMA SettledIsFine ==
  ASSUME NEW s, StoreInv(s), NEW slots \in SUBSET Slot,
         \A k \in slots : ~Queued1(s, k) /\ ~InFlight1(s, k) /\ s.job[k].pc = "syncing"
  PROVE  LET t == SyncSettled(s, slots)
         IN  StoreInv(t) /\ t.cur = s.cur /\ \A k \in Slot : Held(t, k) => Held(s, k)
<1> DEFINE t == SyncSettled(s, slots)
<1>1. AllQuiet(s, slots)
  BY DEF StoreInv, AllQuiet
<1>2. /\ StoreInv(t) /\ t.cur = s.cur
      /\ \A k \in slots : t.job[k].op = s.job[k].op
      /\ \A l \in Slot \ slots : t.job[l] = s.job[l]
  <2>1. StoreInv(t) /\ MovedOn(t, s, slots)
    BY <1>1, SettledForSome
  <2> HIDE DEF t
  <2> QED
    BY <2>1 DEF MovedOn
<1> HIDE DEF t
<1>3. \A k \in Slot : Held(t, k) => Held(s, k)
  BY <1>2 DEF Held
<1> QED
  BY <1>2, <1>3 DEF t

LEMMA AwaitedBack ==
  ASSUME NEW pc
  PROVE  /\ Awaited(pc) = "sync" => pc = "syncing"
         /\ Awaited(pc) = "lock" => pc = "locking"
         /\ Awaited(pc) = "unlock" => pc = "unlocking"
BY DEF Awaited

LEMMA StartKeeps ==
  ASSUME LockInv, NEW w \in Window, StartCall(w)
  PROVE  LockInv'
<1> DEFINE S == win[w]
           s == [S EXCEPT !.queue = Tail(@)]
           next == Head(S.queue)
           t == IF next.op # "sync" THEN [s EXCEPT !.cur = next]
                ELSE IF CurrentRefs(s) = s.synced THEN SyncSettled(s, next.slots)
                ELSE SendRefs(s, next.slots)
<1>1. /\ S.cur = NoCall /\ S.queue # <<>> /\ win' = [win EXCEPT ![w] = t]
      /\ lock' = lock /\ task' = task /\ lapsed' = lapsed
  BY DEF StartCall, Update, Store, vars, world
<1>2. StoreInv(S)
  BY DEF LockInv, Stores
<1>3. /\ StoreInv(s) /\ s.job = S.job /\ s.cur = NoCall /\ next \in Calls
      /\ \A k \in next.slots :
           k \in Slot /\ ~Queued1(s, k) /\ Awaited(s.job[k].pc) = next.op
  BY <1>1, <1>2, HeadIsTaken
<1>4. task[w] = Idle
  BY <1>1 DEF LockInv, ServedFor
<1> HIDE DEF s, next
<1>5. next.slots \in SUBSET Slot /\ next.op \in {"lock", "unlock", "sync"}
      /\ (next.op # "sync" => next.slots # {})
  BY <1>3 DEF Calls
<1>6. ASSUME NEW u, Shape(u), u.job = s.job, u.queue = s.queue,
             u.cur.op = next.op, u.cur.slots = next.slots
      PROVE  StoreInv(u)
  <2>1. JobsOK(u) /\ CallsTyped(u)
    BY <1>3, <1>5, <1>6 DEF StoreInv, JobsOK, CallsTyped
  <2>2. ASSUME NEW k \in Slot PROVE CallsAwaited(u, k)
    <3>1. CallsAwaited(s, k)
      BY <1>3 DEF StoreInv
    <3>2. InFlight1(u, k) => k \in next.slots
      BY <1>6 DEF InFlight1
    <3> QED
      BY <1>3, <1>6, <3>1, <3>2 DEF CallsAwaited, Queued1
  <2> QED
    BY <1>6, <2>1, <2>2 DEF StoreInv
<1>7. Shape(s)
  BY <1>3 DEF StoreInv
<1>8. StoreInv(t) /\ \A k \in Slot : Held(t, k) => Held(S, k)
  <2>1. CASE next.op # "sync"
    <3> DEFINE u == [s EXCEPT !.cur = next]
    <3>1. Shape(u) /\ u.job = s.job /\ u.queue = s.queue /\ u.cur = next
      BY <1>7 DEF Shape, Fields
    <3>2. t = u
      BY <2>1
    <3> HIDE DEF u, t
    <3>3. u.cur.op = next.op /\ u.cur.slots = next.slots
      BY <3>1
    <3>4. StoreInv(u)
      BY <1>6, <3>1, <3>3
    <3> QED
      BY <1>3, <3>1, <3>2, <3>4 DEF Held
  <2>2. CASE next.op = "sync" /\ CurrentRefs(s) = s.synced
    <3>1. t = SyncSettled(s, next.slots)
      BY <2>2
    <3>2. \A k \in next.slots : ~Queued1(s, k) /\ ~InFlight1(s, k) /\ s.job[k].pc = "syncing"
      BY <1>3, <1>5, <2>2, AwaitedBack DEF InFlight1
    <3> HIDE DEF t
    <3> QED
      BY <1>3, <1>5, <3>1, <3>2, SettledIsFine DEF Held
  <2>3. CASE next.op = "sync" /\ CurrentRefs(s) # s.synced
    <3> DEFINE u == SendRefs(s, next.slots)
    <3>1. Shape(u) /\ u.job = s.job /\ u.queue = s.queue
          /\ u.cur = [op |-> "sync", slots |-> next.slots, refs |-> CurrentRefs(s),
                      expected |-> s.ver, prev |-> s.synced]
      BY <1>7 DEF SendRefs, Shape, Fields
    <3>2. t = u
      BY <2>3
    <3> HIDE DEF u, t
    <3>3. u.cur.op = next.op /\ u.cur.slots = next.slots
      BY <2>3, <3>1
    <3>4. StoreInv(u)
      BY <1>6, <3>1, <3>3
    <3> QED
      BY <1>3, <3>1, <3>2, <3>4 DEF Held
  <2> QED
    BY <2>1, <2>2, <2>3
<1> HIDE DEF t
<1> QED
  BY <1>1, <1>4, <1>8, WindowKeeps DEF Remembered

-----------------------------------------------------------------------------
(* Replies, failures and events.                                           *)

\* What a window does with an answer to a lock request.
LEMMA LockAnswerIsFine ==
  ASSUME NEW s, StoreInv(s), NEW k \in Slot, Quiet(s, k),
         s.job[k].pc = "locking", NEW snap
  PROVE  /\ IsJob(s.job[k]) /\ s.job[k].op # "root"
         /\ LET t == LockGranted(s, k, snap)
            IN  StoreInv(t) /\ t.cur = s.cur /\ OthersStay(t, s, k)
         /\ LET t == LockRefused(s, k)
            IN  /\ StoreInv(t) /\ ~Held(t, k) /\ t.cur = s.cur
                /\ t.job[k] = NoJob /\ OthersStay(t, s, k)
<1>1. IsJob(s.job[k]) /\ s.job[k].op # "root"
  BY DEF StoreInv, JobsOK, NoJob
<1> QED
  BY <1>1, GrantIsQuiet, RefusalIsQuiet

LEMMA SyncAnswerIsFine ==
  ASSUME NEW s, StoreInv(s), NEW u, Harmless(u, s), NEW slots \in SUBSET Slot,
         \A k \in slots : Quiet(s, k) /\ s.job[k].pc = "syncing"
  PROVE  LET t == SyncSettled(u, slots)
         IN  StoreInv(t) /\ t.cur = s.cur /\ \A k \in Slot : Held(t, k) => Held(s, k)
<1>1. StoreInv(u) /\ u.job = s.job /\ u.cur = s.cur /\ \A k \in slots : Quiet(u, k)
  BY DEF Harmless
<1>2. \A k \in slots : ~Queued1(u, k) /\ ~InFlight1(u, k) /\ u.job[k].pc = "syncing"
  BY <1>1 DEF Quiet, AllQuiet
<1> QED
  BY <1>1, <1>2, SettledIsFine DEF Held

LEMMA UnlockAnswerIsFine ==
  ASSUME NEW s, NEW k \in Slot, Quiet(s, k), NEW t, SameCalls(t, s)
  PROVE  LET u == EndJob(t, k)
         IN  /\ StoreInv(u) /\ ~Held(u, k) /\ u.cur = s.cur
             /\ u.job[k] = NoJob /\ OthersStay(u, s, k)
BY SameIsFine, EndJobIsQuiet, QuietIsFine DEF SameCalls, OthersStay

LEMMA ReplyKeeps ==
  ASSUME LockInv, NEW w \in Window, ReplyArrives(w)
  PROVE  LockInv'
<1> DEFINE S == win[w]
           call == S.cur
           s == [S EXCEPT !.cur = NoCall]
           snap == task[w].snap
           k == TheSlot(call)
           fresh == [s EXCEPT !.ver = snap.version]
           t == CASE call.op = "sync" -> SyncSettled(SyncAnswered(s, call, snap), call.slots)
                  [] call.op = "lock" -> LockSettled(s, k, task[w].ok, snap)
                  [] call.op = "unlock" -> EndJob(fresh, k)
<1>1. /\ task[w].stage = "reply" /\ win' = [win EXCEPT ![w] = t] /\ lock' = lock
      /\ task' = [task EXCEPT ![w] = Idle] /\ lapsed' = lapsed
  BY DEF ReplyArrives, Reply, Update, Store, session, world
<1>2. StoreInv(S)
  BY DEF LockInv, Stores
<1>3. task[w] # Idle /\ task'[w] = Idle
  BY <1>1, RefSyncAssumption DEF Idle, LockInv, Tasks, Window
<1>4. /\ call # NoCall /\ call.op \in {"lock", "unlock", "sync"} /\ call.slots \subseteq Slot
      /\ (call.op # "sync" => call.slots # {})
      /\ (call.op = "lock" /\ task[w].ok => \A l \in call.slots : Kept(w, l))
  BY <1>2, <1>3 DEF LockInv, ServedFor, StoreInv, CallsTyped
<1>5. /\ StoreInv(s) /\ s.job = S.job /\ s.cur = NoCall
      /\ \A l \in call.slots : l \in Slot /\ Quiet(s, l) /\ Awaited(s.job[l].pc) = call.op
  BY <1>2, <1>4, CallIsOver
<1> HIDE DEF s, call, snap
<1>6. /\ StoreInv(t)
      /\ \A l \in Slot : Held(t, l) => Held(S, l) \/ Kept(w, l)
  <2>1. CASE call.op = "sync"
    <3>1. Basic(s)
      BY <1>5 DEF StoreInv, Basic
    <3>2. Harmless(SyncAnswered(s, call, snap), s)
      BY <3>1, AnswerIsHarmless
    <3>3. \A l \in call.slots : Quiet(s, l) /\ s.job[l].pc = "syncing"
      BY <1>5, <2>1, AwaitedBack
    <3>4. t = SyncSettled(SyncAnswered(s, call, snap), call.slots)
      BY <2>1
    <3> HIDE DEF t
    <3>5. StoreInv(t) /\ \A l \in Slot : Held(t, l) => Held(s, l)
      BY <1>4, <1>5, <3>2, <3>3, <3>4, SyncAnswerIsFine
    <3> QED
      BY <1>5, <3>5 DEF Held
  <2>2. CASE call.op = "lock"
    <3>1. k \in call.slots
      BY <1>4, <2>2 DEF TheSlot
    <3>2. k \in Slot /\ Quiet(s, k) /\ s.job[k].pc = "locking"
      BY <1>5, <2>2, <3>1, AwaitedBack
    <3>3. t = IF task[w].ok THEN LockGranted(s, k, snap) ELSE LockRefused(s, k)
      BY <2>2 DEF LockSettled
    <3> HIDE DEF t, k
    <3> DEFINE g == LockGranted(s, k, snap)
               r == LockRefused(s, k)
    <3>4. /\ StoreInv(g) /\ OthersStay(g, s, k)
          /\ StoreInv(r) /\ ~Held(r, k) /\ OthersStay(r, s, k)
      BY <1>5, <3>2, LockAnswerIsFine
    <3> HIDE DEF g, r
    <3>5. \A l \in Slot \ {k} : (Held(g, l) => Held(S, l)) /\ (Held(r, l) => Held(S, l))
      BY <1>5, <3>4 DEF Held, OthersStay
    <3> QED
      BY <1>4, <2>2, <3>1, <3>2, <3>3, <3>4, <3>5 DEF g, r
  <2>3. CASE call.op = "unlock"
    <3>1. k \in call.slots
      BY <1>4, <2>3 DEF TheSlot
    <3>2. k \in Slot /\ Quiet(s, k)
      BY <1>5, <3>1
    <3>3. SameCalls(fresh, s)
      BY <3>2 DEF SameCalls, Quiet, AllQuiet, Shape, Fields
    <3>4. t = EndJob(fresh, k)
      BY <2>3
    <3> HIDE DEF t, k, fresh
    <3>5. StoreInv(t) /\ ~Held(t, k) /\ OthersStay(t, s, k)
      BY <3>2, <3>3, <3>4, UnlockAnswerIsFine
    <3> QED
      BY <1>5, <3>2, <3>5 DEF Held, OthersStay
  <2> QED
    BY <1>4, <2>1, <2>2, <2>3
<1> HIDE DEF t
<1> QED
  BY <1>1, <1>3, <1>6, WindowKeeps DEF Remembered

LEMMA FailureKeeps ==
  ASSUME LockInv, NEW w \in Window, CallFails(w)
  PROVE  LockInv'
<1> DEFINE S == win[w]
           call == S.cur
           s == [S EXCEPT !.cur = NoCall]
           k == TheSlot(call)
           t == CASE call.op = "sync" -> SyncSettled(SyncFailed(s, call), call.slots)
                  [] call.op = "lock" -> LockRefused(s, k)
                  [] call.op = "unlock" -> EndJob(s, k)
<1>1. /\ call # NoCall /\ win' = [win EXCEPT ![w] = t] /\ lock' = lock
      /\ task' = [task EXCEPT ![w] = Idle] /\ lapsed' = lapsed
  BY DEF CallFails, Update, Store, session
<1>2. StoreInv(S)
  BY DEF LockInv, Stores
<1>3. task'[w] = Idle
  BY <1>1, RefSyncAssumption DEF LockInv, Tasks, Window
<1>4. /\ call.op \in {"lock", "unlock", "sync"} /\ call.slots \subseteq Slot
      /\ (call.op # "sync" => call.slots # {})
  BY <1>1, <1>2 DEF StoreInv, CallsTyped
<1>5. /\ StoreInv(s) /\ s.job = S.job /\ s.cur = NoCall
      /\ \A l \in call.slots : l \in Slot /\ Quiet(s, l) /\ Awaited(s.job[l].pc) = call.op
  BY <1>1, <1>2, CallIsOver
<1> HIDE DEF s, call
<1>6. StoreInv(t) /\ \A l \in Slot : Held(t, l) => Held(S, l)
  <2>1. CASE call.op = "sync"
    <3>1. Basic(s)
      BY <1>5 DEF StoreInv, Basic
    <3>2. Harmless(SyncFailed(s, call), s)
      BY <3>1, AnswerIsHarmless
    <3>3. \A l \in call.slots : Quiet(s, l) /\ s.job[l].pc = "syncing"
      BY <1>5, <2>1, AwaitedBack
    <3>4. t = SyncSettled(SyncFailed(s, call), call.slots)
      BY <2>1
    <3> HIDE DEF t
    <3>5. StoreInv(t) /\ \A l \in Slot : Held(t, l) => Held(s, l)
      BY <1>4, <1>5, <3>2, <3>3, <3>4, SyncAnswerIsFine
    <3> QED
      BY <1>5, <3>5 DEF Held
  <2>2. CASE call.op # "sync"
    <3>1. k \in call.slots
      BY <1>4, <2>2 DEF TheSlot
    <3>2. k \in Slot /\ Quiet(s, k) /\ Awaited(s.job[k].pc) = call.op
      BY <1>5, <3>1
    <3> DEFINE r == LockRefused(s, k)
               e == EndJob(s, k)
    <3>3. call.op = "lock" => StoreInv(r) /\ ~Held(r, k) /\ OthersStay(r, s, k)
      <4> HIDE DEF k
      <4> QED
        BY <1>5, <3>2, AwaitedBack, LockAnswerIsFine
    <3>4. StoreInv(e) /\ ~Held(e, k) /\ OthersStay(e, s, k)
      BY <3>2, EndJobIsQuiet, QuietIsFine
    <3>5. (t = r /\ call.op = "lock") \/ t = e
      BY <1>4, <2>2
    <3> HIDE DEF t, k, r, e
    <3> QED
      BY <1>5, <3>2, <3>3, <3>4, <3>5 DEF Held, OthersStay
  <2> QED
    BY <2>1, <2>2
<1> HIDE DEF t
<1> QED
  BY <1>1, <1>3, <1>6, WindowKeeps DEF Remembered

LEMMA EventKeeps ==
  ASSUME LockInv, NEW w \in Window, DeliverEvent(w)
  PROVE  LockInv'
<1>1. PICK gone :
        Update(w, HandleExternalUpdate(Store(w), Head(channel[StreamOf(w)]), gone))
  BY DEF DeliverEvent
<1> DEFINE t == HandleExternalUpdate(win[w], Head(channel[StreamOf(w)]), gone)
<1>2. win' = [win EXCEPT ![w] = t] /\ lock' = lock /\ task' = task /\ lapsed' = lapsed
  BY <1>1 DEF DeliverEvent, Update, Store, Receive, session, world
<1>3. Basic(win[w])
  BY DEF LockInv, Stores, StoreInv, Basic
<1>4. Harmless(t, win[w])
  BY <1>3, EventIsHarmless
<1> HIDE DEF t
<1> QED
  BY <1>2, <1>4, HarmlessKeeps

LEMMA BodyKeeps ==
  ASSUME LockInv, NEW w \in Window, NEW id, BodyArrives(w, id)
  PROVE  LockInv'
<1> DEFINE s == [win[w] EXCEPT !.arriving = @ \ {id}]
           t == PutLoaded(s, id)
<1>1. win' = [win EXCEPT ![w] = t] /\ lock' = lock /\ task' = task /\ lapsed' = lapsed
  BY DEF BodyArrives, Update, Store, vars, world
<1>2. Basic(win[w])
  BY DEF LockInv, Stores, StoreInv, Basic
<1>3. SameCalls(s, win[w])
  BY <1>2 DEF Basic, SameCalls, Shape, Fields
<1> HIDE DEF s
<1>4. SameCalls(t, s)
  BY <1>3, EntriesKeepCalls DEF SameCalls
<1> HIDE DEF t
<1>5. SameCalls(t, win[w])
  BY <1>3, <1>4 DEF SameCalls
<1> QED
  BY <1>1, <1>2, <1>5, SameIsHarmless, HarmlessKeeps

-----------------------------------------------------------------------------
(* The daemon.                                                             *)

LEMMA DaemonKeeps ==
  ASSUME LockInv, win' = win, lock'.holder = lock.holder, lapsed' = lapsed, Tasks',
         \A w \in Window : task'[w] # Idle => task[w] # Idle /\ task'[w].ok = task[w].ok
  PROVE  LockInv'
<1>1. Stores'
  BY DEF LockInv, Stores, StoreInv, Shape, JobsOK, CallsTyped,
         CallsAwaited, Queued1, InFlight1, IsJob
<1>2. \A w \in Window : ServedFor(w)'
  BY DEF LockInv, ServedFor, Kept
<1>3. LockHeld'
  BY DEF LockInv, LockHeld, HoldsLock
<1> QED
  BY <1>1, <1>2, <1>3 DEF LockInv

LEMMA TaskChanges ==
  ASSUME Tasks, NEW u \in Task \cup {Heartbeat}, NEW a, Answer(a),
         task' = [task EXCEPT ![u] = a]
  PROVE  Tasks' /\ task'[u] = a /\ \A v \in Task \cup {Heartbeat} : v # u => task'[v] = task[v]
BY DEF Tasks, Answer, Idle

LEMMA BusyAnswer ==
  ASSUME NEW stage, stage # "idle", NEW snap, NEW sender, NEW ok
  PROVE  LET a == [stage |-> stage, snap |-> snap, sender |-> sender, ok |-> ok]
         IN  Answer(a) /\ a # Idle /\ a.ok = ok
BY DEF Answer, AnswerFields, Idle

LEMMA BroadcastKeeps ==
  ASSUME LockInv, NEW u \in Task \cup {Heartbeat}, BroadcastUpdate(u), win' = win, lapsed' = lapsed
  PROVE  LockInv'
<1> DEFINE a == IF u = Heartbeat THEN Idle ELSE [task[u] EXCEPT !.stage = "reply"]
<1>1. task[u].stage = "broadcast" /\ task' = [task EXCEPT ![u] = a] /\ lock' = lock
  BY DEF BroadcastUpdate, session
<1>2. Answer(task[u]) /\ task[u] # Idle /\ Tasks
  BY <1>1 DEF LockInv, Tasks, Idle
<1>3. Answer(a) /\ (a # Idle => a.ok = task[u].ok)
  <2>1. CASE u = Heartbeat
    BY <2>1 DEF Answer
  <2>2. CASE u # Heartbeat
    BY <1>2, <2>2 DEF Answer, AnswerFields
  <2> QED
    BY <2>1, <2>2
<1> HIDE DEF a
<1>4. /\ Tasks' /\ task'[u] = a
      /\ \A v \in Task \cup {Heartbeat} : v # u => task'[v] = task[v]
  BY <1>1, <1>2, <1>3, TaskChanges
<1>5. \A w \in Window : w \in Task \cup {Heartbeat}
  BY RefSyncAssumption DEF Window
<1>6. \A w \in Window : task'[w] # Idle => task[w] # Idle /\ task'[w].ok = task[w].ok
  BY <1>2, <1>3, <1>4, <1>5
<1> QED
  BY <1>1, <1>4, <1>6, DaemonKeeps

LEMMA HeartbeatKeeps ==
  ASSUME LockInv, HeartbeatSnapshot, win' = win, lapsed' = lapsed
  PROVE  LockInv'
<1> DEFINE a == [stage |-> "broadcast", snap |-> SnapOf(version', refs', lock'),
                 sender |-> Nobody, ok |-> TRUE]
<1>1. task' = [task EXCEPT ![Heartbeat] = a] /\ lock' = lock
  BY DEF HeartbeatSnapshot, Finish, session
<1>2. Answer(a) /\ Tasks
  BY BusyAnswer DEF LockInv
<1> HIDE DEF a
<1>3. Tasks' /\ \A v \in Task \cup {Heartbeat} : v # Heartbeat => task'[v] = task[v]
  BY <1>1, <1>2, TaskChanges
<1>4. \A w \in Window : w \in Task \cup {Heartbeat} /\ w # Heartbeat
  BY RefSyncAssumption, ConstAssumption DEF Window
<1> QED
  BY <1>1, <1>3, <1>4, DaemonKeeps

LEMMA ExpiryKeeps ==
  ASSUME LockInv, LockExpires, win' = win, lapsed' = lapsed
  PROVE  LockInv'
<1>1. task' = task /\ lock'.holder = lock.holder
  BY DEF LockExpires
<1>2. Tasks'
  BY <1>1 DEF LockInv, Tasks, Answer
<1> QED
  BY <1>1, <1>2, DaemonKeeps

\* The answer of the daemon to the call a window has in flight.
LEMMA ServeKeeps ==
  ASSUME LockInv, NEW w \in Window, Serve(w)
  PROVE  LockInv'
<1> DEFINE call == win[w].cur
           a == task'[w]
<1>1. win' = win /\ task[w] = Idle
  BY DEF Serve, LockSession, UnlockSession, UpdateSession
<1>2. w \in Task \cup {Heartbeat} /\ w \in Conn /\ Nobody \notin Conn
  BY RefSyncAssumption, ConstAssumption DEF Window
<1>3. LiveLock \in {lock, NoLock} /\ (LiveLock # lock => lock.expired)
  BY DEF LiveLock
<1> DEFINE Served(stage, sender, ok) ==
             /\ stage \in {"broadcast", "reply"}
             /\ Finish(w, stage, sender, ok)
             /\ \/ lock' \in {lock, LiveLock} /\ (call.op = "lock" => ~ok)
                \/ /\ call.op = "lock" /\ LiveLock.holder \in {Nobody, w}
                   /\ lock'.holder = w
                \/ call.op = "unlock" /\ lock.holder = w /\ lock' = NoLock
<1>3a. \E stage, sender, ok : Served(stage, sender, ok)
  <2>1. CASE call.op = "lock" /\ LockSession(w, w)
    <3>1. CASE LiveLock.holder \in {Nobody, w}
      <4>1. lock' = [holder |-> w, since |-> version', expired |-> FALSE]
            /\ Finish(w, "broadcast", Nobody, TRUE)
        BY <2>1, <3>1 DEF LockSession
      <4>2. lock'.holder = w
        BY <4>1
      <4>3. Served("broadcast", Nobody, TRUE)
        BY <2>1, <3>1, <4>1, <4>2
      <4> HIDE DEF Served
      <4> QED
        BY <4>3
    <3>2. CASE LiveLock.holder \notin {Nobody, w}
      <4>1. lock' = LiveLock /\ Finish(w, "reply", Nobody, FALSE)
        BY <2>1, <3>2 DEF LockSession
      <4>2. Served("reply", Nobody, FALSE)
        BY <4>1
      <4> HIDE DEF Served
      <4> QED
        BY <4>2
    <3> QED
      BY <3>1, <3>2
  <2>2. CASE call.op = "unlock" /\ UnlockSession(w, w)
    <3>1. Served("broadcast", Nobody, TRUE)
      BY <2>2 DEF UnlockSession, Release
    <3> HIDE DEF Served
    <3> QED
      BY <3>1
  <2>3. CASE /\ call.op = "sync"
             /\ UpdateSession(w, w, SenderOf(w), call.expected, call.refs)
    <3>1. \/ Served("broadcast", SenderOf(w), TRUE)
          \/ Served("reply", SenderOf(w), FALSE)
      BY <2>3 DEF UpdateSession
    <3> HIDE DEF Served
    <3> QED
      BY <3>1
  <2> QED
    BY <2>1, <2>2, <2>3 DEF Serve, Store
<1>4. PICK stage, sender, ok : Served(stage, sender, ok)
  BY <1>3a
<1> DEFINE b == [stage |-> stage, snap |-> SnapOf(version', refs', lock'),
                 sender |-> sender, ok |-> ok]
<1>5. task' = [task EXCEPT ![w] = b]
  BY <1>4 DEF Finish
<1>6. Answer(b) /\ b # Idle /\ b.ok = ok
  <2>1. stage # "idle"
    BY <1>4
  <2> QED
    BY <2>1, BusyAnswer
<1> HIDE DEF b
<1>7. /\ Tasks' /\ task'[w] = b
      /\ \A v \in Window : v # w => task'[v] = task[v]
  BY <1>2, <1>5, <1>6, TaskChanges, RefSyncAssumption DEF LockInv, Window
<1>8. call # NoCall
  BY DEF Serve, NoCall, Store
<1>9. Stores'
  BY <1>1 DEF LockInv, Stores, StoreInv, Shape, JobsOK, CallsTyped, CallsAwaited,
              Queued1, InFlight1, IsJob
<1>10. ASSUME NEW v \in Window, lock.holder = v
       PROVE  lock'.holder = v \/ lock.expired \/ (v = w /\ call.op = "unlock")
  <2>1. v # Nobody
    BY <1>2 DEF Window
  <2>2. CASE LiveLock # lock
    BY <1>3, <2>2
  <2>3. CASE LiveLock = lock
    BY <1>4, <1>10, <2>1, <2>3
  <2> QED
    BY <2>2, <2>3
<1>11. lapsed' = lapsed \cup Losing(w)
  BY DEF Serve
<1>12. ASSUME NEW v \in Window, NEW k \in Slot, Kept(v, k), HoldsLock(v, k) \/ Granted(v, k)
       PROVE  Kept(v, k)'
  <2>1. CASE lock.holder = v /\ lock'.holder # v
    <3> DEFINE o == <<v, k>>
    <3>1. o \in Window \X Slot /\ o[1] = v /\ o[2] = k
      OBVIOUS
    <3>2. lock.expired \/ (v = w /\ win[w].cur.op = "unlock")
      BY <1>10, <2>1
    <3> HIDE DEF o
    <3>3. o \in Losing(w)
      BY <1>12, <2>1, <3>1, <3>2 DEF Losing
    <3> QED
      BY <1>11, <3>3 DEF Kept, o
  <2>2. CASE ~(lock.holder = v /\ lock'.holder # v)
    BY <1>11, <1>12, <2>2 DEF Kept
  <2> QED
    BY <2>1, <2>2
<1>13. \A v \in Window : ServedFor(v)'
  <2> SUFFICES ASSUME NEW v \in Window, task'[v] # Idle
               PROVE  /\ win[v].cur # NoCall
                      /\ win[v].cur.op = "lock" /\ task'[v].ok
                           => \A k \in win[v].cur.slots : Kept(v, k)'
    BY <1>1 DEF ServedFor
  <2>1. CASE v = w
    <3>1. call.op = "lock" /\ ok => lock'.holder = w
      BY <1>4
    <3> QED
      BY <1>6, <1>7, <1>8, <2>1, <3>1 DEF Kept
  <2>2. CASE v # w
    <3>1. task[v] = task'[v]
      BY <1>7, <2>2
    <3>2. /\ win[v].cur # NoCall
          /\ win[v].cur.op = "lock" /\ task[v].ok => \A k \in win[v].cur.slots : Kept(v, k)
      BY <3>1 DEF LockInv, ServedFor
    <3>3. win[v].cur.slots \subseteq Slot
      BY <3>2 DEF LockInv, Stores, StoreInv, CallsTyped
    <3>4. ASSUME win[v].cur.op = "lock", task'[v].ok, NEW k \in win[v].cur.slots
          PROVE  Kept(v, k)'
      <4>1. Granted(v, k) /\ k \in Slot /\ Kept(v, k)
        BY <3>1, <3>2, <3>3, <3>4 DEF Granted
      <4> QED
        BY <1>12, <4>1
    <3> QED
      BY <3>2, <3>4
  <2> QED
    BY <2>1, <2>2
<1>14. LockHeld'
  <2> SUFFICES ASSUME NEW v \in Window, NEW k \in Slot, HoldsLock(v, k)
               PROVE  Kept(v, k)'
    BY <1>1 DEF LockHeld, HoldsLock, Kept
  <2>1. Kept(v, k)
    BY DEF LockInv, LockHeld, Kept
  <2> QED
    BY <1>12, <2>1
<1> QED
  BY <1>7, <1>9, <1>13, <1>14 DEF LockInv

-----------------------------------------------------------------------------
(* The theorem.                                                            *)

LEMMA InvNext ==
  ASSUME LockInv, [RefNext]_allVars
  PROVE  LockInv'
<1>1. CASE UNCHANGED allVars
  BY <1>1, DaemonKeeps DEF allVars, vars, session, refVars, world, LockInv, Tasks
<1>2. CASE DaemonStep
  <2>1. win' = win /\ lapsed' = lapsed
    BY <1>2 DEF DaemonStep, refVars, world
  <2> QED
    BY <1>2, <2>1, BroadcastKeeps, HeartbeatKeeps, ExpiryKeeps DEF DaemonStep
<1>3. ASSUME NEW w \in Window, NEW k \in Slot, Operation(w, k) PROVE LockInv'
  BY <1>3, AddKeeps, RemoveKeeps, WorkFailsKeeps, CreationWorkedKeeps, RemovalWorkedKeeps,
     FileWrittenKeeps, FileDeletedKeeps DEF Operation
<1>4. ASSUME NEW w \in Window, OpenWindow(w) PROVE LockInv'
  BY <1>4, DaemonKeeps DEF OpenWindow, SessionWatch, session, refVars, world, LockInv, Tasks
<1>5. ASSUME NEW w \in Window, WindowStep(w) PROVE LockInv'
  BY <1>3, <1>4, <1>5, DismissKeeps, StartKeeps, ServeKeeps, ReplyKeeps, FailureKeeps,
     EventKeeps, BodyKeeps DEF WindowStep
<1> QED
  BY <1>1, <1>2, <1>5 DEF RefNext

\* An operation that was granted the lock holds it when its refs are synced and
\* until it gives it back, whatever calls fail, whichever events cross its
\* replies, however often its window retries, however many operations its window
\* runs and whenever locks run out: acquireLock, syncRefs and releaseLock of
\* every window.  `lapsed` excuses the operations whose lock the daemon found
\* expired or their own window released for another of its operations.
THEOREM LockIsHeld == RefSpec => []LockHeld
<1>1. RefInit => LockInv
  BY InvInit
<1>2. LockInv /\ [RefNext]_allVars => LockInv'
  BY InvNext
<1>3. LockInv => LockHeld
  BY DEF LockInv
<1> QED
  BY <1>1, <1>2, <1>3, PTL DEF RefSpec

-----------------------------------------------------------------------------
(* Ref lists: what Only keeps of one, and what makes one.                  *)

Least == {p \in Nat \X Nat : p[1] < p[2]}

LEMMA LeastOfSome ==
  ASSUME NEW S \in SUBSET Nat, S # {}
  PROVE  \E m \in S : \A k \in S : m <= k
<1>1. IsWellFoundedOn(Least, Nat)
  BY NatLessThanWellFounded DEF Least, OpToRel
<1>2. PICK x \in S : \A y \in S : ~(<<y, x>> \in Least)
  <2> HIDE DEF Least
  <2> QED
    BY <1>1, WFMin
<1>3. ASSUME NEW k \in S PROVE x <= k
  <2>1. k \in Nat /\ x \in Nat /\ ~(k < x)
    BY <1>2 DEF Least
  <2> QED
    BY <2>1
<1> QED
  BY <1>3

IsList(l) == l \in Seq(Id) /\ Injective(l)

LEMMA ListLength ==
  ASSUME NEW l, IsList(l)
  PROVE  Len(l) \in 0..Cardinality(Id)
<1> DEFINE n == Len(l)
<1>1. n \in Nat /\ l \in [1..n -> Id] /\ DOMAIN l = 1..n
  BY DEF IsList
<1>2. l \in Injection(1..n, Id)
  BY <1>1 DEF IsList, Injective, Injection, IsInjective
<1>3. Cardinality(1..n) <= Cardinality(Id)
  BY <1>2, FS_Injection, RefSyncAssumption
<1>4. Cardinality(1..n) = n
  BY <1>1, FS_Interval
<1>5. Cardinality(Id) \in Nat
  BY RefSyncAssumption, FS_CardinalityType
<1> QED
  BY <1>1, <1>3, <1>4, <1>5

LEMMA RefListIsList ==
  ASSUME NEW l
  PROVE  l \in RefList <=> IsList(l)
<1>1. RefList = RefLists(Id) /\ Cardinality(Id) \in Nat
  BY RefSyncAssumption, FS_CardinalityType
<1>2. ASSUME l \in RefList PROVE IsList(l)
  BY <1>1, <1>2 DEF RefLists, IsList
<1>3. ASSUME IsList(l) PROVE l \in RefList
  <2>1. Len(l) \in 0..Cardinality(Id)
    BY <1>3, ListLength
  <2>2. l \in [1..Len(l) -> Id] /\ Injective(l)
    BY <1>3 DEF IsList
  <2> QED
    BY <1>1, <2>1, <2>2 DEF RefLists
<1> QED
  BY <1>2, <1>3

\* The recursion of Only, and the prefix of a list it has read.
Filter1(f, list, ids, n) ==
  IF n = 0 THEN <<>>
  ELSE IF list[n] \in ids THEN Append(f[n - 1], list[n]) ELSE f[n - 1]
Filters(f, list, ids, m) == f = [n \in 0..m |-> Filter1(f, list, ids, n)]
FirstOf(list, n) == {list[i] : i \in 1..n}

LEMMA FilterExists ==
  ASSUME NEW list, NEW ids, NEW n \in Nat
  PROVE  \E f : Filters(f, list, ids, n)
<1> DEFINE Bad == {m \in Nat : ~\E f : Filters(f, list, ids, m)}
<1> SUFFICES ASSUME Bad # {} PROVE FALSE
  OBVIOUS
<1>1. PICK m \in Bad : \A k \in Bad : m <= k
  <2>1. Bad \in SUBSET Nat
    OBVIOUS
  <2> HIDE DEF Bad
  <2> QED
    BY <2>1, LeastOfSome
<1>2. m \in Nat /\ ~\E f : Filters(f, list, ids, m)
  OBVIOUS
<1>3. m # 0
  <2> DEFINE f == [k \in 0..0 |-> <<>>]
  <2>1. Filters(f, list, ids, 0)
    BY DEF Filters, Filter1
  <2> QED
    BY <1>2, <2>1
<1>4. m - 1 \in Nat /\ ~(m <= m - 1)
  BY <1>2, <1>3
<1>5. PICK f : Filters(f, list, ids, m - 1)
  BY <1>1, <1>4
<1> DEFINE g == [k \in 0..m |-> IF k = m THEN Filter1(f, list, ids, m) ELSE f[k]]
<1>6. \A k \in 0..m : g[k] = Filter1(g, list, ids, k)
  <2> TAKE k \in 0..m
  <2>1. k = 0 \/ (k - 1 \in 0..m /\ k - 1 # m /\ g[k - 1] = f[k - 1])
    BY <1>2
  <2>2. Filter1(g, list, ids, k) = Filter1(f, list, ids, k)
    BY <2>1 DEF Filter1
  <2>3. CASE k = m
    BY <2>2, <2>3
  <2>4. CASE k # m
    <3>1. k \in 0..(m - 1)
      BY <1>2, <2>4
    <3>2. f[k] = Filter1(f, list, ids, k)
      BY <1>5, <3>1 DEF Filters
    <3> QED
      BY <2>2, <2>4, <3>2
  <2> QED
    BY <2>3, <2>4
<1>7. Filters(g, list, ids, m)
  <2>1. g = [k \in 0..m |-> g[k]]
    OBVIOUS
  <2> HIDE DEF g
  <2> QED
    BY <1>6, <2>1 DEF Filters
<1> QED
  BY <1>2, <1>7

\* Only keeps the entries of a list that are among ids, each once.
LEMMA OnlyKeeps ==
  ASSUME NEW list, IsList(list), NEW ids
  PROVE  IsList(Only(list, ids)) /\ IdsOf(Only(list, ids)) = IdsOf(list) \cap ids
<1> DEFINE L == Len(list)
<1>1. L \in Nat /\ DOMAIN list = 1..L /\ \A i \in 1..L : list[i] \in Id
  BY DEF IsList
<1>2. PICK f : Filters(f, list, ids, L) /\ Only(list, ids) = f[L]
  <2> DEFINE c == CHOOSE g : Filters(g, list, ids, Len(list))
  <2>1. \E g : Filters(g, list, ids, Len(list))
    BY <1>1, FilterExists
  <2>2. Filters(c, list, ids, Len(list))
    BY <2>1
  <2>3. Only(list, ids) = c[Len(list)]
    BY SMT DEF Only, Filters, Filter1
  <2> HIDE DEF c
  <2> QED
    BY <2>2, <2>3
<1> DEFINE Good(n) == IsList(f[n]) /\ IdsOf(f[n]) = FirstOf(list, n) \cap ids
           Bad == {n \in 0..L : ~Good(n)}
<1>3. Bad = {}
  <2> SUFFICES ASSUME Bad # {} PROVE FALSE
    OBVIOUS
  <2>1. PICK n \in Bad : \A k \in Bad : n <= k
    <3>1. Bad \in SUBSET Nat
      BY <1>1
    <3> HIDE DEF Bad
    <3> QED
      BY <3>1, LeastOfSome
  <2>2. n \in 0..L /\ ~Good(n)
    BY <2>1
  <2>3. f[n] = Filter1(f, list, ids, n)
    BY <1>2, <2>2 DEF Filters
  <2>4. n # 0
    <3> SUFFICES ASSUME n = 0 PROVE FALSE
      OBVIOUS
    <3>1. f[n] = <<>>
      BY <2>3 DEF Filter1
    <3>2. FirstOf(list, n) = {}
      BY DEF FirstOf
    <3>3. Good(n)
      BY <3>1, <3>2 DEF IsList, Injective, IdsOf
    <3> QED
      BY <2>2, <3>3
  <2> DEFINE p == n - 1
             e == list[n]
  <2>5. p \in 0..L /\ ~(n <= p) /\ n \in 1..L
    BY <1>1, <2>2, <2>4
  <2>6. Good(p)
    BY <2>1, <2>5
  <2>7. FirstOf(list, n) = FirstOf(list, p) \cup {e}
    BY <1>1, <2>5 DEF FirstOf
  <2>8. e \notin FirstOf(list, p)
    BY <1>1, <2>5 DEF FirstOf, IsList, Injective
  <2>9. CASE e \notin ids
    <3>1. f[n] = f[p]
      BY <2>3, <2>4, <2>9 DEF Filter1
    <3>2. Good(n)
      BY <2>6, <2>7, <2>9, <3>1
    <3> QED
      BY <2>2, <3>2
  <2>10. CASE e \in ids
    <3> DEFINE q == f[p]
               r == Append(q, e)
    <3>1. f[n] = r
      BY <2>3, <2>4, <2>10 DEF Filter1
    <3>2. q \in Seq(Id) /\ Injective(q) /\ e \in Id /\ e \notin IdsOf(q)
      BY <1>1, <2>5, <2>6, <2>8 DEF IsList
    <3> HIDE DEF q, e
    <3>3. /\ r \in Seq(Id) /\ Len(r) = Len(q) + 1 /\ Len(q) \in Nat
          /\ DOMAIN q = 1..Len(q) /\ DOMAIN r = 1..(Len(q) + 1)
          /\ \A i \in 1..Len(q) : r[i] = q[i]
          /\ r[Len(q) + 1] = e
      BY <3>2
    <3> HIDE DEF r
    <3>4. IdsOf(r) = IdsOf(q) \cup {e}
      BY <3>3 DEF IdsOf
    <3>5. Injective(r)
      BY <3>2, <3>3 DEF Injective, IdsOf
    <3>6. Good(n)
      BY <2>6, <2>7, <2>10, <3>1, <3>3, <3>4, <3>5 DEF IsList, q
    <3> QED
      BY <2>2, <3>6
  <2> QED
    BY <2>9, <2>10
<1>4. L \in 0..L
  BY <1>1
<1>5. Good(L)
  BY <1>3, <1>4
<1>6. IdsOf(list) = FirstOf(list, L)
  BY <1>1 DEF IdsOf, FirstOf
<1> QED
  BY <1>2, <1>5, <1>6

\* A list with an entry it did not have, and one with those of another.
LEMMA JoinedLists ==
  ASSUME NEW a, IsList(a), NEW b, IsList(b), IdsOf(a) \cap IdsOf(b) = {}
  PROVE  IsList(a \o b) /\ IdsOf(a \o b) = IdsOf(a) \cup IdsOf(b)
<1> DEFINE n == Len(a)
           m == Len(b)
           r == a \o b
<1>1. /\ n \in Nat /\ m \in Nat /\ r \in Seq(Id)
      /\ DOMAIN a = 1..n /\ DOMAIN b = 1..m /\ DOMAIN r = 1..(n + m)
      /\ \A i \in 1..(n + m) : r[i] = IF i <= n THEN a[i] ELSE b[i - n]
  BY DEF IsList
<1> HIDE DEF n, m, r
<1>2. /\ \A i \in 1..n : i \in 1..(n + m) /\ r[i] = a[i]
      /\ \A i \in 1..m : i + n \in 1..(n + m) /\ r[i + n] = b[i]
      /\ \A i \in 1..(n + m) : i \in 1..n \/ (i - n \in 1..m /\ r[i] = b[i - n])
  BY <1>1
<1>3. IdsOf(r) \subseteq IdsOf(a) \cup IdsOf(b)
  BY <1>1, <1>2 DEF IdsOf
<1>4. IdsOf(a) \cup IdsOf(b) \subseteq IdsOf(r)
  BY <1>1, <1>2, SMTT(30) DEF IdsOf
<1>5. ASSUME NEW i \in 1..(n + m), NEW j \in 1..(n + m), r[i] = r[j]
      PROVE  i = j
  <2>1. CASE i \in 1..n /\ j \in 1..n
    BY <1>1, <1>2, <1>5, <2>1 DEF IsList, Injective
  <2>2. CASE i \notin 1..n /\ j \notin 1..n
    <3> DEFINE x == i - n
               y == j - n
    <3>1. x \in 1..m /\ y \in 1..m /\ b[x] = b[y]
      BY <1>2, <1>5, <2>2
    <3>2. x = y
      BY <1>1, <3>1 DEF IsList, Injective
    <3> QED
      BY <1>1, <3>2
  <2>3. CASE ~(i \in 1..n <=> j \in 1..n)
    <3>1. \A x \in 1..n, y \in 1..m : a[x] # b[y]
      BY <1>1 DEF IdsOf
    <3> QED
      BY <1>2, <1>5, <2>3, <3>1
  <2> QED
    BY <2>1, <2>2, <2>3
<1>6. IsList(r)
  BY <1>1, <1>5 DEF IsList, Injective
<1> QED
  BY <1>3, <1>4, <1>6 DEF r

LEMMA LongerList ==
  ASSUME NEW a, IsList(a), NEW e \in Id, e \notin IdsOf(a)
  PROVE  IsList(Append(a, e)) /\ IdsOf(Append(a, e)) = IdsOf(a) \cup {e}
<1> DEFINE b == <<e>>
<1>1. IsList(b) /\ IdsOf(b) = {e}
  BY DEF IsList, Injective, IdsOf
<1>2. Append(a, e) = a \o b
  BY DEF IsList
<1> HIDE DEF b
<1> QED
  BY <1>1, <1>2, JoinedLists

-----------------------------------------------------------------------------
(* What holds of the lists of a store: B is the set of workspaces that were  *)
(* ever built, L those that were listed, removed or dismissed, and f counts  *)
(* the failures so far.                                                      *)

SyncedIds(x) == IF x = Never THEN {} ELSE IdsOf(x)

ListsOK(s, B, L) ==
  /\ s.ver \in Nat /\ s.attempts \in Nat /\ s.retry \in BOOLEAN
  /\ s.synced \in RefList \cup {Never}
  /\ s.order \in RefList
  /\ s.loaded \subseteq Entries(s)
  /\ s.unpub \subseteq s.loaded
  /\ s.arriving \subseteq s.watched
  /\ s.loaded \cup s.known \cup s.arriving \cup SyncedIds(s.synced) \subseteq B
  /\ s.loaded \cup s.arriving \subseteq s.unpub \cup L

\* The call in flight.
Syncing(s) == s.cur # NoCall /\ s.cur.op = "sync"
CallOK(s, B) ==
  Syncing(s) => /\ s.cur.refs \in RefList /\ s.cur.prev \in RefList \cup {Never}
                /\ IdsOf(s.cur.refs) \cup SyncedIds(s.cur.prev) \subseteq B

\* An operation on a workspace that is or was on show.
Claims(j) == j.pc # "none" /\ (j.op = "remove" \/ j.pc \in {"writing", "deleting"})
ClaimsOK(s, B, L) ==
  \A k \in Slot : Claims(s.job[k]) => s.job[k].id \in B /\ s.job[k].id \in s.unpub \cup L

\* No list that counts as synced names an unpublished workspace, but for the
\* one that is being sent.
Unsynced(s) ==
  IF Syncing(s)
  THEN /\ s.unpub \cap SyncedIds(s.cur.prev) = {}
       /\ s.unpub \cap SyncedIds(s.synced) \subseteq IdsOf(s.cur.refs)
  ELSE s.unpub \cap SyncedIds(s.synced) = {}

\* Whether a sync is on its way: queued, or after a file is written.
SyncQueued(s) == \E i \in 1..Len(s.queue) : s.queue[i].op = "sync"
AnyWriting(s) == \E k \in Slot : s.job[k].pc = "writing"
Coming(s) == SyncQueued(s) \/ AnyWriting(s)

Retried(s, f) ==
  /\ Syncing(s) => Coming(s) \/ s.unpub \subseteq IdsOf(s.cur.refs)
  /\ f = 0 /\ s.attempts < MaxAttempts /\ ~s.retry /\ ~Coming(s)
       => s.unpub \subseteq IF Syncing(s) THEN IdsOf(s.cur.refs) ELSE {}

WinOK(s, f, B, L) ==
  ListsOK(s, B, L) /\ CallOK(s, B) /\ ClaimsOK(s, B, L) /\ Unsynced(s) /\ Retried(s, f)

LEMMA WinGrows ==
  ASSUME NEW s, NEW f, NEW B, NEW L, WinOK(s, f, B, L),
         NEW g, g = 0 => f = 0, NEW C, B \subseteq C, NEW M, L \subseteq M
  PROVE  WinOK(s, g, C, M)
<1>1. ListsOK(s, C, M)
  BY DEF WinOK, ListsOK
<1>2. CallOK(s, C) /\ ClaimsOK(s, C, M) /\ Unsynced(s)
  BY DEF WinOK, CallOK, ClaimsOK
<1>3. Retried(s, g)
  BY DEF WinOK, Retried
<1> QED
  BY <1>1, <1>2, <1>3 DEF WinOK

-----------------------------------------------------------------------------
(* The functions on the lists of a store.                                  *)

\* What is left alone by a change of the calls and operations.
SameLists(t, s) ==
  /\ Shape(t) /\ t.ver = s.ver /\ t.synced = s.synced /\ t.order = s.order
  /\ t.loaded = s.loaded /\ t.known = s.known /\ t.unpub = s.unpub
  /\ t.watched = s.watched /\ t.arriving = s.arriving
  /\ t.attempts = s.attempts /\ t.retry = s.retry

LEMMA CallsKeepLists ==
  ASSUME NEW s, Shape(s), NEW K, NEW k, NEW x
  PROVE  /\ SameLists(SetPc(s, K, x), s) /\ SameLists(EndJob(s, k), s)
         /\ SameLists(EnqueueOp(s, x, K), s) /\ SameLists(EnqueueSync(s, K), s)
         /\ SameLists([s EXCEPT !.cur = x], s) /\ SameLists([s EXCEPT !.queue = x], s)
         /\ SameLists([s EXCEPT !.job[k] = x], s)
<1>1. SameLists(SetPc(s, K, x), s) /\ SameLists(EndJob(s, k), s)
  BY DEF SetPc, EndJob, SameLists, Shape, Fields
<1>2. SameLists(EnqueueOp(s, x, K), s)
  BY DEF EnqueueOp, SameLists, Shape, Fields
<1>3. SameLists(EnqueueSync(s, K), s)
  BY DEF EnqueueSync, SameLists, Shape, Fields
<1>4. /\ SameLists([s EXCEPT !.cur = x], s) /\ SameLists([s EXCEPT !.queue = x], s)
      /\ SameLists([s EXCEPT !.job[k] = x], s)
  BY DEF SameLists, Shape, Fields
<1> QED
  BY <1>1, <1>2, <1>3, <1>4

LEMMA SameListsTwice ==
  ASSUME NEW s, NEW t, NEW u, SameLists(t, s), SameLists(u, t)
  PROVE  SameLists(u, s)
BY DEF SameLists

LEMMA SameListsAreOK ==
  ASSUME NEW s, NEW t, NEW B, NEW L, SameLists(t, s), ListsOK(s, B, L)
  PROVE  ListsOK(t, B, L)
BY DEF SameLists, ListsOK, Entries

\* The sets a sync depends on.
SameBooks(t, s) ==
  t.unpub = s.unpub /\ t.synced = s.synced /\ t.attempts = s.attempts /\ t.retry = s.retry

LEMMA PutEntryLists ==
  ASSUME NEW s, Shape(s), NEW B, NEW L, ListsOK(s, B, L), NEW id \in Id
  PROVE  /\ ListsOK(PutEntry(s, id), B, L) /\ id \in Entries(PutEntry(s, id))
         /\ Shape(PutEntry(s, id)) /\ SameBooks(PutEntry(s, id), s)
         /\ PutEntry(s, id).loaded = s.loaded
<1> DEFINE t == PutEntry(s, id)
<1>1. /\ t.order = IF id \in Entries(s) THEN s.order ELSE Append(s.order, id)
      /\ Shape(t) /\ t.ver = s.ver /\ t.synced = s.synced
      /\ t.loaded = s.loaded /\ t.known = s.known /\ t.unpub = s.unpub
      /\ t.watched = s.watched /\ t.arriving = s.arriving
      /\ t.attempts = s.attempts /\ t.retry = s.retry
  BY DEF PutEntry, Shape, Fields
<1> HIDE DEF t
<1>2. IsList(s.order)
  BY RefListIsList DEF ListsOK
<1>3. IsList(t.order) /\ IdsOf(t.order) = IdsOf(s.order) \cup {id}
  BY <1>1, <1>2, LongerList DEF Entries
<1>4. t.order \in RefList
  BY <1>3, RefListIsList
<1> QED
  BY <1>1, <1>3, <1>4 DEF t, ListsOK, Entries, SameBooks

LEMMA PutLoadedLists ==
  ASSUME NEW s, Shape(s), NEW B \in SUBSET Id, NEW L, ListsOK(s, B, L),
         NEW id \in B, id \in s.unpub \cup L
  PROVE  /\ ListsOK(PutLoaded(s, id), B, L) /\ SameBooks(PutLoaded(s, id), s)
         /\ PutLoaded(s, id).loaded = s.loaded \cup {id}
<1> DEFINE u == PutEntry(s, id)
           t == PutLoaded(s, id)
<1>1. /\ ListsOK(u, B, L) /\ id \in Entries(u)
      /\ Shape(u) /\ SameBooks(u, s) /\ u.loaded = s.loaded
  BY PutEntryLists
<1>2. t = [u EXCEPT !.loaded = @ \cup {id}]
  BY DEF PutLoaded
<1> HIDE DEF t, u
<1>3. /\ t.order = u.order /\ t.loaded = u.loaded \cup {id}
      /\ t.ver = u.ver /\ t.synced = u.synced /\ t.known = u.known /\ t.unpub = u.unpub
      /\ t.watched = u.watched /\ t.arriving = u.arriving
      /\ t.attempts = u.attempts /\ t.retry = u.retry
  BY <1>1, <1>2 DEF Shape, Fields
<1> QED
  BY <1>1, <1>3 DEF t, ListsOK, Entries, SameBooks

LEMMA PutPlaceholderLists ==
  ASSUME NEW s, Shape(s), NEW B, NEW L, ListsOK(s, B, L), NEW id \in Id, id \notin s.loaded
  PROVE  /\ ListsOK(PutPlaceholder(s, id), B, L) /\ SameBooks(PutPlaceholder(s, id), s)
         /\ PutPlaceholder(s, id).loaded = s.loaded
<1> DEFINE u == PutEntry(s, id)
           t == PutPlaceholder(s, id)
<1>1. /\ ListsOK(u, B, L) /\ Shape(u) /\ SameBooks(u, s) /\ u.loaded = s.loaded
  BY PutEntryLists
<1>2. t = [u EXCEPT !.loaded = @ \ {id}]
  BY DEF PutPlaceholder
<1> HIDE DEF t, u
<1>3. /\ t.order = u.order /\ t.loaded = u.loaded
      /\ t.ver = u.ver /\ t.synced = u.synced /\ t.known = u.known /\ t.unpub = u.unpub
      /\ t.watched = u.watched /\ t.arriving = u.arriving
      /\ t.attempts = u.attempts /\ t.retry = u.retry
  BY <1>1, <1>2 DEF Shape, Fields
<1> QED
  BY <1>1, <1>3 DEF t, ListsOK, Entries, SameBooks

LEMMA DeleteEntryLists ==
  ASSUME NEW s, Shape(s), NEW B, NEW L, ListsOK(s, B, L), NEW id, id \notin s.loaded
  PROVE  /\ ListsOK(DeleteEntry(s, id), B, L) /\ SameBooks(DeleteEntry(s, id), s)
         /\ DeleteEntry(s, id).loaded = s.loaded
<1> DEFINE t == DeleteEntry(s, id)
<1>1. /\ t.order = Only(s.order, Entries(s) \ {id}) /\ t.loaded = s.loaded
      /\ t.ver = s.ver /\ t.synced = s.synced /\ t.known = s.known /\ t.unpub = s.unpub
      /\ t.watched = s.watched /\ t.arriving = s.arriving
      /\ t.attempts = s.attempts /\ t.retry = s.retry
  BY DEF DeleteEntry, Shape, Fields
<1> HIDE DEF t
<1>2. IsList(t.order) /\ IdsOf(t.order) = Entries(s) \ {id}
  BY <1>1, OnlyKeeps, RefListIsList DEF ListsOK, Entries
<1>3. t.order \in RefList
  BY <1>2, RefListIsList
<1> QED
  BY <1>1, <1>2, <1>3 DEF t, ListsOK, Entries, SameBooks

LEMMA EnsureWatchLists ==
  ASSUME NEW s, Shape(s), NEW B, NEW L, ListsOK(s, B, L),
         NEW ids \in SUBSET B, ids \subseteq s.unpub \cup L
  PROVE  /\ ListsOK(EnsureWatch(s, ids), B, L) /\ SameBooks(EnsureWatch(s, ids), s)
         /\ EnsureWatch(s, ids).loaded = s.loaded
         /\ EnsureWatch(s, ids).order = s.order /\ Shape(EnsureWatch(s, ids))
<1> DEFINE t == EnsureWatch(s, ids)
<1>1. /\ t.watched = s.watched \cup ids
      /\ t.arriving = s.arriving \cup ((ids \ s.watched) \cap (files \ s.loaded))
      /\ t.loaded = s.loaded /\ t.order = s.order
      /\ t.ver = s.ver /\ t.synced = s.synced /\ t.known = s.known /\ t.unpub = s.unpub
      /\ t.attempts = s.attempts /\ t.retry = s.retry /\ Shape(t)
  BY DEF EnsureWatch, Shape, Fields
<1> HIDE DEF t
<1> QED
  BY <1>1 DEF t, ListsOK, Entries, SameBooks

LEMMA RemovedLists ==
  ASSUME NEW s, Shape(s), NEW B, NEW L, ListsOK(s, B, L), NEW gone
  PROVE  LET t == OnWorkspaceRemoved(s, gone)
         IN  /\ ListsOK(t, B, L) /\ Shape(t)
             /\ t.unpub = s.unpub \ gone /\ t.loaded = s.loaded \ gone
             /\ t.synced = s.synced /\ t.attempts = s.attempts /\ t.retry = s.retry
<1> DEFINE t == OnWorkspaceRemoved(s, gone)
<1>1. /\ t.order = Only(s.order, Entries(s) \ gone) /\ t.loaded = s.loaded \ gone
      /\ t.ver = s.ver /\ t.synced = s.synced /\ t.known = s.known \ gone
      /\ t.unpub = s.unpub \ gone
      /\ t.watched = s.watched \ gone /\ t.arriving = s.arriving \ gone
      /\ t.attempts = s.attempts /\ t.retry = s.retry /\ Shape(t)
  BY DEF OnWorkspaceRemoved, Shape, Fields
<1> HIDE DEF t
<1>2. IsList(t.order) /\ IdsOf(t.order) = Entries(s) \ gone
  BY <1>1, OnlyKeeps, RefListIsList DEF ListsOK, Entries
<1>3. t.order \in RefList
  BY <1>2, RefListIsList
<1>4. ListsOK(t, B, L)
  BY <1>1, <1>2, <1>3 DEF ListsOK, Entries
<1> QED
  BY <1>1, <1>4 DEF t

\* reconcileRefs forgets no workspace that was not published, and publishes
\* those the daemon lists.
LEMMA ReconcileLists ==
  ASSUME NEW s, Shape(s), NEW B, NEW L, ListsOK(s, B, L), NEW list \in RefList,
         IdsOf(list) \subseteq B, IdsOf(list) \subseteq L
  PROVE  LET t == ReconcileRefs(s, list)
         IN  /\ ListsOK(t, B, L) /\ t.unpub = s.unpub \ IdsOf(list)
             /\ t.loaded \subseteq s.loaded /\ s.loaded \ t.loaded \subseteq L
             /\ t.synced = s.synced /\ t.attempts = s.attempts /\ t.retry = s.retry
<1> DEFINE ids == IdsOf(list)
           u == EnsureWatch(s, ids)
           v == [u EXCEPT !.known = ids, !.unpub = @ \ ids,
                          !.order = @ \o Only(list, ids \ Entries(s))]
           gone == RemovedElsewhere(v, ids)
           t == OnWorkspaceRemoved(v, gone)
<1>1. t = ReconcileRefs(s, list)
  BY DEF ReconcileRefs
<1>2. ListsOK(u, B, L) /\ SameBooks(u, s) /\ u.loaded = s.loaded /\ u.order = s.order /\ Shape(u)
  BY EnsureWatchLists
<1> HIDE DEF u
<1>3. /\ v.known = ids /\ v.unpub = u.unpub \ ids
      /\ v.order = u.order \o Only(list, ids \ Entries(s))
      /\ v.loaded = u.loaded /\ v.ver = u.ver /\ v.synced = u.synced
      /\ v.watched = u.watched /\ v.arriving = u.arriving
      /\ v.attempts = u.attempts /\ v.retry = u.retry /\ Shape(v)
  BY <1>2 DEF Shape, Fields
<1> HIDE DEF v
<1>4. v.order \in RefList /\ IdsOf(v.order) = Entries(s) \cup ids
  <2> DEFINE more == Only(list, ids \ Entries(s))
  <2>1. IsList(more) /\ IdsOf(more) = ids \ Entries(s)
    BY OnlyKeeps, RefListIsList
  <2>2. IsList(s.order) /\ IdsOf(s.order) = Entries(s)
    BY RefListIsList DEF ListsOK, Entries
  <2> HIDE DEF more
  <2>3. IsList(s.order \o more) /\ IdsOf(s.order \o more) = Entries(s) \cup (ids \ Entries(s))
    <3>1. IdsOf(s.order) \cap IdsOf(more) = {}
      BY <2>1, <2>2
    <3> QED
      BY <2>1, <2>2, <3>1, JoinedLists
  <2>4. v.order = s.order \o more
    BY <1>2, <1>3 DEF more
  <2> QED
    BY <2>3, <2>4, RefListIsList
<1>5. ListsOK(v, B, L)
  BY <1>2, <1>3, <1>4 DEF ListsOK, Entries, SameBooks
<1>6. gone = v.loaded \ (ids \cup v.unpub)
  BY DEF RemovedElsewhere
<1> HIDE DEF gone
<1>7. /\ ListsOK(t, B, L) /\ Shape(t)
      /\ t.unpub = v.unpub \ gone /\ t.loaded = v.loaded \ gone
      /\ t.synced = v.synced /\ t.attempts = v.attempts /\ t.retry = v.retry
  BY <1>3, <1>5, RemovedLists
<1> HIDE DEF t
<1>8. t.unpub = s.unpub \ ids /\ s.loaded \ t.loaded \subseteq L /\ t.loaded \subseteq s.loaded
  <2>1. s.loaded \subseteq s.unpub \cup L
    BY DEF ListsOK
  <2> QED
    BY <1>2, <1>3, <1>6, <1>7, <2>1 DEF SameBooks
<1>9. t.synced = s.synced /\ t.attempts = s.attempts /\ t.retry = s.retry
  BY <1>2, <1>3, <1>7 DEF SameBooks
<1> QED
  BY <1>1, <1>7, <1>8, <1>9

\* currentRefs offers every loaded workspace, and only what was ever built.
LEMMA CurrentRefsLists ==
  ASSUME NEW s, NEW B, NEW L, ListsOK(s, B, L)
  PROVE  /\ CurrentRefs(s) \in RefList
         /\ s.loaded \subseteq IdsOf(CurrentRefs(s)) /\ IdsOf(CurrentRefs(s)) \subseteq B
<1>1. IsList(s.order)
  BY RefListIsList DEF ListsOK
<1>2. /\ IsList(CurrentRefs(s))
      /\ IdsOf(CurrentRefs(s)) = IdsOf(s.order) \cap (s.loaded \cup s.known)
  BY <1>1, OnlyKeeps DEF CurrentRefs
<1> QED
  BY <1>2, RefListIsList DEF ListsOK, Entries

-----------------------------------------------------------------------------
(* How the operations of a store move on.                                  *)

\* An operation between its start and the workspace it builds.
Creating(j) == j.pc \in {"locking", "working"} /\ j.op # "remove"

JobFollows(j, i) ==
  j.pc # "none" => /\ i.pc # "none" /\ j.id = i.id
                   /\ Creating(j) => Creating(i)
                   /\ Claims(j) => Claims(i)
Follows(t, s) == \A k \in Slot : JobFollows(t.job[k], s.job[k])

LEMMA FollowsTwice ==
  ASSUME NEW s, NEW t, NEW u, Follows(t, s), Follows(u, t)
  PROVE  Follows(u, s)
BY DEF Follows, JobFollows

LEMMA SameJobsFollow ==
  ASSUME NEW s, NEW t, t.job = s.job
  PROVE  Follows(t, s)
BY DEF Follows, JobFollows

LEMMA ClaimsFollow ==
  ASSUME NEW s, NEW t, Follows(t, s), NEW B, NEW L, ClaimsOK(s, B, L),
         s.unpub \subseteq t.unpub \cup L
  PROVE  ClaimsOK(t, B, L)
<1> SUFFICES ASSUME NEW k \in Slot, Claims(t.job[k])
             PROVE  t.job[k].id \in B /\ t.job[k].id \in t.unpub \cup L
  BY DEF ClaimsOK
<1>1. t.job[k].pc # "none"
  BY DEF Claims
<1>2. Claims(s.job[k]) /\ t.job[k].id = s.job[k].id
  BY <1>1 DEF Follows, JobFollows
<1> QED
  BY <1>2 DEF ClaimsOK

\* The operations in D move on to pc, and others stay.
MovedTo(t, s, D, pc) ==
  /\ \A k \in D : /\ IsJob(s.job[k]) /\ t.job[k] = [s.job[k] EXCEPT !.pc = pc]
                  /\ pc = "deleting" => s.job[k].op = "remove"
                  /\ pc = "working" => s.job[k].pc = "locking"
  /\ \A k \in Slot \ D : t.job[k] = s.job[k]

LEMMA MovedFollow ==
  ASSUME NEW s, NEW t, NEW D, NEW pc \in {"syncing", "unlocking", "deleting", "working"},
         MovedTo(t, s, D, pc)
  PROVE  Follows(t, s)
<1> SUFFICES ASSUME NEW k \in Slot PROVE JobFollows(t.job[k], s.job[k])
  BY DEF Follows
<1>1. CASE k \in D
  <2> DEFINE i == s.job[k]
             j == t.job[k]
  <2>1. j.pc = pc /\ j.op = i.op /\ j.id = i.id /\ i.pc # "none"
    BY <1>1 DEF MovedTo, IsJob, Pcs
  <2>2. (pc = "deleting" => i.op = "remove") /\ (pc = "working" => i.pc = "locking")
    BY <1>1 DEF MovedTo
  <2> HIDE DEF i, j
  <2>3. JobFollows(j, i)
    BY <2>1, <2>2 DEF JobFollows, Creating, Claims
  <2> QED
    BY <2>3 DEF i, j
<1>2. CASE k \notin D
  BY <1>2 DEF MovedTo, JobFollows
<1> QED
  BY <1>1, <1>2

\* What an operation starts or ends does not take a sync off its way.
SyncsStay(t, s) ==
  /\ t.cur = s.cur
  /\ SyncQueued(s) => SyncQueued(t)
  /\ \A k \in Slot : s.job[k].pc = "writing" => t.job[k].pc = "writing"

LEMMA SyncsStayTwice ==
  ASSUME NEW s, NEW t, NEW u, SyncsStay(t, s), SyncsStay(u, t)
  PROVE  SyncsStay(u, s)
BY DEF SyncsStay

LEMMA SameSyncsStay ==
  ASSUME NEW s, NEW t, t.job = s.job, t.queue = s.queue, t.cur = s.cur
  PROVE  SyncsStay(t, s)
BY DEF SyncsStay, SyncQueued

LEMMA ComingStays ==
  ASSUME NEW s, NEW t, SyncsStay(t, s), Coming(s)
  PROVE  Coming(t)
BY DEF SyncsStay, Coming, AnyWriting

LEMMA SetPcFields ==
  ASSUME NEW s, Shape(s), JobsOK(s), NEW K, NEW pc
  PROVE  /\ SetPc(s, K, pc).queue = s.queue /\ SetPc(s, K, pc).cur = s.cur
         /\ \A k \in Slot \cap K : SetPc(s, K, pc).job[k] = [s.job[k] EXCEPT !.pc = pc]
         /\ \A k \in Slot \ K : SetPc(s, K, pc).job[k] = s.job[k]
BY DEF SetPc, Shape, Fields

LEMMA SetPcFollows ==
  ASSUME NEW s, Shape(s), JobsOK(s), NEW K \in SUBSET Slot, NEW pc,
         \A k \in K : s.job[k].pc # "none",
         pc \in {"syncing", "unlocking", "deleting", "working"},
         pc = "deleting" => \A k \in K : s.job[k].op = "remove",
         pc = "working" => \A k \in K : s.job[k].pc = "locking"
  PROVE  /\ Follows(SetPc(s, K, pc), s) /\ JobsOK(SetPc(s, K, pc))
         /\ (\A k \in K : s.job[k].pc # "writing") => SyncsStay(SetPc(s, K, pc), s)
<1> DEFINE t == SetPc(s, K, pc)
<1>1. /\ t.queue = s.queue /\ t.cur = s.cur
      /\ \A k \in K : t.job[k] = [s.job[k] EXCEPT !.pc = pc]
      /\ \A k \in Slot \ K : t.job[k] = s.job[k]
  BY SetPcFields
<1>2. t.job = [k \in Slot |-> IF k \in K THEN [s.job[k] EXCEPT !.pc = pc] ELSE s.job[k]]
  BY DEF SetPc, Shape, Fields
<1> HIDE DEF t
<1>3. \A k \in K : IsJob(s.job[k])
  <2> TAKE k \in K
  <2>1. s.job[k] = NoJob \/ IsJob(s.job[k])
    BY DEF JobsOK
  <2>2. s.job[k].pc # "none"
    OBVIOUS
  <2> QED
    BY <2>1, <2>2 DEF NoJob
<1>4. Follows(t, s)
  <2>1. MovedTo(t, s, K, pc)
    BY <1>1, <1>3 DEF MovedTo
  <2> QED
    BY <2>1, MovedFollow
<1>5. (\A k \in K : s.job[k].pc # "writing") => SyncsStay(t, s)
  BY <1>1 DEF SyncsStay, SyncQueued
<1>6. JobsOK(t)
  <2>1. \A k \in Slot : /\ t.job[k] = NoJob \/ IsJob(t.job[k])
                        /\ t.job[k].pc = "locking" => t.job[k].op # "root"
    <3> TAKE k \in Slot
    <3>1. CASE k \in K
      <4>1. t.job[k] = [s.job[k] EXCEPT !.pc = pc] /\ IsJob(s.job[k])
        BY <1>1, <1>3, <3>1
      <4>2. IsJob(t.job[k]) /\ t.job[k].pc = pc
        BY <4>1 DEF IsJob, Pcs
      <4> QED
        BY <4>2
    <3>2. CASE k \notin K
      BY <1>1, <3>2 DEF JobsOK
    <3> QED
      BY <3>1, <3>2
  <2>2. DOMAIN t.job = Slot /\ t.job = [k \in Slot |-> t.job[k]]
    BY <1>2
  <2> QED
    BY <2>1, <2>2 DEF JobsOK
<1> QED
  BY <1>4, <1>5, <1>6 DEF t

LEMMA EndJobFollows ==
  ASSUME NEW s, Shape(s), JobsOK(s), NEW k \in Slot
  PROVE  /\ Follows(EndJob(s, k), s)
         /\ s.job[k].pc # "writing" => SyncsStay(EndJob(s, k), s)
<1> DEFINE t == EndJob(s, k)
<1>1. /\ t.queue = s.queue /\ t.cur = s.cur /\ t.job = [s.job EXCEPT ![k] = NoJob]
  BY DEF EndJob, Shape, Fields
<1> HIDE DEF t
<1>2. t.job[k] = NoJob /\ \A l \in Slot \ {k} : t.job[l] = s.job[l]
  BY <1>1 DEF JobsOK
<1>3. Follows(t, s)
  BY <1>2 DEF Follows, JobFollows, NoJob
<1>4. s.job[k].pc # "writing" => SyncsStay(t, s)
  BY <1>1, <1>2 DEF SyncsStay, SyncQueued
<1> QED
  BY <1>3, <1>4 DEF t

LEMMA EnqueueOpFollows ==
  ASSUME NEW s, Shape(s), s.queue \in Seq(Calls), NEW op \in {"lock", "unlock"},
         NEW D \in SUBSET Slot
  PROVE  /\ EnqueueOp(s, op, D).job = s.job
         /\ Follows(EnqueueOp(s, op, D), s) /\ SyncsStay(EnqueueOp(s, op, D), s)
<1> DEFINE t == EnqueueOp(s, op, D)
           n == Len(s.queue)
           m == Len(t.queue)
<1>1. OpsAdded(t, s, op, D, n, m)
  BY EnqueueOpAdds
<1> HIDE DEF t, n, m
<1>2. /\ t.job = s.job /\ t.cur = s.cur /\ n \in Nat /\ m \in Nat /\ n <= m
      /\ \A i \in 1..n : t.queue[i] = s.queue[i]
  BY <1>1 DEF OpsAdded
<1>3. SyncQueued(s) => SyncQueued(t)
  <2>1. \A i \in 1..n : i \in 1..m
    BY <1>2
  <2> QED
    BY <1>2, <2>1 DEF SyncQueued, n, m
<1>4. SyncsStay(t, s)
  BY <1>2, <1>3 DEF SyncsStay
<1>5. Follows(t, s)
  BY <1>2, SameJobsFollow
<1> QED
  BY <1>2, <1>4, <1>5 DEF t

LEMMA EnqueueSyncFollows ==
  ASSUME NEW s, Shape(s), s.queue \in Seq(Calls), NEW D \in SUBSET Slot
  PROVE  /\ Follows(EnqueueSync(s, D), s) /\ SyncQueued(EnqueueSync(s, D))
         /\ SyncsStay(EnqueueSync(s, D), s) /\ EnqueueSync(s, D).job = s.job
<1> DEFINE t == EnqueueSync(s, D)
           m == Len(t.queue)
<1>1. t.job = s.job /\ t.cur = s.cur /\ m \in Nat /\ m > 0 /\ t.queue[m].op = "sync"
  BY EnqueueSyncKeepsRest
<1> HIDE DEF t
<1>2. SyncQueued(t)
  <2>1. m \in 1..m
    BY <1>1
  <2> QED
    BY <1>1, <2>1 DEF SyncQueued
<1>3. Follows(t, s)
  BY <1>1, SameJobsFollow
<1>4. SyncsStay(t, s)
  BY <1>1, <1>2 DEF SyncsStay
<1> QED
  BY <1>1, <1>2, <1>3, <1>4 DEF t

\* An awaited sync is over.
LEMMA SettledFollows ==
  ASSUME NEW s, Shape(s), JobsOK(s), s.queue \in Seq(Calls), NEW K \in SUBSET Slot,
         \A k \in K : s.job[k].pc = "syncing"
  PROVE  LET t == SyncSettled(s, K)
         IN  Follows(t, s) /\ SyncsStay(t, s) /\ SameLists(t, s)
<1> DEFINE D == {k \in K : s.job[k].op = "remove"}
           U == K \ D
           a == SetPc(s, D, "deleting")
           b == SetPc(a, U, "unlocking")
           t == EnqueueOp(b, "unlock", U)
<1>1. t = SyncSettled(s, K)
  BY DEF SyncSettled
<1>2. D \in SUBSET Slot /\ U \in SUBSET Slot /\ D \cap U = {} /\ D \cup U = K
  OBVIOUS
<1>3. \A k \in D : s.job[k].op = "remove"
  OBVIOUS
<1> HIDE DEF D
<1>4. Follows(a, s) /\ SyncsStay(a, s) /\ SameLists(a, s) /\ JobsOK(a)
  <2>1. \A k \in D : s.job[k].pc # "none" /\ s.job[k].pc # "writing"
    BY <1>2
  <2> QED
    BY <1>2, <1>3, <2>1, SetPcFollows, CallsKeepLists
<1>5. a.queue = s.queue /\ \A k \in U : a.job[k] = s.job[k]
  BY <1>2, SetPcFields
<1>6. Shape(a)
  BY <1>4 DEF SameLists
<1>7. \A k \in U : a.job[k].pc # "none" /\ a.job[k].pc # "writing"
  BY <1>2, <1>5
<1> HIDE DEF a, U
<1>8. Follows(b, a) /\ SyncsStay(b, a) /\ SameLists(b, a) /\ b.queue = a.queue
  <2>1. Follows(b, a) /\ SyncsStay(b, a)
    BY <1>2, <1>4, <1>6, <1>7, SetPcFollows
  <2>2. SameLists(b, a)
    BY <1>6, CallsKeepLists
  <2>3. b.queue = a.queue
    BY <1>4, <1>6, SetPcFields
  <2> QED
    BY <2>1, <2>2, <2>3
<1> HIDE DEF b
<1>9. Shape(b) /\ b.queue \in Seq(Calls)
  BY <1>5, <1>8 DEF SameLists
<1>10. Follows(t, b) /\ SyncsStay(t, b) /\ SameLists(t, b)
  BY <1>2, <1>9, EnqueueOpFollows, CallsKeepLists
<1> HIDE DEF t
<1>11. Follows(b, s) /\ SyncsStay(b, s) /\ SameLists(b, s)
  BY <1>4, <1>8, FollowsTwice, SyncsStayTwice, SameListsTwice
<1>12. Follows(t, s) /\ SyncsStay(t, s) /\ SameLists(t, s)
  BY <1>10, <1>11, FollowsTwice, SyncsStayTwice, SameListsTwice
<1> QED
  BY <1>1, <1>12

-----------------------------------------------------------------------------
(* What keeps the lists of a window in order.                              *)

\* A step that leaves what was synced alone, and takes from the unpublished
\* workspaces at most those the daemon knows of.
LEMMA SmallStep ==
  ASSUME NEW s, NEW t, NEW f, NEW B, NEW L, WinOK(s, f, B, L), Follows(t, s), t.cur = s.cur,
         Coming(s) => Coming(t), ListsOK(t, B, L),
         t.unpub \subseteq s.unpub, s.unpub \subseteq t.unpub \cup L,
         t.synced = s.synced, t.attempts = s.attempts, t.retry = s.retry
  PROVE  WinOK(t, f, B, L)
<1>1. CallOK(t, B)
  BY DEF WinOK, CallOK, Syncing
<1>2. ClaimsOK(t, B, L)
  BY ClaimsFollow DEF WinOK
<1>3. Unsynced(t)
  BY DEF WinOK, Unsynced, Syncing
<1>4. Retried(t, f)
  BY DEF WinOK, Retried, Syncing
<1> QED
  BY <1>1, <1>2, <1>3, <1>4 DEF WinOK

\* A step of the calls and operations only.
LEMMA CallStep ==
  ASSUME NEW s, NEW t, NEW f, NEW B, NEW L, WinOK(s, f, B, L), Follows(t, s), SameLists(t, s),
         t.cur = s.cur, Coming(s) => Coming(t)
  PROVE  WinOK(t, f, B, L)
<1>1. ListsOK(t, B, L)
  BY SameListsAreOK DEF WinOK
<1> QED
  BY <1>1, SmallStep DEF SameLists

\* A call that is no sync starts or ends.
LEMMA OtherCall ==
  ASSUME NEW s, NEW t, NEW f, NEW B, NEW L, WinOK(s, f, B, L), SameLists(t, s),
         t.job = s.job, ~Syncing(s), ~Syncing(t), SyncQueued(s) => SyncQueued(t)
  PROVE  WinOK(t, f, B, L)
<1>1. ListsOK(t, B, L)
  BY SameListsAreOK DEF WinOK
<1>2. CallOK(t, B) /\ ClaimsOK(t, B, L)
  BY DEF WinOK, CallOK, ClaimsOK, SameLists
<1>3. Unsynced(t)
  BY DEF WinOK, Unsynced, SameLists
<1>4. Coming(s) => Coming(t)
  BY DEF Coming, AnyWriting
<1>5. Retried(t, f)
  BY <1>4 DEF WinOK, Retried, SameLists
<1> QED
  BY <1>1, <1>2, <1>3, <1>5 DEF WinOK

\* createWorkspace: the workspace is new to every list, and its file is coming.
IdsFollow(t, s) ==
  \A k \in Slot : t.job[k].pc # "none" =>
    /\ s.job[k].pc # "none" /\ t.job[k].id = s.job[k].id
    /\ Creating(t.job[k]) => Creating(s.job[k])

LEMMA FollowsIds ==
  ASSUME NEW s, NEW t, Follows(t, s)
  PROVE  IdsFollow(t, s)
BY DEF Follows, JobFollows, IdsFollow

LEMMA CreatedWin ==
  ASSUME NEW s, NEW f, NEW B, NEW L, WinOK(s, f, B, L), Shape(s), JobsOK(s), NEW k \in Slot,
         IsJob(s.job[k]), NEW C \in SUBSET Id, B \subseteq C,
         s.job[k].id \in C, s.job[k].id \notin B
  PROVE  LET t == CreateWorkspace(s, k)
         IN  /\ WinOK(t, f, C, L) /\ s.loaded \subseteq t.loaded
             /\ IdsFollow(t, s) /\ ~Creating(t.job[k])
<1> DEFINE id == s.job[k].id
           u == PutLoaded(s, id)
           v == [u EXCEPT !.unpub = @ \cup {id}, !.attempts = 0]
           t == SetPc(v, {k}, "writing")
<1>1. t = CreateWorkspace(s, k)
  BY DEF CreateWorkspace
<1>2. WinOK(s, f, C, L \cup {id})
  BY WinGrows
<1>3. ListsOK(u, C, L \cup {id}) /\ SameBooks(u, s) /\ u.loaded = s.loaded \cup {id}
  <2> DEFINE M == L \cup {id}
  <2>1. ListsOK(s, C, M) /\ id \in C /\ id \in s.unpub \cup M
    BY <1>2 DEF WinOK
  <2> HIDE DEF M, id
  <2>2. ListsOK(PutLoaded(s, id), C, M) /\ SameBooks(PutLoaded(s, id), s)
        /\ PutLoaded(s, id).loaded = s.loaded \cup {id}
    BY <2>1, PutLoadedLists
  <2> QED
    BY <2>2 DEF M
<1>4. SameCalls(u, s)
  BY EntriesKeepCalls
<1>5. s.loaded \cup s.arriving \subseteq s.unpub \cup L /\ u.arriving = s.arriving
  <2>1. u.arriving = s.arriving
    BY DEF PutLoaded, PutEntry, Shape, Fields
  <2> QED
    BY <2>1 DEF WinOK, ListsOK
<1> HIDE DEF u
<1>6. /\ v.unpub = s.unpub \cup {id} /\ v.attempts = 0 /\ v.loaded = u.loaded
      /\ v.order = u.order /\ v.ver = u.ver /\ v.synced = s.synced /\ v.known = u.known
      /\ v.watched = u.watched /\ v.arriving = u.arriving /\ v.retry = s.retry
      /\ v.job = s.job /\ v.queue = s.queue /\ v.cur = s.cur /\ Shape(v)
  BY <1>3, <1>4 DEF SameCalls, SameBooks, Shape, Fields
<1> HIDE DEF v
<1>7. ListsOK(v, C, L)
  BY <1>3, <1>5, <1>6 DEF ListsOK, Entries, SameBooks
<1>8. SameLists(t, v)
  BY <1>6, CallsKeepLists
<1>9. /\ t.cur = s.cur /\ t.job[k] = [s.job[k] EXCEPT !.pc = "writing"]
      /\ \A l \in Slot \ {k} : t.job[l] = s.job[l]
  BY <1>6, SetPcFields DEF JobsOK
<1> HIDE DEF t
<1>10. t.job[k].pc = "writing" /\ t.job[k].id = id /\ s.job[k].pc # "none"
  BY <1>9 DEF IsJob, Pcs
<1>11. ListsOK(t, C, L)
  BY <1>7, <1>8, SameListsAreOK
<1>12. CallOK(t, C)
  BY <1>2, <1>9 DEF WinOK, CallOK, Syncing
<1>13. t.unpub = s.unpub \cup {id} /\ t.synced = s.synced
  BY <1>6, <1>8 DEF SameLists
<1>14. ClaimsOK(t, C, L)
  <2> SUFFICES ASSUME NEW l \in Slot, Claims(t.job[l])
               PROVE  t.job[l].id \in C /\ t.job[l].id \in t.unpub \cup L
    BY DEF ClaimsOK
  <2>1. CASE l = k
    BY <1>10, <1>13, <2>1
  <2>2. CASE l # k
    BY <1>9, <1>13, <2>2 DEF WinOK, ClaimsOK
  <2> QED
    BY <2>1, <2>2
<1>15. Unsynced(t)
  <2>1. id \notin SyncedIds(s.synced) /\ (Syncing(s) => id \notin SyncedIds(s.cur.prev))
    BY DEF WinOK, ListsOK, CallOK
  <2>2. Syncing(t) <=> Syncing(s)
    BY <1>9 DEF Syncing
  <2> HIDE DEF id
  <2> QED
    BY <1>9, <1>13, <2>1, <2>2 DEF WinOK, Unsynced
<1>16. Retried(t, f)
  BY <1>10 DEF Retried, Coming, AnyWriting
<1>17. IdsFollow(t, s) /\ ~Creating(t.job[k])
  <2>1. ~Creating(t.job[k])
    BY <1>10 DEF Creating
  <2> QED
    BY <1>9, <1>10, <2>1 DEF IdsFollow
<1>18. s.loaded \subseteq t.loaded
  BY <1>3, <1>6, <1>8 DEF SameLists
<1> QED
  BY <1>1, <1>11, <1>12, <1>14, <1>15, <1>16, <1>17, <1>18 DEF WinOK

-----------------------------------------------------------------------------
(* The syncs.                                                              *)

LEMMA RefListIsNotNever ==
  ASSUME NEW l \in RefList
  PROVE  SyncedIds(l) = IdsOf(l)
BY RefSyncAssumption DEF SyncedIds

\* A sync that has nothing new to say has nothing left to publish.
LEMMA NothingToSay ==
  ASSUME NEW s, NEW B, NEW L, ListsOK(s, B, L), s.cur = NoCall, Unsynced(s),
         CurrentRefs(s) = s.synced
  PROVE  s.unpub = {}
<1>1. s.loaded \subseteq IdsOf(s.synced) /\ s.synced \in RefList
  BY CurrentRefsLists
<1>2. s.unpub \subseteq SyncedIds(s.synced)
  BY <1>1, RefListIsNotNever DEF ListsOK
<1> QED
  BY <1>2 DEF Unsynced, Syncing

LEMMA SkippedWin ==
  ASSUME NEW s, NEW f, NEW B, NEW L, ListsOK(s, B, L), ClaimsOK(s, B, L), s.cur = NoCall,
         Unsynced(s), CurrentRefs(s) = s.synced
  PROVE  WinOK(s, f, B, L)
<1>1. s.unpub = {}
  BY NothingToSay
<1>2. ~Syncing(s)
  BY DEF Syncing
<1> QED
  BY <1>1, <1>2 DEF WinOK, CallOK, Retried

LEMMA SentWin ==
  ASSUME NEW s, Shape(s), NEW f, NEW B, NEW L, ListsOK(s, B, L), ClaimsOK(s, B, L),
         s.cur = NoCall, Unsynced(s), NEW slots
  PROVE  WinOK(SendRefs(s, slots), f, B, L) /\ SendRefs(s, slots).loaded = s.loaded
<1> DEFINE t == SendRefs(s, slots)
           c == CurrentRefs(s)
<1>1. c \in RefList /\ s.loaded \subseteq IdsOf(c) /\ IdsOf(c) \subseteq B
  BY CurrentRefsLists
<1>2. /\ t.cur = [op |-> "sync", slots |-> slots, refs |-> c, expected |-> s.ver, prev |-> s.synced]
      /\ t.synced = c /\ t.job = s.job /\ t.queue = s.queue
      /\ t.order = s.order /\ t.loaded = s.loaded /\ t.ver = s.ver /\ t.known = s.known
      /\ t.unpub = s.unpub /\ t.watched = s.watched /\ t.arriving = s.arriving
      /\ t.attempts = s.attempts /\ t.retry = s.retry
  BY DEF SendRefs, Shape, Fields
<1> HIDE DEF t, c
<1>3. t.cur.op = "sync" /\ t.cur.refs = c /\ t.cur.prev = s.synced /\ t.cur # NoCall
  BY <1>2 DEF NoCall
<1> DEFINE call == t.cur
<1>4. Syncing(t)
  BY <1>3 DEF Syncing
<1>5. SyncedIds(c) = IdsOf(c)
  BY <1>1, RefListIsNotNever
<1>6. ListsOK(t, B, L)
  BY <1>1, <1>2, <1>5 DEF ListsOK, Entries
<1>7. CallOK(t, B)
  BY <1>1, <1>3 DEF CallOK, ListsOK
<1>8. ClaimsOK(t, B, L)
  BY <1>2 DEF ClaimsOK
<1>9. s.unpub \cap SyncedIds(s.synced) = {}
  BY DEF Unsynced, Syncing
<1>10. Unsynced(t)
  BY <1>2, <1>3, <1>4, <1>5, <1>9 DEF Unsynced
<1>11. Retried(t, f)
  BY <1>1, <1>2, <1>3, <1>4 DEF Retried, ListsOK
<1> QED
  BY <1>2, <1>6, <1>7, <1>8, <1>10, <1>11 DEF WinOK, t

\* scheduleRefSyncRetry leaves nothing unpublished behind unless a sync is on
\* its way, an event is awaited, or the attempts are used up.
LEMMA RetryWin ==
  ASSUME NEW s, Basic(s), NEW f, NEW B, NEW L, ListsOK(s, B, L), ClaimsOK(s, B, L),
         s.cur = NoCall, Unsynced(s), NEW locked
  PROVE  WinOK(ScheduleRetry(s, locked), f, B, L) /\ ScheduleRetry(s, locked).loaded = s.loaded
<1> DEFINE u == [s EXCEPT !.attempts = @ + 1]
           r == [u EXCEPT !.retry = TRUE]
           q == EnqueueSync(u, {})
           t == ScheduleRetry(s, locked)
<1>1. /\ Shape(u) /\ u.attempts = s.attempts + 1 /\ u.ver = s.ver /\ u.synced = s.synced
      /\ u.order = s.order /\ u.loaded = s.loaded /\ u.known = s.known /\ u.unpub = s.unpub
      /\ u.watched = s.watched /\ u.arriving = s.arriving /\ u.retry = s.retry
      /\ u.job = s.job /\ u.queue = s.queue /\ u.cur = s.cur
  BY DEF Basic, Shape, Fields
<1>2. \/ t = s /\ s.unpub = {}
      \/ t = u /\ u.attempts >= MaxAttempts
      \/ t = r
      \/ t = q
  BY DEF ScheduleRetry
<1> HIDE DEF u, t
<1>3. /\ Shape(r) /\ r.retry = TRUE /\ r.attempts = u.attempts /\ r.ver = u.ver
      /\ r.synced = u.synced /\ r.order = u.order /\ r.loaded = u.loaded /\ r.known = u.known
      /\ r.unpub = u.unpub /\ r.watched = u.watched /\ r.arriving = u.arriving
      /\ r.job = u.job /\ r.cur = u.cur
  BY <1>1 DEF Shape, Fields
<1> HIDE DEF r
<1>4. SameLists(q, u)
  BY <1>1, CallsKeepLists
<1>5. q.job = u.job /\ q.cur = u.cur /\ SyncQueued(q)
  <2>1. u.queue \in Seq(Calls)
    BY <1>1 DEF Basic, CallsTyped
  <2> QED
    BY <1>1, <2>1, EnqueueSyncFollows DEF SyncsStay
<1> HIDE DEF q
<1>6. ListsOK(u, B, L)
  BY <1>1 DEF ListsOK, Entries
<1>7. ListsOK(r, B, L)
  BY <1>3, <1>6 DEF ListsOK, Entries
<1>8. ListsOK(q, B, L)
  BY <1>4, <1>6, SameListsAreOK
<1>9. /\ t.job = s.job /\ t.cur = s.cur /\ t.unpub = s.unpub /\ t.synced = s.synced
      /\ t.loaded = s.loaded
  BY <1>1, <1>2, <1>3, <1>4, <1>5 DEF SameLists
<1>10. ListsOK(t, B, L)
  BY <1>2, <1>6, <1>7, <1>8
<1>11. ~Syncing(t)
  BY <1>9 DEF Syncing
<1>12. ClaimsOK(t, B, L) /\ CallOK(t, B)
  BY <1>9, <1>11 DEF ClaimsOK, CallOK
<1>13. Unsynced(t)
  BY <1>9, <1>11 DEF Unsynced, Syncing
<1>14. t.unpub = {} \/ t.attempts >= MaxAttempts \/ t.retry \/ SyncQueued(t)
  BY <1>2, <1>3, <1>5, <1>9
<1>15. Retried(t, f)
  <2>1. MaxAttempts \in Nat /\ t.attempts \in Nat
    BY <1>10, RefSyncAssumption DEF ListsOK
  <2>2. ~(t.attempts >= MaxAttempts /\ t.attempts < MaxAttempts)
    BY <2>1
  <2> QED
    BY <1>11, <1>14, <2>2 DEF Retried, Coming
<1> QED
  BY <1>9, <1>10, <1>12, <1>13, <1>15 DEF WinOK, t

\* The answer to the sync in flight.
LEMMA AnswerWin ==
  ASSUME NEW S, StoreInv(S), Syncing(S), NEW f, NEW B, NEW L, WinOK(S, f, B, L),
         NEW snap, snap.version \in Nat, snap.refs \in RefList,
         IdsOf(snap.refs) \subseteq B, IdsOf(snap.refs) \subseteq L
  PROVE  LET t == SyncAnswered([S EXCEPT !.cur = NoCall], S.cur, snap)
         IN  WinOK(t, f, B, L) /\ S.loaded \ t.loaded \subseteq L
<1> DEFINE call == S.cur
           s == [S EXCEPT !.cur = NoCall]
           fresh == [s EXCEPT !.ver = snap.version]
           t == SyncAnswered(s, call, snap)
<1>1. /\ Shape(fresh) /\ fresh.ver = snap.version /\ fresh.synced = S.synced
      /\ fresh.order = S.order /\ fresh.loaded = S.loaded /\ fresh.known = S.known
      /\ fresh.unpub = S.unpub /\ fresh.watched = S.watched /\ fresh.arriving = S.arriving
      /\ fresh.attempts = S.attempts /\ fresh.retry = S.retry
      /\ fresh.job = S.job /\ fresh.queue = S.queue /\ fresh.cur = NoCall
  BY DEF StoreInv, Shape, Fields
<1>2. ListsOK(fresh, B, L)
  BY <1>1 DEF WinOK, ListsOK, Entries
<1>3. ClaimsOK(fresh, B, L)
  BY <1>1 DEF WinOK, ClaimsOK
<1>4. CASE Accepted(call, snap)
  <2>1. t = [fresh EXCEPT !.unpub = @ \ IdsOf(call.refs), !.attempts = 0, !.retry = FALSE]
    BY <1>4 DEF SyncAnswered
  <2>2. call.refs = snap.refs
    BY <1>4 DEF Accepted
  <2> HIDE DEF fresh, t
  <2>3. /\ t.unpub = S.unpub \ IdsOf(call.refs) /\ t.attempts = 0 /\ t.retry = FALSE
        /\ t.ver = fresh.ver /\ t.synced = S.synced /\ t.order = fresh.order
        /\ t.loaded = fresh.loaded /\ t.known = fresh.known /\ t.watched = fresh.watched
        /\ t.arriving = fresh.arriving
        /\ t.job = S.job /\ t.queue = S.queue /\ t.cur = NoCall
    BY <1>1, <2>1 DEF Shape, Fields
  <2>4. ListsOK(t, B, L)
    <3> DEFINE shed == IdsOf(call.refs)
    <3>1. t.unpub = fresh.unpub \ shed /\ shed \subseteq L
      BY <1>1, <2>2, <2>3
    <3> HIDE DEF shed
    <3>2. t.loaded \cup t.arriving \subseteq t.unpub \cup L
      BY <1>2, <2>3, <3>1 DEF ListsOK
    <3>3. t.unpub \subseteq t.loaded
      BY <1>2, <2>3, <3>1 DEF ListsOK
    <3>4. /\ t.synced = fresh.synced /\ t.order = fresh.order /\ t.ver = fresh.ver
          /\ t.loaded = fresh.loaded /\ t.known = fresh.known /\ t.watched = fresh.watched
          /\ t.arriving = fresh.arriving /\ t.attempts \in Nat
      BY <1>1, <2>3
    <3>5. t.retry \in BOOLEAN
      <4>1. t.retry = FALSE
        BY <2>3
      <4> QED
        BY <4>1, Zenon
    <3> QED
      BY <1>2, <3>2, <3>3, <3>4, <3>5 DEF ListsOK, Entries
  <2>5. ~Syncing(t)
    BY <2>3 DEF Syncing
  <2>6. ClaimsOK(t, B, L) /\ CallOK(t, B)
    BY <1>1, <1>3, <2>2, <2>3, <2>5 DEF ClaimsOK, CallOK
  <2>7. Unsynced(t)
    BY <2>3, <2>5 DEF WinOK, Unsynced
  <2>8. Coming(S) => Coming(t)
    BY <2>3 DEF Coming, SyncQueued, AnyWriting
  <2>9. Retried(t, f)
    BY <2>3, <2>5, <2>8 DEF WinOK, Retried
  <2> QED
    BY <1>1, <2>3, <2>4, <2>6, <2>7, <2>9 DEF WinOK, t
<1>5. CASE ~Accepted(call, snap)
  <2> DEFINE u == [fresh EXCEPT !.synced = snap.refs]
             v == ReconcileRefs(u, snap.refs)
  <2>1. t = ScheduleRetry(v, snap.since # 0)
    BY <1>5 DEF SyncAnswered
  <2> HIDE DEF fresh, t
  <2>2. /\ Shape(u) /\ u.synced = snap.refs /\ u.ver = fresh.ver
        /\ u.order = fresh.order /\ u.loaded = fresh.loaded /\ u.known = fresh.known
        /\ u.unpub = fresh.unpub /\ u.watched = fresh.watched /\ u.arriving = fresh.arriving
        /\ u.attempts = fresh.attempts /\ u.retry = fresh.retry
        /\ u.job = fresh.job /\ u.queue = fresh.queue /\ u.cur = fresh.cur
    BY <1>1 DEF Shape, Fields
  <2> HIDE DEF u
  <2>3. ListsOK(u, B, L)
    BY <1>2, <2>2, RefListIsNotNever DEF ListsOK, Entries
  <2>4. /\ ListsOK(v, B, L) /\ v.unpub = u.unpub \ IdsOf(snap.refs)
        /\ v.loaded \subseteq u.loaded /\ u.loaded \ v.loaded \subseteq L
        /\ v.synced = u.synced
    BY <2>2, <2>3, ReconcileLists
  <2>5. SameCalls(v, u)
    BY <2>2, ReconcileKeepsCalls
  <2> HIDE DEF v
  <2>6. Basic(v) /\ v.cur = NoCall /\ v.job = S.job
    BY <1>1, <2>2, <2>5 DEF SameCalls, Basic, JobsOK, CallsTyped, StoreInv
  <2>7. ClaimsOK(v, B, L)
    BY <1>1, <1>3, <2>2, <2>4, <2>6 DEF ClaimsOK
  <2>8. Unsynced(v)
    <3>1. SyncedIds(v.synced) = IdsOf(snap.refs)
      BY <2>2, <2>4, RefListIsNotNever
    <3> QED
      BY <2>4, <2>6, <3>1 DEF Unsynced, Syncing
  <2>9. WinOK(t, f, B, L) /\ t.loaded = v.loaded
    BY <2>1, <2>4, <2>6, <2>7, <2>8, RetryWin
  <2> QED
    BY <1>1, <2>2, <2>4, <2>9 DEF t
<1> QED
  BY <1>4, <1>5

\* The call is lost: the refs do not count as synced.
LEMMA LostWin ==
  ASSUME NEW S, StoreInv(S), Syncing(S), NEW f, f # 0, NEW B, NEW L, WinOK(S, f, B, L)
  PROVE  LET t == SyncFailed([S EXCEPT !.cur = NoCall], S.cur)
         IN  WinOK(t, f, B, L) /\ t.loaded = S.loaded
<1> DEFINE s == [S EXCEPT !.cur = NoCall]
           t == SyncFailed(s, S.cur)
<1>1. /\ t.synced = S.cur.prev /\ t.ver = S.ver
      /\ t.order = S.order /\ t.loaded = S.loaded /\ t.known = S.known
      /\ t.unpub = S.unpub /\ t.watched = S.watched /\ t.arriving = S.arriving
      /\ t.attempts = S.attempts /\ t.retry = S.retry
      /\ t.job = S.job /\ t.queue = S.queue /\ t.cur = NoCall
  BY DEF SyncFailed, StoreInv, Shape, Fields
<1> HIDE DEF t
<1>2. ListsOK(t, B, L)
  BY <1>1 DEF WinOK, ListsOK, CallOK, Entries
<1>3. ~Syncing(t)
  BY <1>1 DEF Syncing
<1>4. ClaimsOK(t, B, L) /\ CallOK(t, B)
  BY <1>1, <1>3 DEF WinOK, ClaimsOK, CallOK
<1>5. Unsynced(t)
  BY <1>1, <1>3 DEF WinOK, Unsynced
<1>6. Retried(t, f)
  BY <1>3 DEF Retried
<1> QED
  BY <1>1, <1>2, <1>4, <1>5, <1>6 DEF WinOK, t

\* handleExternalUpdate.
LEMMA AdoptedWin ==
  ASSUME NEW s, Basic(s), NEW f, NEW B, NEW L, WinOK(s, f, B, L), NEW list \in RefList,
         IdsOf(list) \subseteq B, IdsOf(list) \subseteq L
  PROVE  LET t == ReconcileRefs([s EXCEPT !.synced = list], list)
         IN  WinOK(t, f, B, L) /\ s.loaded \ t.loaded \subseteq L
<1> DEFINE u == [s EXCEPT !.synced = list]
           t == ReconcileRefs(u, list)
<1>1. /\ Shape(u) /\ u.synced = list /\ u.ver = s.ver
      /\ u.order = s.order /\ u.loaded = s.loaded /\ u.known = s.known
      /\ u.unpub = s.unpub /\ u.watched = s.watched /\ u.arriving = s.arriving
      /\ u.attempts = s.attempts /\ u.retry = s.retry
      /\ u.job = s.job /\ u.queue = s.queue /\ u.cur = s.cur
  BY DEF Basic, Shape, Fields
<1> HIDE DEF u
<1>2. ListsOK(u, B, L)
  BY <1>1, RefListIsNotNever DEF WinOK, ListsOK, Entries
<1>3. /\ ListsOK(t, B, L) /\ t.unpub = u.unpub \ IdsOf(list)
      /\ t.loaded \subseteq u.loaded /\ u.loaded \ t.loaded \subseteq L
      /\ t.synced = u.synced /\ t.attempts = u.attempts /\ t.retry = u.retry
  BY <1>1, <1>2, ReconcileLists
<1>4. SameCalls(t, u)
  BY <1>1, ReconcileKeepsCalls
<1> HIDE DEF t
<1>5. t.job = s.job /\ t.queue = s.queue /\ t.cur = s.cur
  BY <1>1, <1>4 DEF SameCalls
<1>6. CallOK(t, B)
  BY <1>5 DEF WinOK, CallOK, Syncing
<1>7. ClaimsOK(t, B, L)
  BY <1>1, <1>3, <1>5 DEF WinOK, ClaimsOK
<1>8. Unsynced(t)
  <2>1. SyncedIds(t.synced) = IdsOf(list)
    BY <1>1, <1>3, RefListIsNotNever
  <2>2. t.unpub \cap SyncedIds(t.synced) = {} /\ t.unpub \subseteq s.unpub
    BY <1>1, <1>3, <2>1
  <2> QED
    BY <1>5, <2>2 DEF WinOK, Unsynced, Syncing
<1>9. Retried(t, f)
  <2>1. Coming(t) <=> Coming(s)
    BY <1>5 DEF Coming, SyncQueued, AnyWriting
  <2> QED
    BY <1>1, <1>3, <1>5, <2>1 DEF WinOK, Retried, Syncing
<1> QED
  BY <1>1, <1>3, <1>6, <1>7, <1>8, <1>9 DEF WinOK, t, u

LEMMA EventWin ==
  ASSUME NEW s, Basic(s), NEW f, NEW B, NEW L, WinOK(s, f, B, L), NEW gone,
         NEW snap, snap.version \in Nat, snap.refs \in RefList,
         IdsOf(snap.refs) \subseteq B, IdsOf(snap.refs) \subseteq L
  PROVE  LET t == HandleExternalUpdate(s, snap, gone)
         IN  WinOK(t, f, B, L) /\ s.loaded \ t.loaded \subseteq L
<1> DEFINE fresh == [s EXCEPT !.ver = snap.version]
           off == [fresh EXCEPT !.retry = FALSE]
           q == EnqueueSync(off, {})
           r == IF s.retry /\ gone THEN q ELSE fresh
           t == HandleExternalUpdate(s, snap, gone)
<1>1. \/ t = s
      \/ t = r
      \/ t = ReconcileRefs([r EXCEPT !.synced = snap.refs], snap.refs)
  BY DEF HandleExternalUpdate
<1>2. /\ Shape(fresh) /\ fresh.ver = snap.version /\ fresh.synced = s.synced
      /\ fresh.order = s.order /\ fresh.loaded = s.loaded /\ fresh.known = s.known
      /\ fresh.unpub = s.unpub /\ fresh.watched = s.watched /\ fresh.arriving = s.arriving
      /\ fresh.attempts = s.attempts /\ fresh.retry = s.retry
      /\ fresh.job = s.job /\ fresh.queue = s.queue /\ fresh.cur = s.cur
  BY DEF Basic, Shape, Fields
<1> HIDE DEF fresh, t
<1>3. Basic(fresh)
  BY <1>2 DEF Basic, JobsOK, CallsTyped
<1>4. WinOK(fresh, f, B, L)
  <2>1. ListsOK(fresh, B, L)
    BY <1>2 DEF WinOK, ListsOK, Entries
  <2>2. Follows(fresh, s)
    BY <1>2, SameJobsFollow
  <2>3. Coming(s) => Coming(fresh)
    BY <1>2 DEF Coming, SyncQueued, AnyWriting
  <2> QED
    BY <1>2, <2>1, <2>2, <2>3, SmallStep
<1>5. /\ Shape(off) /\ off.retry = FALSE /\ off.ver = fresh.ver /\ off.synced = fresh.synced
      /\ off.order = fresh.order /\ off.loaded = fresh.loaded /\ off.known = fresh.known
      /\ off.unpub = fresh.unpub /\ off.watched = fresh.watched
      /\ off.arriving = fresh.arriving /\ off.attempts = fresh.attempts
      /\ off.job = fresh.job /\ off.queue = fresh.queue /\ off.cur = fresh.cur
  BY <1>2 DEF Shape, Fields
<1> HIDE DEF off
<1>6. Basic(off)
  BY <1>3, <1>5 DEF Basic, JobsOK, CallsTyped
<1>7. SameLists(q, off) /\ q.job = off.job /\ q.cur = off.cur /\ SyncQueued(q)
  <2>1. off.queue \in Seq(Calls)
    BY <1>6 DEF Basic, CallsTyped
  <2> QED
    BY <1>5, <2>1, CallsKeepLists, EnqueueSyncFollows DEF SyncsStay
<1>8. Basic(q)
  BY <1>6, SyncIsHarmless DEF Harmless
<1> HIDE DEF q
<1>9. WinOK(q, f, B, L)
  <2>1. ListsOK(off, B, L)
    BY <1>4, <1>5 DEF WinOK, ListsOK, Entries
  <2>2. ListsOK(q, B, L)
    BY <1>7, <2>1, SameListsAreOK
  <2>3. q.job = s.job /\ q.cur = s.cur /\ q.unpub = s.unpub /\ q.synced = s.synced
    BY <1>2, <1>5, <1>7 DEF SameLists
  <2>4. CallOK(q, B) /\ ClaimsOK(q, B, L) /\ Unsynced(q)
    BY <2>3 DEF WinOK, CallOK, ClaimsOK, Unsynced, Syncing
  <2>5. Retried(q, f)
    BY <1>7 DEF Retried, Coming
  <2> QED
    BY <2>2, <2>4, <2>5 DEF WinOK
<1>10. WinOK(r, f, B, L) /\ Basic(r) /\ r.loaded = s.loaded
  BY <1>2, <1>3, <1>4, <1>5, <1>7, <1>8, <1>9 DEF SameLists
<1> HIDE DEF r
<1>11. LET x == ReconcileRefs([r EXCEPT !.synced = snap.refs], snap.refs)
       IN  WinOK(x, f, B, L) /\ r.loaded \ x.loaded \subseteq L
  BY <1>10, AdoptedWin
<1> QED
  BY <1>1, <1>10, <1>11 DEF t

-----------------------------------------------------------------------------
(* The functions of a store, one after the other.                          *)

\* Calls and lists stay in order, operations go on, and no workspace is lost
\* but those the session knows of.
Goes(t, s, f, B, L) ==
  Basic(t) /\ WinOK(t, f, B, L) /\ Follows(t, s) /\ s.loaded \ t.loaded \subseteq L

LEMMA GoesTwice ==
  ASSUME NEW s, NEW t, NEW u, NEW f, NEW B, NEW L, Goes(t, s, f, B, L), Goes(u, t, f, B, L)
  PROVE  Goes(u, s, f, B, L)
<1>1. Follows(u, s)
  BY FollowsTwice DEF Goes
<1>2. s.loaded \ u.loaded \subseteq L
  BY DEF Goes
<1> QED
  BY <1>1, <1>2 DEF Goes

\* A change of the lists.
LEMMA ListsGo ==
  ASSUME NEW s, NEW t, NEW f, NEW B, NEW L, Basic(s), WinOK(s, f, B, L), SameCalls(t, s),
         ListsOK(t, B, L), t.unpub \subseteq s.unpub, s.unpub \subseteq t.unpub \cup L,
         t.synced = s.synced, t.attempts = s.attempts, t.retry = s.retry,
         s.loaded \ t.loaded \subseteq L
  PROVE  Goes(t, s, f, B, L)
<1>1. Basic(t) /\ t.job = s.job /\ t.queue = s.queue /\ t.cur = s.cur
  BY DEF SameCalls, Basic, JobsOK, CallsTyped
<1>2. Follows(t, s)
  BY <1>1, SameJobsFollow
<1>3. Coming(s) => Coming(t)
  BY <1>1 DEF Coming, SyncQueued, AnyWriting
<1>4. WinOK(t, f, B, L)
  BY <1>1, <1>2, <1>3, SmallStep
<1> QED
  BY <1>1, <1>2, <1>4 DEF Goes

LEMMA LoadedGoes ==
  ASSUME NEW s, NEW f, NEW B \in SUBSET Id, NEW L, Basic(s), WinOK(s, f, B, L),
         NEW id \in B, id \in s.unpub \cup L
  PROVE  Goes(PutLoaded(s, id), s, f, B, L)
<1>1. Shape(s) /\ ListsOK(s, B, L)
  BY DEF Basic, WinOK
<1>2. SameCalls(PutLoaded(s, id), s)
  BY <1>1, EntriesKeepCalls
<1>3. /\ ListsOK(PutLoaded(s, id), B, L) /\ SameBooks(PutLoaded(s, id), s)
      /\ PutLoaded(s, id).loaded = s.loaded \cup {id}
  BY <1>1, PutLoadedLists
<1> QED
  BY <1>2, <1>3, ListsGo DEF SameBooks

LEMMA PlaceholderGoes ==
  ASSUME NEW s, NEW f, NEW B \in SUBSET Id, NEW L, Basic(s), WinOK(s, f, B, L),
         NEW id \in Id, id \notin B
  PROVE  Goes(PutPlaceholder(s, id), s, f, B, L)
<1>1. Shape(s) /\ ListsOK(s, B, L) /\ id \notin s.loaded
  BY DEF Basic, WinOK, ListsOK
<1>2. SameCalls(PutPlaceholder(s, id), s)
  BY <1>1, EntriesKeepCalls
<1>3. /\ ListsOK(PutPlaceholder(s, id), B, L) /\ SameBooks(PutPlaceholder(s, id), s)
      /\ PutPlaceholder(s, id).loaded = s.loaded
  BY <1>1, PutPlaceholderLists
<1> QED
  BY <1>2, <1>3, ListsGo DEF SameBooks

LEMMA DeletedGoes ==
  ASSUME NEW s, NEW f, NEW B, NEW L, Basic(s), WinOK(s, f, B, L), NEW id, id \notin s.loaded
  PROVE  Goes(DeleteEntry(s, id), s, f, B, L)
<1>1. Shape(s) /\ ListsOK(s, B, L)
  BY DEF Basic, WinOK
<1>2. SameCalls(DeleteEntry(s, id), s)
  BY <1>1, EntriesKeepCalls
<1>3. /\ ListsOK(DeleteEntry(s, id), B, L) /\ SameBooks(DeleteEntry(s, id), s)
      /\ DeleteEntry(s, id).loaded = s.loaded
  BY <1>1, DeleteEntryLists
<1> QED
  BY <1>2, <1>3, ListsGo DEF SameBooks

LEMMA WatchedGoes ==
  ASSUME NEW s, NEW f, NEW B, NEW L, Basic(s), WinOK(s, f, B, L),
         NEW ids \in SUBSET B, ids \subseteq s.unpub \cup L
  PROVE  Goes(EnsureWatch(s, ids), s, f, B, L)
<1>1. Shape(s) /\ ListsOK(s, B, L)
  BY DEF Basic, WinOK
<1>2. SameCalls(EnsureWatch(s, ids), s)
  BY <1>1, SetsKeepCalls
<1>3. /\ ListsOK(EnsureWatch(s, ids), B, L) /\ SameBooks(EnsureWatch(s, ids), s)
      /\ EnsureWatch(s, ids).loaded = s.loaded
  BY <1>1, EnsureWatchLists
<1> QED
  BY <1>2, <1>3, ListsGo DEF SameBooks

LEMMA RemovedGoes ==
  ASSUME NEW s, NEW f, NEW B, NEW L, Basic(s), WinOK(s, f, B, L), NEW gone \in SUBSET L
  PROVE  Goes(OnWorkspaceRemoved(s, gone), s, f, B, L)
<1> DEFINE t == OnWorkspaceRemoved(s, gone)
<1>1. Shape(s) /\ ListsOK(s, B, L)
  BY DEF Basic, WinOK
<1>2. SameCalls(t, s)
  BY <1>1, SetsKeepCalls
<1>3. /\ ListsOK(t, B, L) /\ t.unpub = s.unpub \ gone /\ t.loaded = s.loaded \ gone
      /\ t.synced = s.synced /\ t.attempts = s.attempts /\ t.retry = s.retry
  BY <1>1, RemovedLists
<1> HIDE DEF t
<1>4. t.unpub \subseteq s.unpub /\ s.unpub \subseteq t.unpub \cup L /\ s.loaded \ t.loaded \subseteq L
  BY <1>3
<1>5. Goes(t, s, f, B, L)
  BY <1>2, <1>3, <1>4, ListsGo
<1> QED
  BY <1>5 DEF t

LEMMA VersionGoes ==
  ASSUME NEW s, NEW f, NEW B, NEW L, Basic(s), WinOK(s, f, B, L), NEW v \in Nat
  PROVE  Goes([s EXCEPT !.ver = v], s, f, B, L)
<1> DEFINE t == [s EXCEPT !.ver = v]
<1>1. SameCalls(t, s) /\ t.ver = v
      /\ t.synced = s.synced /\ t.order = s.order
      /\ t.loaded = s.loaded /\ t.known = s.known /\ t.unpub = s.unpub
      /\ t.watched = s.watched /\ t.arriving = s.arriving
      /\ t.attempts = s.attempts /\ t.retry = s.retry
  BY DEF Basic, SameCalls, Shape, Fields
<1> HIDE DEF t
<1>2. ListsOK(t, B, L)
  BY <1>1 DEF WinOK, ListsOK, Entries
<1>3. Goes(t, s, f, B, L)
  BY <1>1, <1>2, ListsGo
<1> QED
  BY <1>3 DEF t

\* A change of the calls and operations.
LEMMA CallsGo ==
  ASSUME NEW s, NEW t, NEW f, NEW B, NEW L, WinOK(s, f, B, L), Basic(t), Follows(t, s),
         SameLists(t, s), t.cur = s.cur, Coming(s) => Coming(t)
  PROVE  Goes(t, s, f, B, L)
<1>1. WinOK(t, f, B, L)
  BY CallStep
<1> QED
  BY <1>1 DEF Goes, SameLists

LEMMA OpGoes ==
  ASSUME NEW s, NEW f, NEW B, NEW L, Basic(s), WinOK(s, f, B, L),
         NEW op \in {"lock", "unlock"}, NEW D \in SUBSET Slot
  PROVE  Goes(EnqueueOp(s, op, D), s, f, B, L)
<1> DEFINE t == EnqueueOp(s, op, D)
           n == Len(s.queue)
           m == Len(t.queue)
<1>1. Shape(s) /\ s.queue \in Seq(Calls)
  BY DEF Basic, CallsTyped
<1>2. t.job = s.job /\ Follows(t, s) /\ SyncsStay(t, s) /\ SameLists(t, s)
  BY <1>1, EnqueueOpFollows, CallsKeepLists
<1>3. OpsAdded(t, s, op, D, n, m)
  BY <1>1, EnqueueOpAdds
<1> HIDE DEF t, n, m
<1>4. Basic(t)
  BY <1>2, <1>3 DEF OpsAdded, Basic, JobsOK, CallsTyped
<1>5. Coming(s) => Coming(t)
  BY <1>2, ComingStays
<1>6. Goes(t, s, f, B, L)
  BY <1>2, <1>4, <1>5, CallsGo DEF SyncsStay
<1> QED
  BY <1>6 DEF t

LEMMA EnqueuedIsBasic ==
  ASSUME NEW s, Basic(s), NEW D \in SUBSET Slot
  PROVE  Basic(EnqueueSync(s, D))
<1> DEFINE t == EnqueueSync(s, D)
<1>1. Shape(t) /\ t.job = s.job /\ t.cur = s.cur /\ t.queue \in Seq(Calls)
  BY EnqueueSyncKeepsRest DEF Basic, CallsTyped
<1> HIDE DEF t
<1>2. Basic(t)
  BY <1>1 DEF Basic, JobsOK, CallsTyped
<1> QED
  BY <1>2 DEF t

\* Once an operation has stepped on, its sync is queued.
LEMMA SyncGoes ==
  ASSUME NEW s, NEW u, NEW f, NEW B, NEW L, WinOK(s, f, B, L), Basic(u), Follows(u, s),
         SameLists(u, s), u.cur = s.cur, NEW D \in SUBSET Slot
  PROVE  Goes(EnqueueSync(u, D), s, f, B, L)
<1> DEFINE t == EnqueueSync(u, D)
<1>1. Shape(u) /\ u.queue \in Seq(Calls)
  BY DEF Basic, CallsTyped
<1>2. Follows(t, u) /\ SyncQueued(t) /\ SyncsStay(t, u) /\ SameLists(t, u) /\ Basic(t)
  BY <1>1, EnqueueSyncFollows, CallsKeepLists, EnqueuedIsBasic
<1> HIDE DEF t
<1>3. Follows(t, s) /\ SameLists(t, s)
  BY <1>2, FollowsTwice, SameListsTwice
<1>4. t.cur = s.cur /\ Coming(t)
  BY <1>2 DEF SyncsStay, Coming
<1>5. Goes(t, s, f, B, L)
  BY <1>2, <1>3, <1>4, CallsGo
<1> QED
  BY <1>5 DEF t

OneMoved(t, s, k, pc) ==
  /\ t.job[k] = [s.job[k] EXCEPT !.pc = pc]
  /\ \A l \in Slot \ {k} : t.job[l] = s.job[l]

LEMMA PcSteps ==
  ASSUME NEW s, Basic(s), NEW k \in Slot, s.job[k].pc # "none",
         NEW pc \in {"syncing", "unlocking", "working"},
         pc = "working" => s.job[k].pc = "locking"
  PROVE  LET t == SetPc(s, {k}, pc)
         IN  /\ Basic(t) /\ Follows(t, s) /\ SameLists(t, s) /\ t.cur = s.cur
             /\ s.job[k].pc # "writing" => SyncsStay(t, s)
             /\ OneMoved(t, s, k, pc)
<1> DEFINE K == {k}
           t == SetPc(s, K, pc)
<1>1. /\ K \in SUBSET Slot /\ \A l \in K : s.job[l].pc # "none"
      /\ pc = "deleting" => \A l \in K : s.job[l].op = "remove"
      /\ pc = "working" => \A l \in K : s.job[l].pc = "locking"
      /\ s.job[k].pc # "writing" => \A l \in K : s.job[l].pc # "writing"
      /\ pc \in {"syncing", "unlocking", "deleting", "working"}
      /\ Shape(s) /\ JobsOK(s)
  BY DEF Basic
<1>2. \A l \in Slot \cap K : l = k
  OBVIOUS
<1>3. k \in Slot \cap K /\ \A l \in Slot \ {k} : l \in Slot \ K
  OBVIOUS
<1> HIDE DEF K
<1>4. /\ Follows(t, s) /\ JobsOK(t)
      /\ (\A l \in K : s.job[l].pc # "writing") => SyncsStay(t, s)
  BY <1>1, SetPcFollows
<1>5. /\ t.queue = s.queue /\ t.cur = s.cur
      /\ \A l \in Slot \cap K : t.job[l] = [s.job[l] EXCEPT !.pc = pc]
      /\ \A l \in Slot \ K : t.job[l] = s.job[l]
  BY <1>1, SetPcFields
<1>6. SameLists(t, s)
  BY <1>1, CallsKeepLists
<1> HIDE DEF t
<1>7. Basic(t)
  BY <1>4, <1>5, <1>6 DEF Basic, CallsTyped, SameLists
<1> QED
  BY <1>1, <1>3, <1>4, <1>5, <1>6, <1>7 DEF t, K, OneMoved

LEMMA PcGoes ==
  ASSUME NEW s, NEW f, NEW B, NEW L, Basic(s), WinOK(s, f, B, L), NEW k \in Slot,
         s.job[k].pc # "none", s.job[k].pc # "writing",
         NEW pc \in {"syncing", "unlocking", "working"},
         pc = "working" => s.job[k].pc = "locking"
  PROVE  Goes(SetPc(s, {k}, pc), s, f, B, L)
<1> DEFINE t == SetPc(s, {k}, pc)
<1>1. Basic(t) /\ Follows(t, s) /\ SameLists(t, s) /\ t.cur = s.cur /\ SyncsStay(t, s)
  BY PcSteps
<1> HIDE DEF t
<1>2. Goes(t, s, f, B, L)
  BY <1>1, ComingStays, CallsGo
<1> QED
  BY <1>2 DEF t

LEMMA EndSteps ==
  ASSUME NEW s, Basic(s), NEW k \in Slot
  PROVE  LET t == EndJob(s, k)
         IN  /\ Basic(t) /\ Follows(t, s) /\ SameLists(t, s) /\ t.cur = s.cur
             /\ s.job[k].pc # "writing" => SyncsStay(t, s)
<1> DEFINE t == EndJob(s, k)
<1>1. Shape(s) /\ JobsOK(s)
  BY DEF Basic
<1>2. Follows(t, s) /\ SameLists(t, s) /\ (s.job[k].pc # "writing" => SyncsStay(t, s))
  BY <1>1, EndJobFollows, CallsKeepLists
<1>3. t.queue = s.queue /\ t.cur = s.cur /\ t.job = [s.job EXCEPT ![k] = NoJob]
  BY <1>1 DEF EndJob, Shape, Fields
<1> HIDE DEF t
<1>4. JobsOK(t)
  BY <1>1, <1>3 DEF JobsOK, NoJob
<1>5. Basic(t)
  BY <1>2, <1>3, <1>4 DEF Basic, CallsTyped, SameLists
<1> QED
  BY <1>2, <1>3, <1>5 DEF t

LEMMA EndGoes ==
  ASSUME NEW s, NEW f, NEW B, NEW L, Basic(s), WinOK(s, f, B, L), NEW k \in Slot,
         s.job[k].pc # "writing"
  PROVE  Goes(EndJob(s, k), s, f, B, L)
<1> DEFINE t == EndJob(s, k)
<1>1. Basic(t) /\ Follows(t, s) /\ SameLists(t, s) /\ t.cur = s.cur /\ SyncsStay(t, s)
  BY EndSteps
<1> HIDE DEF t
<1>2. Goes(t, s, f, B, L)
  BY <1>1, ComingStays, CallsGo
<1> QED
  BY <1>2 DEF t

LEMMA SettledGoes ==
  ASSUME NEW s, NEW f, NEW B, NEW L, Basic(s), WinOK(s, f, B, L), NEW K \in SUBSET Slot,
         \A k \in K : s.job[k].pc = "syncing", Basic(SyncSettled(s, K))
  PROVE  Goes(SyncSettled(s, K), s, f, B, L)
<1> DEFINE t == SyncSettled(s, K)
<1>1. Shape(s) /\ JobsOK(s) /\ s.queue \in Seq(Calls)
  BY DEF Basic, CallsTyped
<1>2. Follows(t, s) /\ SyncsStay(t, s) /\ SameLists(t, s)
  BY <1>1, SettledFollows
<1> HIDE DEF t
<1>3. Goes(t, s, f, B, L)
  BY <1>2, ComingStays, CallsGo DEF SyncsStay, t
<1> QED
  BY <1>3 DEF t

-----------------------------------------------------------------------------
(* The invariant: which workspaces were built, and which ones some list or   *)
(* some user has spoken of.                                                  *)

IdsTaken ==
  /\ used \subseteq Id
  /\ \A w \in Window, k \in Slot : win[w].job[k].pc # "none" => win[w].job[k].id \in used
  /\ \A w, v \in Window, k, l \in Slot :
       Creating(win[w].job[k]) /\ Creating(win[v].job[l])
         /\ win[w].job[k].id = win[v].job[l].id => w = v /\ k = l

\* An id is taken when its creation starts, and built when that ends.
Built ==
  {id \in used :
     \A w \in Window, k \in Slot : Creating(win[w].job[k]) => win[w].job[k].id # id}
Gone == listed \cup retired

Books ==
  /\ failures \in Nat /\ IdsTaken /\ listed \subseteq Built
  /\ \A w \in Window : WinOK(win[w], failures, Built, Gone)

\* The daemon's list, and all that is still told of it, was listed.
Told ==
  /\ IdsOf(refs) \subseteq listed
  /\ \A s \in Snapshots : IdsOf(s.refs) \subseteq listed

ListInv == TypeOK /\ LockInv /\ Books /\ Told

\* The step of OwnWorkSurvives.
OwnWork ==
  \A w \in Window, id \in Id :
    id \in win[w].loaded \ win'[w].loaded => id \in listed \cup retired'

\* What a step of window w starts from.
LEMMA WindowReady ==
  ASSUME ListInv, NEW w \in Window, NEW f, f = 0 => failures = 0, NEW L, Gone \subseteq L
  PROVE  /\ StoreInv(win[w]) /\ Basic(win[w]) /\ WinOK(win[w], f, Built, L)
         /\ Built \subseteq Id /\ listed \subseteq Built /\ listed \subseteq L
<1>1. StoreInv(win[w]) /\ Basic(win[w])
  BY DEF ListInv, LockInv, Stores, StoreInv, Basic
<1>2. WinOK(win[w], failures, Built, Gone)
  BY DEF ListInv, Books
<1>3. WinOK(win[w], f, Built, L)
  BY <1>2, WinGrows
<1>4. Built \subseteq Id
  BY DEF ListInv, Books, IdsTaken, Built
<1>5. listed \subseteq Built /\ listed \subseteq L
  BY DEF ListInv, Books, Gone
<1> QED
  BY <1>1, <1>3, <1>4, <1>5

\* Operations that go on keep their ids, and one that no longer creates has
\* built its workspace.
LEMMA IdsGoOn ==
  ASSUME ListInv, NEW w \in Window, NEW t, win' = [win EXCEPT ![w] = t],
         IdsFollow(t, win[w]), used' = used
  PROVE  /\ IdsTaken' /\ Built \subseteq Built'
         /\ \A k \in Slot : Creating(win[w].job[k]) /\ ~Creating(t.job[k])
                              => win[w].job[k].id \in Built'
<1>1. win'[w] = t /\ \A v \in Window : v # w => win'[v] = win[v]
  BY DEF ListInv, LockInv, Stores
<1>2. ASSUME NEW v \in Window, NEW k \in Slot, win'[v].job[k].pc # "none"
      PROVE  /\ win[v].job[k].pc # "none" /\ win'[v].job[k].id = win[v].job[k].id
             /\ Creating(win'[v].job[k]) => Creating(win[v].job[k])
  BY <1>1, <1>2 DEF IdsFollow
<1>3. ASSUME NEW v \in Window, NEW k \in Slot, Creating(win'[v].job[k])
      PROVE  Creating(win[v].job[k]) /\ win'[v].job[k].id = win[v].job[k].id
  BY <1>2, <1>3 DEF Creating
<1>4. IdsTaken'
  <2>1. used' \subseteq Id
    BY DEF ListInv, Books, IdsTaken
  <2>2. \A v \in Window, k \in Slot :
          win'[v].job[k].pc # "none" => win'[v].job[k].id \in used'
    BY <1>2 DEF ListInv, Books, IdsTaken
  <2>3. \A v, x \in Window, k, l \in Slot :
          Creating(win'[v].job[k]) /\ Creating(win'[x].job[l])
            /\ win'[v].job[k].id = win'[x].job[l].id => v = x /\ k = l
    BY <1>3 DEF ListInv, Books, IdsTaken
  <2> QED
    BY <2>1, <2>2, <2>3 DEF IdsTaken, Creating
<1>5. Built \subseteq Built'
  BY <1>3 DEF Built, Creating
<1>6. ASSUME NEW k \in Slot, Creating(win[w].job[k]), ~Creating(t.job[k])
      PROVE  win[w].job[k].id \in Built'
  <2>1. win[w].job[k].id \in used'
    BY <1>6 DEF ListInv, Books, IdsTaken, Creating
  <2>2. ASSUME NEW v \in Window, NEW l \in Slot, Creating(win'[v].job[l])
        PROVE  win'[v].job[l].id # win[w].job[k].id
    BY <1>1, <1>3, <1>6, <2>2 DEF ListInv, Books, IdsTaken
  <2> QED
    BY <2>1, <2>2 DEF Built, Creating
<1> QED
  BY <1>4, <1>5, <1>6

\* An operation that starts: a creation takes an id that was never taken.
LEMMA IdsAdded ==
  ASSUME ListInv, NEW w \in Window, NEW k \in Slot, NEW b, OthersStay(b, win[w], k),
         NEW t, IdsFollow(t, b), win' = [win EXCEPT ![w] = t],
         used \subseteq used', used' \subseteq Id, b.job[k].id \in used',
         Creating(b.job[k]) => b.job[k].id \notin used
  PROVE  IdsTaken' /\ Built \subseteq Built'
<1>1. win'[w] = t /\ \A v \in Window : v # w => win'[v] = win[v]
  BY DEF ListInv, LockInv, Stores
<1> DEFINE New(v, l) == v = w /\ l = k
<1>2. ASSUME NEW v \in Window, NEW l \in Slot, win'[v].job[l].pc # "none", ~New(v, l)
      PROVE  /\ win[v].job[l].pc # "none" /\ win'[v].job[l].id = win[v].job[l].id
             /\ Creating(win'[v].job[l]) => Creating(win[v].job[l])
  BY <1>1, <1>2 DEF IdsFollow, OthersStay
<1>3. t.job[k].pc # "none" => /\ t.job[k].id = b.job[k].id
                              /\ Creating(t.job[k]) => Creating(b.job[k])
  BY DEF IdsFollow
<1>4. ASSUME NEW v \in Window, NEW l \in Slot, Creating(win'[v].job[l])
      PROVE  \/ /\ ~New(v, l) /\ Creating(win[v].job[l])
                /\ win'[v].job[l].id = win[v].job[l].id /\ win[v].job[l].id \in used
             \/ New(v, l) /\ win'[v].job[l].id \notin used
  <2>1. CASE New(v, l)
    BY <1>1, <1>3, <1>4, <2>1 DEF Creating
  <2>2. CASE ~New(v, l)
    BY <1>2, <1>4, <2>2 DEF Creating, ListInv, Books, IdsTaken
  <2> QED
    BY <2>1, <2>2
<1>5. IdsTaken'
  <2>1. \A v \in Window, l \in Slot :
          win'[v].job[l].pc # "none" => win'[v].job[l].id \in used'
    BY <1>1, <1>2, <1>3 DEF ListInv, Books, IdsTaken
  <2>2. \A v, x \in Window, l, m \in Slot :
          Creating(win'[v].job[l]) /\ Creating(win'[x].job[m])
            /\ win'[v].job[l].id = win'[x].job[m].id => v = x /\ l = m
    BY <1>4 DEF ListInv, Books, IdsTaken
  <2> QED
    BY <2>1, <2>2 DEF IdsTaken, Creating
<1>6. Built \subseteq Built'
  BY <1>4 DEF Built, Creating
<1> QED
  BY <1>5, <1>6

\* A step of one window keeps the books.
LEMMA BooksGo ==
  ASSUME ListInv, NEW w \in Window, NEW t, win' = [win EXCEPT ![w] = t],
         listed' = listed, retired \subseteq retired',
         failures' \in Nat, failures' = 0 => failures = 0,
         IdsTaken', Built \subseteq Built', WinOK(t, failures', Built', listed \cup retired'),
         win[w].loaded \ t.loaded \subseteq listed \cup retired'
  PROVE  Books' /\ OwnWork
<1>1. win'[w] = t /\ \A v \in Window : v # w => win'[v] = win[v]
  BY DEF ListInv, LockInv, Stores
<1> DEFINE L == listed \cup retired'
<1>2. Gone \subseteq L /\ Gone' = L
  BY DEF Gone
<1> HIDE DEF L
<1>3. ASSUME NEW v \in Window PROVE WinOK(win'[v], failures', Built', Gone')
  <2>1. CASE v = w
    BY <1>1, <1>2, <2>1 DEF L
  <2>2. CASE v # w
    <3>1. WinOK(win[v], failures, Built, Gone)
      BY DEF ListInv, Books
    <3>2. WinOK(win[v], failures', Built', Gone')
      BY <1>2, <3>1, WinGrows
    <3> QED
      BY <1>1, <2>2, <3>2
  <2> QED
    BY <2>1, <2>2
<1>4. listed' \subseteq Built'
  BY DEF ListInv, Books
<1>5. Books'
  BY <1>3, <1>4 DEF Books
<1>6. OwnWork
  BY <1>1 DEF OwnWork
<1> QED
  BY <1>5, <1>6

\* The same for a step in which no workspace gets built.
LEMMA GoesOn ==
  ASSUME ListInv, NEW w \in Window, NEW t, win' = [win EXCEPT ![w] = t],
         used' = used, listed' = listed, retired \subseteq retired',
         failures' \in Nat, failures' = 0 => failures = 0,
         WinOK(t, failures', Built, listed \cup retired'), IdsFollow(t, win[w]),
         win[w].loaded \ t.loaded \subseteq listed \cup retired'
  PROVE  Books' /\ OwnWork
<1>1. IdsTaken' /\ Built \subseteq Built'
  BY IdsGoOn
<1>2. WinOK(t, failures', Built', listed \cup retired')
  BY <1>1, WinGrows
<1> QED
  BY <1>1, <1>2, BooksGo

LEMMA GoesOnGoing ==
  ASSUME ListInv, NEW w \in Window, NEW t, win' = [win EXCEPT ![w] = t],
         used' = used, listed' = listed, retired \subseteq retired',
         failures' \in Nat, failures' = 0 => failures = 0,
         Goes(t, win[w], failures', Built, listed \cup retired')
  PROVE  Books' /\ OwnWork
BY FollowsIds, GoesOn DEF Goes

\* A workspace gets built.
LEMMA CreationGoes ==
  ASSUME ListInv, NEW w \in Window, NEW k \in Slot, NEW s,
         Goes(s, win[w], failures, Built, Gone), Creating(s.job[k]), Creating(win[w].job[k]),
         win' = [win EXCEPT ![w] = CreateWorkspace(s, k)], used' = used, listed' = listed,
         retired' = retired, failures' = failures
  PROVE  Books' /\ OwnWork
<1> DEFINE t == CreateWorkspace(s, k)
           id == s.job[k].id
           C == Built \cup {id}
<1>1. Basic(s) /\ WinOK(s, failures, Built, Gone) /\ Follows(s, win[w])
      /\ win[w].loaded \ s.loaded \subseteq Gone
  BY DEF Goes
<1>2. id = win[w].job[k].id /\ s.job[k].pc # "none"
  BY <1>1 DEF Follows, JobFollows, Creating
<1>3. id \in Id /\ id \notin Built
  BY <1>2 DEF ListInv, Books, IdsTaken, Built, Creating
<1>4. C \in SUBSET Id /\ Built \subseteq C /\ id \in C
  BY <1>3 DEF Built, ListInv, Books, IdsTaken
<1>5. IsJob(s.job[k]) /\ Shape(s) /\ JobsOK(s)
  BY <1>1, <1>2 DEF Basic, JobsOK, NoJob
<1> HIDE DEF C
<1>6. WinOK(t, failures, C, Gone) /\ s.loaded \subseteq t.loaded
      /\ IdsFollow(t, s) /\ ~Creating(t.job[k])
  BY <1>1, <1>3, <1>4, <1>5, CreatedWin
<1> HIDE DEF t
<1>7. IdsFollow(t, win[w])
  BY <1>1, <1>6 DEF IdsFollow, Follows, JobFollows
<1>8. IdsTaken' /\ Built \subseteq Built' /\ id \in Built'
  BY <1>2, <1>6, <1>7, IdsGoOn DEF t
<1>9. C \subseteq Built'
  BY <1>8 DEF C
<1>10. WinOK(t, failures', Built', listed \cup retired')
  BY <1>6, <1>9, WinGrows DEF Gone
<1>11. failures' \in Nat /\ win[w].loaded \ t.loaded \subseteq listed \cup retired'
  BY <1>1, <1>6 DEF ListInv, Books, Gone
<1> QED
  BY <1>8, <1>10, <1>11, BooksGo DEF t

-----------------------------------------------------------------------------
(* What the windows do to the daemon is what its clients may do.            *)

\* The daemon serves a call a window really made.
LEMMA ServeSteps ==
  ASSUME ListInv, NEW w \in Window, Serve(w)
  PROVE  AnyNext /\ listed \subseteq listed' /\ IdsOf(refs') \subseteq listed'
         /\ win' = win /\ used' = used /\ failures' = failures /\ retired' = retired
         /\ listed' \subseteq Built
<1> DEFINE call == win[w].cur
<1>1. w \in Task /\ w \in Conn
  BY RefSyncAssumption DEF Window
<1>2. /\ listed' = listed \cup IdsOf(refs')
      /\ win' = win /\ used' = used /\ failures' = failures /\ retired' = retired
  BY DEF Serve
<1>3. listed \subseteq Built /\ IdsOf(refs) \subseteq Built
  BY DEF ListInv, Books, Told
<1>4. CASE call.op = "lock" /\ LockSession(w, w)
  <2>1. refs' = refs
    BY <1>4 DEF LockSession
  <2>2. Next
    BY <1>1, <1>4 DEF Next, Handler
  <2> QED
    BY <1>2, <1>3, <2>1, <2>2 DEF AnyNext
<1>5. CASE call.op = "unlock" /\ UnlockSession(w, w)
  <2>1. refs' = refs
    BY <1>5 DEF UnlockSession
  <2>2. Next
    BY <1>1, <1>5 DEF Next, Handler
  <2> QED
    BY <1>2, <1>3, <2>1, <2>2 DEF AnyNext
<1>6. CASE call.op = "sync" /\ UpdateSession(w, w, SenderOf(w), call.expected, call.refs)
  <2>1. Syncing(win[w])
    BY <1>6 DEF Syncing, NoCall
  <2>2. call.refs \in RefList /\ IdsOf(call.refs) \subseteq Built
    BY <2>1 DEF ListInv, Books, WinOK, CallOK
  <2>3. refs' = refs \/ refs' = call.refs
    BY <1>6 DEF UpdateSession
  <2>4. SenderOf(w) \in Listener \cup {Nobody}
    BY <1>1, RefSyncAssumption DEF SenderOf
  <2>5. AnyUpdate
    BY <1>1, <1>6, <2>2, <2>4 DEF AnyUpdate
  <2> QED
    BY <1>2, <1>3, <2>2, <2>3, <2>5 DEF AnyNext
<1> QED
  BY <1>4, <1>5, <1>6 DEF Serve, Store

\* A call that fails was never served, was dropped, or lost its reply.
LEMMA FailureSteps ==
  ASSUME TypeOK, NEW w \in Window, CallFails(w)
  PROVE  [Next]_vars
<1>1. w \in Task /\ w # Heartbeat
  BY RefSyncAssumption, ConstAssumption DEF Window
<1>2. task' = [task EXCEPT ![w] = Idle] /\ UNCHANGED <<session, streams>>
  BY DEF CallFails
<1>3. task[w] \in Busy \cup {Idle}
  BY <1>1 DEF TypeOK
<1>4. CASE task[w] = Idle
  <2>1. task' = task
    BY <1>1, <1>2, <1>4 DEF TypeOK
  <2> QED
    BY <1>2, <2>1 DEF vars, session, streams
<1>5. CASE task[w].stage = "broadcast"
  <2>1. CancelCall(w)
    BY <1>1, <1>2, <1>5 DEF CancelCall
  <2> QED
    BY <1>1, <2>1 DEF Next, Handler
<1>6. CASE task[w].stage = "reply"
  <2>1. Reply(w)
    BY <1>2, <1>6 DEF Reply
  <2> QED
    BY <1>1, <2>1 DEF Next, Handler
<1> QED
  BY <1>3, <1>4, <1>5, <1>6 DEF Busy

LEMMA OperationSteps ==
  ASSUME NEW w, NEW k, Operation(w, k)
  PROVE  UNCHANGED vars /\ listed' = listed
BY DEF Operation, AddWorkspace, RemoveWorkspace, Begin, WorkFails, CreationWorked,
       RemovalWorked, FileWritten, FileDeleted, world

LEMMA RefStep ==
  ASSUME ListInv, [RefNext]_allVars
  PROVE  [AnyNext]_vars /\ listed \subseteq listed' /\ IdsOf(refs') \subseteq listed'
<1> DEFINE Fine == [AnyNext]_vars /\ listed \subseteq listed' /\ IdsOf(refs') \subseteq listed'
<1>1. ASSUME [Next]_vars, refs' = refs, listed' = listed PROVE Fine
  BY <1>1 DEF AnyNext, ListInv, Told
<1>2. CASE UNCHANGED allVars
  BY <1>1, <1>2 DEF allVars, vars, refVars, world
<1>3. ASSUME UNCHANGED vars, listed' = listed PROVE Fine
  BY <1>1, <1>3 DEF vars
<1>4. CASE DaemonStep
  <2>1. Next
    BY <1>4 DEF DaemonStep, Next
  <2>2. refs' = refs
    BY <1>4 DEF DaemonStep, BroadcastUpdate, HeartbeatSnapshot, LockExpires, session
  <2>3. listed' = listed
    BY <1>4 DEF DaemonStep, refVars, world
  <2> QED
    BY <1>1, <2>1, <2>2, <2>3
<1>5. ASSUME NEW w \in Window, WindowStep(w) PROVE Fine
  <2>0. StreamOf(w) \in Watch
    BY RefSyncAssumption DEF StreamOf, Watch, Window
  <2>1. ASSUME NEW k \in Slot, Operation(w, k) PROVE Fine
    BY <1>3, <2>1, OperationSteps
  <2>2. CASE DismissWorkspace(w) \/ StartCall(w) \/ \E id \in Id : BodyArrives(w, id)
    BY <1>3, <2>2 DEF DismissWorkspace, Begin, StartCall, BodyArrives, world
  <2>3. CASE Serve(w)
    BY <2>3, ServeSteps
  <2>4. CASE ReplyArrives(w)
    <3>1. Reply(w) /\ w \in Task
      BY <2>4, RefSyncAssumption DEF ReplyArrives, Window
    <3>2. Next /\ refs' = refs
      BY <3>1 DEF Next, Handler, Reply, session
    <3> QED
      BY <1>1, <2>4, <3>2 DEF ReplyArrives, world
  <2>5. CASE CallFails(w)
    <3>1. [Next]_vars
      BY <2>5, FailureSteps DEF ListInv
    <3> QED
      BY <1>1, <2>5, <3>1 DEF CallFails, session
  <2>6. CASE OpenWindow(w)
    <3>1. Next /\ refs' = refs
      BY <2>0, <2>6 DEF OpenWindow, Next, Stream, SessionWatch, session
    <3> QED
      BY <1>1, <2>6, <3>1 DEF OpenWindow, refVars, world
  <2>7. CASE DeliverEvent(w)
    <3>1. Next /\ refs' = refs
      BY <2>0, <2>7 DEF DeliverEvent, Next, Stream, Receive, session
    <3> QED
      BY <1>1, <2>7, <3>1 DEF DeliverEvent, world
  <2> QED
    BY <1>5, <2>1, <2>2, <2>3, <2>4, <2>5, <2>6, <2>7 DEF WindowStep
<1> QED
  BY <1>2, <1>4, <1>5 DEF RefNext

LEMMA ToldStep ==
  ASSUME ListInv, [RefNext]_allVars
  PROVE  TypeOK' /\ Told'
<1>1. /\ [AnyNext]_vars /\ listed \subseteq listed' /\ IdsOf(refs') \subseteq listed'
      /\ TypeOK
  BY RefStep DEF ListInv
<1>2. TypeOK'
  BY <1>1, TypeStep
<1>3. Snapshots' \subseteq Snapshots \cup {SnapOf(version', refs', lock')}
  BY <1>1, SnapshotsStep DEF Grows
<1>4. SnapOf(version', refs', lock').refs = refs'
  BY DEF SnapOf
<1>5. \A s \in Snapshots' : IdsOf(s.refs) \subseteq listed'
  BY <1>1, <1>3, <1>4 DEF ListInv, Told
<1>6. Told'
  BY <1>1, <1>5 DEF Told
<1> QED
  BY <1>2, <1>6

\* What a window may still be told.
LEMMA SnapshotTold ==
  ASSUME ListInv, NEW s \in Snapshots
  PROVE  /\ s.version \in Nat /\ s.refs \in RefList
         /\ IdsOf(s.refs) \subseteq listed /\ IdsOf(s.refs) \subseteq Built
<1>1. s \in Snapshot
  BY SnapshotsType DEF ListInv
<1> QED
  BY <1>1 DEF Snapshot, ListInv, Told, Books

-----------------------------------------------------------------------------
(* The operations of the users.                                             *)

\* The store of a window in which an operation starts.
Begun(s, k, op, id, pc) == [s EXCEPT !.job[k] = [op |-> op, id |-> id, pc |-> pc]]

LEMMA NewJobWin ==
  ASSUME NEW s, Basic(s), NEW f, NEW B, NEW L, WinOK(s, f, B, L), NEW k \in Slot,
         s.job[k] = NoJob, NEW op \in Kinds, NEW id, NEW pc \in {"locking", "working"},
         pc = "locking" => op # "root",
         op = "remove" => id \in B /\ id \in s.unpub \cup L
  PROVE  LET t == Begun(s, k, op, id, pc)
         IN  /\ Basic(t) /\ WinOK(t, f, B, L) /\ t.loaded = s.loaded /\ OthersStay(t, s, k)
             /\ t.job[k].op = op /\ t.job[k].id = id /\ t.job[k].pc = pc
<1> DEFINE j == [op |-> op, id |-> id, pc |-> pc]
           t == [s EXCEPT !.job[k] = j]
<1>1. IsJob(j) /\ j.op = op /\ j.id = id /\ j.pc = pc
  BY DEF IsJob, Pcs
<1>2. Claims(j) => id \in B /\ id \in s.unpub \cup L
  BY <1>1 DEF Claims
<1> HIDE DEF j
<1>3. SameLists(t, s) /\ t.job = [s.job EXCEPT ![k] = j] /\ t.queue = s.queue
      /\ t.cur = s.cur /\ Shape(t)
  BY CallsKeepLists DEF Basic, Shape, Fields
<1> HIDE DEF t
<1>4. t.job[k] = j /\ (\A l \in Slot \ {k} : t.job[l] = s.job[l])
  BY <1>3 DEF Basic, JobsOK
<1>5. Basic(t)
  BY <1>1, <1>3, <1>4 DEF Basic, JobsOK, CallsTyped
<1>6. ListsOK(t, B, L)
  BY <1>3, SameListsAreOK DEF WinOK
<1>7. ClaimsOK(t, B, L)
  BY <1>1, <1>2, <1>3, <1>4 DEF WinOK, ClaimsOK, SameLists
<1>8. CallOK(t, B) /\ Unsynced(t)
  BY <1>3 DEF WinOK, CallOK, Unsynced, Syncing, SameLists
<1>9. Coming(s) => Coming(t)
  BY <1>3, <1>4 DEF Coming, SyncQueued, AnyWriting, NoJob
<1>10. Retried(t, f)
  BY <1>3, <1>9 DEF WinOK, Retried, Syncing, SameLists
<1> QED
  BY <1>1, <1>3, <1>4, <1>5, <1>6, <1>7, <1>8, <1>10
  DEF WinOK, OthersStay, SameLists, Begun, t, j

LEMMA AddLists ==
  ASSUME ListInv, NEW w \in Window, NEW k \in Slot, AddWorkspace(w, k)
  PROVE  Books' /\ OwnWork
<1>1. PICK op \in Operations[w] \cap {"root", "child", "adopt"}, id \in Id \ used :
        LET job == [op |-> op, id |-> id, pc |-> IF op = "root" THEN "working" ELSE "locking"]
            begun == [Store(w) EXCEPT !.job[k] = job]
            shown == IF op = "adopt" THEN begun ELSE PutPlaceholder(begun, id)
        IN  /\ Store(w).job[k] = NoJob
            /\ Begin(w)
            /\ used' = used \cup {id}
            /\ Update(w, IF op = "root" THEN shown ELSE EnqueueOp(shown, "lock", {k}))
            /\ UNCHANGED retired
  BY DEF AddWorkspace
<1> DEFINE s == win[w]
           pc == IF op = "root" THEN "working" ELSE "locking"
           begun == Begun(s, k, op, id, pc)
           shown == IF op = "adopt" THEN begun ELSE PutPlaceholder(begun, id)
           t == IF op = "root" THEN shown ELSE EnqueueOp(shown, "lock", {k})
<1>2. /\ s.job[k] = NoJob /\ win' = [win EXCEPT ![w] = t] /\ used' = used \cup {id}
      /\ listed' = listed /\ retired' = retired /\ failures' = failures
  BY <1>1 DEF Begin, Update, Store, Begun
<1>3. Basic(s) /\ WinOK(s, failures, Built, Gone) /\ Built \in SUBSET Id
  BY WindowReady
<1>4. op \in Kinds /\ op # "remove" /\ pc \in {"locking", "working"}
      /\ (pc = "locking" <=> op # "root")
  BY DEF Kinds
<1> HIDE DEF pc, s
<1>5. /\ Basic(begun) /\ WinOK(begun, failures, Built, Gone) /\ begun.loaded = s.loaded
      /\ OthersStay(begun, s, k)
      /\ begun.job[k].op = op /\ begun.job[k].id = id /\ begun.job[k].pc = pc
  BY <1>2, <1>3, <1>4, NewJobWin
<1> HIDE DEF begun
<1>6. id \in Id /\ id \notin Built
  BY DEF Built
<1>7. Basic(shown) /\ WinOK(shown, failures, Built, Gone) /\ Follows(shown, begun)
      /\ begun.loaded \ shown.loaded \subseteq Gone
  <2>1. CASE op = "adopt"
    BY <1>5, <2>1, SameJobsFollow
  <2>2. CASE op # "adopt"
    BY <1>3, <1>5, <1>6, <2>2, PlaceholderGoes DEF Goes
  <2> QED
    BY <2>1, <2>2
<1> HIDE DEF shown
<1>8. Goes(shown, begun, failures, Built, Gone)
  BY <1>7 DEF Goes
<1>9. Goes(t, begun, failures, Built, Gone)
  <2>1. CASE op = "root"
    BY <1>8, <2>1
  <2>2. CASE op # "root"
    <3>1. Goes(EnqueueOp(shown, "lock", {k}), shown, failures, Built, Gone)
      BY <1>7, OpGoes
    <3> QED
      BY <1>8, <2>2, <3>1, GoesTwice
  <2> QED
    BY <2>1, <2>2
<1> HIDE DEF t
<1>10. WinOK(t, failures, Built, Gone) /\ s.loaded \ t.loaded \subseteq Gone /\ IdsFollow(t, begun)
  BY <1>5, <1>9, FollowsIds DEF Goes
<1>11. IdsTaken' /\ Built \subseteq Built'
  <2>1. used \subseteq used' /\ used' \subseteq Id /\ begun.job[k].id \in used' /\ id \notin used
    BY <1>2, <1>5 DEF ListInv, Books, IdsTaken
  <2> QED
    BY <1>2, <1>5, <1>10, <2>1, IdsAdded DEF s
<1>12. WinOK(t, failures', Built', listed \cup retired')
  BY <1>2, <1>10, <1>11, WinGrows DEF Gone
<1>13. failures' \in Nat /\ win[w].loaded \ t.loaded \subseteq listed \cup retired'
  BY <1>2, <1>10 DEF ListInv, Books, Gone, s
<1> QED
  BY <1>2, <1>11, <1>12, <1>13, BooksGo

LEMMA RemoveLists ==
  ASSUME ListInv, NEW w \in Window, NEW k \in Slot, RemoveWorkspace(w, k)
  PROVE  Books' /\ OwnWork
<1>1. PICK id \in Store(w).loaded :
        LET job == [op |-> "remove", id |-> id, pc |-> "locking"]
        IN  /\ Store(w).job[k] = NoJob /\ Begin(w)
            /\ Update(w, EnqueueOp([Store(w) EXCEPT !.job[k] = job], "lock", {k}))
            /\ UNCHANGED <<used, retired>>
  BY DEF RemoveWorkspace
<1> DEFINE s == win[w]
           begun == Begun(s, k, "remove", id, "locking")
           t == EnqueueOp(begun, "lock", {k})
<1>2. /\ s.job[k] = NoJob /\ win' = [win EXCEPT ![w] = t] /\ used' = used
      /\ listed' = listed /\ retired' = retired /\ failures' = failures /\ id \in s.loaded
  BY <1>1 DEF Begin, Update, Store, Begun
<1>3. Basic(s) /\ WinOK(s, failures, Built, Gone) /\ Built \in SUBSET Id
  BY WindowReady
<1> HIDE DEF s
<1>4. id \in Built /\ id \in s.unpub \cup Gone
  BY <1>2, <1>3 DEF WinOK, ListsOK
<1>5. /\ Basic(begun) /\ WinOK(begun, failures, Built, Gone) /\ begun.loaded = s.loaded
      /\ OthersStay(begun, s, k)
      /\ begun.job[k].op = "remove" /\ begun.job[k].id = id /\ begun.job[k].pc = "locking"
  <2>1. "remove" \in Kinds /\ "locking" \in {"locking", "working"} /\ "remove" # "root"
    BY DEF Kinds
  <2> QED
    BY <1>2, <1>3, <1>4, <2>1, NewJobWin
<1> HIDE DEF begun
<1>6. Goes(t, begun, failures, Built, Gone)
  BY <1>5, OpGoes
<1> HIDE DEF t
<1>7. WinOK(t, failures, Built, Gone) /\ s.loaded \ t.loaded \subseteq Gone /\ IdsFollow(t, begun)
  BY <1>5, <1>6, FollowsIds DEF Goes
<1>8. IdsTaken' /\ Built \subseteq Built'
  <2>1. used \subseteq used' /\ used' \subseteq Id /\ begun.job[k].id \in used'
    BY <1>2, <1>4, <1>5 DEF ListInv, Books, IdsTaken, Built
  <2>2. ~Creating(begun.job[k])
    BY <1>5 DEF Creating
  <2> QED
    BY <1>2, <1>5, <1>7, <2>1, <2>2, IdsAdded DEF s
<1>9. WinOK(t, failures', Built', listed \cup retired')
  BY <1>2, <1>7, <1>8, WinGrows DEF Gone
<1>10. failures' \in Nat /\ win[w].loaded \ t.loaded \subseteq listed \cup retired'
  BY <1>2, <1>7 DEF ListInv, Books, Gone, s
<1> QED
  BY <1>2, <1>8, <1>9, <1>10, BooksGo

LEMMA DismissLists ==
  ASSUME ListInv, NEW w \in Window, DismissWorkspace(w)
  PROVE  Books' /\ OwnWork
<1>1. PICK id \in Entries(Store(w)) \ Store(w).loaded :
        /\ Begin(w)
        /\ Update(w, DeleteEntry(Store(w), id))
        /\ retired' = retired \cup {id}
        /\ UNCHANGED used
  BY DEF DismissWorkspace
<1> DEFINE t == DeleteEntry(win[w], id)
           L == listed \cup retired'
<1>2. /\ id \notin win[w].loaded /\ win' = [win EXCEPT ![w] = t] /\ used' = used
      /\ listed' = listed /\ retired \subseteq retired' /\ failures' = failures
      /\ failures' \in Nat /\ Gone \subseteq L
  BY <1>1 DEF Begin, Update, Store, Gone, ListInv, Books
<1> HIDE DEF L
<1>3. Basic(win[w]) /\ WinOK(win[w], failures', Built, L)
  BY <1>2, WindowReady
<1>4. Goes(t, win[w], failures', Built, L)
  BY <1>2, <1>3, DeletedGoes
<1> HIDE DEF t
<1> QED
  BY <1>2, <1>4, GoesOnGoing DEF L

-----------------------------------------------------------------------------
(* The work of the operations.                                              *)

\* The workspace of an operation: not built yet, or built and known.
LEMMA CreatedIsNew ==
  ASSUME ListInv, NEW w \in Window, NEW k \in Slot, Creating(win[w].job[k])
  PROVE  win[w].job[k].id \in Id /\ win[w].job[k].id \notin Built
BY DEF ListInv, Books, IdsTaken, Built, Creating

LEMMA ClaimedIsBuilt ==
  ASSUME NEW s, NEW f, NEW B, NEW L, WinOK(s, f, B, L), NEW k \in Slot, Claims(s.job[k])
  PROVE  s.job[k].id \in B /\ s.job[k].id \in s.unpub \cup L
BY DEF WinOK, ClaimsOK

\* An operation gives its lock back.
LEMMA UnlockingGoes ==
  ASSUME NEW s, NEW f, NEW B, NEW L, Basic(s), WinOK(s, f, B, L), NEW k \in Slot,
         s.job[k].pc # "none", s.job[k].pc # "writing"
  PROVE  Goes(EnqueueOp(SetPc(s, {k}, "unlocking"), "unlock", {k}), s, f, B, L)
<1> DEFINE u == SetPc(s, {k}, "unlocking")
<1>1. Goes(u, s, f, B, L)
  BY PcGoes
<1> HIDE DEF u
<1>2. Goes(EnqueueOp(u, "unlock", {k}), u, f, B, L)
  BY <1>1, OpGoes DEF Goes
<1> QED
  BY <1>1, <1>2, GoesTwice DEF u

LEMMA WorkFailsLists ==
  ASSUME ListInv, NEW w \in Window, NEW k \in Slot, WorkFails(w, k)
  PROVE  Books' /\ OwnWork
<1> DEFINE s == win[w]
           id == s.job[k].id
           kept == IF s.job[k].op = "remove" THEN PutLoaded(s, id) ELSE PutPlaceholder(s, id)
           t == IF s.job[k].op = "root" THEN EndJob(kept, k)
                ELSE EnqueueOp(SetPc(kept, {k}, "unlocking"), "unlock", {k})
<1>1. /\ s.job[k].pc = "working" /\ win' = [win EXCEPT ![w] = t]
      /\ used' = used /\ listed' = listed /\ retired' = retired /\ failures' = failures + 1
  BY DEF WorkFails, Fail, Update, Store
<1>2. failures' \in Nat /\ failures' # 0
  BY <1>1 DEF ListInv, Books
<1>3. Basic(s) /\ WinOK(s, failures', Built, Gone) /\ Built \in SUBSET Id
  BY <1>2, WindowReady
<1>4. Shape(s)
  BY <1>3 DEF Basic
<1>5. Goes(kept, s, failures', Built, Gone) /\ kept.job = s.job
  <2>1. CASE s.job[k].op = "remove"
    <3>1. Claims(s.job[k])
      BY <1>1, <2>1 DEF Claims
    <3>2. id \in Built /\ id \in s.unpub \cup Gone
      BY <1>3, <3>1, ClaimedIsBuilt
    <3> HIDE DEF s, id
    <3>3. SameCalls(PutLoaded(s, id), s) /\ Goes(PutLoaded(s, id), s, failures', Built, Gone)
      BY <1>3, <1>4, <3>2, LoadedGoes, EntriesKeepCalls
    <3> QED
      BY <2>1, <3>3 DEF SameCalls
  <2>2. CASE s.job[k].op # "remove"
    <3>1. id \in Id /\ id \notin Built
      BY <1>1, <2>2, CreatedIsNew DEF Creating
    <3> HIDE DEF s, id
    <3>2. /\ SameCalls(PutPlaceholder(s, id), s)
          /\ Goes(PutPlaceholder(s, id), s, failures', Built, Gone)
      BY <1>3, <1>4, <3>1, PlaceholderGoes, EntriesKeepCalls
    <3> QED
      BY <2>2, <3>2 DEF SameCalls
  <2> QED
    BY <2>1, <2>2
<1> HIDE DEF kept
<1>6. Goes(t, kept, failures', Built, Gone)
  BY <1>1, <1>5, EndGoes, UnlockingGoes DEF Goes
<1> HIDE DEF t
<1>7. Goes(t, s, failures', Built, Gone)
  BY <1>5, <1>6, GoesTwice
<1> QED
  BY <1>1, <1>2, <1>7, GoesOnGoing DEF Gone

LEMMA CreationWorkedLists ==
  ASSUME ListInv, NEW w \in Window, NEW k \in Slot, CreationWorked(w, k)
  PROVE  Books' /\ OwnWork
<1>1. /\ Creating(win[w].job[k]) /\ win' = [win EXCEPT ![w] = CreateWorkspace(win[w], k)]
      /\ used' = used /\ listed' = listed /\ retired' = retired /\ failures' = failures
  BY DEF CreationWorked, Creating, Update, Store, world
<1>2. Basic(win[w]) /\ WinOK(win[w], failures, Built, Gone)
  BY WindowReady
<1>3. Goes(win[w], win[w], failures, Built, Gone)
  BY <1>2, SameJobsFollow DEF Goes
<1> QED
  BY <1>1, <1>3, CreationGoes

LEMMA RemovalWorkedLists ==
  ASSUME ListInv, NEW w \in Window, NEW k \in Slot, RemovalWorked(w, k)
  PROVE  Books' /\ OwnWork
<1> DEFINE s == win[w]
           id == s.job[k].id
           waiting == SetPc(s, {k}, "syncing")
           removed == OnWorkspaceRemoved(waiting, {id})
           t == EnqueueSync(removed, {k})
           u == EnqueueOp(SetPc(s, {k}, "unlocking"), "unlock", {k})
           L == listed \cup retired'
<1>1. /\ s.job[k].pc = "working" /\ retired \subseteq retired'
      /\ used' = used /\ listed' = listed /\ failures' = failures
      /\ \/ win' = [win EXCEPT ![w] = t] /\ id \in retired'
         \/ win' = [win EXCEPT ![w] = u]
  BY DEF RemovalWorked, Update, Store
<1>2. failures' \in Nat /\ Gone \subseteq L
  BY <1>1 DEF ListInv, Books, Gone
<1>3. Basic(s) /\ WinOK(s, failures', Built, L)
  BY <1>1, <1>2, WindowReady
<1>4. Goes(u, s, failures', Built, L)
  BY <1>1, <1>3, UnlockingGoes
<1>5. ASSUME id \in retired' PROVE Goes(t, s, failures', Built, L)
  <2>1. Goes(waiting, s, failures', Built, L)
    BY <1>1, <1>3, PcGoes
  <2>2. {id} \in SUBSET L
    BY <1>5
  <2> HIDE DEF waiting, L, id, s
  <2>3. Goes(removed, waiting, failures', Built, L)
    BY <2>1, <2>2, RemovedGoes DEF Goes
  <2> HIDE DEF removed
  <2>4. Follows(removed, removed) /\ SameLists(removed, removed)
    BY <2>3, SameJobsFollow DEF Goes, Basic, SameLists
  <2>5. Goes(t, removed, failures', Built, L)
    BY <2>3, <2>4, SyncGoes DEF Goes
  <2> HIDE DEF t
  <2> QED
    BY <2>1, <2>3, <2>5, GoesTwice
<1> HIDE DEF t, u
<1> QED
  BY <1>1, <1>2, <1>4, <1>5, GoesOnGoing

LEMMA FileWrittenLists ==
  ASSUME ListInv, NEW w \in Window, NEW k \in Slot, FileWritten(w, k)
  PROVE  Books' /\ OwnWork
<1> DEFINE s == win[w]
           id == s.job[k].id
           watching == EnsureWatch(s, {id})
           over == EndJob(watching, k)
           waiting == SetPc(watching, {k}, "syncing")
           t == IF s.job[k].op = "root" THEN EnqueueSync(over, {})
                ELSE EnqueueSync(waiting, {k})
<1>1. /\ s.job[k].pc = "writing" /\ win' = [win EXCEPT ![w] = t]
      /\ used' = used /\ listed' = listed /\ retired' = retired /\ failures' = failures
  BY DEF FileWritten, Update, Store
<1>2. Basic(s) /\ WinOK(s, failures, Built, Gone)
  BY WindowReady
<1>3. {id} \in SUBSET Built /\ {id} \subseteq s.unpub \cup Gone
  BY <1>1, <1>2, ClaimedIsBuilt DEF Claims
<1>4. Goes(watching, s, failures, Built, Gone)
  BY <1>2, <1>3, WatchedGoes
<1>5. watching.job[k].pc = "writing"
  <2>1. watching.job = s.job
    BY <1>2 DEF EnsureWatch, Basic, Shape, Fields
  <2> QED
    BY <1>1, <2>1
<1> HIDE DEF watching
<1>6. Goes(t, watching, failures, Built, Gone)
  <2>1. CASE s.job[k].op = "root"
    <3>1. Basic(over) /\ Follows(over, watching) /\ SameLists(over, watching)
          /\ over.cur = watching.cur
      BY <1>4, EndSteps DEF Goes
    <3> HIDE DEF over
    <3>2. Goes(EnqueueSync(over, {}), watching, failures, Built, Gone)
      BY <1>4, <3>1, SyncGoes DEF Goes
    <3> QED
      BY <2>1, <3>2
  <2>2. CASE s.job[k].op # "root"
    <3>1. Basic(waiting) /\ Follows(waiting, watching) /\ SameLists(waiting, watching)
          /\ waiting.cur = watching.cur
      BY <1>4, <1>5, PcSteps DEF Goes
    <3> HIDE DEF waiting
    <3>2. Goes(EnqueueSync(waiting, {k}), watching, failures, Built, Gone)
      BY <1>4, <3>1, SyncGoes DEF Goes
    <3> QED
      BY <2>2, <3>2
  <2> QED
    BY <2>1, <2>2
<1> HIDE DEF t
<1>7. Goes(t, s, failures, Built, Gone)
  BY <1>4, <1>6, GoesTwice
<1>8. failures' \in Nat
  BY <1>1 DEF ListInv, Books
<1> QED
  BY <1>1, <1>7, <1>8, GoesOnGoing DEF Gone

LEMMA FileDeletedLists ==
  ASSUME ListInv, NEW w \in Window, NEW k \in Slot, FileDeleted(w, k)
  PROVE  Books' /\ OwnWork
<1> DEFINE s == win[w]
           u == SetPc(s, {k}, "unlocking")
           id == u.job[k].id
           back == PutLoaded(u, id)
           t == EnqueueOp(u, "unlock", {k})
           v == EnqueueOp(back, "unlock", {k})
<1>1. /\ s.job[k].pc = "deleting" /\ used' = used /\ listed' = listed /\ retired' = retired
      /\ \/ win' = [win EXCEPT ![w] = t] /\ failures' = failures
         \/ win' = [win EXCEPT ![w] = v] /\ failures' = failures + 1
  BY DEF FileDeleted, Fail, Update, Store
<1>2. failures' \in Nat /\ (failures' = 0 => failures = 0)
  BY <1>1 DEF ListInv, Books
<1>3. Basic(s) /\ WinOK(s, failures', Built, Gone) /\ Built \in SUBSET Id
  BY <1>2, WindowReady
<1>4. Goes(t, s, failures', Built, Gone)
  BY <1>1, <1>3, UnlockingGoes
<1>5. Goes(u, s, failures', Built, Gone) /\ u.unpub = s.unpub /\ id = s.job[k].id
  <2>1. Goes(u, s, failures', Built, Gone) /\ SameLists(u, s) /\ OneMoved(u, s, k, "unlocking")
    BY <1>1, <1>3, PcGoes, PcSteps
  <2> HIDE DEF u
  <2>2. IsJob(s.job[k])
    BY <1>1, BusyIsJob DEF ListInv
  <2> QED
    BY <2>1, <2>2 DEF SameLists, OneMoved, IsJob
<1>6. id \in Built /\ id \in u.unpub \cup Gone
  BY <1>1, <1>3, <1>5, ClaimedIsBuilt DEF Claims
<1> HIDE DEF u, id
<1>7. Goes(back, u, failures', Built, Gone)
  <2>1. Basic(u) /\ WinOK(u, failures', Built, Gone)
    BY <1>5 DEF Goes
  <2> QED
    BY <1>3, <1>6, <2>1, LoadedGoes
<1> HIDE DEF back
<1>8. Goes(v, back, failures', Built, Gone)
  BY <1>7, OpGoes DEF Goes
<1> HIDE DEF v, t
<1>9. Goes(v, s, failures', Built, Gone)
  BY <1>5, <1>7, <1>8, GoesTwice
<1> QED
  BY <1>1, <1>2, <1>4, <1>9, GoesOnGoing DEF Gone

-----------------------------------------------------------------------------
(* The calls of a window.                                                   *)

LEMMA HeadIsNoSync ==
  ASSUME NEW q \in Seq(Calls), q # <<>>, Head(q).op # "sync",
         \E i \in 1..Len(q) : q[i].op = "sync"
  PROVE  \E i \in 1..Len(Tail(q)) : Tail(q)[i].op = "sync"
<1>1. PICK i \in 1..Len(q) : q[i].op = "sync"
  OBVIOUS
<1>2. i # 1
  BY <1>1
<1>3. i - 1 \in 1..Len(Tail(q)) /\ Tail(q)[i - 1] = q[i]
  BY <1>1, <1>2
<1> QED
  BY <1>1, <1>3

\* A call other than a sync starts.
LEMMA OtherStarts ==
  ASSUME NEW S, StoreInv(S), NEW f, NEW B, NEW L, WinOK(S, f, B, L),
         S.cur = NoCall, S.queue # <<>>, Head(S.queue).op # "sync"
  PROVE  LET t == [[S EXCEPT !.queue = Tail(@)] EXCEPT !.cur = Head(S.queue)]
         IN  WinOK(t, f, B, L) /\ Follows(t, S) /\ t.loaded = S.loaded
<1> DEFINE s == [S EXCEPT !.queue = Tail(@)]
           next == Head(S.queue)
           t == [s EXCEPT !.cur = next]
<1>1. /\ S.queue \in Seq(Calls) /\ Shape(S)
  BY DEF StoreInv, CallsTyped
<1>2. SameLists(s, S) /\ s.job = S.job /\ s.queue = Tail(S.queue) /\ Shape(s)
  BY <1>1, CallsKeepLists DEF SameLists, Shape, Fields
<1> HIDE DEF s
<1>3. SameLists(t, s) /\ t.job = s.job /\ t.queue = s.queue /\ t.cur = next
  BY <1>2, CallsKeepLists DEF SameLists, Shape, Fields
<1>4. ~Syncing(S) /\ ~Syncing(t)
  BY <1>3 DEF Syncing
<1> HIDE DEF t, next
<1>5. SyncQueued(S) => SyncQueued(t)
  BY <1>1, <1>2, <1>3, HeadIsNoSync DEF SyncQueued
<1>6. SameLists(t, S)
  BY <1>2, <1>3, SameListsTwice
<1>7. WinOK(t, f, B, L)
  BY <1>2, <1>3, <1>4, <1>5, <1>6, OtherCall
<1>8. Follows(t, S)
  BY <1>2, <1>3, SameJobsFollow
<1> QED
  BY <1>6, <1>7, <1>8 DEF SameLists, s, t, next

\* A sync starts: it is skipped, or sends what the window shows.
LEMMA SyncStarts ==
  ASSUME NEW S, StoreInv(S), NEW f, NEW B, NEW L, WinOK(S, f, B, L),
         S.cur = NoCall, S.queue # <<>>, Head(S.queue).op = "sync"
  PROVE  LET s == [S EXCEPT !.queue = Tail(@)]
             slots == Head(S.queue).slots
             t == IF CurrentRefs(s) = s.synced THEN SyncSettled(s, slots)
                  ELSE SendRefs(s, slots)
         IN  WinOK(t, f, B, L) /\ Follows(t, S) /\ S.loaded \ t.loaded \subseteq L
<1> DEFINE s == [S EXCEPT !.queue = Tail(@)]
           next == Head(S.queue)
           slots == next.slots
           skipped == SyncSettled(s, slots)
           sent == SendRefs(s, slots)
<1>1. /\ StoreInv(s) /\ s.job = S.job /\ s.cur = NoCall /\ next \in Calls
      /\ \A k \in next.slots :
           k \in Slot /\ ~Queued1(s, k) /\ Awaited(s.job[k].pc) = next.op
  BY HeadIsTaken
<1>2. SameLists(s, S)
  BY CallsKeepLists DEF StoreInv
<1> HIDE DEF s, next
<1>3. slots \in SUBSET Slot
      /\ \A k \in slots : ~Queued1(s, k) /\ ~InFlight1(s, k) /\ s.job[k].pc = "syncing"
  BY <1>1, AwaitedBack DEF InFlight1, next
<1> HIDE DEF slots
<1>4. ListsOK(s, B, L) /\ ClaimsOK(s, B, L) /\ Unsynced(s) /\ Basic(s)
  <2>1. ListsOK(s, B, L)
    BY <1>2, SameListsAreOK DEF WinOK
  <2>2. ClaimsOK(s, B, L) /\ Unsynced(s)
    BY <1>1, <1>2 DEF WinOK, ClaimsOK, Unsynced, Syncing, SameLists
  <2> QED
    BY <1>1, <2>1, <2>2 DEF StoreInv, Basic
<1>5. Follows(s, S) /\ s.loaded = S.loaded
  BY <1>1, <1>2, SameJobsFollow DEF SameLists
<1>6. CASE CurrentRefs(s) = s.synced
  <2>1. WinOK(s, f, B, L)
    BY <1>1, <1>4, <1>6, SkippedWin
  <2>2. Basic(skipped)
    BY <1>1, <1>3, SettledIsFine DEF StoreInv, Basic
  <2>3. Goes(skipped, s, f, B, L)
    BY <1>3, <1>4, <2>1, <2>2, SettledGoes
  <2> HIDE DEF skipped
  <2>4. WinOK(skipped, f, B, L) /\ Follows(skipped, S) /\ S.loaded \ skipped.loaded \subseteq L
    BY <1>5, <2>3, FollowsTwice DEF Goes
  <2> QED
    BY <1>6, <2>4 DEF s, skipped, slots, next
<1>7. CASE CurrentRefs(s) # s.synced
  <2>1. WinOK(sent, f, B, L) /\ sent.loaded = s.loaded
    BY <1>1, <1>4, SentWin DEF Basic
  <2>2. sent.job = s.job
    BY <1>4 DEF SendRefs, Basic, Shape, Fields
  <2> HIDE DEF sent
  <2>3. Follows(sent, S) /\ S.loaded \ sent.loaded \subseteq L
    BY <1>5, <2>1, <2>2, SameJobsFollow, FollowsTwice
  <2> QED
    BY <1>7, <2>1, <2>3 DEF s, sent, slots, next
<1> QED
  BY <1>6, <1>7

LEMMA StartLists ==
  ASSUME ListInv, NEW w \in Window, StartCall(w)
  PROVE  Books' /\ OwnWork
<1> DEFINE S == win[w]
           s == [S EXCEPT !.queue = Tail(@)]
           next == Head(S.queue)
           t == IF next.op # "sync" THEN [s EXCEPT !.cur = next]
                ELSE IF CurrentRefs(s) = s.synced THEN SyncSettled(s, next.slots)
                ELSE SendRefs(s, next.slots)
<1>1. /\ S.cur = NoCall /\ S.queue # <<>> /\ win' = [win EXCEPT ![w] = t]
      /\ used' = used /\ listed' = listed /\ retired' = retired /\ failures' = failures
  BY DEF StartCall, Update, Store, world
<1>2. StoreInv(S) /\ WinOK(S, failures, Built, Gone)
  BY WindowReady
<1>3. WinOK(t, failures, Built, Gone) /\ Follows(t, S) /\ S.loaded \ t.loaded \subseteq Gone
  <2> HIDE DEF S
  <2>1. CASE next.op # "sync"
    BY <1>1, <1>2, <2>1, OtherStarts
  <2>2. CASE next.op = "sync"
    BY <1>1, <1>2, <2>2, SyncStarts
  <2> QED
    BY <2>1, <2>2
<1> HIDE DEF t
<1>4. failures' \in Nat
  BY <1>1 DEF ListInv, Books
<1> QED
  BY <1>1, <1>3, <1>4, FollowsIds, GoesOn DEF Gone

\* The windows stay, and more gets listed.
LEMMA ListedMore ==
  ASSUME ListInv, win' = win, used' = used, failures' = failures, retired' = retired,
         listed \subseteq listed', listed' \subseteq Built
  PROVE  Books' /\ OwnWork
<1>1. IdsTaken' /\ Built' = Built
  BY DEF ListInv, Books, IdsTaken, Built, Creating
<1>2. Gone \subseteq Gone'
  BY DEF Gone
<1>3. ASSUME NEW w \in Window PROVE WinOK(win'[w], failures', Built', Gone')
  <2>1. WinOK(win[w], failures, Built, Gone)
    BY DEF ListInv, Books
  <2>2. WinOK(win[w], failures', Built', Gone')
    BY <1>1, <1>2, <2>1, WinGrows
  <2> QED
    BY <2>2
<1>4. Books'
  BY <1>1, <1>3 DEF ListInv, Books
<1> QED
  BY <1>4 DEF OwnWork

LEMMA ServeLists ==
  ASSUME ListInv, NEW w \in Window, Serve(w)
  PROVE  Books' /\ OwnWork
BY ServeSteps, ListedMore

-----------------------------------------------------------------------------
(* The answers, the events and the bodies.                                  *)

\* The operation of a call that is over, and the store without the call.
LEMMA OtherEnds ==
  ASSUME NEW S, StoreInv(S), NEW f, NEW B, NEW L, WinOK(S, f, B, L),
         S.cur # NoCall, S.cur.op # "sync"
  PROVE  LET s == [S EXCEPT !.cur = NoCall]
             k == TheSlot(S.cur)
         IN  /\ Goes(s, S, f, B, L) /\ s.job = S.job /\ k \in Slot
             /\ S.cur.op = "lock" => s.job[k].pc = "locking" /\ IsJob(s.job[k])
                                     /\ s.job[k].op # "root"
             /\ S.cur.op = "unlock" => s.job[k].pc = "unlocking"
<1> DEFINE s == [S EXCEPT !.cur = NoCall]
           k == TheSlot(S.cur)
<1>1. /\ StoreInv(s) /\ s.job = S.job /\ s.cur = NoCall
      /\ \A l \in S.cur.slots : l \in Slot /\ Quiet(s, l) /\ Awaited(s.job[l].pc) = S.cur.op
  BY CallIsOver
<1>2. SameLists(s, S) /\ s.queue = S.queue
  BY CallsKeepLists DEF StoreInv, Shape, Fields
<1>3. k \in S.cur.slots
  BY DEF TheSlot, StoreInv, CallsTyped
<1> HIDE DEF s, k
<1>4. ~Syncing(S) /\ ~Syncing(s)
  BY <1>1 DEF Syncing
<1>5. WinOK(s, f, B, L)
  BY <1>1, <1>2, <1>4, OtherCall DEF SyncQueued
<1>6. Goes(s, S, f, B, L)
  BY <1>1, <1>2, <1>5, SameJobsFollow DEF Goes, StoreInv, Basic, SameLists
<1>7. k \in Slot /\ Quiet(s, k) /\ Awaited(s.job[k].pc) = S.cur.op
  BY <1>1, <1>3
<1>8. /\ S.cur.op = "lock" => s.job[k].pc = "locking"
      /\ S.cur.op = "unlock" => s.job[k].pc = "unlocking"
  BY <1>7, AwaitedBack
<1>9. S.cur.op = "lock" => IsJob(s.job[k]) /\ s.job[k].op # "root"
  BY <1>1, <1>7, <1>8 DEF StoreInv, JobsOK, NoJob
<1> QED
  BY <1>1, <1>6, <1>7, <1>8, <1>9 DEF s, k

\* A refused lock leaves a placeholder, or puts a workspace back.
LEMMA RefusedGoes ==
  ASSUME NEW s, NEW f, NEW B \in SUBSET Id, NEW L, Basic(s), WinOK(s, f, B, L), NEW k \in Slot,
         IsJob(s.job[k]), s.job[k].pc = "locking", s.job[k].op # "root",
         Creating(s.job[k]) => s.job[k].id \in Id /\ s.job[k].id \notin B
  PROVE  Goes(LockRefused(s, k), s, f, B, L)
<1> DEFINE job == s.job[k]
           over == EndJob(s, k)
           id == job.id
<1>1. Goes(over, s, f, B, L) /\ SameLists(over, s)
  BY EndGoes, EndSteps
<1>2. job.op \in {"child", "adopt", "remove"}
  BY DEF IsJob, Kinds
<1> HIDE DEF over
<1>3. CASE job.op = "child"
  <2>1. id \in Id /\ id \notin B
    BY <1>3 DEF Creating
  <2> HIDE DEF id
  <2>2. Goes(PutPlaceholder(over, id), s, f, B, L)
    BY <1>1, <2>1, PlaceholderGoes, GoesTwice DEF Goes
  <2>3. LockRefused(s, k) = PutPlaceholder(over, id)
    BY <1>3 DEF LockRefused, over, id
  <2> QED
    BY <2>2, <2>3
<1>4. CASE job.op = "adopt"
  <2>1. LockRefused(s, k) = over
    BY <1>4 DEF LockRefused, over
  <2> QED
    BY <1>1, <2>1
<1>5. CASE job.op = "remove"
  <2>1. id \in B /\ id \in over.unpub \cup L
    BY <1>1, <1>5, ClaimedIsBuilt DEF Claims, SameLists
  <2> HIDE DEF id
  <2>2. Goes(PutLoaded(over, id), over, f, B, L)
    <3>1. Basic(over) /\ WinOK(over, f, B, L)
      BY <1>1 DEF Goes
    <3> QED
      BY <2>1, <3>1, LoadedGoes
  <2>3. LockRefused(s, k) = PutLoaded(over, id)
    BY <1>5 DEF LockRefused, over, id
  <2> QED
    BY <1>1, <2>2, <2>3, GoesTwice
<1> QED
  BY <1>2, <1>3, <1>4, <1>5

\* A granted lock: the operation goes to work.
LEMMA GrantedGoes ==
  ASSUME NEW s, NEW f, NEW B \in SUBSET Id, NEW L, Basic(s), WinOK(s, f, B, L), NEW k \in Slot,
         IsJob(s.job[k]), s.job[k].pc = "locking", s.job[k].op # "root",
         NEW snap, snap.version \in Nat
  PROVE  LET held == SetPc([s EXCEPT !.ver = snap.version], {k}, "working")
         IN  /\ Goes(held, s, f, B, L)
             /\ s.job[k].op # "adopt" => Goes(LockGranted(s, k, snap), s, f, B, L)
             /\ s.job[k].op = "adopt" => /\ LockGranted(s, k, snap) = CreateWorkspace(held, k)
                                         /\ Creating(held.job[k])
<1> DEFINE fresh == [s EXCEPT !.ver = snap.version]
           held == SetPc(fresh, {k}, "working")
           job == s.job[k]
           id == job.id
<1>1. Goes(fresh, s, f, B, L) /\ fresh.job = s.job
  BY VersionGoes DEF Basic, Shape, Fields
<1> HIDE DEF fresh
<1>2. Goes(held, fresh, f, B, L) /\ OneMoved(held, fresh, k, "working")
  BY <1>1, PcGoes, PcSteps DEF Goes
<1> HIDE DEF held
<1>3. Goes(held, s, f, B, L)
  BY <1>1, <1>2, GoesTwice
<1>4. held.job[k].pc = "working" /\ held.job[k].op = job.op /\ held.job[k].id = id
  BY <1>1, <1>2 DEF OneMoved, IsJob
<1>5. job.op \in {"child", "adopt", "remove"}
  BY DEF IsJob, Kinds
<1>6. CASE job.op = "child"
  <2>1. LockGranted(s, k, snap) = held
    BY <1>6 DEF LockGranted, held, fresh
  <2> QED
    BY <1>3, <1>6, <2>1 DEF held, fresh
<1>7. CASE job.op = "adopt"
  <2>1. LockGranted(s, k, snap) = CreateWorkspace(held, k)
    BY <1>7 DEF LockGranted, held, fresh
  <2> QED
    BY <1>3, <1>4, <1>7, <2>1 DEF held, fresh, Creating
<1>8. CASE job.op = "remove"
  <2>1. Claims(held.job[k]) /\ Basic(held) /\ WinOK(held, f, B, L)
    BY <1>3, <1>4, <1>8 DEF Claims, Goes
  <2>2. id \in B /\ id \in held.unpub \cup L
    BY <1>4, <2>1, ClaimedIsBuilt
  <2>3. LockGranted(s, k, snap) = PutLoaded(held, id)
    BY <1>8 DEF LockGranted, held, fresh
  <2> HIDE DEF id
  <2>4. Goes(PutLoaded(held, id), held, f, B, L)
    BY <2>1, <2>2, LoadedGoes
  <2>5. Goes(LockGranted(s, k, snap), s, f, B, L)
    BY <1>3, <2>3, <2>4, GoesTwice
  <2> QED
    BY <1>3, <1>8, <2>5 DEF held, fresh
<1> QED
  BY <1>5, <1>6, <1>7, <1>8

\* A sync is over: its waiters go on.
LEMMA SyncEnds ==
  ASSUME NEW S, StoreInv(S), S.cur # NoCall, S.cur.op = "sync", NEW f, NEW B, NEW L,
         NEW u, Harmless(u, [S EXCEPT !.cur = NoCall]), WinOK(u, f, B, L),
         S.loaded \ u.loaded \subseteq L
  PROVE  LET t == SyncSettled(u, S.cur.slots)
         IN  WinOK(t, f, B, L) /\ Follows(t, S) /\ S.loaded \ t.loaded \subseteq L
<1> DEFINE s == [S EXCEPT !.cur = NoCall]
           K == S.cur.slots
           t == SyncSettled(u, K)
<1>1. /\ StoreInv(s) /\ s.job = S.job
      /\ \A l \in K : l \in Slot /\ Quiet(s, l) /\ Awaited(s.job[l].pc) = S.cur.op
  BY CallIsOver
<1>2. K \in SUBSET Slot /\ \A k \in K : Quiet(s, k) /\ s.job[k].pc = "syncing"
  BY <1>1, AwaitedBack
<1> HIDE DEF s, K
<1>3. Harmless(u, s)
  BY DEF s
<1>4. StoreInv(t)
  BY <1>1, <1>2, <1>3, SyncAnswerIsFine
<1>5. Basic(u) /\ u.job = S.job /\ Basic(t)
  BY <1>1, <1>3, <1>4 DEF Harmless, StoreInv, Basic
<1>6. \A k \in K : u.job[k].pc = "syncing"
  BY <1>1, <1>2, <1>5
<1> HIDE DEF t
<1>7. Goes(t, u, f, B, L)
  BY <1>2, <1>5, <1>6, SettledGoes DEF t
<1>8. Follows(t, S)
  BY <1>5, <1>7, SameJobsFollow, FollowsTwice DEF Goes
<1>9. WinOK(t, f, B, L) /\ S.loaded \ t.loaded \subseteq L
  BY <1>7 DEF Goes
<1> QED
  BY <1>8, <1>9 DEF t, K

LEMMA TaskSnapshot ==
  ASSUME ListInv, NEW w \in Window, task[w] # Idle
  PROVE  task[w].snap \in Snapshots
<1>1. w \in Task \cup {Heartbeat}
  BY RefSyncAssumption DEF Window
<1> QED
  BY <1>1 DEF Snapshots

LEMMA ReplyLists ==
  ASSUME ListInv, NEW w \in Window, ReplyArrives(w)
  PROVE  Books' /\ OwnWork
<1> DEFINE S == win[w]
           call == S.cur
           s == [S EXCEPT !.cur = NoCall]
           snap == task[w].snap
           k == TheSlot(call)
           fresh == [s EXCEPT !.ver = snap.version]
           t == CASE call.op = "sync" -> SyncSettled(SyncAnswered(s, call, snap), call.slots)
                  [] call.op = "lock" -> LockSettled(s, k, task[w].ok, snap)
                  [] call.op = "unlock" -> EndJob(fresh, k)
<1>1. /\ task[w].stage = "reply" /\ win' = [win EXCEPT ![w] = t]
      /\ used' = used /\ listed' = listed /\ retired' = retired /\ failures' = failures
  BY DEF ReplyArrives, Reply, Update, Store, world
<1>2. StoreInv(S) /\ WinOK(S, failures, Built, Gone) /\ Built \in SUBSET Id
      /\ listed \subseteq Gone
  BY WindowReady
<1>3. task[w] # Idle
  BY <1>1 DEF Idle
<1>4. call # NoCall /\ call.op \in {"lock", "unlock", "sync"}
  BY <1>2, <1>3 DEF ListInv, LockInv, ServedFor, StoreInv, CallsTyped
<1>5. /\ snap.version \in Nat /\ snap.refs \in RefList
      /\ IdsOf(snap.refs) \subseteq Built /\ IdsOf(snap.refs) \subseteq Gone
  BY <1>2, <1>3, TaskSnapshot, SnapshotTold
<1>6. failures' \in Nat
  BY <1>1 DEF ListInv, Books
<1> HIDE DEF snap
<1>7. CASE call.op = "sync"
  <2> DEFINE u == SyncAnswered(s, call, snap)
  <2>1. Syncing(S)
    BY <1>4, <1>7 DEF Syncing
  <2>2. WinOK(u, failures, Built, Gone) /\ S.loaded \ u.loaded \subseteq Gone
    BY <1>2, <1>5, <2>1, AnswerWin
  <2>3. Basic(s)
    BY <1>2, <1>4, CallIsOver DEF StoreInv, Basic
  <2>4. Harmless(u, s)
    BY <2>3, AnswerIsHarmless
  <2>5. t = SyncSettled(u, call.slots)
    BY <1>7
  <2> HIDE DEF u, t, S
  <2>6. /\ WinOK(t, failures, Built, Gone) /\ Follows(t, S)
        /\ S.loaded \ t.loaded \subseteq Gone
    BY <1>2, <1>4, <1>7, <2>2, <2>4, <2>5, SyncEnds
  <2> QED
    BY <1>1, <1>6, <2>6, FollowsIds, GoesOn DEF Gone, S
<1>8. CASE call.op = "lock"
  <2> DEFINE r == LockRefused(s, k)
             g == LockGranted(s, k, snap)
             held == SetPc(fresh, {k}, "working")
  <2>1. /\ Goes(s, S, failures, Built, Gone) /\ s.job = S.job /\ k \in Slot
        /\ s.job[k].pc = "locking" /\ IsJob(s.job[k]) /\ s.job[k].op # "root"
    BY <1>2, <1>4, <1>8, OtherEnds
  <2>2. Creating(s.job[k]) => s.job[k].id \in Id /\ s.job[k].id \notin Built
    BY <2>1, CreatedIsNew
  <2>3. t = IF task[w].ok THEN g ELSE r
    BY <1>8 DEF LockSettled
  <2> HIDE DEF t, k, s
  <2>4. Basic(s) /\ WinOK(s, failures, Built, Gone)
    BY <2>1 DEF Goes
  <2>5. Goes(r, S, failures, Built, Gone)
    BY <1>2, <2>1, <2>2, <2>4, RefusedGoes, GoesTwice
  <2>6. /\ Goes(held, s, failures, Built, Gone)
        /\ s.job[k].op # "adopt" => Goes(g, s, failures, Built, Gone)
        /\ s.job[k].op = "adopt" => g = CreateWorkspace(held, k) /\ Creating(held.job[k])
    BY <1>2, <1>5, <2>1, <2>4, GrantedGoes
  <2> HIDE DEF g, r, held
  <2>7. CASE task[w].ok /\ s.job[k].op = "adopt"
    <3>1. Goes(held, S, failures, Built, Gone) /\ Creating(S.job[k])
      BY <2>1, <2>6, <2>7, GoesTwice DEF Creating
    <3> QED
      BY <1>1, <2>1, <2>3, <2>6, <2>7, <3>1, CreationGoes
  <2>8. CASE ~task[w].ok \/ s.job[k].op # "adopt"
    <3>1. Goes(t, S, failures, Built, Gone)
      BY <2>1, <2>3, <2>5, <2>6, <2>8, GoesTwice
    <3> QED
      BY <1>1, <1>6, <3>1, GoesOnGoing DEF Gone
  <2> QED
    BY <2>7, <2>8
<1>9. CASE call.op = "unlock"
  <2>1. /\ Goes(s, S, failures, Built, Gone) /\ k \in Slot /\ s.job[k].pc = "unlocking"
    BY <1>2, <1>4, <1>9, OtherEnds
  <2>2. t = EndJob(fresh, k)
    BY <1>9
  <2> HIDE DEF t, k, s
  <2>3. Goes(fresh, s, failures, Built, Gone) /\ fresh.job = s.job
    BY <1>5, <2>1, VersionGoes DEF Goes, Basic, Shape, Fields
  <2> HIDE DEF fresh
  <2>4. Goes(t, fresh, failures, Built, Gone)
    <3>1. fresh.job[k].pc # "writing"
      BY <2>1, <2>3
    <3>2. Basic(fresh) /\ WinOK(fresh, failures, Built, Gone)
      BY <2>3 DEF Goes
    <3> QED
      BY <2>1, <2>2, <3>1, <3>2, EndGoes
  <2>5. Goes(t, S, failures, Built, Gone)
    BY <2>1, <2>3, <2>4, GoesTwice
  <2> QED
    BY <1>1, <1>6, <2>5, GoesOnGoing DEF Gone
<1> QED
  BY <1>4, <1>7, <1>8, <1>9

LEMMA FailureLists ==
  ASSUME ListInv, NEW w \in Window, CallFails(w)
  PROVE  Books' /\ OwnWork
<1> DEFINE S == win[w]
           call == S.cur
           s == [S EXCEPT !.cur = NoCall]
           k == TheSlot(call)
           f == failures'
           t == CASE call.op = "sync" -> SyncSettled(SyncFailed(s, call), call.slots)
                  [] call.op = "lock" -> LockRefused(s, k)
                  [] call.op = "unlock" -> EndJob(s, k)
<1>1. /\ call # NoCall /\ win' = [win EXCEPT ![w] = t] /\ failures' = failures + 1
      /\ used' = used /\ listed' = listed /\ retired' = retired
  BY DEF CallFails, Fail, Update, Store
<1>2. failures' \in Nat /\ f # 0
  BY <1>1 DEF ListInv, Books
<1> HIDE DEF f
<1>3. StoreInv(S) /\ WinOK(S, f, Built, Gone) /\ Built \in SUBSET Id
  BY <1>2, WindowReady
<1>4. call.op \in {"lock", "unlock", "sync"}
  BY <1>1, <1>3 DEF StoreInv, CallsTyped
<1>5. CASE call.op = "sync"
  <2> DEFINE u == SyncFailed(s, call)
  <2>1. Syncing(S)
    BY <1>1, <1>5 DEF Syncing
  <2>2. WinOK(u, f, Built, Gone) /\ u.loaded = S.loaded
    BY <1>2, <1>3, <2>1, LostWin
  <2>3. Basic(s)
    BY <1>1, <1>3, CallIsOver DEF StoreInv, Basic
  <2>4. SameCalls(u, s)
    BY <2>3 DEF SyncFailed, SameCalls, Basic, Shape, Fields
  <2>5. t = SyncSettled(u, call.slots)
    BY <1>5
  <2> HIDE DEF u, t
  <2>6. Harmless(u, s)
    BY <2>3, <2>4, SameIsHarmless
  <2> HIDE DEF S
  <2>7. WinOK(t, f, Built, Gone) /\ Follows(t, S) /\ S.loaded \ t.loaded \subseteq Gone
    BY <1>1, <1>3, <1>5, <2>2, <2>5, <2>6, SyncEnds
  <2> QED
    BY <1>1, <1>2, <2>7, FollowsIds, GoesOn DEF Gone, S, f
<1>6. CASE call.op # "sync"
  <2>1. /\ Goes(s, S, f, Built, Gone) /\ s.job = S.job /\ k \in Slot
        /\ call.op = "lock" => s.job[k].pc = "locking" /\ IsJob(s.job[k])
                               /\ s.job[k].op # "root"
        /\ call.op = "unlock" => s.job[k].pc = "unlocking"
    BY <1>1, <1>3, <1>6, OtherEnds
  <2>2. Creating(s.job[k]) => s.job[k].id \in Id /\ s.job[k].id \notin Built
    BY <2>1, CreatedIsNew
  <2>3. /\ call.op = "lock" => t = LockRefused(s, k)
        /\ call.op = "unlock" => t = EndJob(s, k)
    OBVIOUS
  <2> HIDE DEF t, k, s
  <2>4. Basic(s) /\ WinOK(s, f, Built, Gone)
    BY <2>1 DEF Goes
  <2>5. Goes(t, s, f, Built, Gone)
    <3>1. CASE call.op = "lock"
      BY <1>3, <2>1, <2>2, <2>3, <2>4, <3>1, RefusedGoes
    <3>2. CASE call.op = "unlock"
      BY <2>1, <2>3, <2>4, <3>2, EndGoes
    <3> QED
      BY <1>4, <1>6, <3>1, <3>2
  <2>6. Goes(t, S, f, Built, Gone)
    BY <2>1, <2>5, GoesTwice
  <2> QED
    BY <1>1, <1>2, <2>6, GoesOnGoing DEF Gone, f
<1> QED
  BY <1>5, <1>6

LEMMA EventLists ==
  ASSUME ListInv, NEW w \in Window, DeliverEvent(w)
  PROVE  Books' /\ OwnWork
<1> DEFINE snap == Head(channel[StreamOf(w)])
<1>1. PICK gone : Update(w, HandleExternalUpdate(Store(w), snap, gone))
  BY DEF DeliverEvent
<1> DEFINE t == HandleExternalUpdate(win[w], snap, gone)
<1>2. /\ win' = [win EXCEPT ![w] = t] /\ channel[StreamOf(w)] # <<>>
      /\ used' = used /\ listed' = listed /\ retired' = retired /\ failures' = failures
  BY <1>1 DEF DeliverEvent, Receive, Update, Store, world
<1>3. StreamOf(w) \in Watch
  BY RefSyncAssumption DEF StreamOf, Watch, Window
<1>4. snap \in Snapshots
  <2>1. channel[StreamOf(w)] \in Seq(Snapshot)
    BY <1>3 DEF ListInv, TypeOK
  <2>2. snap \in Queued(StreamOf(w))
    BY <1>2, <2>1 DEF Queued
  <2> QED
    BY <1>3, <2>2 DEF Snapshots
<1> HIDE DEF snap
<1>5. Basic(win[w]) /\ WinOK(win[w], failures, Built, Gone) /\ listed \subseteq Gone
  BY WindowReady
<1>6. WinOK(t, failures, Built, Gone) /\ win[w].loaded \ t.loaded \subseteq Gone
  <2>1. /\ snap.version \in Nat /\ snap.refs \in RefList
        /\ IdsOf(snap.refs) \subseteq Built /\ IdsOf(snap.refs) \subseteq Gone
    BY <1>4, <1>5, SnapshotTold
  <2> QED
    BY <1>5, <2>1, EventWin
<1>7. Harmless(t, win[w])
  BY <1>5, EventIsHarmless
<1> HIDE DEF t
<1>8. Follows(t, win[w])
  BY <1>7, SameJobsFollow DEF Harmless
<1>9. failures' \in Nat
  BY <1>2 DEF ListInv, Books
<1> QED
  BY <1>2, <1>6, <1>8, <1>9, FollowsIds, GoesOn DEF Gone

LEMMA BodyLists ==
  ASSUME ListInv, NEW w \in Window, NEW id \in Id, BodyArrives(w, id)
  PROVE  Books' /\ OwnWork
<1> DEFINE S == win[w]
           s == [S EXCEPT !.arriving = @ \ {id}]
           t == PutLoaded(s, id)
<1>1. /\ win' = [win EXCEPT ![w] = t] /\ id \in S.arriving
      /\ used' = used /\ listed' = listed /\ retired' = retired /\ failures' = failures
  BY DEF BodyArrives, Update, Store, world
<1>2. Basic(S) /\ WinOK(S, failures, Built, Gone) /\ Built \in SUBSET Id
  BY WindowReady
<1>3. id \in Built /\ id \in S.unpub \cup Gone
  BY <1>1, <1>2 DEF WinOK, ListsOK
<1> HIDE DEF S
<1>4. /\ Shape(s) /\ s.ver = S.ver /\ s.synced = S.synced /\ s.order = S.order
      /\ s.loaded = S.loaded /\ s.known = S.known /\ s.unpub = S.unpub
      /\ s.watched = S.watched /\ s.arriving = S.arriving \ {id}
      /\ s.attempts = S.attempts /\ s.retry = S.retry
      /\ s.job = S.job /\ s.queue = S.queue /\ s.cur = S.cur
  BY <1>2 DEF Basic, Shape, Fields
<1> HIDE DEF s
<1>5. Goes(s, S, failures, Built, Gone)
  <2>1. ListsOK(s, Built, Gone)
    BY <1>2, <1>4 DEF WinOK, ListsOK, Entries
  <2>2. SameCalls(s, S)
    BY <1>4 DEF SameCalls
  <2> QED
    BY <1>2, <1>4, <2>1, <2>2, ListsGo
<1>6. Goes(t, s, failures, Built, Gone)
  <2>1. Basic(s) /\ WinOK(s, failures, Built, Gone)
    BY <1>5 DEF Goes
  <2> QED
    BY <1>2, <1>3, <1>4, <2>1, LoadedGoes
<1> HIDE DEF t
<1>7. Goes(t, S, failures, Built, Gone)
  BY <1>5, <1>6, GoesTwice
<1>8. failures' \in Nat
  BY <1>1 DEF ListInv, Books
<1> QED
  BY <1>1, <1>7, <1>8, GoesOnGoing DEF Gone, S

-----------------------------------------------------------------------------
(* The theorems.                                                            *)

LEMMA NothingStarted == WinOK(EmptyStore, 0, {}, {})
<1> DEFINE s == EmptyStore
<1>1. /\ s.ver = 0 /\ s.synced = Never /\ s.order = <<>> /\ s.loaded = {} /\ s.known = {}
      /\ s.unpub = {} /\ s.watched = {} /\ s.arriving = {} /\ s.attempts = 0
      /\ s.retry = FALSE /\ s.cur = NoCall /\ \A k \in Slot : s.job[k] = NoJob
  BY DEF EmptyStore
<1>2. ListsOK(s, {}, {})
  <2>1. s.order \in RefList
    <3>1. IsList(<<>>)
      BY DEF IsList, Injective
    <3> QED
      BY <1>1, <3>1, RefListIsList
  <2>2. s.ver \in Nat /\ s.attempts \in Nat /\ SyncedIds(s.synced) = {}
    BY <1>1 DEF SyncedIds
  <2>3. s.retry \in BOOLEAN /\ s.synced \in RefList \cup {Never}
    BY <1>1, Zenon
  <2> HIDE DEF s
  <2> QED
    BY <1>1, <2>1, <2>2, <2>3 DEF ListsOK
<1> HIDE DEF s
<1>3. CallOK(s, {}) /\ ClaimsOK(s, {}, {}) /\ Unsynced(s) /\ Retried(s, 0)
  BY <1>1 DEF CallOK, ClaimsOK, Claims, NoJob, Unsynced, Syncing, Retried
<1> QED
  BY <1>2, <1>3 DEF WinOK, s

LEMMA ListInit == RefInit => ListInv
<1> SUFFICES ASSUME RefInit PROVE ListInv
  OBVIOUS
<1>1. TypeOK /\ LockInv /\ Snapshots = {}
  BY TypeInit, InvInit, NothingTold DEF RefInit
<1>2. Told
  <2>1. refs = <<>>
    BY RefSyncAssumption DEF RefInit, Init
  <2> QED
    BY <1>1, <2>1 DEF Told, IdsOf
<1>3. used = {} /\ failures = 0 /\ \A w \in Window : win[w] = EmptyStore
  BY DEF RefInit
<1>4. \A k \in Slot : EmptyStore.job[k].pc = "none"
  BY DEF EmptyStore, NoJob
<1>5. IdsTaken /\ Built = {}
  BY <1>3, <1>4 DEF IdsTaken, Built, Creating
<1>6. Gone = {} /\ listed = {}
  BY DEF RefInit, Gone
<1>7. Books
  BY <1>3, <1>5, <1>6, NothingStarted DEF Books
<1> QED
  BY <1>1, <1>2, <1>7 DEF ListInv

LEMMA ListStep ==
  ASSUME ListInv, [RefNext]_allVars
  PROVE  ListInv' /\ OwnWork
<1>1. TypeOK' /\ Told'
  BY ToldStep
<1>2. LockInv'
  BY InvNext DEF ListInv
<1>3. ASSUME UNCHANGED refVars PROVE Books' /\ OwnWork
  <2>1. listed' \subseteq Built
    BY <1>3 DEF refVars, world, ListInv, Books
  <2> QED
    BY <1>3, <2>1, ListedMore DEF refVars, world
<1>4. ASSUME NEW w \in Window, NEW k \in Slot, Operation(w, k) PROVE Books' /\ OwnWork
  BY <1>4, AddLists, RemoveLists, WorkFailsLists, CreationWorkedLists, RemovalWorkedLists,
     FileWrittenLists, FileDeletedLists DEF Operation
<1>5. ASSUME NEW w \in Window, OpenWindow(w) PROVE Books' /\ OwnWork
  BY <1>3, <1>5 DEF OpenWindow
<1>6. ASSUME NEW w \in Window, WindowStep(w) PROVE Books' /\ OwnWork
  BY <1>4, <1>5, <1>6, DismissLists, StartLists, ServeLists, ReplyLists, FailureLists,
     EventLists, BodyLists DEF WindowStep
<1>7. Books' /\ OwnWork
  BY <1>3, <1>6 DEF RefNext, DaemonStep, allVars
<1> QED
  BY <1>1, <1>2, <1>7 DEF ListInv

\* The inductive invariant.  Whatever the calls of a window meet, its lists name
\* only workspaces whose creation ended, none that is gone is unpublished, what
\* counts as synced offers an unpublished one only while its sync is in flight,
\* and what waits is on its way, awaited or given up (syncRefs, reconcileRefs).
THEOREM ListsStayInOrder == RefSpec => []ListInv
<1>1. ListInv /\ [RefNext]_allVars => ListInv'
  BY ListStep
<1> QED
  BY <1>1, ListInit, PTL DEF RefSpec

\* Each window's Map lists a workspace once, and while a resting window has an
\* unpublished workspace its ref list differs from the one it counts as synced,
\* however calls fail, are refused, crossed by events or coalesced: the next
\* run of syncRefs is not skipped as a no-op.
THEOREM ListsStayConsistent == RefSpec => []ListsConsistent
<1>1. ASSUME ListInv, NEW w \in Window PROVE StoreTypeOK(win[w])
  <2>1. WinOK(win[w], failures, Built, Gone) /\ Built \subseteq Id /\ CallsTyped(win[w])
    BY <1>1, WindowReady DEF Basic
  <2> QED
    BY <2>1 DEF WinOK, ListsOK, CallsTyped, StoreTypeOK
<1>2. ASSUME ListInv, NEW w \in Window, Unpublished(w)
      PROVE  CurrentRefs(win[w]) # win[w].synced
  <2>1. WinOK(win[w], failures, Built, Gone)
    BY <1>2, WindowReady
  <2>2. ListsOK(win[w], Built, Gone) /\ Unsynced(win[w])
    BY <2>1 DEF WinOK
  <2>3. win[w].cur = NoCall /\ win[w].unpub # {}
    BY <1>2 DEF Unpublished, Resting
  <2> QED
    BY <2>2, <2>3, NothingToSay
<1>3. ListInv => ListsConsistent
  BY <1>1, <1>2 DEF ListsConsistent, RefTypeOK, UnpublishedIsUnsynced
<1> QED
  BY <1>3, ListsStayInOrder, PTL

\* A rejected sync is not forgotten: unless a call failed or the attempts ran
\* out, a resting window with an unpublished workspace has asked to be woken by
\* the event of the lock's release (scheduleRefSyncRetry, handleExternalUpdate).
THEOREM RejectionsAreRetried == RefSpec => []RejectionIsRetried
<1>1. ASSUME ListInv, NEW w \in Window, Unpublished(w)
      PROVE  win[w].retry \/ win[w].attempts >= MaxAttempts \/ failures > 0
  <2> DEFINE s == win[w]
  <2>1. WinOK(s, failures, Built, Gone)
    BY <1>1, WindowReady
  <2>2. s.cur = NoCall /\ s.queue = <<>> /\ s.unpub # {} /\ \A k \in Slot : s.job[k] = NoJob
    BY <1>1 DEF Unpublished, Resting
  <2>3. ~Syncing(s) /\ ~Coming(s)
    BY <2>2 DEF Syncing, Coming, SyncQueued, AnyWriting, NoJob
  <2>4. failures \in Nat /\ MaxAttempts \in Nat /\ s.attempts \in Nat
    BY <1>1, <2>1, RefSyncAssumption DEF ListInv, Books, WinOK, ListsOK
  <2>5. failures = 0 /\ s.attempts < MaxAttempts => s.retry
    BY <2>1, <2>2, <2>3 DEF WinOK, Retried
  <2> QED
    BY <2>4, <2>5
<1>2. ListInv => RejectionIsRetried
  BY <1>1 DEF RejectionIsRetried
<1> QED
  BY <1>2, ListsStayInOrder, PTL

\* No event and no rejected sync takes a workspace away from the window that
\* built it before the daemon listed it or a user removed it (reconcileRefs,
\* onWorkspaceRemoved and unpublishedIds).
THEOREM OwnWorkAlwaysSurvives == RefSpec => OwnWorkSurvives
<1>1. ListInv /\ [RefNext]_allVars => [OwnWork]_allVars
  BY ListStep
<1> QED
  BY <1>1, ListsStayInOrder, PTL DEF RefSpec, OwnWorkSurvives, OwnWork

\* With its windows, whatever versions and lists they have seen, the daemon
\* still keeps what its store promises to any client: snapshots agree, the
\* connected stay registered, and the session is the abstract register.
THEOREM WindowsKeepTheSession == RefSpec => []WatchersAgree /\ RegisterRefinement
<1>1. RefInit => SnapshotsAgree /\ ConnectedIsRegistered /\ Register!RegInit
  BY NothingTold, RegisterInit DEF RefInit, SnapshotsAgree, ConnectedIsRegistered, Init
<1>2. ListInv /\ [RefNext]_allVars => TypeOK /\ [AnyNext]_vars
  BY RefStep DEF ListInv
<1>3. ListInv /\ SnapshotsAgree /\ [RefNext]_allVars => SnapshotsAgree'
  BY <1>2, AgreeInductive
<1>4. ListInv /\ ConnectedIsRegistered /\ [RefNext]_allVars => ConnectedIsRegistered'
  BY <1>2, RegisteredStep
<1>5. ListInv /\ [RefNext]_allVars => [Register!RegNext]_Register!regVars
  BY <1>2, RegisterStep
<1> QED
  BY <1>1, <1>3, <1>4, <1>5, ListsStayInOrder, PTL
  DEF RefSpec, WatchersAgree, RegisterRefinement, Register!RegSpec
=============================================================================
