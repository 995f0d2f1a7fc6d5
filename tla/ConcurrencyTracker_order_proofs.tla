------------------ MODULE ConcurrencyTracker_order_proofs ------------------
(***************************************************************************)
(* Proofs about the wait queue of the concurrency tracker as long as no    *)
(* waiter goes in front of the one that is being served: no waiter is      *)
(* lost, no wakeup is forgotten and nobody is overtaken.  They hold for    *)
(* any priorities and any number of waiters and direct callers, with       *)
(* failing lookups and aborts at any await.                                *)
(***************************************************************************)
EXTENDS ConcurrencyTracker_proofs

-----------------------------------------------------------------------------
(* Waiters.                                                                *)

\* r is q with w put in at position i.
Inserted(q, r, w, i) ==
  /\ r \in Seq(Waiters) /\ Len(r) = Len(q) + 1
  /\ \A k \in 1 .. Len(r) : r[k] = IF k < i THEN q[k] ELSE IF k = i THEN w ELSE q[k - 1]

\* A new waiter goes behind all those of a priority that is no larger value.
LEMMA insertAtEffect ==
  ASSUME NEW q \in Seq(Waiters), NEW w \in Waiters
  PROVE  \E i \in 1 .. Len(q) + 1 :
           /\ Inserted(q, insertAt(q, w), w, i)
           /\ \A n \in 1 .. Len(q) : ~(\E j \in 1 .. n : Priority[q[j]] > Priority[w]) => n < i
<1> DEFINE later == {i \in DOMAIN q : Priority[q[i]] > Priority[w]}
           at == IF later = {} THEN Len(q) + 1 ELSE LeastOf(later)
           s == SubSeq(q, 1, at - 1)
           t == SubSeq(q, at, Len(q))
           v == <<w>>
<1>1. Len(q) \in Nat /\ DOMAIN q = 1 .. Len(q)
  BY LenProperties
<1>2. /\ at \in 1 .. Len(q) + 1 /\ (at = Len(q) + 1 \/ at \in later)
      /\ \A j \in later : at <= j
  <2>1. CASE later = {}
    BY <1>1, <2>1
  <2>2. CASE later # {}
    <3>1. later \in SUBSET Nat
      BY <1>1
    <3>2. LeastOf(later) \in later /\ \A y \in later : LeastOf(later) <= y
      BY <2>2, <3>1, LeastOfNat
    <3> QED
      BY <1>1, <2>2, <3>2
  <2> QED
    BY <2>1, <2>2
<1>3. insertAt(q, w) = (s \o v) \o t
  BY DEF insertAt
<1>4. ASSUME NEW n \in 1 .. Len(q), ~(\E j \in 1 .. n : Priority[q[j]] > Priority[w])
      PROVE  n < at
  <2>1. CASE at = Len(q) + 1
    BY <1>1, <2>1
  <2>2. CASE at \in later
    BY <1>1, <1>2, <1>4, <2>2
  <2> QED
    BY <1>2, <2>1, <2>2
<1> HIDE DEF at, later
<1>5. s \in Seq(Waiters) /\ Len(s) = at - 1 /\ \A j \in 1 .. at - 1 : s[j] = q[j]
  BY <1>1, <1>2, SubSeqType
<1>6. /\ t \in Seq(Waiters) /\ Len(t) = Len(q) - at + 1
      /\ \A j \in 1 .. Len(q) - at + 1 : t[j] = q[at + j - 1]
  <2>1. at \in 1 .. Len(q) + 1 /\ Len(q) \in 0 .. Len(q)
    BY <1>1, <1>2
  <2> QED
    BY <1>1, <1>2, <2>1, SubSeqType
<1>7. v \in Seq(Waiters) /\ Len(v) = 1 /\ v[1] = w
  OBVIOUS
<1> HIDE DEF s, t, v
<1>8. /\ s \o v \in Seq(Waiters) /\ Len(s \o v) = Len(s) + Len(v)
      /\ \A j \in 1 .. Len(s) + Len(v) : (s \o v)[j] = IF j <= Len(s) THEN s[j] ELSE v[j - Len(s)]
  BY <1>5, <1>7, ConcatProperties
<1> DEFINE u == s \o v
<1>9. u \in Seq(Waiters) /\ Len(u) = at /\ u[at] = w /\ \A j \in 1 .. at - 1 : u[j] = q[j]
  <2>1. Len(s) + Len(v) = at /\ at - Len(s) = 1
    BY <1>2, <1>5, <1>7
  <2>2. at \in 1 .. at /\ ~(at <= Len(s))
    BY <1>2, <1>5
  <2>3. \A j \in 1 .. at - 1 : j \in 1 .. at /\ j <= Len(s)
    BY <1>2, <1>5
  <2> QED
    BY <1>5, <1>7, <1>8, <2>1, <2>2, <2>3
<1> HIDE DEF u
<1>10. /\ u \o t \in Seq(Waiters) /\ Len(u \o t) = Len(u) + Len(t)
       /\ \A j \in 1 .. Len(u) + Len(t) : (u \o t)[j] = IF j <= Len(u) THEN u[j] ELSE t[j - Len(u)]
  BY <1>6, <1>9, ConcatProperties
<1>11. Len(u) + Len(t) = Len(q) + 1
  BY <1>1, <1>2, <1>6, <1>9
<1>12. ASSUME NEW k \in 1 .. Len(q) + 1
       PROVE  (u \o t)[k] = IF k < at THEN q[k] ELSE IF k = at THEN w ELSE q[k - 1]
  <2>1. CASE k <= at
    <3>1. k = at \/ k \in 1 .. at - 1
      BY <1>2, <2>1
    <3> QED
      BY <1>2, <1>9, <1>10, <1>11, <2>1, <3>1
  <2>2. CASE ~(k <= at)
    <3>1. k - at \in 1 .. Len(q) - at + 1 /\ at + (k - at) - 1 = k - 1
      BY <1>1, <1>2, <2>2
    <3>2. (u \o t)[k] = t[k - at]
      BY <1>9, <1>10, <1>11, <2>2
    <3>3. t[k - at] = q[k - 1]
      BY <1>6, <3>1
    <3> QED
      BY <1>2, <2>2, <3>2, <3>3
  <2> QED
    BY <2>1, <2>2
<1>13. insertAt(q, w) = u \o t
  BY <1>3 DEF u
<1>14. Inserted(q, insertAt(q, w), w, at)
  BY <1>10, <1>11, <1>12, <1>13 DEF Inserted
<1> QED
  BY <1>2, <1>4, <1>14

\* Every entry of q that has not settled is still in r.
Keeps(q, r, st) ==
  \A j \in 1 .. Len(q) : ~settled(st, q[j]) => \E m \in 1 .. Len(r) : r[m] = q[j]

\* Dropping settled entries drops no other.
LEMMA DropSettledKeeps ==
  ASSUME NEW W, NEW q \in Seq(W), NEW st, NEW i \in 1 .. Len(q) + 1
  PROVE  Keeps(q, DropSettled(q, st, i), st)
<1> DEFINE live == {j \in i .. Len(q) : ~settled(st, q[j])}
           k == LeastOf(live)
           s == SubSeq(q, 1, i - 1)
           t == SubSeq(q, k, Len(q))
           r == DropSettled(q, st, i)
<1>1. Len(q) \in Nat /\ i \in Nat /\ i >= 1 /\ i - 1 \in Nat /\ i - 1 <= Len(q)
  BY LenProperties
<1>2. s \in Seq(W) /\ Len(s) = i - 1 /\ \A j \in 1 .. i - 1 : s[j] = q[j]
  BY <1>1, SubSeqType
<1> SUFFICES ASSUME NEW j \in 1 .. Len(q), ~settled(st, q[j])
             PROVE  \E m \in 1 .. Len(r) : r[m] = q[j]
  BY DEF Keeps
<1>3. CASE live = {}
  <2>1. r = s BY <1>3 DEF DropSettled
  <2>2. j \in 1 .. i - 1 BY <1>1, <1>3
  <2> HIDE DEF s, r
  <2> QED BY <2>1, <2>2, <1>1, <1>2
<1>4. CASE live # {}
  <2>1. r = s \o t BY <1>4 DEF DropSettled
  <2>2. live \in SUBSET Nat BY <1>1
  <2>3. k \in live /\ \A y \in live : k <= y BY <2>2, <1>4, LeastOfNat
  <2>4. k \in Nat /\ k >= i /\ k <= Len(q) BY <2>3, <1>1
  <2>5. j \in i .. Len(q) => k <= j BY <2>3
  <2> HIDE DEF k, live, r
  <2>6. /\ t \in Seq(W) /\ Len(t) = Len(q) - k + 1
        /\ \A m \in 1 .. Len(q) - k + 1 : t[m] = q[k + m - 1]
    BY <2>4, <1>1, SubSeqType
  <2> HIDE DEF s, t
  <2>7. /\ Len(s \o t) = Len(s) + Len(t)
        /\ \A m \in 1 .. Len(s) + Len(t) :
             (s \o t)[m] = IF m <= Len(s) THEN s[m] ELSE t[m - Len(s)]
    BY <1>2, <2>6, ConcatProperties
  <2>8. Len(r) = (i - 1) + (Len(q) - k + 1)
    BY <1>2, <2>1, <2>6, <2>7
  <2>9. CASE j <= i - 1
    <3>1. j \in 1 .. i - 1 /\ j \in 1 .. Len(r) /\ j \in 1 .. Len(s) + Len(t)
      BY <2>9, <2>8, <1>1, <1>2, <2>4, <2>6
    <3>2. r[j] = q[j] BY <3>1, <2>1, <2>7, <1>2, <1>1
    <3> QED BY <3>1, <3>2
  <2>10. CASE j > i - 1
    <3> DEFINE m == (i - 1) + (j - k + 1)  n == j - k + 1
    <3>1. j >= k /\ j <= Len(q) BY <2>10, <2>5, <1>1
    <3>2. m \in 1 .. Len(r) /\ n \in 1 .. Len(q) - k + 1 /\ k + n - 1 = j /\ m - (i - 1) = n /\ ~ (m <= i - 1)
      BY <3>1, <2>8, <2>4, <1>1
    <3>3. m \in 1 .. Len(s) + Len(t) BY <3>2, <2>8, <1>2, <2>6
    <3>4. t[n] = q[j] BY <3>2, <2>6
    <3>5. r[m] = t[n] BY <2>1, <3>3, <2>7, <3>2, <1>2
    <3> QED BY <3>2, <3>4, <3>5
  <2> QED BY <2>9, <2>10, <1>1
<1> QED
  BY <1>3, <1>4

\* splice(i, 1) removes the entry at i and no other.
LEMMA RemoveIndexKeeps ==
  ASSUME NEW W, NEW q \in Seq(W), NEW i \in DOMAIN q
  PROVE  \A j \in 1 .. Len(q) : j # i => \E m \in 1 .. Len(RemoveIndex(q, i)) : RemoveIndex(q, i)[m] = q[j]
<1> DEFINE s == SubSeq(q, 1, i - 1)
           t == SubSeq(q, i + 1, Len(q))
           r == RemoveIndex(q, i)
<1>1. Len(q) \in Nat /\ i \in 1 .. Len(q)
  BY LenProperties
<1>2. s \in Seq(W) /\ Len(s) = i - 1 /\ \A j \in 1 .. i - 1 : s[j] = q[j]
  BY <1>1, SubSeqType
<1>3. /\ t \in Seq(W) /\ Len(t) = Len(q) - i
      /\ \A m \in 1 .. Len(q) - i : t[m] = q[i + m]
  <2>1. /\ t \in Seq(W) /\ Len(t) = IF i + 1 <= Len(q) THEN Len(q) - (i + 1) + 1 ELSE 0
        /\ \A m \in 1 .. Len(q) - (i + 1) + 1 : t[m] = q[(i + 1) + m - 1]
    BY <1>1, SubSeqType
  <2> HIDE DEF t
  <2>2. \A m \in 1 .. Len(q) - i : m \in 1 .. Len(q) - (i + 1) + 1 /\ (i + 1) + m - 1 = i + m
    BY <1>1
  <2> QED BY <2>1, <2>2, <1>1
<1>4. r = s \o t
  BY <1>1 DEF RemoveIndex
<1> HIDE DEF s, t, r
<1>5. /\ Len(s \o t) = Len(s) + Len(t)
      /\ \A m \in 1 .. Len(s) + Len(t) :
           (s \o t)[m] = IF m <= Len(s) THEN s[m] ELSE t[m - Len(s)]
  BY <1>2, <1>3, ConcatProperties
<1>6. Len(r) = Len(q) - 1 /\ Len(s) + Len(t) = Len(q) - 1
  BY <1>1, <1>2, <1>3, <1>4, <1>5
<1> SUFFICES ASSUME NEW j \in 1 .. Len(q), j # i PROVE \E m \in 1 .. Len(r) : r[m] = q[j]
  BY DEF r
<1>7. CASE j < i
  <2>1. j \in 1 .. i - 1 /\ j \in 1 .. Len(r) /\ j \in 1 .. Len(s) + Len(t)
    BY <1>7, <1>1, <1>6
  <2>2. r[j] = q[j] BY <2>1, <1>1, <1>2, <1>4, <1>5
  <2> QED BY <2>1, <2>2
<1>8. CASE j > i
  <2> DEFINE m == j - 1  n == j - i
  <2>1. m \in 1 .. Len(r) /\ n \in 1 .. Len(q) - i /\ i + n = j /\ m - (i - 1) = n /\ ~ (m <= i - 1)
    BY <1>8, <1>1, <1>6
  <2>2. m \in 1 .. Len(s) + Len(t) BY <2>1, <1>6
  <2>3. t[n] = q[j] BY <2>1, <1>3
  <2>4. r[m] = t[n] BY <2>1, <2>2, <1>2, <1>4, <1>5
  <2> QED BY <2>1, <2>3, <2>4
<1> QED
  BY <1>1, <1>7, <1>8

\* A turn of the drain loop loses no waiter that has not settled, and the
\* index it goes on from is that of the waiter it serves.
LEMMA AdvanceKeeps ==
  ASSUME Drain \in DOMAIN frame,
         NEW q \in Seq(Waiters), NEW st, NEW i \in 1 .. Len(q) + 1,
         NEW progress \in BOOLEAN, NEW requested \in BOOLEAN,
         Advance(q, st, i, progress, requested)
  PROVE  /\ Keeps(q, queue', st)
         /\ drain'.on => queue'[drain'.idx] = frame'[Drain].cur
<1> DEFINE q1    == DropSettled(q, st, i)
           q3    == DropSettled(q1, st, 1)
           more  == i <= Len(q1)
           again == progress \/ requested
           q2    == IF more THEN q1 ELSE IF again THEN q3 ELSE q1
           at    == IF more THEN i ELSE 1
           on    == more \/ (again /\ q2 # <<>>)
<1>1. q1 \in Seq(Waiters) /\ Keeps(q, q1, st)
  BY DropSettledType, DropSettledKeeps
<1>2. /\ queue' = q2
      /\ drain' = [on |-> on, idx |-> IF on THEN at ELSE 1,
                   progress  |-> more /\ progress,
                   requested |-> on /\ requested /\ (more \/ progress)]
      /\ frame' = [frame EXCEPT ![Drain] = IF on THEN slotFrame(q2[at]) ELSE idleFrame]
  BY DEF Advance
<1> HIDE DEF q1
<1>3. Keeps(q1, q3, st)
  <2>1. 1 \in 1 .. Len(q1) + 1
    BY <1>1, LenProperties
  <2> QED
    BY <1>1, <2>1, DropSettledKeeps
<1> HIDE DEF q3
<1>4. Keeps(q, q3, st)
  BY <1>1, <1>3 DEF Keeps
<1>5. Keeps(q, q2, st)
  BY <1>1, <1>4
<1> HIDE DEF on, q2, at, more
<1>6. CASE on
  <2>1. drain'.on /\ drain'.idx = at /\ frame'[Drain] = slotFrame(q2[at])
    BY <1>2, <1>6
  <2>2. slotFrame(q2[at]).cur = q2[at]
    BY DEF slotFrame, idleFrame
  <2> QED
    BY <1>2, <1>5, <2>1, <2>2
<1>7. CASE ~on
  BY <1>2, <1>5, <1>7
<1> QED
  BY <1>6, <1>7

\* The inductive invariant: no waiter is lost, and the index the drain loop
\* holds over its await is still that of the waiter it serves.  The second
\* part is what an arrival in front of that waiter breaks.
QInv ==
  /\ TInv
  /\ NoLostWaiter
  /\ drain.on => queue[drain.idx] = frame[Drain].cur

\* A turn of the drain loop from a queue that holds every waiting call.
LEMMA TurnKeepsWaiters ==
  ASSUME TInv, TInv', NEW q \in Seq(Waiters), NEW i \in 1 .. Len(q) + 1,
         NEW progress \in BOOLEAN, NEW requested \in BOOLEAN,
         Advance(q, call', i, progress, requested),
         \A w \in Waiters : call'[w] = "waiting" => \E j \in 1 .. Len(q) : q[j] = w
  PROVE  QInv'
<1>1. Drain \in DOMAIN frame
  BY Processes
<1>2. /\ Keeps(q, queue', call')
      /\ drain'.on => queue'[drain'.idx] = frame'[Drain].cur
  BY <1>1, AdvanceKeeps
<1>3. queue' \in Seq(Waiters) /\ DOMAIN queue' = 1 .. Len(queue')
  BY LenProperties DEF TInv, TypeOK
<1>4. NoLostWaiter'
  <2> SUFFICES ASSUME NEW w \in Waiters, call'[w] = "waiting"
               PROVE  \E m \in DOMAIN queue' : queue'[m] = w /\ call'[w] = "waiting"
    BY DEF NoLostWaiter, isWaiting
  <2>1. PICK j \in 1 .. Len(q) : q[j] = w
    OBVIOUS
  <2>2. ~settled(call', q[j])
    BY <2>1 DEF settled
  <2> QED
    BY <1>2, <1>3, <2>1, <2>2 DEF Keeps
<1> QED
  BY <1>2, <1>4 DEF QInv

\* A call of drainPendingAcquisitions with a queue that is the same up to the
\* waiter being served.
LEMMA CallKeepsWaiters ==
  ASSUME QInv, TInv', NEW q \in Seq(Waiters),
         drain.on => \A j \in 1 .. drain.idx : q[j] = queue[j],
         drainPendingAcquisitions(q, call'),
         \A w \in Waiters : call'[w] = "waiting" => \E j \in 1 .. Len(q) : q[j] = w
  PROVE  QInv'
<1>1. TInv /\ Len(q) \in Nat /\ DOMAIN q = 1 .. Len(q)
  BY LenProperties DEF QInv
<1>2. CASE drain.on
  <2>1. queue' = q /\ drain' = [drain EXCEPT !.requested = TRUE] /\ UNCHANGED frame
    BY <1>2 DEF drainPendingAcquisitions
  <2>2. drain.idx \in 1 .. Len(queue) /\ queue[drain.idx] = frame[Drain].cur
    BY <1>2, LenProperties DEF QInv, TInv, TypeOK
  <2>3. drain'.idx = drain.idx
    BY <2>1 DEF QInv, TInv, TypeOK
  <2>4. NoLostWaiter'
    BY <1>1, <2>1 DEF NoLostWaiter, isWaiting
  <2> QED
    BY <2>1, <2>2, <2>3, <2>4 DEF QInv
<1>3. CASE ~drain.on
  <2>1. Advance(q, call', 1, FALSE, FALSE)
    BY <1>3 DEF drainPendingAcquisitions
  <2>2. 1 \in 1 .. Len(q) + 1
    BY <1>1
  <2> QED
    BY <1>1, <2>1, <2>2, TurnKeepsWaiters
<1> QED
  BY <1>2, <1>3

\* At the start no call waits.
LEMMA QInvInit == Init => QInv
<1> SUFFICES ASSUME Init PROVE QInv
  OBVIOUS
<1>1. \A w \in Waiters : call[w] # "waiting"
  BY DEF Init, Calls
<1> QED
  BY <1>1, TInvInit DEF QInv, NoLostWaiter, Init

\* The induction step.
LEMMA QInvNext == QInv /\ [Next /\ ~ArrivesInFront]_vars => QInv'
<1> SUFFICES ASSUME QInv, [Next /\ ~ArrivesInFront]_vars PROVE QInv'
  OBVIOUS
<1>1. TInv /\ TInv'
  BY TInvNext DEF QInv
<1>2. /\ frame \in [Procs -> Frames] /\ Drain \in Procs /\ Waiters \subseteq Calls
      /\ \A c \in Callers : c \in Procs /\ c # Drain /\ c \notin Waiters
      /\ queue \in Seq(Waiters) /\ Len(queue) \in Nat
      /\ call \in [Calls -> {"idle", "waiting", "granted", "released", "rejected"}]
  BY <1>1, Processes
<1>3. DOMAIN queue = 1 .. Len(queue)
  BY <1>2, LenProperties
<1>4. \A w \in Waiters : call[w] = "waiting" => \E j \in 1 .. Len(queue) : queue[j] = w
  BY <1>3 DEF QInv, NoLostWaiter, isWaiting
<1>5. drain.on => drain.idx \in 1 .. Len(queue) /\ queue[drain.idx] = frame[Drain].cur
  BY <1>1, <1>3 DEF QInv, TInv, TypeOK
\* Steps that leave the queue and the waiter being served alone.
<1>6. ASSUME queue' = queue, drain' = drain, frame'[Drain].cur = frame[Drain].cur,
             \A w \in Waiters : call'[w] = "waiting" => call[w] = "waiting"
      PROVE  QInv'
  <2>1. NoLostWaiter'
    BY <1>6 DEF QInv, NoLostWaiter, isWaiting
  <2> QED
    BY <1>1, <1>6, <2>1 DEF QInv
<1>7. ASSUME NEW p \in Procs, AcquireSlotStep(p) PROVE QInv'
  <2>1. UNCHANGED <<queue, call, drain>>
    BY <1>7 DEF AcquireSlotStep, LimitsLoaded, ScanLoaded, Reserve, LoadFails
  <2>2. frame'[Drain].cur = frame[Drain].cur
    <3>1. frame[p] \in Frames
      BY <1>2
    <3>2. CASE LimitsLoaded(p)
      <4>1. p \in Procs /\ frame[p].cur \in Calls
        BY <1>1, <3>2, Processes DEF LimitsLoaded
      <4> DEFINE a == AgentOf[frame[p].cur]
      <4>2. PICK r \in Readable(a) :
              frame' = [frame EXCEPT ![p] = Scan([frame[p] EXCEPT !.lim = limitsOf(a, r)], 1)]
        BY <3>2 DEF LimitsLoaded
      <4>3. a \in Agents
        BY <4>1, ConstantsAssumption
      <4>4. r \in Admissible[a]
        BY <1>1, <4>3 DEF Readable, TInv, TypeOK
      <4>5. limitsOf(a, r) \in [key : Keys, max : Nat]
        BY <4>3, <4>4, LimitsType
      <4> DEFINE f == [frame[p] EXCEPT !.lim = limitsOf(a, r)]
      <4>6. f \in Frames /\ f.cur = frame[p].cur
        BY <3>1, <4>5 DEF Frames
      <4> HIDE DEF f
      <4>7. Scan(f, 1).cur = frame[p].cur
        BY <1>1, <4>6, ScanType DEF TInv
      <4>8. frame' = [frame EXCEPT ![p] = Scan(f, 1)]
        BY <4>2 DEF f
      <4> QED
        BY <1>2, <4>7, <4>8
    <3>3. CASE ScanLoaded(p)
      <4> DEFINE h == [frame[p] EXCEPT !.pc = "scanned", !.earlier = TRUE]
                 k == Scan(frame[p], frame[p].pos + 1)
      <4>1. frame' = [frame EXCEPT ![p] = h] \/ frame' = [frame EXCEPT ![p] = k]
        BY <3>3 DEF ScanLoaded
      <4>2. h.cur = frame[p].cur
        BY <3>1 DEF Frames
      <4>3. frame[p].pos \in Nat
        BY <3>1 DEF Frames
      <4>4. frame[p].pos + 1 \in Nat /\ frame[p].pos + 1 >= 1
        BY <4>3
      <4>5. k.cur = frame[p].cur
        BY <1>1, <3>1, <4>4, ScanType DEF TInv
      <4> HIDE DEF h, k
      <4> QED
        BY <1>2, <4>1, <4>2, <4>5
    <3>4. CASE Reserve(p) \/ LoadFails(p)
      <4>1. \E res \in {"lease", "none", "error"} :
              frame' = [frame EXCEPT ![p].pc = "slot", ![p].result = res]
        BY <3>4 DEF Reserve, LoadFails
      <4> QED
        BY <1>2, <3>1, <4>1 DEF Frames
    <3> QED
      BY <1>7, <3>2, <3>3, <3>4 DEF AcquireSlotStep
  <2> QED
    BY <1>6, <2>1, <2>2
<1>8. ASSUME DrainStep PROVE QInv'
  <2> DEFINE f == frame[Drain]
  <2>1. drain.on /\ f.cur \in Waiters
    <3>1. f.pc = "slot"
      BY <1>8 DEF DrainStep, DrainError, DrainSettled, DrainNone, DrainGrant
    <3> QED
      BY <1>1, <1>2, <3>1, Processes DEF TInv, FrameInv
  <2>2. drain.idx \in 1 .. Len(queue) /\ queue[drain.idx] = f.cur
        /\ drain.progress \in BOOLEAN /\ drain.requested \in BOOLEAN
    BY <1>1, <1>5, <2>1 DEF TInv, TypeOK
  <2>3. CASE DrainError \/ DrainGrant
    <3> DEFINE q == RemoveIndex(queue, drain.idx)
    <3>1. \E pr \in BOOLEAN : Advance(q, call', drain.idx, pr, drain.requested)
      BY <2>2, <2>3 DEF DrainError, DrainGrant
    <3>2. /\ \A w \in Waiters : call'[w] = "waiting" => call[w] = "waiting"
          /\ call'[f.cur] # "waiting"
      BY <1>2, <2>1, <2>3 DEF DrainError, DrainGrant
    <3>3. q \in Seq(Waiters) /\ Len(q) = Len(queue) - 1
      BY <1>2, <1>3, <2>2, RemoveIndexType
    <3>4. \A j \in 1 .. Len(queue) : j # drain.idx => \E m \in 1 .. Len(q) : q[m] = queue[j]
      <4>1. drain.idx \in DOMAIN queue
        BY <1>3, <2>2
      <4> QED
        BY <1>2, <4>1, RemoveIndexKeeps
    <3> HIDE DEF q
    <3>5. \A w \in Waiters : call'[w] = "waiting" => \E m \in 1 .. Len(q) : q[m] = w
      BY <1>4, <2>2, <3>2, <3>4
    <3>6. drain.idx \in 1 .. Len(q) + 1
      BY <1>2, <2>2, <3>3
    <3> QED
      BY <1>1, <2>2, <3>1, <3>3, <3>5, <3>6, TurnKeepsWaiters
  <2>4. CASE DrainSettled \/ DrainNone
    <3>1. call' = call /\ Advance(queue, call, drain.idx + 1, drain.progress, drain.requested)
      BY <2>4 DEF DrainSettled, DrainNone
    <3>2. Advance(queue, call', drain.idx + 1, drain.progress, drain.requested)
      BY <3>1
    <3>3. drain.idx + 1 \in 1 .. Len(queue) + 1
      BY <1>2, <2>2
    <3>4. \A w \in Waiters : call'[w] = "waiting" => \E m \in 1 .. Len(queue) : queue[m] = w
      BY <1>4, <3>1
    <3> QED
      BY <1>1, <1>2, <2>2, <3>2, <3>3, <3>4, TurnKeepsWaiters
  <2> QED
    BY <1>8, <2>3, <2>4 DEF DrainStep
<1>9. ASSUME NEW w \in Waiters, acquireWhenAvailable(w), ~ArrivesInFront PROVE QInv'
  <2> DEFINE q == insertAt(queue, w)
  <2>1. call[w] = "idle" /\ call' = [call EXCEPT ![w] = "waiting"] /\ drainPendingAcquisitions(q, call')
    BY <1>9 DEF acquireWhenAvailable
  <2>2. PICK i \in 1 .. Len(queue) + 1 :
          /\ Inserted(queue, q, w, i)
          /\ \A n \in 1 .. Len(queue) : ~(\E j \in 1 .. n : Priority[queue[j]] > Priority[w]) => n < i
    BY <1>2, insertAtEffect
  <2> HIDE DEF q
  <2>3. q \in Seq(Waiters) /\ Len(q) = Len(queue) + 1 /\ i \in 1 .. Len(q) /\ q[i] = w
    BY <1>2, <2>2 DEF Inserted
  <2>4. ASSUME drain.on PROVE \A j \in 1 .. drain.idx : q[j] = queue[j]
    <3>1. ~(\E j \in 1 .. drain.idx : Priority[queue[j]] > Priority[w])
      BY <1>2, <1>9, <2>1, <2>4 DEF ArrivesInFront
    <3>2. drain.idx < i
      BY <1>5, <2>2, <2>4, <3>1
    <3>3. \A j \in 1 .. drain.idx : j \in 1 .. Len(q) /\ j < i
      BY <1>2, <1>5, <2>3, <2>4, <3>2
    <3> QED
      BY <2>2, <3>3 DEF Inserted
  <2>5. \A v \in Waiters : call'[v] = "waiting" => \E j \in 1 .. Len(q) : q[j] = v
    <3> SUFFICES ASSUME NEW v \in Waiters, call'[v] = "waiting"
                 PROVE  \E j \in 1 .. Len(q) : q[j] = v
      OBVIOUS
    <3>1. CASE v = w
      BY <2>3, <3>1
    <3>2. CASE v # w
      <4>1. call[v] = "waiting" BY <3>2, <2>1, <1>2
      <4>2. PICK j \in 1 .. Len(queue) : queue[j] = v BY <4>1, <1>4
      <4>3. CASE j < i
        <5>1. j \in 1 .. Len(q) BY <1>2, <2>3
        <5> QED BY <2>2, <4>2, <4>3, <5>1 DEF Inserted
      <4>4. CASE ~(j < i)
        <5>1. j + 1 \in 1 .. Len(q) /\ ~(j + 1 < i) /\ j + 1 # i /\ (j + 1) - 1 = j
          BY <1>2, <2>3, <4>4
        <5> QED BY <2>2, <4>2, <5>1 DEF Inserted
      <4> QED BY <4>3, <4>4
    <3> QED BY <3>1, <3>2
  <2> QED
    BY <1>1, <2>1, <2>3, <2>4, <2>5, CallKeepsWaiters
\* Calls of the drain loop that close a call and leave the queue as it is.
<1>10. ASSUME drainPendingAcquisitions(queue, call'),
              \A w \in Waiters : call'[w] = "waiting" => call[w] = "waiting"
       PROVE  QInv'
  BY <1>1, <1>2, <1>4, <1>10, CallKeepsWaiters
<1>11. ASSUME NEW w \in Waiters, acquireAborted(w) PROVE QInv'
  BY <1>2, <1>6, <1>11 DEF acquireAborted
<1>12. ASSUME NEW w \in Waiters, onAbort(w) PROVE QInv'
  <2>1. /\ drainPendingAcquisitions(queue, call')
        /\ call' = [call EXCEPT ![w] = "rejected"]
    BY <1>12 DEF onAbort
  <2> QED
    BY <1>2, <1>10, <2>1
<1>13. ASSUME NEW c \in Callers, acquire(c) \/ acquireReturns(c) PROVE QInv'
  <2>1. UNCHANGED <<queue, drain>> /\ frame'[Drain] = frame[Drain]
    BY <1>2, <1>13 DEF acquire, acquireReturns
  <2>2. \A w \in Waiters : call'[w] = call[w]
    BY <1>2, <1>13 DEF acquire, acquireReturns
  <2> QED
    BY <1>6, <2>1, <2>2
<1>14. ASSUME NEW x \in Calls, release(x) PROVE QInv'
  <2>1. /\ drainPendingAcquisitions(queue, call')
        /\ call' = [call EXCEPT ![x] = "released"]
    BY <1>14 DEF release
  <2> QED
    BY <1>2, <1>10, <2>1
<1>15. ASSUME NEW a \in Agents, updateAgent(a) PROVE QInv'
  BY <1>6, <1>15 DEF updateAgent
<1>16. CASE UNCHANGED vars
  BY <1>6, <1>16 DEF vars
<1> QED
  BY <1>7, <1>8, <1>9, <1>11, <1>12, <1>13, <1>14, <1>15, <1>16 DEF Next

\* Whatever the priorities, a call of acquireWhenAvailable that has not settled
\* is in the wait queue, unless a waiter was inserted in front of the one being
\* served: nothing else can make the drain loop remove another waiter.
THEOREM NoWaiterLost == OrderlySpec => []NoLostWaiter
<1>1. QInv => NoLostWaiter
  BY DEF QInv
<1>2. QInv /\ [Next /\ ~ArrivesInFront]_vars => QInv'
  BY QInvNext
<1> QED
  BY <1>1, <1>2, QInvInit, PTL DEF OrderlySpec

-----------------------------------------------------------------------------
(* Order and wakeups.                                                      *)

limitsNow(w) == limitsOf(AgentOf[w], store[AgentOf[w]])

\* An earlier entry of q with the key of entry i is still waiting, given the
\* states c of the calls.
Behind(q, c, i) ==
  \E j \in 1 .. i - 1 : c[q[j]] = "waiting" /\ keyOf(q[j]) = keyOf(q[i])

\* There is no slot for entry i of q, given the counters per.
Blocked(q, c, per, i) ==
  \/ ~(per[limitsNow(q[i]).key] < limitsNow(q[i]).max)
  \/ Behind(q, c, i)

\* The queue has no duplicates and no entry whose call has not been made.
Fresh(q, c) ==
  \A i, j \in 1 .. Len(q) : c[q[i]] # "idle" /\ (q[i] = q[j] => i = j)

\* What the drain loop knows in the middle of acquireSlot: the limits it holds
\* are those of its waiter, and no waiter of the key stands before the position
\* its scan has reached.
ServeInv ==
  LET f == frame[Drain]  n == drain.idx IN
  /\ f.pc \in {"scan", "scanned"} => f.lim = limitsNow(f.cur)
  /\ f.pc = "scan" =>
       /\ f.pos \in 1 .. n - 1 /\ queue[f.pos] = f.seen
       /\ \A j \in 1 .. f.pos - 1 :
            call[queue[j]] = "waiting" => keyOf(queue[j]) # keyOf(f.cur)
  /\ f.pc = "scanned" /\ ~f.earlier => ~Behind(queue, call, n)
  /\ f.pc = "slot" /\ f.result = "lease" => ~Behind(queue, call, n)

\* In a pass after which the loop stops, every waiter passed over is blocked.
PassedInv ==
  /\ ~drain.on =>
       \A i \in 1 .. Len(queue) :
         call[queue[i]] = "waiting" => Blocked(queue, call, perIntegration, i)
  /\ drain.on /\ ~drain.progress /\ ~drain.requested =>
       \A i \in 1 .. drain.idx - 1 :
         call[queue[i]] = "waiting" => Blocked(queue, call, perIntegration, i)

\* In such a pass, so is a waiter that is about to be passed over.
PassingInv ==
  LET f == frame[Drain]  n == drain.idx IN
  drain.on /\ ~drain.progress /\ ~drain.requested =>
    /\ f.pc = "scanned" /\ f.earlier => Behind(queue, call, n)
    /\ f.pc = "slot" /\ f.result = "none" => Blocked(queue, call, perIntegration, n)

\* The inductive invariant.  A waiter aborted while it is being served has asked
\* for another pass.  The claims about keys and limits hold until the first edit
\* of an agent's record.
FInv ==
  /\ QInv
  /\ Fresh(queue, call)
  /\ drain.on /\ call[frame[Drain].cur] # "waiting" => drain.requested
  /\ edits = 0 => /\ cache = store
                  /\ drain.on => ServeInv
                  /\ PassedInv
                  /\ PassingInv

\* r is q with c entries removed at position i.
Shifted(q, r, i, c) ==
  /\ Len(r) = Len(q) - c
  /\ \A m \in 1 .. Len(r) : r[m] = IF m < i THEN q[m] ELSE q[m + c]

\* Dropping settled entries from position i moves the later ones down together.
LEMMA DropSettledShape ==
  ASSUME NEW W, NEW q \in Seq(W), NEW st, NEW i \in 1 .. Len(q) + 1
  PROVE  \E c \in 0 .. Len(q) : Shifted(q, DropSettled(q, st, i), i, c)
<1> DEFINE live == {j \in i .. Len(q) : ~settled(st, q[j])}
           k == LeastOf(live)
           s == SubSeq(q, 1, i - 1)
           t == SubSeq(q, k, Len(q))
           r == DropSettled(q, st, i)
<1>1. Len(q) \in Nat /\ i \in Nat /\ i >= 1 /\ i - 1 \in Nat /\ i - 1 <= Len(q)
  BY LenProperties
<1>2. s \in Seq(W) /\ Len(s) = i - 1 /\ \A j \in 1 .. i - 1 : s[j] = q[j]
  BY <1>1, SubSeqType
<1>3. CASE live = {}
  <2> DEFINE c == Len(q) - (i - 1)
  <2>1. r = s BY <1>3 DEF DropSettled
  <2> HIDE DEF s, r
  <2>2. c \in 0 .. Len(q) /\ Len(r) = Len(q) - c BY <1>1, <1>2, <2>1
  <2>3. \A m \in 1 .. Len(r) : m < i /\ r[m] = q[m] BY <1>1, <1>2, <2>1
  <2>4. Shifted(q, r, i, c) BY <2>2, <2>3 DEF Shifted
  <2> QED BY <2>2, <2>4 DEF r
<1>4. CASE live # {}
  <2> DEFINE c == k - i
  <2>1. r = s \o t BY <1>4 DEF DropSettled
  <2>2. live \in SUBSET Nat BY <1>1
  <2>3. k \in live BY <2>2, <1>4, LeastOfNat
  <2>4. k \in Nat /\ k >= i /\ k <= Len(q) BY <2>3, <1>1
  <2> HIDE DEF k, live, r
  <2>6. /\ t \in Seq(W) /\ Len(t) = Len(q) - k + 1
        /\ \A m \in 1 .. Len(q) - k + 1 : t[m] = q[k + m - 1]
    BY <2>4, <1>1, SubSeqType
  <2> HIDE DEF s, t
  <2>7. /\ Len(s \o t) = Len(s) + Len(t)
        /\ \A m \in 1 .. Len(s) + Len(t) :
             (s \o t)[m] = IF m <= Len(s) THEN s[m] ELSE t[m - Len(s)]
    BY <1>2, <2>6, ConcatProperties
  <2>8. c \in 0 .. Len(q) /\ Len(r) = Len(q) - c /\ Len(s) + Len(t) = Len(r)
    BY <1>1, <1>2, <2>1, <2>4, <2>6, <2>7
  <2>9. ASSUME NEW m \in 1 .. Len(r) PROVE r[m] = IF m < i THEN q[m] ELSE q[m + c]
    <3>1. CASE m < i
      <4>1. m \in 1 .. i - 1 /\ m <= Len(s) BY <3>1, <1>1, <1>2
      <4> QED BY <3>1, <4>1, <1>2, <2>1, <2>7, <2>8
    <3>2. CASE ~ (m < i)
      <4> DEFINE n == m - (i - 1)
      <4>1. n \in 1 .. Len(q) - k + 1 /\ k + n - 1 = m + c /\ ~ (m <= i - 1)
        BY <3>2, <1>1, <2>4, <2>8
      <4>2. t[n] = q[m + c] BY <4>1, <2>6
      <4>3. r[m] = t[n] BY <4>1, <1>2, <2>1, <2>7, <2>8
      <4> QED BY <3>2, <4>2, <4>3
    <3> QED BY <3>1, <3>2
  <2>10. Shifted(q, r, i, c) BY <2>8, <2>9 DEF Shifted
  <2> QED BY <2>8, <2>10 DEF r
<1> QED
  BY <1>3, <1>4

\* So does splice(i, 1).
LEMMA RemoveIndexShape ==
  ASSUME NEW W, NEW q \in Seq(W), NEW i \in DOMAIN q
  PROVE  Shifted(q, RemoveIndex(q, i), i, 1)
<1> DEFINE s == SubSeq(q, 1, i - 1)
           t == SubSeq(q, i + 1, Len(q))
           r == RemoveIndex(q, i)
<1>1. Len(q) \in Nat /\ i \in 1 .. Len(q)
  BY LenProperties
<1>2. s \in Seq(W) /\ Len(s) = i - 1 /\ \A j \in 1 .. i - 1 : s[j] = q[j]
  BY <1>1, SubSeqType
<1>3. /\ t \in Seq(W) /\ Len(t) = Len(q) - i
      /\ \A m \in 1 .. Len(q) - i : t[m] = q[i + m]
  <2>1. /\ t \in Seq(W) /\ Len(t) = IF i + 1 <= Len(q) THEN Len(q) - (i + 1) + 1 ELSE 0
        /\ \A m \in 1 .. Len(q) - (i + 1) + 1 : t[m] = q[(i + 1) + m - 1]
    BY <1>1, SubSeqType
  <2> HIDE DEF t
  <2>2. \A m \in 1 .. Len(q) - i : m \in 1 .. Len(q) - (i + 1) + 1 /\ (i + 1) + m - 1 = i + m
    BY <1>1
  <2> QED BY <2>1, <2>2, <1>1
<1>4. r = s \o t
  BY <1>1 DEF RemoveIndex
<1> HIDE DEF s, t, r
<1>5. /\ Len(s \o t) = Len(s) + Len(t)
      /\ \A m \in 1 .. Len(s) + Len(t) :
           (s \o t)[m] = IF m <= Len(s) THEN s[m] ELSE t[m - Len(s)]
  BY <1>2, <1>3, ConcatProperties
<1>6. Len(r) = Len(q) - 1 /\ Len(s) + Len(t) = Len(q) - 1
  BY <1>1, <1>2, <1>3, <1>4, <1>5
<1>7. ASSUME NEW m \in 1 .. Len(r) PROVE r[m] = IF m < i THEN q[m] ELSE q[m + 1]
  <2>0. m \in 1 .. Len(s) + Len(t) /\ m \in Int
    BY <1>1, <1>6
  <2>1. CASE m < i
    <3>1. m \in 1 .. i - 1 /\ m <= i - 1 BY <2>1, <1>1
    <3> QED BY <2>0, <2>1, <3>1, <1>2, <1>4, <1>5
  <2>2. CASE ~ (m < i)
    <3> DEFINE n == m - (i - 1)
    <3>1. n \in 1 .. Len(q) - i /\ i + n = m + 1 /\ ~ (m <= i - 1)
      BY <2>0, <2>2, <1>1, <1>6
    <3>2. t[n] = q[m + 1] BY <3>1, <1>3
    <3>3. r[m] = t[n] BY <2>0, <3>1, <1>2, <1>4, <1>5
    <3> QED BY <2>2, <3>2, <3>3
  <2> QED BY <2>1, <2>2
<1> QED
  BY <1>6, <1>7 DEF Shifted, r

\* Removing entries leaves the others distinct.
LEMMA ShiftedFresh ==
  ASSUME NEW q, NEW r, NEW st, NEW i \in Nat, NEW c \in Nat,
         Len(q) \in Nat, Len(r) \in Nat, Shifted(q, r, i, c), Fresh(q, st)
  PROVE  Fresh(r, st)
<1>1. \A m \in 1 .. Len(r) :
        \E k \in 1 .. Len(q) : r[m] = q[k] /\ k = (IF m < i THEN m ELSE m + c)
  <2> SUFFICES ASSUME NEW m \in 1 .. Len(r)
               PROVE  \E k \in 1 .. Len(q) : r[m] = q[k] /\ k = (IF m < i THEN m ELSE m + c)
    OBVIOUS
  <2>1. (IF m < i THEN m ELSE m + c) \in 1 .. Len(q) BY DEF Shifted
  <2>2. r[m] = q[IF m < i THEN m ELSE m + c] BY DEF Shifted
  <2> QED BY <2>1, <2>2
<1> SUFFICES ASSUME NEW m \in 1 .. Len(r), NEW n \in 1 .. Len(r)
             PROVE  st[r[m]] # "idle" /\ (r[m] = r[n] => m = n)
  BY DEF Fresh
<1>2. PICK k \in 1 .. Len(q) : r[m] = q[k] /\ k = (IF m < i THEN m ELSE m + c)
  BY <1>1
<1>3. PICK l \in 1 .. Len(q) : r[n] = q[l] /\ l = (IF n < i THEN n ELSE n + c)
  BY <1>1
<1>4. st[q[k]] # "idle" /\ (q[k] = q[l] => k = l)
  BY DEF Fresh
<1>5. k = l => m = n
  BY <1>2, <1>3
<1> QED
  BY <1>2, <1>3, <1>4, <1>5

\* A turn of the drain loop leaves the part of the queue it has passed as it
\* was, unless it starts over; it stops only when nothing calls for a new pass.
LEMMA AdvanceShape ==
  ASSUME Drain \in DOMAIN frame,
         NEW q \in Seq(Waiters), NEW st, NEW i \in 1 .. Len(q) + 1,
         NEW progress \in BOOLEAN, NEW requested \in BOOLEAN,
         Advance(q, st, i, progress, requested), Fresh(q, st)
  PROVE  /\ Fresh(queue', st)
         /\ frame'[Drain].pc = (IF drain'.on THEN "limits" ELSE "off")
         /\ ~drain'.on => \/ Len(queue') = 0
                          \/ /\ ~progress /\ ~requested
                             /\ Len(queue') = i - 1
                             /\ \A j \in 1 .. i - 1 : queue'[j] = q[j]
         /\ drain'.on => \/ drain'.idx = 1
                         \/ /\ drain'.idx = i
                            /\ drain'.progress = progress /\ drain'.requested = requested
                            /\ \A j \in 1 .. i - 1 : queue'[j] = q[j]
<1> DEFINE q1    == DropSettled(q, st, i)
           q3    == DropSettled(q1, st, 1)
           more  == i <= Len(q1)
           again == progress \/ requested
           q2    == IF more THEN q1 ELSE IF again THEN q3 ELSE q1
           at    == IF more THEN i ELSE 1
           on    == more \/ (again /\ q2 # <<>>)
<1>1. /\ queue' = q2
      /\ drain' = [on |-> on, idx |-> IF on THEN at ELSE 1,
                   progress  |-> more /\ progress,
                   requested |-> on /\ requested /\ (more \/ progress)]
      /\ frame' = [frame EXCEPT ![Drain] = IF on THEN slotFrame(q2[at]) ELSE idleFrame]
  BY DEF Advance
<1>2. q1 \in Seq(Waiters) /\ Len(q1) >= i - 1 /\ Len(q) \in Nat /\ Len(q1) \in Nat
  BY DropSettledType, LenProperties
<1>3. PICK c \in 0 .. Len(q) : Shifted(q, q1, i, c)
  BY DropSettledShape
<1> HIDE DEF q1
<1>4. Fresh(q1, st)
  BY <1>2, <1>3, ShiftedFresh
<1>5. 1 \in 1 .. Len(q1) + 1
  BY <1>2
<1>6. q3 \in Seq(Waiters) /\ Len(q3) \in Nat
  BY <1>2, <1>5, DropSettledType, LenProperties
<1>7. PICK d \in 0 .. Len(q1) : Shifted(q1, q3, 1, d)
  BY <1>2, <1>5, DropSettledShape
<1> HIDE DEF q3
<1>8. Fresh(q3, st)
  BY <1>2, <1>4, <1>6, <1>7, ShiftedFresh
<1>9. Fresh(queue', st)
  BY <1>1, <1>4, <1>8
<1>10. \A j \in 1 .. i - 1 : q1[j] = q[j]
  <2> SUFFICES ASSUME NEW j \in 1 .. i - 1 PROVE q1[j] = q[j]
    OBVIOUS
  <2>1. j \in 1 .. Len(q1) /\ j < i
    BY <1>2
  <2> QED
    BY <1>3, <2>1 DEF Shifted
<1>11. frame'[Drain].pc = (IF drain'.on THEN "limits" ELSE "off")
  <2> HIDE DEF on, q2, at
  <2>1. frame'[Drain] = IF on THEN slotFrame(q2[at]) ELSE idleFrame
    BY <1>1
  <2>2. slotFrame(q2[at]).pc = "limits" /\ idleFrame.pc = "off"
    BY DEF slotFrame, idleFrame
  <2>3. drain'.on = on
    BY <1>1
  <2> QED
    BY <2>1, <2>2, <2>3
<1>12. CASE more
  <2>1. drain'.on /\ drain'.idx = i /\ queue' = q1 /\ drain'.progress = progress
        /\ drain'.requested = requested
    BY <1>1, <1>12
  <2> QED
    BY <1>9, <1>10, <1>11, <2>1
<1>13. CASE ~more /\ again
  <2>1. queue' = q3 /\ drain'.on = (q3 # <<>>) /\ drain'.idx = 1
    BY <1>1, <1>13
  <2>2. ~drain'.on => Len(queue') = 0
    BY <2>1, EmptySeq
  <2> QED
    BY <1>9, <1>11, <2>1, <2>2
<1>14. CASE ~more /\ ~again
  <2>1. queue' = q1 /\ ~drain'.on /\ Len(q1) = i - 1 /\ ~progress /\ ~requested
    BY <1>1, <1>2, <1>14
  <2> QED
    BY <1>9, <1>10, <1>11, <2>1
<1> QED
  BY <1>12, <1>13, <1>14

\* The limits of a waiter are a key and a number.
LEMMA LimitsNowType ==
  ASSUME TypeOK
  PROVE  \A w \in Waiters : /\ limitsNow(w) \in [key : Keys, max : Nat]
                            /\ keyOf(w) = limitsNow(w).key
<1>1. \A w \in Waiters : AgentOf[w] \in Agents
  BY ConstantsAssumption DEF Calls
<1>2. \A w \in Waiters : store[AgentOf[w]] \in Admissible[AgentOf[w]]
  BY <1>1 DEF TypeOK
<1> QED
  BY <1>1, <1>2, LimitsType DEF limitsNow, keyOf

\* Entries stay blocked while the counters do not go down and the waiting
\* entries before them go on waiting.
LEMMA StillBlocked ==
  ASSUME TypeOK, NEW q \in Seq(Waiters), NEW c, NEW d,
         NEW per \in [Keys -> Nat], NEW per2 \in [Keys -> Nat],
         \A k \in Keys : per2[k] >= per[k],
         NEW i \in 1 .. Len(q),
         \A j \in 1 .. i - 1 : c[q[j]] = "waiting" => d[q[j]] = "waiting",
         Blocked(q, c, per, i)
  PROVE  Blocked(q, d, per2, i)
<1>1. q[i] \in Waiters
  BY ElementOfSeq, LenProperties
<1>2. limitsNow(q[i]).key \in Keys /\ limitsNow(q[i]).max \in Nat
  BY <1>1, LimitsNowType
<1>3. CASE ~(per[limitsNow(q[i]).key] < limitsNow(q[i]).max)
  BY <1>2, <1>3 DEF Blocked
<1>4. CASE Behind(q, c, i)
  BY <1>4 DEF Blocked, Behind
<1> QED
  BY <1>3, <1>4 DEF Blocked

\* Two queues that agree up to i say the same of entry i.
LEMMA SamePrefix ==
  ASSUME NEW q, NEW r, NEW c, NEW per, NEW i \in Nat,
         \A j \in 1 .. i : r[j] = q[j]
  PROVE  /\ Behind(r, c, i) <=> Behind(q, c, i)
         /\ i >= 1 => (Blocked(r, c, per, i) <=> Blocked(q, c, per, i))
<1>1. CASE i = 0
  BY <1>1 DEF Behind
<1>2. CASE i >= 1
  <2>1. r[i] = q[i] /\ \A j \in 1 .. i - 1 : r[j] = q[j]
    BY <1>2
  <2>2. Behind(r, c, i) <=> Behind(q, c, i)
    BY <2>1 DEF Behind
  <2> QED
    BY <2>1, <2>2 DEF Blocked
<1> QED
  BY <1>1, <1>2

\* The store is the same after the step: so are limits, keys and what is said
\* with them.
LEMMA SameStore ==
  ASSUME store' = store
  PROVE  /\ \A w : limitsNow(w)' = limitsNow(w) /\ keyOf(w)' = keyOf(w)
         /\ Behind(queue, call, drain.idx)' <=> Behind(queue', call', drain'.idx)
         /\ \A i : Behind(queue, call, i)' <=> Behind(queue', call', i)
         /\ Blocked(queue, call, perIntegration, drain.idx)' <=>
              Blocked(queue', call', perIntegration', drain'.idx)
         /\ \A i : Blocked(queue, call, perIntegration, i)' <=>
                     Blocked(queue', call', perIntegration', i)
BY DEF limitsNow, keyOf, Behind, Blocked

\* A step that leaves the queue, the loop and the waiting calls alone.
LEMMA Steady ==
  ASSUME FInv, QInv', queue' = queue, drain' = drain, edits' = edits, store' = store,
         edits = 0 => cache' = store,
         \A w \in Waiters : /\ call'[w] = "waiting" <=> call[w] = "waiting"
                            /\ call'[w] = "idle" => call[w] = "idle",
         \A k \in Keys : perIntegration'[k] >= perIntegration[k],
         edits = 0 /\ drain.on => ServeInv' /\ PassingInv'
  PROVE  FInv'
<1>1. /\ TypeOK /\ queue \in Seq(Waiters) /\ Len(queue) \in Nat
      /\ drain.on => drain.idx \in 1 .. Len(queue)
      /\ perIntegration \in [Keys -> Nat] /\ perIntegration' \in [Keys -> Nat]
  BY LenProperties DEF FInv, QInv, TInv, TypeOK
<1>2. \A i \in 1 .. Len(queue) : queue[i] \in Waiters
  BY <1>1, ElementOfSeq
<1>3. Fresh(queue', call')
  BY <1>2 DEF FInv, Fresh
<1>4. ASSUME NEW i \in 1 .. Len(queue), Blocked(queue, call, perIntegration, i)
      PROVE  Blocked(queue', call', perIntegration', i)
  <2>1. \A j \in 1 .. i - 1 : j \in 1 .. Len(queue)
    BY <1>1
  <2>2. \A j \in 1 .. i - 1 : call[queue[j]] = "waiting" => call'[queue[j]] = "waiting"
    BY <1>2, <2>1
  <2>3. Blocked(queue, call', perIntegration', i)
    BY <1>1, <1>4, <2>2, StillBlocked
  <2> QED
    BY <2>3
<1>5. ASSUME edits = 0 PROVE PassedInv'
  <2>1. PassedInv
    BY <1>5 DEF FInv
  <2>2. ASSUME ~drain'.on
        PROVE  \A i \in 1 .. Len(queue') :
                 call'[queue'[i]] = "waiting" => Blocked(queue', call', perIntegration', i)
    BY <1>2, <1>4, <2>1, <2>2 DEF PassedInv
  <2>3. ASSUME drain'.on, ~drain'.progress, ~drain'.requested
        PROVE  \A i \in 1 .. drain'.idx - 1 :
                 call'[queue'[i]] = "waiting" => Blocked(queue', call', perIntegration', i)
    <3>1. \A i \in 1 .. drain.idx - 1 : i \in 1 .. Len(queue)
      BY <1>1, <2>3
    <3> QED
      BY <1>2, <1>4, <2>1, <2>3, <3>1 DEF PassedInv
  <2> QED
    BY <2>2, <2>3, SameStore DEF PassedInv
<1>6. ASSUME edits = 0, ~drain.on PROVE PassingInv'
  BY <1>6 DEF PassingInv
<1>7. drain'.on /\ call'[frame'[Drain].cur] # "waiting" => drain'.requested
  <2>1. drain.on => /\ frame'[Drain].cur = queue[drain.idx]
                    /\ frame[Drain].cur = queue[drain.idx]
                    /\ queue[drain.idx] \in Waiters
    BY <1>1, <1>2 DEF FInv, QInv
  <2> QED
    BY <2>1 DEF FInv
<1> QED
  BY <1>3, <1>5, <1>6, <1>7 DEF FInv

\* The same when the drain's frame does not change either.
LEMMA Unmoved ==
  ASSUME FInv, QInv', queue' = queue, drain' = drain, edits' = edits, store' = store,
         edits = 0 => cache' = store,
         \A w \in Waiters : /\ call'[w] = "waiting" <=> call[w] = "waiting"
                            /\ call'[w] = "idle" => call[w] = "idle",
         \A k \in Keys : perIntegration'[k] >= perIntegration[k],
         frame'[Drain] = frame[Drain]
  PROVE  FInv'
<1>1. /\ TypeOK /\ queue \in Seq(Waiters) /\ Len(queue) \in Nat
      /\ drain.on => drain.idx \in 1 .. Len(queue)
      /\ perIntegration \in [Keys -> Nat] /\ perIntegration' \in [Keys -> Nat]
  BY LenProperties DEF FInv, QInv, TInv, TypeOK
<1>2. \A i \in 1 .. Len(queue) : queue[i] \in Waiters
  BY <1>1, ElementOfSeq
<1> SUFFICES ASSUME edits = 0, drain.on PROVE ServeInv' /\ PassingInv'
  BY Steady
<1>3. ServeInv /\ PassingInv
  BY DEF FInv
<1>4. \A j \in 1 .. drain.idx - 1 : j \in 1 .. Len(queue) /\ queue[j] \in Waiters
  BY <1>1, <1>2
<1>5. /\ Behind(queue', call', drain'.idx) <=> Behind(queue, call, drain.idx)
  BY <1>4 DEF Behind
<1>6. Blocked(queue, call, perIntegration, drain.idx)
        => Blocked(queue', call', perIntegration', drain'.idx)
  <2>1. \A j \in 1 .. drain.idx - 1 : call[queue[j]] = "waiting" => call'[queue[j]] = "waiting"
    BY <1>4
  <2> QED
    BY <1>1, <2>1, StillBlocked
<1>7. PassingInv'
  BY <1>3, <1>5, <1>6, SameStore DEF PassingInv
<1>8. ServeInv'
  <2>1. ASSUME frame[Drain].pc = "scan"
        PROVE  \A j \in 1 .. frame[Drain].pos - 1 :
                 call'[queue[j]] = "waiting" => keyOf(queue[j]) # keyOf(frame[Drain].cur)
    <3>1. frame[Drain].pos \in 1 .. drain.idx - 1
      BY <1>3, <2>1 DEF ServeInv
    <3>2. \A j \in 1 .. frame[Drain].pos - 1 : j \in 1 .. drain.idx - 1
      BY <1>1, <3>1
    <3> QED
      BY <1>3, <1>4, <2>1, <3>2 DEF ServeInv
  <2> QED
    BY <1>3, <1>5, <2>1, SameStore DEF ServeInv
<1> QED
  BY <1>7, <1>8

\* A turn of the drain loop, from a queue whose entries before the index are
\* blocked unless another pass is due.
LEMMA TurnServes ==
  ASSUME TInv, QInv', NEW q \in Seq(Waiters), NEW i \in 1 .. Len(q) + 1,
         NEW progress \in BOOLEAN, NEW requested \in BOOLEAN,
         Advance(q, call', i, progress, requested), Fresh(q, call'),
         edits' = edits, store' = store, edits = 0 => cache' = store,
         edits = 0 /\ ~progress /\ ~requested =>
           \A k \in 1 .. i - 1 : call'[q[k]] = "waiting" => Blocked(q, call', perIntegration', k)
  PROVE  FInv'
<1>1. Drain \in DOMAIN frame /\ Len(q) \in Nat /\ i \in Nat /\ queue' \in Seq(Waiters) /\ Len(queue') \in Nat
  BY Processes, LenProperties DEF QInv, TInv, TypeOK
<1>2. /\ Fresh(queue', call')
      /\ frame'[Drain].pc = (IF drain'.on THEN "limits" ELSE "off")
      /\ ~drain'.on => \/ Len(queue') = 0
                       \/ /\ ~progress /\ ~requested
                          /\ Len(queue') = i - 1
                          /\ \A j \in 1 .. i - 1 : queue'[j] = q[j]
      /\ drain'.on => \/ drain'.idx = 1
                      \/ /\ drain'.idx = i
                         /\ drain'.progress = progress /\ drain'.requested = requested
                         /\ \A j \in 1 .. i - 1 : queue'[j] = q[j]
  BY <1>1, AdvanceShape
<1>3. ASSUME edits = 0, ~progress, ~requested, \A j \in 1 .. i - 1 : queue'[j] = q[j]
      PROVE  \A k \in 1 .. i - 1 :
               call'[queue'[k]] = "waiting" => Blocked(queue', call', perIntegration', k)
  <2> SUFFICES ASSUME NEW k \in 1 .. i - 1, call'[queue'[k]] = "waiting"
               PROVE  Blocked(queue', call', perIntegration', k)
    OBVIOUS
  <2>1. k \in Nat /\ k >= 1 /\ \A j \in 1 .. k : queue'[j] = q[j]
    BY <1>1, <1>3
  <2>2. queue'[k] = q[k]
    BY <1>3
  <2>3. Blocked(q, call', perIntegration', k)
    BY <1>3, <2>2
  <2> QED
    BY <2>1, <2>3, SamePrefix
<1>4. ASSUME edits = 0 PROVE PassedInv'
  <2>1. ASSUME ~drain'.on
        PROVE  \A k \in 1 .. Len(queue') :
                 call'[queue'[k]] = "waiting" => Blocked(queue', call', perIntegration', k)
    <3>1. CASE Len(queue') = 0
      BY <3>1
    <3>2. CASE Len(queue') # 0
      BY <1>2, <1>3, <1>4, <2>1, <3>2
    <3> QED BY <3>1, <3>2
  <2>2. ASSUME drain'.on, ~drain'.progress, ~drain'.requested
        PROVE  \A k \in 1 .. drain'.idx - 1 :
                 call'[queue'[k]] = "waiting" => Blocked(queue', call', perIntegration', k)
    <3>1. CASE drain'.idx = 1
      BY <3>1
    <3>2. CASE drain'.idx # 1
      BY <1>2, <1>3, <1>4, <2>2, <3>2
    <3> QED BY <3>1, <3>2
  <2> QED
    BY <2>1, <2>2, SameStore DEF PassedInv
<1>5. drain'.on => ServeInv'
  BY <1>2 DEF ServeInv
<1>6. PassingInv'
  BY <1>2 DEF PassingInv
<1>7. drain'.on => call'[frame'[Drain].cur] = "waiting"
  <2> SUFFICES ASSUME drain'.on PROVE call'[frame'[Drain].cur] = "waiting"
    OBVIOUS
  <2>1. drain'.idx \in 1 .. Len(queue') /\ frame'[Drain].cur = queue'[drain'.idx]
    BY <1>1, LenProperties DEF QInv, TInv, TypeOK
  <2>2. call'[frame'[Drain].cur] # "idle"
    BY <1>2, <2>1 DEF Fresh
  <2>3. PICK w \in Waiters : ~settled(call', w) /\ frame' = [frame EXCEPT ![Drain] = slotFrame(w)]
    BY AdvanceType
  <2>4. frame'[Drain].cur = w
    BY <1>1, <2>3 DEF slotFrame, idleFrame
  <2> QED
    BY <2>2, <2>3, <2>4 DEF settled
<1> QED
  BY <1>2, <1>4, <1>5, <1>6, <1>7 DEF FInv

\* A call of drainPendingAcquisitions with a queue that is the same up to the
\* waiter being served.
LEMMA CallServes ==
  ASSUME FInv, QInv', NEW q \in Seq(Waiters),
         drain.on => \A j \in 1 .. drain.idx : q[j] = queue[j],
         drainPendingAcquisitions(q, call'), Fresh(q, call'),
         \A j \in 1 .. Len(queue) : call'[queue[j]] = "waiting" => call[queue[j]] = "waiting",
         edits' = edits, store' = store, cache' = cache
  PROVE  FInv'
<1>1. /\ TInv /\ Len(q) \in Nat /\ Len(queue) \in Nat
      /\ drain.on => drain.idx \in 1 .. Len(queue)
      /\ edits = 0 => cache' = store
      /\ drain \in [on : BOOLEAN, idx : Nat, progress : BOOLEAN, requested : BOOLEAN]
  BY LenProperties DEF FInv, QInv, TInv, TypeOK
<1>2. CASE drain.on
  <2>1. queue' = q /\ drain' = [drain EXCEPT !.requested = TRUE] /\ frame' = frame
    BY <1>2 DEF drainPendingAcquisitions
  <2>2. drain'.on /\ drain'.idx = drain.idx /\ drain'.requested
    BY <1>1, <1>2, <2>1
  <2>3. PassedInv' /\ PassingInv'
    BY <2>2 DEF PassedInv, PassingInv
  <2>4. ASSUME edits = 0 PROVE ServeInv'
    <3>1. ServeInv
      BY <1>2, <2>4 DEF FInv
    <3>2. \A j \in 1 .. drain.idx : /\ j \in 1 .. Len(queue) /\ queue'[j] = queue[j]
                                    /\ call'[queue[j]] = "waiting" => call[queue[j]] = "waiting"
      <4>1. \A j \in 1 .. drain.idx : j \in 1 .. Len(queue)
        BY <1>1, <1>2
      <4> QED BY <1>2, <2>1, <4>1
    <3>3. drain.idx \in 1 .. drain.idx /\ \A j \in 1 .. drain.idx - 1 : j \in 1 .. drain.idx
      BY <1>1, <1>2
    <3>4. Behind(queue', call', drain'.idx) => Behind(queue, call, drain.idx)
      BY <2>2, <3>2, <3>3 DEF Behind
    <3>5. ASSUME frame[Drain].pc = "scan"
          PROVE  /\ queue'[frame[Drain].pos] = queue[frame[Drain].pos]
                 /\ \A j \in 1 .. frame[Drain].pos - 1 :
                      call'[queue'[j]] = "waiting" => keyOf(queue'[j]) # keyOf(frame[Drain].cur)
      <4>1. frame[Drain].pos \in 1 .. drain.idx - 1
        BY <3>1, <3>5 DEF ServeInv
      <4>2. \A j \in 1 .. frame[Drain].pos - 1 : j \in 1 .. drain.idx
        BY <1>1, <4>1
      <4> QED
        BY <3>1, <3>2, <3>3, <3>5, <4>1, <4>2 DEF ServeInv
    <3> QED
      BY <2>1, <2>2, <3>1, <3>4, <3>5, SameStore DEF ServeInv
  <2>5. Fresh(queue', call')
    BY <2>1
  <2> QED
    BY <1>1, <2>2, <2>3, <2>4, <2>5 DEF FInv
<1>3. CASE ~drain.on
  <2>1. Advance(q, call', 1, FALSE, FALSE)
    BY <1>3 DEF drainPendingAcquisitions
  <2>2. 1 \in 1 .. Len(q) + 1
    BY <1>1
  <2>3. \A k \in 1 .. 1 - 1 : call'[q[k]] = "waiting" => Blocked(q, call', perIntegration', k)
    OBVIOUS
  <2> QED
    BY <1>1, <2>1, <2>2, <2>3, TurnServes
<1> QED
  BY <1>2, <1>3

\* A step of hasEarlierWaiter on behalf of the drain loop's waiter, entry n of
\* the queue: no waiting entry of its key stands before the position reached.
LEMMA ScanServes ==
  ASSUME TypeOK, Fresh(queue, call), NEW f \in Frames, NEW n \in 1 .. Len(queue),
         queue[n] = f.cur, NEW i \in 1 .. n,
         \A j \in 1 .. i - 1 : call[queue[j]] = "waiting" => keyOf(queue[j]) # keyOf(f.cur)
  PROVE  LET g == Scan(f, i) IN
         /\ g.pc = "scanned" => ~g.earlier /\ ~Behind(queue, call, n)
         /\ g.pc = "scan" =>
              /\ g.pos \in 1 .. n - 1 /\ queue[g.pos] = g.seen
              /\ \A j \in 1 .. g.pos - 1 :
                   call[queue[j]] = "waiting" => keyOf(queue[j]) # keyOf(f.cur)
<1> DEFINE stops == {j \in i .. Len(queue) : queue[j] = f.cur \/ ~settled(call, queue[j])}
           at    == LeastOf(stops)
           g     == Scan(f, i)
<1>1. Len(queue) \in Nat /\ n \in Nat /\ i \in Nat
  BY LenProperties DEF TypeOK
<1>2. n \in stops /\ stops \in SUBSET Nat
  BY <1>1
<1>3. at \in stops /\ \A y \in stops : at <= y
  BY <1>2, LeastOfNat
<1>4. at \in i .. n /\ (queue[at] = f.cur \/ ~settled(call, queue[at]))
  BY <1>1, <1>2, <1>3
<1>5. \A j \in i .. at - 1 : settled(call, queue[j])
  BY <1>1, <1>3, <1>4
<1>6. g = IF queue[at] = f.cur THEN [f EXCEPT !.pc = "scanned", !.earlier = FALSE]
          ELSE [f EXCEPT !.pc = "scan", !.pos = at, !.seen = queue[at]]
  BY <1>2 DEF Scan
<1> HIDE DEF at, stops, g
<1>7. \A j \in 1 .. at - 1 : call[queue[j]] = "waiting" => keyOf(queue[j]) # keyOf(f.cur)
  <2> SUFFICES ASSUME NEW j \in 1 .. at - 1, call[queue[j]] = "waiting"
               PROVE  keyOf(queue[j]) # keyOf(f.cur)
    OBVIOUS
  <2>1. CASE j \in i .. at - 1
    BY <1>5, <2>1 DEF settled
  <2>2. CASE j \notin i .. at - 1
    <3>1. j \in 1 .. i - 1
      BY <1>1, <1>4, <2>2
    <3> QED BY <3>1
  <2> QED BY <2>1, <2>2
<1>8. CASE queue[at] = f.cur
  <2>1. at \in 1 .. Len(queue)
    BY <1>1, <1>4
  <2>2. at = n
    BY <1>8, <2>1 DEF Fresh
  <2>3. g.pc = "scanned" /\ g.earlier = FALSE
    BY <1>6, <1>8 DEF Frames
  <2>4. ~Behind(queue, call, n)
    BY <1>7, <2>2 DEF Behind
  <2> QED
    BY <2>3, <2>4 DEF g
<1>9. CASE queue[at] # f.cur
  <2>1. at # n
    BY <1>9
  <2>2. at \in 1 .. n - 1
    BY <1>1, <1>4, <2>1
  <2>3. g.pc = "scan" /\ g.pos = at /\ g.seen = queue[at]
    BY <1>6, <1>9 DEF Frames
  <2> QED
    BY <1>7, <2>2, <2>3 DEF g
<1> QED
  BY <1>8, <1>9

\* At the start the queue is empty and the cache holds the records.
LEMMA FInvInit == Init => FInv
<1> SUFFICES ASSUME Init PROVE FInv
  OBVIOUS
<1>1. Len(queue) = 0 /\ ~drain.on /\ cache = store
  BY DEF Init
<1> QED
  BY <1>1, QInvInit DEF FInv, Fresh, PassedInv, PassingInv

\* The steps of the drain loop inside acquireSlot.
LEMMA DrainSlotServes ==
  ASSUME FInv, TInv', QInv', AcquireSlotStep(Drain)
  PROVE  FInv'
<1> DEFINE f == frame[Drain]  n == drain.idx  w == f.cur  a == AgentOf[w]
<1>1. /\ TInv /\ TypeOK /\ f \in Frames /\ frame \in [Procs -> Frames] /\ Drain \in Procs
      /\ queue \in Seq(Waiters) /\ Len(queue) \in Nat
      /\ perIntegration \in [Keys -> Nat]
  BY LenProperties, Processes DEF FInv, QInv, TInv, TypeOK
<1>2. f.pc # "off"
  BY DEF AcquireSlotStep, LimitsLoaded, ScanLoaded, Reserve, LoadFails
<1>3. drain.on /\ w \in Waiters /\ n \in 1 .. Len(queue) /\ queue[n] = w
  BY <1>1, <1>2, Processes, LenProperties DEF FInv, QInv, TInv, TypeOK, FrameInv
<1>4. UNCHANGED <<store, edits, queue, call, drain>>
  BY DEF AcquireSlotStep, LimitsLoaded, ScanLoaded, Reserve, LoadFails, configVars
<1>5. a \in Agents /\ \A v \in Waiters : AgentOf[v] \in Agents
  BY <1>3, ConstantsAssumption DEF Calls
<1>6. limitsNow(w) \in [key : Keys, max : Nat] /\ keyOf(w) = limitsNow(w).key
  BY <1>1, <1>3, LimitsNowType
<1>7. Fresh(queue, call)
  BY DEF FInv
<1>8. edits = 0 => cache = store /\ ServeInv /\ PassingInv
  BY <1>3 DEF FInv
\* What remains to be shown when the counters do not change.
<1>9. ASSUME edits = 0 => cache' = store, UNCHANGED perIntegration,
             edits = 0 => ServeInv' /\ PassingInv'
      PROVE  FInv'
  BY <1>1, <1>4, <1>9, Steady
<1>10. ASSUME LimitsLoaded(Drain) PROVE FInv'
  <2>1. PICK r \in Readable(a) :
          /\ cache' = [cache EXCEPT ![a] = r]
          /\ frame' = [frame EXCEPT ![Drain] = Scan([f EXCEPT !.lim = limitsOf(a, r)], 1)]
    BY <1>10 DEF LimitsLoaded
  <2>2. UNCHANGED perIntegration
    BY <1>10 DEF LimitsLoaded, countVars
  <2>3. edits = 0 => r = store[a] /\ cache' = store
    BY <1>1, <1>5, <1>8, <2>1 DEF Readable, TypeOK
  <2> DEFINE e == [f EXCEPT !.lim = limitsOf(a, r)]  g == Scan(e, 1)
  <2>4. ASSUME edits = 0 PROVE ServeInv' /\ PassingInv'
    <3>1. limitsOf(a, r) = limitsNow(w)
      BY <2>3, <2>4 DEF limitsNow
    <3>2. e \in Frames /\ e.cur = w /\ e.lim = limitsNow(w)
      BY <1>1, <1>6, <3>1 DEF Frames
    <3> HIDE DEF e
    <3>3. 1 \in 1 .. n
      BY <1>1, <1>3
    <3>4. \A j \in 1 .. 1 - 1 : call[queue[j]] = "waiting" => keyOf(queue[j]) # keyOf(e.cur)
      OBVIOUS
    <3>5. /\ g.pc = "scanned" => ~g.earlier /\ ~Behind(queue, call, n)
          /\ g.pc = "scan" =>
               /\ g.pos \in 1 .. n - 1 /\ queue[g.pos] = g.seen
               /\ \A j \in 1 .. g.pos - 1 :
                    call[queue[j]] = "waiting" => keyOf(queue[j]) # keyOf(w)
      BY <1>1, <1>3, <1>7, <3>2, <3>3, <3>4, ScanServes
    <3>6. g.pc \in {"scan", "scanned"} /\ g.cur = w /\ g.lim = limitsNow(w)
      BY <1>1, <3>2, <3>3, ScanType
    <3>7. frame'[Drain] = g
      BY <1>1, <2>1 DEF e
    <3> HIDE DEF g
    <3>8. ServeInv'
      BY <1>4, <3>5, <3>6, <3>7, SameStore DEF ServeInv
    <3>9. PassingInv'
      BY <1>4, <3>5, <3>6, <3>7 DEF PassingInv
    <3> QED BY <3>8, <3>9
  <2> QED BY <1>9, <2>2, <2>3, <2>4
<1>11. ASSUME ScanLoaded(Drain) PROVE FInv'
  <2> DEFINE y == f.seen  b == AgentOf[y]
  <2>1. f.pc = "scan" /\ y \in Waiters
    BY <1>1, <1>11 DEF ScanLoaded, TInv, FrameInv, FrameOK
  <2>2. PICK r \in Readable(b) :
          /\ cache' = [cache EXCEPT ![b] = r]
          /\ frame' = [frame EXCEPT ![Drain] =
               IF ~settled(call, y) /\ integrationKey(b, r) = f.lim.key
               THEN [f EXCEPT !.pc = "scanned", !.earlier = TRUE]
               ELSE Scan(f, f.pos + 1)]
    BY <1>11 DEF ScanLoaded
  <2>3. UNCHANGED perIntegration
    BY <1>11 DEF ScanLoaded, countVars
  <2>4. edits = 0 => r = store[b] /\ cache' = store
    BY <1>1, <1>5, <1>8, <2>1, <2>2 DEF Readable, TypeOK
  <2>5. ASSUME edits = 0 PROVE ServeInv' /\ PassingInv'
    <3>1. integrationKey(b, r) = keyOf(y)
      BY <2>4, <2>5 DEF keyOf, limitsOf
    <3>2. /\ f.lim = limitsNow(w) /\ f.pos \in 1 .. n - 1 /\ queue[f.pos] = y
          /\ \A j \in 1 .. f.pos - 1 : call[queue[j]] = "waiting" => keyOf(queue[j]) # keyOf(w)
      BY <1>8, <2>1, <2>5 DEF ServeInv
    <3>3. CASE ~settled(call, y) /\ keyOf(y) = keyOf(w)
      <4> DEFINE h == [f EXCEPT !.pc = "scanned", !.earlier = TRUE]
      <4>1. frame'[Drain] = h
        BY <1>1, <1>6, <2>2, <3>1, <3>2, <3>3
      <4>2. h.pc = "scanned" /\ h.earlier /\ h.cur = w /\ h.lim = limitsNow(w)
        BY <1>1, <3>2 DEF Frames
      <4> HIDE DEF h
      <4>3. f.pos \in 1 .. Len(queue)
        BY <1>1, <1>3, <3>2
      <4>4. call[y] = "waiting"
        BY <1>7, <3>2, <3>3, <4>3 DEF Fresh, settled
      <4>5. Behind(queue, call, n)
        BY <1>3, <3>2, <3>3, <4>4 DEF Behind
      <4>6. ServeInv'
        BY <1>4, <4>1, <4>2, SameStore DEF ServeInv
      <4>7. PassingInv'
        BY <1>4, <4>1, <4>2, <4>5, SameStore DEF PassingInv
      <4> QED BY <4>6, <4>7
    <3>4. CASE ~(~settled(call, y) /\ keyOf(y) = keyOf(w))
      <4> DEFINE g == Scan(f, f.pos + 1)
      <4>1. frame'[Drain] = g
        BY <1>1, <1>6, <2>2, <3>1, <3>2, <3>4
      <4>2. f.pos + 1 \in 1 .. n /\ f.pos + 1 \in Nat /\ f.pos + 1 >= 1
        BY <1>1, <1>3, <3>2
      <4>3. \A j \in 1 .. (f.pos + 1) - 1 :
              call[queue[j]] = "waiting" => keyOf(queue[j]) # keyOf(w)
        <5>1. call[y] = "waiting" => keyOf(y) # keyOf(w)
          BY <3>4 DEF settled
        <5>2. \A j \in 1 .. (f.pos + 1) - 1 : j = f.pos \/ j \in 1 .. f.pos - 1
          BY <3>2, <1>3
        <5> QED BY <3>2, <5>1, <5>2
      <4>4. /\ g.pc = "scanned" => ~g.earlier /\ ~Behind(queue, call, n)
            /\ g.pc = "scan" =>
                 /\ g.pos \in 1 .. n - 1 /\ queue[g.pos] = g.seen
                 /\ \A j \in 1 .. g.pos - 1 :
                      call[queue[j]] = "waiting" => keyOf(queue[j]) # keyOf(w)
        BY <1>1, <1>3, <1>7, <4>2, <4>3, ScanServes
      <4>5. g.pc \in {"scan", "scanned"} /\ g.cur = w /\ g.lim = limitsNow(w)
        BY <1>1, <3>2, <4>2, ScanType
      <4> HIDE DEF g
      <4>6. ServeInv'
        BY <1>4, <4>1, <4>4, <4>5, SameStore DEF ServeInv
      <4>7. PassingInv'
        BY <1>4, <4>1, <4>4, <4>5 DEF PassingInv
      <4> QED BY <4>6, <4>7
    <3> QED BY <3>3, <3>4
  <2> QED BY <1>9, <2>3, <2>4, <2>5
<1>12. ASSUME Reserve(Drain) PROVE FInv'
  <2>1. f.pc = "scanned" /\ UNCHANGED <<cache>>
    BY <1>12 DEF Reserve, configVars
  <2>2. edits = 0 => f.lim = limitsNow(w) /\ (~f.earlier => ~Behind(queue, call, n))
    BY <1>8, <2>1 DEF ServeInv
  <2>3. edits = 0 /\ ~drain.progress /\ ~drain.requested /\ f.earlier => Behind(queue, call, n)
    BY <1>3, <1>8, <2>1 DEF PassingInv
  <2>4. CASE ~f.earlier /\ check(f.lim)
    <3>1. /\ perIntegration' = [perIntegration EXCEPT ![f.lim.key] = @ + 1]
          /\ frame' = [frame EXCEPT ![Drain].pc = "slot", ![Drain].result = "lease"]
      BY <1>12, <2>4 DEF Reserve
    <3>2. frame'[Drain].pc = "slot" /\ frame'[Drain].result = "lease"
      BY <1>1, <3>1 DEF Frames
    <3>3. \A k \in Keys : perIntegration'[k] >= perIntegration[k]
      BY <1>1, <3>1
    <3>4. edits = 0 => ServeInv' /\ PassingInv'
      BY <1>4, <2>2, <2>4, <3>2, SameStore DEF ServeInv, PassingInv
    <3> QED
      BY <1>4, <1>8, <2>1, <3>3, <3>4, Steady
  <2>5. CASE ~(~f.earlier /\ check(f.lim))
    <3>1. /\ UNCHANGED perIntegration
          /\ frame' = [frame EXCEPT ![Drain].pc = "slot", ![Drain].result = "none"]
      BY <1>12, <2>5 DEF Reserve, countVars
    <3>2. frame'[Drain].pc = "slot" /\ frame'[Drain].result = "none"
      BY <1>1, <3>1 DEF Frames
    <3>3. edits = 0 /\ ~drain.progress /\ ~drain.requested => Blocked(queue, call, perIntegration, n)
      BY <1>3, <2>2, <2>3, <2>5 DEF Blocked, check
    <3>4. edits = 0 => ServeInv'
      BY <3>2 DEF ServeInv
    <3>5. edits = 0 => PassingInv'
      BY <1>4, <3>1, <3>2, <3>3, SameStore DEF PassingInv
    <3> QED
      BY <1>8, <1>9, <2>1, <3>1, <3>4, <3>5
  <2> QED BY <2>4, <2>5
<1>13. ASSUME LoadFails(Drain) PROVE FInv'
  <2>1. /\ UNCHANGED <<cache, perIntegration>>
        /\ frame' = [frame EXCEPT ![Drain].pc = "slot", ![Drain].result = "error"]
    BY <1>13 DEF LoadFails, configVars, countVars
  <2>2. frame'[Drain].pc = "slot" /\ frame'[Drain].result = "error"
    BY <1>1, <2>1 DEF Frames
  <2>3. ServeInv' /\ PassingInv'
    BY <2>2 DEF ServeInv, PassingInv
  <2> QED
    BY <1>8, <1>9, <2>1, <2>3
<1> QED
  BY <1>10, <1>11, <1>12, <1>13 DEF AcquireSlotStep

\* A turn of the drain loop after acquireSlot has settled.
LEMMA DrainTurnServes ==
  ASSUME FInv, TInv', QInv', DrainStep
  PROVE  FInv'
<1> DEFINE f == frame[Drain]  n == drain.idx  w == f.cur
<1>1. /\ TInv /\ TypeOK /\ queue \in Seq(Waiters) /\ Len(queue) \in Nat
      /\ DOMAIN queue = 1 .. Len(queue)
      /\ perIntegration \in [Keys -> Nat]
      /\ drain.progress \in BOOLEAN /\ drain.requested \in BOOLEAN
      /\ call \in [Calls -> {"idle", "waiting", "granted", "released", "rejected"}]
      /\ Waiters \subseteq Calls
  BY LenProperties, Processes DEF FInv, QInv, TInv, TypeOK
<1>2. f.pc = "slot"
  BY DEF DrainStep, DrainError, DrainSettled, DrainNone, DrainGrant
<1>3. drain.on /\ w \in Waiters /\ n \in 1 .. Len(queue) /\ queue[n] = w
  BY <1>1, <1>2, Processes DEF FInv, QInv, TInv, TypeOK, FrameInv
<1>4. Fresh(queue, call) /\ (call[w] # "waiting" => drain.requested)
  BY <1>3 DEF FInv
<1>5. edits = 0 => cache = store /\ PassedInv /\ PassingInv
  BY DEF FInv
<1>6. edits' = edits /\ store' = store /\ cache' = cache
  BY DEF DrainStep, DrainError, DrainSettled, DrainNone, DrainGrant, configVars
<1>7. \A k \in 1 .. n - 1 : k \in 1 .. Len(queue) /\ queue[k] \in Waiters /\ queue[k] # w
  <2>1. \A k \in 1 .. n - 1 : k \in 1 .. Len(queue) /\ k # n
    BY <1>1, <1>3
  <2> QED
    BY <1>1, <1>3, <1>4, <2>1, ElementOfSeq DEF Fresh
<1>8. edits = 0 /\ ~drain.progress /\ ~drain.requested =>
        \A k \in 1 .. n - 1 : call[queue[k]] = "waiting" => Blocked(queue, call, perIntegration, k)
  BY <1>3, <1>5 DEF PassedInv
<1>9. CASE DrainError \/ DrainGrant
  <2> DEFINE q == RemoveIndex(queue, n)
  <2>1. n \in DOMAIN queue
    BY <1>1, <1>3
  <2>2. q \in Seq(Waiters) /\ Len(q) = Len(queue) - 1 /\ Shifted(queue, q, n, 1)
    BY <1>1, <2>1, RemoveIndexType, RemoveIndexShape
  <2>3. UNCHANGED perIntegration
    BY <1>9 DEF DrainError, DrainGrant, countVars
  <2>4. PICK pr \in BOOLEAN : Advance(q, call', n, pr, drain.requested) /\ (~pr => ~drain.progress)
    BY <1>1, <1>9 DEF DrainError, DrainGrant
  <2> HIDE DEF q
  <2>5. /\ \A v \in Waiters \ {w} : call'[v] = call[v]
        /\ \A v \in Waiters : call[v] # "idle" => call'[v] # "idle"
    BY <1>1, <1>3, <1>9 DEF DrainError, DrainGrant
  <2>6. Fresh(q, call')
    <3>1. \A k \in 1 .. Len(queue) : queue[k] \in Waiters
      BY <1>1, ElementOfSeq
    <3>2. Fresh(queue, call')
      BY <1>4, <2>5, <3>1 DEF Fresh
    <3>3. n \in Nat /\ Len(q) \in Nat
      BY <1>1, <1>3, <2>2, LenProperties
    <3> QED
      BY <1>1, <2>2, <3>2, <3>3, ShiftedFresh
  <2>7. \A k \in 1 .. n - 1 : q[k] = queue[k]
    <3> SUFFICES ASSUME NEW k \in 1 .. n - 1 PROVE q[k] = queue[k]
      OBVIOUS
    <3>1. k \in 1 .. Len(q) /\ k < n
      BY <1>1, <1>3, <2>2
    <3> QED
      BY <2>2, <3>1 DEF Shifted
  <2>8. ASSUME edits = 0, ~pr, ~drain.requested, NEW k \in 1 .. n - 1, call'[q[k]] = "waiting"
        PROVE  Blocked(q, call', perIntegration', k)
    <3>1. call[queue[k]] = "waiting"
      BY <1>7, <2>5, <2>7, <2>8
    <3>2. Blocked(queue, call, perIntegration, k)
      BY <1>8, <2>4, <2>8, <3>1
    <3>3. \A j \in 1 .. k - 1 : j \in 1 .. n - 1
      BY <1>1, <1>3
    <3>4. \A j \in 1 .. k - 1 : call[queue[j]] = "waiting" => call'[queue[j]] = "waiting"
      BY <1>7, <2>5, <3>3
    <3>5. k \in 1 .. Len(queue) /\ \A x \in Keys : perIntegration[x] >= perIntegration[x]
      BY <1>1, <1>7
    <3>6. Blocked(queue, call', perIntegration, k)
      BY <1>1, <3>2, <3>4, <3>5, StillBlocked
    <3>7. k \in Nat /\ k >= 1 /\ \A j \in 1 .. k : q[j] = queue[j]
      BY <1>1, <1>3, <2>7
    <3>8. Blocked(q, call', perIntegration, k)
      BY <3>6, <3>7, SamePrefix
    <3> QED
      BY <2>3, <3>8
  <2>9. n \in 1 .. Len(q) + 1
    BY <1>1, <1>3, <2>2
  <2> QED
    BY <1>1, <1>5, <1>6, <2>2, <2>4, <2>6, <2>8, <2>9, TurnServes
<1>10. CASE DrainSettled \/ DrainNone
  <2>1. call' = call /\ Advance(queue, call, n + 1, drain.progress, drain.requested)
    BY <1>10 DEF DrainSettled, DrainNone
  <2>2. n + 1 \in 1 .. Len(queue) + 1
    BY <1>1, <1>3
  <2>3. ASSUME edits = 0, ~drain.progress, ~drain.requested
        PROVE  \A k \in 1 .. (n + 1) - 1 :
                 call'[queue[k]] = "waiting" => Blocked(queue, call', perIntegration', k)
    <3>1. ~settled(call, w)
      BY <1>4, <2>3 DEF settled
    <3>2. DrainNone /\ f.result = "none" /\ UNCHANGED perIntegration
      BY <1>10, <3>1 DEF DrainNone, DrainSettled, countVars
    <3>3. Blocked(queue, call, perIntegration, n)
      BY <1>2, <1>3, <1>5, <2>3, <3>2 DEF PassingInv
    <3>4. \A k \in 1 .. (n + 1) - 1 : k = n \/ k \in 1 .. n - 1
      BY <1>1, <1>3
    <3> QED
      BY <1>8, <2>1, <2>3, <3>2, <3>3, <3>4
  <2>4. Advance(queue, call', n + 1, drain.progress, drain.requested) /\ Fresh(queue, call')
    BY <1>4, <2>1
  <2> QED
    BY <1>1, <1>5, <1>6, <2>2, <2>3, <2>4, TurnServes
<1> QED
  BY <1>9, <1>10 DEF DrainStep

\* The induction step.
LEMMA FInvNext == FInv /\ [Next /\ ~ArrivesInFront]_vars => FInv'
<1> SUFFICES ASSUME FInv, [Next /\ ~ArrivesInFront]_vars PROVE FInv'
  OBVIOUS
<1>1. TInv /\ TInv' /\ QInv'
  BY TInvNext, QInvNext DEF FInv, QInv
<1>2. /\ frame \in [Procs -> Frames] /\ Drain \in Procs /\ Waiters \subseteq Calls
      /\ \A c \in Callers : c \in Procs /\ c # Drain /\ c \notin Waiters
      /\ \A p \in Procs \ {Drain} : p \in Callers
      /\ queue \in Seq(Waiters) /\ Len(queue) \in Nat
      /\ call \in [Calls -> {"idle", "waiting", "granted", "released", "rejected"}]
      /\ perIntegration \in [Keys -> Nat] /\ perIntegration' \in [Keys -> Nat]
  BY <1>1, Processes DEF TInv, TypeOK
<1>3. Fresh(queue, call) /\ (edits = 0 => cache = store)
  BY DEF FInv
<1>4. \A i \in 1 .. Len(queue) : queue[i] \in Waiters
  BY <1>2, ElementOfSeq
<1>5. ASSUME NEW c \in Callers, AcquireSlotStep(c) PROVE FInv'
  <2>1. UNCHANGED <<store, edits, queue, call, drain>>
    BY <1>5 DEF AcquireSlotStep, LimitsLoaded, ScanLoaded, Reserve, LoadFails, configVars
  <2>2. frame'[Drain] = frame[Drain]
    BY <1>2, <1>5 DEF AcquireSlotStep, LimitsLoaded, ScanLoaded, Reserve, LoadFails
  <2>3. edits = 0 => cache' = store
    <3>1. frame[c].pc # "off" => frame[c].cur \in Calls
      BY <1>1, <1>2, Processes
    <3>2. frame[c].pc = "scan" => frame[c].seen \in Calls
      BY <1>1, <1>2 DEF TInv, FrameInv, FrameOK
    <3>3. CASE UNCHANGED cache
      BY <1>3, <3>3
    <3>4. CASE \E a \in Agents : \E r \in Readable(a) : cache' = [cache EXCEPT ![a] = r]
      BY <1>1, <1>3, <3>4 DEF Readable, TInv, TypeOK
    <3> QED
      BY <1>5, <3>1, <3>2, <3>3, <3>4, ConstantsAssumption
      DEF AcquireSlotStep, LimitsLoaded, ScanLoaded, Reserve, LoadFails, configVars
  <2>4. \A k \in Keys : perIntegration'[k] >= perIntegration[k]
    <3>1. CASE UNCHANGED perIntegration
      BY <1>2, <3>1
    <3>2. CASE \E k \in Keys : perIntegration' = [perIntegration EXCEPT ![k] = @ + 1]
      BY <1>2, <3>2
    <3>3. frame[c].pc = "scanned" => frame[c].lim.key \in Keys
      <4> SUFFICES ASSUME frame[c].pc = "scanned" PROVE frame[c].lim.key \in Keys
        OBVIOUS
      <4>0. PICK a \in Agents : \E r \in Admissible[a] : frame[c].lim = limitsOf(a, r)
        BY <1>1, <1>2 DEF TInv, FrameInv, FrameOK, LimitsOK
      <4>1. PICK r \in Admissible[a] : frame[c].lim = limitsOf(a, r)
        BY <4>0
      <4>2. limitsOf(a, r) \in [key : Keys, max : Nat]
        BY LimitsType
      <4> QED
        BY <4>1, <4>2
    <3> QED
      BY <1>5, <3>1, <3>2, <3>3
      DEF AcquireSlotStep, LimitsLoaded, ScanLoaded, Reserve, LoadFails, countVars
  <2> QED
    BY <1>1, <2>1, <2>2, <2>3, <2>4, Unmoved
<1>6. ASSUME AcquireSlotStep(Drain) PROVE FInv'
  BY <1>1, <1>6, DrainSlotServes
<1>7. ASSUME DrainStep PROVE FInv'
  BY <1>1, <1>7, DrainTurnServes
<1>8. ASSUME NEW w \in Waiters, acquireWhenAvailable(w), ~ArrivesInFront PROVE FInv'
  <2> DEFINE q == insertAt(queue, w)
  <2>1. /\ call[w] = "idle" /\ call' = [call EXCEPT ![w] = "waiting"]
        /\ drainPendingAcquisitions(q, call') /\ UNCHANGED <<store, cache, edits>>
    BY <1>8 DEF acquireWhenAvailable, configVars
  <2>2. PICK i \in 1 .. Len(queue) + 1 :
          /\ Inserted(queue, q, w, i)
          /\ \A n \in 1 .. Len(queue) : ~(\E j \in 1 .. n : Priority[queue[j]] > Priority[w]) => n < i
    BY <1>2, insertAtEffect
  <2> HIDE DEF q
  <2>3. q \in Seq(Waiters) /\ Len(q) = Len(queue) + 1 /\ i \in 1 .. Len(q) /\ q[i] = w
    BY <1>2, <2>2 DEF Inserted
  <2>4. ASSUME drain.on PROVE \A j \in 1 .. drain.idx : q[j] = queue[j]
    <3>0. drain.idx \in 1 .. Len(queue)
      BY <1>1, <1>2, <2>4, LenProperties DEF TInv, TypeOK
    <3>1. ~(\E j \in 1 .. drain.idx : Priority[queue[j]] > Priority[w])
      BY <1>2, <1>8, <2>1, <2>4 DEF ArrivesInFront
    <3>2. drain.idx < i
      BY <2>2, <3>0, <3>1
    <3>3. \A j \in 1 .. drain.idx : j \in 1 .. Len(q) /\ j < i
      BY <1>2, <2>3, <3>0, <3>2
    <3> QED
      BY <2>2, <3>3 DEF Inserted
  <2>5. \A j \in 1 .. Len(queue) : queue[j] # w /\ call'[queue[j]] = call[queue[j]]
    BY <1>2, <1>3, <1>4, <2>1 DEF Fresh
  <2>6. Fresh(q, call')
    <3>1. \A k \in 1 .. Len(q) : IF k = i THEN q[k] = w
                                 ELSE \E j \in 1 .. Len(queue) : q[k] = queue[j] /\ j = (IF k < i THEN k ELSE k - 1)
      <4> SUFFICES ASSUME NEW k \in 1 .. Len(q), k # i
                   PROVE  \E j \in 1 .. Len(queue) : q[k] = queue[j] /\ j = (IF k < i THEN k ELSE k - 1)
        BY <2>3
      <4>1. (IF k < i THEN k ELSE k - 1) \in 1 .. Len(queue)
        BY <1>2, <2>3
      <4>2. q[k] = queue[IF k < i THEN k ELSE k - 1]
        BY <2>2 DEF Inserted
      <4> QED
        BY <4>1, <4>2
    <3>2. call'[w] = "waiting"
      BY <1>2, <2>1
    <3> SUFFICES ASSUME NEW k \in 1 .. Len(q), NEW l \in 1 .. Len(q)
                 PROVE  call'[q[k]] # "idle" /\ (q[k] = q[l] => k = l)
      BY DEF Fresh
    <3>3. CASE k = i /\ l = i
      BY <3>1, <3>2, <3>3
    <3>4. CASE k = i /\ l # i
      BY <2>5, <3>1, <3>2, <3>4
    <3>5. CASE k # i /\ l = i
      BY <1>3, <2>5, <3>1, <3>5 DEF Fresh
    <3>6. CASE k # i /\ l # i
      <4>1. PICK j \in 1 .. Len(queue) : q[k] = queue[j] /\ j = (IF k < i THEN k ELSE k - 1)
        BY <3>1, <3>6
      <4>2. PICK m \in 1 .. Len(queue) : q[l] = queue[m] /\ m = (IF l < i THEN l ELSE l - 1)
        BY <3>1, <3>6
      <4>3. j = m => k = l
        BY <2>3, <3>6, <4>1, <4>2
      <4> QED
        BY <1>3, <2>5, <4>1, <4>2, <4>3 DEF Fresh
    <3> QED
      BY <3>3, <3>4, <3>5, <3>6
  <2> QED
    BY <1>1, <2>1, <2>3, <2>4, <2>5, <2>6, CallServes
\* Calls of the drain loop that close a call and leave the queue as it is.
<1>9. ASSUME drainPendingAcquisitions(queue, call'), UNCHANGED configVars,
             \A w \in Waiters : /\ call'[w] = "waiting" => call[w] = "waiting"
                                /\ call'[w] = "idle" => call[w] = "idle"
      PROVE  FInv'
  <2>1. Fresh(queue, call')
    BY <1>3, <1>4, <1>9 DEF Fresh
  <2>2. UNCHANGED <<store, cache, edits>>
    BY <1>9 DEF configVars
  <2> QED
    BY <1>1, <1>2, <1>4, <1>9, <2>1, <2>2, CallServes
<1>10. ASSUME NEW w \in Waiters, onAbort(w) PROVE FInv'
  <2>1. /\ drainPendingAcquisitions(queue, call') /\ UNCHANGED configVars
        /\ call' = [call EXCEPT ![w] = "rejected"]
    BY <1>10 DEF onAbort
  <2> QED
    BY <1>2, <1>9, <2>1
<1>11. ASSUME NEW x \in Calls, release(x) PROVE FInv'
  <2>1. /\ drainPendingAcquisitions(queue, call') /\ UNCHANGED configVars
        /\ call' = [call EXCEPT ![x] = "released"]
    BY <1>11 DEF release
  <2> QED
    BY <1>2, <1>9, <2>1
\* Steps that touch neither the queue nor the loop.
<1>12. ASSUME queue' = queue, drain' = drain, UNCHANGED configVars, UNCHANGED perIntegration,
              frame'[Drain] = frame[Drain],
              \A w \in Waiters : /\ call'[w] = "waiting" <=> call[w] = "waiting"
                                 /\ call'[w] = "idle" => call[w] = "idle"
       PROVE  FInv'
  <2>1. \A k \in Keys : perIntegration'[k] >= perIntegration[k]
    BY <1>2, <1>12
  <2> QED
    BY <1>1, <1>3, <1>12, <2>1, Unmoved DEF configVars
<1>13. ASSUME NEW w \in Waiters, acquireAborted(w) PROVE FInv'
  BY <1>2, <1>12, <1>13 DEF acquireAborted, countVars
<1>14. ASSUME NEW c \in Callers, acquire(c) \/ acquireReturns(c) PROVE FInv'
  <2>1. UNCHANGED <<queue, drain, configVars, perIntegration>> /\ frame'[Drain] = frame[Drain]
    BY <1>2, <1>14 DEF acquire, acquireReturns, countVars
  <2>2. \A w \in Waiters : call'[w] = call[w]
    BY <1>2, <1>14 DEF acquire, acquireReturns
  <2> QED
    BY <1>12, <2>1, <2>2
<1>15. ASSUME NEW a \in Agents, updateAgent(a) PROVE FInv'
  <2>1. edits' # 0
    BY <1>1, <1>15 DEF updateAgent, TInv, TypeOK
  <2>2. UNCHANGED <<queue, call, drain, frame>>
    BY <1>15 DEF updateAgent
  <2> QED
    BY <1>1, <2>1, <2>2 DEF FInv, Fresh
<1>16. CASE UNCHANGED vars
  BY <1>12, <1>16 DEF vars, countVars
<1> QED
  BY <1>2, <1>5, <1>6, <1>7, <1>8, <1>10, <1>11, <1>13, <1>14, <1>15, <1>16 DEF Next

\* Under the same condition the drain loop never stops while a queued waiter
\* could have a slot, unless an earlier waiter of its key is still
\* queued: a release or an abort that happens during one of the loop's awaits
\* makes it start over.
THEOREM NoWakeupLost == OrderlySpec => []NoLostWakeup
<1>1. FInv => NoLostWakeup
  <2> SUFFICES ASSUME FInv, edits = 0, ~drain.on, NEW i \in DOMAIN queue, call[queue[i]] = "waiting"
               PROVE  \/ ~check(limitsNow(queue[i]))
                      \/ \E j \in 1 .. i - 1 : call[queue[j]] = "waiting" /\ keyOf(queue[j]) = keyOf(queue[i])
    BY DEF NoLostWakeup, limitsNow
  <2>1. i \in 1 .. Len(queue)
    BY LenProperties DEF FInv, QInv, TInv, TypeOK
  <2>2. Blocked(queue, call, perIntegration, i)
    BY <2>1 DEF FInv, PassedInv
  <2> QED
    BY <2>2 DEF Blocked, Behind, check
<1>2. FInv /\ [Next /\ ~ArrivesInFront]_vars => FInv'
  BY FInvNext
<1> QED
  BY <1>1, <1>2, FInvInit, PTL DEF OrderlySpec

\* Nor is a waiter granted a slot while an earlier waiter of its key is queued,
\* although hasEarlierWaiter awaits a lookup for every entry it passes.
THEOREM FirstComeFirstServed == OrderlySpec => NoOvertaking
<1> DEFINE A == edits = 0 => \A j \in DOMAIN queue :
                  call[queue[j]] = "waiting" /\ call'[queue[j]] = "granted" =>
                    ~ \E i \in 1 .. j - 1 : call[queue[i]] = "waiting" /\ keyOf(queue[i]) = keyOf(queue[j])
<1>1. FInv /\ [Next /\ ~ArrivesInFront]_vars => A
  <2> SUFFICES ASSUME FInv, [Next /\ ~ArrivesInFront]_vars, edits = 0, NEW j \in DOMAIN queue,
                      call[queue[j]] = "waiting", call'[queue[j]] = "granted"
               PROVE  ~Behind(queue, call, j)
    BY DEF Behind
  <2>1. /\ queue \in Seq(Waiters) /\ j \in 1 .. Len(queue) /\ queue[j] \in Waiters
        /\ TInv /\ Waiters \subseteq Calls /\ \A c \in Callers : c \notin Waiters
        /\ call \in [Calls -> {"idle", "waiting", "granted", "released", "rejected"}]
    BY Processes, LenProperties, ElementOfSeq DEF FInv, QInv
  <2>2. DrainGrant
    <3>1. ASSUME NEW p \in Procs, AcquireSlotStep(p) PROVE FALSE
      BY <3>1 DEF AcquireSlotStep, LimitsLoaded, ScanLoaded, Reserve, LoadFails
    <3>2. ASSUME DrainError \/ DrainSettled \/ DrainNone PROVE FALSE
      BY <2>1, <3>2 DEF DrainError, DrainSettled, DrainNone
    <3>3. ASSUME NEW w \in Waiters, acquireWhenAvailable(w) \/ acquireAborted(w) \/ onAbort(w) PROVE FALSE
      BY <2>1, <3>3 DEF acquireWhenAvailable, acquireAborted, onAbort
    <3>4. ASSUME NEW c \in Callers, acquire(c) \/ acquireReturns(c) PROVE FALSE
      BY <2>1, <3>4 DEF acquire, acquireReturns
    <3>5. ASSUME NEW x \in Calls, release(x) PROVE FALSE
      BY <2>1, <3>5 DEF release
    <3>6. ASSUME NEW a \in Agents, updateAgent(a) PROVE FALSE
      BY <3>6 DEF updateAgent
    <3>7. ~UNCHANGED vars
      BY DEF vars
    <3> QED
      BY <3>1, <3>2, <3>3, <3>4, <3>5, <3>6, <3>7 DEF Next, DrainStep
  <2>3. /\ frame[Drain].pc = "slot" /\ frame[Drain].result = "lease"
        /\ call' = [call EXCEPT ![frame[Drain].cur] = "granted"]
    BY <2>2 DEF DrainGrant
  <2>4. drain.on /\ drain.idx \in 1 .. Len(queue) /\ queue[drain.idx] = frame[Drain].cur
    BY <2>1, <2>3, Processes, LenProperties DEF FInv, QInv, TInv, TypeOK, FrameInv
  <2>5. queue[j] = queue[drain.idx]
    BY <2>1, <2>3, <2>4
  <2>6. j = drain.idx
    BY <2>1, <2>4, <2>5 DEF FInv, Fresh
  <2>7. ServeInv
    BY <2>4 DEF FInv
  <2> QED
    BY <2>3, <2>6, <2>7 DEF ServeInv
<1>2. FInv /\ [Next /\ ~ArrivesInFront]_vars => FInv'
  BY FInvNext
<1>3. NoOvertaking <=> [][A]_vars
  BY DEF NoOvertaking
<1> QED
  BY <1>1, <1>2, <1>3, FInvInit, PTL DEF OrderlySpec
=============================================================================
