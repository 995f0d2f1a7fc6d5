--------------------- MODULE ConcurrencyTracker_proofs ---------------------
(***************************************************************************)
(* Proofs about the concurrency tracker, for any set of waiters, direct    *)
(* callers, agents and integration keys, any priorities and any admin      *)
(* edits: the counters are exact, limits hold and no lease is leaked.      *)
(***************************************************************************)
EXTENDS ConcurrencyTracker, TLAPS, SequenceTheorems, FiniteSetTheorems, WellFoundedInduction

-----------------------------------------------------------------------------
(* The queue operators.                                                    *)

\* Every non-empty set of naturals has the least element LeastOf chooses.
LEMMA LeastOfNat ==
  ASSUME NEW S \in SUBSET Nat, S # {}
  PROVE  LeastOf(S) \in S /\ \A y \in S : LeastOf(S) <= y
<1>1. \E x \in S : \A y \in S : ~ (<<y, x>> \in OpToRel(<, Nat))
  BY WFMin, NatLessThanWellFounded
<1>2. \A x, y \in Nat : y < x => <<y, x>> \in OpToRel(<, Nat)
  <2> TAKE x, y \in Nat
  <2> HAVE y < x
  <2>1. <<y, x>> \in Nat \X Nat /\ <<y, x>>[1] = y /\ <<y, x>>[2] = x
    OBVIOUS
  <2> QED
    BY <2>1, Zenon DEF OpToRel
<1>3. \E x \in S : \A y \in S : ~ (y < x)
  BY <1>1, <1>2, Zenon
<1>4. \E x \in S : \A y \in S : x <= y
  BY <1>3
<1> QED
  BY <1>4 DEF LeastOf

\* The part of a sequence between two positions is a sequence over the same set.
LEMMA SubSeqType ==
  ASSUME NEW W, NEW q \in Seq(W), NEW m \in Nat, NEW n \in Nat, m >= 1, n <= Len(q)
  PROVE  /\ SubSeq(q, m, n) \in Seq(W)
         /\ Len(SubSeq(q, m, n)) = IF m <= n THEN n - m + 1 ELSE 0
         /\ \A i \in 1 .. n - m + 1 : SubSeq(q, m, n)[i] = q[m + i - 1]
<1>1. \A i \in m .. n : q[i] \in W
  BY ElementOfSeq
<1> QED
  BY <1>1, SubSeqProperties

\* splice(i, 1) shortens the queue by one.
LEMMA RemoveIndexType ==
  ASSUME NEW W, NEW q \in Seq(W), NEW i \in DOMAIN q
  PROVE  RemoveIndex(q, i) \in Seq(W) /\ Len(RemoveIndex(q, i)) = Len(q) - 1
<1> DEFINE s == SubSeq(q, 1, i - 1)
           t == SubSeq(q, i + 1, Len(q))
<1>1. Len(q) \in Nat /\ i \in 1 .. Len(q) /\ i \in DOMAIN q
  BY LenProperties
<1>2. s \in Seq(W) /\ Len(s) = i - 1
  BY <1>1, SubSeqType
<1>3. t \in Seq(W) /\ Len(t) = Len(q) - i
  BY <1>1, SubSeqType
<1>4. s \o t \in Seq(W) /\ Len(s \o t) = Len(s) + Len(t)
  BY <1>2, <1>3, ConcatProperties
<1>5. RemoveIndex(q, i) = s \o t
  BY <1>1 DEF RemoveIndex
<1> HIDE DEF s, t
<1> QED
  BY <1>1, <1>2, <1>3, <1>4, <1>5

\* Inserting a waiter lengthens the queue by one.
LEMMA insertAtOver ==
  ASSUME NEW W, NEW q \in Seq(W), NEW w \in W
  PROVE  insertAt(q, w) \in Seq(W) /\ Len(insertAt(q, w)) = Len(q) + 1
<1> DEFINE later == {i \in DOMAIN q : Priority[q[i]] > Priority[w]}
           at    == IF later = {} THEN Len(q) + 1 ELSE LeastOf(later)
           s == SubSeq(q, 1, at - 1)
           t == SubSeq(q, at, Len(q))
<1>1. Len(q) \in Nat /\ DOMAIN q = 1 .. Len(q)
  BY LenProperties
<1>2. at \in 1 .. Len(q) + 1
  <2>1. CASE later = {} BY <2>1, <1>1
  <2>2. CASE later # {}
    <3>1. later \in SUBSET Nat BY <1>1
    <3>2. LeastOf(later) \in later BY <3>1, <2>2, LeastOfNat
    <3> QED BY <3>2, <2>2, <1>1
  <2> QED BY <2>1, <2>2
<1>3. insertAt(q, w) = (s \o <<w>>) \o t
  BY DEF insertAt
<1> HIDE DEF at
<1>4. s \in Seq(W) /\ Len(s) = at - 1
  BY <1>1, <1>2, SubSeqType
<1>5. t \in Seq(W) /\ Len(t) = Len(q) + 1 - at
  BY <1>1, <1>2, SubSeqType
<1> HIDE DEF s, t
<1>6. <<w>> \in Seq(W) /\ Len(<<w>>) = 1
  OBVIOUS
<1>7. s \o <<w>> \in Seq(W) /\ Len(s \o <<w>>) = at
  <2>1. s \o <<w>> \in Seq(W) /\ Len(s \o <<w>>) = Len(s) + Len(<<w>>)
    BY <1>4, <1>6, ConcatProperties
  <2> QED BY <2>1, <1>2, <1>4, <1>6
<1>8. /\ (s \o <<w>>) \o t \in Seq(W)
      /\ Len((s \o <<w>>) \o t) = Len(s \o <<w>>) + Len(t)
  BY <1>5, <1>7, ConcatProperties
<1>9. Len((s \o <<w>>) \o t) = Len(q) + 1
  BY <1>1, <1>2, <1>5, <1>7, <1>8
<1> QED
  BY <1>3, <1>8, <1>9

\* The queue of waiters stays one.
LEMMA insertAtType ==
  ASSUME NEW q \in Seq(Waiters), NEW w \in Waiters
  PROVE  insertAt(q, w) \in Seq(Waiters) /\ Len(insertAt(q, w)) = Len(q) + 1
BY insertAtOver

\* Dropping settled entries from position i keeps the entries before i and
\* leaves at i, if anything, a waiter that is not settled.
LEMMA DropSettledType ==
  ASSUME NEW W, NEW q \in Seq(W), NEW st, NEW i \in 1 .. Len(q) + 1
  PROVE  LET r == DropSettled(q, st, i) IN
         /\ r \in Seq(W)
         /\ Len(r) >= i - 1
         /\ i <= Len(r) => r[i] \in W /\ ~settled(st, r[i])
<1> DEFINE live == {j \in i .. Len(q) : ~settled(st, q[j])}
           k == LeastOf(live)
           s == SubSeq(q, 1, i - 1)
           t == SubSeq(q, k, Len(q))
<1>1. Len(q) \in Nat /\ i \in Nat /\ i >= 1 /\ i - 1 \in Nat /\ i - 1 <= Len(q)
  BY LenProperties
<1>2. s \in Seq(W) /\ Len(s) = i - 1
  BY <1>1, SubSeqType
<1>3. CASE live = {}
  <2>1. DropSettled(q, st, i) = s BY <1>3 DEF DropSettled
  <2> HIDE DEF s
  <2> QED BY <2>1, <1>1, <1>2
<1>4. CASE live # {}
  <2>1. DropSettled(q, st, i) = s \o t BY <1>4 DEF DropSettled
  <2>2. live \in SUBSET Nat BY <1>1
  <2>3. k \in live BY <2>2, <1>4, LeastOfNat
  <2>4. k \in Nat /\ k >= 1 /\ k <= Len(q) /\ ~settled(st, q[k]) BY <2>3, <1>1
  <2> HIDE DEF k
  <2>5. /\ t \in Seq(W) /\ Len(t) = Len(q) - k + 1
        /\ \A j \in 1 .. Len(q) - k + 1 : t[j] = q[k + j - 1]
    BY <2>4, <1>1, SubSeqType
  <2>6. t[1] = q[k] BY <2>4, <2>5, <1>1
  <2> HIDE DEF s, t
  <2>7. /\ s \o t \in Seq(W) /\ Len(s \o t) = Len(s) + Len(t)
        /\ \A j \in 1 .. Len(s) + Len(t) :
             (s \o t)[j] = IF j <= Len(s) THEN s[j] ELSE t[j - Len(s)]
    BY <1>2, <2>5, ConcatProperties
  <2>8. i <= Len(s \o t) /\ (s \o t)[i] = t[i - Len(s)] BY <1>1, <1>2, <2>4, <2>5, <2>7
  <2>9. (s \o t)[i] = q[k] BY <1>1, <1>2, <2>6, <2>8
  <2>10. q[k] \in W BY <2>4, <1>1, ElementOfSeq
  <2> QED BY <1>1, <1>2, <2>1, <2>4, <2>5, <2>7, <2>8, <2>9, <2>10
<1> QED
  BY <1>3, <1>4

\* What one turn of the drain loop leaves: a well-formed queue and index, and
\* either the loop stopped or acquireSlot called for an unsettled waiter.
LEMMA AdvanceOver ==
  ASSUME NEW W, NEW q \in Seq(W), NEW st, NEW i \in 1 .. Len(q) + 1,
         NEW progress \in BOOLEAN, NEW requested \in BOOLEAN,
         Advance(q, st, i, progress, requested)
  PROVE  /\ queue' \in Seq(W)
         /\ drain' \in [on : BOOLEAN, idx : Nat, progress : BOOLEAN, requested : BOOLEAN]
         /\ drain'.on => drain'.idx \in DOMAIN queue'
         /\ \/ ~drain'.on /\ frame' = [frame EXCEPT ![Drain] = idleFrame]
            \/ drain'.on /\ \E w \in W :
                 ~settled(st, w) /\ frame' = [frame EXCEPT ![Drain] = slotFrame(w)]
<1> DEFINE q1    == DropSettled(q, st, i)
           more  == i <= Len(q1)
           again == progress \/ requested
           q2    == IF more THEN q1 ELSE IF again THEN DropSettled(q1, st, 1) ELSE q1
           at    == IF more THEN i ELSE 1
           on    == more \/ (again /\ q2 # <<>>)
<1>1. /\ q1 \in Seq(W)
      /\ more => q1[i] \in W /\ ~settled(st, q1[i])
  BY DropSettledType
<1>2. /\ DropSettled(q1, st, 1) \in Seq(W)
      /\ 1 <= Len(DropSettled(q1, st, 1)) =>
           /\ DropSettled(q1, st, 1)[1] \in W
           /\ ~settled(st, DropSettled(q1, st, 1)[1])
  <2> HIDE DEF q1
  <2>1. 1 \in 1 .. Len(q1) + 1
    BY <1>1, LenProperties
  <2> QED
    BY <1>1, <2>1, DropSettledType
<1>3. /\ queue' = q2
      /\ drain' = [on |-> on, idx |-> IF on THEN at ELSE 1,
                   progress  |-> more /\ progress,
                   requested |-> on /\ requested /\ (more \/ progress)]
      /\ frame' = [frame EXCEPT ![Drain] = IF on THEN slotFrame(q2[at]) ELSE idleFrame]
  BY DEF Advance
<1> DEFINE q3 == DropSettled(q1, st, 1)
<1> HIDE DEF q1
<1>4. q2 \in Seq(W)
  BY <1>1, <1>2
<1>5. on => at \in 1 .. Len(q2) /\ q2[at] \in W /\ ~settled(st, q2[at])
  <2>1. CASE more
    BY <2>1, <1>1, LenProperties
  <2>2. CASE ~more /\ again /\ q2 # <<>>
    <3>1. q2 = q3 /\ at = 1
      BY <2>2
    <3>2. Len(q3) \in Nat /\ Len(q3) # 0
      BY <2>2, <3>1, <1>2, LenProperties, EmptySeq
    <3> QED
      BY <3>1, <3>2, <1>2
  <2> QED
    BY <2>1, <2>2
<1>6. on \in BOOLEAN /\ more \in BOOLEAN /\ at \in Nat
  OBVIOUS
<1> HIDE DEF on, q2, at, more
<1>7. drain'.on = on /\ drain'.idx = IF on THEN at ELSE 1
  BY <1>3
<1>8. drain' \in [on : BOOLEAN, idx : Nat, progress : BOOLEAN, requested : BOOLEAN]
  BY <1>3, <1>6
<1>9. drain'.on => drain'.idx \in DOMAIN queue'
  BY <1>3, <1>4, <1>5, <1>7, LenProperties
<1>10. CASE on
  <2>1. frame' = [frame EXCEPT ![Drain] = slotFrame(q2[at])]
    BY <1>3, <1>10
  <2> QED
    BY <1>3, <1>4, <1>5, <1>7, <1>8, <1>9, <1>10, <2>1
<1>11. CASE ~on
  BY <1>3, <1>4, <1>7, <1>8, <1>9, <1>11
<1> QED
  BY <1>6, <1>10, <1>11

\* The same for the queue of waiters.
LEMMA AdvanceType ==
  ASSUME NEW q \in Seq(Waiters), NEW st, NEW i \in 1 .. Len(q) + 1,
         NEW progress \in BOOLEAN, NEW requested \in BOOLEAN,
         Advance(q, st, i, progress, requested)
  PROVE  /\ queue' \in Seq(Waiters)
         /\ drain' \in [on : BOOLEAN, idx : Nat, progress : BOOLEAN, requested : BOOLEAN]
         /\ drain'.on => drain'.idx \in DOMAIN queue'
         /\ \/ ~drain'.on /\ frame' = [frame EXCEPT ![Drain] = idleFrame]
            \/ drain'.on /\ \E w \in Waiters :
                 ~settled(st, w) /\ frame' = [frame EXCEPT ![Drain] = slotFrame(w)]
BY AdvanceOver

\* The same for a call of drainPendingAcquisitions that may find the loop running.
LEMMA DrainCallOver ==
  ASSUME TypeOK, NEW W, NEW q \in Seq(W), Len(q) >= Len(queue), NEW st,
         drainPendingAcquisitions(q, st)
  PROVE  /\ queue' \in Seq(W)
         /\ drain' \in [on : BOOLEAN, idx : Nat, progress : BOOLEAN, requested : BOOLEAN]
         /\ drain'.on => drain'.idx \in DOMAIN queue'
         /\ \/ drain.on /\ drain'.on /\ UNCHANGED frame
            \/ ~drain'.on /\ frame' = [frame EXCEPT ![Drain] = idleFrame]
            \/ /\ ~drain.on /\ drain'.on
               /\ \E w \in W :
                    ~settled(st, w) /\ frame' = [frame EXCEPT ![Drain] = slotFrame(w)]
<1>1. CASE drain.on
  <2>1. /\ queue' = q /\ drain' = [drain EXCEPT !.requested = TRUE] /\ UNCHANGED frame
    BY <1>1 DEF drainPendingAcquisitions
  <2>2. drain.idx \in 1 .. Len(queue) /\ Len(queue) \in Nat /\ Len(q) \in Nat /\ DOMAIN q = 1 .. Len(q)
    BY <1>1, LenProperties DEF TypeOK
  <2>3. drain.idx \in DOMAIN q
    BY <2>2
  <2> QED
    BY <1>1, <2>1, <2>3 DEF TypeOK
<1>2. CASE ~drain.on
  <2>1. Advance(q, st, 1, FALSE, FALSE)
    BY <1>2 DEF drainPendingAcquisitions
  <2>2. 1 \in 1 .. Len(q) + 1
    BY LenProperties
  <2>3. /\ queue' \in Seq(W)
        /\ drain' \in [on : BOOLEAN, idx : Nat, progress : BOOLEAN, requested : BOOLEAN]
        /\ drain'.on => drain'.idx \in DOMAIN queue'
        /\ \/ ~drain'.on /\ frame' = [frame EXCEPT ![Drain] = idleFrame]
           \/ drain'.on /\ \E w \in W :
                ~settled(st, w) /\ frame' = [frame EXCEPT ![Drain] = slotFrame(w)]
    BY <2>1, <2>2, AdvanceOver
  <2> QED
    BY <1>2, <2>3
<1> QED
  BY <1>1, <1>2

\* The same for the queue of waiters.
LEMMA DrainCallType ==
  ASSUME TypeOK, NEW q \in Seq(Waiters), Len(q) >= Len(queue), NEW st,
         drainPendingAcquisitions(q, st)
  PROVE  /\ queue' \in Seq(Waiters)
         /\ drain' \in [on : BOOLEAN, idx : Nat, progress : BOOLEAN, requested : BOOLEAN]
         /\ drain'.on => drain'.idx \in DOMAIN queue'
         /\ \/ drain.on /\ drain'.on /\ UNCHANGED frame
            \/ ~drain'.on /\ frame' = [frame EXCEPT ![Drain] = idleFrame]
            \/ /\ ~drain.on /\ drain'.on
               /\ \E w \in Waiters :
                    ~settled(st, w) /\ frame' = [frame EXCEPT ![Drain] = slotFrame(w)]
BY DrainCallOver

-----------------------------------------------------------------------------
(* Types, with what is known of the acquireSlot call a process is in.      *)

LimitsOK(l) == \E a \in Agents : \E r \in Admissible[a] : l = limitsOf(a, r)

FrameOK(p) ==
  /\ frame[p].pc # "off" => frame[p].cur \in (IF p = Drain THEN Waiters ELSE {p})
  /\ frame[p].pc = "scan" => frame[p].seen \in Waiters
  /\ frame[p].pc \in {"scan", "scanned"} => LimitsOK(frame[p].lim)

FrameInv ==
  /\ \A p \in Procs : FrameOK(p)
  /\ drain.on <=> frame[Drain].pc # "off"

TInv == TypeOK /\ FrameInv

\* The limits of an admissible record are a key and a positive number.
LEMMA LimitsType ==
  ASSUME NEW a \in Agents, NEW r \in Admissible[a]
  PROVE  /\ limitsOf(a, r) \in [key : Keys, max : Nat]
         /\ limitsOf(a, r).key = integrationKey(a, r)
         /\ LimitsOK(limitsOf(a, r))
<1>1. r \in Recs
  BY ConstantsAssumption
<1>2. integrationKey(a, r) \in Keys
  BY <1>1 DEF integrationKey, Recs, Keys
<1>3. normalizePerEntityLimit(r.maxConcurrent) \in Nat
  BY <1>1 DEF normalizePerEntityLimit, Recs
<1> QED
  BY <1>2, <1>3 DEF limitsOf, LimitsOK

\* A scan step leaves a well-typed frame with the same current call and limits.
LEMMA ScanType ==
  ASSUME TypeOK, NEW f \in Frames, NEW i \in Nat, i >= 1
  PROVE  /\ Scan(f, i) \in Frames
         /\ Scan(f, i).pc \in {"scan", "scanned"}
         /\ Scan(f, i).cur = f.cur
         /\ Scan(f, i).lim = f.lim
         /\ Scan(f, i).pc = "scan" => Scan(f, i).seen \in Waiters
<1> DEFINE stops == {j \in i .. Len(queue) : queue[j] = f.cur \/ ~settled(call, queue[j])}
           at    == LeastOf(stops)
<1>1. CASE stops = {} \/ queue[at] = f.cur
  <2>1. Scan(f, i) = [f EXCEPT !.pc = "scanned", !.earlier = FALSE]
    BY <1>1 DEF Scan
  <2> QED
    BY <2>1 DEF Frames
<1>2. CASE ~(stops = {} \/ queue[at] = f.cur)
  <2>1. Scan(f, i) = [f EXCEPT !.pc = "scan", !.pos = at, !.seen = queue[at]]
    BY <1>2 DEF Scan
  <2>2. queue \in Seq(Waiters) /\ Len(queue) \in Nat
    BY LenProperties DEF TypeOK
  <2>3. stops \in SUBSET Nat
    BY <2>2
  <2>4. at \in stops
    BY <1>2, <2>3, LeastOfNat
  <2>5. at \in Nat /\ at \in 1 .. Len(queue)
    BY <2>2, <2>4
  <2>6. queue[at] \in Waiters
    BY <2>2, <2>5, ElementOfSeq
  <2> HIDE DEF at
  <2> QED
    BY <2>1, <2>5, <2>6 DEF Frames
<1> QED
  BY <1>1, <1>2

\* The two frames the drain loop and acquire write are well typed.
LEMMA FrameTypes ==
  /\ idleFrame \in Frames /\ idleFrame.pc = "off"
  /\ \A x \in Calls : slotFrame(x) \in Frames /\ slotFrame(x).pc = "limits" /\ slotFrame(x).cur = x
BY DEF idleFrame, slotFrame, Frames, Keys, Calls

\* Whatever the drain loop does to its frame, the frames stay well typed.
LEMMA DrainFrame ==
  ASSUME TInv,
         \/ ~drain'.on /\ frame' = [frame EXCEPT ![Drain] = idleFrame]
         \/ drain'.on /\ \E w \in Waiters : frame' = [frame EXCEPT ![Drain] = slotFrame(w)]
  PROVE  frame' \in [Procs -> Frames] /\ FrameInv'
<1>1. Drain \in Procs /\ Waiters \subseteq Calls /\ \A c \in Callers : c # Drain
  BY ConstantsAssumption DEF Procs, Calls
<1>2. frame \in [Procs -> Frames] /\ \A p \in Procs : FrameOK(p)
  BY DEF TInv, TypeOK, FrameInv
<1>3. CASE ~drain'.on /\ frame' = [frame EXCEPT ![Drain] = idleFrame]
  <2>1. frame' \in [Procs -> Frames] /\ frame'[Drain] = idleFrame
        /\ \A p \in Procs \ {Drain} : frame'[p] = frame[p]
    BY <1>1, <1>2, <1>3, FrameTypes
  <2>2. \A p \in Procs : FrameOK(p)'
    BY <1>2, <2>1, FrameTypes DEF FrameOK
  <2> QED
    BY <1>3, <2>1, <2>2, FrameTypes DEF FrameInv
<1>4. CASE drain'.on /\ \E w \in Waiters : frame' = [frame EXCEPT ![Drain] = slotFrame(w)]
  <2>1. PICK w \in Waiters : frame' = [frame EXCEPT ![Drain] = slotFrame(w)]
    BY <1>4
  <2>2. frame' \in [Procs -> Frames] /\ frame'[Drain] = slotFrame(w)
        /\ \A p \in Procs \ {Drain} : frame'[p] = frame[p]
    BY <1>1, <1>2, <2>1, FrameTypes
  <2>3. \A p \in Procs : FrameOK(p)'
    BY <1>1, <1>2, <2>2, FrameTypes DEF FrameOK
  <2> QED
    BY <1>1, <1>4, <2>2, <2>3, FrameTypes DEF FrameInv
<1> QED
  BY <1>3, <1>4

\* A step inside acquireSlot that replaces the frame of p by a well-typed one.
LEMMA SlotFrame ==
  ASSUME TInv, NEW p \in Procs, NEW g \in Frames,
         frame' = [frame EXCEPT ![p] = g], drain' = drain,
         g.pc # "off", frame[p].pc # "off", g.cur = frame[p].cur,
         g.pc = "scan" => g.seen \in Waiters,
         g.pc \in {"scan", "scanned"} => LimitsOK(g.lim)
  PROVE  frame' \in [Procs -> Frames] /\ FrameInv'
<1>1. /\ frame \in [Procs -> Frames] /\ Drain \in Procs
      /\ \A x \in Procs : FrameOK(x)
      /\ drain.on <=> frame[Drain].pc # "off"
  BY DEF TInv, TypeOK, FrameInv, Procs
<1>2. /\ frame' \in [Procs -> Frames] /\ frame'[p] = g
      /\ \A x \in Procs \ {p} : frame'[x] = frame[x]
  BY <1>1
<1>3. \A x \in Procs : FrameOK(x)'
  BY <1>1, <1>2 DEF FrameOK
<1> QED
  BY <1>1, <1>2, <1>3 DEF FrameInv

\* Releasing a lease keeps the counters natural numbers.
LEMMA ReleaseSlotType ==
  ASSUME TypeOK, NEW x \in Calls, releaseSlot(x)
  PROVE  /\ active' \in [Calls -> Keys \cup {None}]
         /\ perIntegration' \in [Keys -> Nat]
         /\ perProject' \in [Projects -> Nat]
         /\ activeGlobal' \in Nat
<1>1. /\ active \in [Calls -> Keys \cup {None}] /\ perIntegration \in [Keys -> Nat]
      /\ perProject \in [Projects -> Nat] /\ activeGlobal \in Nat
  BY DEF TypeOK
<1>2. CASE active[x] = None
  BY <1>1, <1>2 DEF releaseSlot, countVars
<1>3. CASE active[x] # None
  <2>1. active' = [active EXCEPT ![x] = None]
    BY <1>3 DEF releaseSlot
  <2>2. perIntegration' = [perIntegration EXCEPT ![active[x]] = IF @ = 0 THEN 0 ELSE @ - 1]
    BY <1>3 DEF releaseSlot
  <2>3. perProject' = [perProject EXCEPT ![ProjectOf[x]] = IF @ = 0 THEN 0 ELSE @ - 1]
    BY <1>3 DEF releaseSlot
  <2>4. activeGlobal' = IF activeGlobal = 0 THEN 0 ELSE activeGlobal - 1
    BY <1>3 DEF releaseSlot
  <2>5. active[x] \in Keys /\ ProjectOf[x] \in Projects
    BY <1>1, <1>3, ConstantsAssumption
  <2>6. perIntegration' \in [Keys -> Nat]
    BY <1>1, <2>2, <2>5
  <2>7. perProject' \in [Projects -> Nat]
    BY <1>1, <2>3, <2>5
  <2> QED
    BY <1>1, <2>1, <2>4, <2>6, <2>7
<1> QED
  BY <1>2, <1>3

LEMMA TInvInit == Init => TInv
<1> SUFFICES ASSUME Init PROVE TInv
  OBVIOUS
<1>1. \A a \in Agents : Admissible[a] \subseteq Recs
  BY ConstantsAssumption
<1>2. store \in [Agents -> Recs] /\ \A a \in Agents : store[a] \in Admissible[a]
  BY <1>1 DEF Init
<1>3. frame \in [Procs -> Frames] /\ \A p \in Procs : frame[p].pc = "off"
  BY FrameTypes DEF Init
<1>4. queue \in Seq(Waiters)
  BY EmptySeq DEF Init
<1>5. TypeOK
  BY <1>2, <1>3, <1>4, ConstantsAssumption DEF TypeOK, Init
<1>6. FrameInv
  BY <1>3 DEF FrameInv, FrameOK, Init, Procs
<1> QED
  BY <1>5, <1>6 DEF TInv

\* The induction step of the type invariant.
LEMMA TInvNext == TInv /\ [Next]_vars => TInv'
<1> SUFFICES ASSUME TInv, [Next]_vars PROVE TInv'
  OBVIOUS
<1> USE DEF TInv
<1>0. /\ queue \in Seq(Waiters) /\ Len(queue) \in Nat /\ DOMAIN queue = 1 .. Len(queue)
      /\ drain.on => drain.idx \in 1 .. Len(queue)
      /\ drain.on \in BOOLEAN /\ drain.progress \in BOOLEAN /\ drain.requested \in BOOLEAN
  BY LenProperties DEF TypeOK
<1>1. ASSUME NEW p \in Procs, LimitsLoaded(p) PROVE TInv'
  <2> DEFINE x == frame[p].cur  a == AgentOf[x]
  <2>1. x \in Calls /\ a \in Agents
    BY <1>1, ConstantsAssumption DEF LimitsLoaded, FrameInv, FrameOK, Procs, Calls
  <2>2. PICK r \in Readable(a) :
          /\ cache' = [cache EXCEPT ![a] = r]
          /\ frame' = [frame EXCEPT ![p] = Scan([frame[p] EXCEPT !.lim = limitsOf(a, r)], 1)]
    BY <1>1 DEF LimitsLoaded
  <2>3. r \in Admissible[a] /\ r \in Recs
    BY <2>1, ConstantsAssumption DEF Readable, TypeOK
  <2> DEFINE f == [frame[p] EXCEPT !.lim = limitsOf(a, r)]  g == Scan(f, 1)
  <2>4. f \in Frames /\ f.cur = x /\ f.lim = limitsOf(a, r)
    <3>1. frame[p] \in Frames
      BY DEF TypeOK
    <3>2. limitsOf(a, r) \in [key : Keys, max : Nat]
      BY <2>1, <2>3, LimitsType
    <3> QED
      BY <3>1, <3>2 DEF Frames
  <2> HIDE DEF f
  <2>5. g \in Frames /\ g.pc \in {"scan", "scanned"} /\ g.cur = x /\ g.lim = limitsOf(a, r)
        /\ (g.pc = "scan" => g.seen \in Waiters)
    BY <2>4, ScanType
  <2>6. LimitsOK(g.lim)
    BY <2>1, <2>3, <2>5, LimitsType
  <2>7. frame[p].pc = "limits" /\ drain' = drain
    BY <1>1 DEF LimitsLoaded
  <2>8. frame' = [frame EXCEPT ![p] = g]
    BY <2>2 DEF f
  <2> HIDE DEF g
  <2>9. frame' \in [Procs -> Frames] /\ FrameInv'
    BY <2>5, <2>6, <2>7, <2>8, SlotFrame
  <2> QED
    BY <1>1, <2>1, <2>2, <2>3, <2>9 DEF LimitsLoaded, TypeOK, countVars
<1>2. ASSUME NEW p \in Procs, ScanLoaded(p) PROVE TInv'
  <2> DEFINE y == frame[p].seen  a == AgentOf[y]
             h == [frame[p] EXCEPT !.pc = "scanned", !.earlier = TRUE]
             k == Scan(frame[p], frame[p].pos + 1)
  <2>1. y \in Waiters /\ a \in Agents /\ frame[p] \in Frames
    BY <1>2, ConstantsAssumption DEF ScanLoaded, FrameInv, FrameOK, Calls, TypeOK
  <2>2. PICK r \in Readable(a) :
          /\ cache' = [cache EXCEPT ![a] = r]
          /\ frame' = [frame EXCEPT ![p] = h] \/ frame' = [frame EXCEPT ![p] = k]
    BY <1>2 DEF ScanLoaded
  <2>3. r \in Admissible[a] /\ r \in Recs
    BY <2>1, ConstantsAssumption DEF Readable, TypeOK
  <2>4. frame[p].pc = "scan" /\ drain' = drain /\ LimitsOK(frame[p].lim)
    BY <1>2 DEF ScanLoaded, FrameInv, FrameOK
  <2>5. h \in Frames /\ h.pc = "scanned" /\ h.cur = frame[p].cur /\ h.lim = frame[p].lim
    BY <2>1 DEF Frames
  <2>6. frame[p].pos + 1 \in Nat /\ frame[p].pos + 1 >= 1
    BY <2>1 DEF Frames
  <2>7. k \in Frames /\ k.pc \in {"scan", "scanned"} /\ k.cur = frame[p].cur /\ k.lim = frame[p].lim
        /\ (k.pc = "scan" => k.seen \in Waiters)
    BY <2>1, <2>6, ScanType
  <2> HIDE DEF h, k
  <2>8. frame' \in [Procs -> Frames] /\ FrameInv'
    BY <2>2, <2>4, <2>5, <2>7, SlotFrame
  <2> QED
    BY <1>2, <2>1, <2>2, <2>3, <2>8 DEF ScanLoaded, TypeOK, countVars
<1>3. ASSUME NEW p \in Procs, Reserve(p) PROVE TInv'
  <2> DEFINE x == frame[p].cur
             h == [frame[p] EXCEPT !.pc = "slot", !.result = "lease"]
             k == [frame[p] EXCEPT !.pc = "slot", !.result = "none"]
  <2>1. frame[p] \in Frames /\ frame[p].pc = "scanned" /\ drain' = drain
    BY <1>3 DEF Reserve, TypeOK
  <2>2. x \in Calls /\ ProjectOf[x] \in Projects
    BY <2>1, ConstantsAssumption DEF FrameInv, FrameOK, Procs, Calls
  <2>3. frame[p].lim.key \in Keys
    <3>1. PICK a \in Agents : \E r \in Admissible[a] : frame[p].lim = limitsOf(a, r)
      BY <2>1 DEF FrameInv, FrameOK, LimitsOK
    <3> QED
      BY <3>1, LimitsType
  <2>4. frame' = [frame EXCEPT ![p] = h] \/ frame' = [frame EXCEPT ![p] = k]
    BY <1>3, <2>1 DEF Reserve, TypeOK
  <2>5. /\ h \in Frames /\ h.pc = "slot" /\ h.cur = frame[p].cur
        /\ k \in Frames /\ k.pc = "slot" /\ k.cur = frame[p].cur
    BY <2>1 DEF Frames
  <2> HIDE DEF h, k
  <2>6. frame' \in [Procs -> Frames] /\ FrameInv'
    BY <2>1, <2>4, <2>5, SlotFrame
  <2>7. /\ active' \in [Calls -> Keys \cup {None}] /\ perIntegration' \in [Keys -> Nat]
        /\ perProject' \in [Projects -> Nat] /\ activeGlobal' \in Nat
    <3>1. /\ active \in [Calls -> Keys \cup {None}] /\ perIntegration \in [Keys -> Nat]
          /\ perProject \in [Projects -> Nat] /\ activeGlobal \in Nat
      BY DEF TypeOK
    <3>2. CASE UNCHANGED countVars
      BY <3>1, <3>2 DEF countVars
    <3>3. CASE /\ active' = [active EXCEPT ![x] = frame[p].lim.key]
               /\ perIntegration' = [perIntegration EXCEPT ![frame[p].lim.key] = @ + 1]
               /\ perProject' = [perProject EXCEPT ![ProjectOf[x]] = @ + 1]
               /\ activeGlobal' = activeGlobal + 1
      BY <3>1, <3>3, <2>2, <2>3
    <3> QED
      BY <1>3, <3>2, <3>3 DEF Reserve
  <2> QED
    BY <1>3, <2>6, <2>7 DEF Reserve, TypeOK, configVars
<1>4. ASSUME NEW p \in Procs, LoadFails(p) PROVE TInv'
  <2> DEFINE h == [frame[p] EXCEPT !.pc = "slot", !.result = "error"]
  <2>1. frame[p] \in Frames /\ frame[p].pc # "off" /\ drain' = drain
    BY <1>4 DEF LoadFails, TypeOK
  <2>2. frame' = [frame EXCEPT ![p] = h]
    BY <1>4, <2>1 DEF LoadFails, TypeOK
  <2>3. h \in Frames /\ h.pc = "slot" /\ h.cur = frame[p].cur
    BY <2>1 DEF Frames
  <2> HIDE DEF h
  <2>4. frame' \in [Procs -> Frames] /\ FrameInv'
    BY <2>1, <2>2, <2>3, SlotFrame
  <2> QED
    BY <1>4, <2>4 DEF LoadFails, TypeOK, configVars, countVars
<1>5. ASSUME DrainStep PROVE TInv'
  <2>1. drain.on /\ frame[Drain].cur \in Calls
    BY <1>5 DEF DrainStep, DrainError, DrainSettled, DrainNone, DrainGrant, FrameInv, FrameOK, Procs, Calls
  <2>2. /\ drain.idx \in 1 .. Len(queue) /\ drain.idx + 1 \in 1 .. Len(queue) + 1
        /\ RemoveIndex(queue, drain.idx) \in Seq(Waiters)
        /\ drain.idx \in 1 .. Len(RemoveIndex(queue, drain.idx)) + 1
    BY <1>0, <2>1, RemoveIndexType
  <2>3. \E st : \/ Advance(queue, st, drain.idx + 1, drain.progress, drain.requested)
                \/ \E b \in BOOLEAN : Advance(RemoveIndex(queue, drain.idx), st, drain.idx, b, drain.requested)
    BY <1>0, <1>5 DEF DrainStep, DrainError, DrainSettled, DrainNone, DrainGrant
  <2>4. /\ queue' \in Seq(Waiters)
        /\ drain' \in [on : BOOLEAN, idx : Nat, progress : BOOLEAN, requested : BOOLEAN]
        /\ drain'.on => drain'.idx \in DOMAIN queue'
        /\ \/ ~drain'.on /\ frame' = [frame EXCEPT ![Drain] = idleFrame]
           \/ drain'.on /\ \E w \in Waiters : frame' = [frame EXCEPT ![Drain] = slotFrame(w)]
    BY <1>0, <2>2, <2>3, AdvanceType
  <2>5. frame' \in [Procs -> Frames] /\ FrameInv'
    BY <2>4, DrainFrame
  <2>6. /\ active' \in [Calls -> Keys \cup {None}] /\ perIntegration' \in [Keys -> Nat]
        /\ perProject' \in [Projects -> Nat] /\ activeGlobal' \in Nat
    BY <1>5, <2>1, ReleaseSlotType
    DEF DrainStep, DrainError, DrainSettled, DrainNone, DrainGrant, countVars, TypeOK
  <2>7. call' \in [Calls -> {"idle", "waiting", "granted", "released", "rejected"}]
    BY <1>5, <2>1 DEF DrainStep, DrainError, DrainSettled, DrainNone, DrainGrant, TypeOK
  <2>8. UNCHANGED configVars
    BY <1>5 DEF DrainStep, DrainError, DrainSettled, DrainNone, DrainGrant
  <2> QED
    BY <2>4, <2>5, <2>6, <2>7, <2>8 DEF TypeOK, configVars
<1>6. ASSUME NEW q \in Seq(Waiters), Len(q) >= Len(queue), NEW st,
             drainPendingAcquisitions(q, st), UNCHANGED configVars,
             call' \in [Calls -> {"idle", "waiting", "granted", "released", "rejected"}],
             active' \in [Calls -> Keys \cup {None}], perIntegration' \in [Keys -> Nat],
             perProject' \in [Projects -> Nat], activeGlobal' \in Nat
      PROVE TInv'
  <2>1. /\ queue' \in Seq(Waiters)
        /\ drain' \in [on : BOOLEAN, idx : Nat, progress : BOOLEAN, requested : BOOLEAN]
        /\ drain'.on => drain'.idx \in DOMAIN queue'
        /\ \/ drain.on /\ drain'.on /\ UNCHANGED frame
           \/ ~drain'.on /\ frame' = [frame EXCEPT ![Drain] = idleFrame]
           \/ drain'.on /\ \E w \in Waiters : frame' = [frame EXCEPT ![Drain] = slotFrame(w)]
    BY <1>6, DrainCallType
  <2>2. frame' \in [Procs -> Frames] /\ FrameInv'
    <3>1. CASE drain.on /\ drain'.on /\ UNCHANGED frame
      BY <3>1 DEF FrameInv, FrameOK, TypeOK
    <3>2. CASE \/ ~drain'.on /\ frame' = [frame EXCEPT ![Drain] = idleFrame]
               \/ drain'.on /\ \E w \in Waiters : frame' = [frame EXCEPT ![Drain] = slotFrame(w)]
      BY <3>2, DrainFrame
    <3> QED
      BY <2>1, <3>1, <3>2
  <2> QED
    BY <1>6, <2>1, <2>2 DEF TypeOK, configVars
<1>7. ASSUME NEW w \in Waiters, acquireWhenAvailable(w) PROVE TInv'
  <2>1. insertAt(queue, w) \in Seq(Waiters) /\ Len(insertAt(queue, w)) >= Len(queue)
    BY <1>0, insertAtType
  <2>2. call' \in [Calls -> {"idle", "waiting", "granted", "released", "rejected"}]
    BY <1>7 DEF acquireWhenAvailable, TypeOK
  <2> QED
    BY <1>6, <1>7, <2>1, <2>2 DEF acquireWhenAvailable, TypeOK, countVars
<1>8. ASSUME NEW w \in Waiters, acquireAborted(w) PROVE TInv'
  BY <1>8 DEF acquireAborted, TypeOK, FrameInv, FrameOK, configVars, countVars
<1>9. ASSUME NEW w \in Waiters, onAbort(w) PROVE TInv'
  <2>1. call' \in [Calls -> {"idle", "waiting", "granted", "released", "rejected"}]
    BY <1>9 DEF onAbort, TypeOK
  <2>2. drainPendingAcquisitions(queue, call') /\ Len(queue) >= Len(queue) /\ UNCHANGED configVars
    BY <1>0, <1>9 DEF onAbort
  <2>3. /\ active' \in [Calls -> Keys \cup {None}] /\ perIntegration' \in [Keys -> Nat]
        /\ perProject' \in [Projects -> Nat] /\ activeGlobal' \in Nat
    BY <1>9 DEF onAbort, TypeOK, countVars
  <2> QED
    BY <1>0, <1>6, <2>1, <2>2, <2>3
<1>10. ASSUME NEW c \in Callers, acquire(c) PROVE TInv'
  <2>1. c \in Procs /\ c \in Calls /\ c # Drain /\ Drain \in Procs
    BY ConstantsAssumption DEF Procs, Calls
  <2>2. /\ frame' \in [Procs -> Frames] /\ frame'[c] = slotFrame(c)
        /\ \A x \in Procs \ {c} : frame'[x] = frame[x]
    BY <1>10, <2>1, FrameTypes DEF acquire, TypeOK
  <2>3. FrameInv'
    BY <1>10, <2>1, <2>2, FrameTypes DEF acquire, FrameInv, FrameOK
  <2> QED
    BY <1>10, <2>1, <2>2, <2>3 DEF acquire, TypeOK, configVars, countVars
<1>11. ASSUME NEW c \in Callers, acquireReturns(c) PROVE TInv'
  <2>1. c \in Procs /\ c \in Calls /\ c # Drain /\ Drain \in Procs
    BY ConstantsAssumption DEF Procs, Calls
  <2>2. /\ frame' \in [Procs -> Frames] /\ frame'[c] = idleFrame
        /\ \A x \in Procs \ {c} : frame'[x] = frame[x]
    BY <1>11, <2>1, FrameTypes DEF acquireReturns, TypeOK
  <2>3. FrameInv'
    BY <1>11, <2>1, <2>2, FrameTypes DEF acquireReturns, FrameInv, FrameOK
  <2> QED
    BY <1>11, <2>1, <2>2, <2>3 DEF acquireReturns, TypeOK, configVars, countVars
<1>12. ASSUME NEW x \in Calls, release(x) PROVE TInv'
  <2>1. call' \in [Calls -> {"idle", "waiting", "granted", "released", "rejected"}]
    BY <1>12 DEF release, TypeOK
  <2>2. /\ active' \in [Calls -> Keys \cup {None}] /\ perIntegration' \in [Keys -> Nat]
        /\ perProject' \in [Projects -> Nat] /\ activeGlobal' \in Nat
    BY <1>12, ReleaseSlotType DEF release
  <2>3. drainPendingAcquisitions(queue, call') /\ Len(queue) >= Len(queue) /\ UNCHANGED configVars
    BY <1>0, <1>12 DEF release
  <2> QED
    BY <1>0, <1>6, <2>1, <2>2, <2>3
<1>13. ASSUME NEW a \in Agents, updateAgent(a) PROVE TInv'
  <2>1. PICK r \in Admissible[a] : store' = [store EXCEPT ![a] = r]
    BY <1>13 DEF updateAgent
  <2>2. r \in Recs
    BY ConstantsAssumption
  <2>3. edits' \in 0 .. MaxEdits
    BY <1>13, ConstantsAssumption DEF updateAgent, TypeOK
  <2> QED
    BY <1>13, <2>1, <2>2, <2>3 DEF updateAgent, TypeOK, FrameInv, FrameOK, countVars
<1>14. CASE UNCHANGED vars
  BY <1>14 DEF vars, configVars, countVars, TypeOK, FrameInv, FrameOK
<1> QED
  BY <1>1, <1>2, <1>3, <1>4, <1>5, <1>7, <1>8, <1>9, <1>10, <1>11, <1>12, <1>13, <1>14
  DEF Next, AcquireSlotStep

\* Every variable of the tracker keeps its type; no counter goes negative and
\* the drain's index is always one of the queue.
THEOREM TypeCorrect == Spec => []TypeOK
<1>1. TInv => TypeOK
  BY DEF TInv
<1> QED
  BY <1>1, TInvInit, TInvNext, PTL DEF Spec

-----------------------------------------------------------------------------
(* Leases.                                                                 *)

LeaseInv ==
  /\ \A p \in Procs : frame[p].pc # "off" =>
       /\ call[frame[p].cur] \in (IF p = Drain THEN {"idle", "waiting", "rejected"} ELSE {"waiting"})
       /\ active[frame[p].cur] # None <=> (frame[p].pc = "slot" /\ frame[p].result = "lease")
  /\ NoLeakedLease

LInv == TInv /\ LeaseInv

\* The steps that leave the leases alone: the frames of the processes and the
\* calls move on, each frame either unchanged, idle, newly started for a call
\* that is still open, or moved on without a lease.
LEMMA LeaseKept ==
  ASSUME LInv, \A x \in Calls : active'[x] \in {active[x], None},
         \A x \in LiveLeases : call[x] = "granted" => call'[x] = "granted" \/ active'[x] = None,
         \A p \in Procs : frame'[p].pc # "off" =>
           /\ call'[frame'[p].cur] \in (IF p = Drain THEN {"idle", "waiting", "rejected"} ELSE {"waiting"})
           /\ active'[frame'[p].cur] # None <=> (frame'[p].pc = "slot" /\ frame'[p].result = "lease"),
         \A p \in Procs : (frame[p].pc = "slot" /\ frame[p].result = "lease") =>
           frame'[p] = frame[p] \/ active'[frame[p].cur] = None \/ call'[frame[p].cur] = "granted"
  PROVE  LeaseInv'
<1>1. \A x \in LiveLeases' : x \in LiveLeases
  BY DEF LiveLeases
<1>2. NoLeakedLease'
  <2> SUFFICES ASSUME NEW x \in LiveLeases', call'[x] # "granted"
               PROVE  \E p \in Procs : frame'[p].pc = "slot" /\ frame'[p].cur = x /\ frame'[p].result = "lease"
    BY DEF NoLeakedLease
  <2>1. x \in LiveLeases /\ active'[x] # None
    BY <1>1 DEF LiveLeases
  <2>2. PICK p \in Procs : frame[p].pc = "slot" /\ frame[p].cur = x /\ frame[p].result = "lease"
    BY <2>1 DEF LInv, LeaseInv, NoLeakedLease
  <2> QED
    BY <2>1, <2>2
<1> QED
  BY <1>2 DEF LeaseInv

LEMMA LInvInit == Init => LInv
<1> SUFFICES ASSUME Init PROVE LInv
  OBVIOUS
<1>1. \A p \in Procs : frame[p].pc = "off"
  BY FrameTypes DEF Init
<1>2. LiveLeases = {}
  BY DEF Init, LiveLeases
<1> QED
  BY <1>1, <1>2, TInvInit DEF LInv, LeaseInv, NoLeakedLease

\* After a turn of the drain loop the drain's frame is idle or starts on a
\* waiter that has not settled; such a waiter holds no lease once the lease
\* the loop was awaiting has been delivered or given back.
LEMMA DrainTurnLease ==
  ASSUME LInv, TInv',
         \A x \in Calls : \/ active'[x] = active[x]
                          \/ /\ active'[x] = None
                             /\ x \in Callers => frame[x].pc = "off",
         NEW st \in [Calls -> {"idle", "waiting", "granted", "released", "rejected"}],
         call' = st,
         \A x \in LiveLeases : call[x] = "granted" => st[x] = "granted" \/ active'[x] = None,
         \A x \in Callers : st[x] = call[x] \/ frame[x].pc = "off",
         (frame[Drain].pc = "slot" /\ frame[Drain].result = "lease") => 
           st[frame[Drain].cur] = "granted" \/ active'[frame[Drain].cur] = None,
         \/ frame' = [frame EXCEPT ![Drain] = idleFrame]
         \/ \E w \in Waiters : ~settled(st, w) /\ frame' = [frame EXCEPT ![Drain] = slotFrame(w)]
  PROVE  LeaseInv'
<1>1. /\ frame \in [Procs -> Frames] /\ Drain \in Procs /\ Waiters \subseteq Calls
      /\ \A p \in Procs \ {Drain} : p \in Callers
      /\ \A p \in Procs \ {Drain} : frame[p].pc # "off" => frame[p].cur = p
      /\ \A p \in Callers : p \notin Waiters /\ p # Drain
  BY ConstantsAssumption DEF LInv, TInv, TypeOK, FrameInv, FrameOK, Procs, Calls
<1>2. \A p \in Procs \ {Drain} : frame'[p] = frame[p]
  BY <1>1
<1>3. \A p \in Procs \ {Drain} : frame[p].pc # "off" =>
        /\ st[frame[p].cur] \in {"waiting"}
        /\ active'[frame[p].cur] # None <=> (frame[p].pc = "slot" /\ frame[p].result = "lease")
  BY <1>1 DEF Calls, LInv, LeaseInv
<1>4. frame'[Drain] = idleFrame \/ \E w \in Waiters : ~settled(st, w) /\ frame'[Drain] = slotFrame(w)
  BY <1>1
<1>5. \A w \in Waiters : ~settled(st, w) => active'[w] = None /\ st[w] \in {"idle", "waiting", "rejected"}
  <2> SUFFICES ASSUME NEW w \in Waiters, ~settled(st, w), active'[w] # None PROVE FALSE
    <3>1. \A w \in Waiters : ~settled(st, w) => st[w] \in {"idle", "waiting", "rejected"}
      BY <1>1 DEF settled
    <3> QED
      BY <3>1
  <2>1. w \in LiveLeases /\ st[w] # "granted" /\ active'[w] # None
    BY <1>1 DEF LiveLeases, settled
  <2>2. call[w] # "granted"
    BY <2>1
  <2>3. PICK p \in Procs : frame[p].pc = "slot" /\ frame[p].cur = w /\ frame[p].result = "lease"
    BY <2>1, <2>2 DEF LInv, LeaseInv, NoLeakedLease
  <2> QED
    BY <1>1, <2>1, <2>3
<1>6. frame'[Drain].pc # "off" =>
        /\ st[frame'[Drain].cur] \in {"idle", "waiting", "rejected"}
        /\ active'[frame'[Drain].cur] = None /\ frame'[Drain].pc = "limits"
  BY <1>1, <1>4, <1>5, FrameTypes
<1>7. \A p \in Procs : frame'[p].pc # "off" =>
        /\ call'[frame'[p].cur] \in (IF p = Drain THEN {"idle", "waiting", "rejected"} ELSE {"waiting"})
        /\ active'[frame'[p].cur] # None <=> (frame'[p].pc = "slot" /\ frame'[p].result = "lease")
  BY <1>2, <1>3, <1>6
<1>8. \A p \in Procs : (frame[p].pc = "slot" /\ frame[p].result = "lease") =>
        frame'[p] = frame[p] \/ active'[frame[p].cur] = None \/ call'[frame[p].cur] = "granted"
  BY <1>2
<1>9. /\ \A x \in Calls : active'[x] \in {active[x], None}
      /\ \A x \in LiveLeases : call[x] = "granted" => call'[x] = "granted" \/ active'[x] = None
  OBVIOUS
<1> QED
  BY <1>7, <1>8, <1>9, LeaseKept

\* What the type invariant says of processes and calls, gathered for the steps below.
LEMMA Processes ==
  ASSUME TInv
  PROVE  /\ frame \in [Procs -> Frames] /\ Drain \in Procs /\ Waiters \subseteq Calls /\ Callers \subseteq Calls
         /\ \A c \in Callers : c \in Procs /\ c # Drain /\ c \notin Waiters
         /\ \A p \in Procs \ {Drain} : p \in Callers
         /\ \A p \in Procs : frame[p].pc # "off" =>
              frame[p].cur \in Calls /\ frame[p].cur \in (IF p = Drain THEN Waiters ELSE {p})
         /\ queue \in Seq(Waiters) /\ Len(queue) \in Nat
         /\ call \in [Calls -> {"idle", "waiting", "granted", "released", "rejected"}]
         /\ active \in [Calls -> Keys \cup {None}]
<1>1. /\ Drain \in Procs /\ Waiters \subseteq Calls /\ Callers \subseteq Calls
      /\ \A c \in Callers : c \in Procs /\ c # Drain /\ c \notin Waiters
      /\ \A p \in Procs \ {Drain} : p \in Callers
  BY ConstantsAssumption DEF Procs, Calls
<1>2. \A p \in Procs : frame[p].pc # "off" =>
        frame[p].cur \in Calls /\ frame[p].cur \in (IF p = Drain THEN Waiters ELSE {p})
  BY <1>1 DEF TInv, FrameInv, FrameOK
<1> QED
  BY <1>1, <1>2, LenProperties DEF TInv, TypeOK

\* The same for a call of drainPendingAcquisitions that closes the calls in st
\* and no call a process is serving.
LEMMA DrainCallLease ==
  ASSUME LInv, TInv', NEW q \in Seq(Waiters), Len(q) >= Len(queue),
         NEW st \in [Calls -> {"idle", "waiting", "granted", "released", "rejected"}],
         call' = st, drainPendingAcquisitions(q, st),
         \A x \in Calls : \/ active'[x] = active[x]
                          \/ active'[x] = None /\ call[x] \in {"granted", "released"},
         \A x \in LiveLeases : call[x] = "granted" => st[x] = "granted" \/ active'[x] = None,
         \A x \in Callers : st[x] = call[x] \/ frame[x].pc = "off",
         \A w \in Waiters : call[w] \in {"idle", "waiting", "rejected"} =>
                              st[w] \in {"idle", "waiting", "rejected"}
  PROVE  LeaseInv'
<1>1. /\ frame \in [Procs -> Frames] /\ Drain \in Procs
      /\ \A c \in Callers : c \in Procs /\ c # Drain
      /\ \A p \in Procs \ {Drain} : p \in Callers
      /\ \A p \in Procs : frame[p].pc # "off" =>
           frame[p].cur \in Calls /\ frame[p].cur \in (IF p = Drain THEN Waiters ELSE {p})
  BY Processes DEF LInv
<1>2. \A c \in Callers : frame[c].pc # "off" => call[c] = "waiting"
  <2> SUFFICES ASSUME NEW c \in Callers, frame[c].pc # "off" PROVE call[c] = "waiting"
    OBVIOUS
  <2>1. c \in Procs /\ c # Drain /\ frame[c].cur = c
    BY <1>1
  <2>2. call[frame[c].cur] \in (IF c = Drain THEN {"idle", "waiting", "rejected"} ELSE {"waiting"})
    BY <2>1 DEF LInv, LeaseInv
  <2> QED
    BY <2>1, <2>2
<1>3. \A x \in Calls : \/ active'[x] = active[x]
                       \/ active'[x] = None /\ (x \in Callers => frame[x].pc = "off")
  BY <1>2
<1>4. CASE drain.on /\ UNCHANGED frame
  <2>1. \A p \in Procs : frame[p].pc # "off" =>
          /\ call[frame[p].cur] \in (IF p = Drain THEN {"idle", "waiting", "rejected"} ELSE {"waiting"})
          /\ active[frame[p].cur] # None <=> (frame[p].pc = "slot" /\ frame[p].result = "lease")
    BY DEF LInv, LeaseInv
  <2>2. \A p \in Procs : frame[p].pc # "off" => active'[frame[p].cur] = active[frame[p].cur]
    BY <1>1, <2>1
  <2>3. \A p \in Procs : frame[p].pc # "off" =>
          call'[frame[p].cur] \in (IF p = Drain THEN {"idle", "waiting", "rejected"} ELSE {"waiting"})
    BY <1>1, <2>1
  <2>4. \A p \in Procs : frame'[p].pc # "off" =>
          /\ call'[frame'[p].cur] \in (IF p = Drain THEN {"idle", "waiting", "rejected"} ELSE {"waiting"})
          /\ active'[frame'[p].cur] # None <=> (frame'[p].pc = "slot" /\ frame'[p].result = "lease")
    BY <1>4, <2>1, <2>2, <2>3
  <2>5. /\ \A x \in Calls : active'[x] \in {active[x], None}
        /\ \A p \in Procs : frame'[p] = frame[p]
    BY <1>4
  <2> QED
    BY <2>4, <2>5, LeaseKept
<1>5. CASE ~drain.on
  <2>1. frame[Drain].pc = "off"
    BY <1>5 DEF LInv, TInv, FrameInv
  <2>2. \/ frame' = [frame EXCEPT ![Drain] = idleFrame]
        \/ \E w \in Waiters : ~settled(st, w) /\ frame' = [frame EXCEPT ![Drain] = slotFrame(w)]
    BY <1>5, DrainCallType DEF LInv, TInv
  <2> QED
    BY <1>3, <2>1, <2>2, DrainTurnLease
<1> QED
  BY <1>4, <1>5 DEF drainPendingAcquisitions, LInv, TInv, TypeOK

\* The induction step of the lease invariant.
LEMMA LInvNext == LInv /\ [Next]_vars => LInv'
<1> SUFFICES ASSUME LInv, [Next]_vars PROVE LeaseInv'
  BY TInvNext DEF LInv
<1>0. TInv'
  BY TInvNext DEF LInv
<1>t. /\ frame \in [Procs -> Frames] /\ Drain \in Procs /\ Waiters \subseteq Calls /\ Callers \subseteq Calls
      /\ \A c \in Callers : c \in Procs /\ c # Drain /\ c \notin Waiters
      /\ \A p \in Procs \ {Drain} : p \in Callers
      /\ \A p \in Procs : frame[p].pc # "off" =>
           frame[p].cur \in Calls /\ frame[p].cur \in (IF p = Drain THEN Waiters ELSE {p})
      /\ queue \in Seq(Waiters) /\ Len(queue) \in Nat
      /\ call \in [Calls -> {"idle", "waiting", "granted", "released", "rejected"}]
      /\ active \in [Calls -> Keys \cup {None}]
  BY Processes DEF LInv
<1>i. \A p \in Procs : frame[p].pc # "off" =>
        /\ call[frame[p].cur] \in (IF p = Drain THEN {"idle", "waiting", "rejected"} ELSE {"waiting"})
        /\ active[frame[p].cur] # None <=> (frame[p].pc = "slot" /\ frame[p].result = "lease")
  BY DEF LInv, LeaseInv
<1>1. ASSUME NEW p \in Procs, NEW g, frame' = [frame EXCEPT ![p] = g], UNCHANGED <<call, active>>,
             g.cur = frame[p].cur, ~(g.pc = "slot" /\ g.result = "lease"),
             frame[p].pc # "off", frame[p].pc # "slot"
      PROVE LeaseInv'
  <2>1. frame'[p] = g /\ \A x \in Procs \ {p} : frame'[x] = frame[x]
    BY <1>1, <1>t
  <2>2. \A x \in Procs : frame'[x].pc # "off" =>
          /\ call'[frame'[x].cur] \in (IF x = Drain THEN {"idle", "waiting", "rejected"} ELSE {"waiting"})
          /\ active'[frame'[x].cur] # None <=> (frame'[x].pc = "slot" /\ frame'[x].result = "lease")
    BY <1>1, <1>i, <2>1
  <2>3. \A x \in Procs : (frame[x].pc = "slot" /\ frame[x].result = "lease") => frame'[x] = frame[x]
    BY <1>1, <2>1
  <2> QED
    BY <1>1, <2>2, <2>3, LeaseKept
<1>2. ASSUME NEW p \in Procs, LimitsLoaded(p) PROVE LeaseInv'
  <2> DEFINE a == AgentOf[frame[p].cur]
  <2>1. PICK r \in Readable(a) :
          frame' = [frame EXCEPT ![p] = Scan([frame[p] EXCEPT !.lim = limitsOf(a, r)], 1)]
    BY <1>2 DEF LimitsLoaded
  <2> DEFINE f == [frame[p] EXCEPT !.lim = limitsOf(a, r)]
  <2>2. frame[p].pc = "limits" /\ UNCHANGED <<call, active>>
    BY <1>2 DEF LimitsLoaded, countVars
  <2>3. f \in Frames /\ f.cur = frame[p].cur
    <3>1. a \in Agents
      BY <1>t, <2>2, ConstantsAssumption
    <3>2. r \in Admissible[a]
      BY <3>1 DEF Readable, LInv, TInv, TypeOK
    <3>3. limitsOf(a, r) \in [key : Keys, max : Nat] /\ frame[p] \in Frames
      BY <1>t, <3>1, <3>2, LimitsType
    <3> QED
      BY <3>3 DEF Frames
  <2> HIDE DEF f
  <2>4. Scan(f, 1).pc \in {"scan", "scanned"} /\ Scan(f, 1).cur = frame[p].cur
    BY <2>3, ScanType DEF LInv, TInv
  <2>5. frame' = [frame EXCEPT ![p] = Scan(f, 1)]
    BY <2>1 DEF f
  <2> QED
    BY <1>1, <2>2, <2>4, <2>5
<1>3. ASSUME NEW p \in Procs, ScanLoaded(p) PROVE LeaseInv'
  <2> DEFINE h == [frame[p] EXCEPT !.pc = "scanned", !.earlier = TRUE]
             k == Scan(frame[p], frame[p].pos + 1)
  <2>1. frame[p].pc = "scan" /\ UNCHANGED <<call, active>>
    BY <1>3 DEF ScanLoaded, countVars
  <2>2. \/ frame' = [frame EXCEPT ![p] = h]
        \/ frame' = [frame EXCEPT ![p] = k]
    BY <1>3 DEF ScanLoaded
  <2>3. frame[p] \in Frames /\ frame[p].pos + 1 \in Nat /\ frame[p].pos + 1 >= 1
    BY <1>t DEF Frames
  <2>4. h.pc = "scanned" /\ h.cur = frame[p].cur
    BY <2>3 DEF Frames
  <2>5. k.pc \in {"scan", "scanned"} /\ k.cur = frame[p].cur
    BY <2>3, ScanType DEF LInv, TInv
  <2> HIDE DEF h, k
  <2> QED
    BY <1>1, <2>1, <2>2, <2>4, <2>5
<1>4. ASSUME NEW p \in Procs, LoadFails(p) PROVE LeaseInv'
  <2> DEFINE h == [frame[p] EXCEPT !.pc = "slot", !.result = "error"]
  <2>1. frame[p].pc \in {"limits", "scan"} /\ UNCHANGED <<call, active>> /\ frame[p] \in Frames
    BY <1>4, <1>t DEF LoadFails, countVars
  <2>2. frame' = [frame EXCEPT ![p] = h]
    BY <1>4, <1>t DEF LoadFails
  <2>3. h.cur = frame[p].cur /\ h.result = "error"
    BY <2>1 DEF Frames
  <2> HIDE DEF h
  <2> QED
    BY <1>1, <2>1, <2>2, <2>3
<1>5. ASSUME NEW p \in Procs, Reserve(p) PROVE LeaseInv'
  <2> DEFINE x == frame[p].cur
             h == [frame[p] EXCEPT !.pc = "slot", !.result = "lease"]
             k == [frame[p] EXCEPT !.pc = "slot", !.result = "none"]
  <2>1. frame[p].pc = "scanned" /\ UNCHANGED call /\ frame[p] \in Frames
    BY <1>5, <1>t DEF Reserve
  <2>2. /\ h.pc = "slot" /\ h.result = "lease" /\ h.cur = x
        /\ k.pc = "slot" /\ k.result = "none" /\ k.cur = x
    BY <2>1 DEF Frames
  <2>3. CASE frame' = [frame EXCEPT ![p] = k] /\ UNCHANGED active
    <3> HIDE DEF h, k
    <3> QED
      BY <1>1, <2>1, <2>2, <2>3
  <2>4. CASE frame' = [frame EXCEPT ![p] = h] /\ active' = [active EXCEPT ![x] = frame[p].lim.key]
    <3> HIDE DEF h, k
    <3>1. x \in Calls /\ active[x] = None /\ call[x] \in (IF p = Drain THEN {"idle", "waiting", "rejected"} ELSE {"waiting"})
      BY <1>t, <1>i, <2>1
    <3>2. frame[p].lim.key \in Keys /\ None \notin Keys
      <4>1. PICK a \in Agents : \E r \in Admissible[a] : frame[p].lim = limitsOf(a, r)
        BY <2>1 DEF LInv, TInv, FrameInv, FrameOK, LimitsOK
      <4> QED
        BY <4>1, LimitsType, ConstantsAssumption
    <3>3. frame'[p] = h /\ \A y \in Procs \ {p} : frame'[y] = frame[y]
      BY <1>t, <2>4
    <3>4. active'[x] = frame[p].lim.key /\ \A y \in Calls \ {x} : active'[y] = active[y]
      BY <1>t, <2>4, <3>1
    <3>5. \A y \in Procs \ {p} : frame[y].pc # "off" => frame[y].cur # x /\ frame[y].cur \in Calls
      BY <1>t, <2>1
    <3>6. \A y \in Procs : frame'[y].pc # "off" =>
            /\ call'[frame'[y].cur] \in (IF y = Drain THEN {"idle", "waiting", "rejected"} ELSE {"waiting"})
            /\ active'[frame'[y].cur] # None <=> (frame'[y].pc = "slot" /\ frame'[y].result = "lease")
      <4>1. ASSUME NEW y \in Procs \ {p}, frame'[y].pc # "off"
            PROVE  /\ call'[frame'[y].cur] \in (IF y = Drain THEN {"idle", "waiting", "rejected"} ELSE {"waiting"})
                   /\ active'[frame'[y].cur] # None <=> (frame'[y].pc = "slot" /\ frame'[y].result = "lease")
        BY <1>i, <2>1, <3>3, <3>4, <3>5, <4>1
      <4> QED
        BY <2>1, <2>2, <3>1, <3>2, <3>3, <3>4, <4>1
    <3>7. NoLeakedLease'
      <4> SUFFICES ASSUME NEW y \in LiveLeases', call'[y] # "granted"
                   PROVE  \E z \in Procs : frame'[z].pc = "slot" /\ frame'[z].cur = y /\ frame'[z].result = "lease"
        BY DEF NoLeakedLease
      <4>1. CASE y = x
        BY <2>2, <3>3, <4>1
      <4>2. CASE y # x
        <5>1. y \in LiveLeases /\ call[y] # "granted"
          BY <2>1, <3>4, <4>2 DEF LiveLeases
        <5>2. PICK z \in Procs : frame[z].pc = "slot" /\ frame[z].cur = y /\ frame[z].result = "lease"
          BY <5>1 DEF LInv, LeaseInv, NoLeakedLease
        <5> QED
          BY <2>1, <3>3, <5>2
      <4> QED
        BY <4>1, <4>2
    <3> QED
      BY <3>6, <3>7 DEF LeaseInv
  <2>5. \/ frame' = [frame EXCEPT ![p] = k] /\ UNCHANGED active
        \/ frame' = [frame EXCEPT ![p] = h] /\ active' = [active EXCEPT ![x] = frame[p].lim.key]
    <3>1. /\ [frame EXCEPT ![p].pc = "slot", ![p].result = "lease"] = [frame EXCEPT ![p] = h]
          /\ [frame EXCEPT ![p].pc = "slot", ![p].result = "none"] = [frame EXCEPT ![p] = k]
      BY <1>t
    <3> HIDE DEF h, k
    <3> QED
      BY <1>5, <3>1 DEF Reserve, countVars
  <2> QED
    BY <2>3, <2>4, <2>5
<1>6. ASSUME DrainStep PROVE LeaseInv'
  <2> DEFINE x == frame[Drain].cur
  <2>1. /\ frame[Drain].pc = "slot" /\ drain.on /\ x \in Waiters
        /\ call[x] \in {"idle", "waiting", "rejected"}
        /\ active[x] # None <=> frame[Drain].result = "lease"
    BY <1>6, <1>t, <1>i DEF DrainStep, DrainError, DrainSettled, DrainNone, DrainGrant, LInv, TInv, FrameInv
  <2>2. /\ drain.idx \in 1 .. Len(queue) /\ drain.idx + 1 \in 1 .. Len(queue) + 1
        /\ drain.progress \in BOOLEAN /\ drain.requested \in BOOLEAN
        /\ RemoveIndex(queue, drain.idx) \in Seq(Waiters)
        /\ drain.idx \in 1 .. Len(RemoveIndex(queue, drain.idx)) + 1
    BY <1>t, <2>1, RemoveIndexType, LenProperties DEF LInv, TInv, TypeOK
  <2>3. \/ Advance(queue, call', drain.idx + 1, drain.progress, drain.requested)
        \/ \E b \in BOOLEAN : Advance(RemoveIndex(queue, drain.idx), call', drain.idx, b, drain.requested)
    BY <1>6, <2>2 DEF DrainStep, DrainError, DrainSettled, DrainNone, DrainGrant
  <2>4. \/ frame' = [frame EXCEPT ![Drain] = idleFrame]
        \/ \E w \in Waiters : ~settled(call', w) /\ frame' = [frame EXCEPT ![Drain] = slotFrame(w)]
    BY <1>t, <2>2, <2>3, AdvanceType
  <2>5. /\ \A y \in Calls \ {x} : call'[y] = call[y]
        /\ \A y \in Calls \ {x} : active'[y] = active[y]
        /\ active'[x] = active[x] \/ active'[x] = None
        /\ frame[Drain].result = "lease" => call'[x] = "granted" \/ active'[x] = None
        /\ call[x] # "granted"
    <3>1. CASE DrainError
      BY <3>1, <1>t, <2>1 DEF DrainError, countVars
    <3>2. CASE DrainSettled
      BY <3>2, <1>t, <2>1 DEF DrainSettled, releaseSlot, countVars
    <3>3. CASE DrainNone
      BY <3>3, <1>t, <2>1 DEF DrainNone, countVars
    <3>4. CASE DrainGrant
      BY <3>4, <1>t, <2>1 DEF DrainGrant, countVars
    <3> QED
      BY <1>6, <3>1, <3>2, <3>3, <3>4 DEF DrainStep
  <2>6. call' \in [Calls -> {"idle", "waiting", "granted", "released", "rejected"}]
    BY <1>0 DEF TInv, TypeOK
  <2>7. /\ \A y \in Calls : active'[y] = active[y] \/ (active'[y] = None /\ (y \in Callers => frame[y].pc = "off"))
        /\ \A y \in LiveLeases : call[y] = "granted" => call'[y] = "granted" \/ active'[y] = None
        /\ \A y \in Callers : call'[y] = call[y] \/ frame[y].pc = "off"
    BY <1>t, <2>1, <2>5 DEF LiveLeases
  <2> QED
    BY <1>0, <2>1, <2>4, <2>5, <2>6, <2>7, DrainTurnLease
<1>7. ASSUME NEW w \in Waiters, acquireWhenAvailable(w) PROVE LeaseInv'
  <2>1. insertAt(queue, w) \in Seq(Waiters) /\ Len(insertAt(queue, w)) >= Len(queue)
    BY <1>t, insertAtType
  <2>2. call' \in [Calls -> {"idle", "waiting", "granted", "released", "rejected"}]
    BY <1>0 DEF TInv, TypeOK
  <2>3. drainPendingAcquisitions(insertAt(queue, w), call')
    BY <1>7 DEF acquireWhenAvailable
  <2>4. /\ UNCHANGED active /\ call[w] = "idle" /\ call'[w] = "waiting"
        /\ \A x \in Calls \ {w} : call'[x] = call[x]
    BY <1>7, <1>t DEF acquireWhenAvailable, countVars
  <2>5. /\ \A x \in LiveLeases : call[x] = "granted" => call'[x] = "granted" \/ active'[x] = None
        /\ \A x \in Callers : call'[x] = call[x] \/ frame[x].pc = "off"
        /\ \A x \in Waiters : call[x] \in {"idle", "waiting", "rejected"} =>
                              call'[x] \in {"idle", "waiting", "rejected"}
        /\ \A x \in Calls : active'[x] = active[x] \/ (active'[x] = None /\ call[x] \in {"granted", "released"})
    BY <1>t, <2>4 DEF LiveLeases
  <2> QED
    BY <1>0, <2>1, <2>2, <2>3, <2>5, DrainCallLease
<1>8. ASSUME NEW w \in Waiters, acquireAborted(w) PROVE LeaseInv'
  <2>1. /\ UNCHANGED <<active, frame>> /\ call[w] = "idle" /\ call'[w] = "rejected"
        /\ \A x \in Calls \ {w} : call'[x] = call[x]
    BY <1>8, <1>t DEF acquireAborted, countVars
  <2>2. \A p \in Procs : frame[p].pc # "off" =>
          call'[frame[p].cur] \in (IF p = Drain THEN {"idle", "waiting", "rejected"} ELSE {"waiting"})
    BY <1>t, <1>i, <2>1
  <2>3. /\ \A x \in Calls : active'[x] \in {active[x], None}
        /\ \A x \in LiveLeases : call[x] = "granted" => call'[x] = "granted" \/ active'[x] = None
        /\ \A p \in Procs : frame'[p] = frame[p]
    BY <2>1 DEF LiveLeases
  <2>4. \A p \in Procs : frame'[p].pc # "off" =>
          /\ call'[frame'[p].cur] \in (IF p = Drain THEN {"idle", "waiting", "rejected"} ELSE {"waiting"})
          /\ active'[frame'[p].cur] # None <=> (frame'[p].pc = "slot" /\ frame'[p].result = "lease")
    BY <1>i, <2>1, <2>2
  <2> QED
    BY <2>3, <2>4, LeaseKept
<1>9. ASSUME NEW w \in Waiters, onAbort(w) PROVE LeaseInv'
  <2>1. call' \in [Calls -> {"idle", "waiting", "granted", "released", "rejected"}]
    BY <1>0 DEF TInv, TypeOK
  <2>2. drainPendingAcquisitions(queue, call') /\ Len(queue) >= Len(queue)
    BY <1>9, <1>t DEF onAbort
  <2>3. /\ UNCHANGED active /\ call[w] = "waiting" /\ call'[w] = "rejected"
        /\ \A x \in Calls \ {w} : call'[x] = call[x]
    BY <1>9, <1>t DEF onAbort, countVars
  <2>4. /\ \A x \in LiveLeases : call[x] = "granted" => call'[x] = "granted" \/ active'[x] = None
        /\ \A x \in Callers : call'[x] = call[x] \/ frame[x].pc = "off"
        /\ \A x \in Waiters : call[x] \in {"idle", "waiting", "rejected"} =>
                              call'[x] \in {"idle", "waiting", "rejected"}
        /\ \A x \in Calls : active'[x] = active[x] \/ (active'[x] = None /\ call[x] \in {"granted", "released"})
    BY <1>t, <2>3 DEF LiveLeases
  <2> QED
    BY <1>0, <1>t, <2>1, <2>2, <2>4, DrainCallLease
<1>10. ASSUME NEW c \in Callers, acquire(c) PROVE LeaseInv'
  <2>1. /\ UNCHANGED active /\ call[c] = "idle" /\ call'[c] = "waiting"
        /\ \A x \in Calls \ {c} : call'[x] = call[x]
        /\ frame'[c] = slotFrame(c)
        /\ \A p \in Procs \ {c} : frame'[p] = frame[p]
    BY <1>10, <1>t DEF acquire, countVars
  <2>2. frame[c].pc = "off"
    BY <1>t, <1>i, <2>1
  <2>3. active[c] = None
    <3> SUFFICES ASSUME active[c] # None PROVE FALSE
      OBVIOUS
    <3>1. c \in LiveLeases
      BY <1>t DEF LiveLeases
    <3>2. PICK p \in Procs : frame[p].pc = "slot" /\ frame[p].cur = c
      BY <2>1, <3>1 DEF LInv, LeaseInv, NoLeakedLease
    <3> QED
      BY <1>t, <2>2, <3>2
  <2>4. slotFrame(c).pc = "limits" /\ slotFrame(c).cur = c
    BY <1>t, FrameTypes
  <2>5. \A p \in Procs \ {c} : frame[p].pc # "off" => call'[frame[p].cur] = call[frame[p].cur]
    <3>1. \A p \in Procs \ {c} : frame[p].pc # "off" => frame[p].cur # c /\ frame[p].cur \in Calls
      BY <1>t
    <3> QED
      BY <2>1, <3>1
  <2>6. /\ \A x \in Calls : active'[x] \in {active[x], None}
        /\ \A x \in LiveLeases : call[x] = "granted" => call'[x] = "granted" \/ active'[x] = None
        /\ \A p \in Procs : (frame[p].pc = "slot" /\ frame[p].result = "lease") => frame'[p] = frame[p]
    BY <2>1, <2>2 DEF LiveLeases
  <2>7. \A p \in Procs : frame'[p].pc # "off" =>
          /\ call'[frame'[p].cur] \in (IF p = Drain THEN {"idle", "waiting", "rejected"} ELSE {"waiting"})
          /\ active'[frame'[p].cur] # None <=> (frame'[p].pc = "slot" /\ frame'[p].result = "lease")
    BY <1>t, <1>i, <2>1, <2>3, <2>4, <2>5
  <2> QED
    BY <2>6, <2>7, LeaseKept
<1>11. ASSUME NEW c \in Callers, acquireReturns(c) PROVE LeaseInv'
  <2>1. /\ UNCHANGED active
        /\ call'[c] = IF frame[c].result = "lease" THEN "granted" ELSE "rejected"
        /\ frame[c].pc = "slot" /\ frame[c].cur = c /\ call[c] = "waiting"
        /\ \A x \in Calls \ {c} : call'[x] = call[x]
        /\ frame'[c] = idleFrame
        /\ \A p \in Procs \ {c} : frame'[p] = frame[p]
    BY <1>11, <1>t, <1>i DEF acquireReturns, countVars
  <2>2. \A p \in Procs \ {c} : frame[p].pc # "off" => call'[frame[p].cur] = call[frame[p].cur]
    BY <1>t, <2>1
  <2>3. /\ \A x \in Calls : active'[x] \in {active[x], None}
        /\ \A x \in LiveLeases : call[x] = "granted" => call'[x] = "granted" \/ active'[x] = None
        /\ \A p \in Procs : (frame[p].pc = "slot" /\ frame[p].result = "lease") =>
             frame'[p] = frame[p] \/ call'[frame[p].cur] = "granted"
    BY <1>t, <2>1 DEF LiveLeases
  <2>4. \A p \in Procs : frame'[p].pc # "off" =>
          /\ call'[frame'[p].cur] \in (IF p = Drain THEN {"idle", "waiting", "rejected"} ELSE {"waiting"})
          /\ active'[frame'[p].cur] # None <=> (frame'[p].pc = "slot" /\ frame'[p].result = "lease")
    BY <1>t, <1>i, <2>1, <2>2, FrameTypes
  <2> QED
    BY <2>3, <2>4, LeaseKept
<1>12. ASSUME NEW x \in Calls, release(x) PROVE LeaseInv'
  <2>1. call' \in [Calls -> {"idle", "waiting", "granted", "released", "rejected"}]
    BY <1>0 DEF TInv, TypeOK
  <2>2. drainPendingAcquisitions(queue, call') /\ Len(queue) >= Len(queue)
    BY <1>12, <1>t DEF release
  <2>3. /\ call[x] \in {"granted", "released"} /\ call'[x] = "released"
        /\ \A y \in Calls \ {x} : call'[y] = call[y]
    BY <1>12, <1>t DEF release
  <2>4. active'[x] = None /\ \A y \in Calls \ {x} : active'[y] = active[y]
    BY <1>12, <1>t DEF release, releaseSlot, countVars
  <2>5. \A y \in Callers : call'[y] = call[y] \/ frame[y].pc = "off"
    <3> SUFFICES ASSUME x \in Callers, frame[x].pc # "off" PROVE FALSE
      BY <1>t, <2>3
    <3> QED
      BY <1>t, <1>i, <2>3
  <2>6. \A y \in Waiters : call[y] \in {"idle", "waiting", "rejected"} =>
                           call'[y] \in {"idle", "waiting", "rejected"}
    BY <1>t, <2>3
  <2>7. \A y \in LiveLeases : call[y] = "granted" => call'[y] = "granted" \/ active'[y] = None
    BY <2>3, <2>4 DEF LiveLeases
  <2>8. \A y \in Calls : active'[y] = active[y] \/ (active'[y] = None /\ call[y] \in {"granted", "released"})
    BY <2>3, <2>4
  <2> QED
    BY <1>0, <1>t, <2>1, <2>2, <2>5, <2>6, <2>7, <2>8, DrainCallLease
<1>13. CASE UNCHANGED <<call, active, frame>>
  <2>1. /\ \A x \in Calls : active'[x] \in {active[x], None}
        /\ \A x \in LiveLeases : call[x] = "granted" => call'[x] = "granted" \/ active'[x] = None
        /\ \A p \in Procs : frame'[p] = frame[p]
    BY <1>13 DEF LiveLeases
  <2>2. \A p \in Procs : frame'[p].pc # "off" =>
          /\ call'[frame'[p].cur] \in (IF p = Drain THEN {"idle", "waiting", "rejected"} ELSE {"waiting"})
          /\ active'[frame'[p].cur] # None <=> (frame'[p].pc = "slot" /\ frame'[p].result = "lease")
    BY <1>i, <1>13
  <2> QED
    BY <2>1, <2>2, LeaseKept
<1>14. ASSUME NEW a \in Agents, updateAgent(a) PROVE LeaseInv'
  BY <1>13, <1>14 DEF updateAgent, countVars
<1>15. CASE UNCHANGED vars
  BY <1>13, <1>15 DEF vars, countVars
<1> QED
  BY <1>2, <1>3, <1>4, <1>5, <1>6, <1>7, <1>8, <1>9, <1>10, <1>11, <1>12, <1>14, <1>15
  DEF Next, AcquireSlotStep

\* A lease that is live has been handed to its caller or is on its way to it,
\* whatever aborts, failed lookups and grants coincide.
THEOREM NoLeak == Spec => []NoLeakedLease
<1>1. LInv => NoLeakedLease
  BY DEF LInv, LeaseInv
<1> QED
  BY <1>1, LInvInit, LInvNext, PTL DEF Spec

-----------------------------------------------------------------------------
(* Counters and limits.                                                    *)

CInv == LInv /\ CountersMatchLeases /\ AdmissibleLimit

\* The calls are finitely many, so the leases can be counted.
LEMMA FiniteLeases == \A S \in SUBSET Calls : IsFiniteSet(S)
<1>1. IsFiniteSet(Calls)
  BY ConstantsAssumption, FS_Union DEF Calls
<1> QED
  BY <1>1, FS_Subset

\* The counter steps of Reserve and releaseSlot are the only ones.
LEMMA CountSteps ==
  ASSUME LInv, [Next]_vars
  PROVE  \/ UNCHANGED countVars
         \/ \E p \in Procs : Reserve(p) /\ ~UNCHANGED countVars
         \/ \E x \in Calls : releaseSlot(x) /\ active[x] # None
<1>0. frame[Drain].pc = "slot" => frame[Drain].cur \in Calls
  BY Processes DEF LInv
<1>1. ASSUME DrainSettled PROVE UNCHANGED countVars \/ \E x \in Calls : releaseSlot(x) /\ active[x] # None
  <2>1. CASE releaseSlot(frame[Drain].cur)
    BY <1>0, <1>1, <2>1 DEF DrainSettled, releaseSlot
  <2> QED
    BY <1>1, <2>1 DEF DrainSettled
<1>2. ASSUME NEW x \in Calls, release(x)
      PROVE UNCHANGED countVars \/ \E y \in Calls : releaseSlot(y) /\ active[y] # None
  BY <1>2 DEF release, releaseSlot
<1> QED
  BY <1>1, <1>2
  DEF Next, AcquireSlotStep, LimitsLoaded, ScanLoaded, LoadFails, DrainStep, DrainError, DrainNone, DrainGrant,
      acquireWhenAvailable, acquireAborted, onAbort, acquire, acquireReturns, updateAgent, vars

\* A lease counted under key k for project q joins the holders of k, the
\* leases of q and the live leases.
LEMMA ReserveCounts ==
  ASSUME CInv, NEW p \in Procs, Reserve(p), ~UNCHANGED countVars,
         NEW x, x = frame[p].cur, NEW k, k = frame[p].lim.key
  PROVE  CountersMatchLeases' /\ AdmissibleLimit'
<1>1. /\ frame[p].pc = "scanned"
      /\ check(frame[p].lim)
      /\ active' = [active EXCEPT ![x] = k]
      /\ perIntegration' = [perIntegration EXCEPT ![k] = @ + 1]
      /\ perProject' = [perProject EXCEPT ![ProjectOf[x]] = @ + 1]
      /\ activeGlobal' = activeGlobal + 1
  BY DEF Reserve
<1>2. PICK a \in Agents : \E r \in Admissible[a] : frame[p].lim = limitsOf(a, r)
  BY <1>1 DEF CInv, LInv, TInv, FrameInv, FrameOK, LimitsOK
<1>3. /\ k \in Keys /\ k # None /\ x \in Calls /\ active[x] = None /\ ProjectOf[x] \in Projects
      /\ frame[p].lim.max \in Nat
  <2>1. x \in Calls
    BY <1>1, Processes DEF CInv, LInv
  <2>2. active[x] = None
    BY <1>1 DEF CInv, LInv, LeaseInv
  <2> QED
    BY <1>2, <2>1, <2>2, LimitsType, ConstantsAssumption
<1>4. /\ active \in [Calls -> Keys \cup {None}] /\ perIntegration \in [Keys -> Nat]
      /\ perProject \in [Projects -> Nat] /\ activeGlobal \in Nat
  BY DEF CInv, LInv, TInv, TypeOK
<1>5. /\ Holders(k)' = Holders(k) \cup {x} /\ x \notin Holders(k)
      /\ \A j \in Keys \ {k} : Holders(j)' = Holders(j)
      /\ LiveLeases' = LiveLeases \cup {x} /\ x \notin LiveLeases
  BY <1>1, <1>3, <1>4, ConstantsAssumption DEF Holders, LiveLeases
<1> DEFINE Of(q) == {y \in LiveLeases : ProjectOf[y] = q}
<1>6. /\ {y \in LiveLeases' : ProjectOf[y] = ProjectOf[x]} = Of(ProjectOf[x]) \cup {x}
      /\ x \notin Of(ProjectOf[x])
      /\ \A q \in Projects \ {ProjectOf[x]} : {y \in LiveLeases' : ProjectOf[y] = q} = Of(q)
  BY <1>5
<1>7. /\ IsFiniteSet(Holders(k)) /\ IsFiniteSet(LiveLeases) /\ IsFiniteSet(Of(ProjectOf[x]))
  BY FiniteLeases DEF Holders, LiveLeases
<1>8. /\ Cardinality(Holders(k) \cup {x}) = Cardinality(Holders(k)) + 1
      /\ Cardinality(LiveLeases \cup {x}) = Cardinality(LiveLeases) + 1
      /\ Cardinality(Of(ProjectOf[x]) \cup {x}) = Cardinality(Of(ProjectOf[x])) + 1
  BY <1>5, <1>6, <1>7, FS_AddElement
<1>9. CountersMatchLeases
  BY DEF CInv
<1>10. \A j \in Keys : perIntegration'[j] = Cardinality(Holders(j)')
  BY <1>1, <1>3, <1>4, <1>5, <1>8, <1>9 DEF CountersMatchLeases
<1>11. \A q \in Projects : perProject'[q] = Cardinality({y \in LiveLeases' : ProjectOf[y] = q})
  <2>1. \A q \in Projects : perProject[q] = Cardinality(Of(q))
    BY <1>9 DEF CountersMatchLeases
  <2> HIDE DEF Of
  <2> QED
    BY <1>1, <1>3, <1>4, <1>6, <1>8, <2>1
<1>12. activeGlobal' = Cardinality(LiveLeases')
  BY <1>1, <1>5, <1>8, <1>9 DEF CountersMatchLeases
<1>13. AdmissibleLimit'
  <2>1. perIntegration'[k] <= frame[p].lim.max
    BY <1>1, <1>3, <1>4 DEF check
  <2>2. \E b \in Agents : \E r \in Admissible[b] :
          limitsOf(b, r).key = k /\ perIntegration'[k] <= limitsOf(b, r).max
    BY <1>2, <2>1
  <2>3. \A j \in Keys \ {k} : perIntegration'[j] = perIntegration[j]
    BY <1>1, <1>4
  <2> QED
    BY <2>2, <2>3 DEF AdmissibleLimit, CInv
<1> QED
  BY <1>10, <1>11, <1>12, <1>13 DEF CountersMatchLeases

\* Releasing a live lease takes it out of all three counts, none of which was zero.
LEMMA ReleaseCounts ==
  ASSUME CInv, NEW x \in Calls, releaseSlot(x), active[x] # None, NEW k, k = active[x]
  PROVE  CountersMatchLeases' /\ AdmissibleLimit'
<1> DEFINE Of(q) == {y \in LiveLeases : ProjectOf[y] = q}
<1>1. /\ active' = [active EXCEPT ![x] = None]
      /\ perIntegration' = [perIntegration EXCEPT ![k] = IF @ = 0 THEN 0 ELSE @ - 1]
      /\ perProject' = [perProject EXCEPT ![ProjectOf[x]] = IF @ = 0 THEN 0 ELSE @ - 1]
      /\ activeGlobal' = IF activeGlobal = 0 THEN 0 ELSE activeGlobal - 1
  BY DEF releaseSlot
<1>2. /\ active \in [Calls -> Keys \cup {None}] /\ perIntegration \in [Keys -> Nat]
      /\ perProject \in [Projects -> Nat] /\ activeGlobal \in Nat
  BY DEF CInv, LInv, TInv, TypeOK
<1>3. k \in Keys /\ k # None /\ ProjectOf[x] \in Projects /\ None \notin Keys
  BY <1>2, ConstantsAssumption
<1>4. /\ Holders(k)' = Holders(k) \ {x} /\ x \in Holders(k)
      /\ \A j \in Keys \ {k} : Holders(j)' = Holders(j)
      /\ LiveLeases' = LiveLeases \ {x} /\ x \in LiveLeases
  BY <1>1, <1>2, <1>3 DEF Holders, LiveLeases
<1>5. /\ {y \in LiveLeases' : ProjectOf[y] = ProjectOf[x]} = Of(ProjectOf[x]) \ {x}
      /\ x \in Of(ProjectOf[x])
      /\ \A q \in Projects \ {ProjectOf[x]} : {y \in LiveLeases' : ProjectOf[y] = q} = Of(q)
  BY <1>4
<1>6. /\ IsFiniteSet(Holders(k)) /\ IsFiniteSet(LiveLeases) /\ IsFiniteSet(Of(ProjectOf[x]))
  BY FiniteLeases DEF Holders, LiveLeases
<1>7. /\ Cardinality(Holders(k) \ {x}) = Cardinality(Holders(k)) - 1
      /\ Cardinality(LiveLeases \ {x}) = Cardinality(LiveLeases) - 1
      /\ Cardinality(Of(ProjectOf[x]) \ {x}) = Cardinality(Of(ProjectOf[x])) - 1
  BY <1>4, <1>5, <1>6, FS_RemoveElement
<1>8. /\ Cardinality(Holders(k)) # 0 /\ Cardinality(LiveLeases) # 0 /\ Cardinality(Of(ProjectOf[x])) # 0
  BY <1>4, <1>5, <1>6, FS_EmptySet
<1>9. CountersMatchLeases
  BY DEF CInv
<1>10. \A q \in Projects : perProject[q] = Cardinality(Of(q))
  BY <1>9 DEF CountersMatchLeases
<1>11. \A j \in Keys : perIntegration[j] = Cardinality(Holders(j))
  BY <1>9 DEF CountersMatchLeases
<1> HIDE DEF Of
<1>12. \A j \in Keys : perIntegration'[j] = Cardinality(Holders(j)')
  BY <1>1, <1>2, <1>3, <1>4, <1>7, <1>8, <1>11
<1>13. \A q \in Projects : perProject'[q] = Cardinality({y \in LiveLeases' : ProjectOf[y] = q})
  BY <1>1, <1>2, <1>3, <1>5, <1>7, <1>8, <1>10
<1>14. activeGlobal' = Cardinality(LiveLeases')
  BY <1>1, <1>4, <1>7, <1>8, <1>9 DEF CountersMatchLeases
<1>15. \A j \in Keys : perIntegration'[j] <= perIntegration[j] /\ perIntegration'[j] \in Nat
  BY <1>1, <1>2, <1>3
<1>16. AdmissibleLimit'
  <2> SUFFICES ASSUME NEW j \in Keys, perIntegration'[j] > 0
               PROVE \E a \in Agents : \E r \in Admissible[a] :
                       limitsOf(a, r).key = j /\ perIntegration'[j] <= limitsOf(a, r).max
    BY DEF AdmissibleLimit
  <2>1. perIntegration[j] > 0 /\ perIntegration[j] \in Nat
    BY <1>2, <1>15
  <2>2. PICK a \in Agents : \E r \in Admissible[a] :
          limitsOf(a, r).key = j /\ perIntegration[j] <= limitsOf(a, r).max
    BY <2>1 DEF CInv, AdmissibleLimit
  <2>3. PICK r \in Admissible[a] : limitsOf(a, r).key = j /\ perIntegration[j] <= limitsOf(a, r).max
    BY <2>2
  <2>4. limitsOf(a, r).max \in Nat
    BY LimitsType
  <2> QED
    BY <1>15, <2>1, <2>3, <2>4
<1> QED
  BY <1>12, <1>13, <1>14, <1>16 DEF CountersMatchLeases

LEMMA CInvInit == Init => CInv
<1> SUFFICES ASSUME Init PROVE CInv
  OBVIOUS
<1>1. LiveLeases = {} /\ \A k \in Keys : Holders(k) = {}
  BY ConstantsAssumption DEF Init, LiveLeases, Holders
<1>2. \A p \in Projects : {x \in LiveLeases : ProjectOf[x] = p} = {}
  BY <1>1
<1>3. /\ Cardinality({}) = 0
      /\ \A k \in Keys : perIntegration[k] = 0
      /\ \A p \in Projects : perProject[p] = 0
      /\ activeGlobal = 0
  BY FS_EmptySet DEF Init
<1>4. CountersMatchLeases /\ AdmissibleLimit
  BY <1>1, <1>2, <1>3 DEF CountersMatchLeases, AdmissibleLimit
<1> QED
  BY <1>4, LInvInit DEF CInv

LEMMA CInvNext == CInv /\ [Next]_vars => CInv'
<1> SUFFICES ASSUME CInv, [Next]_vars PROVE CInv'
  OBVIOUS
<1>1. LInv /\ LInv'
  BY LInvNext DEF CInv
<1>2. CASE UNCHANGED countVars
  <2>1. CountersMatchLeases' /\ AdmissibleLimit'
    BY <1>2 DEF CInv, countVars, CountersMatchLeases, AdmissibleLimit, Holders, LiveLeases
  <2> QED
    BY <1>1, <2>1 DEF CInv
<1>3. CASE \E p \in Procs : Reserve(p) /\ ~UNCHANGED countVars
  BY <1>1, <1>3, ReserveCounts DEF CInv
<1>4. CASE \E x \in Calls : releaseSlot(x) /\ active[x] # None
  BY <1>1, <1>4, ReleaseCounts DEF CInv
<1> QED
  BY <1>1, <1>2, <1>3, <1>4, CountSteps

\* The tracker's counters always equal the live leases: per integration key,
\* per project and in total.
THEOREM CountersExact == Spec => []CountersMatchLeases
<1>1. CInv => CountersMatchLeases
  BY DEF CInv
<1> QED
  BY <1>1, CInvInit, CInvNext, PTL DEF Spec

-----------------------------------------------------------------------------
(* The limits configured.                                                  *)

\* The limits a process has loaded for the call it serves.
LoadedFor(p) == LET a == AgentOf[frame[p].cur] IN limitsOf(a, store[a])

\* Until an edit, what the cache answers and what a process has loaded is what
\* the store has, and the counters keep to it.
NowInv ==
  edits = 0 =>
    /\ cache = store
    /\ \A p \in Procs : frame[p].pc \in {"scan", "scanned"} => frame[p].lim = LoadedFor(p)
    /\ ConfiguredLimit

NInv == CInv /\ NowInv

\* Every frame is as it was or is at a place where no limit is held.
Restarts == \A p \in Procs : frame'[p] = frame[p] \/ frame'[p].pc \in {"off", "limits", "slot"}

\* The drain loop starts its next acquireSlot from scratch.
LEMMA AdvanceRestarts ==
  ASSUME frame \in [Procs -> Frames], NEW q, NEW st, NEW i, NEW progress, NEW requested,
         Advance(q, st, i, progress, requested)
  PROVE  Restarts
<1>1. \E g : frame' = [frame EXCEPT ![Drain] = g] /\ g.pc \in {"off", "limits"}
  <2>1. \A x : slotFrame(x).pc = "limits"
    BY DEF slotFrame, idleFrame
  <2>2. idleFrame.pc = "off"
    BY DEF idleFrame
  <2>3. \E c, x : frame' = [frame EXCEPT ![Drain] = IF c THEN slotFrame(x) ELSE idleFrame]
    BY DEF Advance
  <2> QED
    BY <2>1, <2>2, <2>3
<1> QED
  BY <1>1 DEF Restarts

\* So does every step that is not one of acquireSlot.
LEMMA OtherRestarts ==
  ASSUME TypeOK, [Next]_vars, ~ \E p \in Procs : LimitsLoaded(p) \/ ScanLoaded(p)
  PROVE  Restarts
<1>t. frame \in [Procs -> Frames] /\ Callers \subseteq Procs
  BY DEF TypeOK, Procs
<1>1. ASSUME NEW p \in Procs, LoadFails(p) \/ Reserve(p) PROVE Restarts
  BY <1>1, <1>t DEF LoadFails, Reserve, Restarts, Frames
<1>2. ASSUME DrainStep PROVE Restarts
  BY <1>2, <1>t, AdvanceRestarts DEF DrainStep, DrainError, DrainSettled, DrainNone, DrainGrant
<1>3. ASSUME NEW q, NEW st, drainPendingAcquisitions(q, st) PROVE Restarts
  BY <1>3, <1>t, AdvanceRestarts DEF drainPendingAcquisitions, Restarts
<1>4. ASSUME NEW w \in Waiters, acquireWhenAvailable(w) \/ acquireAborted(w) \/ onAbort(w)
      PROVE  Restarts
  BY <1>3, <1>4 DEF acquireWhenAvailable, acquireAborted, onAbort, Restarts
<1>5. ASSUME NEW c \in Callers, acquire(c) \/ acquireReturns(c) PROVE Restarts
  <2>1. slotFrame(c).pc = "limits" /\ idleFrame.pc = "off"
    BY DEF slotFrame, idleFrame
  <2> QED
    BY <1>5, <1>t, <2>1 DEF acquire, acquireReturns, Restarts
<1>6. ASSUME NEW x \in Calls, release(x) PROVE Restarts
  BY <1>3, <1>6 DEF release
<1>7. ASSUME (\E a \in Agents : updateAgent(a)) \/ UNCHANGED vars PROVE Restarts
  BY <1>7 DEF updateAgent, vars, Restarts
<1> QED
  BY <1>1, <1>2, <1>4, <1>5, <1>6, <1>7 DEF Next, AcquireSlotStep

\* Before the first edit, what a lookup answers is what the store has.
LEMMA LoadedNow ==
  ASSUME NInv, edits = 0, NEW p \in Procs, LimitsLoaded(p) \/ ScanLoaded(p), store' = store
  PROVE  /\ cache' = store'
         /\ \A y \in Procs : frame'[y].pc \in {"scan", "scanned"} => frame'[y].lim = LoadedFor(y)'
<1>t. /\ frame \in [Procs -> Frames] /\ frame[p] \in Frames /\ cache = store
      /\ frame[p].pc # "off" => frame[p].cur \in Calls
      /\ store \in [Agents -> Recs] /\ TypeOK
      /\ \A y \in Procs : frame[y].pc \in {"scan", "scanned"} => frame[y].lim = LoadedFor(y)
  BY Processes DEF NInv, NowInv, CInv, LInv, TInv, TypeOK
<1>u. \A y \in Procs \ {p} : frame'[y] = frame[y]
  BY <1>t DEF LimitsLoaded, ScanLoaded
<1>g. ASSUME frame'[p].lim = LoadedFor(p), frame'[p].cur = frame[p].cur
      PROVE  \A y \in Procs : frame'[y].pc \in {"scan", "scanned"} => frame'[y].lim = LoadedFor(y)'
  BY <1>g, <1>t, <1>u DEF LoadedFor
<1>1. CASE LimitsLoaded(p)
  <2> DEFINE a == AgentOf[frame[p].cur]
             f == [frame[p] EXCEPT !.lim = limitsOf(a, store[a])]
  <2>1. a \in Agents /\ store[a] \in Admissible[a]
    BY <1>t, <1>1, ConstantsAssumption DEF LimitsLoaded, TypeOK
  <2>2. cache' = [cache EXCEPT ![a] = store[a]] /\ frame' = [frame EXCEPT ![p] = Scan(f, 1)]
    BY <1>t, <1>1 DEF LimitsLoaded, Readable
  <2>3. f \in Frames /\ f.cur = frame[p].cur /\ f.lim = limitsOf(a, store[a])
    BY <1>t, <2>1, LimitsType DEF Frames
  <2>4. cache' = store'
    BY <1>t, <2>1, <2>2
  <2>5. limitsOf(a, store[a]) = LoadedFor(p)
    BY DEF LoadedFor
  <2> HIDE DEF f
  <2>6. Scan(f, 1).cur = frame[p].cur /\ Scan(f, 1).lim = limitsOf(a, store[a])
    BY <1>t, <2>3, ScanType
  <2>7. frame'[p] = Scan(f, 1)
    BY <1>t, <2>2
  <2> QED
    BY <1>g, <2>4, <2>5, <2>6, <2>7
<1>2. CASE ScanLoaded(p)
  <2> DEFINE a == AgentOf[frame[p].seen]
             h == [frame[p] EXCEPT !.pc = "scanned", !.earlier = TRUE]
             k == Scan(frame[p], frame[p].pos + 1)
  <2>1. frame[p].pc = "scan" /\ frame'[p] \in {h, k} /\ cache' = [cache EXCEPT ![a] = store[a]]
    BY <1>t, <1>2 DEF ScanLoaded, Readable
  <2>2. frame[p].seen \in Waiters
    BY <2>1 DEF NInv, CInv, LInv, TInv, FrameInv, FrameOK
  <2>3. a \in Agents
    BY <2>2, ConstantsAssumption DEF Calls
  <2>4. cache' = store'
    BY <1>t, <2>1, <2>3
  <2>5. frame[p].pos + 1 \in Nat /\ frame[p].pos + 1 >= 1
    BY <1>t DEF Frames
  <2>6. h.cur = frame[p].cur /\ h.lim = frame[p].lim
    BY <1>t DEF Frames
  <2>7. k.cur = frame[p].cur /\ k.lim = frame[p].lim
    BY <1>t, <2>5, ScanType
  <2>8. frame[p].lim = LoadedFor(p)
    BY <1>t, <2>1
  <2> HIDE DEF h, k
  <2> QED
    BY <1>g, <2>1, <2>4, <2>6, <2>7, <2>8
<1> QED
  BY <1>1, <1>2

\* Before the first edit a slot is counted within a limit that is configured,
\* and a release only lowers a count.
LEMMA CountsNow ==
  ASSUME NInv, edits = 0, [Next]_vars, store' = store
  PROVE  ConfiguredLimit'
<1>t. /\ perIntegration \in [Keys -> Nat] /\ active \in [Calls -> Keys \cup {None}]
      /\ \A a \in Agents : store[a] \in Admissible[a]
      /\ ConfiguredLimit
  BY DEF NInv, NowInv, CInv, LInv, TInv, TypeOK
<1>1. CASE UNCHANGED countVars
  BY <1>1, <1>t DEF countVars, ConfiguredLimit
<1>2. ASSUME NEW p \in Procs, Reserve(p), ~UNCHANGED countVars PROVE ConfiguredLimit'
  <2> DEFINE a == AgentOf[frame[p].cur]
             k == frame[p].lim.key
  <2>1. /\ frame[p].pc = "scanned" /\ check(frame[p].lim)
        /\ perIntegration' = [perIntegration EXCEPT ![k] = @ + 1]
    BY <1>2 DEF Reserve
  <2>2. frame[p].cur \in Calls /\ frame[p].lim = limitsOf(a, store[a])
    BY <2>1, Processes DEF NInv, NowInv, LoadedFor, CInv, LInv
  <2>3. a \in Agents
    BY <2>2, ConstantsAssumption
  <2>4. k \in Keys /\ frame[p].lim.max \in Nat
    BY <1>t, <2>2, <2>3, LimitsType
  <2>5. perIntegration'[k] <= frame[p].lim.max
    BY <1>t, <2>1, <2>4 DEF check
  <2>6. \A j \in Keys \ {k} : perIntegration'[j] = perIntegration[j]
    BY <1>t, <2>1
  <2>7. limitsOf(a, store'[a]).key = k /\ perIntegration'[k] <= limitsOf(a, store'[a]).max
    BY <2>2, <2>5
  <2> HIDE DEF a
  <2> HIDE DEF k
  <2> QED
    BY <1>t, <2>3, <2>6, <2>7 DEF ConfiguredLimit
<1>3. ASSUME NEW x \in Calls, releaseSlot(x), active[x] # None PROVE ConfiguredLimit'
  <2>1. active[x] \in Keys
        /\ perIntegration' = [perIntegration EXCEPT ![active[x]] = IF @ = 0 THEN 0 ELSE @ - 1]
    BY <1>3, <1>t DEF releaseSlot
  <2>2. \A j \in Keys : perIntegration'[j] <= perIntegration[j] /\ perIntegration'[j] \in Nat
    BY <1>t, <2>1
  <2> SUFFICES ASSUME NEW j \in Keys, perIntegration'[j] > 0
               PROVE  \E b \in Agents : /\ limitsOf(b, store[b]).key = j
                                        /\ perIntegration'[j] <= limitsOf(b, store[b]).max
    BY DEF ConfiguredLimit
  <2>3. perIntegration[j] > 0 /\ perIntegration[j] \in Nat
    BY <1>t, <2>2
  <2>4. PICK b \in Agents : limitsOf(b, store[b]).key = j /\ perIntegration[j] <= limitsOf(b, store[b]).max
    BY <1>t, <2>3 DEF ConfiguredLimit
  <2>5. limitsOf(b, store[b]).max \in Nat
    BY <1>t, LimitsType
  <2> QED
    BY <2>2, <2>3, <2>4, <2>5
<1>4. LInv
  BY DEF NInv, CInv
<1> QED
  BY <1>1, <1>2, <1>3, <1>4, CountSteps

LEMMA NInvInit == Init => NInv
<1> SUFFICES ASSUME Init PROVE NInv
  OBVIOUS
<1>1. \A p \in Procs : frame[p].pc = "off"
  BY FrameTypes DEF Init
<1>2. \A k \in Keys : perIntegration[k] = 0
  BY DEF Init
<1>3. cache = store
  BY DEF Init
<1> QED
  BY <1>1, <1>2, <1>3, CInvInit DEF NInv, NowInv, ConfiguredLimit

LEMMA NInvNext == NInv /\ [Next]_vars => NInv'
<1> SUFFICES ASSUME NInv, [Next]_vars, edits' = 0 PROVE NowInv'
  BY CInvNext DEF NInv, NowInv
<1>t. edits \in Nat /\ TypeOK
  BY ConstantsAssumption DEF NInv, CInv, LInv, TInv, TypeOK
<1>1. edits' = edits + 1 \/ (edits' = edits /\ store' = store)
  <2>1. ASSUME NEW p \in Procs, AcquireSlotStep(p) PROVE UNCHANGED <<edits, store>>
    BY <2>1 DEF AcquireSlotStep, LimitsLoaded, ScanLoaded, Reserve, LoadFails, configVars
  <2>2. ASSUME DrainStep PROVE UNCHANGED <<edits, store>>
    BY <2>2 DEF DrainStep, DrainError, DrainSettled, DrainNone, DrainGrant, configVars
  <2>3. ASSUME NEW w \in Waiters, acquireWhenAvailable(w) \/ acquireAborted(w) \/ onAbort(w)
        PROVE  UNCHANGED <<edits, store>>
    BY <2>3 DEF acquireWhenAvailable, acquireAborted, onAbort, configVars
  <2>4. ASSUME NEW c \in Callers, acquire(c) \/ acquireReturns(c) PROVE UNCHANGED <<edits, store>>
    BY <2>4 DEF acquire, acquireReturns, configVars
  <2>5. ASSUME NEW x \in Calls, release(x) PROVE UNCHANGED <<edits, store>>
    BY <2>5 DEF release, configVars
  <2>6. ASSUME NEW a \in Agents, updateAgent(a) PROVE edits' = edits + 1
    BY <2>6 DEF updateAgent
  <2>7. ASSUME UNCHANGED vars PROVE UNCHANGED <<edits, store>>
    BY <2>7 DEF vars, configVars
  <2> QED
    BY <2>1, <2>2, <2>3, <2>4, <2>5, <2>6, <2>7 DEF Next
<1>2. edits = 0 /\ store' = store
  BY <1>1, <1>t
<1>3. ConfiguredLimit'
  BY <1>2, CountsNow
<1>4. CASE \E p \in Procs : LimitsLoaded(p) \/ ScanLoaded(p)
  BY <1>2, <1>3, <1>4, LoadedNow DEF NowInv
<1>5. CASE ~ \E p \in Procs : LimitsLoaded(p) \/ ScanLoaded(p)
  <2>1. cache' = cache
    BY <1>2, <1>5 DEF Next, AcquireSlotStep, Reserve, LoadFails, DrainStep, DrainError,
       DrainSettled, DrainNone, DrainGrant, acquireWhenAvailable, acquireAborted, onAbort, acquire,
       acquireReturns, release, updateAgent, configVars, vars
  <2>2. Restarts
    BY <1>t, <1>5, OtherRestarts
  <2>3. /\ cache = store
        /\ \A p \in Procs : frame[p].pc \in {"scan", "scanned"} => frame[p].lim = LoadedFor(p)
    BY <1>2 DEF NInv, NowInv
  <2>4. \A p \in Procs : frame'[p].pc \in {"scan", "scanned"} => frame'[p].lim = LoadedFor(p)'
    BY <1>2, <2>2, <2>3 DEF Restarts, LoadedFor
  <2> QED
    BY <1>2, <1>3, <2>1, <2>3, <2>4 DEF NowInv
<1> QED
  BY <1>4, <1>5

\* No integration key ever has more live leases than the limit of one of its
\* agents: a configured one until records are edited, then one that an agent
\* of the key may have had, although limits are loaded before the awaits that
\* precede the check.
THEOREM LimitsHold == Spec => []SlotLimit
<1>1. NInv => SlotLimit
  BY DEF NInv, NowInv, CInv, SlotLimit
<1> QED
  BY <1>1, NInvInit, NInvNext, PTL DEF Spec

-----------------------------------------------------------------------------
(* The tracker implements SlotPool.                                        *)

\* The calls that have been made, among those that queue.
Asked == {w \in Waiters : call[w] # "idle"}

\* Only calls that have been made are queued or served, the limit a process
\* checks is one of its own call's agent, and a granted call holds a slot.
PoolInv ==
  /\ queue \in Seq(Asked)
  /\ frame[Drain].pc # "off" => frame[Drain].cur \in Asked
  /\ \A p \in Procs : frame[p].pc \in {"scan", "scanned"} => frame[p].lim \in LimitsFor(frame[p].cur)
  /\ \A x \in Calls : call[x] = "granted" => active[x] # None

PInv == CInv /\ PoolInv

\* A call that is made stays made, so a sequence of such calls stays one.
LEMMA AskedGrows ==
  ASSUME TInv, TInv', NEW q \in Seq(Asked), \A w \in Waiters : call[w] # "idle" => call'[w] # "idle"
  PROVE  q \in Seq(Asked')
<1>1. Len(q) \in Nat /\ DOMAIN q = 1 .. Len(q) /\ q = [i \in 1 .. Len(q) |-> q[i]]
  BY LenProperties, SeqDef
<1>2. \A i \in 1 .. Len(q) : q[i] \in Asked
  BY ElementOfSeq
<1>3. \A i \in 1 .. Len(q) : q[i] \in Asked'
  BY <1>2 DEF Asked
<1> QED BY <1>1, <1>3, SeqDef

\* A turn of the drain loop keeps to the calls that have been made.
LEMMA AskedTurn ==
  ASSUME TInv, NEW W, W = Asked', NEW q \in Seq(W), NEW st, NEW i \in 1 .. Len(q) + 1,
         NEW progress \in BOOLEAN, NEW requested \in BOOLEAN,
         Advance(q, st, i, progress, requested)
  PROVE  /\ queue' \in Seq(Asked')
         /\ \A p \in Procs \ {Drain} : frame'[p] = frame[p]
         /\ \/ frame'[Drain].pc = "off"
            \/ /\ frame'[Drain].pc = "limits" /\ frame'[Drain].cur \in Asked'
               /\ ~settled(st, frame'[Drain].cur)
<1>1. /\ queue' \in Seq(W)
      /\ \/ frame' = [frame EXCEPT ![Drain] = idleFrame]
         \/ \E w \in W : ~settled(st, w) /\ frame' = [frame EXCEPT ![Drain] = slotFrame(w)]
  <2>1. /\ queue' \in Seq(W)
        /\ drain' \in [on : BOOLEAN, idx : Nat, progress : BOOLEAN, requested : BOOLEAN]
        /\ drain'.on => drain'.idx \in DOMAIN queue'
        /\ \/ ~drain'.on /\ frame' = [frame EXCEPT ![Drain] = idleFrame]
           \/ drain'.on /\ \E w \in W :
                ~settled(st, w) /\ frame' = [frame EXCEPT ![Drain] = slotFrame(w)]
    BY AdvanceOver
  <2> QED BY <2>1
<1>2. frame \in [Procs -> Frames] /\ Drain \in Procs /\ \A w \in W : w \in Calls
  BY Processes DEF Asked
<1>3. CASE frame' = [frame EXCEPT ![Drain] = idleFrame]
  BY <1>1, <1>2, <1>3, FrameTypes
<1>4. ASSUME NEW w \in W, ~settled(st, w), frame' = [frame EXCEPT ![Drain] = slotFrame(w)]
      PROVE  /\ \A p \in Procs \ {Drain} : frame'[p] = frame[p]
             /\ frame'[Drain].pc = "limits" /\ frame'[Drain].cur = w
  BY <1>2, <1>4, FrameTypes
<1> QED BY <1>1, <1>3, <1>4

\* The same for a call of drainPendingAcquisitions.
LEMMA AskedCall ==
  ASSUME TInv, NEW W, W = Asked', NEW q \in Seq(W), NEW st, drainPendingAcquisitions(q, st)
  PROVE  /\ queue' \in Seq(Asked')
         /\ \A p \in Procs \ {Drain} : frame'[p] = frame[p]
         /\ \/ drain.on /\ frame'[Drain] = frame[Drain]
            \/ ~drain.on /\ frame'[Drain].pc = "off"
            \/ /\ ~drain.on /\ frame'[Drain].pc = "limits" /\ frame'[Drain].cur \in Asked'
               /\ ~settled(st, frame'[Drain].cur)
<1>1. CASE drain.on
  BY <1>1 DEF drainPendingAcquisitions
<1>2. CASE ~drain.on
  <2>1. Advance(q, st, 1, FALSE, FALSE)
    BY <1>2 DEF drainPendingAcquisitions
  <2>2. Len(q) \in Nat
    BY LenProperties
  <2>3. 1 \in 1 .. Len(q) + 1
    BY <2>2
  <2>4. /\ queue' \in Seq(Asked')
        /\ \A p \in Procs \ {Drain} : frame'[p] = frame[p]
        /\ \/ frame'[Drain].pc = "off"
           \/ /\ frame'[Drain].pc = "limits" /\ frame'[Drain].cur \in Asked'
              /\ ~settled(st, frame'[Drain].cur)
    BY <2>1, <2>3, AskedTurn
  <2> QED BY <1>2, <2>4
<1> QED BY <1>1, <1>2

\* A step inside acquireSlot, with or without a reservation, as callers see it.
Serves(p) ==
  /\ UNCHANGED <<queue, call>>
  /\ \A y \in Procs \ {p} : frame'[y] = frame[y]
  /\ frame[p].pc # "off" /\ frame'[p].pc # "off" /\ frame'[p].cur = frame[p].cur
  /\ frame'[p].pc \in {"scan", "scanned"} => frame'[p].lim \in LimitsFor(frame[p].cur)
  /\ \/ UNCHANGED active
     \/ /\ frame[p].pc = "scanned" /\ check(frame[p].lim)
        /\ active' = [active EXCEPT ![frame[p].cur] = frame[p].lim.key]

\* Every step inside acquireSlot is such a step.
LEMMA SlotStepServes ==
  ASSUME PInv, NEW p \in Procs, AcquireSlotStep(p)
  PROVE  Serves(p)
<1>t. /\ frame \in [Procs -> Frames] /\ frame[p] \in Frames
      /\ frame[p].pc # "off" => frame[p].cur \in Calls
  BY Processes DEF PInv, CInv, LInv
<1>1. ASSUME LimitsLoaded(p) PROVE Serves(p)
  <2> DEFINE a == AgentOf[frame[p].cur]
  <2>1. PICK r \in Readable(a) :
          frame' = [frame EXCEPT ![p] = Scan([frame[p] EXCEPT !.lim = limitsOf(a, r)], 1)]
    BY <1>1 DEF LimitsLoaded
  <2> DEFINE f == [frame[p] EXCEPT !.lim = limitsOf(a, r)]
  <2>2. frame[p].pc = "limits" /\ UNCHANGED <<queue, call, active>>
    BY <1>1 DEF LimitsLoaded, countVars
  <2>3. a \in Agents /\ r \in Admissible[a]
    BY <1>t, <2>2, ConstantsAssumption DEF Readable, PInv, CInv, LInv, TInv, TypeOK
  <2>4. f \in Frames /\ f.cur = frame[p].cur /\ f.lim = limitsOf(a, r)
    BY <1>t, <2>3, LimitsType DEF Frames
  <2> HIDE DEF f
  <2>5. Scan(f, 1).pc \in {"scan", "scanned"} /\ Scan(f, 1).cur = frame[p].cur
        /\ Scan(f, 1).lim = limitsOf(a, r)
    BY <2>4, ScanType DEF PInv, CInv, LInv, TInv
  <2>6. frame'[p] = Scan(f, 1) /\ \A y \in Procs \ {p} : frame'[y] = frame[y]
    BY <1>t, <2>1 DEF f
  <2>7. limitsOf(a, r) \in LimitsFor(frame[p].cur)
    BY <2>3 DEF LimitsFor
  <2> QED BY <2>2, <2>5, <2>6, <2>7 DEF Serves
<1>2. ASSUME ScanLoaded(p) PROVE Serves(p)
  <2> DEFINE h == [frame[p] EXCEPT !.pc = "scanned", !.earlier = TRUE]
             k == Scan(frame[p], frame[p].pos + 1)
  <2>1. frame[p].pc = "scan" /\ UNCHANGED <<queue, call, active>>
    BY <1>2 DEF ScanLoaded, countVars
  <2>2. \/ frame' = [frame EXCEPT ![p] = h]
        \/ frame' = [frame EXCEPT ![p] = k]
    BY <1>2 DEF ScanLoaded
  <2>3. frame[p].pos + 1 \in Nat /\ frame[p].pos + 1 >= 1
    BY <1>t DEF Frames
  <2>4. h.pc = "scanned" /\ h.cur = frame[p].cur /\ h.lim = frame[p].lim
    BY <1>t DEF Frames
  <2>5. k.pc \in {"scan", "scanned"} /\ k.cur = frame[p].cur /\ k.lim = frame[p].lim
    BY <1>t, <2>3, ScanType DEF PInv, CInv, LInv, TInv
  <2>6. frame[p].lim \in LimitsFor(frame[p].cur)
    BY <2>1 DEF PInv, PoolInv
  <2> HIDE DEF h, k
  <2>7. frame'[p] \in {h, k} /\ \A y \in Procs \ {p} : frame'[y] = frame[y]
    BY <1>t, <2>2
  <2> QED BY <2>1, <2>4, <2>5, <2>6, <2>7 DEF Serves
<1>3. ASSUME LoadFails(p) PROVE Serves(p)
  <2>1. /\ frame'[p].pc = "slot" /\ frame'[p].cur = frame[p].cur /\ frame[p].pc # "off"
        /\ \A y \in Procs \ {p} : frame'[y] = frame[y]
    BY <1>3, <1>t DEF LoadFails, Frames
  <2> QED BY <1>3, <2>1 DEF Serves, LoadFails, countVars
<1>4. ASSUME Reserve(p) PROVE Serves(p)
  <2>1. /\ frame'[p].pc = "slot" /\ frame'[p].cur = frame[p].cur /\ frame[p].pc = "scanned"
        /\ \A y \in Procs \ {p} : frame'[y] = frame[y]
    BY <1>4, <1>t DEF Reserve, Frames
  <2>2. \/ UNCHANGED active
        \/ check(frame[p].lim) /\ active' = [active EXCEPT ![frame[p].cur] = frame[p].lim.key]
    BY <1>4 DEF Reserve, countVars
  <2> QED BY <1>4, <2>1, <2>2 DEF Serves, Reserve
<1> QED BY <1>1, <1>2, <1>3, <1>4 DEF AcquireSlotStep

LEMMA PInvInit == Init => PInv
<1> SUFFICES ASSUME Init PROVE PInv
  OBVIOUS
<1>1. queue \in Seq(Asked)
  BY EmptySeq DEF Init
<1>2. \A p \in Procs : frame[p].pc = "off"
  BY FrameTypes DEF Init
<1>3. Drain \in Procs /\ \A x \in Calls : call[x] = "idle"
  BY DEF Init, Procs
<1> QED BY <1>1, <1>2, <1>3, CInvInit DEF PInv, PoolInv

\* The induction step: one case per way the queue and the frames move.
LEMMA PInvNext == PInv /\ [Next]_vars => PInv'
<1> SUFFICES ASSUME PInv, [Next]_vars PROVE PoolInv'
  BY CInvNext DEF PInv
<1>0. /\ TInv /\ TInv' /\ LeaseInv
      /\ queue \in Seq(Asked)
      /\ frame[Drain].pc # "off" => frame[Drain].cur \in Asked
      /\ \A p \in Procs : frame[p].pc \in {"scan", "scanned"} => frame[p].lim \in LimitsFor(frame[p].cur)
      /\ \A x \in Calls : call[x] = "granted" => active[x] # None
  BY CInvNext DEF PInv, PoolInv, CInv, LInv
<1>t. /\ frame \in [Procs -> Frames] /\ Drain \in Procs /\ Waiters \subseteq Calls /\ Callers \subseteq Calls
      /\ \A c \in Callers : c \in Procs /\ c # Drain /\ c \notin Waiters
      /\ \A p \in Procs \ {Drain} : p \in Callers
      /\ \A p \in Procs : frame[p].pc # "off" =>
           frame[p].cur \in Calls /\ frame[p].cur \in (IF p = Drain THEN Waiters ELSE {p})
      /\ call \in [Calls -> {"idle", "waiting", "granted", "released", "rejected"}]
      /\ active \in [Calls -> Keys \cup {None}]
      /\ Len(queue) \in Nat
  BY Processes, <1>0
<1>i. \A p \in Procs : frame[p].pc # "off" =>
        /\ call[frame[p].cur] \in {"idle", "waiting", "rejected"}
        /\ active[frame[p].cur] # None <=> (frame[p].pc = "slot" /\ frame[p].result = "lease")
  BY <1>0 DEF LeaseInv
<1>k. ASSUME \A w \in Waiters : call[w] # "idle" => call'[w] # "idle",
             \A x \in Calls : call'[x] = "granted" => active'[x] # None,
             queue' \in Seq(Asked'),
             \A p \in Procs \ {Drain} : frame'[p] = frame[p] \/ frame'[p].pc \in {"off", "limits"},
             \/ frame'[Drain] = frame[Drain] \/ frame'[Drain].pc = "off"
             \/ frame'[Drain].pc = "limits" /\ frame'[Drain].cur \in Asked'
      PROVE  PoolInv'
  <2>1. frame'[Drain].pc # "off" => frame'[Drain].cur \in Asked'
    BY <1>k, <1>0 DEF Asked
  <2>2. \A p \in Procs : frame'[p].pc \in {"scan", "scanned"} => frame'[p].lim \in LimitsFor(frame'[p].cur)
    BY <1>k, <1>0
  <2> QED BY <1>k, <2>1, <2>2 DEF PoolInv, LimitsFor
<1>1. ASSUME NEW p \in Procs, AcquireSlotStep(p) PROVE PoolInv'
  <2>1. Serves(p)
    BY <1>1, SlotStepServes
  <2>2. queue' \in Seq(Asked') /\ Asked' = Asked
    <3>1. queue' = queue /\ call' = call
      BY <2>1 DEF Serves
    <3>2. Asked' = Asked
      BY <3>1 DEF Asked
    <3>3. queue \in Seq(Asked)
      BY <1>0
    <3> QED BY ONLY <3>1, <3>2, <3>3
  <2>3. frame'[Drain].pc # "off" => frame'[Drain].cur \in Asked'
    <3>1. frame'[Drain].pc # "off" => frame[Drain].pc # "off" /\ frame'[Drain].cur = frame[Drain].cur
      BY <2>1, <1>t DEF Serves
    <3> QED BY <3>1, <2>2, <1>0
  <2>4. \A q \in Procs : frame'[q].pc \in {"scan", "scanned"} => frame'[q].lim \in LimitsFor(frame'[q].cur)
    BY <2>1, <1>0 DEF Serves
  <2>5. \A x \in Calls : call'[x] = "granted" => active'[x] # None
    BY <2>1, <1>0, <1>t, <1>i DEF Serves
  <2> QED BY <2>2, <2>3, <2>4, <2>5 DEF PoolInv, LimitsFor
<1>2. ASSUME DrainStep PROVE PoolInv'
  <2> DEFINE x == frame[Drain].cur
  <2>1. /\ frame[Drain].pc = "slot" /\ drain.on /\ x \in Waiters /\ x \in Calls
        /\ call[x] \in {"waiting", "rejected"}
        /\ active[x] # None <=> frame[Drain].result = "lease"
    BY <1>2, <1>0, <1>t, <1>i DEF DrainStep, DrainError, DrainSettled, DrainNone, DrainGrant, TInv, FrameInv, Asked
  <2>2. /\ drain.idx \in 1 .. Len(queue) /\ drain.idx + 1 \in 1 .. Len(queue) + 1
        /\ drain.progress \in BOOLEAN /\ drain.requested \in BOOLEAN
        /\ RemoveIndex(queue, drain.idx) \in Seq(Asked)
        /\ drain.idx \in 1 .. Len(RemoveIndex(queue, drain.idx)) + 1
    BY <1>t, <1>0, <2>1, RemoveIndexType, LenProperties DEF TInv, TypeOK
  <2>3. /\ \A w \in Waiters : call[w] # "idle" => call'[w] # "idle"
        /\ \A y \in Calls \ {x} : call'[y] = call[y]
        /\ \A y \in Calls \ {x} : active'[y] = active[y]
        /\ call'[x] = "granted" => active'[x] # None
    <3>1. \/ UNCHANGED active
          \/ UNCHANGED call /\ active' = [active EXCEPT ![x] = None]
      BY <1>2 DEF DrainStep, DrainError, DrainSettled, DrainNone, DrainGrant, countVars, releaseSlot
    <3>2. \/ UNCHANGED call
          \/ call' = [call EXCEPT ![x] = IF @ = "waiting" THEN "rejected" ELSE @]
          \/ call' = [call EXCEPT ![x] = "granted"] /\ frame[Drain].result = "lease"
      BY <1>2 DEF DrainStep, DrainError, DrainSettled, DrainNone, DrainGrant
    <3>3. /\ call'[x] \in {"waiting", "rejected", "granted"}
          /\ \A y \in Calls \ {x} : call'[y] = call[y]
          /\ call'[x] = "granted" => frame[Drain].result = "lease" /\ call # call'
      BY <3>2, <1>t, <2>1
    <3>4. \A y \in Calls \ {x} : active'[y] = active[y]
      BY <3>1, <1>t
    <3> QED BY <3>1, <3>3, <3>4, <1>t, <2>1
  <2>4. queue \in Seq(Asked') /\ RemoveIndex(queue, drain.idx) \in Seq(Asked')
    BY <1>0, <2>2, <2>3, AskedGrows
  <2>5. \/ Advance(queue, call', drain.idx + 1, drain.progress, drain.requested)
        \/ \E b \in BOOLEAN : Advance(RemoveIndex(queue, drain.idx), call', drain.idx, b, drain.requested)
    BY <1>2, <2>2 DEF DrainStep, DrainError, DrainSettled, DrainNone, DrainGrant
  <2>6. /\ queue' \in Seq(Asked')
        /\ \A p \in Procs \ {Drain} : frame'[p] = frame[p]
        /\ \/ frame'[Drain].pc = "off"
           \/ /\ frame'[Drain].pc = "limits" /\ frame'[Drain].cur \in Asked'
              /\ ~settled(call', frame'[Drain].cur)
    <3>1. PICK W : W = Asked'
      OBVIOUS
    <3>2. CASE Advance(queue, call', drain.idx + 1, drain.progress, drain.requested)
      BY <1>0, <2>2, <2>4, <3>1, <3>2, AskedTurn
    <3>3. ASSUME NEW b \in BOOLEAN,
                 Advance(RemoveIndex(queue, drain.idx), call', drain.idx, b, drain.requested)
          PROVE  /\ queue' \in Seq(Asked')
                 /\ \A p \in Procs \ {Drain} : frame'[p] = frame[p]
                 /\ \/ frame'[Drain].pc = "off"
                    \/ /\ frame'[Drain].pc = "limits" /\ frame'[Drain].cur \in Asked'
                       /\ ~settled(call', frame'[Drain].cur)
      BY <1>0, <2>2, <2>4, <3>1, <3>3, AskedTurn
    <3> QED BY <2>5, <3>2, <3>3
  <2>7. \A y \in Calls : call'[y] = "granted" => active'[y] # None
    BY <2>3, <1>0
  <2> QED BY <2>3, <2>6, <2>7, <1>k
<1>3. ASSUME NEW q, q \in Seq(Asked'), drainPendingAcquisitions(q, call'),
             \A w \in Waiters : call[w] # "idle" => call'[w] # "idle",
             \A x \in Calls : call'[x] = "granted" => active'[x] # None
      PROVE  PoolInv'
  <2>1. PICK W : W = Asked'
    OBVIOUS
  <2>2. /\ queue' \in Seq(Asked')
        /\ \A p \in Procs \ {Drain} : frame'[p] = frame[p]
        /\ \/ drain.on /\ frame'[Drain] = frame[Drain]
           \/ ~drain.on /\ frame'[Drain].pc = "off"
           \/ /\ ~drain.on /\ frame'[Drain].pc = "limits" /\ frame'[Drain].cur \in Asked'
              /\ ~settled(call', frame'[Drain].cur)
    BY <1>0, <1>3, <2>1, AskedCall
  <2> QED BY <1>3, <2>2, <1>k
<1>4. ASSUME NEW w \in Waiters, acquireWhenAvailable(w) PROVE PoolInv'
  <2>1. /\ \A v \in Waiters : call[v] # "idle" => call'[v] # "idle"
        /\ \A x \in Calls : call'[x] = "granted" => active'[x] # None
        /\ w \in Asked'
    BY <1>4, <1>t, <1>0 DEF acquireWhenAvailable, countVars, Asked
  <2>2. PICK W : W = Asked'
    OBVIOUS
  <2>3. queue \in Seq(W) /\ w \in W
    BY <1>0, <2>1, <2>2, AskedGrows
  <2>4. insertAt(queue, w) \in Seq(W)
    BY <2>3, insertAtOver
  <2> QED BY <1>3, <1>4, <2>1, <2>2, <2>4 DEF acquireWhenAvailable
<1>5. ASSUME NEW w \in Waiters, onAbort(w) PROVE PoolInv'
  <2>1. /\ \A v \in Waiters : call[v] # "idle" => call'[v] # "idle"
        /\ \A x \in Calls : call'[x] = "granted" => active'[x] # None
    BY <1>5, <1>t, <1>0 DEF onAbort, countVars
  <2>2. queue \in Seq(Asked')
    BY <1>0, <2>1, AskedGrows
  <2> QED BY <1>3, <1>5, <2>1, <2>2 DEF onAbort
<1>6. ASSUME NEW x \in Calls, release(x) PROVE PoolInv'
  <2>1. /\ \A v \in Waiters : call[v] # "idle" => call'[v] # "idle"
        /\ \A y \in Calls : call'[y] = "granted" => active'[y] # None
    BY <1>6, <1>t, <1>0 DEF release, releaseSlot, countVars
  <2>2. queue \in Seq(Asked')
    BY <1>0, <2>1, AskedGrows
  <2> QED BY <1>3, <1>6, <2>1, <2>2 DEF release
<1>7. ASSUME NEW w \in Waiters, acquireAborted(w) PROVE PoolInv'
  <2>1. /\ \A v \in Waiters : call[v] # "idle" => call'[v] # "idle"
        /\ \A x \in Calls : call'[x] = "granted" => active'[x] # None
        /\ queue' = queue /\ frame' = frame
    BY <1>7, <1>t, <1>0 DEF acquireAborted, countVars
  <2>2. queue' \in Seq(Asked')
    BY <1>0, <2>1, AskedGrows
  <2> QED BY <1>k, <2>1, <2>2
<1>8. ASSUME NEW c \in Callers, acquire(c) \/ acquireReturns(c) PROVE PoolInv'
  <2>1. /\ \A v \in Waiters : call'[v] = call[v]
        /\ queue' = queue
        /\ \A p \in Procs : p = c \/ frame'[p] = frame[p]
        /\ frame'[c].pc \in {"off", "limits"}
        /\ c # Drain
    BY <1>8, <1>t, FrameTypes DEF acquire, acquireReturns
  <2>2. \A x \in Calls : call'[x] = "granted" => active'[x] # None
    <3>1. /\ \A x \in Calls \ {c} : call'[x] = call[x]
          /\ active' = active
          /\ call'[c] = "granted" => frame[c].pc = "slot" /\ frame[c].result = "lease"
      <4>1. CASE acquire(c)
        BY <4>1, <1>t DEF acquire, countVars
      <4>2. CASE acquireReturns(c)
        BY <4>2, <1>t DEF acquireReturns, countVars
      <4> QED BY <1>8, <4>1, <4>2
    <3>2. call'[c] = "granted" => active[c] # None
      <4>1. c \in Procs /\ c # Drain
        BY <1>t
      <4>2. frame[c].pc # "off" => frame[c].cur = c
        BY <4>1, <1>t
      <4> QED BY <3>1, <4>1, <4>2, <1>i
    <3> QED BY <3>1, <3>2, <1>0
  <2>3. queue' \in Seq(Asked')
    BY <1>0, <2>1, AskedGrows
  <2> QED BY <1>k, <1>t, <2>1, <2>2, <2>3
<1>9. CASE UNCHANGED <<queue, call, active, frame>>
  BY <1>9, <1>0 DEF PoolInv, Asked, LimitsFor
<1>10. CASE UNCHANGED vars
  BY <1>9, <1>10 DEF vars, countVars
<1>11. ASSUME NEW a \in Agents, updateAgent(a) PROVE PoolInv'
  BY <1>9, <1>11 DEF updateAgent, countVars
<1> QED BY <1>1, <1>2, <1>4, <1>5, <1>6, <1>7, <1>8, <1>10, <1>11 DEF Next

-----------------------------------------------------------------------------
(* The steps of the pool.                                                  *)

\* A call is cancelled if the drain loop serves it and it was aborted; a
\* direct call is in flight only as long as it is not answered.
LEMMA StandingOf ==
  ASSUME LInv, NEW x \in Calls
  PROVE  Standing(x) = IF frame[Drain].pc # "off" /\ frame[Drain].cur = x /\ call[x] = "rejected"
                       THEN "cancelled" ELSE call[x]
<1>1. /\ Drain \in Procs
      /\ \A p \in Procs : frame[p].pc # "off" /\ p # Drain => call[frame[p].cur] = "waiting"
  BY Processes DEF LInv, LeaseInv
<1> QED BY <1>1 DEF Standing, InFlight

\* The same after a step.
LEMMA StandingNext ==
  ASSUME LInv', NEW x \in Calls
  PROVE  Standing(x)' = IF frame'[Drain].pc # "off" /\ frame'[Drain].cur = x /\ call'[x] = "rejected"
                        THEN "cancelled" ELSE call'[x]
<1>1. /\ Drain \in Procs
      /\ \A p \in Procs : frame'[p].pc # "off" /\ p # Drain => call'[frame'[p].cur] = "waiting"
  BY DEF LInv, LeaseInv, Procs
<1> QED BY <1>1 DEF Standing, InFlight

\* A live lease that was not granted is in the hands of a process.
LEMMA NoSlotUnlessServed ==
  ASSUME LInv, NEW x \in Calls, call[x] # "granted",
         \A p \in Procs : frame[p].pc = "slot" /\ frame[p].cur = x => frame[p].result # "lease"
  PROVE  active[x] = None
BY DEF LInv, LeaseInv, NoLeakedLease, LiveLeases

\* A step that changes one call at most, as a step of the pool.
LEMMA PoolMove ==
  ASSUME PInv, PInv', NEW x \in Calls,
         \A y \in Calls \ {x} : Standing(y)' = Standing(y) /\ active'[y] = active[y],
         \/ Standing(x)' = Standing(x) /\ active'[x] = active[x]
         \/ Standing(x) = "idle" /\ Standing(x)' = "waiting" /\ active'[x] = active[x]
         \/ Standing(x) = "waiting" /\ Standing(x)' = "granted" /\ active'[x] = active[x] /\ active[x] # None
         \/ Standing(x) = "waiting" /\ Standing(x)' = "cancelled" /\ active'[x] = active[x]
         \/ /\ Standing(x) \in {"idle", "waiting", "cancelled"} /\ Standing(x)' = "rejected"
            /\ active'[x] = active[x] /\ active[x] = None
         \/ Standing(x) = "cancelled" /\ Standing(x)' = "rejected" /\ active[x] # None /\ active'[x] = None
         \/ Standing(x) = "granted" /\ Standing(x)' = "released" /\ active[x] # None /\ active'[x] = None
  PROVE  [Pool!Next]_(Pool!vars)
<1>t. active \in [Calls -> Keys \cup {None}] /\ active' \in [Calls -> Keys \cup {None}]
  BY DEF PInv, CInv, LInv, TInv, TypeOK
<1> DEFINE Mapped == [Pool!Next]_(Pool!vars)
<1>n. ASSUME Pool!Ask(x) \/ Pool!Grant(x) \/ Pool!Cancel(x) \/ Pool!Reject(x) \/ Pool!GiveBack(x) \/ Pool!Release(x)
      PROVE Mapped
  BY <1>n DEF Pool!Next
<1>1. CASE Standing(x)' = Standing(x) /\ active'[x] = active[x]
  <2>1. active' = active /\ \A y \in Calls : Standing(y)' = Standing(y)
    BY <1>1, <1>t
  <2>2. UNCHANGED Pool!vars
    BY <2>1 DEF Pool!vars
  <2> QED BY <2>2
<1> HIDE DEF Mapped
<1>2. CASE Standing(x) = "idle" /\ Standing(x)' = "waiting" /\ active'[x] = active[x]
  <2>1. active' = active
    BY <1>2, <1>t
  <2>2. Pool!Ask(x)
    BY <1>2, <2>1 DEF Pool!Ask, Pool!Becomes
  <2> QED BY <2>2, <1>n DEF Mapped
<1>3. CASE Standing(x) = "waiting" /\ Standing(x)' = "granted" /\ active'[x] = active[x] /\ active[x] # None
  <2>1. active' = active
    BY <1>3, <1>t
  <2>2. Pool!Grant(x)
    BY <1>3, <2>1 DEF Pool!Grant, Pool!Becomes
  <2> QED BY <2>2, <1>n DEF Mapped
<1>4. CASE Standing(x) = "waiting" /\ Standing(x)' = "cancelled" /\ active'[x] = active[x]
  <2>1. active' = active
    BY <1>4, <1>t
  <2>2. Pool!Cancel(x)
    BY <1>4, <2>1 DEF Pool!Cancel, Pool!Becomes
  <2> QED BY <2>2, <1>n DEF Mapped
<1>5. CASE /\ Standing(x) \in {"idle", "waiting", "cancelled"} /\ Standing(x)' = "rejected"
           /\ active'[x] = active[x] /\ active[x] = None
  <2>1. active' = active
    BY <1>5, <1>t
  <2>2. Pool!Reject(x)
    BY <1>5, <2>1 DEF Pool!Reject, Pool!Becomes
  <2> QED BY <2>2, <1>n DEF Mapped
<1>6. CASE Standing(x) = "cancelled" /\ Standing(x)' = "rejected" /\ active[x] # None /\ active'[x] = None
  <2>1. active' = [active EXCEPT ![x] = None]
    BY <1>6, <1>t
  <2>2. Pool!GiveBack(x)
    BY <1>6, <2>1 DEF Pool!GiveBack, Pool!Becomes
  <2> QED BY <2>2, <1>n DEF Mapped
<1>7. CASE Standing(x) = "granted" /\ Standing(x)' = "released" /\ active[x] # None /\ active'[x] = None
  <2>1. active' = [active EXCEPT ![x] = None]
    BY <1>7, <1>t
  <2>2. Pool!Release(x)
    BY <1>7, <2>1 DEF Pool!Release, Pool!Becomes
  <2> QED BY <2>2, <1>n DEF Mapped
<1> QED BY <1>1, <1>2, <1>3, <1>4, <1>5, <1>6, <1>7 DEF Mapped

\* A reservation takes a slot of the pool, within a limit of the call's own agent.
LEMMA PoolTake ==
  ASSUME PInv, PInv', NEW p \in Procs, Serves(p), ~UNCHANGED active,
         \A y \in Calls : Standing(y)' = Standing(y)
  PROVE  Pool!Take(frame[p].cur)
<1> DEFINE x == frame[p].cur
           lim == frame[p].lim
<1>1. /\ frame[p].pc = "scanned" /\ check(lim) /\ active' = [active EXCEPT ![x] = lim.key]
  BY DEF Serves
<1>2. x \in Calls /\ (p = Drain => x \in Waiters)
  BY <1>1, Processes DEF PInv, CInv, LInv
<1>3. active[x] = None
  BY <1>1 DEF PInv, CInv, LInv, LeaseInv
<1>4. /\ lim \in LimitsFor(x)
      /\ frame[Drain].pc # "off" => frame[Drain].cur \in Asked
  BY <1>1 DEF PInv, PoolInv
<1>5. PICK r \in Admissible[AgentOf[x]] : lim = limitsOf(AgentOf[x], r)
  BY <1>4 DEF LimitsFor
<1>6. lim.key \in Keys
  BY <1>2, <1>5, LimitsType, ConstantsAssumption
<1>7. Cardinality(Holders(lim.key)) < lim.max
  BY <1>1, <1>6 DEF PInv, CInv, CountersMatchLeases, check
<1>8. Pool!Users(lim.key) = Holders(lim.key)
  BY DEF Pool!Users, Holders
<1>9. Standing(x) \in {"waiting", "cancelled"}
  <2>1. call[x] \in (IF p = Drain THEN {"idle", "waiting", "rejected"} ELSE {"waiting"})
    BY <1>1 DEF PInv, CInv, LInv, LeaseInv
  <2>2. p = Drain => call[x] # "idle"
    BY <1>1, <1>4 DEF Asked
  <2>3. InFlight(x)
    BY <1>1 DEF InFlight
  <2> QED BY <2>1, <2>2, <2>3 DEF Standing
<1> HIDE DEF x, lim
<1>10. Pool!Cardinality(Pool!Users(lim.key)) = Cardinality(Holders(lim.key))
  BY <1>8 DEF Pool!Cardinality, Cardinality
<1>11. \E l \in LimitsFor(x) : /\ Pool!Cardinality(Pool!Users(l.key)) < l.max
                               /\ active' = [active EXCEPT ![x] = l.key]
  BY <1>1, <1>4, <1>7, <1>10 DEF x, lim
<1>12. Pool!Take(x)
  BY <1>2, <1>3, <1>9, <1>11 DEF Pool!Take
<1> QED BY <1>12 DEF x

\* A step of the tracker is a step of the pool or none.
LEMMA PoolStep ==
  ASSUME PInv, PInv', Next PROVE [Pool!Next]_(Pool!vars)
<1> DEFINE Mapped == [Pool!Next]_(Pool!vars)
<1>0. /\ LInv /\ LInv' /\ TInv /\ PInv
      /\ frame[Drain].pc # "off" => frame[Drain].cur \in Asked
      /\ \A x \in Calls : call[x] = "granted" => active[x] # None
      /\ drain.on <=> frame[Drain].pc # "off"
  BY DEF PInv, PoolInv, CInv, LInv, TInv, FrameInv
<1>t. /\ frame \in [Procs -> Frames] /\ Drain \in Procs /\ Waiters \subseteq Calls /\ Callers \subseteq Calls
      /\ \A c \in Callers : c \in Procs /\ c # Drain /\ c \notin Waiters
      /\ \A p \in Procs : frame[p].pc # "off" =>
           frame[p].cur \in Calls /\ frame[p].cur \in (IF p = Drain THEN Waiters ELSE {p})
      /\ call \in [Calls -> {"idle", "waiting", "granted", "released", "rejected"}]
      /\ active \in [Calls -> Keys \cup {None}]
      /\ queue \in Seq(Waiters)
  BY Processes, <1>0
<1>i. \A p \in Procs : frame[p].pc # "off" =>
        /\ call[frame[p].cur] \in (IF p = Drain THEN {"waiting", "rejected"} ELSE {"waiting"})
        /\ active[frame[p].cur] # None <=> (frame[p].pc = "slot" /\ frame[p].result = "lease")
  BY <1>0 DEF LInv, LeaseInv, Asked
<1>s. \A x \in Calls :
        /\ Standing(x) = IF frame[Drain].pc # "off" /\ frame[Drain].cur = x /\ call[x] = "rejected"
                         THEN "cancelled" ELSE call[x]
        /\ Standing(x)' = IF frame'[Drain].pc # "off" /\ frame'[Drain].cur = x /\ call'[x] = "rejected"
                          THEN "cancelled" ELSE call'[x]
  <2>1. \A x \in Calls :
          Standing(x) = IF frame[Drain].pc # "off" /\ frame[Drain].cur = x /\ call[x] = "rejected"
                        THEN "cancelled" ELSE call[x]
    BY <1>0, StandingOf
  <2>2. \A x \in Calls :
          Standing(x)' = IF frame'[Drain].pc # "off" /\ frame'[Drain].cur = x /\ call'[x] = "rejected"
                         THEN "cancelled" ELSE call'[x]
    BY <1>0, StandingNext
  <2> QED BY <2>1, <2>2
\* A turn of the drain loop, or a call of it, leaves no other aborted call in flight.
<1>w. ASSUME NEW q \in Seq(Waiters), drainPendingAcquisitions(q, call')
      PROVE  \/ drain.on /\ frame'[Drain] = frame[Drain]
             \/ /\ ~drain.on
                /\ \A x \in Calls : Standing(x) = call[x] /\ Standing(x)' = call'[x]
  <2>1. CASE drain.on
    BY <1>w, <2>1 DEF drainPendingAcquisitions
  <2>2. CASE ~drain.on
    <3>1. frame' = [frame EXCEPT ![Drain] = idleFrame]
          \/ \E w \in Waiters : ~settled(call', w) /\ frame' = [frame EXCEPT ![Drain] = slotFrame(w)]
      <4>1. Advance(q, call', 1, FALSE, FALSE)
        BY <1>w, <2>2 DEF drainPendingAcquisitions
      <4>2. Len(q) \in Nat
        BY LenProperties
      <4>3. 1 \in 1 .. Len(q) + 1
        BY <4>2
      <4> QED BY <4>1, <4>3, AdvanceType
    <3>2. frame'[Drain].pc = "off" \/ call'[frame'[Drain].cur] # "rejected"
      BY <1>t, <3>1, FrameTypes DEF settled
    <3> QED BY <1>s, <1>0, <2>2, <3>2
  <2> QED BY <2>1, <2>2
<1>1. ASSUME NEW p \in Procs, AcquireSlotStep(p) PROVE Mapped
  <2>1. Serves(p)
    BY <1>0, <1>1, SlotStepServes
  <2>2. \A x \in Calls : Standing(x)' = Standing(x)
    <3>1. /\ call' = call /\ frame'[Drain].cur = frame[Drain].cur
          /\ frame'[Drain].pc # "off" <=> frame[Drain].pc # "off"
      BY <2>1, <1>t DEF Serves
    <3> QED BY <3>1, <1>s
  <2>3. CASE UNCHANGED active
    <3>1. UNCHANGED Pool!vars
      BY <2>2, <2>3 DEF Pool!vars
    <3> QED BY <3>1
  <2>4. CASE ~UNCHANGED active
    <3>1. Pool!Take(frame[p].cur)
      BY <2>1, <2>2, <2>4, PoolTake
    <3>2. frame[p].cur \in Calls
      BY <2>1, <1>t DEF Serves
    <3> QED BY <3>1, <3>2 DEF Pool!Next
  <2> QED BY <2>3, <2>4
<1>2. ASSUME DrainStep PROVE Mapped
  <2> DEFINE x == frame[Drain].cur
  <2>1. /\ frame[Drain].pc = "slot" /\ drain.on /\ x \in Waiters /\ x \in Calls
        /\ call[x] \in {"waiting", "rejected"}
        /\ active[x] # None <=> frame[Drain].result = "lease"
    BY <1>2, <1>0, <1>t, <1>i DEF DrainStep, DrainError, DrainSettled, DrainNone, DrainGrant
  <2>2. /\ drain.idx \in 1 .. Len(queue) /\ drain.idx + 1 \in 1 .. Len(queue) + 1
        /\ drain.progress \in BOOLEAN /\ drain.requested \in BOOLEAN
        /\ RemoveIndex(queue, drain.idx) \in Seq(Waiters)
        /\ drain.idx \in 1 .. Len(RemoveIndex(queue, drain.idx)) + 1
    BY <1>t, <1>0, <2>1, RemoveIndexType, LenProperties DEF TInv, TypeOK
  <2>3. \/ Advance(queue, call', drain.idx + 1, drain.progress, drain.requested)
        \/ \E b \in BOOLEAN : Advance(RemoveIndex(queue, drain.idx), call', drain.idx, b, drain.requested)
    BY <1>2, <2>2 DEF DrainStep, DrainError, DrainSettled, DrainNone, DrainGrant
  <2>4. frame' = [frame EXCEPT ![Drain] = idleFrame]
        \/ \E w \in Waiters : ~settled(call', w) /\ frame' = [frame EXCEPT ![Drain] = slotFrame(w)]
    BY <1>t, <2>2, <2>3, AdvanceType
  <2>5. frame'[Drain].pc = "off" \/ call'[frame'[Drain].cur] # "rejected"
    BY <1>t, <2>4, FrameTypes DEF settled
  <2>6. \A y \in Calls : Standing(y)' = call'[y]
    BY <1>s, <2>5
  <2>7. /\ Standing(x) = IF call[x] = "rejected" THEN "cancelled" ELSE "waiting"
        /\ \A y \in Calls \ {x} : Standing(y) = call[y]
    BY <1>s, <2>1
  <2> HIDE DEF x
  <2>8. CASE DrainError
    <3>1. /\ call' = [call EXCEPT ![x] = IF @ = "waiting" THEN "rejected" ELSE @]
          /\ active' = active /\ frame[Drain].result = "error"
      BY <2>8 DEF DrainError, countVars, x
    <3>2. active[x] = None /\ call'[x] = "rejected" /\ \A y \in Calls \ {x} : call'[y] = call[y]
      BY <3>1, <2>1, <1>t
    <3> QED BY <2>1, <2>6, <2>7, <3>1, <3>2, PoolMove
  <2>9. CASE DrainSettled
    <3>1. /\ call' = call /\ call[x] = "rejected"
          /\ IF frame[Drain].result = "lease" THEN active' = [active EXCEPT ![x] = None] ELSE active' = active
      BY <2>9, <2>1 DEF DrainSettled, settled, countVars, releaseSlot, x
    <3>2. /\ \A y \in Calls \ {x} : active'[y] = active[y]
          /\ active[x] # None => active'[x] = None
          /\ active[x] = None => active'[x] = active[x]
      BY <3>1, <2>1, <1>t
    <3> QED BY <2>1, <2>6, <2>7, <3>1, <3>2, PoolMove
  <2>10. CASE DrainNone
    <3>1. call' = call /\ active' = active /\ call[x] = "waiting"
      BY <2>10, <2>1 DEF DrainNone, settled, countVars, x
    <3> QED BY <2>1, <2>6, <2>7, <3>1, PoolMove
  <2>11. CASE DrainGrant
    <3>1. /\ call' = [call EXCEPT ![x] = "granted"] /\ active' = active /\ call[x] = "waiting"
          /\ frame[Drain].result = "lease"
      BY <2>11, <2>1 DEF DrainGrant, settled, countVars, x
    <3>2. active[x] # None /\ call'[x] = "granted" /\ \A y \in Calls \ {x} : call'[y] = call[y]
      BY <3>1, <2>1, <1>t
    <3> QED BY <2>1, <2>6, <2>7, <3>1, <3>2, PoolMove
  <2> QED BY <1>2, <2>8, <2>9, <2>10, <2>11 DEF DrainStep
<1>3. ASSUME NEW w \in Waiters, acquireWhenAvailable(w) PROVE Mapped
  <2>1. /\ call[w] = "idle" /\ call'[w] = "waiting" /\ active' = active
        /\ \A y \in Calls \ {w} : call'[y] = call[y]
    BY <1>3, <1>t DEF acquireWhenAvailable, countVars
  <2>2. insertAt(queue, w) \in Seq(Waiters) /\ drainPendingAcquisitions(insertAt(queue, w), call')
    BY <1>3, <1>t, insertAtType DEF acquireWhenAvailable
  <2>3. \/ drain.on /\ frame'[Drain] = frame[Drain]
        \/ \A x \in Calls : Standing(x) = call[x] /\ Standing(x)' = call'[x]
    BY <2>2, <1>w
  <2>4. /\ Standing(w) = "idle" /\ Standing(w)' = "waiting"
        /\ \A y \in Calls \ {w} : Standing(y)' = Standing(y)
    BY <1>s, <1>t, <2>1, <2>3
  <2> QED BY <1>t, <2>1, <2>4, PoolMove
<1>4. ASSUME NEW w \in Waiters, acquireAborted(w) PROVE Mapped
  <2>1. /\ call[w] = "idle" /\ call'[w] = "rejected" /\ active' = active /\ frame' = frame
        /\ \A y \in Calls \ {w} : call'[y] = call[y]
    BY <1>4, <1>t DEF acquireAborted, countVars
  <2>2. \A p \in Procs : frame[p].pc # "off" => frame[p].cur # w
    BY <1>i, <2>1
  <2>3. active[w] = None
    <3>1. \A p \in Procs : frame[p].pc = "slot" /\ frame[p].cur = w => frame[p].result # "lease"
      BY <2>2
    <3> QED BY <1>0, <1>t, <2>1, <3>1, NoSlotUnlessServed
  <2>4. /\ Standing(w) = "idle" /\ Standing(w)' = "rejected"
        /\ \A y \in Calls \ {w} : Standing(y)' = Standing(y)
    BY <1>s, <1>t, <2>1, <2>2
  <2> QED BY <1>t, <2>1, <2>3, <2>4, PoolMove
<1>5. ASSUME NEW w \in Waiters, onAbort(w) PROVE Mapped
  <2>1. /\ call[w] = "waiting" /\ call'[w] = "rejected" /\ active' = active
        /\ \A y \in Calls \ {w} : call'[y] = call[y]
    BY <1>5, <1>t DEF onAbort, countVars
  <2>2. \/ drain.on /\ frame'[Drain] = frame[Drain]
        \/ /\ ~drain.on
           /\ \A x \in Calls : Standing(x) = call[x] /\ Standing(x)' = call'[x]
    BY <1>5, <1>t, <1>w DEF onAbort
  <2>3. \A y \in Calls \ {w} : Standing(y)' = Standing(y)
    BY <1>s, <2>1, <2>2
  <2>4. Standing(w) = "waiting"
    BY <1>s, <1>t, <2>1
  <2>5. CASE frame[Drain].pc # "off" /\ frame[Drain].cur = w
    <3>1. Standing(w)' = "cancelled"
      BY <1>s, <1>t, <1>0, <2>1, <2>2, <2>5
    <3> QED BY <1>t, <2>1, <2>3, <2>4, <3>1, PoolMove
  <2>6. CASE ~(frame[Drain].pc # "off" /\ frame[Drain].cur = w)
    <3>1. Standing(w)' = "rejected"
      BY <1>s, <1>t, <1>0, <2>1, <2>2, <2>6
    <3>2. \A p \in Procs : frame[p].pc = "slot" /\ frame[p].cur = w => frame[p].result # "lease"
      <4>1. \A p \in Procs : frame[p].pc = "slot" => frame[p].cur # w
        BY <1>t, <2>6 DEF Procs
      <4> QED BY <4>1
    <3>3. active[w] = None
      BY <1>0, <1>t, <2>1, <3>2, NoSlotUnlessServed
    <3> QED BY <1>t, <2>1, <2>3, <2>4, <3>1, <3>3, PoolMove
  <2> QED BY <2>5, <2>6
<1>6. ASSUME NEW c \in Callers, acquire(c) PROVE Mapped
  <2>1. /\ call[c] = "idle" /\ call'[c] = "waiting" /\ active' = active /\ frame'[Drain] = frame[Drain]
        /\ \A y \in Calls \ {c} : call'[y] = call[y]
    BY <1>6, <1>t DEF acquire, countVars
  <2>2. /\ Standing(c) = "idle" /\ Standing(c)' = "waiting"
        /\ \A y \in Calls \ {c} : Standing(y)' = Standing(y)
    BY <1>s, <1>t, <2>1
  <2> QED BY <1>t, <2>1, <2>2, PoolMove
<1>7. ASSUME NEW c \in Callers, acquireReturns(c) PROVE Mapped
  <2>1. /\ frame[c].pc = "slot" /\ active' = active /\ frame'[Drain] = frame[Drain]
        /\ call'[c] = IF frame[c].result = "lease" THEN "granted" ELSE "rejected"
        /\ \A y \in Calls \ {c} : call'[y] = call[y]
    BY <1>7, <1>t DEF acquireReturns, countVars
  <2>2. c \in Procs /\ c # Drain /\ frame[c].cur = c
    BY <2>1, <1>t
  <2>3. call[c] = "waiting" /\ (active[c] # None <=> frame[c].result = "lease")
    BY <1>i, <2>1, <2>2
  <2>4. frame[Drain].pc # "off" => frame[Drain].cur # c
    BY <1>t
  <2>5. /\ Standing(c) = "waiting" /\ Standing(c)' = call'[c]
        /\ \A y \in Calls \ {c} : Standing(y)' = Standing(y)
    BY <1>s, <1>t, <2>1, <2>3, <2>4
  <2> QED BY <1>t, <2>1, <2>3, <2>5, PoolMove
<1>8. ASSUME NEW x \in Calls, release(x) PROVE Mapped
  <2>1. /\ call[x] \in {"granted", "released"} /\ call'[x] = "released"
        /\ \A y \in Calls \ {x} : call'[y] = call[y]
        /\ \A y \in Calls \ {x} : active'[y] = active[y]
        /\ active'[x] = None
    BY <1>8, <1>t DEF release, releaseSlot, countVars
  <2>2. \/ drain.on /\ frame'[Drain] = frame[Drain]
        \/ \A y \in Calls : Standing(y) = call[y] /\ Standing(y)' = call'[y]
    BY <1>8, <1>t, <1>w DEF release
  <2>3. /\ Standing(x) = call[x] /\ Standing(x)' = "released"
        /\ \A y \in Calls \ {x} : Standing(y)' = Standing(y)
    BY <1>s, <2>1, <2>2
  <2>4. CASE call[x] = "granted"
    <3>1. active[x] # None
      BY <1>0, <2>4
    <3> QED BY <2>1, <2>3, <2>4, <3>1, PoolMove
  <2>5. CASE call[x] = "released"
    <3>1. \A p \in Procs : frame[p].pc = "slot" /\ frame[p].cur = x => frame[p].result # "lease"
      BY <1>i, <2>5
    <3>2. active[x] = None
      BY <1>0, <2>5, <3>1, NoSlotUnlessServed
    <3> QED BY <2>1, <2>3, <2>5, <3>2, PoolMove
  <2> QED BY <2>1, <2>4, <2>5
<1>9. ASSUME NEW a \in Agents, updateAgent(a) PROVE Mapped
  <2>1. call' = call /\ active' = active /\ frame' = frame
    BY <1>9 DEF updateAgent, countVars
  <2>2. UNCHANGED Pool!vars
    BY <1>s, <2>1 DEF Pool!vars
  <2> QED BY <2>2
<1> QED BY <1>1, <1>2, <1>3, <1>4, <1>5, <1>6, <1>7, <1>8, <1>9 DEF Next

\* The tracker implements a pool of slots: every slot is taken within a limit
\* of its call's own agent, handed over to that call or given back, and given
\* back once, whatever aborts, lookups that fail, edits and repeated releases
\* come in between.
THEOREM ImplementsPool == Spec => SlotsArePooled
<1>1. Init => Pool!Init
  <2> SUFFICES ASSUME Init PROVE Pool!Init
    OBVIOUS
  <2>1. \A x \in Calls : Standing(x) = "idle"
    BY DEF Init, Standing
  <2>2. active = [x \in Calls |-> None]
    BY DEF Init
  <2> QED BY <2>1, <2>2 DEF Pool!Init
<1>2. PInv /\ PInv' /\ [Next]_vars => [Pool!Next]_(Pool!vars)
  <2> SUFFICES ASSUME PInv, PInv', [Next]_vars PROVE [Pool!Next]_(Pool!vars)
    OBVIOUS
  <2>1. CASE Next
    BY <2>1, PoolStep
  <2>2. CASE UNCHANGED vars
    <3>1. \A x \in Calls : Standing(x)' = Standing(x)
      BY <2>2 DEF vars, Standing, InFlight
    <3> QED BY <2>2, <3>1 DEF vars, countVars, Pool!vars
  <2> QED BY <2>1, <2>2
<1> QED
  BY <1>1, <1>2, PInvInit, PInvNext, PTL DEF Spec, SlotsArePooled, Pool!Spec

=============================================================================
