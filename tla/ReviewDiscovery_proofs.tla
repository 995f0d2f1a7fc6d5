------------------------ MODULE ReviewDiscovery_proofs ------------------------
(***************************************************************************)
(* Proofs of the safety properties of ReviewDiscovery for any changes and  *)
(* polls, and any number of updates.                                       *)
(***************************************************************************)
EXTENDS ReviewDiscovery, SequenceTheorems, WellFoundedInduction, TLAPS

\* What happened was in the past, and a revision is never 0.
Times ==
  /\ \A c \in Changes : change[c].updated <= clock /\ change[c].rev >= 1
  /\ since <= clock /\ (since = 0 \/ since < clock)

\* A change is listed once, and the one that was updated last is listed first.
Listed ==
  /\ \A r, s \in DOMAIN open : \A i \in DOMAIN open[r], j \in DOMAIN open[s] :
       open[r][i] = open[s][j] => r = s /\ i = j
  /\ \A r \in DOMAIN open : \A i, j \in DOMAIN open[r] :
       i < j => change[open[r][j]].updated <= change[open[r][i]].updated
  /\ \A c \in owed : \E r \in DOMAIN open : \E i \in DOMAIN open[r] : open[r][i] = c

\* A poll knows what the provider once had, after the watermark it has read.
PollInv(p) ==
  /\ poll[p].since <= since
  /\ poll[p].pending \subseteq DOMAIN poll[p].found
  /\ poll[p].failed \subseteq DOMAIN poll[p].found
  /\ poll[p].repo >= 1
  /\ poll[p].at # "dispatched" => poll[p].pending = {} /\ poll[p].failed = {}
  /\ \A c \in DOMAIN poll[p].found :
       /\ poll[p].found[c].updated > poll[p].since /\ poll[p].found[c].updated <= clock
       /\ poll[p].found[c].rev <= change[c].rev

\* A change that is owed and remembered is being triggered by the poll whose
\* entry that is.
Remembered(c) ==
  /\ revisions[c].rev <= change[c].rev
  /\ c \in owed /\ revisions[c].rev = change[c].rev
       => \E p \in Polls : /\ revisions[c].by = p /\ c \in poll[p].pending
                           /\ poll[p].found[c].rev = revisions[c].rev

Seen(p, c) == c \in DOMAIN poll[p].found /\ poll[p].found[c] = change[c]

\* A scan that has missed no page has found, as it is, all that it has read the
\* pages of and that was not stirred behind it.
PageOf(p, r, i) == r < poll[p].repo \/ (r = poll[p].repo /\ i <= poll[p].page * PageSize)

ReadUp(p) ==
  poll[p].at = "scan" /\ poll[p].complete =>
    \A r \in DOMAIN open : \A i \in DOMAIN open[r] :
      /\ PageOf(p, r, i) /\ open[r][i] \notin poll[p].stirred
      /\ change[open[r][i]].updated > poll[p].since
      => Seen(p, open[r][i])

\* A poll that may move the watermark has found the change as it is, and has not
\* got rid of it; or the change was updated after all that the poll has found.
Covers(p, d) ==
  poll[p].at = "dispatched" /\ poll[p].complete /\ poll[p].since = since
    => \/ \A c \in DOMAIN poll[p].found : change[d].updated >= poll[p].found[c].updated
       \/ Seen(p, d) /\ d \in poll[p].pending \cup poll[p].failed

Window(c) ==
  /\ change[c].updated > since
  /\ \A p \in Polls : Covers(p, c)

IInv ==
  /\ TypeOK /\ Times /\ Listed
  /\ \A p \in Polls : PollInv(p) /\ ReadUp(p)
  /\ \A c \in Changes : Remembered(c)
  /\ \A c \in owed \ passedOver : Window(c)

-----------------------------------------------------------------------------
(* The least and the greatest of a set of numbers.                         *)

LEMMA MinOf ==
  ASSUME NEW S \in SUBSET Nat, S # {}
  PROVE  Min(S) \in S /\ \A y \in S : Min(S) <= y
<1> DEFINE Less == {ss \in Nat \X Nat : ss[1] < ss[2]}
<1>1. IsWellFoundedOn(Less, Nat)
  BY NatLessThanWellFounded DEF OpToRel
<1>2. PICK x \in S : \A y \in S : ~(<<y, x>> \in Less)
  <2> HIDE DEF Less
  <2> QED
    BY <1>1, WFMin
<1>3. ASSUME NEW y \in S PROVE x <= y
  <2>1. x \in Nat /\ y \in Nat
    OBVIOUS
  <2>2. <<y, x>> \in Nat \X Nat /\ <<y, x>>[1] = y /\ <<y, x>>[2] = x
    BY <2>1
  <2>3. ~(y < x)
    BY <1>2, <2>2
  <2> QED
    BY <2>1, <2>3
<1> QED
  BY <1>3 DEF Min

LEMMA MaxOf ==
  ASSUME NEW S \in SUBSET Nat, S # {}, NEW b \in Nat, \A y \in S : y <= b
  PROVE  Max(S) \in S /\ \A y \in S : Max(S) >= y
<1> DEFINE D == {b - y : y \in S}
<1>1. D \in SUBSET Nat /\ D # {}
  <2>1. ASSUME NEW y \in S PROVE b - y \in Nat
    <3>1. y \in Nat /\ y <= b
      OBVIOUS
    <3> QED
      BY <3>1
  <2> QED
    BY <2>1
<1>2. PICK d \in D : \A e \in D : d <= e
  <2> HIDE DEF D
  <2> QED
    BY <1>1, MinOf
<1>3. PICK x \in S : d = b - x
  OBVIOUS
<1>4. \A y \in S : x >= y
  BY <1>2, <1>3
<1> QED
  BY <1>4 DEF Max

\* The new watermark is before everything that failed, and if it moves on, before
\* something that was found.
LEMMA NextSinceBefore ==
  ASSUME TypeOK, Times, NEW p \in Polls, PollInv(p)
  PROVE  /\ NextSince(p) \in Nat
         /\ \A c \in poll[p].failed : NextSince(p) < poll[p].found[c].updated
         /\ NextSince(p) > poll[p].since
              => \E c \in DOMAIN poll[p].found : NextSince(p) < poll[p].found[c].updated
<1> DEFINE before(c) == poll[p].found[c].updated - 1
           S == {poll[p].since} \cup {before(c) : c \in DOMAIN poll[p].found}
           T == {Max(S)} \cup {before(c) : c \in poll[p].failed}
<1>1. /\ poll[p].since \in Nat /\ since \in Nat /\ clock \in Nat
      /\ poll[p].found \in UNION {[V -> Entries] : V \in SUBSET Changes}
  BY DEF TypeOK, PollRecs
<1>2. \A c \in DOMAIN poll[p].found : poll[p].found[c].updated \in Nat
  BY <1>1 DEF Entries
<1>3. \A c \in DOMAIN poll[p].found : before(c) \in Nat /\ before(c) <= clock
  BY <1>1, <1>2 DEF PollInv
<1>4. S \in SUBSET Nat /\ S # {} /\ \A y \in S : y <= clock
  <2>1. poll[p].since \in Nat /\ poll[p].since <= clock
    BY <1>1 DEF PollInv, Times
  <2> HIDE DEF before
  <2> QED
    BY <1>3, <2>1
<1>5. Max(S) \in S
  <2> HIDE DEF S
  <2> QED
    BY <1>1, <1>4, MaxOf
<1>6. T \in SUBSET Nat /\ T # {}
  BY <1>3, <1>4, <1>5 DEF PollInv
<1>7. Min(T) \in T /\ \A y \in T : Min(T) <= y
  <2> HIDE DEF T
  <2> QED
    BY <1>6, MinOf
<1>8. NextSince(p) = Min(T)
  BY DEF NextSince
<1>9. \A c \in poll[p].failed : Min(T) <= before(c)
  BY <1>7
<1>10. Min(T) <= Max(S) /\ Min(T) \in Nat /\ Max(S) \in Nat
  BY <1>4, <1>5, <1>6, <1>7
<1>11. Max(S) > poll[p].since => \E c \in DOMAIN poll[p].found : Max(S) = before(c)
  <2>1. CASE Max(S) = poll[p].since
    BY <1>1, <2>1
  <2>2. CASE Max(S) \in {before(c) : c \in DOMAIN poll[p].found}
    BY <2>2
  <2> QED
    BY <1>5, <2>1, <2>2
<1> HIDE DEF S, T
<1>12. \A c \in poll[p].failed : c \in DOMAIN poll[p].found
  BY DEF PollInv
<1>13. \A c \in poll[p].failed : Min(T) < poll[p].found[c].updated
  BY <1>2, <1>9, <1>10, <1>12
<1>14. ASSUME Min(T) > poll[p].since
       PROVE  \E c \in DOMAIN poll[p].found : Min(T) < poll[p].found[c].updated
  <2>1. PICK c \in DOMAIN poll[p].found : Max(S) = before(c)
    BY <1>1, <1>10, <1>11, <1>14
  <2> QED
    BY <1>2, <1>10, <2>1
<1> QED
  BY <1>8, <1>10, <1>13, <1>14

-----------------------------------------------------------------------------
(* The list of a repository.                                               *)

LEMMA RemoveAtEffect ==
  ASSUME NEW S, NEW s \in Seq(S), NEW i \in 1..Len(s)
  PROVE  /\ RemoveAt(s, i) \in Seq(S) /\ Len(RemoveAt(s, i)) = Len(s) - 1
         /\ \A k \in 1..(Len(s) - 1) : RemoveAt(s, i)[k] = IF k < i THEN s[k] ELSE s[k + 1]
<1> DEFINE front == SubSeq(s, 1, i - 1)
           back  == SubSeq(s, i + 1, Len(s))
<1>0. i \in Nat /\ Len(s) \in Nat /\ 1 <= i /\ i <= Len(s)
  OBVIOUS
<1>1. front \in Seq(S) /\ Len(front) = i - 1 /\ \A k \in 1..(i - 1) : front[k] = s[k]
  BY <1>0
<1>2. back \in Seq(S) /\ Len(back) = Len(s) - i /\ \A k \in 1..(Len(s) - i) : back[k] = s[i + k]
  BY <1>0
<1>3. RemoveAt(s, i) = front \o back
  BY DEF RemoveAt
<1> HIDE DEF front, back
<1>4. front \o back \in Seq(S) /\ Len(front \o back) = Len(s) - 1
  <2>1. front \o back \in Seq(S) /\ Len(front \o back) = Len(front) + Len(back)
    <3>1. front \in Seq(S) /\ back \in Seq(S)
      BY <1>1, <1>2
    <3>2. front \o back \in Seq(S)
      BY <3>1
    <3>3. Len(front \o back) = Len(front) + Len(back)
      BY <3>1
    <3> QED
      BY <3>2, <3>3
  <2>2. Len(front) + Len(back) = Len(s) - 1
    BY <1>0, <1>1, <1>2
  <2> QED
    BY <2>1, <2>2
<1>5. ASSUME NEW k \in 1..(Len(s) - 1)
      PROVE  (front \o back)[k] = IF k < i THEN s[k] ELSE s[k + 1]
  <2>1. CASE k < i
    BY <1>0, <1>1, <1>2, <2>1
  <2>2. CASE ~(k < i)
    <3>1. k - (i - 1) \in 1..(Len(s) - i) /\ i + (k - (i - 1)) = k + 1
      BY <1>0, <2>2
    <3>2. (front \o back)[k] = back[k - (i - 1)]
      BY <1>0, <1>1, <1>2, <2>2
    <3> QED
      BY <1>2, <2>2, <3>1, <3>2
  <2> QED
    BY <2>1, <2>2
<1> QED
  BY <1>3, <1>4, <1>5

LEMMA MoveUp ==
  ASSUME NEW S, NEW s \in Seq(S), NEW i \in 1..Len(s)
  PROVE  /\ <<s[i]>> \o RemoveAt(s, i) \in Seq(S) /\ Len(<<s[i]>> \o RemoveAt(s, i)) = Len(s)
         /\ (<<s[i]>> \o RemoveAt(s, i))[1] = s[i]
         /\ \A k \in 2..Len(s) : (<<s[i]>> \o RemoveAt(s, i))[k] = IF k <= i THEN s[k - 1] ELSE s[k]
<1> DEFINE u == RemoveAt(s, i)
           v == <<s[i]>>
<1>1. /\ u \in Seq(S) /\ Len(u) = Len(s) - 1
      /\ \A k \in 1..(Len(s) - 1) : u[k] = IF k < i THEN s[k] ELSE s[k + 1]
  BY RemoveAtEffect
<1>2. v \in Seq(S) /\ Len(v) = 1 /\ v[1] = s[i] /\ i \in Nat /\ Len(s) \in Nat /\ Len(s) >= 1
  OBVIOUS
<1> HIDE DEF u, v
<1>3. /\ v \o u \in Seq(S) /\ Len(v \o u) = Len(v) + Len(u)
      /\ \A k \in 1..(Len(v) + Len(u)) : (v \o u)[k] = IF k <= Len(v) THEN v[k] ELSE u[k - Len(v)]
  <2>1. v \in Seq(S) /\ u \in Seq(S)
    BY <1>1, <1>2
  <2> QED
    BY <2>1, ConcatProperties
<1>4. Len(v) + Len(u) = Len(s)
  BY <1>1, <1>2
<1>5. Len(v \o u) = Len(s) /\ (v \o u)[1] = s[i]
  BY <1>2, <1>3, <1>4
<1>6. ASSUME NEW k \in 2..Len(s) PROVE (v \o u)[k] = IF k <= i THEN s[k - 1] ELSE s[k]
  <2>1. k - 1 \in 1..(Len(s) - 1) /\ (k - 1 < i <=> k <= i) /\ (k - 1) + 1 = k
    BY <1>2
  <2>2. (v \o u)[k] = u[k - 1]
    BY <1>2, <1>3, <1>4
  <2> QED
    BY <1>1, <2>1, <2>2
<1> QED
  BY <1>3, <1>5, <1>6 DEF u, v

LEMMA OpenType ==
  ASSUME TypeOK
  PROVE  /\ DOMAIN open = 1..Len(open) /\ Len(open) \in Nat
         /\ \A n \in DOMAIN open : /\ open[n] \in Seq(Changes) /\ Len(open[n]) \in Nat
                                   /\ DOMAIN open[n] = 1..Len(open[n])
                                   /\ \A k \in DOMAIN open[n] : open[n][k] \in Changes
<1>1. open \in Seq(Seq(Changes))
  BY DEF TypeOK
<1>2. ASSUME NEW n \in DOMAIN open
      PROVE  /\ open[n] \in Seq(Changes) /\ Len(open[n]) \in Nat
             /\ DOMAIN open[n] = 1..Len(open[n]) /\ \A k \in DOMAIN open[n] : open[n][k] \in Changes
  <2>1. open[n] \in Seq(Changes)
    BY <1>1
  <2> QED
    BY <2>1
<1> QED
  BY <1>1, <1>2

LEMMA OpenSet ==
  ASSUME TypeOK, NEW n \in DOMAIN open, NEW s \in Seq(Changes), open' = [open EXCEPT ![n] = s]
  PROVE  /\ open' \in Seq(Seq(Changes)) /\ DOMAIN open' = DOMAIN open /\ open'[n] = s
         /\ \A q \in DOMAIN open \ {n} : open'[q] = open[q]
  BY DEF TypeOK

-----------------------------------------------------------------------------
(* What the parts of the steps do.                                         *)

\* The parts of a poll that stay as they are.
Same(p) ==
  /\ poll'[p].at = poll[p].at /\ poll'[p].since = poll[p].since /\ poll'[p].repo = poll[p].repo
  /\ poll'[p].page = poll[p].page /\ poll'[p].found = poll[p].found
  /\ poll'[p].complete = poll[p].complete
  /\ poll'[p].pending = poll[p].pending /\ poll'[p].failed = poll[p].failed

LEMMA StirredEffect ==
  ASSUME TypeOK, NEW S \in SUBSET Changes, NEW readers, Stirred(S, readers)
  PROVE  /\ poll' \in [Polls -> PollRecs]
         /\ \A p \in Polls : /\ Same(p) /\ poll[p].stirred \subseteq poll'[p].stirred
                             /\ p \in readers => S \subseteq poll'[p].stirred
<1>1. ASSUME NEW p \in Polls
      PROVE  /\ poll'[p] \in PollRecs
             /\ Same(p) /\ poll[p].stirred \subseteq poll'[p].stirred
             /\ p \in readers => S \subseteq poll'[p].stirred
  <2>1. poll[p] \in PollRecs
    BY DEF TypeOK
  <2>2. CASE p \in readers
    <3>1. poll'[p] = [poll[p] EXCEPT !.stirred = @ \cup S]
      BY <2>2 DEF Stirred
    <3> QED
      BY <2>1, <3>1 DEF PollRecs, Same
  <2>3. CASE p \notin readers
    <3>1. poll'[p] = poll[p]
      BY <2>3 DEF Stirred
    <3> QED
      BY <2>1, <2>3, <3>1 DEF Same
  <2> QED
    BY <2>2, <2>3
<1>2. poll' = [p \in Polls |-> poll'[p]]
  BY DEF Stirred
<1> QED
  BY <1>1, <1>2

LEMMA FoundType ==
  ASSUME NEW S \in SUBSET Changes, NEW f \in [S -> Entries]
  PROVE  f \in UNION {[V -> Entries] : V \in SUBSET Changes}
  OBVIOUS

LEMMA PollType ==
  ASSUME TypeOK, NEW p \in Polls
  PROVE  /\ poll[p] \in PollRecs /\ poll[p].since \in Nat
         /\ DOMAIN poll[p].found \subseteq Changes
         /\ \A c \in DOMAIN poll[p].found : poll[p].found[c] \in Entries
  BY DEF TypeOK, PollRecs

LEMMA IdleType ==
  /\ Idle \in PollRecs /\ DOMAIN Idle.found = {} /\ Idle.since = 0 /\ Idle.at = "idle"
  /\ Idle.pending = {} /\ Idle.failed = {} /\ Idle.repo = 1 /\ Idle.page = 0
<1>1. <<>> \in [{} -> Entries] /\ DOMAIN <<>> = {}
  OBVIOUS
<1>2. <<>> \in UNION {[V -> Entries] : V \in SUBSET Changes}
  BY <1>1, FoundType
<1> QED
  BY <1>1, <1>2 DEF Idle, PollRecs

LEMMA PollSet ==
  ASSUME TypeOK, NEW p \in Polls, NEW r \in PollRecs, poll' = [poll EXCEPT ![p] = r]
  PROVE  poll' \in [Polls -> PollRecs] /\ poll'[p] = r /\ \A q \in Polls \ {p} : poll'[q] = poll[q]
  BY DEF TypeOK

LEMMA ForgottenType == Forgotten \in [rev : Nat, by : Polls \cup {"none"}] /\ Forgotten.rev = 0
  BY DEF Forgotten

\* A change is updated.
LEMMA UpdateIInv ==
  ASSUME IInv, NEW n \in DOMAIN open, NEW i \in DOMAIN open[n], NEW pushed \in BOOLEAN,
         Update(n, i, pushed)
  PROVE  IInv' /\ since' >= since
<1> DEFINE d == open[n][i]
<1>0. TypeOK /\ Times /\ Listed /\ d \in Changes /\ i \in Nat
  BY OpenType DEF IInv
<1> HIDE DEF d
<1>a. UNCHANGED <<since, revisions>> /\ passedOver' = passedOver \ {d}
  BY DEF Update, d
<1>b. clock' \in Nat /\ clock' >= clock /\ clock' >= 1 /\ updates' \in Nat
  <2>1. clock' \in {clock, clock + 1} \ {0} /\ updates' = updates + 1
    BY DEF Update
  <2>2. clock \in Nat /\ updates \in Nat
    BY <1>0 DEF TypeOK
  <2> QED
    BY <2>1, <2>2
<1>c. owed' \in SUBSET Changes /\ owed' \subseteq owed \cup {d} /\ (~pushed => owed' = owed)
  BY <1>0 DEF Update, TypeOK, d
<1>d. /\ change' \in [Changes -> Entries] /\ \A c \in Changes \ {d} : change'[c] = change[c]
      /\ change'[d].updated = clock'
      /\ change'[d].rev = IF pushed THEN change[d].rev + 1 ELSE change[d].rev
  <2> DEFINE e == [rev |-> IF pushed THEN change[d].rev + 1 ELSE change[d].rev, updated |-> clock']
  <2>1. change[d] \in Entries /\ change[d].rev \in Nat
    BY <1>0 DEF TypeOK, Entries
  <2>2. e \in Entries /\ e.updated = clock'
        /\ e.rev = IF pushed THEN change[d].rev + 1 ELSE change[d].rev
    BY <1>b, <2>1 DEF Entries
  <2>3. change' = [change EXCEPT ![d] = e]
    BY <1>0 DEF Update, TypeOK, d
  <2> HIDE DEF e
  <2> QED
    BY <1>0, <2>2, <2>3 DEF TypeOK
<1>e. change[d].rev \in Nat /\ since \in Nat /\ clock \in Nat
  BY <1>0 DEF TypeOK, Entries
<1>p. /\ poll' \in [Polls -> PollRecs]
      /\ \A p \in Polls : /\ Same(p) /\ poll[p].stirred \subseteq poll'[p].stirred
                          /\ Reading(p, n) \/ HasRead(p, n) => d \in poll'[p].stirred
  <2> DEFINE readers == {p \in Polls : Reading(p, n) \/ HasRead(p, n)}
  <2>1. Stirred({d}, readers) /\ {d} \in SUBSET Changes
    BY <1>0 DEF Update, d
  <2>2. \A p \in Polls : Reading(p, n) \/ HasRead(p, n) => p \in readers
    OBVIOUS
  <2> HIDE DEF readers
  <2> QED
    BY <1>0, <2>1, <2>2, StirredEffect
\* Where a change is listed now, it was listed before, or higher up; but for d.
<1> DEFINE was(q, k) == IF q = n /\ k <= i THEN k - 1 ELSE k
<1>o. /\ open' \in Seq(Seq(Changes)) /\ DOMAIN open' = DOMAIN open
      /\ \A q \in DOMAIN open : DOMAIN open'[q] = DOMAIN open[q]
      /\ open'[n][1] = d /\ 1 \in DOMAIN open[n]
      /\ \A q \in DOMAIN open : \A k \in DOMAIN open[q] : ~(q = n /\ k = 1) =>
           /\ was(q, k) \in DOMAIN open[q] /\ was(q, k) <= k /\ k \in Nat
           /\ open'[q][k] = open[q][was(q, k)] /\ open[q][was(q, k)] # d
  <2> DEFINE t == <<open[n][i]>> \o RemoveAt(open[n], i)
  <2>1. /\ open[n] \in Seq(Changes) /\ i \in 1..Len(open[n]) /\ DOMAIN open[n] = 1..Len(open[n])
        /\ Len(open[n]) \in Nat
    BY <1>0, OpenType
  <2>2. /\ t \in Seq(Changes) /\ Len(t) = Len(open[n]) /\ t[1] = d
        /\ \A k \in 2..Len(open[n]) : t[k] = IF k <= i THEN open[n][k - 1] ELSE open[n][k]
    BY <2>1, MoveUp DEF d
  <2>3. open' = [open EXCEPT ![n] = t]
    BY DEF Update
  <2> HIDE DEF t
  <2>4. /\ open' \in Seq(Seq(Changes)) /\ DOMAIN open' = DOMAIN open /\ open'[n] = t
        /\ \A q \in DOMAIN open \ {n} : open'[q] = open[q]
    BY <1>0, <2>2, <2>3, OpenSet
  <2>5. DOMAIN open'[n] = DOMAIN open[n] /\ 1 \in DOMAIN open[n]
    BY <2>1, <2>2, <2>4
  <2>6. ASSUME NEW q \in DOMAIN open, NEW k \in DOMAIN open[q], ~(q = n /\ k = 1)
        PROVE  /\ was(q, k) \in DOMAIN open[q] /\ was(q, k) <= k /\ k \in Nat
               /\ open'[q][k] = open[q][was(q, k)] /\ open[q][was(q, k)] # d
    <3>0. k \in Nat /\ DOMAIN open[q] = 1..Len(open[q]) /\ Len(open[q]) \in Nat
      BY <1>0, OpenType
    <3>1. CASE q = n
      <4>1. k \in 2..Len(open[n])
        BY <2>1, <2>6, <3>1
      <4>2. was(q, k) \in DOMAIN open[q] /\ was(q, k) <= k /\ was(q, k) # i
        BY <1>0, <2>1, <3>0, <3>1, <4>1
      <4>3. open'[q][k] = open[q][was(q, k)]
        BY <2>2, <2>4, <3>1, <4>1
      <4>4. open[q][was(q, k)] # open[n][i]
        BY <1>0, <2>6, <3>1, <4>2 DEF Listed
      <4> QED
        BY <3>0, <4>2, <4>3, <4>4 DEF d
    <3>2. CASE q # n
      <4>1. was(q, k) = k
        BY <3>2
      <4>2. open[q][k] # open[n][i]
        BY <1>0, <2>6, <3>2 DEF Listed
      <4> QED
        BY <2>4, <3>0, <3>2, <4>1, <4>2 DEF d
    <3> QED
      BY <3>1, <3>2
  <2> QED
    BY <2>2, <2>4, <2>5, <2>6
<1>1. TypeOK'
  BY <1>0, <1>a, <1>b, <1>c, <1>d, <1>p, <1>o DEF TypeOK
<1>2. Times'
  <2>1. \A c \in Changes : change[c].updated \in Nat /\ change[c].rev \in Nat
    BY <1>0 DEF TypeOK, Entries
  <2>2. ASSUME NEW c \in Changes PROVE change'[c].updated <= clock' /\ change'[c].rev >= 1
    BY <1>0, <1>b, <1>d, <1>e, <2>1 DEF Times
  <2> QED
    BY <1>0, <1>a, <1>b, <1>e, <2>2 DEF Times
<1>3. ASSUME NEW p \in Polls PROVE PollInv(p)'
  <2>1. PollInv(p) /\ DOMAIN poll[p].found \subseteq Changes
        /\ \A c \in DOMAIN poll[p].found : poll[p].found[c].rev \in Nat /\ poll[p].found[c].updated \in Nat
    BY <1>0, PollType DEF IInv, Entries
  <2>2. ASSUME NEW c \in DOMAIN poll[p].found
        PROVE  poll[p].found[c].updated <= clock' /\ poll[p].found[c].rev <= change'[c].rev
    BY <1>b, <1>d, <1>e, <2>1 DEF PollInv
  <2> QED
    BY <1>a, <1>p, <2>1, <2>2 DEF PollInv, Same
<1>4. ASSUME NEW c \in Changes PROVE Remembered(c)'
  <2>0. \A p \in Polls : poll'[p].pending = poll[p].pending /\ poll'[p].found = poll[p].found
    BY <1>p DEF Same
  <2>1. Remembered(c) /\ revisions[c].rev \in Nat
    BY <1>0 DEF IInv, TypeOK
  <2>2. CASE c # d \/ ~pushed
    BY <1>a, <1>c, <1>d, <2>0, <2>1, <2>2 DEF Remembered
  <2>3. CASE c = d /\ pushed
    <3>1. revisions'[c].rev < change'[c].rev
      BY <1>a, <1>d, <1>e, <2>1, <2>3 DEF Remembered
    <3> QED
      BY <1>a, <1>d, <1>e, <2>1, <2>3, <3>1 DEF Remembered
  <2> QED
    BY <2>2, <2>3
<1>5. ASSUME NEW c \in (owed \ passedOver)' PROVE Window(c)'
  <2>1. CASE c = d
    <3>1. change'[c].updated > since'
      BY <1>0, <1>a, <1>b, <1>d, <1>e, <2>1 DEF Times
    <3>2. ASSUME NEW p \in Polls PROVE Covers(p, c)'
      <4>1. \A b \in DOMAIN poll[p].found : poll[p].found[b].updated <= clock'
        BY <1>3, <1>p DEF PollInv, Same
      <4>2. \A b \in DOMAIN poll[p].found : poll[p].found[b].updated \in Nat
        BY <1>0, PollType DEF Entries
      <4> QED
        BY <1>b, <1>d, <1>p, <2>1, <4>1, <4>2 DEF Covers, Same
    <3> QED
      BY <3>1, <3>2 DEF Window
  <2>2. CASE c # d
    <3>1. Window(c) /\ c \in Changes
      BY <1>0, <1>a, <1>c, <2>2 DEF IInv, TypeOK
    <3>2. change'[c] = change[c]
      BY <1>d, <2>2, <3>1
    <3> QED
      BY <1>a, <1>p, <3>1, <3>2 DEF Window, Covers, Seen, Same
  <2> QED
    BY <2>1, <2>2
<1>6. Listed'
  <2>0. \A c \in Changes : change[c].updated \in Nat /\ change[c].updated <= clock
    BY <1>0 DEF TypeOK, Entries, Times
  <2>1. ASSUME NEW q \in DOMAIN open, NEW s \in DOMAIN open, NEW k \in DOMAIN open[q],
               NEW j \in DOMAIN open[s], open'[q][k] = open'[s][j]
        PROVE  q = s /\ k = j
    <3>1. CASE ~(q = n /\ k = 1) /\ ~(s = n /\ j = 1)
      <4>1. q = s /\ was(q, k) = was(s, j)
        <5>1. open[q][was(q, k)] = open[s][was(s, j)]
          BY <1>o, <2>1, <3>1
        <5>2. was(q, k) \in DOMAIN open[q] /\ was(s, j) \in DOMAIN open[s]
          BY <1>o, <3>1
        <5> HIDE DEF was
        <5> QED
          BY <1>0, <5>1, <5>2 DEF Listed
      <4>2. k \in Nat /\ j \in Nat /\ (q = n => k # 1 /\ j # 1)
        BY <1>o, <3>1, <4>1
      <4>3. DOMAIN open[q] = 1..Len(open[q])
        BY <1>0, OpenType
      <4> QED
        BY <1>0, <4>1, <4>2
    <3>2. CASE (q = n /\ k = 1) \/ (s = n /\ j = 1)
      <4>1. q = n /\ k = 1 /\ s = n /\ j = 1
        BY <1>o, <2>1, <3>2
      <4> QED
        BY <4>1
    <3> QED
      BY <3>1, <3>2
  <2>2. ASSUME NEW q \in DOMAIN open, NEW k \in DOMAIN open[q], NEW j \in DOMAIN open[q], k < j
        PROVE  change'[open'[q][j]].updated <= change'[open'[q][k]].updated
    <3>0. k \in Nat /\ j \in Nat /\ k >= 1 /\ j >= 1
      BY <1>0, OpenType
    <3>1. ~(q = n /\ j = 1) /\ open'[q][j] = open[q][was(q, j)] /\ open[q][was(q, j)] # d
          /\ was(q, j) \in DOMAIN open[q] /\ open[q][was(q, j)] \in Changes
      BY <1>0, <1>o, <2>2, <3>0, OpenType
    <3>2. change'[open'[q][j]] = change[open[q][was(q, j)]]
      BY <1>d, <3>1
    <3>3. CASE q = n /\ k = 1
      <4>1. change[open[q][was(q, j)]].updated <= clock
            /\ change[open[q][was(q, j)]].updated \in Nat
        BY <2>0, <3>1
      <4>2. open'[q][k] = d
        BY <1>o, <3>3
      <4>3. change'[open'[q][k]].updated = clock'
        BY <1>d, <4>2
      <4>4. change'[open'[q][j]].updated <= clock
        BY <3>2, <4>1
      <4>5. change'[open'[q][j]].updated \in Nat
        BY <3>2, <4>1
      <4> QED
        BY <1>b, <1>e, <4>3, <4>4, <4>5
    <3>4. CASE ~(q = n /\ k = 1)
      <4>1. open'[q][k] = open[q][was(q, k)] /\ open[q][was(q, k)] # d
            /\ was(q, k) \in DOMAIN open[q] /\ open[q][was(q, k)] \in Changes
        BY <1>0, <1>o, <3>4, OpenType
      <4>2. was(q, k) < was(q, j)
        BY <1>0, <2>2, <3>0
      <4>3. change'[open'[q][k]] = change[open[q][was(q, k)]]
        BY <1>d, <4>1
      <4> HIDE DEF was
      <4> QED
        BY <1>0, <3>1, <3>2, <4>1, <4>2, <4>3 DEF Listed
    <3> QED
      BY <3>3, <3>4
  <2>3. ASSUME NEW c \in owed' PROVE \E q \in DOMAIN open : \E k \in DOMAIN open[q] : open'[q][k] = c
    <3>1. CASE c = d
      BY <1>o, <3>1
    <3>2. CASE c # d
      <4>1. PICK q \in DOMAIN open : \E m \in DOMAIN open[q] : open[q][m] = c
        BY <1>0, <1>c, <2>3, <3>2 DEF Listed
      <4>2. PICK m \in DOMAIN open[q] : open[q][m] = c
        BY <4>1
      <4>3. m \in Nat /\ m >= 1 /\ Len(open[q]) \in Nat /\ DOMAIN open[q] = 1..Len(open[q])
        BY <1>0, OpenType
      <4>4. CASE q = n /\ m <= i
        <5>1. m # i
          BY <3>2, <4>2, <4>4 DEF d
        <5>2. m + 1 \in DOMAIN open[q] /\ m + 1 # 1 /\ was(q, m + 1) = m
          BY <1>0, <4>3, <4>4, <5>1, OpenType
        <5> QED
          BY <1>o, <4>2, <5>2
      <4>5. CASE ~(q = n /\ m <= i)
        <5>1. was(q, m) = m /\ ~(q = n /\ m = 1)
          BY <1>0, <4>3, <4>5, OpenType
        <5> QED
          BY <1>o, <4>2, <5>1
      <4> QED
        BY <4>4, <4>5
    <3> QED
      BY <3>1, <3>2
  <2> HIDE DEF was
  <2> QED
    BY <1>o, <2>1, <2>2, <2>3 DEF Listed
<1>7. ASSUME NEW p \in Polls PROVE ReadUp(p)'
  <2>1. /\ poll'[p].at = poll[p].at /\ poll'[p].complete = poll[p].complete
        /\ poll'[p].since = poll[p].since /\ poll'[p].repo = poll[p].repo /\ poll'[p].page = poll[p].page
    BY <1>p DEF Same
  <2>2. ASSUME poll[p].at = "scan", poll[p].complete,
               NEW q \in DOMAIN open, NEW k \in DOMAIN open'[q], PageOf(p, q, k),
               open'[q][k] \notin poll'[p].stirred,
               change'[open'[q][k]].updated > poll[p].since
        PROVE  open'[q][k] \in DOMAIN poll'[p].found
               /\ poll'[p].found[open'[q][k]] = change'[open'[q][k]]
    <3>0. poll[p].repo \in Nat /\ poll[p].page \in Nat /\ PageSize \in Nat /\ q \in Nat /\ k \in Nat
          /\ k >= 1
      <4>1. poll[p].repo \in Nat /\ poll[p].page \in Nat /\ PageSize \in Nat
        BY <1>0, PollType, DiscoveryAssumption DEF PollRecs
      <4>2. DOMAIN open = 1..Len(open) /\ DOMAIN open'[q] = 1..Len(open[q])
        BY <1>0, <1>o, OpenType
      <4>3. q \in Nat /\ k \in Nat /\ k >= 1
        BY <2>2, <4>2
      <4> QED
        BY <4>1, <4>3
    <3>1. ~(q = n /\ k = 1)
      <4>1. poll[p].page = 0 => poll[p].page * PageSize = 0
        BY <3>0
      <4>2. PageOf(p, n, 1) => Reading(p, n) \/ HasRead(p, n)
        BY <2>2, <3>0, <4>1 DEF PageOf, Reading, HasRead
      <4> QED
        BY <1>o, <1>p, <2>2, <4>2
    <3> DEFINE m == was(q, k)
    <3>2. m \in DOMAIN open[q] /\ m <= k /\ m \in Nat /\ open'[q][k] = open[q][m] /\ open[q][m] # d
          /\ open[q][m] \in Changes
      BY <1>0, <1>o, <3>1, OpenType
    <3> HIDE DEF m, was
    <3>3. PageOf(p, q, m)
      <4>1. poll[p].page * PageSize \in Nat
        BY <3>0
      <4> QED
        BY <2>2, <3>0, <3>2, <4>1 DEF PageOf
    <3>4. change'[open'[q][k]] = change[open[q][m]]
      BY <1>d, <3>2
    <3>5. Seen(p, open[q][m])
      BY <1>p, <2>2, <3>2, <3>3, <3>4 DEF IInv, ReadUp
    <3> QED
      BY <1>p, <3>2, <3>4, <3>5 DEF Seen, Same
  <2>3. DOMAIN open' = DOMAIN open
    BY <1>o
  <2>4. \A q, k : PageOf(p, q, k)' <=> PageOf(p, q, k)
    BY <2>1 DEF PageOf
  <2> QED
    BY <2>1, <2>2, <2>3, <2>4 DEF ReadUp, Seen
<1> QED
  BY <1>1, <1>2, <1>3, <1>4, <1>5, <1>6, <1>7, <1>a, <1>e DEF IInv

\* A change is closed.
LEMMA CloseIInv ==
  ASSUME IInv, NEW n \in DOMAIN open, NEW i \in DOMAIN open[n], Close(n, i)
  PROVE  IInv' /\ since' >= since
<1> DEFINE d == open[n][i]
<1>0. TypeOK /\ Times /\ Listed /\ d \in Changes /\ i \in Nat /\ since \in Nat
  BY OpenType DEF IInv, TypeOK
<1> HIDE DEF d
<1>a. /\ UNCHANGED <<clock, updates, change, since, revisions, passedOver>>
      /\ owed' = owed \ {d}
  BY DEF Close, d
<1>p. /\ poll' \in [Polls -> PollRecs]
      /\ \A p \in Polls : /\ Same(p) /\ poll[p].stirred \subseteq poll'[p].stirred
                          /\ Reading(p, n) => \A k \in DOMAIN open[n] : open[n][k] \in poll'[p].stirred
  <2> DEFINE readers == {p \in Polls : Reading(p, n)}
  <2>1. Stirred(ToSet(open[n]), readers)
    BY DEF Close
  <2>2. ToSet(open[n]) \in SUBSET Changes /\ \A k \in DOMAIN open[n] : open[n][k] \in ToSet(open[n])
    BY <1>0, OpenType DEF ToSet
  <2>3. \A p \in Polls : Reading(p, n) => p \in readers
    OBVIOUS
  <2> HIDE DEF readers
  <2>4. \A p \in Polls : Reading(p, n) => ToSet(open[n]) \subseteq poll'[p].stirred
    BY <1>0, <2>1, <2>2, <2>3, StirredEffect
  <2> QED
    BY <1>0, <2>1, <2>2, <2>4, StirredEffect
\* Where a change is listed now, it was listed before, or further down.
<1> DEFINE was(q, k) == IF q = n /\ k >= i THEN k + 1 ELSE k
<1>o. /\ open' \in Seq(Seq(Changes)) /\ DOMAIN open' = DOMAIN open
      /\ \A q \in DOMAIN open \ {n} : open'[q] = open[q]
      /\ DOMAIN open'[n] = 1..(Len(open[n]) - 1)
      /\ \A q \in DOMAIN open' : \A k \in DOMAIN open'[q] :
           k \in Nat /\ was(q, k) \in DOMAIN open[q] /\ open'[q][k] = open[q][was(q, k)]
  <2> DEFINE t == RemoveAt(open[n], i)
  <2>1. /\ open[n] \in Seq(Changes) /\ i \in 1..Len(open[n]) /\ DOMAIN open[n] = 1..Len(open[n])
        /\ Len(open[n]) \in Nat
    BY <1>0, OpenType
  <2>2. /\ t \in Seq(Changes) /\ Len(t) = Len(open[n]) - 1
        /\ \A k \in 1..(Len(open[n]) - 1) : t[k] = IF k < i THEN open[n][k] ELSE open[n][k + 1]
    BY <2>1, RemoveAtEffect
  <2>3. open' = [open EXCEPT ![n] = t]
    BY DEF Close
  <2> HIDE DEF t
  <2>4. /\ open' \in Seq(Seq(Changes)) /\ DOMAIN open' = DOMAIN open /\ open'[n] = t
        /\ \A q \in DOMAIN open \ {n} : open'[q] = open[q]
    BY <1>0, <2>2, <2>3, OpenSet
  <2>5. DOMAIN open'[n] = 1..(Len(open[n]) - 1)
    BY <2>1, <2>2, <2>4
  <2>6. ASSUME NEW q \in DOMAIN open', NEW k \in DOMAIN open'[q]
        PROVE  k \in Nat /\ was(q, k) \in DOMAIN open[q] /\ open'[q][k] = open[q][was(q, k)]
    <3>1. CASE q = n
      <4>1. k \in 1..(Len(open[n]) - 1) /\ open'[q][k] = t[k]
        BY <2>4, <2>5, <2>6, <3>1
      <4>2. t[k] = open[n][was(q, k)]
        <5>1. CASE k < i
          BY <1>0, <2>1, <2>2, <3>1, <4>1, <5>1
        <5>2. CASE ~(k < i)
          BY <1>0, <2>1, <2>2, <3>1, <4>1, <5>2
        <5> QED
          BY <5>1, <5>2
      <4>3. k \in Nat /\ was(q, k) \in DOMAIN open[q]
        BY <1>0, <2>1, <3>1, <4>1
      <4> QED
        BY <3>1, <4>1, <4>2, <4>3
    <3>2. CASE q # n
      BY <1>0, <2>4, <3>2, OpenType
    <3> QED
      BY <3>1, <3>2
  <2> QED
    BY <2>4, <2>5, <2>6
<1>1. TypeOK'
  BY <1>0, <1>a, <1>p, <1>o DEF TypeOK
<1>2. Times'
  BY <1>0, <1>a DEF Times
<1>3. ASSUME NEW p \in Polls PROVE PollInv(p)'
  BY <1>a, <1>p DEF IInv, PollInv, Same
<1>4. ASSUME NEW c \in Changes PROVE Remembered(c)'
  <2>1. \A p \in Polls : poll'[p].pending = poll[p].pending /\ poll'[p].found = poll[p].found
    BY <1>p DEF Same
  <2> QED
    BY <1>a, <2>1 DEF IInv, Remembered
<1>5. ASSUME NEW c \in (owed \ passedOver)' PROVE Window(c)'
  BY <1>a, <1>p DEF IInv, Window, Covers, Seen, Same
<1>6. Listed'
  <2>1. ASSUME NEW q \in DOMAIN open', NEW s \in DOMAIN open', NEW k \in DOMAIN open'[q],
               NEW j \in DOMAIN open'[s], open'[q][k] = open'[s][j]
        PROVE  q = s /\ k = j
    <3>1. q = s /\ was(q, k) = was(s, j) /\ k \in Nat /\ j \in Nat
      BY <1>0, <1>o, <2>1 DEF Listed
    <3> QED
      BY <1>0, <3>1
  <2>2. ASSUME NEW q \in DOMAIN open', NEW k \in DOMAIN open'[q], NEW j \in DOMAIN open'[q], k < j
        PROVE  change'[open'[q][j]].updated <= change'[open'[q][k]].updated
    <3>1. was(q, k) < was(q, j)
      BY <1>0, <1>o, <2>2
    <3> HIDE DEF was
    <3> QED
      BY <1>0, <1>a, <1>o, <3>1 DEF Listed
  <2>3. ASSUME NEW c \in owed' PROVE \E q \in DOMAIN open' : \E k \in DOMAIN open'[q] : open'[q][k] = c
    <3>1. c # d /\ c \in owed
      BY <1>a
    <3>2. PICK q \in DOMAIN open : \E m \in DOMAIN open[q] : open[q][m] = c
      BY <1>0, <3>1 DEF Listed
    <3>3. PICK m \in DOMAIN open[q] : open[q][m] = c
      BY <3>2
    <3>4. m \in Nat /\ m >= 1 /\ Len(open[q]) \in Nat /\ DOMAIN open[q] = 1..Len(open[q])
      BY <1>0, OpenType
    <3>5. CASE q = n
      <4>1. m # i
        BY <3>1, <3>3, <3>5 DEF d
      <4>2. CASE m < i
        <5>1. m \in DOMAIN open'[q] /\ was(q, m) = m
          BY <1>0, <1>o, <3>4, <3>5, <4>2, OpenType
        <5> QED
          BY <1>o, <3>3, <5>1
      <4>3. CASE m > i
        <5>1. m - 1 \in DOMAIN open'[q] /\ was(q, m - 1) = m
          BY <1>0, <1>o, <3>4, <3>5, <4>3, OpenType
        <5> QED
          BY <1>o, <3>3, <5>1
      <4> QED
        BY <1>0, <3>4, <4>1, <4>2, <4>3
    <3>6. CASE q # n
      BY <1>o, <3>3, <3>6
    <3> QED
      BY <3>5, <3>6
  <2> HIDE DEF was
  <2> QED
    BY <1>o, <2>1, <2>2, <2>3 DEF Listed
<1>7. ASSUME NEW p \in Polls PROVE ReadUp(p)'
  <2>1. /\ poll'[p].at = poll[p].at /\ poll'[p].complete = poll[p].complete
        /\ poll'[p].since = poll[p].since /\ poll'[p].repo = poll[p].repo /\ poll'[p].page = poll[p].page
    BY <1>p DEF Same
  <2>2. ASSUME poll[p].at = "scan", poll[p].complete,
               NEW q \in DOMAIN open', NEW k \in DOMAIN open'[q], PageOf(p, q, k),
               open'[q][k] \notin poll'[p].stirred,
               change'[open'[q][k]].updated > poll[p].since
        PROVE  open'[q][k] \in DOMAIN poll'[p].found
               /\ poll'[p].found[open'[q][k]] = change'[open'[q][k]]
    <3>0. /\ poll[p].repo \in Nat /\ poll[p].page \in Nat /\ PageSize \in Nat /\ q \in Nat
          /\ DOMAIN open[q] = 1..Len(open[q])
      BY <1>0, <1>o, PollType, OpenType, DiscoveryAssumption DEF PollRecs
    <3> DEFINE m == was(q, k)
    <3>1. m \in DOMAIN open[q] /\ open'[q][k] = open[q][m] /\ k \in Nat
      BY <1>o
    <3>2. q \in DOMAIN open /\ (q # n => m = k)
      BY <1>o
    <3>3. k >= 1
      <4>1. CASE q = n
        BY <1>o, <4>1
      <4>2. CASE q # n
        BY <3>0, <3>1, <3>2, <4>2
      <4> QED
        BY <4>1, <4>2
    <3> HIDE DEF m, was
    <3>4. PageOf(p, q, m)
      <4>1. CASE q # n
        BY <2>2, <3>2, <4>1
      <4>2. CASE q = n
        <5>1. ~Reading(p, n)
          BY <1>p, <2>2, <3>1, <4>2
        <5>2. poll[p].page = 0 => poll[p].page * PageSize = 0
          BY <3>0
        <5>3. poll[p].repo > q
          BY <2>2, <3>0, <3>1, <3>3, <4>2, <5>1, <5>2 DEF PageOf, Reading
        <5> QED
          BY <2>2, <5>3 DEF PageOf
      <4> QED
        BY <4>1, <4>2
    <3>5. Seen(p, open[q][m])
      BY <1>a, <1>p, <2>2, <3>1, <3>2, <3>4 DEF IInv, ReadUp
    <3> QED
      BY <1>a, <1>p, <3>1, <3>5 DEF Seen, Same
  <2>3. DOMAIN open' = DOMAIN open
    BY <1>o
  <2>4. \A q, k : PageOf(p, q, k)' <=> PageOf(p, q, k)
    BY <2>1 DEF PageOf
  <2> QED
    BY <2>1, <2>2, <2>3, <2>4 DEF ReadUp, Seen
<1> QED
  BY <1>1, <1>2, <1>3, <1>4, <1>5, <1>6, <1>7, <1>a, <1>0 DEF IInv

\* A step of one poll that leaves the provider and the watermark alone.
LEMMA OnePoll ==
  ASSUME IInv, NEW p \in Polls, TypeOK', UNCHANGED <<provider, since>>,
         \A q \in Polls \ {p} : poll'[q] = poll[q], PollInv(p)', ReadUp(p)',
         \A c \in Changes : Remembered(c)',
         owed' \subseteq owed, passedOver \subseteq passedOver',
         \A d \in owed' \ passedOver' : Covers(p, d)'
  PROVE  IInv' /\ since' >= since
<1>1. clock' = clock /\ change' = change /\ open' = open /\ since' = since /\ since \in Nat
  BY DEF provider, IInv, TypeOK
<1>2. Times' /\ Listed'
  BY <1>1 DEF IInv, Times, Listed
<1>3. \A q \in Polls : PollInv(q)' /\ ReadUp(q)'
  BY <1>1 DEF IInv, PollInv, ReadUp, PageOf, Seen
<1>4. ASSUME NEW d \in (owed \ passedOver)' PROVE Window(d)'
  <2>1. Window(d)
    BY DEF IInv
  <2>2. \A q \in Polls \ {p} : Covers(q, d)'
    BY <1>1, <2>1 DEF Window, Covers, Seen
  <2> QED
    BY <1>1, <2>1, <2>2 DEF Window
<1> QED
  BY <1>1, <1>2, <1>3, <1>4 DEF IInv

LEMMA PollStartsIInv ==
  ASSUME IInv, NEW p \in Polls, PollStarts(p)
  PROVE  IInv' /\ since' >= since
<1>0. TypeOK /\ since \in Nat /\ PollInv(p) /\ poll[p].at = "idle"
  BY DEF IInv, TypeOK, PollStarts
<1>a. UNCHANGED <<provider, since, owed, passedOver>> /\ clock' = clock /\ change' = change
      /\ updates' = updates /\ since' = since /\ open' = open
  BY DEF PollStarts, history, provider
<1>b. /\ poll' \in [Polls -> PollRecs] /\ \A q \in Polls \ {p} : poll'[q] = poll[q]
      /\ poll'[p].at = "scan" /\ poll'[p].since = since /\ DOMAIN poll'[p].found = {}
      /\ poll'[p].pending = {} /\ poll'[p].failed = {} /\ poll'[p].repo = 1 /\ poll'[p].page = 0
  <2> DEFINE r == [Idle EXCEPT !.at = "scan", !.since = since]
  <2>1. /\ r \in PollRecs /\ r.at = "scan" /\ r.since = since /\ r.found = Idle.found
        /\ r.pending = Idle.pending /\ r.failed = Idle.failed /\ r.repo = 1 /\ r.page = 0
    BY <1>0, IdleType DEF PollRecs
  <2>2. poll' = [poll EXCEPT ![p] = r]
    BY DEF PollStarts
  <2> HIDE DEF r
  <2> QED
    BY <1>0, <2>1, <2>2, PollSet, IdleType
<1>c. /\ revisions' \in [Changes -> [rev : Nat, by : Polls \cup {"none"}]]
      /\ \A c \in Changes : revisions'[c] \in {Forgotten, revisions[c]}
  BY <1>0, ForgottenType DEF PollStarts, TypeOK
<1>1. TypeOK'
  BY <1>0, <1>a, <1>b, <1>c DEF TypeOK
<1>2. PollInv(p)'
  BY <1>0, <1>a, <1>b DEF PollInv
<1>3. ASSUME NEW c \in Changes PROVE Remembered(c)'
  <2>1. Remembered(c) /\ change[c].rev >= 1 /\ change[c].rev \in Nat
    BY <1>0 DEF IInv, TypeOK, Entries, Times
  <2>2. CASE revisions'[c] = Forgotten
    <3>1. revisions'[c].rev = 0
      BY <2>2, ForgottenType
    <3> QED
      BY <1>a, <2>1, <3>1 DEF Remembered
  <2>3. CASE revisions'[c] = revisions[c]
    <3>1. poll[p].pending = {}
      BY <1>0 DEF PollInv
    <3>2. \A q \in Polls : c \in poll[q].pending => poll'[q] = poll[q]
      BY <1>b, <3>1
    <3> QED
      BY <1>a, <2>1, <2>3, <3>2 DEF Remembered
  <2> QED
    BY <1>c, <2>2, <2>3
<1>4. \A d \in owed' \ passedOver' : Covers(p, d)'
  BY <1>b DEF Covers
<1>5. ReadUp(p)'
  <2>1. \A n \in DOMAIN open : n \in Nat /\ n >= 1 /\ \A i \in DOMAIN open[n] : i \in Nat /\ i >= 1
    BY <1>0, OpenType
  <2>2. 0 * PageSize = 0
    BY DiscoveryAssumption
  <2>3. \A n \in DOMAIN open : \A i \in DOMAIN open[n] : ~PageOf(p, n, i)'
    BY <1>b, <2>1, <2>2 DEF PageOf
  <2> QED
    BY <1>a, <2>3 DEF ReadUp
<1> QED
  BY <1>1, <1>2, <1>3, <1>4, <1>5, <1>a, <1>b, OnePoll

\* A page is read.
LEMMA ReadPageIInv ==
  ASSUME IInv, NEW p \in Polls, ReadPage(p)
  PROVE  IInv' /\ since' >= since
<1>0. TypeOK /\ Times /\ since \in Nat /\ PollInv(p) /\ poll[p].at = "scan" /\ poll[p].since \in Nat
      /\ poll[p].repo \in DOMAIN open /\ poll[p].repo \in Nat /\ poll[p].page \in Nat
  <2>1. TypeOK /\ PollInv(p) /\ poll[p] \in PollRecs
    BY PollType DEF IInv
  <2>2. poll[p].repo \in Nat /\ poll[p].page \in Nat /\ poll[p].repo \in DOMAIN open
    <3>1. poll[p].repo \in Nat /\ poll[p].page \in Nat /\ poll[p].repo >= 1
      BY <2>1 DEF PollInv, PollRecs
    <3>2. poll[p].repo <= Len(open)
      BY DEF ReadPage, Scanning
    <3> QED
      BY <2>1, <3>1, <3>2, OpenType
  <2> QED
    BY <2>1, <2>2, PollType DEF IInv, TypeOK, ReadPage, Scanning
<1>a. UNCHANGED <<provider, since, owed, passedOver>> /\ clock' = clock /\ change' = change
      /\ updates' = updates /\ since' = since /\ revisions' = revisions /\ open' = open
  BY DEF ReadPage, history, provider
<1> DEFINE listed == open[poll[p].repo]
           from   == poll[p].page * PageSize
           batch  == {listed[i] : i \in DOMAIN listed \cap (from + 1 .. from + PageSize)}
           found  == {c \in batch : change[c].updated > poll[p].since}
           last   == Len(listed) < from + PageSize \/ found # batch
           f      == [c \in DOMAIN poll[p].found \cup found |->
                        IF c \in found THEN change[c] ELSE poll[p].found[c]]
           repo   == IF last THEN poll[p].repo + 1 ELSE poll[p].repo
           page   == IF last THEN 0 ELSE poll[p].page + 1
<1>s. poll' = [poll EXCEPT ![p].found = f, ![p].repo = repo, ![p].page = page]
  BY <1>0 DEF ReadPage, TypeOK
<1>l. /\ listed \in Seq(Changes) /\ Len(listed) \in Nat /\ DOMAIN listed = 1..Len(listed)
      /\ from \in Nat /\ PageSize \in Nat /\ (poll[p].page + 1) * PageSize = from + PageSize
      /\ batch \subseteq Changes
  <2>1. listed \in Seq(Changes) /\ Len(listed) \in Nat /\ DOMAIN listed = 1..Len(listed)
        /\ \A i \in DOMAIN listed : listed[i] \in Changes
    BY <1>0, OpenType
  <2>2. PageSize \in Nat
    BY DiscoveryAssumption
  <2> HIDE DEF listed
  <2>3. from \in Nat /\ (poll[p].page + 1) * PageSize = from + PageSize
    BY <1>0, <2>2
  <2> QED
    BY <2>1, <2>2, <2>3
<1>f. found \subseteq Changes /\ DOMAIN f = DOMAIN poll[p].found \cup found
      /\ \A c \in DOMAIN f : f[c] = IF c \in found THEN change[c] ELSE poll[p].found[c]
  BY <1>l
<1>r. repo \in Nat /\ page \in Nat /\ repo >= 1
  BY <1>0 DEF PollInv
<1>b. /\ poll' \in [Polls -> PollRecs] /\ \A q \in Polls \ {p} : poll'[q] = poll[q]
      /\ poll'[p].at = "scan" /\ poll'[p].since = poll[p].since
      /\ poll'[p].found = f /\ poll'[p].complete = poll[p].complete
      /\ poll'[p].stirred = poll[p].stirred /\ poll'[p].repo = repo /\ poll'[p].page = page
      /\ poll'[p].pending = {} /\ poll'[p].failed = {}
  <2> DEFINE r == [poll[p] EXCEPT !.found = f, !.repo = repo, !.page = page]
  <2>1. poll[p] \in PollRecs /\ DOMAIN poll[p].found \subseteq Changes
        /\ \A c \in DOMAIN poll[p].found : poll[p].found[c] \in Entries
    BY <1>0, PollType
  <2> HIDE DEF found
  <2>2. f \in UNION {[V -> Entries] : V \in SUBSET Changes}
    <3>1. DOMAIN f \in SUBSET Changes /\ \A c \in DOMAIN f : f[c] \in Entries
      BY <1>0, <1>f, <2>1 DEF TypeOK
    <3>2. f \in [DOMAIN f -> Entries]
      BY <3>1
    <3> HIDE DEF f
    <3> QED
      BY <3>1, <3>2, FoundType
  <2> HIDE DEF f, repo, page
  <2>3. /\ r \in PollRecs /\ r.at = poll[p].at /\ r.since = poll[p].since /\ r.found = f
        /\ r.complete = poll[p].complete /\ r.stirred = poll[p].stirred
        /\ r.repo = repo /\ r.page = page
        /\ r.pending = poll[p].pending /\ r.failed = poll[p].failed
    BY <1>r, <2>1, <2>2 DEF PollRecs
  <2>4. poll' = [poll EXCEPT ![p] = r]
    BY <1>0, <1>s DEF TypeOK
  <2> HIDE DEF r
  <2>5. poll[p].pending = {} /\ poll[p].failed = {}
    BY <1>0 DEF PollInv
  <2> QED
    BY <1>0, <2>3, <2>4, <2>5, PollSet
<1>1. TypeOK'
  BY <1>0, <1>a, <1>b DEF TypeOK
<1>2. PollInv(p)'
  <2>1. ASSUME NEW c \in DOMAIN f
        PROVE  /\ f[c].updated > poll[p].since /\ f[c].updated <= clock
               /\ f[c].rev <= change[c].rev
    <3>1. CASE c \in found
      BY <1>0, <1>f, <3>1 DEF Times, TypeOK, Entries
    <3>2. CASE c \notin found
      <4> HIDE DEF found, f
      <4> QED
        BY <1>0, <1>f, <2>1, <3>2 DEF PollInv
    <3> QED
      BY <3>1, <3>2
  <2> HIDE DEF f, repo, page
  <2> QED
    BY <1>0, <1>a, <1>b, <1>r, <2>1 DEF PollInv
<1>3. ASSUME NEW c \in Changes PROVE Remembered(c)'
  <2>1. Remembered(c) /\ poll[p].pending = {}
    BY <1>0 DEF IInv, PollInv
  <2>2. \A q \in Polls : c \in poll[q].pending => poll'[q] = poll[q]
    BY <1>b, <2>1
  <2> QED
    BY <1>a, <2>1, <2>2 DEF Remembered
<1>4. \A d \in owed' \ passedOver' : Covers(p, d)'
  BY <1>b DEF Covers
<1>5. ReadUp(p)'
  <2> SUFFICES ASSUME poll[p].complete, NEW n \in DOMAIN open, NEW i \in DOMAIN open[n],
                      PageOf(p, n, i)', open[n][i] \notin poll[p].stirred,
                      change[open[n][i]].updated > poll[p].since
               PROVE  Seen(p, open[n][i])'
    <3> HIDE DEF f, repo, page
    <3> QED
      BY <1>a, <1>b DEF ReadUp
  <2>0. n \in Nat /\ n >= 1 /\ i \in Nat /\ i >= 1 /\ open[n][i] \in Changes
    BY <1>0, OpenType
  <2>1. CASE PageOf(p, n, i)
    <3>1. Seen(p, open[n][i])
      BY <1>0, <2>1 DEF IInv, ReadUp
    <3> HIDE DEF found, f, repo, page
    <3> QED
      BY <1>a, <1>b, <1>f, <3>1 DEF Seen
  <2>2. CASE n = poll[p].repo /\ i \in from + 1 .. from + PageSize
    <3>1. open[n][i] \in found
      BY <2>2
    <3> HIDE DEF found, f, repo, page
    <3> QED
      BY <1>a, <1>b, <1>f, <3>1 DEF Seen
  <2>3. CASE n = poll[p].repo /\ i > from + PageSize
    <3>1. last
      <4> HIDE DEF last
      <4>1. CASE last
        BY <4>1
      <4>2. CASE ~last
        <5>1. repo = poll[p].repo /\ page = poll[p].page + 1
          BY <4>2
        <5>2. i <= (poll[p].page + 1) * PageSize
          BY <1>0, <1>b, <2>0, <2>3, <5>1 DEF PageOf
        <5> QED
          BY <1>l, <2>0, <2>3, <5>2
      <4> QED
        BY <4>1, <4>2
    <3>2. Len(listed) >= i
      BY <1>0, <2>3, OpenType
    <3>3. found # batch
      <4> HIDE DEF found, batch, from
      <4> QED
        BY <1>l, <2>0, <2>3, <3>1, <3>2
    <3>4. PICK k \in DOMAIN listed \cap (from + 1 .. from + PageSize) :
                 ~(change[listed[k]].updated > poll[p].since)
      BY <3>3
    <3>5. k < i /\ k \in DOMAIN open[n]
      BY <1>l, <2>0, <2>3, <3>4
    <3>6. change[open[n][i]].updated <= change[open[n][k]].updated
      BY <2>0, <3>5 DEF IInv, Listed
    <3>7. open[n][k] \in Changes
      BY <1>0, <3>5, OpenType
    <3>8. change[open[n][i]].updated \in Nat /\ change[open[n][k]].updated \in Nat
      BY <1>0, <2>0, <3>7 DEF TypeOK, Entries
    <3>9. ~(change[open[n][k]].updated > poll[p].since)
      BY <2>3, <3>4
    <3> QED
      BY <1>0, <3>6, <3>8, <3>9
  <2>4. PageOf(p, n, i) \/ n = poll[p].repo
    <3>1. n < repo \/ (n = repo /\ i <= page * PageSize)
      <4> HIDE DEF repo, page
      <4> QED
        BY <1>b DEF PageOf
    <3>2. CASE last
      <4>1. repo = poll[p].repo + 1 /\ page * PageSize = 0
        <5>1. 0 * PageSize = 0
          BY <1>l
        <5> HIDE DEF last
        <5> QED
          BY <3>2, <5>1
      <4> HIDE DEF repo, page
      <4> QED
        BY <1>0, <2>0, <3>1, <4>1 DEF PageOf
    <3>3. CASE ~last
      <4>1. repo = poll[p].repo
        <5> HIDE DEF last
        <5> QED
          BY <3>3
      <4> HIDE DEF repo, page
      <4> QED
        BY <1>0, <2>0, <3>1, <4>1 DEF PageOf
    <3> QED
      BY <3>2, <3>3
  <2>5. n = poll[p].repo => PageOf(p, n, i) \/ i \in from + 1 .. from + PageSize \/ i > from + PageSize
    <3> HIDE DEF found, batch
    <3> QED
      BY <1>l, <2>0 DEF PageOf
  <2> QED
    BY <2>1, <2>2, <2>3, <2>4, <2>5
<1> HIDE DEF f, repo, page
<1> QED
  BY <1>1, <1>2, <1>3, <1>4, <1>5, <1>a, <1>b, OnePoll

\* A page cannot be read.
LEMMA PageFailsIInv ==
  ASSUME IInv, NEW p \in Polls, PageFails(p)
  PROVE  IInv' /\ since' >= since
<1>0. TypeOK /\ PollInv(p) /\ poll[p].at = "scan" /\ poll[p] \in PollRecs
  BY PollType DEF IInv, PageFails, Scanning
<1>a. UNCHANGED <<provider, since, owed, passedOver>> /\ clock' = clock /\ change' = change
      /\ updates' = updates /\ since' = since /\ revisions' = revisions /\ open' = open
  BY DEF PageFails, history, provider
<1>b. /\ poll' \in [Polls -> PollRecs] /\ \A q \in Polls \ {p} : poll'[q] = poll[q]
      /\ poll'[p].at = "scan" /\ poll'[p].since = poll[p].since
      /\ poll'[p].found = poll[p].found /\ poll'[p].complete = FALSE
      /\ poll'[p].repo = poll[p].repo + 1
      /\ poll'[p].pending = poll[p].pending /\ poll'[p].failed = poll[p].failed
  <2> DEFINE r == [poll[p] EXCEPT !.complete = FALSE, !.repo = poll[p].repo + 1, !.page = 0]
  <2>1. poll[p].repo + 1 \in Nat
    BY <1>0 DEF PollRecs
  <2>2. /\ r \in PollRecs /\ r.at = poll[p].at /\ r.since = poll[p].since
        /\ r.found = poll[p].found /\ r.complete = FALSE /\ r.repo = poll[p].repo + 1
        /\ r.pending = poll[p].pending /\ r.failed = poll[p].failed
    BY <1>0, <2>1 DEF PollRecs
  <2>3. poll' = [poll EXCEPT ![p] = r]
    BY <1>0 DEF TypeOK, PageFails
  <2> HIDE DEF r
  <2> QED
    BY <1>0, <2>2, <2>3, PollSet
<1>1. TypeOK'
  BY <1>0, <1>a, <1>b DEF TypeOK
<1>2. PollInv(p)'
  <2>1. poll[p].repo \in Nat
    BY <1>0 DEF PollRecs
  <2> QED
    BY <1>0, <1>a, <1>b, <2>1 DEF PollInv
<1>3. ASSUME NEW c \in Changes PROVE Remembered(c)'
  <2>1. Remembered(c) /\ poll[p].pending = {}
    BY <1>0 DEF IInv, PollInv
  <2>2. \A q \in Polls : c \in poll[q].pending => poll'[q] = poll[q]
    BY <1>b, <2>1
  <2> QED
    BY <1>a, <2>1, <2>2 DEF Remembered
<1>4. \A d \in owed' \ passedOver' : Covers(p, d)'
  BY <1>b DEF Covers
<1>5. ReadUp(p)'
  BY <1>b DEF ReadUp
<1> QED
  BY <1>1, <1>2, <1>3, <1>4, <1>5, <1>a, <1>b, OnePoll

LEMMA DispatchIInv ==
  ASSUME IInv, NEW p \in Polls, Dispatch(p)
  PROVE  IInv' /\ since' >= since
<1>0. TypeOK /\ PollInv(p) /\ poll[p].at = "scan" /\ poll[p] \in PollRecs
      /\ DOMAIN poll[p].found \subseteq Changes
  BY PollType DEF IInv, TypeOK, Dispatch
<1>a. UNCHANGED <<provider, since, owed>> /\ clock' = clock /\ change' = change
      /\ updates' = updates /\ since' = since /\ open' = open
  BY DEF Dispatch, provider
<1> DEFINE found == poll[p].found
           new   == {c \in DOMAIN found : found[c].rev # revisions[c].rev}
<1>p. passedOver' = passedOver \cup {c \in owed : \/ c \in DOMAIN found \ new /\ found[c] = change[c]
                                                 \/ Torn(p, c)}
  BY DEF Dispatch
<1>b. /\ poll' \in [Polls -> PollRecs] /\ \A q \in Polls \ {p} : poll'[q] = poll[q]
      /\ poll'[p].at = "dispatched" /\ poll'[p].since = poll[p].since
      /\ poll'[p].found = found /\ poll'[p].complete = poll[p].complete
      /\ poll'[p].pending = new /\ poll'[p].failed = poll[p].failed /\ poll'[p].repo = poll[p].repo
  <2>0. new \in SUBSET Changes
    BY <1>0
  <2>1. poll' = [poll EXCEPT ![p].at = "dispatched", ![p].stirred = {}, ![p].pending = new]
    BY DEF Dispatch
  <2> HIDE DEF new
  <2> DEFINE r == [poll[p] EXCEPT !.at = "dispatched", !.stirred = {}, !.pending = new]
  <2>2. /\ r \in PollRecs /\ r.at = "dispatched" /\ r.since = poll[p].since
        /\ r.found = poll[p].found /\ r.complete = poll[p].complete
        /\ r.pending = new /\ r.failed = poll[p].failed /\ r.repo = poll[p].repo
    BY <1>0, <2>0 DEF PollRecs
  <2>3. poll' = [poll EXCEPT ![p] = r]
    BY <1>0, <2>1 DEF TypeOK
  <2> HIDE DEF r
  <2> QED
    BY <1>0, <2>2, <2>3, PollSet
<1>c. /\ revisions' \in [Changes -> [rev : Nat, by : Polls \cup {"none"}]]
      /\ \A c \in new : revisions'[c].rev = found[c].rev /\ revisions'[c].by = p
      /\ \A c \in Changes \ new : revisions'[c] = revisions[c]
  <2>1. \A c \in DOMAIN found : found[c].rev \in Nat
    BY <1>0, PollType DEF Entries
  <2>2. revisions' = [c \in Changes |-> IF c \in new THEN [rev |-> found[c].rev, by |-> p]
                                                     ELSE revisions[c]]
    BY DEF Dispatch
  <2>3. new \subseteq Changes /\ new \subseteq DOMAIN found
    BY <1>0
  <2> HIDE DEF new, found
  <2> QED
    BY <1>0, <2>1, <2>2, <2>3 DEF TypeOK
<1>1. TypeOK'
  BY <1>0, <1>a, <1>b, <1>c, <1>p DEF TypeOK
<1>2. PollInv(p)'
  <2>1. new \subseteq DOMAIN found
    OBVIOUS
  <2> HIDE DEF new
  <2> QED
    BY <1>0, <1>a, <1>b, <2>1 DEF PollInv
<1>3. ASSUME NEW c \in Changes PROVE Remembered(c)'
  <2>1. Remembered(c) /\ poll[p].pending = {}
    BY <1>0 DEF IInv, PollInv
  <2>2. CASE c \in new
    <3>1. poll'[p].found[c].rev = revisions'[c].rev /\ c \in poll'[p].pending
          /\ revisions'[c].by = p
      BY <1>b, <1>c, <2>2
    <3>2. revisions'[c].rev <= change'[c].rev
      BY <1>0, <1>a, <1>c, <2>2 DEF PollInv
    <3> QED
      BY <3>1, <3>2 DEF Remembered
  <2>3. CASE c \notin new
    <3>1. \A q \in Polls : c \in poll[q].pending => poll'[q] = poll[q]
      BY <1>b, <2>1
    <3> HIDE DEF new
    <3> QED
      BY <1>a, <1>c, <2>1, <2>3, <3>1 DEF Remembered
  <2> QED
    BY <2>2, <2>3
<1>4. ASSUME NEW d \in owed' \ passedOver' PROVE Covers(p, d)'
  <2>1. d \in owed \ passedOver /\ Window(d) /\ d \in Changes /\ ~Torn(p, d)
        /\ (d \in DOMAIN found /\ found[d] = change[d] => d \in new)
    BY <1>0, <1>a, <1>p DEF IInv, TypeOK
  <2>2. /\ change[d].updated \in Nat /\ change[d].updated > since
        /\ \A c \in DOMAIN found : found[c].updated \in Nat
    BY <1>0, <2>1, PollType DEF TypeOK, Entries, Window
  <2> HIDE DEF new, found
  <2>3. CASE d \in DOMAIN found /\ found[d] = change[d]
    BY <1>a, <1>b, <2>1, <2>3 DEF Covers, Seen
  <2>4. CASE ~(d \in DOMAIN found /\ found[d] = change[d])
    <3> SUFFICES ASSUME poll[p].complete, poll[p].since = since, NEW c \in DOMAIN found
                 PROVE  change[d].updated >= found[c].updated
      BY <1>a, <1>b DEF Covers
    <3>1. PICK n \in DOMAIN open : \E i \in DOMAIN open[n] : open[n][i] = d
      BY <2>1 DEF IInv, Listed
    <3>2. PICK i \in DOMAIN open[n] : open[n][i] = d
      BY <3>1
    <3>3. PageOf(p, n, i)
      <4>1. poll[p].repo > Len(open) /\ poll[p].repo \in Nat
        BY <1>0 DEF Dispatch, PollRecs
      <4>2. n \in 1..Len(open) /\ Len(open) \in Nat
        BY <1>0, OpenType
      <4> QED
        BY <4>1, <4>2 DEF PageOf
    <3>4. d \in poll[p].stirred
      BY <1>0, <2>2, <2>4, <3>2, <3>3 DEF IInv, ReadUp, Seen, found
    <3>5. ~(found[c].updated > change[d].updated)
      BY <2>1, <2>4, <3>4 DEF Torn, found
    <3> QED
      BY <2>2, <3>5
  <2> QED
    BY <2>3, <2>4
<1>5. passedOver \subseteq passedOver' /\ owed' \subseteq owed
  BY <1>a, <1>p
<1> HIDE DEF new, found
<1>6. ReadUp(p)'
  BY <1>b DEF ReadUp
<1> QED
  BY <1>1, <1>2, <1>3, <1>4, <1>5, <1>6, <1>a, <1>b, OnePoll

\* A trigger has returned.
LEMMA TriggeredIInv ==
  ASSUME IInv, NEW p \in Polls, NEW t \in Changes, Triggered(p, t)
  PROVE  IInv' /\ since' >= since
<1>0. TypeOK /\ PollInv(p) /\ poll[p].at = "dispatched" /\ poll[p] \in PollRecs
      /\ t \in DOMAIN poll[p].found
  BY PollType DEF IInv, TypeOK, Triggered, PollInv
<1>a. UNCHANGED <<provider, since, passedOver>> /\ clock' = clock /\ change' = change
      /\ updates' = updates /\ since' = since /\ revisions' = revisions /\ open' = open
  BY DEF Triggered, provider
<1>b. /\ poll' \in [Polls -> PollRecs] /\ \A q \in Polls \ {p} : poll'[q] = poll[q]
      /\ poll'[p].at = poll[p].at /\ poll'[p].since = poll[p].since
      /\ poll'[p].found = poll[p].found /\ poll'[p].complete = poll[p].complete
      /\ poll'[p].pending = poll[p].pending \ {t} /\ poll'[p].failed = poll[p].failed /\ poll'[p].repo = poll[p].repo
  <2> DEFINE r == [poll[p] EXCEPT !.pending = poll[p].pending \ {t}]
  <2>1. poll[p].pending \ {t} \in SUBSET Changes
    BY <1>0 DEF PollRecs
  <2>2. /\ r \in PollRecs /\ r.at = poll[p].at /\ r.since = poll[p].since
        /\ r.found = poll[p].found /\ r.complete = poll[p].complete
        /\ r.pending = poll[p].pending \ {t} /\ r.failed = poll[p].failed /\ r.repo = poll[p].repo
    BY <1>0, <2>1 DEF PollRecs
  <2>3. poll' = [poll EXCEPT ![p] = r]
    BY <1>0 DEF TypeOK, Triggered
  <2> HIDE DEF r
  <2> QED
    BY <1>0, <2>2, <2>3, PollSet
<1>c. owed' = IF poll[p].found[t].rev = change[t].rev THEN owed \ {t} ELSE owed
  BY DEF Triggered
<1>1. TypeOK'
  BY <1>0, <1>a, <1>b, <1>c DEF TypeOK
<1>2. PollInv(p)'
  BY <1>0, <1>a, <1>b DEF PollInv
<1>3. ASSUME NEW c \in Changes PROVE Remembered(c)'
  <2>1. Remembered(c)
    BY DEF IInv
  <2>2. CASE c # t
    BY <1>a, <1>b, <1>c, <2>1, <2>2 DEF Remembered
  <2>3. CASE c = t /\ poll[p].found[t].rev = change[t].rev
    BY <1>a, <1>c, <2>1, <2>3 DEF Remembered
  <2>4. CASE c = t /\ poll[p].found[t].rev # change[t].rev
    BY <1>a, <1>b, <1>c, <2>1, <2>4 DEF Remembered
  <2> QED
    BY <2>2, <2>3, <2>4
<1>4. ASSUME NEW d \in owed' \ passedOver' PROVE Covers(p, d)'
  <2>1. d \in owed \ passedOver /\ Covers(p, d)
    BY <1>a, <1>c DEF IInv, Window
  <2>2. poll[p].found[d] = change[d] => d # t
    BY <1>c
  <2> QED
    BY <1>0, <1>a, <1>b, <2>1, <2>2 DEF Covers, Seen
<1>5. passedOver \subseteq passedOver' /\ owed' \subseteq owed
  BY <1>a, <1>c
<1>6. ReadUp(p)'
  BY <1>0, <1>b DEF ReadUp
<1> QED
  BY <1>1, <1>2, <1>3, <1>4, <1>5, <1>6, <1>a, <1>b, OnePoll

\* A trigger has thrown.
LEMMA TriggerFailsIInv ==
  ASSUME IInv, NEW p \in Polls, NEW t \in Changes, TriggerFails(p, t)
  PROVE  IInv' /\ since' >= since
<1>0. TypeOK /\ Times /\ PollInv(p) /\ poll[p] \in PollRecs /\ poll[p].at = "dispatched"
      /\ t \in DOMAIN poll[p].found
  BY PollType DEF IInv, TypeOK, TriggerFails, PollInv
<1>a. UNCHANGED <<provider, since, owed, passedOver>> /\ clock' = clock /\ change' = change
      /\ updates' = updates /\ since' = since /\ open' = open
  BY DEF TriggerFails, provider, history
<1>b. /\ poll' \in [Polls -> PollRecs] /\ \A q \in Polls \ {p} : poll'[q] = poll[q]
      /\ poll'[p].at = poll[p].at /\ poll'[p].since = poll[p].since
      /\ poll'[p].found = poll[p].found /\ poll'[p].complete = poll[p].complete
      /\ poll'[p].pending = poll[p].pending \ {t} /\ poll'[p].failed = poll[p].failed \cup {t} /\ poll'[p].repo = poll[p].repo
  <2> DEFINE r == [poll[p] EXCEPT !.pending = poll[p].pending \ {t}, !.failed = poll[p].failed \cup {t}]
  <2>1. poll[p].pending \ {t} \in SUBSET Changes /\ poll[p].failed \cup {t} \in SUBSET Changes
    BY <1>0 DEF PollRecs
  <2>2. /\ r \in PollRecs /\ r.at = poll[p].at /\ r.since = poll[p].since
        /\ r.found = poll[p].found /\ r.complete = poll[p].complete
        /\ r.pending = poll[p].pending \ {t} /\ r.failed = poll[p].failed \cup {t} /\ r.repo = poll[p].repo
    BY <1>0, <2>1 DEF PollRecs
  <2>3. poll' = [poll EXCEPT ![p] = r]
    BY <1>0 DEF TypeOK, TriggerFails
  <2> HIDE DEF r
  <2> QED
    BY <1>0, <2>2, <2>3, PollSet
<1>c. /\ revisions' \in [Changes -> [rev : Nat, by : Polls \cup {"none"}]]
      /\ \A c \in Changes \ {t} : revisions'[c] = revisions[c]
      /\ \/ revisions'[t] = Forgotten
         \/ revisions'[t] = revisions[t] /\ ~(revisions[t].rev = poll[p].found[t].rev /\ revisions[t].by = p)
  <2>1. revisions[t] \in [rev : Nat, by : Polls \cup {"none"}]
    BY <1>0 DEF TypeOK
  <2>2. CASE revisions[t] = [rev |-> poll[p].found[t].rev, by |-> p]
    BY <1>0, <2>2, ForgottenType DEF TypeOK, TriggerFails
  <2>3. CASE revisions[t] # [rev |-> poll[p].found[t].rev, by |-> p]
    <3>1. revisions' = revisions
      BY <2>3 DEF TriggerFails
    <3>2. ~(revisions[t].rev = poll[p].found[t].rev /\ revisions[t].by = p)
      BY <2>1, <2>3
    <3> QED
      BY <1>0, <3>1, <3>2 DEF TypeOK
  <2> QED
    BY <2>2, <2>3
<1>1. TypeOK'
  BY <1>0, <1>a, <1>b, <1>c DEF TypeOK
<1>2. PollInv(p)'
  BY <1>0, <1>a, <1>b DEF PollInv
<1>3. ASSUME NEW c \in Changes PROVE Remembered(c)'
  <2>1. Remembered(c) /\ change[c].rev >= 1 /\ change[c].rev \in Nat
    BY <1>0 DEF IInv, Times, TypeOK, Entries
  <2>2. CASE c # t
    BY <1>a, <1>b, <1>c, <2>1, <2>2 DEF Remembered
  <2>3. CASE c = t /\ revisions'[t] = Forgotten
    BY <1>a, <2>1, <2>3, ForgottenType DEF Remembered
  <2>4. CASE c = t /\ revisions'[t] = revisions[t]
             /\ ~(revisions[t].rev = poll[p].found[t].rev /\ revisions[t].by = p)
    BY <1>a, <1>b, <2>1, <2>4 DEF Remembered
  <2> QED
    BY <1>c, <2>2, <2>3, <2>4
<1>4. ASSUME NEW d \in owed' \ passedOver' PROVE Covers(p, d)'
  <2>1. Covers(p, d)
    BY <1>a DEF IInv, Window
  <2> QED
    BY <1>0, <1>a, <1>b, <2>1 DEF Covers, Seen
<1>5. passedOver \subseteq passedOver' /\ owed' \subseteq owed
  BY <1>a
<1>6. ReadUp(p)'
  BY <1>0, <1>b DEF ReadUp
<1> QED
  BY <1>1, <1>2, <1>3, <1>4, <1>5, <1>6, <1>a, <1>b, OnePoll

\* A poll ends, and may move the watermark.
LEMMA PollEndsIInv ==
  ASSUME IInv, NEW p \in Polls, PollEnds(p)
  PROVE  IInv' /\ since' >= since
<1>0. TypeOK /\ Times /\ PollInv(p) /\ poll[p].at = "dispatched" /\ poll[p].pending = {}
      /\ since \in Nat /\ clock \in Nat
  BY DEF IInv, TypeOK, PollEnds
<1>a. UNCHANGED <<provider, owed, passedOver>> /\ clock' = clock /\ change' = change
      /\ updates' = updates /\ revisions' = revisions /\ open' = open
  BY DEF PollEnds, provider, history
<1>b. /\ poll' \in [Polls -> PollRecs] /\ \A q \in Polls \ {p} : poll'[q] = poll[q]
      /\ poll'[p].at = "idle" /\ poll'[p].since = 0 /\ DOMAIN poll'[p].found = {}
      /\ poll'[p].pending = {} /\ poll'[p].failed = {} /\ poll'[p].repo = 1
  BY <1>0, IdleType, PollSet DEF PollEnds
<1>c. \/ since' = since
      \/ poll[p].complete /\ since' = NextSince(p) /\ since' > poll[p].since /\ since = poll[p].since
  BY DEF PollEnds, advancePollingSince
<1>d. /\ NextSince(p) \in Nat
      /\ \A c \in poll[p].failed : NextSince(p) < poll[p].found[c].updated
      /\ NextSince(p) > poll[p].since
           => \E c \in DOMAIN poll[p].found : NextSince(p) < poll[p].found[c].updated
  BY <1>0, NextSinceBefore
<1>1. TypeOK'
  BY <1>0, <1>a, <1>b, <1>c, <1>d DEF TypeOK
<1>2. ASSUME NEW c \in Changes PROVE Remembered(c)'
  <2>1. Remembered(c)
    BY DEF IInv
  <2>2. \A q \in Polls : c \in poll[q].pending => poll'[q] = poll[q]
    BY <1>0, <1>b
  <2> QED
    BY <1>a, <2>1, <2>2 DEF Remembered
<1>e. ReadUp(p)'
  BY <1>b DEF ReadUp
<1>3. CASE since' = since
  <2>1. PollInv(p)'
    BY <1>0, <1>b, <1>3 DEF PollInv
  <2>2. \A d \in owed' \ passedOver' : Covers(p, d)'
    BY <1>b DEF Covers
  <2> QED
    BY <1>1, <1>2, <1>3, <1>e, <2>1, <2>2, <1>a, <1>b, OnePoll
<1>4. CASE poll[p].complete /\ since' = NextSince(p) /\ since' > poll[p].since /\ since = poll[p].since
  <2>1. PICK c \in DOMAIN poll[p].found : since' < poll[p].found[c].updated
    BY <1>d, <1>4
  <2>2. poll[p].found[c].updated \in Nat /\ poll[p].found[c].updated <= clock
    BY <1>0, PollType DEF PollInv, Entries
  <2>3. since' \in Nat /\ since' > since /\ since' < clock
    BY <1>0, <1>d, <1>4, <2>1, <2>2
  <2>4. Times' /\ Listed'
    BY <1>0, <1>a, <2>3 DEF IInv, Times, Listed
  <2>5. ASSUME NEW q \in Polls PROVE PollInv(q)' /\ ReadUp(q)'
    <3>1. CASE q = p
      BY <1>b, <1>e, <2>3, <3>1 DEF PollInv
    <3>2. CASE q # p
      <4>1. PollInv(q) /\ ReadUp(q) /\ poll[q].since \in Nat
        BY <1>0, PollType DEF IInv
      <4>2. poll[q].since <= since'
        BY <1>0, <2>3, <4>1 DEF PollInv
      <4> QED
        BY <1>a, <1>b, <3>2, <4>1, <4>2 DEF PollInv, ReadUp, PageOf, Seen
    <3> QED
      BY <3>1, <3>2
  <2>6. ASSUME NEW d \in (owed \ passedOver)' PROVE Window(d)'
    <3>1. d \in Changes /\ Covers(p, d) /\ change[d].updated \in Nat
      BY <1>0, <1>a DEF IInv, Window, TypeOK, Entries
    <3>2. change[d].updated > since'
      <4>1. CASE change[d].updated >= poll[p].found[c].updated
        BY <2>1, <2>2, <2>3, <3>1, <4>1
      <4>2. CASE d \in poll[p].failed /\ Seen(p, d)
        BY <1>d, <1>4, <2>3, <3>1, <4>2 DEF Seen
      <4> QED
        BY <1>0, <1>4, <3>1, <4>1, <4>2 DEF Covers
    <3>3. ASSUME NEW q \in Polls PROVE Covers(q, d)'
      <4>1. CASE q = p
        BY <1>b, <4>1 DEF Covers
      <4>2. CASE q # p
        <5>1. poll[q].since \in Nat /\ poll[q].since <= since
          BY <1>0, PollType DEF IInv, PollInv
        <5>2. poll'[q].since # since'
          BY <1>0, <1>b, <2>3, <4>2, <5>1
        <5> QED
          BY <5>2 DEF Covers
      <4> QED
        BY <4>1, <4>2
    <3> QED
      BY <1>a, <3>2, <3>3 DEF Window
  <2> QED
    BY <1>0, <1>1, <1>2, <2>3, <2>4, <2>5, <2>6 DEF IInv
<1> QED
  BY <1>c, <1>3, <1>4

\* The memory of the process is lost, with the polls or without them.
LEMMA ForgetIInv ==
  ASSUME IInv, Clear \/ Restart
  PROVE  IInv' /\ since' >= since
<1>0. TypeOK /\ Times
  BY DEF IInv
<1>a. clock' = clock /\ change' = change /\ updates' = updates /\ since' = since /\ open' = open
      /\ owed' = owed /\ passedOver' = passedOver
  BY DEF Clear, Restart, provider, history
<1>b. poll' \in [Polls -> PollRecs] /\ \A p \in Polls : poll'[p] \in {poll[p], Idle}
  BY <1>0, IdleType DEF Clear, Restart, TypeOK
<1>c. /\ revisions' \in [Changes -> [rev : Nat, by : Polls \cup {"none"}]]
      /\ \A c \in Changes : revisions'[c].rev = 0
  BY ForgottenType DEF Clear, Restart
<1>1. TypeOK'
  BY <1>0, <1>a, <1>b, <1>c DEF TypeOK
<1>2. Times' /\ Listed' /\ since \in Nat
  BY <1>0, <1>a DEF IInv, Times, Listed, TypeOK
<1>3. \A p \in Polls : PollInv(p)' /\ ReadUp(p)'
  BY <1>2, <1>a, <1>b, IdleType DEF IInv, PollInv, ReadUp, PageOf, Seen
<1>4. ASSUME NEW c \in Changes PROVE Remembered(c)'
  <2>1. change[c].rev \in Nat /\ change[c].rev >= 1
    BY <1>0 DEF TypeOK, Entries, Times
  <2> QED
    BY <1>a, <1>c, <2>1 DEF Remembered
<1>5. \A d \in (owed \ passedOver)' : Window(d)'
  BY <1>a, <1>b, IdleType DEF IInv, Window, Covers, Seen
<1> QED
  BY <1>1, <1>2, <1>3, <1>4, <1>5, <1>a DEF IInv

-----------------------------------------------------------------------------
LEMMA InitIInv == Init => IInv
<1> SUFFICES ASSUME Init PROVE IInv
  OBVIOUS
<1>1. TypeOK
  BY IdleType, ForgottenType, DiscoveryAssumption DEF Init, TypeOK, Entries
<1>2. Times /\ Listed
  <2>1. open \in Seq(Seq(Changes))
    BY DiscoveryAssumption DEF Init
  <2>2. \A n \in DOMAIN open : \A i \in DOMAIN open[n] : open[n][i] \in Changes
    BY <1>1, OpenType
  <2> QED
    BY <2>1, <2>2, DiscoveryAssumption DEF Init, Times, Listed
<1>3. \A p \in Polls : PollInv(p) /\ ReadUp(p)
  BY IdleType DEF Init, PollInv, ReadUp
<1>4. \A c \in Changes : Remembered(c)
  BY ForgottenType DEF Init, Remembered
<1>5. owed \ passedOver = {}
  BY DEF Init
<1> QED
  BY <1>1, <1>2, <1>3, <1>4, <1>5 DEF IInv

LEMMA StepIInv == IInv /\ [Next]_vars => IInv' /\ since' >= since
<1> SUFFICES ASSUME IInv, [Next]_vars PROVE IInv' /\ since' >= since
  OBVIOUS
<1>1. ASSUME NEW p \in Polls, PollStep(p) PROVE IInv' /\ since' >= since
  BY <1>1, PollStartsIInv, ReadPageIInv, PageFailsIInv, DispatchIInv, TriggeredIInv, TriggerFailsIInv, PollEndsIInv
     DEF PollStep
<1>2. CASE \E n \in DOMAIN open : \E i \in DOMAIN open[n] :
             Close(n, i) \/ \E pushed \in BOOLEAN : Update(n, i, pushed)
  BY <1>2, UpdateIInv, CloseIInv
<1>3. CASE Clear \/ Restart
  BY <1>3, ForgetIInv
<1>4. CASE UNCHANGED vars
  <2>1. UNCHANGED <<clock, updates, change, open, since, revisions, poll, owed, passedOver>>
    BY <1>4 DEF vars, provider, history
  <2>2. TypeOK' /\ Times' /\ Listed' /\ since \in Nat
    BY <2>1 DEF IInv, TypeOK, Times, Listed
  <2>3. \A p \in Polls : PollInv(p)' /\ ReadUp(p)'
    BY <2>1 DEF IInv, PollInv, ReadUp, PageOf, Seen
  <2>4. \A c \in Changes : Remembered(c)'
    BY <2>1 DEF IInv, Remembered
  <2>5. \A d \in (owed \ passedOver)' : Window(d)'
    BY <2>1 DEF IInv, Window, Covers, Seen
  <2> QED
    BY <2>1, <2>2, <2>3, <2>4, <2>5 DEF IInv
<1> QED
  BY <1>1, <1>2, <1>3, <1>4 DEF Next

LEMMA SpecIInv == Spec => []IInv
<1>1. Init => IInv
  BY InitIInv
<1>2. IInv /\ [Next]_vars => IInv'
  BY StepIInv
<1> QED
  BY <1>1, <1>2, PTL DEF Spec

-----------------------------------------------------------------------------
\* Every variable keeps its type (pollAutomaticReviewProject).
THEOREM TypeCorrect == Spec => []TypeOK
<1>1. IInv => TypeOK
  BY DEF IInv
<1> QED
  BY <1>1, SpecIInv, PTL

\* What is owed is found by the next poll (pollAutomaticReviewProject,
\* advanceAutomaticReviewPollingSince).
THEOREM OwedFound == Spec => []OwedIsInWindow
<1>1. IInv => OwedIsInWindow
  BY DEF IInv, TypeOK, Window, Remembered, OwedIsInWindow
<1> QED
  BY <1>1, SpecIInv, PTL

\* The watermark never goes back (advanceAutomaticReviewPollingSince).
THEOREM WatermarkMovesOn == Spec => WatermarkAdvances
<1>1. IInv /\ [Next]_vars => [since' >= since]_since
  BY StepIInv
<1> QED
  BY <1>1, SpecIInv, PTL DEF Spec, WatermarkAdvances
=============================================================================
