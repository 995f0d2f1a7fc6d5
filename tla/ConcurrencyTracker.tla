------------------------- MODULE ConcurrencyTracker -------------------------
(***************************************************************************)
(* The in-memory gate on concurrent agent runs (createConcurrencyTracker). *)
(*                                                                         *)
(* The program is one Node process, so code runs without interruption      *)
(* between two awaits and anything may run at an await.  One action below  *)
(* is the code between two awaits.  The asynchronous activities are the    *)
(* single drain loop over the wait queue and any number of direct calls of *)
(* acquire(); both execute acquireSlot, whose progress is kept in          *)
(* frame[p].                                                               *)
(***************************************************************************)
EXTENDS Integers, Sequences, FiniteSets

CONSTANTS
  Waiters,        \* calls of acquireWhenAvailable
  Callers,        \* calls of acquire
  Agents, Projects, Integrations,
  NoIntegration,  \* an agent record without an integrationId
  AgentOf,        \* the agent each call names
  ProjectOf,      \* the project each call names
  Priority,       \* the priority each waiter passes (smaller is served first)
  Admissible,     \* per agent, the records the admin UI may store for it
  MaxEdits,       \* bound on the number of admin edits
  LookupFails,    \* whether a read of an agent record may reject
  Drain,          \* the drain loop, as a process
  None            \* no waiter, no lease

Calls == Waiters \cup Callers
Procs == Callers \cup {Drain}
Keys  == Integrations \cup Agents
Recs  == [integration : Integrations \cup {NoIntegration}, maxConcurrent : Nat]

ASSUME ConstantsAssumption ==
  /\ IsFiniteSet(Waiters) /\ IsFiniteSet(Callers)
  /\ Waiters \cap Callers = {}
  /\ Drain \notin Calls /\ None \notin Calls \cup Keys
  /\ NoIntegration \notin Integrations
  /\ AgentOf \in [Calls -> Agents]
  /\ ProjectOf \in [Calls -> Projects]
  /\ Priority \in [Waiters -> Nat]
  /\ Admissible \in [Agents -> SUBSET Recs]
  /\ \A a \in Agents : Admissible[a] # {}
  /\ MaxEdits \in Nat
  /\ LookupFails \in BOOLEAN

VARIABLES
  store,           \* agent records in the database
  cache,           \* the records the TTL cache may still answer with
  edits,           \* admin edits so far (bounded by MaxEdits)
  queue,           \* pendingAcquisitions
  call,            \* what the promise of each call has come to
  active,          \* activeLeases: per call, the key its live lease counts under
  perIntegration, perProject, activeGlobal,
  drain,           \* [on, requested, idx, progress]: state of the drain loop
  frame            \* per process, the acquireSlot call it is awaiting

configVars == <<store, cache, edits>>
countVars  == <<active, perIntegration, perProject, activeGlobal>>
vars == <<configVars, queue, call, countVars, drain, frame>>

-----------------------------------------------------------------------------
(* Limits.                                                                 *)

\* A missing or non-positive maxConcurrent counts as 1.
normalizePerEntityLimit(raw) == IF raw = 0 THEN 1 ELSE raw

integrationKey(a, r) == IF r.integration = NoIntegration THEN a ELSE r.integration

limitsOf(a, r) == [key |-> integrationKey(a, r),
                   max |-> normalizePerEntityLimit(r.maxConcurrent)]

\* A lookup answers from an unexpired cache entry or reads the store.
Readable(a) == {cache[a], store[a]}

\* Mutated: one slot too many.
checkOffByOne(lim) == perIntegration[lim.key] <= lim.max

check(lim) == perIntegration[lim.key] < lim.max

-----------------------------------------------------------------------------
(* The wait queue.                                                         *)

settled(st, w) == st[w] \notin {"idle", "waiting"}

isWaiting(w) == \E i \in DOMAIN queue : queue[i] = w /\ call[w] = "waiting"

LeastOf(S) == CHOOSE x \in S : \A y \in S : x <= y

\* Array.splice(i, 1); removing past the end removes nothing.
RemoveIndex(q, i) == IF i \in DOMAIN q
                     THEN SubSeq(q, 1, i - 1) \o SubSeq(q, i + 1, Len(q)) ELSE q

\* Mutated: the newest waiter goes first.
insertAtFront(q, w) == <<w>> \o q

\* A new waiter goes before the first one of a larger priority value.
insertAt(q, w) ==
  LET later == {i \in DOMAIN q : Priority[q[i]] > Priority[w]}
      at    == IF later = {} THEN Len(q) + 1 ELSE LeastOf(later)
  IN  SubSeq(q, 1, at - 1) \o <<w>> \o SubSeq(q, at, Len(q))

\* The run of settled entries that starts at index i is spliced out.
DropSettled(q, st, i) ==
  LET live == {j \in i .. Len(q) : ~settled(st, q[j])}
  IN  IF live = {} THEN SubSeq(q, 1, i - 1)
      ELSE SubSeq(q, 1, i - 1) \o SubSeq(q, LeastOf(live), Len(q))

idleFrame == [pc |-> "off", cur |-> None, lim |-> [key |-> None, max |-> 1],
              pos |-> 1, seen |-> None, earlier |-> FALSE, result |-> "none"]

\* acquireSlot has been called for x and awaits loadLimits.
slotFrame(x) == [idleFrame EXCEPT !.pc = "limits", !.cur = x]

\* The drain loop resumes at index i of q: it visits the next waiter that is
\* not settled; past the end it starts over if a waiter was granted in this
\* pass or a drain was requested meanwhile, and stops otherwise.
Advance(q, st, i, progress, requested) ==
  LET q1    == DropSettled(q, st, i)
      more  == i <= Len(q1)
      again == progress \/ requested
      q2    == IF more THEN q1 ELSE IF again THEN DropSettled(q1, st, 1) ELSE q1
      at    == IF more THEN i ELSE 1
      on    == more \/ (again /\ q2 # <<>>)
  IN  /\ queue' = q2
      /\ drain' = [on |-> on, idx |-> IF on THEN at ELSE 1,
                   progress  |-> more /\ progress,
                   requested |-> on /\ requested /\ (more \/ progress)]
      /\ frame' = [frame EXCEPT ![Drain] = IF on THEN slotFrame(q2[at]) ELSE idleFrame]

\* Mutated: a call that finds the drain running is forgotten.
drainWithoutRequest(q, st) ==
  IF drain.on THEN queue' = q /\ UNCHANGED <<drain, frame>>
  ELSE Advance(q, st, 1, FALSE, FALSE)

\* A call of drainPendingAcquisitions with the given queue and call states.
drainPendingAcquisitions(q, st) ==
  IF drain.on
  THEN /\ queue' = q
       /\ drain' = [drain EXCEPT !.requested = TRUE]
       /\ UNCHANGED frame
  ELSE Advance(q, st, 1, FALSE, FALSE)

-----------------------------------------------------------------------------
(* acquireSlot, one action per stretch of code between two awaits.         *)

\* Mutated: earlier waiters do not hold a later one back.
ScanNothing(f, i) == [f EXCEPT !.pc = "scanned", !.earlier = FALSE]

\* hasEarlierWaiter goes on from position i: settled entries are skipped, the
\* current waiter ends the scan, any other entry has its limits loaded.
Scan(f, i) ==
  LET stops == {j \in i .. Len(queue) : queue[j] = f.cur \/ ~settled(call, queue[j])}
      at    == LeastOf(stops)
  IN  IF stops = {} \/ queue[at] = f.cur
      THEN [f EXCEPT !.pc = "scanned", !.earlier = FALSE]
      ELSE [f EXCEPT !.pc = "scan", !.pos = at, !.seen = queue[at]]

\* loadLimits for the call itself has resolved.
LimitsLoaded(p) ==
  /\ frame[p].pc = "limits"
  /\ \E r \in Readable(AgentOf[frame[p].cur]) :
       LET a == AgentOf[frame[p].cur] IN
       /\ cache' = [cache EXCEPT ![a] = r]
       /\ frame' = [frame EXCEPT ![p] = Scan([frame[p] EXCEPT !.lim = limitsOf(a, r)], 1)]
  /\ UNCHANGED <<store, edits, queue, call, countVars, drain>>

\* loadLimits for an entry of the queue has resolved, inside hasEarlierWaiter.
ScanLoaded(p) ==
  /\ frame[p].pc = "scan"
  /\ \E r \in Readable(AgentOf[frame[p].seen]) :
       LET a     == AgentOf[frame[p].seen]
           found == /\ ~settled(call, frame[p].seen)
                    /\ integrationKey(a, r) = frame[p].lim.key
       IN
       /\ cache' = [cache EXCEPT ![a] = r]
       /\ frame' = [frame EXCEPT ![p] =
            IF found THEN [frame[p] EXCEPT !.pc = "scanned", !.earlier = TRUE]
            ELSE Scan(frame[p], frame[p].pos + 1)]
  /\ UNCHANGED <<store, edits, queue, call, countVars, drain>>

\* hasEarlierWaiter has answered: check the limit and count the slot.
Reserve(p) ==
  LET f == frame[p] IN
  /\ f.pc = "scanned"
  /\ IF ~f.earlier /\ check(f.lim)
     THEN /\ active' = [active EXCEPT ![f.cur] = f.lim.key]
          /\ perIntegration' = [perIntegration EXCEPT ![f.lim.key] = @ + 1]
          /\ perProject' = [perProject EXCEPT ![ProjectOf[f.cur]] = @ + 1]
          /\ activeGlobal' = activeGlobal + 1
          /\ frame' = [frame EXCEPT ![p].pc = "slot", ![p].result = "lease"]
     ELSE /\ frame' = [frame EXCEPT ![p].pc = "slot", ![p].result = "none"]
          /\ UNCHANGED countVars
  /\ UNCHANGED <<configVars, queue, call, drain>>

\* getAgentById rejects; the error travels up to the caller of acquireSlot.
LoadFails(p) ==
  /\ LookupFails
  /\ frame[p].pc \in {"limits", "scan"}
  /\ frame' = [frame EXCEPT ![p].pc = "slot", ![p].result = "error"]
  /\ UNCHANGED <<configVars, queue, call, countVars, drain>>

\* Mutated: the lease is not deleted, so a second release counts again.
releaseSlotTwice(x) ==
  IF active[x] = None THEN UNCHANGED countVars
  ELSE /\ perIntegration' = [perIntegration EXCEPT ![active[x]] = @ - 1]
       /\ perProject' = [perProject EXCEPT ![ProjectOf[x]] = @ - 1]
       /\ activeGlobal' = activeGlobal - 1
       /\ UNCHANGED active

\* Mutated: the per-project counter is left alone.
releaseSlotForgetsProject(x) ==
  IF active[x] = None THEN UNCHANGED countVars
  ELSE /\ active' = [active EXCEPT ![x] = None]
       /\ perIntegration' = [perIntegration EXCEPT ![active[x]] = IF @ = 0 THEN 0 ELSE @ - 1]
       /\ activeGlobal' = IF activeGlobal = 0 THEN 0 ELSE activeGlobal - 1
       /\ UNCHANGED perProject

\* A lease that is no longer active is released without effect.
releaseSlot(x) ==
  IF active[x] = None THEN UNCHANGED countVars
  ELSE /\ active' = [active EXCEPT ![x] = None]
       /\ perIntegration' = [perIntegration EXCEPT ![active[x]] = IF @ = 0 THEN 0 ELSE @ - 1]
       /\ perProject' = [perProject EXCEPT ![ProjectOf[x]] = IF @ = 0 THEN 0 ELSE @ - 1]
       /\ activeGlobal' = IF activeGlobal = 0 THEN 0 ELSE activeGlobal - 1

-----------------------------------------------------------------------------
(* The drain loop after acquireSlot has settled.  drain.idx is the index   *)
(* the loop held before the await: the queue may have changed since.       *)

\* acquireSlot threw: the entry is removed and its waiter rejected.
DrainError ==
  LET f == frame[Drain] IN
  /\ f.pc = "slot" /\ f.result = "error"
  /\ call' = [call EXCEPT ![f.cur] = IF @ = "waiting" THEN "rejected" ELSE @]
  /\ Advance(RemoveIndex(queue, drain.idx), call', drain.idx, drain.progress, drain.requested)
  /\ UNCHANGED <<configVars, countVars>>

\* Mutated: the lease taken for an aborted waiter is dropped.
DrainSettledLeaks ==
  LET f == frame[Drain] IN
  /\ f.pc = "slot" /\ f.result # "error" /\ settled(call, f.cur)
  /\ Advance(queue, call, drain.idx + 1, drain.progress, drain.requested)
  /\ UNCHANGED <<configVars, call, countVars>>

\* The waiter was aborted during the await: a lease taken for it goes back.
DrainSettled ==
  LET f == frame[Drain] IN
  /\ f.pc = "slot" /\ f.result # "error" /\ settled(call, f.cur)
  /\ IF f.result = "lease" THEN releaseSlot(f.cur) ELSE UNCHANGED countVars
  /\ Advance(queue, call, drain.idx + 1, drain.progress, drain.requested)
  /\ UNCHANGED <<configVars, call>>

\* No slot for this waiter: it stays queued.
DrainNone ==
  LET f == frame[Drain] IN
  /\ f.pc = "slot" /\ f.result = "none" /\ ~settled(call, f.cur)
  /\ Advance(queue, call, drain.idx + 1, drain.progress, drain.requested)
  /\ UNCHANGED <<configVars, call, countVars>>

\* The waiter gets its lease and leaves the queue.
DrainGrant ==
  LET f == frame[Drain] IN
  /\ f.pc = "slot" /\ f.result = "lease" /\ ~settled(call, f.cur)
  /\ call' = [call EXCEPT ![f.cur] = "granted"]
  /\ Advance(RemoveIndex(queue, drain.idx), call', drain.idx, TRUE, drain.requested)
  /\ UNCHANGED <<configVars, countVars>>

-----------------------------------------------------------------------------
(* The operations callers invoke.                                          *)

\* acquireWhenAvailable with a signal that is not aborted.
acquireWhenAvailable(w) ==
  /\ call[w] = "idle"
  /\ call' = [call EXCEPT ![w] = "waiting"]
  /\ drainPendingAcquisitions(insertAt(queue, w), call')
  /\ UNCHANGED <<configVars, countVars>>

\* acquireWhenAvailable with an aborted signal rejects at once.
acquireAborted(w) ==
  /\ call[w] = "idle"
  /\ call' = [call EXCEPT ![w] = "rejected"]
  /\ UNCHANGED <<configVars, queue, countVars, drain, frame>>

\* The signal of a pending waiter fires.
onAbort(w) ==
  /\ call[w] = "waiting"
  /\ call' = [call EXCEPT ![w] = "rejected"]
  /\ drainPendingAcquisitions(queue, call')
  /\ UNCHANGED <<configVars, countVars>>

\* acquire: one attempt, on behalf of a caller that does not queue.
acquire(c) ==
  /\ call[c] = "idle"
  /\ call' = [call EXCEPT ![c] = "waiting"]
  /\ frame' = [frame EXCEPT ![c] = slotFrame(c)]
  /\ UNCHANGED <<configVars, queue, countVars, drain>>

\* acquire answers its caller: a lease, null, or an error.
acquireReturns(c) ==
  /\ frame[c].pc = "slot"
  /\ call' = [call EXCEPT ![c] = IF frame[c].result = "lease" THEN "granted" ELSE "rejected"]
  /\ frame' = [frame EXCEPT ![c] = idleFrame]
  /\ UNCHANGED <<configVars, queue, countVars, drain>>

\* The holder releases its lease, possibly more than once.
release(x) ==
  /\ call[x] \in {"granted", "released"}
  /\ call' = [call EXCEPT ![x] = "released"]
  /\ releaseSlot(x)
  /\ drainPendingAcquisitions(queue, call')
  /\ UNCHANGED configVars

\* An admin edits an agent record.
updateAgent(a) ==
  /\ edits < MaxEdits
  /\ edits' = edits + 1
  /\ \E r \in Admissible[a] : store' = [store EXCEPT ![a] = r]
  /\ UNCHANGED <<cache, queue, call, countVars, drain, frame>>

-----------------------------------------------------------------------------
Init ==
  /\ store \in {s \in [Agents -> UNION {Admissible[a] : a \in Agents}] :
                  \A a \in Agents : s[a] \in Admissible[a]}
  /\ cache = store
  /\ edits = 0
  /\ queue = <<>>
  /\ call = [x \in Calls |-> "idle"]
  /\ active = [x \in Calls |-> None]
  /\ perIntegration = [k \in Keys |-> 0]
  /\ perProject = [p \in Projects |-> 0]
  /\ activeGlobal = 0
  /\ drain = [on |-> FALSE, idx |-> 1, progress |-> FALSE, requested |-> FALSE]
  /\ frame = [p \in Procs |-> idleFrame]

AcquireSlotStep(p) == LimitsLoaded(p) \/ ScanLoaded(p) \/ Reserve(p) \/ LoadFails(p)

DrainStep == DrainError \/ DrainSettled \/ DrainNone \/ DrainGrant

Next ==
  \/ \E p \in Procs : AcquireSlotStep(p)
  \/ DrainStep
  \/ \E w \in Waiters : acquireWhenAvailable(w) \/ acquireAborted(w) \/ onAbort(w)
  \/ \E c \in Callers : acquire(c) \/ acquireReturns(c)
  \/ \E x \in Calls : release(x)
  \/ \E a \in Agents : updateAgent(a)

Spec == Init /\ [][Next]_vars

\* Promises settle and continuations run; a holder releases its lease (the
\* orchestrator does so in a finally block around a bounded agent run).
Fairness ==
  /\ \A p \in Procs : WF_vars(AcquireSlotStep(p))
  /\ WF_vars(DrainStep)
  /\ \A c \in Callers : WF_vars(acquireReturns(c))
  /\ \A x \in Calls : WF_vars(call[x] = "granted" /\ release(x))

\* A waiter arrives and goes in front of the one the drain loop is serving,
\* whose place in the queue the loop goes on from.
ArrivesInFront ==
  /\ drain.on
  /\ \E w \in Waiters : /\ call[w] = "idle" /\ call'[w] = "waiting"
                        /\ \E j \in 1 .. drain.idx : Priority[queue[j]] > Priority[w]

\* That does not happen: who arrives during a drain is no older than those the
\* loop has reached.
OrderlySpec == Init /\ [][Next /\ ~ArrivesInFront]_vars

FairSpec == OrderlySpec /\ Fairness

-----------------------------------------------------------------------------
(* Properties.                                                             *)

Frames ==
  [pc : {"off", "limits", "scan", "scanned", "slot"}, cur : Calls \cup {None},
   lim : [key : Keys \cup {None}, max : Nat], pos : Nat, seen : Waiters \cup {None},
   earlier : BOOLEAN, result : {"none", "lease", "error"}]

\* Every variable has its type; in particular no counter of releaseSlot goes
\* negative and the drain's index is that of an entry of the queue.
TypeOK ==
  /\ store \in [Agents -> Recs] /\ cache \in [Agents -> Recs]
  /\ \A a \in Agents : store[a] \in Admissible[a] /\ cache[a] \in Admissible[a]
  /\ edits \in 0 .. MaxEdits
  /\ queue \in Seq(Waiters)
  /\ call \in [Calls -> {"idle", "waiting", "granted", "released", "rejected"}]
  /\ active \in [Calls -> Keys \cup {None}]
  /\ perIntegration \in [Keys -> Nat]
  /\ perProject \in [Projects -> Nat]
  /\ activeGlobal \in Nat
  /\ drain \in [on : BOOLEAN, idx : Nat, progress : BOOLEAN, requested : BOOLEAN]
  /\ drain.on => drain.idx \in DOMAIN queue
  /\ frame \in [Procs -> Frames]

Holders(k)  == {x \in Calls : active[x] = k}
LiveLeases  == {x \in Calls : active[x] # None}

\* The three counters of the tracker equal the number of leases that are
\* live, per integration key, per project and in total, whatever the order
\* of grants, aborts, failed lookups and repeated releases.
CountersMatchLeases ==
  /\ \A k \in Keys : perIntegration[k] = Cardinality(Holders(k))
  /\ \A p \in Projects : perProject[p] = Cardinality({x \in LiveLeases : ProjectOf[x] = p})
  /\ activeGlobal = Cardinality(LiveLeases)

\* Each key in use has an agent whose record allows that many runs of it.
AdmissibleLimit ==
  \A k \in Keys :
    perIntegration[k] > 0 =>
      \E a \in Agents : \E r \in Admissible[a] :
        limitsOf(a, r).key = k /\ perIntegration[k] <= limitsOf(a, r).max

ConfiguredLimit ==
  \A k \in Keys :
    perIntegration[k] > 0 =>
      \E a \in Agents :
        limitsOf(a, store[a]).key = k /\ perIntegration[k] <= limitsOf(a, store[a]).max

\* No integration key is used by more runs than the largest limit configured
\* for an agent of that key, or, once records are edited, than the largest one
\* an agent of that key may have; although limits are read before several
\* awaits and checked after them (acquireSlot).
SlotLimit == AdmissibleLimit /\ (edits = 0 => ConfiguredLimit)

\* A live lease belongs to a call that has received it or is about to: an
\* abort that races with a grant never strands a slot.
NoLeakedLease ==
  \A x \in LiveLeases :
    \/ call[x] = "granted"
    \/ \E p \in Procs : frame[p].pc = "slot" /\ frame[p].cur = x /\ frame[p].result = "lease"

\* "Wait until a slot is available, then reserve and return it": a call of
\* acquireWhenAvailable that has not settled is in the wait queue, where the
\* drain loop finds it and isWaiting reports it.
NoLostWaiter == \A w \in Waiters : call[w] = "waiting" => isWaiting(w)

keyOf(w) == limitsOf(AgentOf[w], store[AgentOf[w]]).key

\* When the drain loop has stopped, a queued waiter is one whose key is at
\* its limit or one that stands behind an earlier waiter of its key: no
\* release or abort during a drain is forgotten.  (An edit of the agents' records
\* wakes nobody, so the claim is about the time before the first one.)
NoLostWakeup ==
  edits = 0 /\ ~drain.on =>
    \A i \in DOMAIN queue :
      call[queue[i]] = "waiting" =>
        \/ ~check(limitsOf(AgentOf[queue[i]], store[AgentOf[queue[i]]]))
        \/ \E j \in 1 .. i - 1 : call[queue[j]] = "waiting" /\ keyOf(queue[j]) = keyOf(queue[i])

\* A waiter is never granted a slot while an unsettled waiter of the same key
\* stands before it in the queue, as long as no record has been edited.
NoOvertaking ==
  [][edits = 0 => \A j \in DOMAIN queue :
       call[queue[j]] = "waiting" /\ call'[queue[j]] = "granted" =>
         ~ \E i \in 1 .. j - 1 : call[queue[i]] = "waiting" /\ keyOf(queue[i]) = keyOf(queue[j])
    ]_vars

\* A process is serving the call.
InFlight(x) == \E p \in Procs : frame[p].pc # "off" /\ frame[p].cur = x

\* What a call has come to; one aborted while acquireSlot runs for it is still
\* to be cleaned up.
Standing(x) == IF call[x] = "rejected" /\ InFlight(x) THEN "cancelled" ELSE call[x]

LimitsFor(x) == {limitsOf(AgentOf[x], r) : r \in Admissible[AgentOf[x]]}

\* The tracker as its callers see it: the slot of a call is its live lease.
Pool == INSTANCE SlotPool
  WITH Limits <- [x \in Calls |-> LimitsFor(x)],
       slot   <- active,
       state  <- [x \in Calls |-> Standing(x)]

\* The tracker is a pool of slots: a call takes one within a limit of its own
\* agent, keeps it until it releases it and is answered once; an abort that
\* meets a reservation half way gives the slot back, and a second release of
\* a lease changes nothing.
SlotsArePooled == Pool!Spec

\* Every call of acquireWhenAvailable settles, given that granted leases are
\* released.
WaiterSettles == \A w \in Waiters : call[w] = "waiting" ~> call[w] # "waiting"
=============================================================================
