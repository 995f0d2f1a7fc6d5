----------------------- MODULE SandboxLifecycle_proofs -----------------------
(***************************************************************************)
(* Proofs of the safety properties of SandboxLifecycle for any tasks,      *)
(* attempts and sizes of the inventory.                                    *)
(***************************************************************************)
EXTENDS SandboxLifecycle, TLAPS

Landed(a)     == <<"landed", a>> \in late
Unprovided(a) == a \notin providers \/ Landed(a)

\* The row may be deleted: a provider that is still to come is one that counts as
\* made late.
Aged(a) == run[a] # "new" /\ (run[a] = "provider" => a \notin rows \ oldRows)

\* The row of a provider is there before the provider and goes after it, but for a
\* provider that is made late; an attempt that has not begun owns nothing.
RowOf(a) ==
  /\ a \in providers => a \in rows \/ Landed(a)
  /\ run[a] = "unrow" => Unprovided(a)
  /\ a \in oldRows => run[a] # "new"
  /\ run[a] = "new" => a \notin rows \cup old \cup Sandboxes /\ <<"sandbox", a>> \notin late

\* The task of a steady attempt is active, and its agent is not done.
Steady(a) == a \in steady => TaskOf[a] \in active /\ run[a] \in {"provider", "sandbox", "work"}

\* What the reconciler has read and chosen is no steady attempt's, but for the
\* sandboxes that came of age while it read; the rows it chose may be deleted.
Spares(a) ==
  /\ recon.at = "list" =>
       /\ a \in recon.rows => run[a] # "new" /\ (a \in steady => TaskOf[a] \in recon.active)
       /\ a \in old /\ a \in steady => TaskOf[a] \in recon.active \/ a \in recon.aged
  /\ recon.at = "sandboxes" =>
       /\ a \in recon.todo => run[a] # "new" /\ (a \in steady => a \in recon.aged)
       /\ a \in recon.rows => a \notin steady /\ Aged(a)
  /\ recon.at \in {"providers", "unrow"} /\ a \in recon.todo => a \notin steady /\ Aged(a)
  /\ recon.at = "unrow" /\ a \in recon.removed => Aged(a) /\ Unprovided(a)

AttemptInv(a) == RowOf(a) /\ Steady(a) /\ Spares(a)
IInv == TypeOK /\ \A a \in Attempts : AttemptInv(a)

-----------------------------------------------------------------------------
(* The inventory.                                                          *)

LEMMA RemoveAtEffect ==
  ASSUME NEW S, NEW s \in Seq(S), NEW i \in 1..Len(s)
  PROVE  /\ RemoveAt(s, i) \in Seq(S) /\ Len(RemoveAt(s, i)) = Len(s) - 1
         /\ \A k \in 1..(Len(s) - 1) : RemoveAt(s, i)[k] = IF k < i THEN s[k] ELSE s[k + 1]
<1> DEFINE front == SubSeq(s, 1, i - 1)
           back  == SubSeq(s, i + 1, Len(s))
<1>0. i \in Nat /\ Len(s) \in Nat /\ 1 <= i /\ i <= Len(s)
  OBVIOUS
<1>1. front \in Seq(S) /\ Len(front) = i - 1 /\ \A k \in 1..(i - 1) : front[k] = s[k]
  BY <1>0
<1>2. back \in Seq(S) /\ Len(back) = Len(s) - i /\ \A k \in 1..(Len(s) - i) : back[k] = s[i + k]
  BY <1>0
<1>3. RemoveAt(s, i) = front \o back
  BY DEF RemoveAt
<1> HIDE DEF front, back
<1>4. front \o back \in Seq(S) /\ Len(front \o back) = Len(s) - 1
  <2>1. front \o back \in Seq(S) /\ Len(front \o back) = Len(front) + Len(back)
    <3>1. front \in Seq(S) /\ back \in Seq(S)
      BY <1>1, <1>2
    <3>2. front \o back \in Seq(S)
      BY <3>1
    <3>3. Len(front \o back) = Len(front) + Len(back)
      BY <3>1
    <3> QED
      BY <3>2, <3>3
  <2>2. Len(front) + Len(back) = Len(s) - 1
    BY <1>0, <1>1, <1>2
  <2> QED
    BY <2>1, <2>2
<1>5. ASSUME NEW k \in 1..(Len(s) - 1)
      PROVE  (front \o back)[k] = IF k < i THEN s[k] ELSE s[k + 1]
  <2>1. CASE k < i
    BY <1>0, <1>1, <1>2, <2>1
  <2>2. CASE ~(k < i)
    <3>1. k - (i - 1) \in 1..(Len(s) - i) /\ i + (k - (i - 1)) = k + 1
      BY <1>0, <2>2
    <3>2. (front \o back)[k] = back[k - (i - 1)]
      BY <1>0, <1>1, <1>2, <2>2
    <3> QED
      BY <1>2, <2>2, <3>1, <3>2
  <2> QED
    BY <2>1, <2>2
<1> QED
  BY <1>3, <1>4, <1>5

LEMMA RemoveEffect ==
  ASSUME TypeOK, NEW a \in Attempts, removeSandbox(a)
  PROVE  /\ inventory' \in Seq(Attempts)
         /\ Sandboxes' \subseteq Sandboxes /\ Sandboxes \ {a} \subseteq Sandboxes'
         /\ old' = old \ {a} /\ closing' \in SUBSET Attempts
<1>0. inventory \in Seq(Attempts) /\ closing \in SUBSET Attempts
  BY DEF TypeOK
<1>1. old' = old \ {a} /\ closing' \in SUBSET Attempts
  BY <1>0 DEF removeSandbox
<1>2. CASE inventory' = inventory
  BY <1>0, <1>1, <1>2 DEF Sandboxes
<1>3. CASE \E i \in DOMAIN inventory : inventory[i] = a /\ inventory' = RemoveAt(inventory, i)
  <2>1. PICK i \in 1..Len(inventory) : inventory[i] = a /\ inventory' = RemoveAt(inventory, i)
    BY <1>0, <1>3
  <2>2. /\ inventory' \in Seq(Attempts) /\ Len(inventory') = Len(inventory) - 1
        /\ \A k \in 1..(Len(inventory) - 1) :
             inventory'[k] = IF k < i THEN inventory[k] ELSE inventory[k + 1]
    BY <1>0, <2>1, RemoveAtEffect
  <2>3. DOMAIN inventory = 1..Len(inventory) /\ DOMAIN inventory' = 1..(Len(inventory) - 1)
        /\ i \in Nat /\ Len(inventory) \in Nat
    BY <1>0, <2>2
  <2>4. ASSUME NEW k \in DOMAIN inventory' PROVE inventory'[k] \in Sandboxes
    <3>1. k \in DOMAIN inventory /\ k + 1 \in DOMAIN inventory
      BY <2>3
    <3> QED
      BY <2>2, <2>3, <3>1 DEF Sandboxes, ToSet
  <2>5. ASSUME NEW k \in DOMAIN inventory, inventory[k] # a PROVE inventory[k] \in ToSet(inventory')
    <3>1. CASE k < i
      <4>1. k \in 1..(Len(inventory) - 1) /\ inventory'[k] = inventory[k]
        BY <2>2, <2>3, <3>1
      <4> QED
        BY <2>3, <4>1 DEF ToSet
    <3>2. CASE ~(k < i)
      <4>1. k - 1 \in 1..(Len(inventory) - 1) /\ ~(k - 1 < i) /\ (k - 1) + 1 = k
        BY <2>1, <2>3, <2>5, <3>2
      <4>2. inventory'[k - 1] = inventory[k]
        BY <2>2, <4>1
      <4> QED
        BY <2>3, <4>1, <4>2 DEF ToSet
    <3> QED
      BY <3>1, <3>2
  <2>6. Sandboxes' = ToSet(inventory')
    BY DEF Sandboxes
  <2> QED
    BY <1>1, <2>2, <2>4, <2>5, <2>6 DEF Sandboxes, ToSet
<1> QED
  BY <1>2, <1>3 DEF removeSandbox

LEMMA AppendEffect ==
  ASSUME TypeOK, NEW a \in Attempts, inventory' = Append(inventory, a)
  PROVE  inventory' \in Seq(Attempts) /\ Sandboxes' = Sandboxes \cup {a}
<1>0. inventory \in Seq(Attempts)
  BY DEF TypeOK
<1>1. /\ inventory' \in Seq(Attempts) /\ Len(inventory) \in Nat
      /\ DOMAIN inventory = 1..Len(inventory) /\ DOMAIN inventory' = 1..(Len(inventory) + 1)
      /\ inventory'[Len(inventory) + 1] = a
      /\ \A k \in 1..Len(inventory) : inventory'[k] = inventory[k]
  BY <1>0
<1>2. Sandboxes' = {inventory'[k] : k \in 1..(Len(inventory) + 1)}
      /\ Sandboxes = {inventory[k] : k \in 1..Len(inventory)}
  BY <1>1 DEF Sandboxes, ToSet
<1>3. Sandboxes' \subseteq Sandboxes \cup {a}
  BY <1>1, <1>2
<1>4. a \in Sandboxes' /\ Sandboxes \subseteq Sandboxes'
  BY <1>1, <1>2
<1> QED
  BY <1>1, <1>3, <1>4

LEMMA GotoEffect ==
  ASSUME TypeOK, NEW a \in Attempts, NEW l \in Running \cup {"gone"}, Goto(a, l)
  PROVE  /\ run' \in [Attempts -> Running \cup {"new", "gone"}]
         /\ run'[a] = l /\ \A b \in Attempts \ {a} : run'[b] = run[b]
  BY DEF TypeOK, Goto

LEMMA RunType ==
  ASSUME TypeOK, NEW a \in Attempts
  PROVE  run[a] \in {"new", "provider", "sandbox", "work", "destroy", "unprovide", "unrow", "gone"}
  BY DEF TypeOK, Running

LEMMA RestedType ==
  /\ Rested \in Recons /\ Rested.at = "idle" /\ Rested.todo = {} /\ Rested.rows = {}
  /\ Rested.removed = {}
  BY DEF Rested, Recons

\* A task becomes active.
LEMMA TaskStartsIInv ==
  ASSUME IInv, NEW t \in Tasks, TaskStarts(t)
  PROVE  IInv'
<1>0. TypeOK
  BY DEF IInv
<1>a. UNCHANGED <<rows, oldRows, run, inventory, closing, old, providers, late, recon, steady>>
  BY DEF TaskStarts, dbVars, gateVars
<1>s. Sandboxes' = Sandboxes
  BY <1>a DEF Sandboxes
<1>b. active' = active \cup {t} /\ active' \in SUBSET Tasks
  BY <1>0 DEF TaskStarts, TypeOK
<1>1. TypeOK'
  BY <1>0, <1>a, <1>s, <1>b DEF TypeOK
<1>2. ASSUME NEW b \in Attempts PROVE AttemptInv(b)'
  <2>0. AttemptInv(b)
    BY DEF IInv
  <2>t. run[b] \in {"new", "provider", "sandbox", "work", "destroy", "unprovide", "unrow", "gone"}
    BY <1>0, RunType
  <2>1. RowOf(b)'
    BY <1>a, <1>s, <1>b, <2>0, <2>t DEF AttemptInv, RowOf, Landed, Unprovided
  <2>2. Steady(b)'
    BY <1>a, <1>s, <1>b, <2>0, <2>t DEF AttemptInv, Steady
  <2>3. Spares(b)'
    BY <1>a, <1>s, <1>b, <2>0, <2>t DEF AttemptInv, Spares, RowOf, Steady, Aged, Landed, Unprovided
  <2> QED
    BY <2>1, <2>2, <2>3 DEF AttemptInv
<1> QED
  BY <1>1, <1>2 DEF IInv

\* A task ends.
LEMMA TaskEndsIInv ==
  ASSUME IInv, NEW t \in Tasks, TaskEnds(t)
  PROVE  IInv'
<1>0. TypeOK
  BY DEF IInv
<1>a. UNCHANGED <<rows, oldRows, run, inventory, closing, old, providers, late, recon>>
  BY DEF TaskEnds, dbVars, gateVars
<1>s. Sandboxes' = Sandboxes
  BY <1>a DEF Sandboxes
<1>b. active' = active \ {t} /\ active' \in SUBSET Tasks /\ steady' = {c \in steady : TaskOf[c] # t}
  BY <1>0 DEF TaskEnds, TypeOK
<1>1. TypeOK'
  BY <1>0, <1>a, <1>s, <1>b DEF TypeOK
<1>2. ASSUME NEW b \in Attempts PROVE AttemptInv(b)'
  <2>0. AttemptInv(b)
    BY DEF IInv
  <2>t. run[b] \in {"new", "provider", "sandbox", "work", "destroy", "unprovide", "unrow", "gone"}
    BY <1>0, RunType
  <2>1. RowOf(b)'
    BY <1>a, <1>s, <1>b, <2>0, <2>t DEF AttemptInv, RowOf, Landed, Unprovided
  <2>2. Steady(b)'
    BY <1>a, <1>s, <1>b, <2>0, <2>t DEF AttemptInv, Steady
  <2>3. Spares(b)'
    BY <1>a, <1>s, <1>b, <2>0, <2>t DEF AttemptInv, Spares, RowOf, Steady, Aged, Landed, Unprovided
  <2> QED
    BY <2>1, <2>2, <2>3 DEF AttemptInv
<1> QED
  BY <1>1, <1>2 DEF IInv

\* The provider is recorded.
LEMMA RecordProviderIInv ==
  ASSUME IInv, NEW a \in Attempts, RecordProvider(a)
  PROVE  IInv'
<1>0. TypeOK
  BY DEF IInv
<1>a. UNCHANGED <<active, inventory, closing, old, providers, late, recon>>
  BY DEF RecordProvider, dbVars, gateVars
<1>s. Sandboxes' = Sandboxes
  BY <1>a DEF Sandboxes
<1>b. run[a] = "new" /\ rows' = rows \cup {a} /\ oldRows' = oldRows \ {a}
      /\ steady' = IF TaskOf[a] \in active THEN steady \cup {a} ELSE steady
  BY DEF RecordProvider
<1>r. /\ run' \in [Attempts -> Running \cup {"new", "gone"}]
      /\ run'[a] = "provider" /\ \A b \in Attempts \ {a} : run'[b] = run[b]
  <2>1. "provider" \in Running \cup {"gone"}
    BY DEF Running
  <2> QED
    BY <1>0, <2>1, GotoEffect DEF RecordProvider
<1>1. TypeOK'
  BY <1>0, <1>a, <1>s, <1>b, <1>r DEF TypeOK
<1>2. ASSUME NEW b \in Attempts PROVE AttemptInv(b)'
  <2>0. AttemptInv(b)
    BY DEF IInv
  <2>t. run[b] \in {"new", "provider", "sandbox", "work", "destroy", "unprovide", "unrow", "gone"}
    BY <1>0, RunType
  <2>1. RowOf(b)'
    BY <1>a, <1>s, <1>b, <1>r, <2>0, <2>t DEF AttemptInv, RowOf, Landed, Unprovided
  <2>2. Steady(b)'
    BY <1>a, <1>s, <1>b, <1>r, <2>0, <2>t DEF AttemptInv, Steady
  <2>3. Spares(b)'
    BY <1>a, <1>s, <1>b, <1>r, <2>0, <2>t DEF AttemptInv, Spares, RowOf, Steady, Aged, Landed, Unprovided
  <2> QED
    BY <2>1, <2>2, <2>3 DEF AttemptInv
<1> QED
  BY <1>1, <1>2 DEF IInv

\* The provider is created.
LEMMA CreateProviderIInv ==
  ASSUME IInv, NEW a \in Attempts, CreateProvider(a)
  PROVE  IInv'
<1>0. TypeOK
  BY DEF IInv
<1>a. UNCHANGED <<active, rows, oldRows, inventory, closing, old, recon, steady>>
  BY DEF CreateProvider, dbVars, gateVars
<1>s. Sandboxes' = Sandboxes
  BY <1>a DEF Sandboxes
<1>b. run[a] = "provider" /\ providers' = providers \cup {a}
      /\ late' = IF a \in rows \ oldRows THEN late ELSE late \cup {<<"landed", a>>}
  BY DEF CreateProvider
<1>c. late' \in SUBSET ({"provider", "sandbox", "landed"} \X Attempts)
  BY <1>0, <1>b DEF TypeOK
<1>d. /\ a \in rows \ oldRows \/ <<"landed", a>> \in late'
      /\ \A c \in Attempts : <<"landed", c>> \in late => <<"landed", c>> \in late'
      /\ \A c \in Attempts : <<"sandbox", c>> \in late' <=> <<"sandbox", c>> \in late
  BY <1>b
<1>r. /\ run' \in [Attempts -> Running \cup {"new", "gone"}]
      /\ run'[a] = "sandbox" /\ \A b \in Attempts \ {a} : run'[b] = run[b]
  <2>1. "sandbox" \in Running \cup {"gone"}
    BY DEF Running
  <2> QED
    BY <1>0, <2>1, GotoEffect DEF CreateProvider
<1>1. TypeOK'
  BY <1>0, <1>a, <1>s, <1>b, <1>c, <1>d, <1>r DEF TypeOK
<1>2. ASSUME NEW b \in Attempts PROVE AttemptInv(b)'
  <2>0. AttemptInv(b)
    BY DEF IInv
  <2>t. run[b] \in {"new", "provider", "sandbox", "work", "destroy", "unprovide", "unrow", "gone"}
    BY <1>0, RunType
  <2>1. RowOf(b)'
    BY <1>a, <1>s, <1>b, <1>c, <1>d, <1>r, <2>0, <2>t DEF AttemptInv, RowOf, Landed, Unprovided
  <2>2. Steady(b)'
    BY <1>a, <1>s, <1>b, <1>c, <1>d, <1>r, <2>0, <2>t DEF AttemptInv, Steady
  <2>3. Spares(b)'
    BY <1>a, <1>s, <1>b, <1>c, <1>d, <1>r, <2>0, <2>t DEF AttemptInv, Spares, RowOf, Steady, Aged, Landed, Unprovided
  <2> QED
    BY <2>1, <2>2, <2>3 DEF AttemptInv
<1> QED
  BY <1>1, <1>2 DEF IInv

\* The sandbox is created.
LEMMA CreateSandboxIInv ==
  ASSUME IInv, NEW a \in Attempts, CreateSandbox(a)
  PROVE  IInv'
<1>0. TypeOK
  BY DEF IInv
<1>a. UNCHANGED <<active, rows, oldRows, closing, old, providers, late, recon, steady>>
  BY DEF CreateSandbox, dbVars, gateVars
<1>b. run[a] = "sandbox"
  BY DEF CreateSandbox
<1>s. inventory' \in Seq(Attempts) /\ Sandboxes' = Sandboxes \cup {a}
  BY <1>0, AppendEffect DEF CreateSandbox
<1>r. /\ run' \in [Attempts -> Running \cup {"new", "gone"}]
      /\ run'[a] = "work" /\ \A b \in Attempts \ {a} : run'[b] = run[b]
  <2>1. "work" \in Running \cup {"gone"}
    BY DEF Running
  <2> QED
    BY <1>0, <2>1, GotoEffect DEF CreateSandbox
<1>1. TypeOK'
  BY <1>0, <1>a, <1>b, <1>s, <1>r DEF TypeOK
<1>2. ASSUME NEW b \in Attempts PROVE AttemptInv(b)'
  <2>0. AttemptInv(b)
    BY DEF IInv
  <2>t. run[b] \in {"new", "provider", "sandbox", "work", "destroy", "unprovide", "unrow", "gone"}
    BY <1>0, RunType
  <2>1. RowOf(b)'
    BY <1>a, <1>b, <1>s, <1>r, <2>0, <2>t DEF AttemptInv, RowOf, Landed, Unprovided
  <2>2. Steady(b)'
    BY <1>a, <1>b, <1>s, <1>r, <2>0, <2>t DEF AttemptInv, Steady
  <2>3. Spares(b)'
    BY <1>a, <1>b, <1>s, <1>r, <2>0, <2>t DEF AttemptInv, Spares, RowOf, Steady, Aged, Landed, Unprovided
  <2> QED
    BY <2>1, <2>2, <2>3 DEF AttemptInv
<1> QED
  BY <1>1, <1>2 DEF IInv

\* A creation fails, and may be carried out later.
LEMMA CreationFailsIInv ==
  ASSUME IInv, NEW a \in Attempts, CreationFails(a)
  PROVE  IInv'
<1>0. TypeOK
  BY DEF IInv
<1>a. UNCHANGED <<active, rows, oldRows, inventory, closing, old, providers, recon>>
  BY DEF CreationFails, dbVars, gateVars
<1>s. Sandboxes' = Sandboxes
  BY <1>a DEF Sandboxes
<1>b. run[a] \in {"provider", "sandbox"} /\ late' \in {late, late \cup {<<run[a], a>>}} /\ steady' = steady \ {a}
  BY DEF CreationFails
<1>c. late' \in SUBSET ({"provider", "sandbox", "landed"} \X Attempts)
  BY <1>0, <1>b DEF TypeOK
<1>d. \A c \in Attempts \ {a} : <<"sandbox", c>> \in late' => <<"sandbox", c>> \in late
  BY <1>b
<1>e. \A c \in Attempts : <<"landed", c>> \in late' <=> <<"landed", c>> \in late
  BY <1>b
<1>r. /\ run' \in [Attempts -> Running \cup {"new", "gone"}]
      /\ run'[a] = "destroy" /\ \A b \in Attempts \ {a} : run'[b] = run[b]
  <2>1. "destroy" \in Running \cup {"gone"}
    BY DEF Running
  <2> QED
    BY <1>0, <2>1, GotoEffect DEF CreationFails
<1>1. TypeOK'
  BY <1>0, <1>a, <1>s, <1>b, <1>c, <1>d, <1>e, <1>r DEF TypeOK
<1>2. ASSUME NEW b \in Attempts PROVE AttemptInv(b)'
  <2>0. AttemptInv(b)
    BY DEF IInv
  <2>t. run[b] \in {"new", "provider", "sandbox", "work", "destroy", "unprovide", "unrow", "gone"}
    BY <1>0, RunType
  <2>1. RowOf(b)'
    BY <1>a, <1>s, <1>b, <1>c, <1>d, <1>e, <1>r, <2>0, <2>t DEF AttemptInv, RowOf, Landed, Unprovided
  <2>2. Steady(b)'
    BY <1>a, <1>s, <1>b, <1>c, <1>d, <1>e, <1>r, <2>0, <2>t DEF AttemptInv, Steady
  <2>3. Spares(b)'
    BY <1>a, <1>s, <1>b, <1>c, <1>d, <1>e, <1>r, <2>0, <2>t DEF AttemptInv, Spares, RowOf, Steady, Aged, Landed, Unprovided
  <2> QED
    BY <2>1, <2>2, <2>3 DEF AttemptInv
<1> QED
  BY <1>1, <1>2 DEF IInv

\* The agent has ended.
LEMMA AgentEndsIInv ==
  ASSUME IInv, NEW a \in Attempts, AgentEnds(a)
  PROVE  IInv'
<1>0. TypeOK
  BY DEF IInv
<1>a. UNCHANGED <<active, rows, oldRows, inventory, closing, old, providers, late, recon>>
  BY DEF AgentEnds, dbVars, gateVars
<1>s. Sandboxes' = Sandboxes
  BY <1>a DEF Sandboxes
<1>b. run[a] = "work" /\ steady' = steady \ {a}
  BY DEF AgentEnds
<1>r. /\ run' \in [Attempts -> Running \cup {"new", "gone"}]
      /\ run'[a] = "destroy" /\ \A b \in Attempts \ {a} : run'[b] = run[b]
  <2>1. "destroy" \in Running \cup {"gone"}
    BY DEF Running
  <2> QED
    BY <1>0, <2>1, GotoEffect DEF AgentEnds
<1>1. TypeOK'
  BY <1>0, <1>a, <1>s, <1>b, <1>r DEF TypeOK
<1>2. ASSUME NEW b \in Attempts PROVE AttemptInv(b)'
  <2>0. AttemptInv(b)
    BY DEF IInv
  <2>t. run[b] \in {"new", "provider", "sandbox", "work", "destroy", "unprovide", "unrow", "gone"}
    BY <1>0, RunType
  <2>1. RowOf(b)'
    BY <1>a, <1>s, <1>b, <1>r, <2>0, <2>t DEF AttemptInv, RowOf, Landed, Unprovided
  <2>2. Steady(b)'
    BY <1>a, <1>s, <1>b, <1>r, <2>0, <2>t DEF AttemptInv, Steady
  <2>3. Spares(b)'
    BY <1>a, <1>s, <1>b, <1>r, <2>0, <2>t DEF AttemptInv, Spares, RowOf, Steady, Aged, Landed, Unprovided
  <2> QED
    BY <2>1, <2>2, <2>3 DEF AttemptInv
<1> QED
  BY <1>1, <1>2 DEF IInv

\* The attempt removes its sandbox.
LEMMA DestroySandboxIInv ==
  ASSUME IInv, NEW a \in Attempts, DestroySandbox(a)
  PROVE  IInv'
<1>0. TypeOK
  BY DEF IInv
<1>a. UNCHANGED <<active, rows, oldRows, providers, late, recon, steady>>
  BY DEF DestroySandbox, dbVars, gateVars
<1>b. run[a] = "destroy"
  BY DEF DestroySandbox
<1>s. /\ inventory' \in Seq(Attempts) /\ closing' \in SUBSET Attempts
      /\ Sandboxes' \subseteq Sandboxes /\ Sandboxes \ {a} \subseteq Sandboxes' /\ old' \subseteq old
  BY <1>0, RemoveEffect DEF DestroySandbox, TypeOK, Sandboxes
<1>r. /\ run' \in [Attempts -> Running \cup {"new", "gone"}]
      /\ run'[a] \in {"unprovide", "gone"} /\ \A b \in Attempts \ {a} : run'[b] = run[b]
  <2>1. {"unprovide", "gone"} \subseteq Running \cup {"gone"}
    BY DEF Running
  <2> QED
    BY <1>0, <2>1, GotoEffect DEF DestroySandbox
<1>1. TypeOK'
  BY <1>0, <1>a, <1>b, <1>s, <1>r DEF TypeOK
<1>2. ASSUME NEW b \in Attempts PROVE AttemptInv(b)'
  <2>0. AttemptInv(b)
    BY DEF IInv
  <2>t. run[b] \in {"new", "provider", "sandbox", "work", "destroy", "unprovide", "unrow", "gone"}
    BY <1>0, RunType
  <2>1. RowOf(b)'
    BY <1>a, <1>b, <1>s, <1>r, <2>0, <2>t DEF AttemptInv, RowOf, Landed, Unprovided
  <2>2. Steady(b)'
    BY <1>a, <1>b, <1>s, <1>r, <2>0, <2>t DEF AttemptInv, Steady
  <2>3. Spares(b)'
    BY <1>a, <1>b, <1>s, <1>r, <2>0, <2>t DEF AttemptInv, Spares, RowOf, Steady, Aged, Landed, Unprovided
  <2> QED
    BY <2>1, <2>2, <2>3 DEF AttemptInv
<1> QED
  BY <1>1, <1>2 DEF IInv

\* The attempt removes its provider.
LEMMA RemoveProviderIInv ==
  ASSUME IInv, NEW a \in Attempts, RemoveProvider(a)
  PROVE  IInv'
<1>0. TypeOK
  BY DEF IInv
<1>a. UNCHANGED <<active, rows, oldRows, inventory, closing, old, recon, steady>>
  BY DEF RemoveProvider, dbVars, gateVars
<1>s. Sandboxes' = Sandboxes
  BY <1>a DEF Sandboxes
<1>b. run[a] = "unprovide"
  BY DEF RemoveProvider
<1>d. /\ late' \in SUBSET ({"provider", "sandbox", "landed"} \X Attempts)
      /\ \A c \in Attempts : <<"sandbox", c>> \in late' <=> <<"sandbox", c>> \in late
      /\ \A c \in Attempts \ {a} : <<"landed", c>> \in late' <=> <<"landed", c>> \in late
      /\ providers' = providers \ {a} \/ (providers' = providers /\ late' = late)
  <2>1. CASE providers' = providers \ {a} /\ late' = late \ {<<"landed", a>>}
    BY <1>0, <2>1 DEF TypeOK
  <2>2. CASE UNCHANGED <<providers, late>>
    BY <1>0, <2>2 DEF TypeOK
  <2> QED
    BY <2>1, <2>2 DEF RemoveProvider, removeProvider
<1>c. providers' \in {providers, providers \ {a}} /\ (run'[a] = "unrow" => providers' = providers \ {a})
  BY <1>0 DEF RemoveProvider, removeProvider, Goto, TypeOK
<1>r. /\ run' \in [Attempts -> Running \cup {"new", "gone"}]
      /\ run'[a] \in {"unrow", "gone"} /\ \A b \in Attempts \ {a} : run'[b] = run[b]
  <2>1. {"unrow", "gone"} \subseteq Running \cup {"gone"}
    BY DEF Running
  <2> QED
    BY <1>0, <2>1, GotoEffect DEF RemoveProvider
<1>1. TypeOK'
  BY <1>0, <1>a, <1>s, <1>b, <1>c, <1>d, <1>r DEF TypeOK
<1>2. ASSUME NEW b \in Attempts PROVE AttemptInv(b)'
  <2>0. AttemptInv(b)
    BY DEF IInv
  <2>t. run[b] \in {"new", "provider", "sandbox", "work", "destroy", "unprovide", "unrow", "gone"}
    BY <1>0, RunType
  <2>1. RowOf(b)'
    BY <1>a, <1>s, <1>b, <1>c, <1>d, <1>r, <2>0, <2>t DEF AttemptInv, RowOf, Landed, Unprovided
  <2>2. Steady(b)'
    BY <1>a, <1>s, <1>b, <1>c, <1>d, <1>r, <2>0, <2>t DEF AttemptInv, Steady
  <2>3. Spares(b)'
    BY <1>a, <1>s, <1>b, <1>c, <1>d, <1>r, <2>0, <2>t DEF AttemptInv, Spares, RowOf, Steady, Aged, Landed, Unprovided
  <2> QED
    BY <2>1, <2>2, <2>3 DEF AttemptInv
<1> QED
  BY <1>1, <1>2 DEF IInv

\* The attempt deletes the row of its provider.
LEMMA DeleteRowIInv ==
  ASSUME IInv, NEW a \in Attempts, DeleteRow(a)
  PROVE  IInv'
<1>0. TypeOK
  BY DEF IInv
<1>a. UNCHANGED <<active, inventory, closing, old, providers, late, recon, steady>>
  BY DEF DeleteRow, dbVars, gateVars
<1>s. Sandboxes' = Sandboxes
  BY <1>a DEF Sandboxes
<1>b. run[a] = "unrow" /\ rows' = rows \ {a} /\ oldRows' = oldRows \ {a}
  BY DEF DeleteRow, DropRow
<1>r. /\ run' \in [Attempts -> Running \cup {"new", "gone"}]
      /\ run'[a] = "gone" /\ \A b \in Attempts \ {a} : run'[b] = run[b]
  <2>1. "gone" \in Running \cup {"gone"}
    BY DEF Running
  <2> QED
    BY <1>0, <2>1, GotoEffect DEF DeleteRow
<1>1. TypeOK'
  BY <1>0, <1>a, <1>s, <1>b, <1>r DEF TypeOK
<1>2. ASSUME NEW b \in Attempts PROVE AttemptInv(b)'
  <2>0. AttemptInv(b)
    BY DEF IInv
  <2>t. run[b] \in {"new", "provider", "sandbox", "work", "destroy", "unprovide", "unrow", "gone"}
    BY <1>0, RunType
  <2>1. RowOf(b)'
    BY <1>a, <1>s, <1>b, <1>r, <2>0, <2>t DEF AttemptInv, RowOf, Landed, Unprovided
  <2>2. Steady(b)'
    BY <1>a, <1>s, <1>b, <1>r, <2>0, <2>t DEF AttemptInv, Steady
  <2>3. Spares(b)'
    BY <1>a, <1>s, <1>b, <1>r, <2>0, <2>t DEF AttemptInv, Spares, RowOf, Steady, Aged, Landed, Unprovided
  <2> QED
    BY <2>1, <2>2, <2>3 DEF AttemptInv
<1> QED
  BY <1>1, <1>2 DEF IInv

\* The reconciler reads the active tasks and the rows.
LEMMA ReconcileStartsIInv ==
  ASSUME IInv, ReconcileStarts
  PROVE  IInv'
<1>0. TypeOK
  BY DEF IInv
<1>a. UNCHANGED <<active, rows, oldRows, run, inventory, closing, old, providers, late, steady>>
  BY DEF ReconcileStarts, dbVars, gateVars
<1>s. Sandboxes' = Sandboxes
  BY <1>a DEF Sandboxes
<1>r. /\ recon' \in Recons /\ recon'.at = "list" /\ recon'.active = active /\ recon'.rows = rows /\ recon'.aged = {}
  BY <1>0 DEF ReconcileStarts, Rested, Recons, TypeOK
<1>1. TypeOK'
  BY <1>0, <1>a, <1>s, <1>r DEF TypeOK
<1>2. ASSUME NEW b \in Attempts PROVE AttemptInv(b)'
  <2>0. AttemptInv(b)
    BY DEF IInv
  <2>t. run[b] \in {"new", "provider", "sandbox", "work", "destroy", "unprovide", "unrow", "gone"}
    BY <1>0, RunType
  <2>1. RowOf(b)'
    BY <1>a, <1>s, <1>r, <2>0, <2>t DEF AttemptInv, RowOf, Landed, Unprovided
  <2>2. Steady(b)'
    BY <1>a, <1>s, <1>r, <2>0, <2>t DEF AttemptInv, Steady
  <2>3. Spares(b)'
    BY <1>a, <1>s, <1>r, <2>0, <2>t DEF AttemptInv, Spares, RowOf, Steady, Aged, Landed, Unprovided
  <2> QED
    BY <2>1, <2>2, <2>3 DEF AttemptInv
<1> QED
  BY <1>1, <1>2 DEF IInv

\* A run of the reconciler ends.
LEMMA RestIInv ==
  ASSUME IInv, ListFails \/ ReconcileEnds
  PROVE  IInv'
<1>0. TypeOK
  BY DEF IInv
<1>a. UNCHANGED <<active, rows, oldRows, run, inventory, closing, old, providers, late, steady>>
  BY DEF ListFails, ReconcileEnds, dbVars, gateVars
<1>s. Sandboxes' = Sandboxes
  BY <1>a DEF Sandboxes
<1>r. recon' \in Recons /\ recon'.at = "idle"
  BY RestedType DEF ListFails, ReconcileEnds
<1>1. TypeOK'
  BY <1>0, <1>a, <1>s, <1>r DEF TypeOK
<1>2. ASSUME NEW b \in Attempts PROVE AttemptInv(b)'
  <2>0. AttemptInv(b)
    BY DEF IInv
  <2>t. run[b] \in {"new", "provider", "sandbox", "work", "destroy", "unprovide", "unrow", "gone"}
    BY <1>0, RunType
  <2>1. RowOf(b)'
    BY <1>a, <1>s, <1>r, <2>0, <2>t DEF AttemptInv, RowOf, Landed, Unprovided
  <2>2. Steady(b)'
    BY <1>a, <1>s, <1>r, <2>0, <2>t DEF AttemptInv, Steady
  <2>3. Spares(b)'
    BY <1>a, <1>s, <1>r, <2>0, <2>t DEF AttemptInv, Spares, RowOf, Steady, Aged, Landed, Unprovided
  <2> QED
    BY <2>1, <2>2, <2>3 DEF AttemptInv
<1> QED
  BY <1>1, <1>2 DEF IInv

\* The reconciler reads a page, and after the last one decides.
LEMMA ListPageIInv ==
  ASSUME IInv, ListPage
  PROVE  IInv'
<1>0. TypeOK
  BY DEF IInv
<1>a. UNCHANGED <<active, rows, oldRows, run, inventory, closing, old, providers, late, steady>>
  BY DEF ListPage, dbVars, gateVars
<1>s. Sandboxes' = Sandboxes
  BY <1>a DEF Sandboxes
<1>r. \/ /\ recon' \in Recons /\ recon'.at = "list" /\ recon'.active = recon.active /\ recon'.rows = recon.rows
         /\ recon.at = "list" /\ recon'.aged = recon.aged
      \/ /\ recon' \in Recons /\ recon'.at = "sandboxes" /\ recon.at = "list"
         /\ \A c \in recon'.todo : /\ c \in old /\ TaskOf[c] \notin recon.active
                                   /\ c \in recon.aged => c \in recon'.aged
         /\ \A c \in recon'.rows : c \in recon.rows \cap oldRows /\ TaskOf[c] \notin recon.active
  <2> DEFINE from   == recon.page * PageSize
             items  == {inventory[i] : i \in DOMAIN inventory \cap (from + 1 .. from + PageSize)}
             listed == recon.listed \cup items
  <2>1. items \subseteq Attempts /\ recon \in Recons /\ recon.at = "list"
    <3>1. inventory \in Seq(Attempts) /\ \A i \in DOMAIN inventory : inventory[i] \in Attempts
      BY <1>0 DEF TypeOK
    <3> QED
      BY <1>0, <3>1 DEF TypeOK, ListPage
  <2>2. listed \in SUBSET Attempts
    BY <2>1 DEF Recons
  <2>3. \/ recon' = [recon EXCEPT !.listed = listed, !.page = recon.page + 1]
        \/ recon' = [Rested EXCEPT !.at = "sandboxes", !.listed = listed,
                       !.aged = recon.aged \cap Due(listed, old),
                       !.todo = Due(listed, old), !.rows = Due(recon.rows, oldRows)]
    BY DEF ListPage
  <2> HIDE DEF listed
  <2>4. CASE recon' = [recon EXCEPT !.listed = listed, !.page = recon.page + 1]
    <3>1. recon.page + 1 \in Nat
      BY <2>1 DEF Recons
    <3>2. recon' \in Recons /\ recon'.at = recon.at /\ recon'.active = recon.active
          /\ recon'.rows = recon.rows /\ recon'.aged = recon.aged
      BY <2>1, <2>2, <2>4, <3>1 DEF Recons
    <3> QED
      BY <2>1, <3>2
  <2>5. CASE recon' = [Rested EXCEPT !.at = "sandboxes", !.listed = listed,
                        !.aged = recon.aged \cap Due(listed, old),
                        !.todo = Due(listed, old), !.rows = Due(recon.rows, oldRows)]
    <3>1. Due(listed, old) \in SUBSET Attempts /\ Due(recon.rows, oldRows) \in SUBSET Attempts
          /\ recon.aged \cap Due(listed, old) \in SUBSET Attempts
      BY <2>1, <2>2 DEF Due, Recons
    <3>2. /\ recon' \in Recons /\ recon'.at = "sandboxes" /\ recon'.todo = Due(listed, old)
          /\ recon'.rows = Due(recon.rows, oldRows) /\ recon'.aged = recon.aged \cap Due(listed, old)
      BY <2>2, <2>5, <3>1, RestedType DEF Recons, Rested
    <3> QED
      BY <2>1, <3>2 DEF Due
  <2> QED
    BY <2>3, <2>4, <2>5
<1>1. TypeOK'
  BY <1>0, <1>a, <1>s, <1>r DEF TypeOK
<1>2. ASSUME NEW b \in Attempts PROVE AttemptInv(b)'
  <2>0. AttemptInv(b)
    BY DEF IInv
  <2>t. run[b] \in {"new", "provider", "sandbox", "work", "destroy", "unprovide", "unrow", "gone"}
    BY <1>0, RunType
  <2>1. RowOf(b)'
    BY <1>a, <1>s, <1>r, <2>0, <2>t DEF AttemptInv, RowOf, Landed, Unprovided
  <2>2. Steady(b)'
    BY <1>a, <1>s, <1>r, <2>0, <2>t DEF AttemptInv, Steady
  <2>3. Spares(b)'
    BY <1>a, <1>s, <1>r, <2>0, <2>t DEF AttemptInv, Spares, RowOf, Steady, Aged, Landed, Unprovided
  <2> QED
    BY <2>1, <2>2, <2>3 DEF AttemptInv
<1> QED
  BY <1>1, <1>2 DEF IInv

\* The reconciler removes a sandbox.
LEMMA ReconcileSandboxIInv ==
  ASSUME IInv, NEW a \in Attempts, ReconcileSandbox(a)
  PROVE  IInv'
<1>0. TypeOK
  BY DEF IInv
<1>a. UNCHANGED <<active, rows, oldRows, run, providers, late, steady>>
  BY DEF ReconcileSandbox, dbVars, gateVars
<1>b. recon.at = "sandboxes" /\ a \in recon.todo
  BY DEF ReconcileSandbox
<1>s. /\ inventory' \in Seq(Attempts) /\ closing' \in SUBSET Attempts
      /\ Sandboxes' \subseteq Sandboxes /\ Sandboxes \ {a} \subseteq Sandboxes' /\ old' \subseteq old
  BY <1>0, RemoveEffect DEF ReconcileSandbox, TypeOK, Sandboxes
<1>r. /\ recon' \in Recons /\ recon'.at = "sandboxes" /\ recon'.rows = recon.rows
      /\ recon'.todo \subseteq recon.todo /\ recon'.aged = recon.aged
  <2>1. recon \in Recons
    BY <1>0 DEF TypeOK
  <2>2. CASE recon' = [recon EXCEPT !.todo = @ \ {a}, !.removed = @ \cup {a}]
    BY <1>b, <2>1, <2>2 DEF Recons
  <2>3. CASE recon' = [recon EXCEPT !.todo = @ \ {a}]
    BY <1>b, <2>1, <2>3 DEF Recons
  <2> QED
    BY <2>2, <2>3 DEF ReconcileSandbox
<1>1. TypeOK'
  BY <1>0, <1>a, <1>b, <1>s, <1>r DEF TypeOK
<1>2. ASSUME NEW b \in Attempts PROVE AttemptInv(b)'
  <2>0. AttemptInv(b)
    BY DEF IInv
  <2>t. run[b] \in {"new", "provider", "sandbox", "work", "destroy", "unprovide", "unrow", "gone"}
    BY <1>0, RunType
  <2>1. RowOf(b)'
    BY <1>a, <1>b, <1>s, <1>r, <2>0, <2>t DEF AttemptInv, RowOf, Landed, Unprovided
  <2>2. Steady(b)'
    BY <1>a, <1>b, <1>s, <1>r, <2>0, <2>t DEF AttemptInv, Steady
  <2>3. Spares(b)'
    BY <1>a, <1>b, <1>s, <1>r, <2>0, <2>t DEF AttemptInv, Spares, RowOf, Steady, Aged, Landed, Unprovided
  <2> QED
    BY <2>1, <2>2, <2>3 DEF AttemptInv
<1> QED
  BY <1>1, <1>2 DEF IInv

\* The reconciler turns to the providers.
LEMMA SandboxesDoneIInv ==
  ASSUME IInv, SandboxesDone
  PROVE  IInv'
<1>0. TypeOK
  BY DEF IInv
<1>a. UNCHANGED <<active, rows, oldRows, run, inventory, closing, old, providers, late, steady>>
  BY DEF SandboxesDone, dbVars, gateVars
<1>s. Sandboxes' = Sandboxes
  BY <1>a DEF Sandboxes
<1>b. recon.at = "sandboxes" /\ recon \in Recons
  BY <1>0 DEF SandboxesDone, TypeOK
<1>r. /\ recon' \in Recons /\ recon'.at = "providers" /\ recon'.todo \subseteq recon.rows
  <2> DEFINE todo == recon.rows \ (recon.listed \ recon.removed)
  <2>1. todo \in SUBSET Attempts /\ todo \subseteq recon.rows
    BY <1>b DEF Recons
  <2>2. recon' = [Rested EXCEPT !.at = "providers", !.todo = todo]
    BY DEF SandboxesDone
  <2> HIDE DEF todo
  <2> QED
    BY <2>1, <2>2, RestedType DEF Recons
<1>1. TypeOK'
  BY <1>0, <1>a, <1>s, <1>b, <1>r DEF TypeOK
<1>2. ASSUME NEW b \in Attempts PROVE AttemptInv(b)'
  <2>0. AttemptInv(b)
    BY DEF IInv
  <2>t. run[b] \in {"new", "provider", "sandbox", "work", "destroy", "unprovide", "unrow", "gone"}
    BY <1>0, RunType
  <2>1. RowOf(b)'
    BY <1>a, <1>s, <1>b, <1>r, <2>0, <2>t DEF AttemptInv, RowOf, Landed, Unprovided
  <2>2. Steady(b)'
    BY <1>a, <1>s, <1>b, <1>r, <2>0, <2>t DEF AttemptInv, Steady
  <2>3. Spares(b)'
    BY <1>a, <1>s, <1>b, <1>r, <2>0, <2>t DEF AttemptInv, Spares, RowOf, Steady, Aged, Landed, Unprovided
  <2> QED
    BY <2>1, <2>2, <2>3 DEF AttemptInv
<1> QED
  BY <1>1, <1>2 DEF IInv

\* The reconciler removes a provider.
LEMMA ReconcileProviderIInv ==
  ASSUME IInv, NEW a \in Attempts, ReconcileProvider(a)
  PROVE  IInv'
<1>0. TypeOK
  BY DEF IInv
<1>a. UNCHANGED <<active, rows, oldRows, run, inventory, closing, old, steady>>
  BY DEF ReconcileProvider, dbVars, gateVars
<1>s. Sandboxes' = Sandboxes
  BY <1>a DEF Sandboxes
<1>b. recon.at = "providers" /\ a \in recon.todo /\ recon \in Recons
  BY <1>0 DEF ReconcileProvider, TypeOK
<1>c. a \notin steady /\ Aged(a)
  BY <1>b DEF IInv, AttemptInv, Spares
<1>e. /\ late' \in SUBSET ({"provider", "sandbox", "landed"} \X Attempts)
      /\ \A c \in Attempts : <<"sandbox", c>> \in late' <=> <<"sandbox", c>> \in late
      /\ \A c \in Attempts \ {a} : <<"landed", c>> \in late' <=> <<"landed", c>> \in late
      /\ providers' = providers \ {a} \/ (providers' = providers /\ late' = late)
  <2>1. CASE providers' = providers \ {a} /\ late' = late \ {<<"landed", a>>}
    BY <1>0, <2>1 DEF TypeOK
  <2>2. CASE UNCHANGED <<providers, late>>
    BY <1>0, <2>2 DEF TypeOK
  <2> QED
    BY <2>1, <2>2 DEF ReconcileProvider, removeProvider
<1>d. providers' \in {providers, providers \ {a}}
  BY DEF ReconcileProvider, removeProvider
<1>r. \/ /\ recon' \in Recons /\ recon'.at = "unrow" /\ recon'.todo = recon.todo /\ recon'.removed = {a}
         /\ providers' = providers \ {a}
      \/ recon' \in Recons /\ recon'.at = "providers" /\ recon'.todo \subseteq recon.todo
  <2>1. CASE recon' = [recon EXCEPT !.at = "unrow", !.removed = {a}] /\ providers' = providers \ {a}
    BY <1>b, <2>1 DEF Recons
  <2>2. CASE recon' = [recon EXCEPT !.todo = @ \ {a}]
    BY <1>b, <2>2 DEF Recons
  <2> QED
    BY <2>1, <2>2 DEF ReconcileProvider, removeProvider
<1>1. TypeOK'
  BY <1>0, <1>a, <1>s, <1>b, <1>c, <1>d, <1>e, <1>r DEF TypeOK
<1>2. ASSUME NEW b \in Attempts PROVE AttemptInv(b)'
  <2>0. AttemptInv(b)
    BY DEF IInv
  <2>t. run[b] \in {"new", "provider", "sandbox", "work", "destroy", "unprovide", "unrow", "gone"}
    BY <1>0, RunType
  <2>1. RowOf(b)'
    BY <1>a, <1>s, <1>b, <1>c, <1>d, <1>e, <1>r, <2>0, <2>t DEF AttemptInv, RowOf, Landed, Unprovided
  <2>2. Steady(b)'
    BY <1>a, <1>s, <1>b, <1>c, <1>d, <1>e, <1>r, <2>0, <2>t DEF AttemptInv, Steady
  <2>3. Spares(b)'
    BY <1>a, <1>s, <1>b, <1>c, <1>d, <1>e, <1>r, <2>0, <2>t DEF AttemptInv, Spares, RowOf, Steady, Aged, Landed, Unprovided
  <2> QED
    BY <2>1, <2>2, <2>3 DEF AttemptInv
<1> QED
  BY <1>1, <1>2 DEF IInv

\* The reconciler deletes the row of a provider it has removed.
LEMMA ReconcileRowIInv ==
  ASSUME IInv, NEW a \in Attempts, ReconcileRow(a)
  PROVE  IInv'
<1>0. TypeOK
  BY DEF IInv
<1>a. UNCHANGED <<active, run, inventory, closing, old, providers, late, steady>>
  BY DEF ReconcileRow, dbVars, gateVars
<1>s. Sandboxes' = Sandboxes
  BY <1>a DEF Sandboxes
<1>b. recon.at = "unrow" /\ recon.removed = {a} /\ recon \in Recons
  BY <1>0 DEF ReconcileRow, TypeOK
<1>c. Aged(a) /\ Unprovided(a)
  BY <1>b DEF IInv, AttemptInv, Spares
<1>d. \/ rows' = rows \ {a} /\ oldRows' = oldRows \ {a}
      \/ rows' = rows /\ oldRows' = oldRows
  BY DEF ReconcileRow, DropRow
<1>r. recon' \in Recons /\ recon'.at = "providers" /\ recon'.todo \subseteq recon.todo
  <2>1. recon' = [recon EXCEPT !.at = "providers", !.todo = @ \ {a}, !.removed = {}]
    BY DEF ReconcileRow
  <2> QED
    BY <1>b, <2>1 DEF Recons
<1>1. TypeOK'
  BY <1>0, <1>a, <1>s, <1>b, <1>c, <1>d, <1>r DEF TypeOK
<1>2. ASSUME NEW b \in Attempts PROVE AttemptInv(b)'
  <2>0. AttemptInv(b)
    BY DEF IInv
  <2>t. run[b] \in {"new", "provider", "sandbox", "work", "destroy", "unprovide", "unrow", "gone"}
    BY <1>0, RunType
  <2>1. RowOf(b)'
    BY <1>a, <1>s, <1>b, <1>c, <1>d, <1>r, <2>0, <2>t DEF AttemptInv, RowOf, Landed, Unprovided
  <2>2. Steady(b)'
    BY <1>a, <1>s, <1>b, <1>c, <1>d, <1>r, <2>0, <2>t DEF AttemptInv, Steady
  <2>3. Spares(b)'
    BY <1>a, <1>s, <1>b, <1>c, <1>d, <1>r, <2>0, <2>t DEF AttemptInv, Spares, RowOf, Steady, Aged, Landed, Unprovided
  <2> QED
    BY <2>1, <2>2, <2>3 DEF AttemptInv
<1> QED
  BY <1>1, <1>2 DEF IInv

\* A sandbox has been torn down.
LEMMA TornDownIInv ==
  ASSUME IInv, NEW a \in Attempts, TornDown(a)
  PROVE  IInv'
<1>0. TypeOK
  BY DEF IInv
<1>a. UNCHANGED <<active, rows, oldRows, run, inventory, old, providers, late, recon, steady>>
  BY DEF TornDown, dbVars, gateVars
<1>s. Sandboxes' = Sandboxes
  BY <1>a DEF Sandboxes
<1>b. closing' = closing \ {a}
  BY DEF TornDown
<1>1. TypeOK'
  BY <1>0, <1>a, <1>s, <1>b DEF TypeOK
<1>2. ASSUME NEW b \in Attempts PROVE AttemptInv(b)'
  <2>0. AttemptInv(b)
    BY DEF IInv
  <2>t. run[b] \in {"new", "provider", "sandbox", "work", "destroy", "unprovide", "unrow", "gone"}
    BY <1>0, RunType
  <2>1. RowOf(b)'
    BY <1>a, <1>s, <1>b, <2>0, <2>t DEF AttemptInv, RowOf, Landed, Unprovided
  <2>2. Steady(b)'
    BY <1>a, <1>s, <1>b, <2>0, <2>t DEF AttemptInv, Steady
  <2>3. Spares(b)'
    BY <1>a, <1>s, <1>b, <2>0, <2>t DEF AttemptInv, Spares, RowOf, Steady, Aged, Landed, Unprovided
  <2> QED
    BY <2>1, <2>2, <2>3 DEF AttemptInv
<1> QED
  BY <1>1, <1>2 DEF IInv

\* A provider is created when nobody waits for it.
LEMMA LandsProviderIInv ==
  ASSUME IInv, NEW a \in Attempts, <<"provider", a>> \in late, late' = (late \ {<<"provider", a>>}) \cup {<<"landed", a>>}, providers' = providers \cup {a}, UNCHANGED <<dbVars, run, inventory, closing, old, recon, steady>>
  PROVE  IInv'
<1>0. TypeOK
  BY DEF IInv
<1>a. UNCHANGED <<active, rows, oldRows, run, inventory, closing, old, recon, steady>>
  BY DEF dbVars
<1>s. Sandboxes' = Sandboxes
  BY <1>a DEF Sandboxes
<1>b. \A c \in Attempts : <<"sandbox", c>> \in late' => <<"sandbox", c>> \in late
  OBVIOUS
<1>c. <<"landed", a>> \in late' /\ \A c \in Attempts : <<"landed", c>> \in late => <<"landed", c>> \in late'
  OBVIOUS
<1>d. late' \in SUBSET ({"provider", "sandbox", "landed"} \X Attempts) /\ providers' = providers \cup {a}
  BY <1>0 DEF TypeOK
<1>1. TypeOK'
  BY <1>0, <1>a, <1>s, <1>b, <1>c, <1>d DEF TypeOK
<1>2. ASSUME NEW b \in Attempts PROVE AttemptInv(b)'
  <2>0. AttemptInv(b)
    BY DEF IInv
  <2>t. run[b] \in {"new", "provider", "sandbox", "work", "destroy", "unprovide", "unrow", "gone"}
    BY <1>0, RunType
  <2>1. RowOf(b)'
    BY <1>a, <1>s, <1>b, <1>c, <1>d, <2>0, <2>t DEF AttemptInv, RowOf, Landed, Unprovided
  <2>2. Steady(b)'
    BY <1>a, <1>s, <1>b, <1>c, <1>d, <2>0, <2>t DEF AttemptInv, Steady
  <2>3. Spares(b)'
    BY <1>a, <1>s, <1>b, <1>c, <1>d, <2>0, <2>t DEF AttemptInv, Spares, RowOf, Steady, Aged, Landed, Unprovided
  <2> QED
    BY <2>1, <2>2, <2>3 DEF AttemptInv
<1> QED
  BY <1>1, <1>2 DEF IInv

\* A sandbox is created when nobody waits for it.
LEMMA LandsSandboxIInv ==
  ASSUME IInv, NEW a \in Attempts, <<"sandbox", a>> \in late, late' = late \ {<<"sandbox", a>>}, inventory' = Append(inventory, a), UNCHANGED <<dbVars, run, closing, old, providers, recon, steady>>
  PROVE  IInv'
<1>0. TypeOK
  BY DEF IInv
<1>a. UNCHANGED <<active, rows, oldRows, run, closing, old, providers, recon, steady>>
  BY DEF dbVars
<1>b. \A c \in Attempts : <<"sandbox", c>> \in late' => <<"sandbox", c>> \in late
  OBVIOUS
<1>c. \A c \in Attempts : <<"landed", c>> \in late <=> <<"landed", c>> \in late'
  OBVIOUS
<1>d. late' \in SUBSET ({"provider", "sandbox", "landed"} \X Attempts) /\ <<"sandbox", a>> \in late
  BY <1>0 DEF TypeOK
<1>s. inventory' \in Seq(Attempts) /\ Sandboxes' = Sandboxes \cup {a}
  BY <1>0, AppendEffect
<1>1. TypeOK'
  BY <1>0, <1>a, <1>b, <1>c, <1>d, <1>s DEF TypeOK
<1>2. ASSUME NEW b \in Attempts PROVE AttemptInv(b)'
  <2>0. AttemptInv(b)
    BY DEF IInv
  <2>t. run[b] \in {"new", "provider", "sandbox", "work", "destroy", "unprovide", "unrow", "gone"}
    BY <1>0, RunType
  <2>1. RowOf(b)'
    BY <1>a, <1>b, <1>c, <1>d, <1>s, <2>0, <2>t DEF AttemptInv, RowOf, Landed, Unprovided
  <2>2. Steady(b)'
    BY <1>a, <1>b, <1>c, <1>d, <1>s, <2>0, <2>t DEF AttemptInv, Steady
  <2>3. Spares(b)'
    BY <1>a, <1>b, <1>c, <1>d, <1>s, <2>0, <2>t DEF AttemptInv, Spares, RowOf, Steady, Aged, Landed, Unprovided
  <2> QED
    BY <2>1, <2>2, <2>3 DEF AttemptInv
<1> QED
  BY <1>1, <1>2 DEF IInv

\* The minimum age passes.
LEMMA TickIInv ==
  ASSUME IInv, Tick
  PROVE  IInv'
<1>0. TypeOK
  BY DEF IInv
<1>a. UNCHANGED <<active, rows, run, inventory, closing, providers, late, steady>>
  BY DEF Tick, dbVars, gateVars
<1>s. Sandboxes' = Sandboxes
  BY <1>a DEF Sandboxes
<1>b. old' = Sandboxes /\ oldRows' = rows
  BY DEF Tick
<1>c. Sandboxes \in SUBSET Attempts
  BY <1>0 DEF TypeOK, Sandboxes, ToSet
<1>r. /\ recon' \in Recons /\ recon'.at = recon.at /\ recon'.active = recon.active
      /\ recon'.rows = recon.rows /\ recon'.todo = recon.todo /\ recon'.removed = recon.removed
      /\ recon.at # "list" => recon'.aged = recon.aged
      /\ recon.at = "list" => recon'.aged = recon.aged \cup ((Sandboxes \ old) \cap steady)
  <2>1. recon \in Recons /\ recon.aged \cup ((Sandboxes \ old) \cap steady) \in SUBSET Attempts
    BY <1>0, <1>c DEF TypeOK, Recons
  <2>2. CASE recon.at = "list"
    BY <2>1, <2>2 DEF Tick, Recons
  <2>3. CASE recon.at # "list"
    BY <2>1, <2>3 DEF Tick, Recons
  <2> QED
    BY <2>2, <2>3
<1>1. TypeOK'
  BY <1>0, <1>a, <1>s, <1>b, <1>c, <1>r DEF TypeOK
<1>2. ASSUME NEW b \in Attempts PROVE AttemptInv(b)'
  <2>0. AttemptInv(b)
    BY DEF IInv
  <2>t. run[b] \in {"new", "provider", "sandbox", "work", "destroy", "unprovide", "unrow", "gone"}
    BY <1>0, RunType
  <2>1. RowOf(b)'
    BY <1>a, <1>s, <1>b, <1>c, <1>r, <2>0, <2>t DEF AttemptInv, RowOf, Landed, Unprovided
  <2>2. Steady(b)'
    BY <1>a, <1>s, <1>b, <1>c, <1>r, <2>0, <2>t DEF AttemptInv, Steady
  <2>3. Spares(b)'
    BY <1>a, <1>s, <1>b, <1>c, <1>r, <2>0, <2>t DEF AttemptInv, Spares, RowOf, Steady, Aged, Landed, Unprovided
  <2> QED
    BY <2>1, <2>2, <2>3 DEF AttemptInv
<1> QED
  BY <1>1, <1>2 DEF IInv

\* The process restarts.
LEMMA RestartIInv ==
  ASSUME IInv, Restart
  PROVE  IInv'
<1>0. TypeOK
  BY DEF IInv
<1>a. UNCHANGED <<active, rows, oldRows, inventory, closing, old, providers>>
  BY DEF Restart, dbVars, gateVars
<1>s. Sandboxes' = Sandboxes
  BY <1>a DEF Sandboxes
<1>r. run' \in [Attempts -> Running \cup {"new", "gone"}] /\ \A c \in Attempts : run'[c] = IF run[c] = "new" THEN "new" ELSE "gone"
  <2>1. run' = [c \in Attempts |-> IF run[c] \in Running THEN "gone" ELSE run[c]]
    BY DEF Restart
  <2>2. \A c \in Attempts : run[c] \in Running \cup {"new", "gone"} /\ "new" \notin Running
    BY <1>0 DEF TypeOK, Running
  <2> QED
    BY <2>1, <2>2
<1>c. recon' \in Recons /\ recon'.at = "idle" /\ steady' = {}
  BY RestedType DEF Restart
<1>d. /\ late' \in SUBSET ({"provider", "sandbox", "landed"} \X Attempts)
      /\ \A c \in Attempts : /\ <<"landed", c>> \in late <=> <<"landed", c>> \in late'
                             /\ run[c] = "new" /\ <<"sandbox", c>> \in late' => <<"sandbox", c>> \in late
  <2> DEFINE cut == {<<run[c], c>> : c \in {e \in Attempts : run[e] \in {"provider", "sandbox"}}}
  <2>1. late' = late \/ late' = late \cup cut
    BY DEF Restart
  <2>2. \A x \in cut : x \in {"provider", "sandbox"} \X Attempts
    OBVIOUS
  <2>3. \A c \in Attempts : <<"landed", c>> \notin cut /\ (run[c] = "new" => <<"sandbox", c>> \notin cut)
    OBVIOUS
  <2> HIDE DEF cut
  <2> QED
    BY <1>0, <2>1, <2>2, <2>3 DEF TypeOK
<1>1. TypeOK'
  BY <1>0, <1>a, <1>s, <1>r, <1>c, <1>d DEF TypeOK
<1>2. ASSUME NEW b \in Attempts PROVE AttemptInv(b)'
  <2>0. AttemptInv(b)
    BY DEF IInv
  <2>t. run[b] \in {"new", "provider", "sandbox", "work", "destroy", "unprovide", "unrow", "gone"}
    BY <1>0, RunType
  <2>1. RowOf(b)'
    <3>1. run'[b] \in {"new", "gone"} /\ (run'[b] = "new" <=> run[b] = "new")
      BY <1>r, <2>t
    <3>2. Landed(b)' <=> Landed(b)
      BY <1>d DEF Landed
    <3>6. run[b] = "new" /\ <<"sandbox", b>> \in late' => <<"sandbox", b>> \in late
      BY <1>d
    <3>3. (b \in providers => b \in rows \/ Landed(b))'
      BY <1>a, <2>0, <3>2 DEF AttemptInv, RowOf
    <3>4. (b \in oldRows => run[b] # "new")'
      BY <1>a, <2>0, <3>1 DEF AttemptInv, RowOf
    <3>5. (run[b] = "new" => b \notin rows \cup old \cup Sandboxes /\ <<"sandbox", b>> \notin late)'
      BY <1>a, <1>s, <2>0, <3>1, <3>6 DEF AttemptInv, RowOf
    <3> QED
      BY <3>1, <3>3, <3>4, <3>5 DEF RowOf
  <2>2. Steady(b)'
    BY <1>a, <1>s, <1>r, <1>c, <1>d, <2>0, <2>t DEF AttemptInv, Steady
  <2>3. Spares(b)'
    BY <1>a, <1>s, <1>r, <1>c, <1>d, <2>0, <2>t DEF AttemptInv, Spares, RowOf, Steady, Aged, Landed, Unprovided
  <2> QED
    BY <2>1, <2>2, <2>3 DEF AttemptInv
<1> QED
  BY <1>1, <1>2 DEF IInv

-----------------------------------------------------------------------------
LEMMA InitIInv == Init => IInv
<1> SUFFICES ASSUME Init PROVE IInv
  OBVIOUS
<1>1. recon \in Recons /\ recon.at = "idle"
  BY RestedType DEF Init
<1>2. inventory \in Seq(Attempts) /\ Sandboxes = {}
  BY DEF Init, Sandboxes, ToSet
<1>3. TypeOK
  BY <1>1, <1>2 DEF Init, TypeOK
<1>4. ASSUME NEW a \in Attempts PROVE AttemptInv(a)
  BY <1>1, <1>2 DEF Init, AttemptInv, RowOf, Steady, Spares
<1> QED
  BY <1>3, <1>4 DEF IInv

LEMMA StepIInv == IInv /\ [Next]_vars => IInv'
<1> SUFFICES ASSUME IInv, [Next]_vars PROVE IInv'
  OBVIOUS
<1>1. CASE \E t \in Tasks : TaskStarts(t) \/ TaskEnds(t)
  BY <1>1, TaskStartsIInv, TaskEndsIInv
<1>2. ASSUME NEW a \in Attempts, RecordProvider(a) \/ RunStep(a) \/ TornDown(a) PROVE IInv'
  BY <1>2, RecordProviderIInv, CreateProviderIInv, CreateSandboxIInv, CreationFailsIInv,
     AgentEndsIInv, DestroySandboxIInv, RemoveProviderIInv, DeleteRowIInv, TornDownIInv
     DEF RunStep
<1>3. ASSUME NEW a \in Attempts, Lands(a) PROVE IInv'
  BY <1>3, LandsProviderIInv, LandsSandboxIInv DEF Lands
<1>4. CASE ReconStep
  BY <1>4, ReconcileStartsIInv, ListPageIInv, RestIInv, ReconcileSandboxIInv, SandboxesDoneIInv,
     ReconcileProviderIInv, ReconcileRowIInv DEF ReconStep
<1>5. CASE Tick \/ Restart
  BY <1>5, TickIInv, RestartIInv
<1>6. CASE UNCHANGED vars
  <2>1. UNCHANGED <<active, rows, oldRows, run, inventory, closing, old, providers, late, recon, steady>>
    BY <1>6 DEF vars, dbVars, gateVars
  <2>2. TypeOK' /\ Sandboxes' = Sandboxes
    BY <2>1 DEF IInv, TypeOK, Sandboxes
  <2>3. \A a \in Attempts : AttemptInv(a)'
    BY <2>1, <2>2 DEF IInv, AttemptInv, RowOf, Steady, Spares, Aged, Landed, Unprovided
  <2> QED
    BY <2>2, <2>3 DEF IInv
<1> QED
  BY <1>1, <1>2, <1>3, <1>4, <1>5, <1>6 DEF Next

LEMMA SpecIInv == Spec => []IInv
<1>1. Init => IInv
  BY InitIInv
<1>2. IInv /\ [Next]_vars => IInv'
  BY StepIInv
<1> QED
  BY <1>1, <1>2, PTL DEF Spec

-----------------------------------------------------------------------------
\* Every variable keeps its type (openShellSandboxReconciler.ts).
THEOREM TypeCorrect == Spec => []TypeOK
<1>1. IInv => TypeOK
  BY DEF IInv
<1> QED
  BY <1>1, SpecIInv, PTL

LEMMA StepUndisturbed ==
  ASSUME IInv, [Next]_vars, NEW a \in steady, run[a] \in {"sandbox", "work"}
  PROVE  /\ a \in providers => a \in providers'
         /\ a \in Sandboxes /\ a \notin Sandboxes' => a \in recon.aged
<1>0. TypeOK /\ a \in Attempts /\ AttemptInv(a)
  BY DEF IInv, TypeOK
<1> DEFINE Kept == (a \in providers => a \in providers') /\ (a \in Sandboxes => a \in Sandboxes')
<1>1. CASE UNCHANGED <<inventory, providers>>
  BY <1>1 DEF Sandboxes
<1>2. CASE \E t \in Tasks : TaskStarts(t) \/ TaskEnds(t)
  BY <1>1, <1>2 DEF TaskStarts, TaskEnds, gateVars
<1>3. ASSUME NEW b \in Attempts, RecordProvider(b) \/ RunStep(b) \/ TornDown(b) \/ Lands(b) PROVE Kept
  <2>1. CASE RecordProvider(b) \/ CreationFails(b) \/ AgentEnds(b) \/ DeleteRow(b) \/ TornDown(b)
    BY <2>1 DEF RecordProvider, CreationFails, AgentEnds, DeleteRow, TornDown, gateVars, Sandboxes
  <2>2. CASE CreateProvider(b)
    BY <2>2 DEF CreateProvider, Sandboxes
  <2>3. CASE CreateSandbox(b)
    BY <1>0, <2>3, AppendEffect DEF CreateSandbox
  <2>4. CASE DestroySandbox(b)
    <3>1. a # b
      BY <2>4 DEF DestroySandbox
    <3>2. CASE removeSandbox(b)
      BY <1>0, <2>4, <3>1, <3>2, RemoveEffect DEF DestroySandbox
    <3>3. CASE UNCHANGED inventory
      BY <2>4, <3>3 DEF DestroySandbox, Sandboxes
    <3> QED
      BY <2>4, <3>2, <3>3 DEF DestroySandbox
  <2>5. CASE RemoveProvider(b)
    BY <2>5 DEF RemoveProvider, removeProvider, Sandboxes
  <2>6. CASE Lands(b)
    <3>1. CASE providers' = providers \cup {b} /\ UNCHANGED inventory
      BY <3>1 DEF Sandboxes
    <3>2. CASE inventory' = Append(inventory, b) /\ UNCHANGED providers
      BY <1>0, <3>2, AppendEffect
    <3> QED
      BY <2>6, <3>1, <3>2 DEF Lands
  <2> QED
    BY <1>3, <2>1, <2>2, <2>3, <2>4, <2>5, <2>6 DEF RunStep
<1>4. ASSUME NEW b \in Attempts, ReconcileSandbox(b)
      PROVE  (a \in providers => a \in providers') /\ (a \in Sandboxes /\ a \notin Sandboxes' => a \in recon.aged)
  <2>1. CASE removeSandbox(b) /\ a # b
    BY <1>0, <1>4, <2>1, RemoveEffect DEF ReconcileSandbox
  <2>2. CASE a = b
    BY <1>0, <1>4, <2>2 DEF ReconcileSandbox, AttemptInv, Spares
  <2>3. CASE UNCHANGED inventory
    BY <1>4, <2>3 DEF ReconcileSandbox, Sandboxes
  <2> QED
    BY <1>4, <2>1, <2>2, <2>3 DEF ReconcileSandbox
<1>5. ASSUME NEW b \in Attempts, ReconcileProvider(b) PROVE Kept
  <2>1. a # b
    BY <1>0, <1>5 DEF ReconcileProvider, AttemptInv, Spares
  <2> QED
    BY <1>5, <2>1 DEF ReconcileProvider, removeProvider, Sandboxes
<1>6. CASE ReconcileStarts \/ ListPage \/ ListFails \/ SandboxesDone \/ ReconcileEnds
  BY <1>1, <1>6 DEF ReconcileStarts, ListPage, ListFails, SandboxesDone, ReconcileEnds, gateVars
<1>7. CASE (\E b \in Attempts : ReconcileRow(b)) \/ Tick \/ Restart \/ UNCHANGED vars
  BY <1>1, <1>7 DEF ReconcileRow, Tick, Restart, vars, gateVars
<1> QED
  BY <1>2, <1>3, <1>4, <1>5, <1>6, <1>7 DEF Next, ReconStep

\* No step takes a sandbox or a provider from an agent whose task has been active
\* since it was started, but for a sandbox that came of age while the inventory
\* was being read (reconcileOpenShellSandboxes, destroyWorkspace).
THEOREM AgentsUndisturbed == Spec => AgentUndisturbed
<1> DEFINE Undisturbed == \A a \in steady : run[a] \in {"sandbox", "work"} =>
                            /\ a \in providers => a \in providers'
                            /\ a \in Sandboxes /\ a \notin Sandboxes' => a \in recon.aged
<1>1. IInv /\ [Next]_vars => [Undisturbed]_vars
  BY StepUndisturbed
<1> QED
  BY <1>1, SpecIInv, PTL DEF Spec, AgentUndisturbed

\* Every provider has its row, but for those that were made late
\* (recordManagedOpenShellProvider, destroyWorkspace, reconcileOpenShellSandboxes).
THEOREM ProvidersKnown == Spec => []ProviderKnown
<1>1. IInv => ProviderKnown
  BY DEF IInv, TypeOK, AttemptInv, RowOf, Landed, ProviderKnown
<1> QED
  BY <1>1, SpecIInv, PTL
=============================================================================
