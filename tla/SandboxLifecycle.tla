--------------------------- MODULE SandboxLifecycle ---------------------------
(***************************************************************************)
(* The sandboxes of the agents and the credential providers attached to    *)
(* them: who creates and destroys them (openShellWorkspaceRunner.ts), and  *)
(* the reconciler that removes what a crash, an error or a late answer of  *)
(* the gateway left behind (openShellSandboxReconciler.ts).                *)
(*                                                                         *)
(* An attempt is one run of an agent; the names of its sandbox and of its  *)
(* provider are its own.  The reconciler works from what it has read: the  *)
(* active tasks and the rows of the providers first, then the sandboxes,   *)
(* page by page, while attempts go on.                                     *)
(***************************************************************************)
EXTENDS Integers, Sequences, SequencesExt

CONSTANTS
  Tasks, Attempts,
  TaskOf,        \* the task each attempt runs for
  PageSize,      \* INVENTORY_PAGE_SIZE
  MaxPages       \* MAX_INVENTORY_PAGES

ASSUME SandboxAssumption ==
  /\ TaskOf \in [Attempts -> Tasks]
  /\ PageSize \in Nat \ {0} /\ MaxPages \in Nat \ {0}

VARIABLES
  active,      \* tasks in an active state, in the database
  rows,        \* managed_openshell_providers
  oldRows,     \* of these, the ones that have reached the minimum age
  run,         \* where the runner is with each attempt
  inventory,   \* the gateway: its sandboxes, in the order it lists them
  closing,     \* sandboxes it is still tearing down
  old,         \* of its sandboxes, the ones that have reached the minimum age
  providers,   \* its providers
  late,        \* creations that were given up and may still be carried out; and
               \* providers that were made late ("landed")
  recon,       \* the reconciler; of its fields aged is history: sandboxes of the
               \* attempts in steady that came of age while it read the inventory
  \* History.
  steady       \* attempts at work whose task has been active all the time

dbVars   == <<active, rows, oldRows>>
gateVars == <<inventory, closing, providers, late, old>>
vars == <<dbVars, run, gateVars, recon, steady>>

Running == {"provider", "sandbox", "work", "destroy", "unprovide", "unrow"}
Rested  == [at |-> "idle", active |-> {}, rows |-> {}, listed |-> {}, page |-> 0,
            aged |-> {}, todo |-> {}, removed |-> {}]

Init ==
  /\ active \in SUBSET Tasks /\ rows = {}
  /\ oldRows = {} /\ old = {}
  /\ run = [a \in Attempts |-> "new"]
  /\ inventory = <<>> /\ closing = {} /\ providers = {} /\ late = {}
  /\ recon = Rested /\ steady = {}

Sandboxes == ToSet(inventory)

-----------------------------------------------------------------------------
(* Tasks.                                                                  *)

\* A task is created, retried or triggered again, also while its former agent
\* is still at work.
TaskStarts(t) ==
  /\ t \notin active /\ active' = active \cup {t}
  /\ UNCHANGED <<rows, oldRows, run, gateVars, recon, steady>>

\* A task ends, is abandoned or is deleted, whatever its agent does.
TaskEnds(t) ==
  /\ t \in active /\ active' = active \ {t}
  /\ steady' = {a \in steady : TaskOf[a] # t}
  /\ UNCHANGED <<rows, oldRows, run, gateVars, recon>>

-----------------------------------------------------------------------------
(* An attempt: createWorkspace, runAgentInDocker or runReviewInDocker, and *)
(* destroyWorkspace.                                                       *)

Goto(a, l) == run' = [run EXCEPT ![a] = l]

\* The provider is recorded before it is created.  The coordinator runs one
\* operation at a time for a task; the task may have ended since it began.
RecordProvider(a) ==
  /\ run[a] = "new"
  /\ \A b \in Attempts : TaskOf[b] = TaskOf[a] => run[b] \notin Running
  /\ rows' = rows \cup {a} /\ oldRows' = oldRows \ {a} /\ Goto(a, "provider")
  /\ steady' = IF TaskOf[a] \in active THEN steady \cup {a} ELSE steady
  /\ UNCHANGED <<active, gateVars, recon>>

CreateProvider(a) ==
  /\ run[a] = "provider" /\ providers' = providers \cup {a} /\ Goto(a, "sandbox")
  /\ late' = IF a \in rows \ oldRows THEN late ELSE late \cup {<<"landed", a>>}
  /\ UNCHANGED <<dbVars, inventory, closing, old, recon, steady>>

CreateSandbox(a) ==
  /\ run[a] = "sandbox" /\ a \notin closing
  /\ inventory' = Append(inventory, a) /\ Goto(a, "work")
  /\ UNCHANGED <<dbVars, closing, old, providers, late, recon, steady>>

\* A creation fails, is aborted or takes too long; the command is killed, and
\* the gateway may carry it out nevertheless.
CreationFails(a) ==
  /\ run[a] \in {"provider", "sandbox"} /\ Goto(a, "destroy")
  /\ late' \in {late, late \cup {<<run[a], a>>}} /\ steady' = steady \ {a}
  /\ UNCHANGED <<dbVars, inventory, closing, providers, old, recon>>

\* The agent has ended, or failed, or was aborted.
AgentEnds(a) ==
  /\ run[a] = "work" /\ Goto(a, "destroy") /\ steady' = steady \ {a}
  /\ UNCHANGED <<dbVars, gateVars, recon>>

\* client.removeSandbox: one that does not exist counts as removed.  The
\* gateway returns before it has torn the sandbox down.
removeSandbox(a) ==
  /\ \/ \E i \in DOMAIN inventory : inventory[i] = a /\ inventory' = RemoveAt(inventory, i)
     \/ a \notin Sandboxes /\ UNCHANGED inventory
  /\ old' = old \ {a}
  /\ closing' = closing \cup ({a} \cap Sandboxes)

DestroySandbox(a) ==
  /\ run[a] = "destroy"
  /\ \/ removeSandbox(a) /\ Goto(a, "unprovide")
     \/ Goto(a, "gone") /\ UNCHANGED <<inventory, closing, old>>   \* it fails, which is logged
  /\ UNCHANGED <<dbVars, providers, late, recon, steady>>

Detached(a) == a \notin Sandboxes \cup closing

\* client.removeProvider waits a while for the sandbox to be torn down.
removeProvider(a) ==
  /\ Detached(a) /\ providers' = providers \ {a}
  /\ late' = late \ {<<"landed", a>>}

\* Mutated: an error of removeProvider is swallowed, and the row goes as well.
RemoveProviderQuietly(a) ==
  /\ run[a] = "unprovide" /\ Goto(a, "unrow")
  /\ removeProvider(a) \/ UNCHANGED <<providers, late>>
  /\ UNCHANGED <<dbVars, inventory, closing, old, recon, steady>>

RemoveProvider(a) ==
  /\ run[a] = "unprovide"
  /\ \/ removeProvider(a) /\ Goto(a, "unrow")
     \/ Goto(a, "gone") /\ UNCHANGED <<providers, late>>
  /\ UNCHANGED <<dbVars, inventory, closing, old, recon, steady>>

\* deleteManagedOpenShellProvider.
DropRow(a) == rows' = rows \ {a} /\ oldRows' = oldRows \ {a}

DeleteRow(a) ==
  /\ run[a] = "unrow" /\ DropRow(a) /\ Goto(a, "gone")
  /\ UNCHANGED <<active, gateVars, recon, steady>>

-----------------------------------------------------------------------------
(* The reconciler: reconcileOpenShellSandboxes.                            *)

\* run() does nothing while a run is under way.
ReconcileStarts ==
  /\ recon.at = "idle"
  /\ recon' = [Rested EXCEPT !.at = "list", !.active = active, !.rows = rows]
  /\ UNCHANGED <<dbVars, run, gateVars, steady>>

\* Mutated: what is young may be removed.
DueAny(S, aged) == {a \in S : TaskOf[a] \notin recon.active}

\* What may be removed.  nowMs is taken once, when the inventory has been read.
Due(S, aged) == {a \in S \cap aged : TaskOf[a] \notin recon.active}

\* One page, counted from the beginning of what the gateway has by now.  After
\* a page that is not full, or the last one allowed, it is decided what to do.
ListPage ==
  /\ recon.at = "list"
  /\ LET from   == recon.page * PageSize
         items  == {inventory[i] : i \in DOMAIN inventory \cap (from + 1 .. from + PageSize)}
         listed == recon.listed \cup items
         more   == Len(inventory) >= from + PageSize /\ recon.page + 1 < MaxPages
     IN recon' = IF more
                 THEN [recon EXCEPT !.listed = listed, !.page = @ + 1]
                 ELSE [Rested EXCEPT !.at = "sandboxes", !.listed = listed,
                         !.aged = recon.aged \cap Due(listed, old),
                         !.todo = Due(listed, old), !.rows = Due(recon.rows, oldRows)]
  /\ UNCHANGED <<dbVars, run, gateVars, steady>>

\* Mutated: the running flag stays set when the run throws.
ListFailsRunning ==
  /\ recon.at = "list" /\ recon' = [Rested EXCEPT !.at = "thrown"]
  /\ UNCHANGED <<dbVars, run, gateVars, steady>>

ListFails ==
  /\ recon.at = "list" /\ recon' = Rested
  /\ UNCHANGED <<dbVars, run, gateVars, steady>>

ReconcileSandbox(a) ==
  /\ recon.at = "sandboxes" /\ a \in recon.todo
  /\ \/ removeSandbox(a) /\ recon' = [recon EXCEPT !.todo = @ \ {a}, !.removed = @ \cup {a}]
     \/ recon' = [recon EXCEPT !.todo = @ \ {a}] /\ UNCHANGED <<inventory, closing, old>>
  /\ UNCHANGED <<dbVars, run, providers, late, steady>>

\* A provider whose sandbox was listed and not removed is left alone.
SandboxesDone ==
  /\ recon.at = "sandboxes" /\ recon.todo = {}
  /\ recon' = [Rested EXCEPT !.at = "providers", !.todo = recon.rows \ (recon.listed \ recon.removed)]
  /\ UNCHANGED <<dbVars, run, gateVars, steady>>

ReconcileProvider(a) ==
  /\ recon.at = "providers" /\ a \in recon.todo
  /\ \/ removeProvider(a) /\ recon' = [recon EXCEPT !.at = "unrow", !.removed = {a}]
     \/ recon' = [recon EXCEPT !.todo = @ \ {a}] /\ UNCHANGED <<providers, late>>
  /\ UNCHANGED <<dbVars, run, inventory, closing, old, steady>>

\* The row goes after the provider; if that fails the next run repeats both.
ReconcileRow(a) ==
  /\ recon.at = "unrow" /\ recon.removed = {a}
  /\ DropRow(a) \/ UNCHANGED <<rows, oldRows>>
  /\ recon' = [recon EXCEPT !.at = "providers", !.todo = @ \ {a}, !.removed = {}]
  /\ UNCHANGED <<active, run, gateVars, steady>>

ReconcileEnds ==
  /\ recon.at = "providers" /\ recon.todo = {} /\ recon' = Rested
  /\ UNCHANGED <<dbVars, run, gateVars, steady>>

-----------------------------------------------------------------------------
(* The gateway, the clock and restarts.                                    *)

TornDown(a) ==
  /\ a \in closing /\ closing' = closing \ {a}
  /\ UNCHANGED <<dbVars, run, inventory, providers, late, old, recon, steady>>

\* The gateway carries out what nobody waits for any more.
Lands(a) ==
  \/ /\ <<"provider", a>> \in late /\ late' = (late \ {<<"provider", a>>}) \cup {<<"landed", a>>}
     /\ providers' = providers \cup {a}
     /\ UNCHANGED <<dbVars, run, inventory, closing, old, recon, steady>>
  \/ /\ <<"sandbox", a>> \in late /\ late' = late \ {<<"sandbox", a>>}
     /\ inventory' = Append(inventory, a)
     /\ UNCHANGED <<dbVars, run, closing, old, providers, recon, steady>>

\* The minimum age passes, 10 minutes, at any time: a call of the gateway may
\* last as long as an agent (commandTimeoutMs), also one that lists a page or
\* creates a provider.
Tick ==
  /\ old' = Sandboxes /\ oldRows' = rows
  /\ recon' = IF recon.at = "list" THEN [recon EXCEPT !.aged = @ \cup ((Sandboxes \ old) \cap steady)] ELSE recon
  /\ UNCHANGED <<active, rows, run, inventory, closing, providers, late, steady>>

\* What was being created may still be.
Restart ==
  /\ run' = [a \in Attempts |-> IF run[a] \in Running THEN "gone" ELSE run[a]]
  /\ recon' = Rested /\ steady' = {}
  /\ late' \in {late, late \cup {<<run[a], a>> : a \in {b \in Attempts : run[b] \in {"provider", "sandbox"}}}}
  /\ UNCHANGED <<dbVars, inventory, closing, providers, old>>

-----------------------------------------------------------------------------
RunStep(a) ==
  \/ CreateProvider(a) \/ CreateSandbox(a) \/ CreationFails(a)
  \/ AgentEnds(a) \/ DestroySandbox(a) \/ RemoveProvider(a) \/ DeleteRow(a)

ReconStep ==
  \/ ReconcileStarts \/ ListPage \/ ListFails \/ SandboxesDone \/ ReconcileEnds
  \/ \E a \in Attempts : ReconcileSandbox(a) \/ ReconcileProvider(a) \/ ReconcileRow(a)

Next ==
  \/ \E t \in Tasks : TaskStarts(t) \/ TaskEnds(t)
  \/ \E a \in Attempts : RecordProvider(a) \/ RunStep(a) \/ TornDown(a) \/ Lands(a)
  \/ ReconStep \/ Tick \/ Restart

Spec == Init /\ [][Next]_vars

\* A call of the reconciler that the gateway or the database does not carry out.
Refused ==
  \/ ListFails
  \/ \E a \in Attempts : \/ ReconcileSandbox(a) /\ a \in Sandboxes /\ UNCHANGED inventory
                         \/ ReconcileProvider(a) /\ Detached(a) /\ recon'.at # "unrow"
                         \/ ReconcileRow(a) /\ a \in rows /\ UNCHANGED rows

\* What runs comes to an end, time passes, and the timer starts the reconciler
\* again and again.  In the end the process stays up and the reconciler is
\* refused nothing.
LiveSpec ==
  /\ Spec /\ <>[][~Restart /\ ~Refused]_vars
  /\ WF_vars(\E a \in Attempts : RunStep(a) \/ TornDown(a))
  /\ WF_vars(ReconStep /\ ~Refused) /\ WF_vars(Tick)

-----------------------------------------------------------------------------
(* Properties.                                                             *)

Recons == [at : {"idle", "list", "sandboxes", "providers", "unrow"}, active : SUBSET Tasks,
           rows : SUBSET Attempts, listed : SUBSET Attempts, page : Nat,
           aged : SUBSET Attempts, todo : SUBSET Attempts, removed : SUBSET Attempts]

\* Every variable has its type.
TypeOK ==
  /\ active \in SUBSET Tasks /\ rows \in SUBSET Attempts /\ oldRows \in SUBSET Attempts
  /\ run \in [Attempts -> Running \cup {"new", "gone"}]
  /\ inventory \in Seq(Attempts) /\ closing \in SUBSET Attempts
  /\ old \in SUBSET Attempts /\ providers \in SUBSET Attempts
  /\ late \in SUBSET ({"provider", "sandbox", "landed"} \X Attempts)
  /\ recon \in Recons /\ steady \in SUBSET Attempts

\* The reconciler takes no sandbox and no provider from an agent whose task has
\* been active since the agent was started: what it has read is older than what
\* it removes, and the minimum age makes up for that; unless the sandbox came
\* of age while the inventory was being read, which the code does not prevent.
AgentUndisturbed ==
  [][\A a \in steady : run[a] \in {"sandbox", "work"} =>
       /\ a \in providers => a \in providers'
       /\ a \in Sandboxes /\ a \notin Sandboxes' => a \in recon.aged]_vars

\* A provider holds credentials: as long as the gateway has it there is a row
\* by which the reconciler finds it, whatever call fails and whenever the
\* process dies; unless the gateway made it when nobody waited for it any more,
\* or took longer than the minimum age to make it.
ProviderKnown == \A a \in providers : a \in rows \/ <<"landed", a>> \in late

\* What an attempt has left behind is removed in the end, its sandbox and the
\* row of its provider, if its task does not become active again.
Left(a) == run[a] = "gone" /\ TaskOf[a] \notin active /\ (a \in Sandboxes \/ a \in rows)

LeftIsReclaimed == \A a \in Attempts : Left(a) ~> ~Left(a)
=============================================================================
