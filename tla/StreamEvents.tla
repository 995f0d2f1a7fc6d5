----------------------------- MODULE StreamEvents -----------------------------
(***************************************************************************)
(* The listener on the event stream of one Gerrit integration (class       *)
(* GerritStreamEventsManager of gerritStreamEvents.ts): an ssh process per *)
(* connection, reconnections after a delay, giving up after too many, the  *)
(* backfill of reviews assigned while nobody listened, and the demand for  *)
(* the stream, which comes, goes and is reconfigured at any time.          *)
(*                                                                         *)
(* The manager's maps are independent for each integration: one entry of   *)
(* each is the manager here.                                               *)
(***************************************************************************)
EXTENDS Integers, FiniteSets

CONSTANTS
  Configs,        \* configurations that parse
  Bad, None,      \* one that does not; no entry
  Children,       \* ssh processes, reused when they have closed
  MaxReconnects   \* maxReconnectAttempts

ASSUME StreamAssumption ==
  /\ {Bad, None} \cap Configs = {} /\ Bad # None
  /\ None \notin Children /\ MaxReconnects \in Nat \ {0}

VARIABLES
  manager,   \* the maps of the manager
  alive,     \* processes that have not been told to end
  dying,     \* processes that have been, and have not closed
  backfill,  \* the backfill in flight, the one entry of backfillPromises
  down,      \* stopAll has been called
  owed       \* the next connection is to run a backfill

vars == <<manager, alive, dying, backfill, down, owed>>

NoHandle   == [child |-> None, config |-> None, received |-> FALSE]
NoBackfill == [at |-> "none", child |-> None]
NoStatus   == [state |-> "none", reconnects |-> 0]

Empty == [demand |-> None, handle |-> NoHandle, pending |-> None, exhausted |-> None,
          status |-> NoStatus, backfilled |-> FALSE, requested |-> FALSE]

Init ==
  /\ manager = Empty /\ alive = {} /\ dying = {}
  /\ backfill = NoBackfill /\ down = FALSE /\ owed = FALSE

Connecting == manager.handle # NoHandle
Current(c) == manager.handle.child = c /\ manager.demand # None

-----------------------------------------------------------------------------
\* Mutated: the status of what is stopped stays.
StoppedWithStatus(status) ==
  [manager EXCEPT !.handle = NoHandle, !.pending = None]

\* stopHandle: the reconnection is cancelled and the process is told to end.
Stopped(status) ==
  [manager EXCEPT !.handle = NoHandle, !.pending = None, !.status = status]

KillHandle ==
  /\ dying' = dying \cup (alive \cap {manager.handle.child})
  /\ alive' = alive \ {manager.handle.child}

\* safeStartHandle, on what is left of the manager: the process is spawned, or
\* that fails at once.  The connection may owe a backfill.
Start(m, config, reconnects, owes) ==
  \/ \E c \in Children \ (alive \cup dying \cup {backfill.child}) :
       /\ alive' = (alive \ {manager.handle.child}) \cup {c}
       /\ manager' = [m EXCEPT !.handle = [NoHandle EXCEPT !.child = c, !.config = config],
                        !.status = [state |-> "connecting", reconnects |-> reconnects]]
       /\ owed' = owes
  \/ /\ alive' = alive \ {manager.handle.child}
     /\ manager' = [m EXCEPT !.requested = FALSE,
                      !.status = [state |-> "error", reconnects |-> reconnects]]
     /\ owed' = FALSE

-----------------------------------------------------------------------------
(* reconcile, by the demand it is given.                                   *)

Undemanded ==
  /\ ~down
  /\ manager' = IF Connecting \/ manager.pending # None
                THEN [Stopped(NoStatus) EXCEPT !.demand = None, !.exhausted = None,
                        !.backfilled = FALSE, !.requested = FALSE]
                ELSE [manager EXCEPT !.demand = None, !.exhausted = None]
  /\ KillHandle /\ owed' = FALSE
  /\ UNCHANGED <<backfill, down>>

Unparsable ==
  /\ ~down
  /\ manager' = [Stopped([state |-> "error", reconnects |-> 0])
                   EXCEPT !.demand = Bad, !.requested = FALSE]
  /\ KillHandle /\ owed' = FALSE
  /\ UNCHANGED <<backfill, down>>

Keeps(config) == config \in {manager.handle.config, manager.pending, manager.exhausted}

DemandedAsBefore(config) ==
  /\ ~down /\ Keeps(config)
  /\ manager' = [manager EXCEPT !.demand = config]
  /\ UNCHANGED <<alive, dying, backfill, down, owed>>

Replaces == Connecting \/ manager.pending # None \/ manager.exhausted # None

\* A listener is started afresh, instead of what there was for another
\* configuration; that one's backfill does not count for it.
Demanded(config) ==
  /\ ~down /\ ~Keeps(config)
  /\ Start([Stopped(NoStatus) EXCEPT !.demand = config, !.exhausted = None,
              !.backfilled = @ /\ ~Replaces],
           config, 0, owed \/ Replaces \/ manager.status = NoStatus)
  /\ dying' = dying \cup (alive \cap {manager.handle.child})
  /\ UNCHANGED <<backfill, down>>

-----------------------------------------------------------------------------
(* Backfills.                                                              *)

\* runBackfillCoalesced: a backfill in flight, be it that of an earlier
\* connection, answers this one too.
RunBackfill ==
  /\ backfill' = IF backfill = NoBackfill
                 THEN [at |-> "query", child |-> manager.handle.child] ELSE backfill
  /\ owed' = FALSE

RequestBackfill ==
  /\ manager.demand # None
  /\ IF manager.handle.received
     THEN RunBackfill /\ UNCHANGED manager
     ELSE /\ manager' = [manager EXCEPT !.requested = TRUE]
          /\ owed' = TRUE /\ UNCHANGED backfill
  /\ UNCHANGED <<alive, dying, down>>

\* Mutated: what was requested while connecting is not looked at.
AsksInitialOnly == ~manager.backfilled

Asks == ~manager.backfilled \/ manager.requested

\* The first byte from the process: the connection is established.
FirstData ==
  /\ Connecting /\ manager.demand # None /\ ~manager.handle.received
  /\ manager' = [manager EXCEPT !.handle.received = TRUE, !.status.state = "connected",
                   !.backfilled = TRUE, !.requested = FALSE]
  /\ IF Asks THEN RunBackfill ELSE UNCHANGED <<backfill, owed>>
  /\ UNCHANGED <<alive, dying, down>>

\* The assigned changes are known, or the query has failed.
BackfillQueried ==
  /\ backfill.at = "query"
  /\ \/ Current(backfill.child) /\ backfill' = [backfill EXCEPT !.at = "trigger"]
     \/ backfill' = NoBackfill
  /\ UNCHANGED <<manager, alive, dying, down, owed>>

\* The last change has been triggered, or the connection is not current.
BackfillEnds ==
  /\ backfill.at = "trigger" /\ backfill' = NoBackfill
  /\ UNCHANGED <<manager, alive, dying, down, owed>>

-----------------------------------------------------------------------------
(* The process and the timer.                                              *)

\* The event "error" of a process, an old one's too, marks the status.
ChildError(c) ==
  /\ c \in alive \cup dying
  /\ manager.status # NoStatus /\ manager' = [manager EXCEPT !.status.state = "error"]
  /\ UNCHANGED <<alive, dying, backfill, down, owed>>

\* Mutated: the close of an old process counts for the connection there is.
AnyClose(c) == Connecting

\* onClose counts for the process of the current connection only.
Counts(c) == manager.handle.child = c

\* Mutated: attempts are not counted over reconnections.
FirstAttempt == 1

Attempt == manager.status.reconnects + 1

OnClose(c) ==
  /\ c \in alive \cup dying
  /\ alive' = alive \ {c} /\ dying' = dying \ {c}
  /\ LET n      == Attempt
         config == manager.handle.config
     IN manager' = IF ~Counts(c) THEN manager
                   ELSE IF n >= MaxReconnects
                   THEN [Stopped([state |-> "error", reconnects |-> n])
                           EXCEPT !.exhausted = config, !.demand = None]
                   ELSE [Stopped([state |-> "reconnecting", reconnects |-> n])
                           EXCEPT !.pending = config]
  /\ owed' = (owed /\ manager'.demand # None)
  /\ UNCHANGED <<backfill, down>>

ReconnectDue ==
  /\ manager.pending # None
  /\ Start([manager EXCEPT !.pending = None], manager.demand, manager.status.reconnects, owed)
  /\ UNCHANGED <<dying, backfill, down>>

StopAll ==
  /\ ~down /\ down' = TRUE
  /\ manager' = Empty /\ KillHandle
  /\ backfill' = NoBackfill /\ owed' = FALSE

-----------------------------------------------------------------------------
Next ==
  \/ Undemanded \/ Unparsable \/ \E c \in Configs : DemandedAsBefore(c) \/ Demanded(c)
  \/ RequestBackfill \/ FirstData \/ BackfillQueried \/ BackfillEnds
  \/ \E c \in Children : ChildError(c) \/ OnClose(c)
  \/ ReconnectDue \/ StopAll

Spec == Init /\ [][Next]_vars

\* ssh answers or ends, also when it is told to, and the timer expires.
LiveSpec ==
  /\ Spec /\ WF_vars(ReconnectDue)
  /\ WF_vars(FirstData \/ \E c \in alive : OnClose(c))
  /\ \A c \in Children : WF_vars(c \in dying /\ OnClose(c))

-----------------------------------------------------------------------------
(* Properties.                                                             *)

\* Every variable has its type; a connection has a process and a configuration.
TypeOK ==
  /\ manager \in [demand : Configs \cup {Bad, None}, pending : Configs \cup {None},
                  handle : [child : Children \cup {None}, config : Configs \cup {None},
                            received : BOOLEAN],
                  exhausted : Configs \cup {None},
                  status : [state : {"none", "connecting", "connected", "reconnecting", "error"},
                            reconnects : Nat],
                  backfilled : BOOLEAN, requested : BOOLEAN]
  /\ Connecting => manager.handle.child \in Children /\ manager.handle.config \in Configs
  /\ alive \subseteq Children /\ dying \subseteq Children
  /\ backfill \in [at : {"none", "query", "trigger"}, child : Children \cup {None}]
  /\ down \in BOOLEAN /\ owed \in BOOLEAN

\* There is one process at most that has not been told to end, that of the
\* connection; it, and a reconnection, use the configuration in demand; without
\* a demand, and after stopAll, there is none and none comes back.
OneListener ==
  /\ alive = {manager.handle.child} \ {None}
  /\ Connecting => manager.handle.config = manager.demand /\ manager.pending = None
  /\ manager.pending # None => manager.pending = manager.demand

\* A demanded stream has a connection, or will have one, or the administrator
\* is shown an error; and what is shown as a connection is one.
NeverSilent ==
  /\ manager.demand # None
     => Connecting \/ manager.pending # None \/ manager.status.state = "error"
  /\ manager.status.state \in {"connecting", "connected"} => Connecting
  /\ manager.status.state = "reconnecting" => manager.pending # None

\* A backfill is not forgotten: the next connection runs one, or joins the one in
\* flight, if it is the first in a demand or with a configuration (and what went
\* before was not an error), or if one was asked for while nothing was connected,
\* whatever is stopped, replaced, demanded or lost in between.
BackfillNotForgotten == manager.handle.received => ~owed

\* A demanded stream is connected in the end, unless an error is shown.
ListensAgain ==
  \A c \in Configs :
    manager.demand = c ~> \/ manager.handle.received \/ manager.status.state = "error"
                          \/ manager.demand # c
=============================================================================
