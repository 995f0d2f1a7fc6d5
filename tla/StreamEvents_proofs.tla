-------------------------- MODULE StreamEvents_proofs --------------------------
(***************************************************************************)
(* Proofs of the safety properties of StreamEvents for any configurations, *)
(* any number of processes and any limit of reconnections.                 *)
(***************************************************************************)
EXTENDS StreamEvents, TLAPS

\* What was given up has no connection, no reconnection and shows an error.
GivenUp ==
  manager.exhausted # None =>
    ~Connecting /\ manager.pending = None /\ manager.status.state = "error"

\* What shows nothing has never run its first backfill, and an owed backfill
\* will be asked for.
OwedIsAsked ==
  /\ manager.status = NoStatus => ~manager.backfilled
  /\ owed => Asks

IInv == TypeOK /\ OneListener /\ NeverSilent /\ GivenUp /\ OwedIsAsked /\ BackfillNotForgotten

Handles == [child : Children \cup {None}, config : Configs \cup {None}, received : BOOLEAN]

Statuses == [state : {"none", "connecting", "connected", "reconnecting", "error"},
             reconnects : Nat]

Managers == [demand : Configs \cup {Bad, None}, pending : Configs \cup {None},
             handle : Handles, exhausted : Configs \cup {None}, status : Statuses,
             backfilled : BOOLEAN, requested : BOOLEAN]

-----------------------------------------------------------------------------
\* The empty entries have the type of entries.
LEMMA RecordTypes == NoHandle \in Handles /\ NoStatus \in Statuses
  BY DEF NoHandle, NoStatus, Handles, Statuses

LEMMA InitIInv == Init => IInv
<1> SUFFICES ASSUME Init PROVE IInv
  OBVIOUS
<1>1. NoHandle \in Handles /\ NoStatus \in Statuses
  BY RecordTypes
<1>3. TypeOK
  BY <1>1 DEF Init, TypeOK, Empty, NoBackfill, Connecting, Handles, Statuses
<1>4. OneListener /\ NeverSilent
  BY DEF Init, Empty, OneListener, NeverSilent, NoHandle, NoStatus, Connecting
<1>5. GivenUp /\ OwedIsAsked /\ BackfillNotForgotten
  BY DEF Init, Empty, GivenUp, OwedIsAsked, BackfillNotForgotten, NoHandle, Asks
<1> QED
  BY <1>3, <1>4, <1>5 DEF IInv

\* The demand goes.
LEMMA UndemandedIInv ==
  ASSUME IInv, Undemanded
  PROVE  IInv'
<1>. USE StreamAssumption DEF IInv
<1>1. TypeOK'
  BY DEF TypeOK, Undemanded, Stopped, KillHandle, NoHandle, NoStatus, Connecting
<1>2. OneListener'
  BY DEF TypeOK, OneListener, Undemanded, Stopped, KillHandle, NoHandle, NoStatus,
       Connecting
<1>3. NeverSilent'
  BY DEF TypeOK, NeverSilent, OneListener, GivenUp, Undemanded, Stopped, KillHandle,
       NoHandle, NoStatus, Connecting
<1>4. GivenUp'
  BY DEF TypeOK, GivenUp, OneListener, Undemanded, Stopped, KillHandle, NoHandle,
       NoStatus, Connecting
<1>5. OwedIsAsked' /\ BackfillNotForgotten'
  BY DEF TypeOK, OwedIsAsked, BackfillNotForgotten, Asks, Undemanded, Stopped,
       KillHandle, NoHandle, NoStatus, Connecting
<1> QED
  BY <1>1, <1>2, <1>3, <1>4, <1>5

\* The configuration does not parse.
LEMMA UnparsableIInv ==
  ASSUME IInv, Unparsable
  PROVE  IInv'
<1>. USE StreamAssumption DEF IInv
<1>1. TypeOK'
  BY DEF TypeOK, Unparsable, Stopped, KillHandle, NoHandle, NoStatus, Connecting
<1>2. OneListener'
  BY DEF TypeOK, OneListener, Unparsable, Stopped, KillHandle, NoHandle, NoStatus,
       Connecting
<1>3. NeverSilent'
  BY DEF TypeOK, NeverSilent, OneListener, GivenUp, Unparsable, Stopped, KillHandle,
       NoHandle, NoStatus, Connecting
<1>4. GivenUp'
  BY DEF TypeOK, GivenUp, OneListener, Unparsable, Stopped, KillHandle, NoHandle,
       NoStatus, Connecting
<1>5. OwedIsAsked' /\ BackfillNotForgotten'
  BY DEF TypeOK, OwedIsAsked, BackfillNotForgotten, Asks, Unparsable, Stopped,
       KillHandle, NoHandle, NoStatus, Connecting
<1> QED
  BY <1>1, <1>2, <1>3, <1>4, <1>5

\* The demand is the one before: by GivenUp it is that of the connection or shown as an error.
LEMMA DemandedAsBeforeIInv ==
  ASSUME NEW config \in Configs, IInv, DemandedAsBefore(config)
  PROVE  IInv'
<1>. USE StreamAssumption DEF IInv
<1>1. /\ manager' = [manager EXCEPT !.demand = config]
      /\ UNCHANGED <<alive, dying, backfill, down, owed>>
      /\ config \in {manager.handle.config, manager.pending, manager.exhausted}
  BY DEF DemandedAsBefore, Keeps
<1>2. config # None
  OBVIOUS
<1>3. /\ manager'.demand = config /\ manager'.handle = manager.handle
      /\ manager'.pending = manager.pending /\ manager'.exhausted = manager.exhausted
      /\ manager'.status = manager.status /\ manager'.backfilled = manager.backfilled
      /\ manager'.requested = manager.requested
  BY <1>1 DEF TypeOK
<1>4. Connecting' <=> Connecting
  BY <1>3 DEF Connecting
<1>5. TypeOK'
  BY <1>1, <1>3, <1>4 DEF TypeOK
<1>6. ~Connecting => manager.handle.config = None
  BY DEF Connecting, NoHandle
<1>7. OneListener'
  BY <1>1, <1>2, <1>3, <1>4, <1>6 DEF OneListener, GivenUp
<1>8. NeverSilent' /\ GivenUp'
  BY <1>1, <1>2, <1>3, <1>4, <1>6 DEF NeverSilent, GivenUp
<1>9. OwedIsAsked' /\ BackfillNotForgotten'
  BY <1>1, <1>3 DEF OwedIsAsked, BackfillNotForgotten, Asks
<1> QED
  BY <1>5, <1>7, <1>8, <1>9

\* What both ways to start leave, for a manager m without a connection.
LEMMA StartIInv ==
  ASSUME NEW m \in Managers, NEW config \in Configs, NEW n \in Nat, NEW owes \in BOOLEAN,
         TypeOK, OneListener, Start(m, config, n, owes),
         m.demand = config, m.handle = NoHandle, m.pending = None, m.exhausted = None,
         owes => ~m.backfilled \/ m.requested,
         dying' \subseteq Children, UNCHANGED <<backfill, down>>
  PROVE  IInv'
<1>. USE StreamAssumption
<1>1. CASE \E c \in Children \ (alive \cup dying \cup {backfill.child}) :
             /\ alive' = (alive \ {manager.handle.child}) \cup {c}
             /\ manager' = [m EXCEPT !.handle = [NoHandle EXCEPT !.child = c, !.config = config],
                              !.status = [state |-> "connecting", reconnects |-> n]]
             /\ owed' = owes
  <2>1. PICK c \in Children :
             /\ alive' = (alive \ {manager.handle.child}) \cup {c}
             /\ manager' = [m EXCEPT !.handle = [NoHandle EXCEPT !.child = c, !.config = config],
                              !.status = [state |-> "connecting", reconnects |-> n]]
             /\ owed' = owes
    BY <1>1
  <2>2. /\ manager'.handle = [child |-> c, config |-> config, received |-> FALSE]
        /\ manager'.status = [state |-> "connecting", reconnects |-> n]
        /\ manager'.demand = config /\ manager'.pending = None /\ manager'.exhausted = None
        /\ manager'.backfilled = m.backfilled /\ manager'.requested = m.requested
    BY <2>1 DEF Managers, NoHandle
  <2>3. alive' = {c}
    BY <2>1 DEF OneListener, TypeOK
  <2>4. Connecting'
    BY <2>2 DEF Connecting, NoHandle
  <2>5. manager' \in Managers
    <3>1. [NoHandle EXCEPT !.child = c, !.config = config] \in Handles
      BY DEF NoHandle, Handles
    <3>2. [state |-> "connecting", reconnects |-> n] \in Statuses
      BY DEF Statuses
    <3> QED
      BY <2>1, <3>1, <3>2 DEF Managers
  <2>6. TypeOK'
    BY <2>1, <2>2, <2>3, <2>5 DEF TypeOK, Managers, Handles, Statuses
  <2>7. OneListener'
    BY <2>2, <2>3 DEF OneListener
  <2>8. NeverSilent' /\ GivenUp'
    BY <2>2, <2>4 DEF NeverSilent, GivenUp
  <2>9. manager'.status # NoStatus
    BY <2>2 DEF NoStatus
  <2>10. OwedIsAsked' /\ BackfillNotForgotten'
    <3>1. manager'.handle.received = FALSE
      BY <2>2
    <3>2. owed' => Asks'
      BY <2>1, <2>2 DEF Asks
    <3> QED
      BY <2>9, <3>1, <3>2 DEF OwedIsAsked, BackfillNotForgotten
  <2> QED
    BY <2>6, <2>7, <2>8, <2>10 DEF IInv
<1>2. CASE /\ alive' = alive \ {manager.handle.child}
           /\ manager' = [m EXCEPT !.requested = FALSE,
                            !.status = [state |-> "error", reconnects |-> n]]
           /\ owed' = FALSE
  <2>2. /\ manager'.handle = NoHandle
        /\ manager'.status = [state |-> "error", reconnects |-> n]
        /\ manager'.demand = config /\ manager'.pending = None /\ manager'.exhausted = None
    BY <1>2 DEF Managers
  <2>3. alive' = {}
    BY <1>2 DEF OneListener
  <2>4. ~Connecting' /\ manager'.handle.child = None
    BY <2>2 DEF Connecting, NoHandle
  <2>5. manager' \in Managers
    <3>1. [state |-> "error", reconnects |-> n] \in Statuses
      BY DEF Statuses
    <3> QED
      BY <1>2, <3>1 DEF Managers
  <2>6. TypeOK'
    BY <1>2, <2>3, <2>4, <2>5 DEF TypeOK, Managers, Handles, Statuses
  <2>7. OneListener'
    BY <2>2, <2>3, <2>4 DEF OneListener
  <2>8. NeverSilent' /\ GivenUp'
    BY <2>2, <2>4 DEF NeverSilent, GivenUp
  <2>9. manager'.status # NoStatus
    BY <2>2 DEF NoStatus
  <2>10. OwedIsAsked' /\ BackfillNotForgotten'
    BY <1>2, <2>9 DEF OwedIsAsked, BackfillNotForgotten, Asks, NoStatus
  <2> QED
    BY <2>6, <2>7, <2>8, <2>10 DEF IInv
<1> QED
  BY <1>1, <1>2 DEF Start

\* A listener for another configuration.
LEMMA DemandedIInv ==
  ASSUME NEW config \in Configs, IInv, Demanded(config)
  PROVE  IInv'
<1>. USE StreamAssumption DEF IInv
<1> DEFINE m == [Stopped(NoStatus) EXCEPT !.demand = config, !.exhausted = None,
                   !.backfilled = @ /\ ~Replaces]
           owes == owed \/ Replaces \/ manager.status = NoStatus
<1>1. NoHandle \in Handles /\ NoStatus \in Statuses
  BY RecordTypes
<1>2. manager \in Managers
  BY DEF TypeOK, Managers, Handles, Statuses
<1>3. Stopped(NoStatus) \in Managers
  BY <1>1, <1>2 DEF Stopped, Managers, Handles, Statuses
<1>4. /\ Stopped(NoStatus).handle = NoHandle /\ Stopped(NoStatus).pending = None
      /\ Stopped(NoStatus).backfilled = manager.backfilled
      /\ Stopped(NoStatus).requested = manager.requested
  BY <1>2 DEF Stopped, Managers
<1>5. Replaces \in BOOLEAN
  BY DEF Replaces, Connecting
<1>6. m = [Stopped(NoStatus) EXCEPT !.demand = config, !.exhausted = None,
             !.backfilled = manager.backfilled /\ ~Replaces]
  BY <1>4
<1>7. m \in Managers
  BY <1>3, <1>5, <1>6, <1>2 DEF Managers
<1>8. /\ m.demand = config /\ m.handle = NoHandle /\ m.pending = None /\ m.exhausted = None
      /\ m.backfilled = (manager.backfilled /\ ~Replaces) /\ m.requested = manager.requested
  BY <1>3, <1>4, <1>6 DEF Managers
<1>9. owes \in BOOLEAN /\ (owes => ~m.backfilled \/ m.requested)
  BY <1>5, <1>8 DEF OwedIsAsked, Asks, TypeOK
<1>10. Start(m, config, 0, owes)
  BY DEF Demanded
<1>11. dying' \subseteq Children /\ UNCHANGED <<backfill, down>>
  BY DEF Demanded, TypeOK
<1> HIDE DEF m, owes
<1> QED
  BY <1>7, <1>8, <1>9, <1>10, <1>11, StartIInv

\* A backfill is asked for.
LEMMA RequestBackfillIInv ==
  ASSUME IInv, RequestBackfill
  PROVE  IInv'
<1>. USE StreamAssumption DEF IInv
<1>1. backfill' \in [at : {"none", "query", "trigger"}, child : Children \cup {None}]
      /\ owed' \in BOOLEAN /\ UNCHANGED <<alive, dying, down>>
  <2>1. [at |-> "query", child |-> manager.handle.child]
          \in [at : {"none", "query", "trigger"}, child : Children \cup {None}]
    BY DEF TypeOK
  <2>2. backfill' \in {backfill, [at |-> "query", child |-> manager.handle.child]}
        /\ owed' \in BOOLEAN /\ UNCHANGED <<alive, dying, down>>
    BY DEF RequestBackfill, RunBackfill
  <2> QED
    BY <2>1, <2>2 DEF TypeOK
<1>2. manager' = manager \/ manager' = [manager EXCEPT !.requested = TRUE]
  BY DEF RequestBackfill
<1>3. /\ manager'.demand = manager.demand /\ manager'.handle = manager.handle
      /\ manager'.pending = manager.pending /\ manager'.exhausted = manager.exhausted
      /\ manager'.status = manager.status /\ manager'.backfilled = manager.backfilled
  BY <1>2 DEF TypeOK
<1>4. Connecting' <=> Connecting
  BY <1>3 DEF Connecting
<1>5. TypeOK'
  <2>1. manager' \in Managers
    BY <1>2 DEF TypeOK, Managers, Handles, Statuses
  <2> QED
    BY <1>1, <1>3, <1>4, <2>1 DEF TypeOK, Managers, Handles, Statuses
<1>6. OneListener' /\ NeverSilent' /\ GivenUp'
  BY <1>1, <1>3, <1>4 DEF OneListener, NeverSilent, GivenUp
<1>7. OwedIsAsked' /\ BackfillNotForgotten'
  <2>1. manager.handle.received => owed' = FALSE
    BY DEF RequestBackfill, RunBackfill
  <2>2. ~manager.handle.received => manager'.requested
    BY DEF RequestBackfill, TypeOK
  <2> QED
    BY <1>3, <2>1, <2>2 DEF OwedIsAsked, BackfillNotForgotten, Asks, NoStatus
<1> QED
  BY <1>5, <1>6, <1>7

\* The connection is established.
LEMMA FirstDataIInv ==
  ASSUME IInv, FirstData
  PROVE  IInv'
<1>. USE StreamAssumption DEF IInv
<1>1. backfill' \in [at : {"none", "query", "trigger"}, child : Children \cup {None}]
      /\ UNCHANGED <<alive, dying, down>>
  BY DEF FirstData, RunBackfill, TypeOK
<1>2. owed' = FALSE
  BY DEF FirstData, RunBackfill, OwedIsAsked, TypeOK
<1>3. manager' = [manager EXCEPT !.handle.received = TRUE, !.status.state = "connected",
                    !.backfilled = TRUE, !.requested = FALSE]
  BY DEF FirstData
<1>4. manager \in Managers
  BY DEF TypeOK, Managers, Handles, Statuses
<1>5. manager' \in Managers
  BY <1>3, <1>4 DEF Managers, Handles, Statuses
<1>6. /\ manager'.demand = manager.demand /\ manager'.pending = manager.pending
      /\ manager'.exhausted = manager.exhausted
      /\ manager'.handle.child = manager.handle.child
      /\ manager'.handle.config = manager.handle.config
      /\ manager'.status.state = "connected"
  BY <1>3, <1>4 DEF Managers, Handles, Statuses
<1>7. Connecting /\ manager.handle.child \in Children /\ manager.handle.config \in Configs
  BY DEF FirstData, TypeOK
<1>8. Connecting'
  BY <1>6, <1>7 DEF Connecting, NoHandle
<1>9. TypeOK'
  BY <1>1, <1>2, <1>5, <1>6, <1>7 DEF TypeOK, Managers, Handles, Statuses
<1>10. OneListener' /\ NeverSilent'
  BY <1>1, <1>6, <1>7, <1>8 DEF OneListener, NeverSilent
<1>11. GivenUp' /\ OwedIsAsked' /\ BackfillNotForgotten'
  BY <1>2, <1>6, <1>7 DEF GivenUp, OwedIsAsked, BackfillNotForgotten, NoStatus
<1> QED
  BY <1>9, <1>10, <1>11

\* A backfill goes on or ends.
LEMMA BackfillIInv ==
  ASSUME IInv, BackfillQueried \/ BackfillEnds
  PROVE  IInv'
<1>. USE StreamAssumption DEF IInv
<1>1. UNCHANGED <<manager, alive, dying, down, owed>>
  BY DEF BackfillQueried, BackfillEnds
<1>2. \/ backfill' = [backfill EXCEPT !.at = "trigger"]
      \/ backfill' = NoBackfill
  BY DEF BackfillQueried, BackfillEnds
<1>3. backfill' \in [at : {"none", "query", "trigger"}, child : Children \cup {None}]
  BY <1>2 DEF TypeOK, NoBackfill
<1> QED
  BY <1>1, <1>3 DEF TypeOK, OneListener, NeverSilent, GivenUp, OwedIsAsked,
                    BackfillNotForgotten, Connecting, Asks

\* A process reports an error.
LEMMA ChildErrorIInv ==
  ASSUME NEW c \in Children, IInv, ChildError(c)
  PROVE  IInv'
<1>. USE StreamAssumption DEF IInv
<1>1. TypeOK'
  BY DEF TypeOK, ChildError, NoHandle, NoStatus, Connecting
<1>2. OneListener'
  BY DEF TypeOK, OneListener, ChildError, NoHandle, NoStatus, Connecting
<1>3. NeverSilent'
  BY DEF TypeOK, NeverSilent, OneListener, GivenUp, ChildError, NoHandle, NoStatus,
       Connecting
<1>4. GivenUp'
  BY DEF TypeOK, GivenUp, OneListener, ChildError, NoHandle, NoStatus, Connecting
<1>5. OwedIsAsked' /\ BackfillNotForgotten'
  BY DEF TypeOK, OwedIsAsked, BackfillNotForgotten, Asks, ChildError, NoHandle,
       NoStatus, Connecting
<1> QED
  BY <1>1, <1>2, <1>3, <1>4, <1>5

\* A process ends: the current one, or one that was replaced.
LEMMA OnCloseIInv ==
  ASSUME NEW c \in Children, IInv, OnClose(c)
  PROVE  IInv'
<1>. USE StreamAssumption DEF IInv
<1>1. /\ alive' = alive \ {c} /\ dying' = dying \ {c} /\ UNCHANGED <<backfill, down>>
      /\ owed' = (owed /\ manager'.demand # None)
  BY DEF OnClose
<1>2. manager \in Managers
  BY DEF TypeOK, Managers, Handles, Statuses
<1>3. CASE ~Counts(c)
  <2>1. manager' = manager
    BY <1>3 DEF OnClose
  <2>2. alive' = alive
    BY <1>1, <1>3 DEF OneListener, Counts
  <2> QED
    BY <1>1, <2>1, <2>2 DEF TypeOK, OneListener, NeverSilent, GivenUp, OwedIsAsked,
                            BackfillNotForgotten, Connecting, Asks
<1>4. CASE Counts(c)
  <2> DEFINE n == Attempt
  <2>1. n \in Nat
    BY <1>2 DEF Attempt, Managers, Statuses
  <2>2. Connecting /\ manager.handle.config \in Configs
    BY <1>4 DEF Counts, Connecting, NoHandle, TypeOK
  <2>3. alive' = {}
    BY <1>1, <1>4 DEF OneListener, Counts
  <2>4. NoHandle \in Handles /\ NoHandle.child = None /\ NoHandle.received = FALSE
    BY RecordTypes DEF NoHandle
  <2>5. PICK status \in Statuses, m \in Managers :
           /\ manager' = m /\ status # NoStatus /\ m.status = status /\ m.handle = NoHandle
           /\ m.backfilled = manager.backfilled /\ m.requested = manager.requested
           /\ \/ /\ status.state = "error" /\ m.demand = None /\ m.pending = None
              \/ /\ status.state = "reconnecting" /\ m.pending = manager.handle.config
                 /\ m.demand = manager.demand /\ m.exhausted = manager.exhausted
    <3>1. CASE n >= MaxReconnects
      <4> DEFINE status == [state |-> "error", reconnects |-> n]
                 m == [Stopped(status) EXCEPT !.exhausted = manager.handle.config,
                                              !.demand = None]
      <4>1. manager' = m
        BY <1>4, <3>1 DEF OnClose
      <4>2. status \in Statuses /\ status # NoStatus /\ status.state = "error"
        BY <2>1 DEF Statuses, NoStatus
      <4>3. Stopped(status) \in Managers /\ Stopped(status).pending = None
            /\ Stopped(status).handle = NoHandle /\ Stopped(status).status = status
            /\ Stopped(status).backfilled = manager.backfilled
            /\ Stopped(status).requested = manager.requested
        BY <1>2, <2>4, <4>2 DEF Stopped, Managers
      <4>4. m \in Managers /\ m.status = status /\ m.handle = NoHandle /\ m.demand = None
            /\ m.pending = None /\ m.backfilled = manager.backfilled
            /\ m.requested = manager.requested
        BY <2>2, <4>3 DEF Managers
      <4> HIDE DEF m, status
      <4> QED
        BY <4>1, <4>2, <4>4
    <3>2. CASE ~(n >= MaxReconnects)
      <4> DEFINE status == [state |-> "reconnecting", reconnects |-> n]
                 m == [Stopped(status) EXCEPT !.pending = manager.handle.config]
      <4>1. manager' = m
        BY <1>4, <3>2 DEF OnClose
      <4>2. status \in Statuses /\ status # NoStatus /\ status.state = "reconnecting"
        BY <2>1 DEF Statuses, NoStatus
      <4>3. Stopped(status) \in Managers /\ Stopped(status).demand = manager.demand
            /\ Stopped(status).handle = NoHandle /\ Stopped(status).status = status
            /\ Stopped(status).backfilled = manager.backfilled
            /\ Stopped(status).requested = manager.requested
            /\ Stopped(status).exhausted = manager.exhausted
        BY <1>2, <2>4, <4>2 DEF Stopped, Managers
      <4>4. m \in Managers /\ m.status = status /\ m.handle = NoHandle
            /\ m.pending = manager.handle.config /\ m.demand = manager.demand
            /\ m.exhausted = manager.exhausted
            /\ m.backfilled = manager.backfilled /\ m.requested = manager.requested
        BY <2>2, <4>3 DEF Managers
      <4> HIDE DEF m, status
      <4> QED
        BY <4>1, <4>2, <4>4
    <3> QED
      BY <3>1, <3>2
  <2>6. ~Connecting'
    BY <2>5 DEF Connecting
  <2>7. TypeOK'
    <3>1. manager' \in Managers /\ owed' \in BOOLEAN /\ dying' \subseteq Children
      BY <1>1, <2>5 DEF TypeOK
    <3> QED
      BY <1>1, <2>3, <2>6, <3>1 DEF TypeOK, Managers, Handles, Statuses
  <2>8. OneListener'
    BY <2>2, <2>3, <2>4, <2>5, <2>6 DEF OneListener
  <2>9. NeverSilent' /\ GivenUp'
    BY <2>2, <2>5, <2>6 DEF NeverSilent, GivenUp
  <2>10. OwedIsAsked' /\ BackfillNotForgotten'
    BY <1>1, <2>4, <2>5 DEF OwedIsAsked, BackfillNotForgotten, Asks
  <2> QED
    BY <2>7, <2>8, <2>9, <2>10
<1> QED
  BY <1>3, <1>4

\* The timer expires: there is no connection, and the demand is what was pending.
LEMMA ReconnectDueIInv ==
  ASSUME IInv, ReconnectDue
  PROVE  IInv'
<1>. USE StreamAssumption DEF IInv
<1> DEFINE m == [manager EXCEPT !.pending = None]
<1>1. manager \in Managers
  BY DEF TypeOK, Managers, Handles, Statuses
<1>2. manager.demand \in Configs /\ manager.handle = NoHandle /\ manager.exhausted = None
  BY <1>1 DEF ReconnectDue, OneListener, GivenUp, Connecting, Managers
<1>3. m \in Managers /\ m.demand = manager.demand /\ m.handle = NoHandle /\ m.pending = None
      /\ m.exhausted = None /\ m.backfilled = manager.backfilled
      /\ m.requested = manager.requested
  BY <1>1, <1>2 DEF Managers
<1>4. manager.status.reconnects \in Nat
  BY <1>1 DEF Managers, Statuses
<1>5. owed \in BOOLEAN /\ (owed => ~m.backfilled \/ m.requested)
  BY <1>3 DEF TypeOK, OwedIsAsked, Asks
<1>6. Start(m, manager.demand, manager.status.reconnects, owed)
  BY DEF ReconnectDue
<1>7. dying' \subseteq Children /\ UNCHANGED <<backfill, down>>
  BY DEF ReconnectDue, TypeOK
<1> HIDE DEF m
<1> QED
  BY <1>2, <1>3, <1>4, <1>5, <1>6, <1>7, StartIInv

\* The manager stops.
LEMMA StopAllIInv ==
  ASSUME IInv, StopAll
  PROVE  IInv'
<1>. USE StreamAssumption DEF IInv
<1>1. TypeOK'
  BY DEF TypeOK, StopAll, Empty, KillHandle, NoBackfill, NoHandle, NoStatus,
       Connecting
<1>2. OneListener'
  BY DEF TypeOK, OneListener, StopAll, Empty, KillHandle, NoBackfill, NoHandle,
       NoStatus, Connecting
<1>3. NeverSilent'
  BY DEF TypeOK, NeverSilent, OneListener, GivenUp, StopAll, Empty, KillHandle,
       NoBackfill, NoHandle, NoStatus, Connecting
<1>4. GivenUp'
  BY DEF TypeOK, GivenUp, OneListener, StopAll, Empty, KillHandle, NoBackfill,
       NoHandle, NoStatus, Connecting
<1>5. OwedIsAsked' /\ BackfillNotForgotten'
  BY DEF TypeOK, OwedIsAsked, BackfillNotForgotten, Asks, StopAll, Empty, KillHandle,
       NoBackfill, NoHandle, NoStatus, Connecting
<1> QED
  BY <1>1, <1>2, <1>3, <1>4, <1>5

LEMMA StepIInv == IInv /\ [Next]_vars => IInv'
<1> SUFFICES ASSUME IInv, [Next]_vars PROVE IInv'
  OBVIOUS
<1>1. CASE Undemanded
  BY <1>1, UndemandedIInv
<1>2. CASE Unparsable
  BY <1>2, UnparsableIInv
<1>3. CASE \E c \in Configs : DemandedAsBefore(c) \/ Demanded(c)
  BY <1>3, DemandedAsBeforeIInv, DemandedIInv
<1>4. CASE RequestBackfill
  BY <1>4, RequestBackfillIInv
<1>5. CASE FirstData
  BY <1>5, FirstDataIInv
<1>6. CASE BackfillQueried \/ BackfillEnds
  BY <1>6, BackfillIInv
<1>7. CASE \E c \in Children : ChildError(c) \/ OnClose(c)
  BY <1>7, ChildErrorIInv, OnCloseIInv
<1>8. CASE ReconnectDue
  BY <1>8, ReconnectDueIInv
<1>9. CASE StopAll
  BY <1>9, StopAllIInv
<1>10. CASE UNCHANGED vars
  BY <1>10 DEF vars, IInv, TypeOK, OneListener, NeverSilent, GivenUp, OwedIsAsked,
               BackfillNotForgotten, Connecting, Asks
<1> QED
  BY <1>1, <1>2, <1>3, <1>4, <1>5, <1>6, <1>7, <1>8, <1>9, <1>10 DEF Next

LEMMA SpecIInv == Spec => []IInv
<1>1. Init => IInv
  BY InitIInv
<1>2. IInv /\ [Next]_vars => IInv'
  BY StepIInv
<1> QED
  BY <1>1, <1>2, PTL DEF Spec

-----------------------------------------------------------------------------
\* Every variable keeps its type (class GerritStreamEventsManager).
THEOREM TypeCorrect == Spec => []TypeOK
<1>1. IInv => TypeOK
  BY DEF IInv
<1> QED
  BY <1>1, SpecIInv, PTL

\* One process at most listens, for the configuration in demand, and none after
\* the demand is gone or stopAll was called (reconcile, onClose, stopAll).
THEOREM OneListens == Spec => []OneListener
<1>1. IInv => OneListener
  BY DEF IInv
<1> QED
  BY <1>1, SpecIInv, PTL

\* A demanded stream has a connection or a reconnection, or shows an error
\* (onClose, safeStartHandle, getStatus).
THEOREM NeverSilentHolds == Spec => []NeverSilent
<1>1. IInv => NeverSilent
  BY DEF IInv
<1> QED
  BY <1>1, SpecIInv, PTL

\* The next connection does not forget the backfill it owes (requestBackfill,
\* consumeStdout).
THEOREM BackfillKept == Spec => []BackfillNotForgotten
<1>1. IInv => BackfillNotForgotten
  BY DEF IInv
<1> QED
  BY <1>1, SpecIInv, PTL
=============================================================================
