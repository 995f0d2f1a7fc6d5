--------------------------- MODULE ReviewDiscovery ---------------------------
(***************************************************************************)
(* The discovery of new revisions for a review project in automatic mode,  *)
(* by polling (pollAutomaticReviewProject of pollingLoop.ts): a watermark  *)
(* kept in the database, a memory of what was dispatched kept in the       *)
(* process, and polls that overlap when their triggers take longer than    *)
(* the interval of the timer.  A poll reads the repositories one after the *)
(* other, and each of them page by page (getOpenReviewChanges of           *)
(* githubPullRequestReviewConnector.ts), while changes are updated and     *)
(* closed.                                                                 *)
(*                                                                         *)
(* Times are whole seconds, as in the provider's answers and in the        *)
(* database.  The project was activated at second 0, with every change at  *)
(* its revision 1, which needs no review.                                  *)
(***************************************************************************)
EXTENDS Integers, Sequences, FiniteSets, FiniteSetsExt, SequencesExt

CONSTANTS
  Changes, Polls,   \* changes of the project; polls under way at a time
  Listings,         \* of each repository the changes it had open at second 0, as
                    \* it listed them; the different cases
  PageSize,         \* PER_PAGE
  MaxUpdates        \* bound of the exploration: updates of changes

ASSUME DiscoveryAssumption ==
  /\ Listings \subseteq Seq(Seq(Changes)) /\ PageSize \in Nat \ {0} /\ MaxUpdates \in Nat
  /\ \A l \in Listings : \A r, s \in DOMAIN l : \A i \in DOMAIN l[r], j \in DOMAIN l[s] :
       l[r][i] = l[s][j] => r = s /\ i = j

VARIABLES
  clock,       \* second of the last update
  updates,     \* updates so far
  change,      \* provider: each change's revision and the time of its last update
  open,        \* provider: of each repository its open changes, as it lists them,
               \* the one that was updated last first
  since,       \* $.automaticPollingSince, the watermark
  revisions,   \* automaticReviewRevisions: the revision, and the poll whose entry it is
  poll,        \* the polls; of their fields stirred is history: changes updated, or
               \* moved up the list, after the poll began to read their repository
  \* History.
  owed,        \* open changes whose last revision no trigger has returned for
  passedOver   \* changes some poll left to the dispatch of another one, or whose
               \* scan was torn

provider == <<clock, updates, change, open>>
history  == <<owed, passedOver>>
vars == <<provider, since, revisions, poll, history>>

Idle == [at |-> "idle", since |-> 0, repo |-> 1, page |-> 0, found |-> <<>>,
         complete |-> TRUE, stirred |-> {}, pending |-> {}, failed |-> {}]

Forgotten == [rev |-> 0, by |-> "none"]

Init ==
  /\ clock = 0 /\ updates = 0 /\ since = 0
  /\ change = [c \in Changes |-> [rev |-> 1, updated |-> 0]] /\ open \in Listings
  /\ revisions = [c \in Changes |-> Forgotten]
  /\ poll = [p \in Polls |-> Idle]
  /\ owed = {} /\ passedOver = {}

-----------------------------------------------------------------------------
(* The provider.                                                           *)

\* The poll has read a page of the repository, and no other repository since; or
\* it has read all of it.
Reading(p, r) == poll[p].at = "scan" /\ poll[p].repo = r /\ poll[p].page > 0
HasRead(p, r) == poll[p].at = "scan" /\ poll[p].repo > r

Stirred(S, readers) ==
  poll' = [p \in Polls |-> IF p \in readers THEN [poll[p] EXCEPT !.stirred = @ \cup S] ELSE poll[p]]

\* A change is pushed, or commented on, which updates it too, in the second of
\* the last update or later.
Update(r, i, pushed) ==
  LET c == open[r][i]
  IN /\ updates < MaxUpdates /\ updates' = updates + 1
     /\ clock' \in {clock, clock + 1} \ {0}
     /\ change' = [change EXCEPT ![c] = [rev |-> IF pushed THEN @.rev + 1 ELSE @.rev, updated |-> clock']]
     /\ open' = [open EXCEPT ![r] = <<c>> \o RemoveAt(@, i)]
     /\ Stirred({c}, {p \in Polls : Reading(p, r) \/ HasRead(p, r)})
     /\ owed' = IF pushed THEN owed \cup {c} ELSE owed
     /\ passedOver' = passedOver \ {c}
     /\ UNCHANGED <<since, revisions>>

\* A change is closed, and the ones below it move up.
Close(r, i) ==
  /\ open' = [open EXCEPT ![r] = RemoveAt(@, i)]
  /\ Stirred(ToSet(open[r]), {p \in Polls : Reading(p, r)})
  /\ owed' = owed \ {open[r][i]}
  /\ UNCHANGED <<clock, updates, change, since, revisions, passedOver>>

-----------------------------------------------------------------------------
(* A poll.                                                                 *)

\* The watermark is read; what has not been found for an hour is forgotten.
PollStarts(p) ==
  /\ poll[p].at = "idle"
  /\ poll' = [poll EXCEPT ![p] = [Idle EXCEPT !.at = "scan", !.since = since]]
  /\ \E expired \in SUBSET Changes :
       revisions' = [c \in Changes |-> IF c \in expired THEN Forgotten ELSE revisions[c]]
  /\ UNCHANGED <<provider, since, history>>

Scanning(p) == poll[p].at = "scan" /\ poll[p].repo <= Len(open)

\* One page.  It is the last one of its repository if it is not full, or if it
\* shows a change that was not updated after the watermark.  A change that two pages
\* show is kept as the later one shows it.
ReadPage(p) ==
  /\ Scanning(p)
  /\ LET listed == open[poll[p].repo]
         from   == poll[p].page * PageSize
         batch  == {listed[i] : i \in DOMAIN listed \cap (from + 1 .. from + PageSize)}
         found  == {c \in batch : change[c].updated > poll[p].since}
         last   == Len(listed) < from + PageSize \/ found # batch
     IN poll' = [poll EXCEPT
          ![p].found = [c \in DOMAIN @ \cup found |-> IF c \in found THEN change[c] ELSE @[c]],
          ![p].repo  = IF last THEN @ + 1 ELSE @,
          ![p].page  = IF last THEN 0 ELSE @ + 1]
  /\ UNCHANGED <<provider, since, revisions, history>>

\* A page cannot be read: the rest of its repository is left out.
PageFails(p) ==
  /\ Scanning(p)
  /\ poll' = [poll EXCEPT ![p].complete = FALSE, ![p].repo = @ + 1, ![p].page = 0]
  /\ UNCHANGED <<provider, since, revisions, history>>

\* The scan was torn: it did not find a change as it is, as the change was stirred
\* behind it, and found one that was updated a second later.
Torn(p, c) ==
  /\ poll[p].complete /\ c \in poll[p].stirred
  /\ c \in DOMAIN poll[p].found => poll[p].found[c] # change[c]
  /\ \E d \in DOMAIN poll[p].found : poll[p].found[d].updated > change[c].updated

\* What is remembered is skipped, and the rest triggered.
Dispatch(p) ==
  /\ poll[p].at = "scan" /\ poll[p].repo > Len(open)
  /\ LET found == poll[p].found
         new   == {c \in DOMAIN found : found[c].rev # revisions[c].rev}
     IN /\ revisions' = [c \in Changes |-> IF c \in new THEN [rev |-> found[c].rev, by |-> p]
                                                        ELSE revisions[c]]
        /\ poll' = [poll EXCEPT ![p].at = "dispatched", ![p].stirred = {}, ![p].pending = new]
        /\ passedOver' = passedOver \cup {c \in owed : \/ c \in DOMAIN found \ new /\ found[c] = change[c]
                                                      \/ Torn(p, c)}
  /\ UNCHANGED <<provider, since, owed>>

Triggered(p, c) ==
  /\ c \in poll[p].pending
  /\ poll' = [poll EXCEPT ![p].pending = @ \ {c}]
  /\ owed' = IF poll[p].found[c].rev = change[c].rev THEN owed \ {c} ELSE owed
  /\ UNCHANGED <<provider, since, revisions, passedOver>>

\* Mutated: a revision whose trigger failed stays remembered.
TriggerFailsRemembered(p, c) ==
  /\ c \in poll[p].pending
  /\ poll' = [poll EXCEPT ![p].pending = @ \ {c}, ![p].failed = @ \cup {c}]
  /\ UNCHANGED <<provider, since, revisions, history>>

\* What failed is forgotten, unless another poll has put its own entry there.
TriggerFails(p, c) ==
  /\ c \in poll[p].pending
  /\ poll' = [poll EXCEPT ![p].pending = @ \ {c}, ![p].failed = @ \cup {c}]
  /\ revisions' = IF revisions[c] = [rev |-> poll[p].found[c].rev, by |-> p]
                  THEN [revisions EXCEPT ![c] = Forgotten] ELSE revisions
  /\ UNCHANGED <<provider, since, history>>

\* Mutated: the watermark passes what failed.
NextSinceAnyway(p) ==
  LET before(c) == poll[p].found[c].updated - 1
  IN Max({poll[p].since} \cup {before(c) : c \in DOMAIN poll[p].found})

\* The new watermark: the last second that was found is scanned again, and so
\* is everything since the first failure.
NextSince(p) ==
  LET before(c) == poll[p].found[c].updated - 1
      latest    == Max({poll[p].since} \cup {before(c) : c \in DOMAIN poll[p].found})
  IN Min({latest} \cup {before(c) : c \in poll[p].failed})

\* advanceAutomaticReviewPollingSince: compare and set, and only forward.
advancePollingSince(expected, next) ==
  since' = IF next > expected /\ since = expected THEN next ELSE since

PollEnds(p) ==
  /\ poll[p].at = "dispatched" /\ poll[p].pending = {}
  /\ poll' = [poll EXCEPT ![p] = Idle]
  /\ IF poll[p].complete THEN advancePollingSince(poll[p].since, NextSince(p))
                         ELSE UNCHANGED since
  /\ UNCHANGED <<provider, revisions, history>>

-----------------------------------------------------------------------------
\* clearReviewPollingState: polling is reconfigured while polls are under way.
Clear ==
  /\ revisions' = [c \in Changes |-> Forgotten]
  /\ UNCHANGED <<provider, since, poll, history>>

Restart ==
  /\ revisions' = [c \in Changes |-> Forgotten] /\ poll' = [p \in Polls |-> Idle]
  /\ UNCHANGED <<provider, since, history>>

-----------------------------------------------------------------------------
PollStep(p) ==
  \/ PollStarts(p) \/ ReadPage(p) \/ PageFails(p) \/ Dispatch(p)
  \/ (\E c \in Changes : Triggered(p, c) \/ TriggerFails(p, c)) \/ PollEnds(p)

Next ==
  \/ \E r \in DOMAIN open : \E i \in DOMAIN open[r] :
       Close(r, i) \/ \E pushed \in BOOLEAN : Update(r, i, pushed)
  \/ \E p \in Polls : PollStep(p)
  \/ Clear \/ Restart

Spec == Init /\ [][Next]_vars

-----------------------------------------------------------------------------
(* Properties.                                                             *)

Entries  == [rev : Nat, updated : Nat]
PollRecs == [at : {"idle", "scan", "dispatched"}, since : Nat, repo : Nat, page : Nat,
             found : UNION {[S -> Entries] : S \in SUBSET Changes}, complete : BOOLEAN,
             stirred : SUBSET Changes, pending : SUBSET Changes, failed : SUBSET Changes]

\* Every variable has its type.
TypeOK ==
  /\ clock \in Nat /\ updates \in Nat /\ since \in Nat
  /\ change \in [Changes -> Entries] /\ open \in Seq(Seq(Changes))
  /\ revisions \in [Changes -> [rev : Nat, by : Polls \cup {"none"}]]
  /\ poll \in [Polls -> PollRecs]
  /\ owed \in SUBSET Changes /\ passedOver \in SUBSET Changes

\* The next poll finds what is owed: it is after the watermark, and it is not
\* remembered, unless a poll is dispatching it just now; whatever triggers fail,
\* pages cannot be read and polls overlap.  Two kinds of change are not promised:
\* one that another poll had in flight when this one passed it over and moved the
\* watermark beyond it, and one that a scan has torn from what it found (Torn).
OwedIsInWindow ==
  \A c \in owed \ passedOver :
    /\ change[c].updated > since
    /\ revisions[c].rev = change[c].rev => \E p \in Polls : c \in poll[p].pending

\* Polls that end in any order never move the watermark back, which would
\* review again what was found since.
WatermarkAdvances == [][since' >= since]_since
=============================================================================
