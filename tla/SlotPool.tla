------------------------------- MODULE SlotPool -------------------------------
(***************************************************************************)
(* What ConcurrencyTracker promises to those who call it: a pool of slots, *)
(* some for each key.  A call takes a slot of a key only while the key has *)
(* fewer users than one of the limits the call may be held to, is answered *)
(* once, and whatever it took comes back once: when it is released by its  *)
(* holder, or at once if the call was given up while its slot was sought.  *)
(*                                                                         *)
(* Who is served first, and the counters, queue and lookups behind it, are *)
(* left to ConcurrencyTracker, which implements Spec.                      *)
(***************************************************************************)
EXTENDS Naturals, FiniteSets

CONSTANTS
  Calls,
  Limits,   \* per call, the [key, max] it may be held to
  None      \* no slot

VARIABLES
  state,  \* per call: "idle", "waiting", "cancelled", "granted", "released", "rejected"
  slot    \* per call, the key of the slot taken for it

vars == <<state, slot>>

Users(k) == {x \in Calls : slot[x] = k}

Becomes(x, s) == state' = [state EXCEPT ![x] = s]

\* The call asks for a slot.
Ask(x) == state[x] = "idle" /\ Becomes(x, "waiting") /\ UNCHANGED slot

\* A slot is set aside for it, even if it was given up while one was sought.
Take(x) ==
  /\ state[x] \in {"waiting", "cancelled"} /\ slot[x] = None
  /\ \E lim \in Limits[x] : /\ Cardinality(Users(lim.key)) < lim.max
                            /\ slot' = [slot EXCEPT ![x] = lim.key]
  /\ UNCHANGED state

\* The slot is handed over.
Grant(x) ==
  state[x] = "waiting" /\ slot[x] # None /\ Becomes(x, "granted") /\ UNCHANGED slot

\* The caller gives up while a slot is sought for it or set aside.
Cancel(x) == state[x] = "waiting" /\ Becomes(x, "cancelled") /\ UNCHANGED slot

\* The call ends with nothing.
Reject(x) ==
  /\ state[x] \in {"idle", "waiting", "cancelled"} /\ slot[x] = None
  /\ Becomes(x, "rejected") /\ UNCHANGED slot

\* The slot set aside for a call that was given up goes back.
GiveBack(x) ==
  /\ state[x] = "cancelled" /\ slot[x] # None
  /\ Becomes(x, "rejected") /\ slot' = [slot EXCEPT ![x] = None]

\* The holder gives its slot back.
Release(x) ==
  /\ state[x] = "granted" /\ slot[x] # None
  /\ Becomes(x, "released") /\ slot' = [slot EXCEPT ![x] = None]

Init == state = [x \in Calls |-> "idle"] /\ slot = [x \in Calls |-> None]

Next == \E x \in Calls : \/ Ask(x) \/ Take(x) \/ Grant(x) \/ Cancel(x)
                         \/ Reject(x) \/ GiveBack(x) \/ Release(x)

Spec == Init /\ [][Next]_vars
=============================================================================
