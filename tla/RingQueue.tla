------------------------------ MODULE RingQueue ------------------------------
(***************************************************************************)
(* What the lock-free ring promises its callers (the contract stated in    *)
(* the comments of internals.rs and relied on by the bounded channels):    *)
(*                                                                         *)
(*  - a push that finds room claims the next position in one step, and a   *)
(*    pop that finds the oldest item published claims it in one step, so   *)
(*    items leave in the order in which their positions were claimed, each *)
(*    one once;                                                            *)
(*  - "full" is answered only in a state in which the slot of the tail     *)
(*    position is still in use, and "none" only in one in which the oldest *)
(*    item is missing or not yet published;                                *)
(*  - dropping the ring drops exactly the items left in it.                *)
(*                                                                         *)
(* An item is named by the position its producer claimed.                  *)
(***************************************************************************)
EXTENDS RingOps

CONSTANTS Producers, Consumers, Cap, MaxPos

VARIABLES
  q,          \* the ring, a record of RingOps
  st,         \* per thread: how far its call has come, or its last result
  at,         \* per thread: the position it holds, 0 when it holds none
  got,        \* per consumer: the item it has read, or NoItem
  alive,      \* FALSE once the ring has been dropped
  dropped     \* the items the ring's destructor dropped

vars == <<q, st, at, got, alive, dropped>>

NoItem == -1
Threads == Producers \cup Consumers

Outcomes == {"none", "ok", "full", "empty"}

Init ==
  /\ q = EmptyRing
  /\ st = [t \in Threads |-> "none"]
  /\ at = [t \in Threads |-> 0]
  /\ got = [c \in Consumers |-> NoItem]
  /\ alive = TRUE
  /\ dropped = {}

-----------------------------------------------------------------------------
Call(t) ==
  /\ alive
  /\ st[t] \in Outcomes
  /\ st' = [st EXCEPT ![t] = "trying"]
  /\ got' = [c \in Consumers |-> IF c = t THEN NoItem ELSE got[c]]
  /\ UNCHANGED <<q, at, alive, dropped>>

Answer(t, outcome) ==
  /\ st' = [st EXCEPT ![t] = outcome]
  /\ UNCHANGED <<q, at, got, alive, dropped>>

PushClaim(p) ==
  /\ st[p] = "trying"
  /\ SlotFree(q, Cap)
  /\ q' = Claim(q)
  /\ at' = [at EXCEPT ![p] = q.tail]
  /\ st' = [st EXCEPT ![p] = "claimed"]
  /\ UNCHANGED <<got, alive, dropped>>

PushDone(p) ==
  /\ st[p] = "claimed"
  /\ q' = Publish(q, at[p])
  /\ at' = [at EXCEPT ![p] = 0]
  /\ st' = [st EXCEPT ![p] = "ok"]
  /\ UNCHANGED <<got, alive, dropped>>

PushFull(p) ==
  /\ st[p] = "trying"
  /\ ~SlotFree(q, Cap)
  /\ Answer(p, "full")

PopTake(c) ==
  /\ st[c] = "trying"
  /\ CanTake(q)
  /\ q' = Take(q)
  /\ at' = [at EXCEPT ![c] = q.head]
  /\ got' = [got EXCEPT ![c] = q.head]
  /\ st' = [st EXCEPT ![c] = "claimed"]
  /\ UNCHANGED <<alive, dropped>>

PopDone(c) ==
  /\ st[c] = "claimed"
  /\ q' = Release(q, at[c])
  /\ at' = [at EXCEPT ![c] = 0]
  /\ st' = [st EXCEPT ![c] = "ok"]
  /\ UNCHANGED <<got, alive, dropped>>

PopEmpty(c) ==
  /\ st[c] = "trying"
  /\ ~CanTake(q)
  /\ Answer(c, "empty")

Drop ==
  /\ alive
  /\ \A t \in Threads : st[t] \in Outcomes
  /\ alive' = FALSE
  /\ dropped' = q.head .. (q.tail - 1)
  /\ UNCHANGED <<q, st, at, got>>

Next ==
  \/ \E t \in Threads : Call(t)
  \/ \E p \in Producers : PushClaim(p) \/ PushDone(p) \/ PushFull(p)
  \/ \E c \in Consumers : PopTake(c) \/ PopDone(c) \/ PopEmpty(c)
  \/ Drop

Spec == Init /\ [][Next]_vars
=============================================================================
