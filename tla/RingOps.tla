------------------------------- MODULE RingOps -------------------------------
(***************************************************************************)
(* The bounded ring of internals.rs as a value: what is in it, which       *)
(* positions a producer has claimed but not yet published and which a      *)
(* consumer has claimed but not yet released.  A claim and its completion  *)
(* are two steps of the program, so the queue between them is neither the  *)
(* old nor the new one, and is_full, is_empty, try_push and try_pop look   *)
(* at different parts of it.  RingQueue is the state machine over these    *)
(* operators that Ring implements; the channels use the operators.         *)
(*                                                                         *)
(*   tail     positions claimed by producers so far                        *)
(*   head     positions claimed by consumers so far                        *)
(*   ready    positions published and not yet claimed by a consumer        *)
(*   reading  positions claimed by a consumer and not yet released         *)
(***************************************************************************)
EXTENDS Integers

EmptyRing == [tail |-> 0, head |-> 0, ready |-> {}, reading |-> {}]
RingOf(n) == [EmptyRing EXCEPT !.tail = n, !.ready = 0 .. (n - 1)]

(* try_push finds the slot of the tail position free.                      *)
SlotFree(q, cap) == /\ q.tail - cap < q.head
                    /\ q.tail - cap \notin q.reading

(* try_pop finds the slot of the head position published.                  *)
CanTake(q) == q.head \in q.ready

Claim(q)      == [q EXCEPT !.tail = @ + 1]
Publish(q, i) == [q EXCEPT !.ready = @ \cup {i}]
\* A faulty Take, which claims an item but leaves it for others to claim.
TakeTwice(q)  == [q EXCEPT !.head = @ + 1, !.reading = @ \cup {q.head}]

Take(q)       == [tail |-> q.tail, head |-> q.head + 1,
                  ready |-> q.ready \ {q.head}, reading |-> q.reading \cup {q.head}]
Release(q, i) == [q EXCEPT !.reading = @ \ {i}]

(* A push and a pop seen as one step each.                                 *)
Push(q) == Publish(Claim(q), q.tail)
Pop(q)  == Release(Take(q), q.head)

(* is_full loads tail and then head, is_empty loads head and then that      *)
(* slot's sequence number: t and h are the values of the first load, q the  *)
(* ring at the second.  A difference below zero wraps around to a huge      *)
(* number, and a slot keeps its number while a consumer is reading it.      *)
IsFull(q, cap, t) == t - q.head >= cap \/ t - q.head < 0
IsEmpty(q, h)     == h \notin q.ready \cup q.reading
=============================================================================
