-------------------------------- MODULE Ring --------------------------------
(***************************************************************************)
(* LockFreeBoundedRing of internals.rs, one action per access to shared    *)
(* memory: try_push and try_pop with their retry loops, run by any number  *)
(* of threads at once, and the destructor.                                 *)
(*                                                                         *)
(* A thread that both pushes and pops is covered by a producer and a       *)
(* consumer: a call keeps no state once it has returned.  An item is named *)
(* by the position its producer claimed, so the contents of a slot say     *)
(* which push wrote it.  Every load is an atomic step in some total order: *)
(* a slot's sequence number is stored with Release and loaded with         *)
(* Acquire, and a relaxed load of a cursor may be stale, which is what the *)
(* gap between PushLoadTail and PushLoadSeq already allows for.            *)
(***************************************************************************)
EXTENDS Integers, FiniteSets

CONSTANTS
  Producers,   \* threads calling try_push
  Consumers,   \* threads calling try_pop
  Cap,         \* the capacity given to LockFreeBoundedRing::new
  MaxPos       \* bound: how many positions producers may claim

ASSUME ThreadsAssumption == Producers \cap Consumers = {}
ASSUME CapAssumption == Cap \in Nat
ASSUME MaxPosAssumption == MaxPos \in Nat

VARIABLES
  tail,      \* the write cursor
  head,      \* the read cursor
  seq,       \* the sequence number of every slot
  val,       \* the item in every slot
  pc,        \* per thread: the next step of its call, or its last result
  pos,       \* per thread: its local variable pos
  got,       \* per consumer: the item it has read out of a slot
  alive,     \* FALSE once the ring has been dropped
  dropped    \* the items the ring's destructor dropped

vars == <<tail, head, seq, val, pc, pos, got, alive, dropped>>

Threads == Producers \cup Consumers
NoItem == -1

Slots == 0 .. (Cap - 1)
Slot(i) == i % Cap

Resting == {"none", "ok", "full", "empty"}
Trying  == {"load", "seq", "cas"}
Holding == {"access", "store"}

Init ==
  /\ tail = 0
  /\ head = 0
  /\ seq = [s \in Slots |-> s]
  /\ val = [s \in Slots |-> NoItem]
  /\ pc = [t \in Threads |-> "none"]
  /\ pos = [t \in Threads |-> 0]
  /\ got = [c \in Consumers |-> NoItem]
  /\ alive = TRUE
  /\ dropped = {}

-----------------------------------------------------------------------------
(* Thread t, at step "from" of its call, goes to step "to".                *)
Goto(t, from, to) == pc[t] = from /\ pc' = [pc EXCEPT ![t] = to]

(* Producers that may still claim a position, counted against MaxPos.      *)
Claimants == {p \in Producers : pc[p] \in Trying}

-----------------------------------------------------------------------------
(* Faulty steps, none of them part of Next: each is a way to get one of the *)
(* steps below wrong that a property at the end of the module rules out.    *)

\* A plain store where a compare_exchange is needed.
PushCasAsStore(p) ==
  /\ Goto(p, "cas", "access")
  /\ tail' = pos[p] + 1
  /\ UNCHANGED <<head, seq, val, pos, got, alive, dropped>>

\* A slot that still holds an item is taken for a free one.
PushLoadSeqIgnoresFull(p) ==
  /\ Goto(p, "seq", IF Cap = 0 THEN "full"
                    ELSE IF seq[Slot(pos[p])] <= pos[p] THEN "cas" ELSE "load")
  /\ UNCHANGED <<tail, head, seq, val, pos, got, alive, dropped>>

\* A full ring makes the call spin until there is room.
PushLoadSeqSpins(p) ==
  /\ Goto(p, "seq", IF Cap = 0 THEN "full"
                    ELSE IF seq[Slot(pos[p])] = pos[p] THEN "cas" ELSE "load")
  /\ UNCHANGED <<tail, head, seq, val, pos, got, alive, dropped>>

\* The consumer compares with the number of a free slot.
PopLoadSeqOffByOne(c) ==
  /\ Goto(c, "seq", IF Cap = 0 THEN "empty"
                    ELSE IF seq[Slot(pos[c])] = pos[c] THEN "cas" ELSE "load")
  /\ UNCHANGED <<tail, head, seq, val, pos, got, alive, dropped>>

\* The consumer releases the slot one position too far ahead.
PopStoreOneAhead(c) ==
  /\ Goto(c, "store", "ok")
  /\ seq' = [seq EXCEPT ![Slot(pos[c])] = pos[c] + Cap + 1]
  /\ UNCHANGED <<tail, head, val, pos, got, alive, dropped>>

\* The consumer releases the slot with the producer's number.
PopStoreForgetsCap(c) ==
  /\ Goto(c, "store", "ok")
  /\ seq' = [seq EXCEPT ![Slot(pos[c])] = pos[c] + 1]
  /\ UNCHANGED <<tail, head, val, pos, got, alive, dropped>>

\* Drop reads one slot too many, or leaks the first item.
DropRingTooMuch ==
  /\ alive
  /\ \A t \in Threads : pc[t] \in Resting
  /\ alive' = FALSE
  /\ dropped' = {val[Slot(i)] : i \in head .. tail}
  /\ UNCHANGED <<tail, head, seq, val, pc, pos, got>>

DropRingLeaks ==
  /\ alive
  /\ \A t \in Threads : pc[t] \in Resting
  /\ alive' = FALSE
  /\ dropped' = {val[Slot(i)] : i \in (head + 1) .. (tail - 1)}
  /\ UNCHANGED <<tail, head, seq, val, pc, pos, got>>

-----------------------------------------------------------------------------
(* try_push: load tail, at the start of the call or of another round.      *)
PushLoadTail(p) ==
  /\ \/ pc[p] = "load"
     \/ /\ pc[p] \in Resting
        /\ alive
        /\ tail + Cardinality(Claimants) < MaxPos
  /\ pc' = [pc EXCEPT ![p] = "seq"]
  /\ pos' = [pos EXCEPT ![p] = tail]
  /\ UNCHANGED <<tail, head, seq, val, got, alive, dropped>>

(* Load the slot's sequence number: equal to pos, try to claim; behind     *)
(* it, the ring is full (as it is when cap is 0); ahead of it, the         *)
(* snapshot of tail was stale.                                             *)
PushLoadSeq(p) ==
  /\ Goto(p, "seq",
       IF Cap = 0 THEN "full"
       ELSE LET found == seq[Slot(pos[p])] IN
            IF found = pos[p] THEN "cas"
            ELSE IF found < pos[p] THEN "full" ELSE "load")
  /\ UNCHANGED <<tail, head, seq, val, pos, got, alive, dropped>>

PushCas(p) ==
  /\ Goto(p, "cas", "access")
  /\ tail = pos[p]
  /\ tail' = tail + 1
  /\ UNCHANGED <<head, seq, val, pos, got, alive, dropped>>

(* compare_exchange_weak fails because tail has moved, or spuriously.      *)
PushCasFails(p) ==
  /\ Goto(p, "cas", "load")
  /\ UNCHANGED <<tail, head, seq, val, pos, got, alive, dropped>>

PushWrite(p) ==
  /\ Goto(p, "access", "store")
  /\ val' = [val EXCEPT ![Slot(pos[p])] = pos[p]]
  /\ UNCHANGED <<tail, head, seq, pos, got, alive, dropped>>

PushStore(p) ==
  /\ Goto(p, "store", "ok")
  /\ seq' = [seq EXCEPT ![Slot(pos[p])] = pos[p] + 1]
  /\ UNCHANGED <<tail, head, val, pos, got, alive, dropped>>

-----------------------------------------------------------------------------
(* try_pop: the same steps on head, one past the producers' numbers.       *)
PopLoadHead(c) ==
  /\ \/ pc[c] = "load" /\ got' = got
     \/ /\ pc[c] \in Resting
        /\ alive
        /\ got' = [got EXCEPT ![c] = NoItem]
  /\ pc' = [pc EXCEPT ![c] = "seq"]
  /\ pos' = [pos EXCEPT ![c] = head]
  /\ UNCHANGED <<tail, head, seq, val, alive, dropped>>

PopLoadSeq(c) ==
  /\ Goto(c, "seq",
       IF Cap = 0 THEN "empty"
       ELSE LET found == seq[Slot(pos[c])] IN
            IF found = pos[c] + 1 THEN "cas"
            ELSE IF found < pos[c] + 1 THEN "empty" ELSE "load")
  /\ UNCHANGED <<tail, head, seq, val, pos, got, alive, dropped>>

PopCas(c) ==
  /\ Goto(c, "cas", "access")
  /\ head = pos[c]
  /\ head' = head + 1
  /\ UNCHANGED <<tail, seq, val, pos, got, alive, dropped>>

PopCasFails(c) ==
  /\ Goto(c, "cas", "load")
  /\ UNCHANGED <<tail, head, seq, val, pos, got, alive, dropped>>

PopRead(c) ==
  /\ Goto(c, "access", "store")
  /\ got' = [got EXCEPT ![c] = val[Slot(pos[c])]]
  /\ UNCHANGED <<tail, head, seq, val, pos, alive, dropped>>

PopStore(c) ==
  /\ Goto(c, "store", "ok")
  /\ seq' = [seq EXCEPT ![Slot(pos[c])] = pos[c] + Cap]
  /\ UNCHANGED <<tail, head, val, pos, got, alive, dropped>>

-----------------------------------------------------------------------------
(* The last owner drops the ring: no call is under way.  Every item that   *)
(* was written and not read is dropped in place.                           *)
DropRing ==
  /\ alive
  /\ \A t \in Threads : pc[t] \in Resting
  /\ alive' = FALSE
  /\ dropped' = {val[Slot(i)] : i \in {j \in head .. (tail - 1) : seq[Slot(j)] = j + 1}}
  /\ UNCHANGED <<tail, head, seq, val, pc, pos, got>>

(* After that nothing can be called any more.                              *)
Gone == ~alive /\ UNCHANGED vars

PushStep(p) == \/ PushLoadTail(p) \/ PushLoadSeq(p) \/ PushCas(p)
               \/ PushCasFails(p) \/ PushWrite(p) \/ PushStore(p)
PopStep(c)  == \/ PopLoadHead(c) \/ PopLoadSeq(c) \/ PopCas(c)
               \/ PopCasFails(c) \/ PopRead(c) \/ PopStore(c)

Next ==
  \/ \E p \in Producers : PushStep(p)
  \/ \E c \in Consumers : PopStep(c)
  \/ DropRing
  \/ Gone

Spec == Init /\ [][Next]_vars

(* Nothing is assumed of the other threads in what follows: they may stop  *)
(* between any two steps of theirs.  A call itself keeps running, and      *)
(* compare_exchange_weak does not fail forever when it could succeed.      *)
InCall(t) == pc[t] \in Trying \cup Holding
PushRuns(p) == WF_vars(InCall(p) /\ PushStep(p)) /\ SF_vars(PushCas(p))
PopRuns(c)  == WF_vars(InCall(c) /\ PopStep(c)) /\ SF_vars(PopCas(c))

-----------------------------------------------------------------------------
(* Positions being written by a producer and read by a consumer.           *)
Writing == {pos[p] : p \in {x \in Producers : pc[x] \in Holding}}
Reading == {pos[c] : c \in {x \in Consumers : pc[x] \in Holding}}

TypeOK ==
  /\ tail \in Nat
  /\ head \in Nat
  /\ seq \in [Slots -> Nat]
  /\ val \in [Slots -> Nat \cup {NoItem}]
  /\ pc \in [Threads -> Resting \cup Trying \cup Holding]
  /\ pos \in [Threads -> Nat]
  /\ got \in [Consumers -> Nat \cup {NoItem}]
  /\ alive \in BOOLEAN
  /\ dropped \subseteq Nat

(* The SAFETY comments of try_push and try_pop: between a successful       *)
(* compare_exchange and the store of the new sequence number, no other     *)
(* thread touches the slot's UnsafeCell.                                   *)
Exclusive ==
  \A t, u \in Threads :
    t # u /\ {pc[t], pc[u]} \subseteq Holding => Slot(pos[t]) # Slot(pos[u])

(* "Returns Err(value) when the ring is full": the producers are never     *)
(* more than cap claims ahead of the consumers.                            *)
CapacityRespected == tail - head \in 0 .. Cap

(* A pop returns the item that was pushed at the position it claimed, not  *)
(* an older one, a newer one or uninitialised memory.                      *)
PopsItsItem == \A c \in Consumers : pc[c] \in {"store", "ok"} => got[c] = pos[c]

(* "diff > 0 means stale tail snapshot; retry": a round that ends at the    *)
(* slot's number is repeated only if another call of the same side has      *)
(* claimed a position since the cursor was loaded; an attempt that finds    *)
(* the ring full or empty, or the next slot still in use, is the last one.  *)
RetriesWhenOvertaken ==
  [][/\ \A p \in Producers : pc[p] = "seq" /\ pc'[p] = "load" => tail > pos[p]
     /\ \A c \in Consumers : pc[c] = "seq" /\ pc'[c] = "load" => head > pos[c]]_vars

(* "Lock-free": a call of try_push or try_pop that keeps running and never  *)
(* returns is overtaken for ever, so somebody else succeeds again and       *)
(* again.  Peers may starve it, but no thread that has stopped in the       *)
(* middle of its own call, between claim and store included, can hold it up. *)
LockFree ==
  /\ \A p \in Producers :
       PushRuns(p) => (<>[](InCall(p)) => []<><<tail' # tail>>_vars)
  /\ \A c \in Consumers :
       PopRuns(c) => (<>[](InCall(c)) => []<><<head' # head>>_vars)

(* The ring is a bounded FIFO queue with claims in the sense of RingQueue. *)
Queue == INSTANCE RingQueue WITH
  q <- [tail |-> tail, head |-> head,
        ready |-> (head .. (tail - 1)) \ Writing, reading |-> Reading],
  st <- [t \in Threads |-> IF pc[t] \in Trying THEN "trying"
                           ELSE IF pc[t] \in Holding THEN "claimed" ELSE pc[t]],
  at <- [t \in Threads |-> IF pc[t] \in Holding THEN pos[t] ELSE 0],
  got <- [c \in Consumers |-> IF pc[c] = "access" THEN val[Slot(pos[c])] ELSE got[c]]

ImplementsQueue == Queue!Spec

-----------------------------------------------------------------------------
(* The inductive invariant behind Exclusive, CapacityRespected, PopsItsItem *)
(* and ImplementsQueue; it needs Cap >= 2.  With Cap = 1 "published at i"   *)
(* and "free for position i + 1" are the same sequence number.              *)

(* The comment on RingSlot, for each of the cap positions the slots stand   *)
(* for: i if free or being written, i + 1 if published; while the previous  *)
(* occupant is being read, its i + 1.                                       *)
SequenceProtocol ==
  /\ head <= tail
  /\ tail <= head + Cap
  /\ \A i \in head .. (tail - 1) :
       seq[Slot(i)] = IF i \in Writing THEN i ELSE i + 1
  /\ \A i \in tail .. (head + Cap - 1) :
       seq[Slot(i)] = IF i - Cap \in Reading THEN i - Cap + 1 ELSE i

(* A producer's local state: what its snapshot of tail and of the slot      *)
(* still tells it (a stale one shows a slot that has moved on, never a      *)
(* "full" one), and the position it has claimed.                            *)
ProducerOK(p) ==
  /\ pc[p] \in {"seq", "cas"} => pos[p] <= tail
  /\ pc[p] = "seq" /\ pos[p] < tail => seq[Slot(pos[p])] >= pos[p]
  /\ pc[p] = "cas" /\ pos[p] = tail => tail < head + Cap /\ tail - Cap \notin Reading
  /\ pc[p] \in Holding => pos[p] \in head .. (tail - 1)
  /\ pc[p] = "store" => val[Slot(pos[p])] = pos[p]

ConsumerOK(c) ==
  /\ pc[c] \in {"seq", "cas"} => pos[c] <= head
  /\ pc[c] = "seq" /\ pos[c] < head => seq[Slot(pos[c])] >= pos[c] + 1
  /\ pc[c] = "cas" /\ pos[c] = head => head < tail /\ head \notin Writing
  /\ pc[c] \in Holding => pos[c] < head /\ tail - Cap <= pos[c]
  /\ pc[c] = "access" => val[Slot(pos[c])] = pos[c]
  /\ pc[c] \in {"store", "ok"} => got[c] = pos[c]

(* No position is claimed by two threads on the same side.                  *)
ClaimsDistinct ==
  \A t, u \in Threads :
    /\ t # u
    /\ {t, u} \subseteq Producers \/ {t, u} \subseteq Consumers
    /\ {pc[t], pc[u]} \subseteq Holding
    => pos[t] # pos[u]

PublishedItems == \A i \in (head .. (tail - 1)) \ Writing : val[Slot(i)] = i

IndInv ==
  /\ TypeOK
  /\ SequenceProtocol
  /\ \A p \in Producers : ProducerOK(p)
  /\ \A c \in Consumers : ConsumerOK(c)
  /\ ClaimsDistinct
  /\ PublishedItems
=============================================================================
