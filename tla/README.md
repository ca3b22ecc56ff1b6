# Selectables: a formal model

A TLA+ development of `selectables`, a Rust library of lock-free channels that
can be waited on together with `select!`. It holds models of the bounded ring,
of the waiting and waking machinery, of the four queue channels, of the oneshot,
rendezvous, broadcast and watch channels and of the select protocol, TLC
instances that check them, and TLAPS proofs about the ring and every kind of
channel.

Source paths are relative to the repository root; line numbers are those of the
commit modelled.

## 1. The system

| Component | Source | State | Operations |
|---|---|---|---|
| Bounded ring | `src/internals.rs` | slots (sequence number, value), cursors `head` and `tail` | `try_push`, `try_pop`, `is_empty`, `is_full`, drop |
| Waiters | `src/waiter.rs` | per channel: a mutex-protected list of blocked receivers; lock-free stacks of select nodes | register, unregister, wake one / all, push, abort, wake one / all select nodes, drain |
| Queue channels | `src/bounded_mpmc.rs`, `bounded_mpsc.rs`, `unbounded_mpmc.rs`, `unbounded_mpsc.rs` | a queue, the two waiter structures, counts of sender and receiver handles | `send`, `recv`, `try_recv`, clone, drop, the four hooks for `select!` |
| Select | `src/select.rs` | the arms, one `selected` atomic per turn of the loop, a global fairness counter | `select`, `try_select`, `select_timeout`, `select_deadline`, the macro |
| Oneshot | `src/oneshot.rs` | sender state, value cell, waiters | `send`, `recv`, `try_recv`, drop, hooks |
| Rendezvous | `src/rendezvous.rs` | stack of blocked senders, waiters | `send` (blocks for a taker), `recv`, `try_recv`, drop, hooks |
| Broadcast | `src/bounded_broadcast.rs` | slots with sequence numbers, a cursor per receiver | `send` (overwrites), `recv`, `try_recv` (reports lag), hooks |
| Watch | `src/watch.rs` | latest value, version, a cursor per receiver | `send`, `changed`, hooks |
| Interval | `src/interval.rs` | a thread, a bounded channel of capacity 1 | `tick` |
| Errors, crate root | `src/error.rs`, `src/lib.rs` | none | formatting, traits |

How they interact. A send pushes to the queue, then wakes a plain receiver (or
all of them), then takes the stack of select nodes and wakes one. A receive
pops; on a bounded channel it then wakes one select node waiting to send. A
blocked `recv` registers in the list, looks at the queue again, and parks. A
select call sweeps over its arms, pushes a node on every arm's stack, sweeps
again, parks, marks its nodes aborted, and completes the arm the waker (or its
second sweep) wrote into `selected`. The last handle of a side to be dropped
wakes the other side. Every one of these is a sequence of steps that other
threads interleave with.

What makes it hard:

- between the two steps of a push (claim by compare-exchange, publish by store)
  and of a pop the ring is in neither the old nor the new state, and
  `is_full`, `is_empty`, `try_push` and `try_pop` look at different parts of it;
- a wake-up is lost unless every waiter looks again after registering;
- wake calls work on a copy of the list, or on a stack taken as a whole, so
  they reach threads that have gone on to something else;
- the nodes of a select call outlive it, and are marked by their owner while a
  waker may be freeing them;
- the arm is chosen by the waker and completed later by the sleeper;
- the oneshot, broadcast and watch channels keep a value and its announcement in
  two atomics: a sender writes them one after the other, and a receiver reads
  them in some order of its own while other senders write;
- a rendezvous send keeps its node in its own stack frame, where others walk.

What correctness means, component by component: the ring is a FIFO queue that
keeps its capacity, shares no slot and is lock-free; no waiter is left
asleep with something to do, none is left behind in a list or on a stack; `recv`
and `select` return when they can; a deadline ends a select. A oneshot value is
claimed once and never taken back; a rendezvous item is taken once or given
back; a broadcast receiver goes through the messages in order and is told how
many it lost; a watch receiver that learns of a change finds its value.

## 2. Modules

| Module | Models | Extends |
|---|---|---|
| `RingOps` | the ring as a value: claimed, published, being read; `IsFull` and `IsEmpty` | |
| `RingQueue` | abstract: a FIFO queue with two-phase push and pop | `RingOps` |
| `Ring` | `internals.rs` at the level of single loads, stores and compare-exchanges | |
| `RingProofs` | theorems about `Ring`, and that it implements `RingQueue` | `Ring` |
| `Waiter` | `waiter.rs` | |
| `WaiterProofs` | lemmas: what wake calls under way promise a waiter | `Waiter` |
| `QueueChannel` | the four queue channels | `Waiter`, `RingOps` |
| `ChannelProofs` | theorems about `QueueChannel` and `Select` | `Select`, `WaiterProofs` |
| `Select` | `select.rs` over the queue channels | `QueueChannel` |
| `Endpoints` | what the other four channels share: handles, registration and park of a receive, a `select!` with one arm | `Waiter` |
| `EndpointProofs` | lemmas: what every step keeps of a registered receiver and a registered arm | `Endpoints`, `WaiterProofs` |
| `Oneshot` | `oneshot.rs` | `Endpoints` |
| `Promise` | abstract: a value that is kept or broken, and claimed once | |
| `OneshotProofs` | theorems about `Oneshot`, and that it implements `Promise` | `Oneshot` |
| `Broadcast` | `bounded_broadcast.rs` | `Endpoints` |
| `Feed` | abstract: a log with a window over its end, and readers | |
| `BroadcastProofs` | theorems about `Broadcast`, and that it implements `Feed` | `Broadcast`, `EndpointProofs` |
| `Watch` | `watch.rs` | `Endpoints` |
| `WatchProofs` | theorems about `Watch` | `Watch`, `EndpointProofs` |
| `Rendezvous` | `rendezvous.rs` | `Endpoints` |
| `RendezvousProofs` | theorems about `Rendezvous` | `Rendezvous`, `EndpointProofs` |
| `MCRing`, `MCChannel`, `MCSelect`, `MCShared`, `MCOneshot`, `MCBroadcast`, `MCWatch`, `MCRendezvous` | instances | |

The composition follows the code. `Ring` implements `RingQueue`, whose state
is a `RingOps` record; a bounded channel of `QueueChannel` holds such a record
and takes the same two-phase steps, so a channel is modelled over what the
ring has been shown to be and not over its memory accesses. `Select` adds the
steps of `select_impl` to those of the channels: the threads of one model run
plain operations and select calls side by side. The other channels are over
`Waiter` too, through `Endpoints`, with the select protocol for a single arm:
what a second arm adds is the subject of `Select`.

**Ring.** `pc[t]` is the next step of a call (`load`, `seq`, `cas`, `access`,
`store`) or the last result. An item is named by the position its producer
claimed, so what a slot holds says who wrote it. Loads are in some total order;
this is enough because each slot's number is stored with Release and loaded
with Acquire, and a stale relaxed load of a cursor is the gap that
`PushLoadTail` and `PushLoadSeq` leave anyway. `compare_exchange_weak` may fail
spuriously (`PushCasFails`, `PopCasFails`).

**Waiter.** `waiting` is the list of plain receivers, `stack` the select
nodes `<<thread, turn, arm>>`, `aborted` the marked ones, `selected` the atomic
of every turn, `permit` the token of `thread::park`. `calls[t]` is what
thread t has still to do of the wake calls its operation makes: copying the
list and each `unpark` are steps of their own, as are the swap of a stack, the
load of a node's `aborted` and the exchange of its `selected`. A walk that meets
a node a waker has freed is undefined behaviour in the program; `Beyond` lets
it end there or go on at the node the waker has come to.

**QueueChannel.** The flavours differ as the note at the top of `internals.rs`
says; `BoundedMpmc`, `BoundedMpsc`, `UnboundedMpmc` and `UnboundedMpsc` are
records of those differences (which queue, which wake calls after a send, a
receive, the last sender's drop, the last receiver's drop). The rest is
modelled once. The counters of handles are derived from `held`. `SegQueue`
and `thread::park` are external: the queue is a linearizable FIFO, park
returns when there is a permit or, within a bound, for no reason.

**Select.** `sel[t]` holds the local variables of `select_impl`. The fairness
counter is a nondeterministic first arm. `is_ready` is up to three loads
(`ProbeRing` or `ProbeQueue`, `ProbeSecond`, `ProbeCount`). A deadline is `none`, `ahead` or
`passed`; `try_select` is a deadline that may pass at once. The names of turns are
used again once no node of the turn is left (`FreshRound`, `Retire`).

**Endpoints.** One channel; `program` says which operations each thread may
call, which handles it starts with, and which handle a clone gives it. It is
chosen in `Init` and never changes, so one run covers several configurations.
`pc[t]` is the next step of thread t, `op[t]` its operation, `answer[t]` what
a receive is about to return; a receive with an answer goes to `return`, where
the guard on the waiter list is dropped, as in the code. `arm[t]` holds the local
variables of `select_impl` with one arm: the turn, the node of the walk, the
deadline. `Enlist`, `ParkReturns` and `Again` are register, park, and the way
back to the loop; `PushArm`, `Decide`, `WakeUp`, `AbortLoad`, `Walk` and `Judge`
are the phases of `select_impl`; the probes and the completion belong to the
channel. A select call begins a turn only when a name for it is free, and begins it
with `selected` reset (`ArmNotReady`): the supply of names is a bound of the model, not of the code.

**Oneshot.** `state` and `cell` are `sender_state` and `value`. `send` is
`Check`, `StoreValue`, `MarkSent`, and then the drop of the handle it consumed
(`Close`), which must not undo the send. A receive reads `state` (`LoadState`),
swaps the cell, and when the state was not `sent` looks at it again (`Reload`, `TestState`).
`swap` and the `take` of what it returned are one step: only one thread gets it.

**Broadcast.** A message is named by its number. A send claims it (`ClaimSeq`),
stores the value (`StoreValue`), stores the number (`StoreSeq`), and wakes. A
receive reads `write_seq`, the slot's number, the value, and the number again
(`LoadWriteSeq` to `LoadSeqAfter`); `CatchUp` is the jump of a receiver that was
overtaken. `tail[t]` is the cursor of the clone that stands in for the receiver
in a `select!`, which starts at the end and not at the receiver's place. `lapped`
is a history variable: the slots at which a number was claimed while a sender of
an earlier lap had not published. Nothing in the code stops that sender from
storing its value and number over the newer ones; the newer message is then
*buried* (`Buried`): published, its slot not reused, and not to be found.

**Watch.** A value is named by the number of the call of `send` that it is the
argument of; `sending[t]` holds it from the call on. `send` is a store
of the value and then a bump of the version (`StoreValue`, `Bump`);
`mark_changed` is the bump. `cursor` is `cursor_version`, `sight` that of
the clone in a `select!`, `baseline` the version a waiting call compares with. `shown`
(the values the cell has held), `log` (for each version, the argument of the send that made
it) and `since` (the version when a call began) are history. `borrow` loads the value
and changes nothing.

**Rendezvous.** `top` and `next` are the stack of senders' nodes; a node is named by the
thread whose frame it lives in, so a later send of that thread has its node at the
same address, which is the case the code has to be afraid of. The three walks,
`pop_sender` (`Pop...`), the removal by the sender (`Remove...`) and the last
receiver's drop (`Drop...`), are one step per link. A link read in a frame that is
gone is what it was, or null. `OnStack` is what is linked from the top, stated as the
nodes in every set closed under `next` that has the top. `astray` is a history variable: it becomes true when a walk
goes by a link from a dead frame, or when a compare-exchange succeeds with a link
that is not the present one. From there on the program's memory
is anything, so all properties but `DeliveredOrGivenBack` speak of the
behaviours in which it has not happened; the hazards list says where it does.

Memory order: a registration (mutex or read-modify-write) and the wake call that
comes after a push (mutex or swap) synchronise, so either the waker sees the
waiter or the waiter's second look sees the push; interleaving semantics
loses nothing there.

## 3. Runs

| Run | Instance | Result |
|---|---|---|
| `ring` | 2 producers, 2 consumers, 2 slots, 4 positions | all properties hold |
| `ring_cap1` | the same with 1 slot | `CapacityRespected` is violated |
| `channel_mpsc` | a sender, a clone of it, 2 blocking receivers (one also calls `try_recv`), 2 items, 1 spurious return; bounded and unbounded MPSC | all properties hold |
| `channel_mpmc` | the same on the MPMC channels, without spurious returns | `NobodySleepsBesideAnItem` is violated |
| `select` | a selector with a send arm (channel full at first) and a recv arm, a peer at the other ends; both channels bounded MPSC, or one unbounded MPSC and one unbounded MPMC | all properties hold |
| `select_shared` | two selectors on one MPMC receiver, a sender | `DisconnectWakes` is violated |
| `select_stale` | as `select` | `SoleReceiverCompletes` is violated |
| `oneshot` | a sender, a blocking receiver, and a receiver that polls (a clone) or selects; 1 spurious return | all properties hold |
| `broadcast` | 2 slots; a sender of 4 messages that laps a blocking and a late, polling receiver; two senders of 3 messages; a receiver that selects and blocks | all properties hold |
| `watch` | two senders and a waiting receiver; a sender and two receivers; a receiver that selects and waits; both sides selecting | all properties hold |
| `rendezvous` | a blocking and a polling receiver for 2 sends; two blocking receivers for one; two senders and a receiver that may leave; a select on either side | all properties hold |
| `rendezvous_race` | as `rendezvous` | `DeliveredOrGivenBack` is violated |

**ring.** `Exclusive`: the SAFETY comments, nobody else touches a claimed slot.
`CapacityRespected`, `PopsItsItem`. `ImplementsQueue`: every behaviour is one of
`RingQueue`, so answers of full and empty are right at the moment the slot's
number is loaded, items come out in order, once, and the destructor drops what
is left. `RetriesWhenOvertaken`: a round that ends at the slot's number is
repeated only if another call of the same side has claimed a position since the
cursor was loaded. `LockFree`: a call that keeps running and yet never returns is
overtaken for ever. So the others may starve it by succeeding, but no thread that stops
for good in its own call, between its claim and its store for instance, can hold it up.
`IndInv` is the invariant of the proofs. Four positions over two slots are two laps, so each slot is reused
while old snapshots of it are still around.

**ring_cap1.** With one slot the number of a published item, `pos + 1`, is
also the number of a free slot for position `pos + 1`. The second push is
accepted, overwrites the first item, and `try_pop` then spins. The comment at
`internals.rs:65` promises an error. An `Interval` keeps its ticks in such a
ring and counts on the error (`interval.rs:12`): one tick that is not read in time is
overwritten by the next, and the consumer's `try_pop` spins. Everything else is stated for capacities of
at least 2 (and for 0, where the ring does nothing).

**channel_mpsc.** `NoLostWakeup`: no thread is left in park while its channel
has an item that can be popped or has lost its senders, unless it has a permit or
somebody is on the way to unpark it. `WaitersRegistered`: the list is exactly
the threads between registration and the drop of the guard. `RecvReturns`:
`recv` ends as long as there is reason to. Two items and two receivers are the
least for which one receiver can get the wake-up of the other; the clone lets the
last drop happen in a thread that never sent.

**channel_mpmc.** `wake_one_recv_waiter` exchanges `UNSELECTED` for a plain
waiter's `case_id`, which is `UNSELECTED`: the exchange succeeds every time and
the first waiter in the list is the one woken, whether or not it needs to be.
`NobodySleepsBesideAnItem` asks no more than this: once everybody has come to rest, between
operations or in `park` without a permit, nobody is parked on a channel with an item to pop.
(`NoLostWakeup` would be too much here. A wake-up for a single waiter may well reach one
while another parks beside the item that the first is about to take.) In the trace the first receiver registers,
finds the first item on its second look, and has yet to drop its guard; the second
one registers behind it; the second send wakes the first receiver, which
returns, and the second receiver parks for good beside the second item. Two sends before a
woken receiver has run spend both wake-ups on it in the same way.

**select.** `NotStranded`: a call does not sleep while one of its arms can be
completed unless a waker has a node of its present turn before it.
`FinishedCallsAborted`: what is still on a stack belongs to a call under way or
is marked. `SelectWakes` and `DeadlineEndsSelect` are the promises about the future.
The selector is the only receiver of its recv arm and the only sender of its
send arm. In the unbounded case the send arm is always ready, so the call never
waits; waiting on an unbounded recv arm is left to a later instance (section 6).
With several (`~Alone`), `NotStranded` does not hold: `is_empty` and
`is_full` answer from two loads another receiver or sender can come between,
and see `select_shared`. The peer sends, receives and drops each side, and the
call with a deadline may come before, after or between the others.

**select_shared.** `wake_select_one` takes the whole stack, wakes the first
node it wins and frees the others, which the comment at `waiter.rs:287`
believes to have a winner. They may be other threads' calls. Such a thread has
no node any more: the last sender's drop does not wake it.

**select_stale.** The peer has pushed an item and is about to wake. The selector
receives the item, calls select again, and registers; the wake call now
chooses its arm, and completing it blocks on the empty channel, although the
thread is the only receiver. Nothing is checked again after the wake-up
(`select.rs:16` says it is), and a deadline does not help.

**oneshot.** `KeepsPromise`: every behaviour is one of `Promise`. `NoFalseDisconnect`:
a receive that begins when the value was sent does not say that the sender
is gone while the value is there. (A receive that begins before the send may: it
looks at the state, then the send and its drop happen, then it looks again.)
`NoLostWakeup` and `ReceiversReturn` are about one blocked receiver beside one
that polls or selects (`OneWaiter`: one thread at most blocks in `recv`, one at most
selects). With two blocked ones they fail: `send` wakes one, and its drop no one.
The type invariant says of the two atomics that the value is there when `state` is `sent`, and
that it is taken only then.

**broadcast.** `IsFeed`: every receiver moves through the log as `Feed` says,
message by message, with jumps only over what has left the window.
`PublishedStays`: each published message of the window is found by its number.
`DeliversItsMessage`: what a receive returns at cursor n is message n.
`LagIsExact`: the number it reports is the distance of the jump, and
the jump ends at a message that has been claimed. There are two windows in which the code
does otherwise, and the properties name them instead of leaving them out of the
model. One: value and number are two stores, so while the sender of message n +
cap stands between them a receiver at n finds n's number twice and returns the
newer value (`Overwriting`). Two: a sender is overtaken at its slot by a whole lap
(`lapped`). Then an old message may be returned as a newer one, or a newer
one is buried; a receiver that comes to it waits, even after the last sender is
gone, since Disconnected is only reported at the end of the log
(`bounded_broadcast.rs:253`). `ReceiversReturn` and `Due` leave out that receiver,
`Over` lets it rest.

**watch.** `NewsComesWithValue`: when a receiver knows of a version, the argument of the
send that made it has been in the cell, so that `borrow` returns that value or one
stored after it, however the two stores of two senders interleave. With the bump before
the store (`SendBumpsFirst`) it fails. `OkMeansChange`: `changed` answers `Ok` for a version after its call,
and the completion of an arm for one this receiver has not been told of.
`NoLostWakeup`, `WaitersReturn`.

**rendezvous.** `StackHoldsOffers`: a node on the stack is that of a send under way, with
its item in it. `ReadsOffer`: the item a receiver reads is there, and no other
receiver is reading it. `NoLostWakeup` and `BothSidesReturn`: nobody blocks
while the other side is there or gone. All under `~astray`. At most one thread of a
program selects on each side (`OneSelects`): a send or a receive wakes one select call,
and with two `NoLostWakeup` fails for the reason `select_shared` shows.

**rendezvous_race.** The sender finds `taken` false; the receiver pops the node, reads
the item, sets `taken` and is dropped; the sender finds no receivers, and itself
not on the stack, and returns the item in `Err` (`rendezvous.rs:191`): two owners of
one value. This does not need a stale link.

### Bounds

`MaxPos`, `MaxItems`, `MaxTaken`, `MaxSpurious`, `MaxTimed` (per thread, in the
modules over `Endpoints`), `Rounds`, and in a program `items` and `spurious` are
the only bounds. Each is a guard on a call (or on a spurious return), never on a
step inside a call, so a bound stops a thread only where the program may stop
too. `RoomFor` counts the sends a select call may still make. `Rounds` is a
supply of names, used again once their nodes are freed: a turn begins only when there is one
(`ArmNotReady`), and in the instances it never has to wait. Handles cannot be cloned
without end: a clone gives its handle to a new thread of a fixed set.

`MaxSpins` is a parameter of the code (`MAX_SPIN_RETRIES`, 1024) that the instance
sets to 1. The proofs are for any value, and show that the count never passes 1:
a slot whose number has moved on does not come back to it, so the fallback at
`bounded_broadcast.rs:285` is never taken.

Three threads are what the hazards of these channels need: two that interleave
their stores and one that reads, or one that writes and two that compete. Two
slots and four messages are two laps.

### Deadlock

Deadlock is checked in every run. A state with all handles dropped and all
threads idle is a terminal one (`Over`), a ring that was dropped too (`Gone`);
they stutter. Where a thread may always drop its handle, what TLC would
report is a set of threads blocked for good. In the modules over `Endpoints` only the
threads a program allows to may drop, and a state is terminal when all threads are
between two operations; also with a receiver parked at a buried message
(`Broadcast`), or a sender blocked after a walk went astray (`Rendezvous`), both
of which the code leaves blocked for good.

### Fairness

`Ring`: the specification assumes none. `LockFree` has as a hypothesis, for one thread at
a time, weak fairness of its steps inside a call (it keeps running) and strong fairness
of its compare-exchange (which does not fail spuriously for ever when it could succeed);
of the other threads nothing is assumed, nor that anybody makes a call. Under `MaxPos` the
cursors move four times at most, so what the run checks is the case that matters: the
others have stopped succeeding, wherever they stand, and the call must return. The
behaviours in which a cursor moves for ever are not among those of the run; they satisfy
`LockFree` by its statement. `QueueChannel` and `Select`: weak fairness of every
thread's steps inside its operations, the wake calls included, and of the return of
`park` with a permit. Calls, drops, clones and spurious returns are never
forced, and neither is the passing of a deadline: `DeadlineEndsSelect` is about
deadlines that have passed. `Oneshot`, `Broadcast`, `Watch` and `Rendezvous`
are the same: weak fairness of `OneshotStep(t)` and so on, the steps of an
operation under way, and none of the `...Chance(t)` actions.

## 4. Proofs

`RingProofs` proves, for any sets of producers and consumers and any `Cap`
of at least 2:

| Theorem | Statement |
|---|---|
| `RingInvariant` | `Spec => []IndInv` |
| `RingExclusive` | `Spec => []Exclusive` |
| `RingCapacity` | `Spec => []CapacityRespected` |
| `RingPopsItsItem` | `Spec => []PopsItsItem` |
| `RingImplementsQueue` | `Spec => ImplementsQueue` |
| `RingRetriesWhenOvertaken` | `Spec => RetriesWhenOvertaken` |

None of these properties is inductive. `IndInv` strengthens them with
`SequenceProtocol` (the number of each of the `Cap` positions from `head` on, and of
those a consumer is still reading, in terms of who holds them), with what each
thread's snapshot still tells it (`ProducerOK`, `ConsumerOK`: a stale one shows a
slot that has moved on, and a compare-exchange that would succeed was preceded by
a load that is still true), with `ClaimsDistinct`, and with the contents of the
published slots. The lemmas about `Slot` say that two positions less than `Cap`
apart are in different slots; they are what `Cap >= 2` and the
arithmetic of `%` come down to. `Exclusive` follows because positions held at one
time lie in a window of `Cap`; the refinement follows step by step under the
mapping at the end of `Ring`. `RetriesWhenOvertaken` follows because the number of the slot at
a cursor is never ahead of it (`SlotAtCursor`), and a snapshot never ahead of its cursor.

`OneshotProofs`, `WatchProofs` and `BroadcastProofs` prove, for any set of
threads and any programs of theirs:

| Theorem | Statement | Inductive invariant |
|---|---|---|
| `OneshotInvariant` | `Spec => []OneshotInv` | `Types`, `SingleSender`, `Sending`, `Receiving` |
| `OneshotNoFalseDisconnect` | `Spec => []NoFalseDisconnect` | |
| `OneshotKeepsPromise` | `Spec => KeepsPromise` | |
| `WatchInvariant` | `Spec => []WatchInv` | `Types`, `Behind`, `Waiting` |
| `WatchNewsComesWithValue` | `Spec => []NewsComesWithValue` | |
| `WatchOkMeansChange` | `Spec => OkMeansChange` | |
| `BroadcastInvariant` | `Spec => []BroadcastInv` | `Types`, `Subscribed`, `Claims`, `Numbers`, `Laps`, `PublishedStays`, `Values`, `Reads` |
| `BroadcastPublishedStays` | `Spec => []PublishedStays` | |
| `BroadcastIsFeed` | `Spec => IsFeed` | |
| `BroadcastDelivers` | `Spec => DeliversItsMessage` | |
| `BroadcastLagIsExact` | `Spec => LagIsExact` | |

Assumptions: `OneSender` (the oneshot sender is not `Clone`), `ProgramAssumption`
(a thread that is given a handle by a clone has none before; types, those of the
bounds included), and
`BroadcastAssumption` (`Cap` and `MaxSpins` at least 1).

- *Oneshot.* How far the one sender is determines `state` and `cell`
  (`Sending`), and a receive about to swap, or begun late, has seen `sent`
  (`Receiving`). `NoFalseDisconnect` alone does not say what a late receive has loaded.
- *Watch.* Every announced value has been in the cell, because a
  sender bumps after its own store: `Behind` says it of all versions, and of the argument of
  every send that has only its version left to bump (`ToBump`). `Waiting` ties a waiting call to
  the version its cursor was armed at, and that to the start of the call.
- *Broadcast.* `Claims` says that numbers under way have one owner, `Numbers`
  that what is in a slot was published and belongs there, `Laps` that without an
  overtaken sender the numbers of a slot come one lap after the other, `Values`
  that a slot's value is the one its number names or the one being stamped.
  `Reads` carries what a receive has seen from one load to the next: that its
  message was published, that its slot has since passed it, or that the value
  in hand is its own. Two lemmas, `LapApart` and `NextLap`, hold the arithmetic of `%`.

Most steps leave the atomics alone, so each module states once what such a step
comes to (`Quiet`, `Elsewhere`, `Calm`) and proves that it keeps the invariant; the
action-by-action part shows that a step is of that kind or treats it by itself.

`RingTypeCorrect` is the type invariant of the ring. About the waiting and waking:

| Theorem | Statement | Inductive invariant |
|---|---|---|
| `TypeCorrect` | `Spec => []TypeOK` of `QueueChannel` | `ChannelInv` |
| `ListsExact` | `Spec => []WaitersRegistered` | `ChannelInv` |
| `MpscLosesNoWakeup` | `Spec => []NoLostWakeup` of `QueueChannel`, MPSC flavours | `ChannelInv`, `Noticed` |
| `WatchLosesNoWakeup` | `Spec => []NoLostWakeup` of `Watch` | `EndInv`, `WakeInvariant` |
| `BroadcastLosesNoWakeup` | `Spec => []NoLostWakeup` of `Broadcast` | `EndInv`, `WakeInvariant` |
| `RendezvousInvariant` | `Spec => []StackInv` | `StackInv` |
| `RendezvousStackHoldsOffers` | `Spec => []StackHoldsOffers` | `StackInv` |
| `RendezvousReadsOffer` | `Spec => []ReadsOffer` | `StackInv` |
| `RendezvousReceiversHear` | the receiver's part of `NoLostWakeup`, astray or not | `HearsInv` |
| `RendezvousSendersHear` | the sender's part, under `~astray` | `StackInv`, `TellsInv` |
| `RendezvousLosesNoWakeup` | `Spec => []NoLostWakeup` of `Rendezvous`, programs of `OneSelects` | `HearsInv`, `StackInv`, `TellsInv`, `Turns` |
| `OneshotTypeCorrect` | `Spec => []TypeOK` of `Oneshot` | `OneshotInv`, `EndInv`, `Orderly` |
| `OneshotLosesNoWakeup` | `Spec => []NoLostWakeup` of `Oneshot`, programs of `OneWaiter` | `OneshotInv`, `WholeTypes`, `Words`, `Turns` |
| `WatchTypeCorrect` | `Spec => []TypeOK` of `Watch` | `WatchInv`, `WakeInvariant`, `Bounded`, `Orderly` |
| `BroadcastTypeCorrect` | `Spec => []TypeOK` of `Broadcast` | `BroadcastInv`, `WakeInvariant`, `Bounded`, `Orderly` |
| `RendezvousTypeCorrect` | `Spec => []TypeOK` of `Rendezvous` | `StackInv`, `EndTypes`, `Orderly` |
| `SelectTypeCorrect` | `SelectingSpec => []SelectingTypeOK` of `Select` | `ChannelInv`, `Selecting` |
| `NoNodeLeftBehind` | `SelectingSpec => []FinishedCallsAborted` of `Select` | `ChannelInv`, `Selecting`, `Tidy` |
| `NobodyStranded` | `SelectingSpec => []NotStranded` of `Select`, programs that are `Alone` | `ChannelInv`, `Selecting`, `Tidy`, `Owned`, `Uniform`, `Alert` |

They are for any sets of threads (finite ones, in the modules over `Endpoints`, as
`EndpointAssumption` says: the sends under way are counted) and programs, any number of channels, and any
bounds. `FlavourAssumption` says that every channel has one of the four
flavours; `MpscLosesNoWakeup` has as a hypothesis that it is one of the two MPSC
ones, which is where the theorem ends. On the MPMC ones the property is false at once, where
one wake-up does what it is meant to; that a wake-up is really lost there is what
`channel_mpmc` shows.

- *Wake calls* (`WaiterProofs`). `Woken(t, l)`: thread t of list l has a permit, or some
  thread has a call before it that has yet to copy the list, or has copied
  it with t in it. `Live` and `Roused` say the same of a select node: it is on its
  stack or in the hands of a waker that will elect it; its owner has been selected
  or will be. The lemmas say that every step of a wake call keeps these, and that
  other steps of other threads do.
- *Queue channels.* A list has no thread twice, and has exactly the receivers between
  registration and return (`Listed`); the windows of the queues (`RingInv`) bound
  `head` and `tail`. `Noticed` strengthens `NoLostWakeup` to the step before
  the park, where the sender count is read: an item that can be popped by then has been
  followed by a wake call that finds the receiver in the list.
- *Watch and Broadcast.* `EndInv` ties the local variables of `select_impl` to its
  step; above all, the node of a turn that may sleep is not marked. A send, and
  the drop of the last sender, put a `wake_all` and a `select_all` into their thread's
  calls, so everyone registered is `Woken` or `Roused` from then on; the invariant
  is that a call past its second look has been, if there is news it has not
  seen. The stacks of these channels are never taken by a `select_one`, and are
  drained only when no receiver is left (`Drained`).
- *Rendezvous.* None of the two properties is inductive. `StackInv` says that, as long
  as nothing is astray, there is a list without repetition that `top` and
  `next` spell out (`Chain`); a node on it has its item, its sender is in `send`,
  and no receiver has popped it; popped nodes are in one receiver's hands each
  (`Standing`); every offer not yet taken is on the list or in such hands
  (`Listed`); a sender's walk for its own node is at a place from which the links
  lead to that node (`Leads`, stated by closed sets, which needs no
  recursion); and a send takes its node back only when no receiver is left
  (`Handles`). That the compare-exchange of `pop_sender` cannot succeed on a
  stale link is not claimed: `astray` says when it did.

- *Select on the queue channels.* The steps of the channel keep `ChannelInv` as they do
  without select calls; those of `select_impl` do not disturb it (`SelectChannel`).
  `Selecting` types the local variables. `FinishedCallsAborted` is not inductive: a waker
  may be taking nodes off the stacks, and the call itself is walking down one. `Tidy` says
  where the nodes are: no node is in two places, on stacks or in the hands of wakers (`Separate`);
  an aborted node has not been freed (`AbortedExist`); a node on a stack is on that of its
  arm (`AtHome`) and is aborted or yet to be marked: its arm has not been visited, or
  the walk down its stack is at it or above it (`CleanUp`); and a turn that registers
  nodes has none with these names (`NewNodes`). That last part showed that the bound `Rounds`
  had left a condition implicit: a turn begins only when there is a name for it, the guard on
  `Chained` in `ArmNotReady`.
- *No call is stranded.* `NobodyStranded` is for programs that are `Alone`: no two
  select calls have an arm in common, and nobody else uses the side of a bounded channel
  that a select call has an arm on. `MCSelect` assumes `Alone` by name, so TLC checks
  that the program of the run is one of these. With more the property is false
  (`select_shared`, and the two-load answers of `is_empty` and `is_full`).
  `Coming(t, r)` says that turn r of call t is coming to its end: t has a permit, the turn has a
  winner (and a call that sleeps with a winner has its permit), or a waker has a node of the
  turn before it or in hand.
  `Alert` follows a call from its registration on: each node is on its stack or the turn is
  coming to its end; an arm looked at again in the second sweep is not ready or the turn is
  coming to its end; between the two loads of a look, what `seen` holds. This needs two more
  invariants. `Owned`: an operation has the handle it uses, a handle is one the
  program starts with or clones, and a recv stack is drained only when no receiver is left, so
  nobody else moves the cursor the call has read. `Uniform`: the unmarked
  nodes that a choosing waker has in hand are all of one turn, so that whichever it elects it ends
  that turn, and freeing the others loses nothing.

- *The sender's last word.* `OneshotLosesNoWakeup` is for programs of `OneWaiter`, which
  `MCOneshot` assumes by name. The sender speaks once, by sending or by going, and
  elects one waiter and one node. `Words` says that they are the right ones: the list holds
  the one receiver that blocks or nobody (`OneListed`; `Asking`: a receive that may register is
  one the program makes, and one that completes an arm finds that the sender has
  spoken), nobody is elected before the sender speaks (`Unspoken`), the stack is drained only
  when no receiver is left (`Dry`), and the registered receiver has been `Woken` once
  it is too late to look again (`Parked`). `Turns` says it of the nodes: apart from those of the
  selecting call's present turn all are marked (`Clean`), so that the one `select_one`
  frees none for another call's sake, and a call past its look has its node on the
  stack before the sender spoke, or its turn is coming to its end (`Alert`).

- *Both sides of a rendezvous.* `RendezvousLosesNoWakeup` joins three arguments. A
  receiver: when it looks at the senders it is in the list (`Registered`), and it parks only
  if it is `Woken` or there is no sender, neither on the stack nor by its handle (`Hears`). This
  needs no assumption on the program nor on `astray`. A blocked sender: if its item has been
  taken, the receiver that took it is at `pop_unpark` (`Told`); if the receivers are gone, the
  walk of the last drop has still to come by its node, which `Leads` says is below
  the place the walk has reached (`Fetched`). This rests on `StackInv`, and so on
  `~astray`. A select call: `Turns` follows one call per side, which is the
  hypothesis `OneSelects` that `MCRendezvous` assumes by name. Turn names are new (`NewNodes`),
  the unmarked nodes of a stack are those of that call's present turn (`Clean`), a
  choosing waker has nodes of one turn in hand (`Uniform`), a receive stack is drained only when
  nobody receives (`Dry`); so a call past its registration has its node on the stack or its
  turn is coming to its end, and once a counterpart or the end of the other side is
  there, it is coming to its end or the last drop is under way (`Alert`). Every step is a step of a
  wake call, a step of `select_impl` (`Selecting`), or one made elsewhere (`Elsewhere`),
  whose `Tidings` say what all the others rely on: whoever makes an arm ready puts a call to
  the side that waits for it into its own hands (`StepKinds`).

- *Types.* `Orderly` is what the channels over `Endpoints` share: a thread between
  operations is about to answer nothing. The bounds need more than types: that no version,
  value or number is beyond the items of the program takes the count of the sends under way
  (`Bounded`); that a value is there when a oneshot's state says so, and a node in hand when a
  rendezvous walk dereferences one, their invariants (`Receiving`, `HandlesOf`); that no cursor is ahead of its channel, the invariants above; that a
  receive of `Broadcast` spins at most once, what it has read (`Reads`).

Every invariant of a passing run is the property of a theorem. Some of these have a
hypothesis: those of the ring a capacity of at least 2, `MpscLosesNoWakeup` the MPSC
flavours, `NobodyStranded`, `OneshotLosesNoWakeup` and `RendezvousLosesNoWakeup` the
programs of `Alone`, `OneWaiter` and `OneSelects`. Each is satisfied by the run that
checks the property, and without it the property is false, `TypeOK` of the ring excepted.

Only model-checked: the liveness properties, which are outside this prover's reach, as
is `ENABLED`; and what the runs that expect a violation show.

## 5. Not modelled

`interval` is a timer thread; its logic is clock time and a channel of
capacity 1 (see `ring_cap1` for what follows from that). `error.rs`, the traits and re-exports of `lib.rs`, the logging macros
and `examples/` have no state. The width of `usize` is not modelled: positions are
numbers, and `wrapping_sub` below zero is "at least the capacity". The values that
operations of the queue channels return are not part of their state, so no property
speaks of an `Err` as such there; the hazards list says which ones would be worth
it. The four channels over `Endpoints` are selected on with one arm only, and a
thread is given at most one handle by a clone.

## 6. Plan

Done: the ring, its abstract queue and proofs; waiters, queue channels, select;
oneshot, broadcast, watch and rendezvous, and the proofs about these: all the invariants
the passing runs check.

1. One more instance of `Select`: two recv arms, one of them on an unbounded
   channel; one with two consumers of a channel, for the two-load answers of `is_empty`
   and `is_full`.
2. The results of the queue channels' operations as part of the state, for the
   hazards at `bounded_mpmc.rs:205` and `:272`.
