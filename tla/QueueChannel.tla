---------------------------- MODULE QueueChannel ----------------------------
(***************************************************************************)
(* The four queue channels: bounded_mpmc, bounded_mpsc, unbounded_mpmc and *)
(* unbounded_mpsc.  They share the code of their Chan, Sender and Receiver *)
(* but for the differences listed in the note at the top of internals.rs,  *)
(* which are the fields of a flavour below.                                *)
(*                                                                         *)
(* The backing queue is a record of RingOps.  The bounded ring is claimed  *)
(* and completed in two steps, as module Ring implements it (for a         *)
(* capacity of 0 or at least 2); crossbeam's SegQueue pushes and pops in   *)
(* one.  Handles are what the two counters count: a thread holds them, a   *)
(* clone gives one to a new thread, a drop is one fetch_sub.               *)
(***************************************************************************)
EXTENDS Waiter, RingOps, FiniteSets

CONSTANTS
  Chans,       \* the channels
  NoChan,      \* none of them
  Flavourings, \* the ways of giving each channel a flavour, chosen at the start
  Cap,         \* the capacity of the bounded channels
  Uses,        \* per thread: which of "send", "recv" and "try_recv" it calls
  Handles,     \* per thread: the handles <<c, "send">> or <<c, "recv">> it starts with
  Offspring,   \* per thread: the handle it is given by a clone, or NoHandle
  Stock,       \* per channel: how many items have been sent to it at the start
  MaxItems,    \* bound, per channel: items that may be sent to it in all
  MaxTaken,    \* bound, per channel: try_recv is called until as many are taken
  MaxSpurious  \* bound: how many spurious returns of thread::park there are

NoHandle == <<>>

ASSUME ChannelAssumption ==
  /\ Cap \in Nat \ {1} /\ MaxSpurious \in Nat
  /\ Stock \in [Chans -> Nat] /\ MaxItems \in [Chans -> Nat] /\ MaxTaken \in [Chans -> Nat]
  /\ \A c \in Chans : Stock[c] <= MaxItems[c]
  /\ IsFiniteSet(Threads)
  /\ Uses \in [Threads -> SUBSET {"send", "recv", "try_recv"}]
  /\ Handles \in [Threads -> SUBSET (Chans \X {"send", "recv"})]
  /\ Offspring \in [Threads -> (Chans \X {"send", "recv"}) \cup {NoHandle}]
  /\ \A t \in Threads : Offspring[t] # NoHandle => Handles[t] = {}
  /\ NoChan \notin Chans
  /\ Lists = Chans
  /\ Stacks = Chans \X {"recv", "send"}

VARIABLES
  flavour,    \* per channel: which of the four it is; never changes
  q,          \* per channel: its queue
  held,       \* per thread: the handles it owns
  pc,         \* per thread: the next step of its operation, or "idle"
  on,         \* per thread: the channel its operation works on, or NoChan
  pos,        \* per thread: the position it has claimed in a ring
  spurious    \* how often park has returned without a permit

chanVars == <<flavour, q, held, pc, on, pos, spurious>>

-----------------------------------------------------------------------------
(* The flavours.  "sent" is what a send does after the push, "popped" what  *)
(* a receive does after a successful pop, "orphaned" what the last sender   *)
(* does on its way out and "closed" what the last receiver does.            *)
BoundedMpmc == [bounded  |-> TRUE,
                sent     |-> <<"wake_one", "select_one">>,
                popped   |-> <<"free_one">>,
                orphaned |-> <<"wake_all", "select_all">>,
                closed   |-> <<"drain", "free_all">>]

\* Faulty: the last sender's drop forgets the plain receivers, or a receive
\* forgets the send arms that wait for room.
BoundedMpscQuietDrop == [BoundedMpmc EXCEPT !.sent = <<"wake_all_unselected", "select_one">>,
                                            !.orphaned = <<"select_all">>]
BoundedMpscQuietPop  == [BoundedMpmc EXCEPT !.sent = <<"wake_all_unselected", "select_one">>,
                                            !.popped = <<>>]

BoundedMpsc == [bounded  |-> TRUE,
                sent     |-> <<"wake_all_unselected", "select_one">>,
                popped   |-> <<"free_one">>,
                orphaned |-> <<"wake_all", "select_all">>,
                closed   |-> <<"drain", "free_all">>]

UnboundedMpmc == [bounded  |-> FALSE,
                  sent     |-> <<"wake_one", "select_one">>,
                  popped   |-> <<>>,
                  orphaned |-> <<"wake_all", "select_all">>,
                  closed   |-> <<"drain">>]

UnboundedMpsc == [bounded  |-> FALSE,
                  sent     |-> <<"wake_all_unselected", "select_one">>,
                  popped   |-> <<>>,
                  orphaned |-> <<"wake_all", "select_all">>,
                  closed   |-> <<"drain">>]

Flavours == {BoundedMpmc, BoundedMpsc, UnboundedMpmc, UnboundedMpsc}
ASSUME FlavourAssumption == \A f \in Flavourings : f \in [Chans -> Flavours]

(* The wake call a word stands for on channel c: "free" is for the stack    *)
(* of the select calls that wait to send, the others for those that wait    *)
(* to receive.                                                              *)
CallFor(word, c) ==
  CASE word = "wake_one"   -> WakeOne(c)
    [] word = "wake_all"   -> WakeAll(c)
    [] word = "wake_all_unselected" -> WakeAllUnselected(c)
    [] word = "select_one" -> SelectOne(<<c, "recv">>)
    [] word = "select_all" -> SelectAll(<<c, "recv">>)
    [] word = "drain"      -> Drain(<<c, "recv">>)
    [] word = "free_one"   -> SelectOne(<<c, "send">>)
    [] word = "free_all"   -> SelectAll(<<c, "send">>)

Then(t, words, c) == calls' = [calls EXCEPT ![t] = [i \in DOMAIN words |-> CallFor(words[i], c)]]
NothingToWake == UNCHANGED calls

-----------------------------------------------------------------------------
Blocking == {t \in Threads : "recv" \in Uses[t]}

Senders(c)   == {t \in Threads : <<c, "send">> \in held[t]}
Receivers(c) == {t \in Threads : <<c, "recv">> \in held[t]}

ChannelInit ==
  /\ flavour \in Flavourings
  /\ q = [c \in Chans |-> RingOf(Stock[c])]
  /\ held = Handles
  /\ pc = [t \in Threads |-> IF Offspring[t] = NoHandle THEN "idle" ELSE "unborn"]
  /\ on = [t \in Threads |-> NoChan]
  /\ pos = [t \in Threads |-> 0]
  /\ spurious = 0

(* t takes the step from pc "at": it is not inside a wake call.             *)
At(t, at) == pc[t] = at /\ Free(t)
Goto(t, to) == pc' = [pc EXCEPT ![t] = to] /\ UNCHANGED on
Finish(t) == pc' = [pc EXCEPT ![t] = "idle"] /\ on' = [on EXCEPT ![t] = NoChan]

(* t calls an operation on channel c for which it needs a handle of a side. *)
Start(t, c, operation, side, step) ==
  /\ operation \in Uses[t]
  /\ At(t, "idle")
  /\ <<c, side>> \in held[t]
  /\ pc' = [pc EXCEPT ![t] = step]
  /\ on' = [on EXCEPT ![t] = c]
  /\ UNCHANGED <<flavour, q, held, pos, spurious>>
  /\ UNCHANGED waiterVars

-----------------------------------------------------------------------------
(* Sender::send.                                                            *)
SendsUnderWay(c) == {t \in Threads : pc[t] \in {"check", "push"} /\ on[t] = c}

SendCall(t, c) ==
  /\ q[c].tail + Cardinality(SendsUnderWay(c)) < MaxItems[c]
  /\ Start(t, c, "send", "send", "check")

CheckReceivers(t) ==
  /\ At(t, "check")
  /\ IF Receivers(on[t]) = {} THEN Finish(t) ELSE Goto(t, "push")
  /\ UNCHANGED <<flavour, q, held, pos, spurious>>
  /\ UNCHANGED waiterVars

(* try_push up to its compare_exchange, or SegQueue::push.                  *)
PushItem(t) ==
  /\ At(t, "push")
  /\ LET c == on[t] IN
     \/ /\ flavour[c].bounded
        /\ SlotFree(q[c], Cap)
        /\ q' = [q EXCEPT ![c] = Claim(@)]
        /\ pos' = [pos EXCEPT ![t] = q[c].tail]
        /\ Goto(t, "publish")
        /\ NothingToWake
     \/ /\ flavour[c].bounded
        /\ ~SlotFree(q[c], Cap)
        /\ Finish(t)
        /\ NothingToWake
        /\ UNCHANGED <<q, pos>>
     \/ /\ ~flavour[c].bounded
        /\ q' = [q EXCEPT ![c] = Push(@)]
        /\ Finish(t)
        /\ Then(t, flavour[c].sent, c)
        /\ UNCHANGED pos
  /\ UNCHANGED <<flavour, held, spurious>>
  /\ UNCHANGED <<permit, waiting, stack, aborted, selected>>

(* The store of the sequence number at the end of try_push; then send wakes. *)
PublishItem(t) ==
  /\ At(t, "publish")
  /\ q' = [q EXCEPT ![on[t]] = Publish(@, pos[t])]
  /\ pos' = [pos EXCEPT ![t] = 0]
  /\ Finish(t)
  /\ Then(t, flavour[on[t]].sent, on[t])
  /\ UNCHANGED <<flavour, held, spurious>>
  /\ UNCHANGED <<permit, waiting, stack, aborted, selected>>

-----------------------------------------------------------------------------
(* Receiver::recv and try_recv.  A pc ending in "2" is a step of recv taken *)
(* with its waiter registered.                                              *)
RecvCall(t, c) == Start(t, c, "recv", "recv", "pop")
TryRecvCall(t, c) ==
  /\ q[c].head < MaxTaken[c]
  /\ Start(t, c, "try_recv", "recv", "trypop")

AfterPop(t) == IF pc[t] \in {"pop2", "release2"} THEN Goto(t, "leave_ok") ELSE Finish(t)

(* try_pop, up to its compare_exchange in the ring.                         *)
PopItem(t) ==
  /\ pc[t] \in {"pop", "pop2", "trypop"} /\ Free(t)
  /\ LET c == on[t] IN
     /\ CanTake(q[c])
     /\ \/ /\ flavour[c].bounded
           /\ q' = [q EXCEPT ![c] = Take(@)]
           /\ pos' = [pos EXCEPT ![t] = q[c].head]
           /\ Goto(t, IF pc[t] = "pop2" THEN "release2" ELSE "release")
        \/ /\ ~flavour[c].bounded
           /\ q' = [q EXCEPT ![c] = Pop(@)]
           /\ AfterPop(t)
           /\ UNCHANGED pos
  /\ UNCHANGED <<flavour, held, spurious>>
  /\ UNCHANGED waiterVars

(* The store at the end of try_pop; then a waiting send arm is woken.       *)
ReleaseSlot(t) ==
  /\ pc[t] \in {"release", "release2"} /\ Free(t)
  /\ q' = [q EXCEPT ![on[t]] = Release(@, pos[t])]
  /\ pos' = [pos EXCEPT ![t] = 0]
  /\ AfterPop(t)
  /\ Then(t, flavour[on[t]].popped, on[t])
  /\ UNCHANGED <<flavour, held, spurious>>
  /\ UNCHANGED <<permit, waiting, stack, aborted, selected>>

PopNone(t) ==
  /\ pc[t] \in {"pop", "pop2", "trypop"} /\ Free(t)
  /\ ~CanTake(q[on[t]])
  /\ Goto(t, CASE pc[t] = "pop" -> "count" [] pc[t] = "pop2" -> "count2" [] pc[t] = "trypop" -> "trycount")
  /\ UNCHANGED <<flavour, q, held, pos, spurious>>
  /\ UNCHANGED waiterVars

CountSenders(t) ==
  /\ Free(t)
  /\ LET gone == Senders(on[t]) = {} IN
     \/ pc[t] = "count" /\ IF gone THEN Finish(t) ELSE Goto(t, "enlist")
     \/ pc[t] = "count2" /\ Goto(t, IF gone THEN "leave_gone" ELSE "park")
     \/ pc[t] = "trycount" /\ Finish(t)
  /\ UNCHANGED <<flavour, q, held, pos, spurious>>
  /\ UNCHANGED waiterVars

\* Faulty: no second look at the queue between registering and parking.
EnlistAndPark(t) ==
  /\ At(t, "enlist")
  /\ Register(t, on[t])
  /\ Goto(t, "park")
  /\ UNCHANGED <<flavour, q, held, pos, spurious>>
  /\ UNCHANGED <<permit, stack, aborted, selected, calls>>

(* register_plain_recv_waiter.                                              *)
Enlist(t) ==
  /\ At(t, "enlist")
  /\ Register(t, on[t])
  /\ Goto(t, "pop2")
  /\ UNCHANGED <<flavour, q, held, pos, spurious>>
  /\ UNCHANGED <<permit, stack, aborted, selected, calls>>

(* thread::park returns when there is a permit, which it takes.             *)
ParkReturns(t) ==
  /\ At(t, "park")
  /\ permit[t]
  /\ permit' = [permit EXCEPT ![t] = FALSE]
  /\ Goto(t, "leave_again")
  /\ UNCHANGED <<flavour, q, held, pos, spurious>>
  /\ UNCHANGED <<waiting, stack, aborted, selected, calls>>

(* It may also return for no reason, as if there were one.                  *)
Spurious(t) ==
  /\ pc[t] \in {"park", "sleep"}
  /\ ~permit[t]
  /\ spurious < MaxSpurious
  /\ spurious' = spurious + 1
  /\ permit' = [permit EXCEPT ![t] = TRUE]
  /\ UNCHANGED <<flavour, q, held, pc, on, pos>>
  /\ UNCHANGED <<waiting, stack, aborted, selected, calls>>

\* Faulty: a receive that returns with an item keeps its registration.
LeaveRegistered(t) ==
  /\ pc[t] \in {"leave_again", "leave_ok", "leave_gone"} /\ Free(t)
  /\ IF pc[t] = "leave_again" THEN Goto(t, "pop") ELSE Finish(t)
  /\ IF pc[t] = "leave_ok" THEN UNCHANGED waiting ELSE Unregister(t, on[t])
  /\ UNCHANGED <<flavour, q, held, pos, spurious>>
  /\ UNCHANGED <<permit, stack, aborted, selected, calls>>

(* The guard goes out of scope, on the way out or before the next turn.     *)
Leave(t) ==
  /\ pc[t] \in {"leave_again", "leave_ok", "leave_gone"} /\ Free(t)
  /\ IF pc[t] = "leave_again" THEN Goto(t, "pop") ELSE Finish(t)
  /\ Unregister(t, on[t])
  /\ UNCHANGED <<flavour, q, held, pos, spurious>>
  /\ UNCHANGED <<permit, stack, aborted, selected, calls>>

-----------------------------------------------------------------------------
(* Sender and Receiver: Clone and Drop.                                     *)
CloneHandle(t, u) ==
  /\ At(t, "idle")
  /\ pc[u] = "unborn"
  /\ Offspring[u] \in held[t]
  /\ held' = [held EXCEPT ![u] = {Offspring[u]}]
  /\ Goto(u, "idle")
  /\ UNCHANGED <<flavour, q, on, pos, spurious>>
  /\ UNCHANGED waiterVars

DropSender(t, c) ==
  /\ At(t, "idle")
  /\ <<c, "send">> \in held[t]
  /\ held' = [held EXCEPT ![t] = @ \ {<<c, "send">>}]
  /\ IF Senders(c) = {t} THEN Then(t, flavour[c].orphaned, c) ELSE NothingToWake
  /\ UNCHANGED <<flavour, q, pc, on, pos, spurious>>
  /\ UNCHANGED <<permit, waiting, stack, aborted, selected>>

DropReceiver(t, c) ==
  /\ At(t, "idle")
  /\ <<c, "recv">> \in held[t]
  /\ held' = [held EXCEPT ![t] = @ \ {<<c, "recv">>}]
  /\ IF Receivers(c) = {t} THEN Then(t, flavour[c].closed, c) ELSE NothingToWake
  /\ UNCHANGED <<flavour, q, pc, on, pos, spurious>>
  /\ UNCHANGED <<permit, waiting, stack, aborted, selected>>

-----------------------------------------------------------------------------
(* A step of thread t inside an operation it has called.                    *)
SendStep(t) == CheckReceivers(t) \/ PushItem(t) \/ PublishItem(t)
RecvStep(t) == \/ PopItem(t) \/ ReleaseSlot(t) \/ PopNone(t) \/ CountSenders(t)
               \/ Enlist(t) \/ ParkReturns(t) \/ Leave(t)
ChannelStep(t) == \/ SendStep(t) \/ RecvStep(t)
                  \/ WakeStep(t) /\ UNCHANGED chanVars

(* What a thread or its environment may do but need not.                    *)
Voluntary(t) ==
  \/ \E c \in Chans : \/ RecvCall(t, c) \/ TryRecvCall(t, c)
                      \/ DropSender(t, c) \/ DropReceiver(t, c)
  \/ \E u \in Threads : CloneHandle(t, u)
  \/ Spurious(t)

vars == <<waiterVars, chanVars>>

Init == WaiterInit /\ ChannelInit

(* Every handle is dropped: the program is over.  Any other state in which  *)
(* no thread can move is a deadlock.                                        *)
Idle(t) == pc[t] = "unborn" \/ At(t, "idle")
Over == (\A t \in Threads : Idle(t) /\ held[t] = {}) /\ UNCHANGED vars

Next == (\E t \in Threads : ChannelStep(t) \/ Voluntary(t) \/ \E c \in Chans : SendCall(t, c))
        \/ Over
Spec == Init /\ [][Next]_vars

(* A thread inside an operation keeps running until it parks, and a parked  *)
(* one returns once it has a permit.                                        *)
FairSpec == Spec /\ \A t \in Threads : WF_vars(ChannelStep(t))

-----------------------------------------------------------------------------
RecvSteps == {"pop", "release", "count", "enlist", "pop2", "release2", "count2", "park",
              "leave_again", "leave_ok", "leave_gone", "trypop", "trycount"}
SendSteps == {"check", "push", "publish"}

ChannelTypeOK ==
  /\ flavour \in Flavourings
  /\ \A c \in Chans : /\ q[c].tail \in 0 .. MaxItems[c]
                      /\ q[c].head \in 0 .. q[c].tail
                      /\ q[c].ready \subseteq q[c].head .. (q[c].tail - 1)
                      /\ q[c].reading \subseteq 0 .. (q[c].head - 1)
  /\ held \in [Threads -> SUBSET (Chans \X {"send", "recv"})]
  /\ on \in [Threads -> Chans \cup {NoChan}]
  /\ \A t \in Threads : pc[t] \in RecvSteps \cup SendSteps => on[t] # NoChan
  /\ spurious \in 0 .. MaxSpurious
  /\ permit \in [Threads -> BOOLEAN]
  /\ \A c \in Chans : ToSet(waiting[c]) \subseteq Threads

TypeOK == ChannelTypeOK /\ pc \in [Threads -> {"unborn", "idle"} \cup RecvSteps \cup SendSteps]

(* A receiver of channel c has reason to return: an item can be popped or   *)
(* every sender is gone.                                                    *)
Due(c) == CanTake(q[c]) \/ Senders(c) = {}

(* Thread u is about to unpark thread t, a registered waiter of c.          *)
WillWake(u, t, c) ==
  \E i \in DOMAIN calls[u] :
    LET call == calls[u][i] IN
    \/ call.op = "unpark" /\ t \in ToSet(call.todo)
    \/ call.op \in {"wake_all", "wake_all_unselected"} /\ call.on = c
    \/ call.op = "wake_one" /\ call.on = c /\ OneOf(waiting[c]) = <<t>>

(* "Re-check after registration to close the lost-wakeup window": a thread  *)
(* is not left in park on a channel that has an item for it or no sender.   *)
(* Either it holds a permit or somebody is on the way to unpark it.         *)
NoLostWakeup ==
  \A t \in Threads :
    pc[t] = "park" /\ Due(on[t]) => permit[t] \/ \E u \in Threads : WillWake(u, t, on[t])

(* "recv blocks until a message is available or all senders are dropped",   *)
(* at its weakest: once everybody has come to rest, between operations or   *)
(* in park without a permit, nobody is parked beside an item it could have. *)
(* While a thread is still on its way it may yet take the item itself.      *)
AtRest(t) == Idle(t) \/ (At(t, "park") /\ ~permit[t])
NobodySleepsBesideAnItem ==
  (\A t \in Threads : AtRest(t)) =>
    \A t \in Threads : pc[t] = "park" => ~CanTake(q[on[t]])

(* The waiter list holds exactly the threads between their registration and *)
(* the drop of their guard, once each: nobody is woken on behalf of a recv  *)
(* that has returned and none is forgotten.                                 *)
WaitersRegistered ==
  \A c \in Chans :
    /\ ToSet(waiting[c]) = {t \in Threads : on[t] = c /\
         pc[t] \in {"pop2", "release2", "count2", "park", "leave_again", "leave_ok", "leave_gone"}}
    /\ Len(waiting[c]) = Cardinality(ToSet(waiting[c]))

(* recv "blocks until a message is available or all senders are dropped":   *)
(* as long as one or the other holds it comes to an end, with an item or    *)
(* with Disconnected; it starts over only when somebody took the item.      *)
RecvReturns ==
  \A t \in Blocking : pc[t] \in RecvSteps /\ Due(on[t]) ~> pc[t] \notin RecvSteps \/ ~Due(on[t])
=============================================================================
