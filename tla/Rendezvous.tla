----------------------------- MODULE Rendezvous -----------------------------
(***************************************************************************)
(* rendezvous.rs: a send offers its item in a node that lives in its own   *)
(* stack frame, linked into a lock-free stack, and parks until a receiver  *)
(* has popped the node and taken the item, or the last receiver is gone.   *)
(*                                                                         *)
(* The node of a thread's send is named by the thread: a later send may    *)
(* have its frame, and so its node, at the same address.  Pushing is one   *)
(* step (a compare_exchange loop on a node nobody else sees yet); so are   *)
(* the read of an item and the store to "taken" (the sender does not look  *)
(* at the item unless the receivers are gone, and the reader is one).      *)
(***************************************************************************)
EXTENDS Endpoints

VARIABLES
  top,        \* sender_waiters: the node on top of the stack, or Null
  next,       \* per node: the node under it, or Null
  taken,      \* per node: whether its item has been read
  looked,     \* per thread: the two nodes its walk over the stack has in hand
  sends,      \* how many sends have been called
  astray      \* history: a thread has relied on a link that is no more

stackVars == <<top, next, taken, looked>>
rendezvousVars == <<stackVars, sends, astray>>

Null == "null"
ASSUME RendezvousAssumption == Null \notin Threads

Nodes == Threads \cup {Null}
NoLook == [node |-> Null, below |-> Null]

RendezvousInit ==
  /\ top = Null
  /\ next = [t \in Threads |-> Null]
  /\ taken = [t \in Threads |-> FALSE]
  /\ looked = [t \in Threads |-> NoLook]
  /\ sends = 0 /\ astray = FALSE

(* The frame of n's send, with its node, exists.                            *)
FrameSteps == {"offered", "count", "blocked", "remove", "remove_next", "remove_head",
               "remove_walk", "remove_below", "remove_link", "recover"}
Offers(n) == n \in Threads /\ pc[n] \in FrameSteps

(* What is linked from the top: the nodes no set of nodes that has the top, *)
(* and with a node the one under it, can do without.                        *)
Linked(nodes) ==
  /\ top # Null => top \in nodes
  /\ \A n \in nodes : next[n] # Null => next[n] \in nodes

OnStack == {n \in Threads : \A nodes \in SUBSET Threads : Linked(nodes) => n \in nodes}

(* A link read in a frame that is gone is what it was, or nothing.          *)
Links(n) == IF Offers(n) THEN {next[n]} ELSE {next[n], Null}

Look(t, node, below) == looked' = [looked EXCEPT ![t] = [node |-> node, below |-> below]]
Stray(wrong) == astray' = (astray \/ wrong)

-----------------------------------------------------------------------------
(* Sender::send.                                                            *)
SendCall(t) ==
  /\ sends < program.items
  /\ sends' = sends + 1
  /\ Call(t, "send", "send", "check") \/ SelectCall(t, "select_send", "send")
  /\ UNCHANGED <<stackVars, astray>>

Check(t) == CheckReceivers(t, "push") /\ UNCHANGED rendezvousVars

Push(t) ==
  /\ At(t, "push")
  /\ next' = [next EXCEPT ![t] = top]
  /\ taken' = [taken EXCEPT ![t] = FALSE]
  /\ top' = t
  /\ Step(t, "offered")
  /\ Then(t, <<WakeAll("recv"), SelectOne("recv")>>)
  /\ UNCHANGED <<quietVars, looked, sends, astray>>

LoadTaken(t) ==
  /\ At(t, "offered")
  /\ IF taken[t] THEN Finish(t) ELSE Step(t, "count")
  /\ UNCHANGED <<localVars, rendezvousVars>>

CountReceivers(t) ==
  /\ At(t, "count")
  /\ Step(t, IF Receivers = {} THEN "remove" ELSE "blocked")
  /\ UNCHANGED <<localVars, rendezvousVars>>

(* remove_sender_waiter: from the top ...                                   *)
RemoveLoad(t) ==
  /\ At(t, "remove")
  /\ Step(t, CASE top = Null -> "recover" [] top = t -> "remove_next" [] OTHER -> "remove_walk")
  /\ Look(t, top, Null)
  /\ UNCHANGED <<localVars, top, next, taken, sends, astray>>

RemoveNext(t) ==
  /\ At(t, "remove_next")
  /\ Look(t, t, next[t])
  /\ Step(t, "remove_head")
  /\ UNCHANGED <<localVars, top, next, taken, sends, astray>>

RemoveHead(t) ==
  /\ At(t, "remove_head")
  /\ IF top = t
     THEN top' = looked[t].below /\ Step(t, "recover") /\ Stray(looked[t].below # next[t])
     ELSE Step(t, "remove") /\ UNCHANGED <<top, astray>>
  /\ UNCHANGED <<localVars, next, taken, looked, sends>>

(* ... or from between two others.                                          *)
\* Faulty: a node that is not on top is left where it is.
RemoveNotAtAll(t) ==
  /\ At(t, "remove_walk")
  /\ Step(t, "recover")
  /\ UNCHANGED <<localVars, rendezvousVars>>

RemoveWalk(t) ==
  /\ At(t, "remove_walk")
  /\ LET above == looked[t].node IN
     /\ \E n \in Links(above) :
          /\ Step(t, CASE n = t -> "remove_below" [] n = Null -> "recover" [] OTHER -> "remove_walk")
          /\ Look(t, IF n = t THEN above ELSE n, Null)
     /\ Stray(~Offers(above))
  /\ UNCHANGED <<localVars, top, next, taken, sends>>

RemoveBelow(t) ==
  /\ At(t, "remove_below")
  /\ Look(t, looked[t].node, next[t])
  /\ Step(t, "remove_link")
  /\ UNCHANGED <<localVars, top, next, taken, sends, astray>>

RemoveLink(t) ==
  /\ At(t, "remove_link")
  /\ LET above == looked[t].node IN
     \/ /\ next[above] = t
        /\ next' = [next EXCEPT ![above] = looked[t].below]
        /\ Step(t, "recover")
        /\ Stray(above \notin OnStack \/ looked[t].below # next[t])
     \/ /\ next[above] # t \/ ~Offers(above)
        /\ Step(t, "remove")
        /\ Stray(~Offers(above))
        /\ UNCHANGED next
  /\ UNCHANGED <<localVars, top, taken, looked, sends>>

(* send takes its item back and returns it in Err.                          *)
Recover(t) ==
  /\ At(t, "recover")
  /\ Finish(t)
  /\ Look(t, Null, Null)
  /\ UNCHANGED <<localVars, top, next, taken, sends, astray>>

-----------------------------------------------------------------------------
(* Receiver::try_recv and recv, by pop_sender.                              *)
RecvCall(t) ==
  /\ \E operation \in {"recv", "try_recv"} : Call(t, operation, "recv", "pop")
  /\ UNCHANGED rendezvousVars

\* Faulty: an empty stack is not told from one with a node.
PopLoadUnchecked(t) ==
  /\ At(t, "pop")
  /\ Step(t, "pop_next")
  /\ Look(t, top, Null)
  /\ UNCHANGED <<localVars, top, next, taken, sends, astray>>

PopLoad(t) ==
  /\ At(t, "pop")
  /\ Step(t, IF top = Null THEN "count_senders" ELSE "pop_next")
  /\ Look(t, top, Null)
  /\ UNCHANGED <<localVars, top, next, taken, sends, astray>>

PopNext(t) ==
  /\ At(t, "pop_next")
  /\ \E n \in Links(looked[t].node) : Look(t, looked[t].node, n)
  /\ Step(t, "pop_cas")
  /\ UNCHANGED <<localVars, top, next, taken, sends, astray>>

\* Faulty: a store where the compare_exchange is needed.
PopStore(t) ==
  /\ At(t, "pop_cas")
  /\ top' = looked[t].below
  /\ Step(t, "pop_take")
  /\ UNCHANGED <<localVars, next, taken, looked, sends, astray>>

(* The exchange succeeds although the node was popped and is back on the    *)
(* stack over another one, if it is.                                        *)
PopCas(t) ==
  /\ At(t, "pop_cas")
  /\ IF top = looked[t].node
     THEN top' = looked[t].below /\ Step(t, "pop_take") /\ Stray(looked[t].below # next[top])
     ELSE Step(t, "pop") /\ UNCHANGED <<top, astray>>
  /\ UNCHANGED <<localVars, next, taken, looked, sends>>

PopTake(t) ==
  /\ At(t, "pop_take")
  /\ taken' = [taken EXCEPT ![looked[t].node] = TRUE]
  /\ Step(t, "pop_unpark")
  /\ UNCHANGED <<localVars, top, next, looked, sends, astray>>

(* The thread handle is read in the frame too: what is unparked when it is  *)
(* gone is its thread, or nothing.                                          *)
UnparkSender(n) ==
  \/ permit' = [permit EXCEPT ![n] = TRUE]
  \/ ~Offers(n) /\ UNCHANGED permit

PopUnpark(t) ==
  /\ At(t, "pop_unpark")
  /\ UnparkSender(looked[t].node)
  /\ Look(t, Null, Null)
  /\ Answer(t, "ok")
  /\ UNCHANGED <<program, held, arm, spurious, waiting, stack, aborted, selected, calls>>
  /\ UNCHANGED <<top, next, taken, sends, astray>>

\* Faulty: without a sender recv tries again.
CountSendersAgain(t) ==
  /\ At(t, "count_senders")
  /\ IF Senders = {} THEN Step(t, "pop") ELSE Nothing(t, "enlist", "park")
  /\ UNCHANGED <<localVars, rendezvousVars>>

CountSenders(t) ==
  /\ At(t, "count_senders")
  /\ IF Senders = {} THEN Answer(t, "disconnected") ELSE Nothing(t, "enlist", "park")
  /\ UNCHANGED <<localVars, rendezvousVars>>

EnlistAndInvite(t) ==
  /\ At(t, "enlist")
  /\ Register(t, "recv")
  /\ Step(t, "pop")
  /\ Then(t, <<SelectOne("send")>>)
  /\ UNCHANGED <<program, held, arm, spurious, permit, stack, aborted, selected, rendezvousVars>>

-----------------------------------------------------------------------------
(* The last receiver's drop walks the stack.                                *)
DropOne(t) == Receivers # {t} /\ DropReceiver(t) /\ UNCHANGED rendezvousVars

DropLast(t) ==
  /\ MayDrop(t, "recv") /\ Receivers = {t}
  /\ held' = [held EXCEPT ![t] = @ \ {"recv"}]
  /\ Step(t, "drop")
  /\ UNCHANGED <<program, arm, spurious, waiterVars, rendezvousVars>>

WalkEnds(t) == Finish(t) /\ Then(t, <<Drain("recv"), SelectAll("send")>>)

DropLoad(t) ==
  /\ At(t, "drop")
  /\ IF top = Null THEN WalkEnds(t) ELSE Step(t, "drop_next") /\ UNCHANGED calls
  /\ Look(t, top, Null)
  /\ UNCHANGED <<quietVars, top, next, taken, sends, astray>>

DropNext(t) ==
  /\ At(t, "drop_next")
  /\ \E n \in Links(looked[t].node) : Look(t, looked[t].node, n)
  /\ Stray(~Offers(looked[t].node))
  /\ Step(t, "drop_unpark")
  /\ UNCHANGED <<localVars, top, next, taken, sends>>

\* Faulty: only the sender on top is woken.
DropUnparkFirst(t) ==
  /\ At(t, "drop_unpark")
  /\ UnparkSender(looked[t].node)
  /\ WalkEnds(t)
  /\ Look(t, Null, Null)
  /\ UNCHANGED <<program, held, arm, spurious, waiting, stack, aborted, selected>>
  /\ UNCHANGED <<top, next, taken, sends, astray>>

DropUnpark(t) ==
  /\ At(t, "drop_unpark")
  /\ UnparkSender(looked[t].node)
  /\ IF looked[t].below = Null THEN WalkEnds(t) ELSE Step(t, "drop_next") /\ UNCHANGED calls
  /\ Look(t, looked[t].below, Null)
  /\ UNCHANGED <<program, held, arm, spurious, waiting, stack, aborted, selected>>
  /\ UNCHANGED <<top, next, taken, sends, astray>>

-----------------------------------------------------------------------------
(* The hooks for select!.  Registering does not look at the channel.        *)
Counterpart(t) == IF op[t] = "select_recv" THEN top # Null ELSE waiting["recv"] # <<>>
OtherSide(t)   == IF op[t] = "select_recv" THEN Senders ELSE Receivers

Probe(t) ==
  /\ At(t, "probe")
  /\ IF Counterpart(t)
     THEN ArmReady(t)
     ELSE Step(t, "probe_more") /\ UNCHANGED <<arm, selected>>
  /\ UNCHANGED <<probeVars, rendezvousVars>>

ProbeOtherSide(t) ==
  /\ At(t, "probe_more")
  /\ IF OtherSide(t) = {} THEN ArmReady(t) ELSE ArmNotReady(t)
  /\ UNCHANGED <<probeVars, rendezvousVars>>

Complete(t) ==
  /\ \/ op[t] = "select_recv" /\ CompleteBy(t, "recv", "pop")
     \/ op[t] = "select_send" /\ CompleteBy(t, "send", "check")
  /\ UNCHANGED rendezvousVars

-----------------------------------------------------------------------------
RendezvousStep(t) ==
  \/ Check(t) \/ Push(t) \/ LoadTaken(t) \/ CountReceivers(t)
  \/ RemoveLoad(t) \/ RemoveNext(t) \/ RemoveHead(t)
  \/ RemoveWalk(t) \/ RemoveBelow(t) \/ RemoveLink(t) \/ Recover(t)
  \/ PopLoad(t) \/ PopNext(t) \/ PopCas(t) \/ PopTake(t) \/ PopUnpark(t)
  \/ CountSenders(t) \/ EnlistAndInvite(t) \/ DropLoad(t) \/ DropNext(t) \/ DropUnpark(t)
  \/ Probe(t) \/ ProbeOtherSide(t) \/ Complete(t)
  \/ /\ \/ ParkReturns(t, "park", "again") \/ ParkReturns(t, "blocked", "offered")
        \/ Again(t, "pop") \/ Return(t)
        \/ PushArm(t, "enrol") \/ SelectStep(t) \/ (WakeStep(t) /\ UNCHANGED endVars)
     /\ UNCHANGED rendezvousVars

RendezvousChance(t) ==
  \/ SendCall(t) \/ RecvCall(t) \/ DropOne(t) \/ DropLast(t)
  \/ /\ \/ SelectCall(t, "select_recv", "recv") \/ DeadlinePasses(t)
        \/ DropSender(t) \/ Spurious(t) \/ \E u \in Threads : CloneHandle(t, u)
     /\ UNCHANGED rendezvousVars

vars == <<waiterVars, endVars, rendezvousVars>>

(* A sender that a walk gone astray has missed blocks for good.             *)
Over == (\A t \in Threads : Idle(t) \/ (astray /\ pc[t] = "blocked")) /\ UNCHANGED vars

Init == WaiterInit /\ EndpointInit /\ RendezvousInit
Next == (\E t \in Threads : RendezvousStep(t) \/ RendezvousChance(t)) \/ Over
Spec == Init /\ [][Next]_vars
FairSpec == Spec /\ \A t \in Threads : WF_vars(RendezvousStep(t))

-----------------------------------------------------------------------------
Steps == {"unborn", "idle", "check", "push", "pop", "pop_next", "pop_cas", "pop_take",
          "pop_unpark", "count_senders", "enlist", "park", "again", "return", "drop",
          "drop_next", "drop_unpark", "complete"} \cup FrameSteps \cup SelectSteps

(* The steps that dereference the node in hand.                             *)
Looking == {"pop_next", "pop_cas", "pop_take", "pop_unpark", "drop_next", "drop_unpark",
            "remove_walk", "remove_below", "remove_link"}

TypeOK ==
  /\ EndpointTypeOK
  /\ pc \in [Threads -> Steps]
  /\ top \in Nodes
  /\ next \in [Threads -> Nodes]
  /\ taken \in [Threads -> BOOLEAN]
  /\ looked \in [Threads -> [node : Nodes, below : Nodes]]
  /\ \A t \in Threads : pc[t] \in Looking => looked[t].node \in Threads
  /\ sends \in 0 .. program.items
  /\ astray \in BOOLEAN

(* "The node lives on the sender's stack frame": a node on the stack is     *)
(* that of a send that has not returned, with its item in it.               *)
StackHoldsOffers == ~astray => \A n \in OnStack : Offers(n) /\ ~taken[n]

(* "We own this slot now": the item a receiver reads is that of a send that *)
(* waits, and nobody has read it.                                           *)
ReadsOffer ==
  ~astray => \A t \in Threads : pc[t] = "pop_take" =>
    /\ Offers(looked[t].node) /\ ~taken[looked[t].node]
    /\ \A u \in Threads \ {t} : pc[u] = "pop_take" => looked[u].node # looked[t].node

(* "`taken` is still false, so no receiver touched the value": an item is   *)
(* delivered or given back, never both.                                     *)
DeliveredOrGivenBack == \A t \in Threads : pc[t] = "recover" => ~taken[t]

(* What each side waits for.                                                *)
SomeSender == top # Null \/ Senders = {}
Settled(t) == taken[t] \/ Receivers = {}
ArmDue(t)  == Counterpart(t) \/ OtherSide(t) = {}

Dropping(u) == pc[u] \in {"drop", "drop_next", "drop_unpark"}
WillWake(u, t) == Dropping(u) \/ (pc[u] = "pop_unpark" /\ looked[u].node = t)

(* What a receiver, a sender and a select! that waits will hear.            *)
ReceiverHears(t) == pc[t] = "park" /\ SomeSender => \E u \in Threads : WillUnpark(u, t)
SenderHears(t)   == pc[t] = "blocked" /\ Settled(t) => \E u \in Threads : WillWake(u, t)
SelectHears(t)   ==
  pc[t] = "sleep" /\ ArmDue(t) => \E u \in Threads : WillSelect(u, t) \/ Dropping(u)

(* The programs for which this is proved of select!: one thread at most     *)
(* selects on each side, as a send and a receive wake one select call each. *)
OneSelects ==
  \A p \in Programs : \A operation \in {"select_recv", "select_send"} : \A t, u \in Threads :
    operation \in p.uses[t] \cap p.uses[u] => t = u

(* Nobody who waits for the other side misses it.                           *)
NoLostWakeup ==
  ~astray => \A t \in Threads :
    ~permit[t] => ReceiverHears(t) /\ SenderHears(t) /\ SelectHears(t)

(* And the two meet: recv ends when there is a sender, send when its item   *)
(* has been taken, both when the other side is gone, and select! at the     *)
(* latest after its deadline.                                               *)
Owed(t) ==
  /\ ~astray
  /\ \/ op[t] = "recv" /\ SomeSender
     \/ Offers(t) /\ Settled(t)
     \/ op[t] \in {"select_recv", "select_send"} /\ (arm[t].limit = "passed" \/ ArmDue(t))
BothSidesReturn == \A t \in Threads : Owed(t) ~> ~Owed(t)
=============================================================================
