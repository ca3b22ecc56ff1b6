------------------------------ MODULE Broadcast ------------------------------
(***************************************************************************)
(* bounded_broadcast.rs: a ring of slots that senders overwrite, and a     *)
(* cursor per receiver.  A message is named by its sequence number.  A     *)
(* send claims a number, stores the value into its slot, then the number   *)
(* plus one into the slot's seq; a receive reads seq, the value, and seq   *)
(* again, and reports a lag when it finds that it was overtaken.           *)
(***************************************************************************)
EXTENDS Endpoints

CONSTANTS
  Cap,        \* the number of slots
  MaxSpins    \* MAX_SPIN_RETRIES

ASSUME BroadcastAssumption == Cap \in Nat \ {0} /\ MaxSpins \in Nat \ {0}

VARIABLES
  writeSeq,   \* the next number to be claimed
  seq,        \* per slot: 0, or its message's number plus one
  value,      \* per slot: its message, or Empty
  cursor,     \* per thread: next_seq of its receiver, or Away
  tail,       \* per thread: next_seq of the clone that stands in its select!
  local,      \* per thread: the local variables of send or try_recv
  lapped      \* history: the slots for which a number was claimed while the
              \* sender of a lap before had not published

broadcastVars == <<writeSeq, seq, value, cursor, tail, local, lapped>>

Empty == -1
Away == -1

(* claimed: the number a send has taken; snapshot: the value a try_recv has *)
(* loaded; spins: its spin_count; skipped: what it is about to report.      *)
NoLocals == [claimed |-> Empty, snapshot |-> Empty, spins |-> 0, skipped |-> 0]

BroadcastInit ==
  /\ writeSeq = 0
  /\ seq = [i \in 0 .. Cap - 1 |-> 0]
  /\ value = [i \in 0 .. Cap - 1 |-> Empty]
  /\ cursor = [t \in Threads |-> IF "recv" \in program.handles[t] THEN 0 ELSE Away]
  /\ tail = [t \in Threads |-> Away]
  /\ local = [t \in Threads |-> NoLocals]
  /\ lapped = {}

SlotOf(n) == n % Cap
Oldest == IF writeSeq < Cap THEN 0 ELSE writeSeq - Cap

Local(t, l) == local' = [local EXCEPT ![t] = l]

-----------------------------------------------------------------------------
(* Sender::send.                                                            *)
SendsUnderWay == {t \in Threads : pc[t] \in {"check", "claim"}}

SendCall(t) ==
  /\ writeSeq + Cardinality(SendsUnderWay) < program.items
  /\ Call(t, "send", "send", "check")
  /\ UNCHANGED broadcastVars

Check(t) == CheckReceivers(t, "claim") /\ UNCHANGED broadcastVars

(* The numbers that are claimed but not published.                          *)
Pending == {local[t].claimed : t \in {u \in Threads : pc[u] \in {"fill", "stamp"}}}

ClaimSeq(t) ==
  /\ At(t, "claim")
  /\ writeSeq' = writeSeq + 1
  /\ lapped' = lapped \cup ({SlotOf(writeSeq)} \cap {SlotOf(n) : n \in Pending})
  /\ Local(t, [NoLocals EXCEPT !.claimed = writeSeq])
  /\ Step(t, "fill")
  /\ UNCHANGED <<localVars, seq, value, cursor, tail>>

StoreValue(t) ==
  /\ At(t, "fill")
  /\ value' = [value EXCEPT ![SlotOf(local[t].claimed)] = local[t].claimed]
  /\ Step(t, "stamp")
  /\ UNCHANGED <<localVars, writeSeq, lapped, seq, cursor, tail, local>>

\* Faulty: the message's own number.
StampOwnNumber(t) ==
  /\ At(t, "stamp")
  /\ seq' = [seq EXCEPT ![SlotOf(local[t].claimed)] = local[t].claimed]
  /\ Local(t, NoLocals)
  /\ Finish(t)
  /\ Then(t, <<WakeAllUnselected("recv"), SelectAll("recv")>>)
  /\ UNCHANGED <<quietVars, writeSeq, lapped, value, cursor, tail>>

\* Faulty: the number of the slot's next message.
StampNextLap(t) ==
  /\ At(t, "stamp")
  /\ seq' = [seq EXCEPT ![SlotOf(local[t].claimed)] = local[t].claimed + Cap]
  /\ Local(t, NoLocals)
  /\ Finish(t)
  /\ Then(t, <<WakeAllUnselected("recv"), SelectAll("recv")>>)
  /\ UNCHANGED <<quietVars, writeSeq, lapped, value, cursor, tail>>

\* Faulty: a send wakes the plain receivers only.
StoreSeqWakesPlain(t) ==
  /\ At(t, "stamp")
  /\ seq' = [seq EXCEPT ![SlotOf(local[t].claimed)] = local[t].claimed + 1]
  /\ Local(t, NoLocals)
  /\ Finish(t)
  /\ Then(t, <<WakeAllUnselected("recv")>>)
  /\ UNCHANGED <<quietVars, writeSeq, lapped, value, cursor, tail>>

StoreSeq(t) ==
  /\ At(t, "stamp")
  /\ seq' = [seq EXCEPT ![SlotOf(local[t].claimed)] = local[t].claimed + 1]
  /\ Local(t, NoLocals)
  /\ Finish(t)
  /\ Then(t, <<WakeAllUnselected("recv"), SelectAll("recv")>>)
  /\ UNCHANGED <<quietVars, writeSeq, lapped, value, cursor, tail>>

-----------------------------------------------------------------------------
(* Receiver::try_recv, and recv around it.                                  *)
RecvCall(t) ==
  /\ \E operation \in {"recv", "try_recv"} : Call(t, operation, "recv", "look")
  /\ UNCHANGED broadcastVars

Lag(t, oldest, skipped) ==
  /\ cursor' = [cursor EXCEPT ![t] = oldest]
  /\ Local(t, [NoLocals EXCEPT !.skipped = skipped])
  /\ Answer(t, "lagged")

LoadWriteSeq(t) ==
  /\ At(t, "look")
  /\ LET next == cursor[t] IN
     \/ next = writeSeq /\ Step(t, "count") /\ UNCHANGED <<cursor, local>>
     \/ next < Oldest /\ Lag(t, Oldest, Oldest - next)
     \/ next # writeSeq /\ next >= Oldest /\ Step(t, "before") /\ UNCHANGED <<cursor, local>>
  /\ UNCHANGED <<localVars, writeSeq, lapped, seq, value, tail>>

NothingYet(t) == Nothing(t, "enlist", "park") /\ Local(t, NoLocals)
Disconnected(t) == Answer(t, "disconnected") /\ Local(t, NoLocals)

CountSenders(t) ==
  /\ At(t, "count")
  /\ IF Senders = {} THEN Disconnected(t) ELSE NothingYet(t)
  /\ UNCHANGED <<localVars, writeSeq, lapped, seq, value, cursor, tail>>

(* The last two loads of the first disjunct cannot both succeed: write_seq  *)
(* has been past next and does not come back.                               *)
LoadSeqBefore(t) ==
  /\ At(t, "before")
  /\ LET expected == cursor[t] + 1
         found == seq[SlotOf(cursor[t])]
     IN \/ /\ found < expected
           /\ IF Senders = {} /\ writeSeq = cursor[t] THEN Disconnected(t) ELSE NothingYet(t)
        \/ found > expected /\ Step(t, "lap") /\ UNCHANGED local
        \/ found = expected /\ Step(t, "read") /\ UNCHANGED local
  /\ UNCHANGED <<localVars, writeSeq, lapped, seq, value, cursor, tail>>

(* Overtaken, or out of patience: load write_seq anew and go on from the    *)
(* oldest message.                                                          *)
\* Faulty: what is left out is counted up to write_seq.
CatchUpMiscounted(t) ==
  /\ At(t, "lap")
  /\ Lag(t, Oldest, writeSeq - cursor[t])
  /\ UNCHANGED <<localVars, writeSeq, lapped, seq, value, tail>>

CatchUp(t) ==
  /\ At(t, "lap")
  /\ Lag(t, Oldest, IF Oldest > cursor[t] THEN Oldest - cursor[t] ELSE 1)
  /\ UNCHANGED <<localVars, writeSeq, lapped, seq, value, tail>>

LoadValue(t) ==
  /\ At(t, "read")
  /\ Local(t, [local[t] EXCEPT !.snapshot = value[SlotOf(cursor[t])]])
  /\ Step(t, "after")
  /\ UNCHANGED <<localVars, writeSeq, lapped, seq, value, cursor, tail>>

\* Faulty: the slot's seq is not looked at again.
TakeUnchecked(t) ==
  /\ At(t, "after")
  /\ cursor' = [cursor EXCEPT ![t] = @ + 1]
  /\ Local(t, NoLocals)
  /\ Answer(t, "ok")
  /\ UNCHANGED <<localVars, writeSeq, lapped, seq, value, tail>>

LoadSeqAfter(t) ==
  /\ At(t, "after")
  /\ LET expected == cursor[t] + 1
         found == seq[SlotOf(cursor[t])]
         spins == local[t].spins + 1
     IN \/ /\ found # expected
           /\ Step(t, IF spins > MaxSpins THEN "lap" ELSE "look")
           /\ Local(t, [NoLocals EXCEPT !.spins = spins])
           /\ UNCHANGED cursor
        \/ /\ found = expected /\ local[t].snapshot = Empty
           /\ Step(t, "look")
           /\ UNCHANGED <<cursor, local>>
        \/ /\ found = expected /\ local[t].snapshot # Empty
           /\ cursor' = [cursor EXCEPT ![t] = @ + 1]
           /\ Local(t, NoLocals)
           /\ Answer(t, "ok")
  /\ UNCHANGED <<localVars, writeSeq, lapped, seq, value, tail>>

ReturnMessage(t) ==
  /\ Return(t)
  /\ Local(t, NoLocals)
  /\ UNCHANGED <<writeSeq, lapped, seq, value, cursor, tail>>

-----------------------------------------------------------------------------
(* The hooks for select!, which work on a clone of the receiver made when   *)
(* the select! begins; the arm is completed on the receiver itself.         *)
SelectBegins(t) ==
  /\ SelectCall(t, "select_recv", "recv")
  /\ tail' = [tail EXCEPT ![t] = writeSeq]
  /\ UNCHANGED <<writeSeq, lapped, seq, value, cursor, local>>

Ready(t) == tail[t] < writeSeq

Probe(t) ==
  /\ At(t, "probe")
  /\ \/ Ready(t) /\ ArmReady(t)
     \/ ~Ready(t) /\ Step(t, "probe_more") /\ UNCHANGED <<arm, selected>>
  /\ UNCHANGED <<probeVars, broadcastVars>>

ProbeSenders(t) ==
  /\ At(t, "probe_more")
  /\ IF Senders = {} THEN ArmReady(t) ELSE ArmNotReady(t)
  /\ UNCHANGED <<probeVars, broadcastVars>>

RegisterSelect(t) ==
  /\ \/ At(t, "enrol") /\ Step(t, IF Ready(t) THEN "probe" ELSE "enrol_more")
     \/ At(t, "enrol_more") /\ Step(t, IF Senders = {} THEN "probe" ELSE "push")
  /\ UNCHANGED <<localVars, broadcastVars>>

Complete(t) ==
  /\ CompleteBy(t, "recv", "look")
  /\ tail' = [tail EXCEPT ![t] = Away]
  /\ UNCHANGED <<writeSeq, lapped, seq, value, cursor, local>>

(* Receiver::clone: the new cursor is at the end.                           *)
\* Faulty: it starts where the original is.
SubscribeAtOriginal(t, u) ==
  /\ CloneHandle(t, u)
  /\ cursor' = [cursor EXCEPT ![u] = IF program.offspring[u] = "recv" THEN cursor[t] ELSE Away]
  /\ UNCHANGED <<writeSeq, lapped, seq, value, tail, local>>

Subscribe(t, u) ==
  /\ CloneHandle(t, u)
  /\ cursor' = [cursor EXCEPT ![u] = IF program.offspring[u] = "recv" THEN writeSeq ELSE Away]
  /\ UNCHANGED <<writeSeq, lapped, seq, value, tail, local>>

-----------------------------------------------------------------------------
BroadcastStep(t) ==
  \/ Check(t) \/ ClaimSeq(t) \/ StoreValue(t) \/ StoreSeq(t)
  \/ LoadWriteSeq(t) \/ CountSenders(t) \/ LoadSeqBefore(t) \/ CatchUp(t)
  \/ LoadValue(t) \/ LoadSeqAfter(t) \/ ReturnMessage(t)
  \/ Probe(t) \/ ProbeSenders(t) \/ RegisterSelect(t) \/ Complete(t)
  \/ /\ \/ Enlist(t, "look") \/ ParkReturns(t, "park", "again") \/ Again(t, "look")
        \/ PushArm(t, "push") \/ SelectStep(t) \/ (WakeStep(t) /\ UNCHANGED endVars)
     /\ UNCHANGED broadcastVars

BroadcastChance(t) ==
  \/ SendCall(t) \/ RecvCall(t) \/ SelectBegins(t) \/ \E u \in Threads : Subscribe(t, u)
  \/ /\ DeadlinePasses(t) \/ DropSender(t) \/ DropReceiver(t) \/ Spurious(t)
     /\ UNCHANGED broadcastVars

vars == <<waiterVars, endVars, broadcastVars>>

(* A published message whose slot an overtaken sender wrote after it: a     *)
(* receiver that comes to it waits for the next lap.                        *)
Buried(n) == n < writeSeq /\ n \notin Pending /\ seq[SlotOf(n)] <= n

Over ==
  /\ \A t \in Threads : Idle(t) \/ (pc[t] = "park" /\ Buried(cursor[t]))
  /\ UNCHANGED vars

Init == WaiterInit /\ EndpointInit /\ BroadcastInit
Next == (\E t \in Threads : BroadcastStep(t) \/ BroadcastChance(t)) \/ Over
Spec == Init /\ [][Next]_vars
FairSpec == Spec /\ \A t \in Threads : WF_vars(BroadcastStep(t))

-----------------------------------------------------------------------------
Steps == {"unborn", "idle", "check", "claim", "fill", "stamp", "look", "count", "before", "lap",
          "read", "after", "enlist", "park", "again", "return", "complete"} \cup SelectSteps
Messages == 0 .. program.items - 1

TypeOK ==
  /\ EndpointTypeOK
  /\ pc \in [Threads -> Steps]
  /\ writeSeq \in 0 .. program.items
  /\ seq \in [0 .. Cap - 1 -> 0 .. writeSeq]
  /\ value \in [0 .. Cap - 1 -> Messages \cup {Empty}]
  /\ lapped \subseteq 0 .. Cap - 1
  /\ \A t \in Threads :
       /\ cursor[t] \in 0 .. writeSeq \cup {Away} /\ tail[t] \in 0 .. writeSeq \cup {Away}
       /\ local[t].claimed \in Messages \cup {Empty} /\ local[t].snapshot \in Messages \cup {Empty}
       /\ local[t].spins \in 0 .. MaxSpins + 1 /\ local[t].skipped \in Nat

(* The channel is a feed: a receiver sees every message once, in order,     *)
(* from where it subscribed, but for those that have been overwritten.      *)
Log == INSTANCE Feed WITH
  Readers <- Threads, Window <- Cap, sent <- writeSeq, pending <- Pending, cursor <- cursor
IsFeed == Log!Spec

(* A message that is published can be found by its number until the next    *)
(* lap, unless one of its slot's senders was overtaken.                     *)
PublishedStays ==
  \A n \in Oldest .. writeSeq - 1 :
    n \in Pending \/ seq[SlotOf(n)] = n + 1 \/ SlotOf(n) \in lapped

(* The value a receive returns as message n is message n.  One case escapes *)
(* the second look at seq: the value that is just being stored over it.  An *)
(* overtaken sender may have stored an older one.                           *)
Returns(t) == pc[t] = "after" /\ pc'[t] = "return" /\ answer'[t] = "ok"
Overwriting(n) == \E t \in Threads : pc[t] = "stamp" /\ local[t].claimed = n
DeliversItsMessage ==
  [][\A t \in Threads : Returns(t) =>
       \/ local[t].snapshot = cursor[t]
       \/ local[t].snapshot = cursor[t] + Cap /\ Overwriting(cursor[t] + Cap)
       \/ SlotOf(cursor[t]) \in lapped]_vars

(* "The skipped count tells you how many messages were lost": it is how far *)
(* the cursor jumps, and it jumps to a message that was in the window.      *)
LagIsExact ==
  [][\A t \in Threads : pc[t] # "return" /\ pc'[t] = "return" /\ answer'[t] = "lagged" =>
       local'[t].skipped = cursor'[t] - cursor[t] /\ cursor'[t] < writeSeq]_vars

(* A receiver has reason to return: its message is published or was         *)
(* overwritten, or the senders are gone; likewise its select! clone.  (The  *)
(* code does not tell a receiver at a buried message that they are gone.)   *)
Due(t) == \/ seq[SlotOf(cursor[t])] > cursor[t]
          \/ Senders = {} /\ ~Buried(cursor[t])
ArmDue(t) == tail[t] \in (0 .. writeSeq - 1) \ Pending \/ Senders = {}

(* Every message wakes everybody: nobody stays parked who has one to take.  *)
NoLostWakeup ==
  \A t \in Threads :
    /\ pc[t] = "park" /\ Due(t)     => permit[t] \/ \E u \in Threads : WillUnpark(u, t)
    /\ pc[t] = "sleep" /\ ArmDue(t) => permit[t] \/ \E u \in Threads : WillSelect(u, t)

(* recv returns once there is reason to, and so does select!, at the latest *)
(* when its deadline has passed.                                            *)
Owed(t) ==
  \/ op[t] = "recv" /\ Due(t)
  \/ op[t] = "select_recv" /\ (arm[t].limit = "passed" \/ ArmDue(t))
ReceiversReturn == \A t \in Threads : Owed(t) ~> ~Owed(t)
=============================================================================
