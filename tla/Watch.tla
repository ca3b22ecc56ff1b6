-------------------------------- MODULE Watch --------------------------------
(***************************************************************************)
(* watch.rs: one value that senders replace, and a version that they bump  *)
(* after it.  A receiver waits for the version to leave the one it knows.  *)
(* A value is named by the number of the call of send it is an argument of. *)
(*                                                                         *)
(* A receiver is used by one thread at a time, so its cursor is armed only *)
(* inside a call of changed, and never when it is cloned.                  *)
(***************************************************************************)
EXTENDS Endpoints

VARIABLES
  version,    \* the channel's version
  value,      \* the value in the cell; 0 before the first
  cursor,     \* per thread: cursor_version of its receiver
  sight,      \* per thread: cursor_version of the clone in its select!, or Unarmed
  baseline,   \* per thread: the version from which its call waits for a change
  sending,    \* per thread: the argument of its send; 0 in mark_changed
  shown,      \* history: the values that the cell has held
  log,        \* history: for each version, the argument of the call that bumped to it
  since       \* history: per thread, the version when its call of changed began

watchVars == <<version, value, cursor, sight, baseline, sending, shown, log, since>>
history == <<shown, log, since>>

Unarmed == -1

WatchInit ==
  /\ version = 0 /\ value = 0
  /\ cursor = [t \in Threads |-> 0]
  /\ sight = [t \in Threads |-> Unarmed]
  /\ baseline = [t \in Threads |-> 0]
  /\ sending = [t \in Threads |-> 0]
  /\ shown = {0}
  /\ log = <<>>
  /\ since = [t \in Threads |-> 0]

-----------------------------------------------------------------------------
(* Sender::send stores the value, then bumps the version; mark_changed only *)
(* does the second.                                                         *)
BumpsUnderWay == {t \in Threads : op[t] \in {"send", "mark_changed", "select_send"}}

SendCall(t) ==
  /\ version + Cardinality(BumpsUnderWay) < program.items
  /\ LET argument == version + Cardinality(BumpsUnderWay) + 1 IN
     \/ /\ Call(t, "send", "send", "check") \/ SelectCall(t, "select_send", "send")
        /\ sending' = [sending EXCEPT ![t] = argument]
     \/ /\ Call(t, "mark_changed", "send", "check")
        /\ sending' = [sending EXCEPT ![t] = 0]
  /\ UNCHANGED <<version, value, cursor, sight, baseline, history>>

Check(t) ==
  /\ CheckReceivers(t, IF op[t] = "send" THEN "store" ELSE "bump")
  /\ UNCHANGED watchVars

StoreValue(t) ==
  /\ At(t, "store")
  /\ value' = sending[t]
  /\ shown' = shown \cup {value'}
  /\ Step(t, "bump")
  /\ UNCHANGED <<localVars, version, cursor, sight, baseline, sending, log, since>>

Bump(t) ==
  /\ At(t, "bump")
  /\ version' = version + 1
  /\ log' = Append(log, sending[t])
  /\ sending' = [sending EXCEPT ![t] = 0]
  /\ Finish(t)
  /\ Then(t, WakeEverybody)
  /\ UNCHANGED <<quietVars, value, cursor, sight, baseline, shown, since>>

\* Faulty: the version is bumped before the value is stored.
SendBumpsFirst(t) ==
  \/ Check(t) \/ (op[t] = "mark_changed" /\ Bump(t))
  \/ /\ At(t, "store") /\ Step(t, "bump")
     /\ version' = version + 1 /\ log' = Append(log, sending[t])
     /\ UNCHANGED <<localVars, value, cursor, sight, baseline, sending, shown, since>>
  \/ /\ At(t, "bump") /\ op[t] # "mark_changed" /\ Finish(t) /\ Then(t, WakeEverybody)
     /\ value' = sending[t] /\ shown' = shown \cup {value'}
     /\ sending' = [sending EXCEPT ![t] = 0]
     /\ UNCHANGED <<quietVars, version, cursor, sight, baseline, log, since>>

SendStep(t) == Check(t) \/ StoreValue(t) \/ Bump(t)

-----------------------------------------------------------------------------
(* Receiver::changed.                                                       *)
ChangedCall(t) ==
  /\ Call(t, "changed", "recv", "count")
  /\ since' = [since EXCEPT ![t] = version]
  /\ UNCHANGED <<version, value, cursor, sight, baseline, sending, shown, log>>

CountSenders(t) ==
  /\ At(t, "count")
  /\ IF Senders = {} THEN Answer(t, "disconnected") ELSE Step(t, "arm")
  /\ UNCHANGED <<localVars, watchVars>>

WaitFrom(t, v) == baseline' = [baseline EXCEPT ![t] = v]

\* Faulty: the wait starts from the version of the call before.
ArmAtLastSeen(t) ==
  /\ At(t, "arm")
  /\ WaitFrom(t, cursor[t])
  /\ Step(t, "await")
  /\ UNCHANGED <<localVars, version, value, cursor, sight, sending, history>>

\* Faulty: the cursor is armed at the version to come.
ArmCursorAhead(t) ==
  /\ At(t, "arm")
  /\ WaitFrom(t, version + 1)
  /\ cursor' = [cursor EXCEPT ![t] = version + 1]
  /\ Step(t, "await")
  /\ UNCHANGED <<localVars, version, value, sight, sending, history>>

(* The cursor is unarmed: arm_cursor sets it to the version it returns.     *)
ArmCursor(t) ==
  /\ At(t, "arm")
  /\ WaitFrom(t, version)
  /\ cursor' = [cursor EXCEPT ![t] = version]
  /\ Step(t, "await")
  /\ UNCHANGED <<localVars, version, value, sight, sending, history>>

(* await_change_from.                                                       *)
AwaitVersion(t) ==
  /\ At(t, "await")
  /\ IF version # baseline[t]
     THEN Answer(t, "ok") /\ cursor' = [cursor EXCEPT ![t] = version]
     ELSE Step(t, "test") /\ UNCHANGED cursor
  /\ UNCHANGED <<localVars, version, value, sight, baseline, sending, history>>

AwaitSenders(t) ==
  /\ At(t, "test")
  /\ IF Senders = {} THEN Answer(t, "disconnected") ELSE Step(t, "enlist")
  /\ UNCHANGED <<localVars, watchVars>>

\* Faulty: only the version is looked at again after the registration.
RecheckVersionOnly(t) ==
  /\ At(t, "recheck")
  /\ Step(t, IF version # baseline[t] THEN "again" ELSE "park")
  /\ UNCHANGED <<localVars, watchVars>>

Recheck(t) ==
  /\ \/ At(t, "recheck") /\ Step(t, IF version # baseline[t] THEN "again" ELSE "retest")
     \/ At(t, "retest") /\ Step(t, IF Senders = {} THEN "again" ELSE "park")
  /\ UNCHANGED <<localVars, watchVars>>

-----------------------------------------------------------------------------
(* The hooks for select!.  A send arm is always ready; a receive arm stands *)
(* on a clone of the receiver, made when the select! begins, and is         *)
(* completed on the receiver itself, from the version that one saw last.    *)
SelectBegins(t) ==
  /\ SelectCall(t, "select_recv", "recv")
  /\ sight' = [sight EXCEPT ![t] = Unarmed]
  /\ UNCHANGED <<version, value, cursor, baseline, sending, history>>

Probe(t) ==
  /\ At(t, "probe")
  /\ IF op[t] = "select_send" \/ Senders = {} THEN ArmReady(t)
     ELSE Step(t, "probe_more") /\ UNCHANGED <<arm, selected>>
  /\ UNCHANGED <<probeVars, watchVars>>

ProbeVersion(t) ==
  /\ At(t, "probe_more")
  /\ IF sight[t] = Unarmed
     THEN sight' = [sight EXCEPT ![t] = version] /\ ArmNotReady(t)
     ELSE UNCHANGED sight /\ IF sight[t] # version THEN ArmReady(t) ELSE ArmNotReady(t)
  /\ UNCHANGED <<probeVars, version, value, cursor, baseline, sending, history>>

RegisterSelect(t) ==
  /\ \/ At(t, "enrol") /\ Step(t, IF version # sight[t] THEN "probe" ELSE "enrol_more")
     \/ At(t, "enrol_more") /\ Step(t, IF Senders = {} THEN "probe" ELSE "push")
  /\ UNCHANGED <<localVars, watchVars>>

CompleteSend(t) == op[t] = "select_send" /\ CompleteBy(t, "send", "check") /\ UNCHANGED watchVars

CompleteRecv(t) ==
  /\ op[t] = "select_recv"
  /\ CompleteBy(t, "complete", "await")
  /\ WaitFrom(t, cursor[t])
  /\ sight' = [sight EXCEPT ![t] = Unarmed]
  /\ UNCHANGED <<version, value, cursor, sending, history>>

-----------------------------------------------------------------------------
ReturnChange(t) ==
  /\ Return(t)
  /\ since' = [since EXCEPT ![t] = 0]
  /\ WaitFrom(t, 0)
  /\ UNCHANGED <<version, value, cursor, sight, sending, shown, log>>

(* Receiver::clone copies the cursor.                                       *)
Clone(t, u) ==
  /\ CloneHandle(t, u)
  /\ cursor' = [cursor EXCEPT ![u] = cursor[t]]
  /\ UNCHANGED <<version, value, sight, baseline, sending, history>>

WatchStep(t) ==
  \/ SendStep(t)
  \/ CountSenders(t) \/ ArmCursor(t) \/ AwaitVersion(t) \/ AwaitSenders(t) \/ Recheck(t)
  \/ ReturnChange(t) \/ Probe(t) \/ ProbeVersion(t) \/ RegisterSelect(t)
  \/ CompleteSend(t) \/ CompleteRecv(t)
  \/ /\ \/ Enlist(t, "recheck") \/ ParkReturns(t, "park", "again") \/ Again(t, "await")
        \/ PushArm(t, "push") \/ SelectStep(t) \/ (WakeStep(t) /\ UNCHANGED endVars)
     /\ UNCHANGED watchVars

WatchChance(t) ==
  \/ SendCall(t) \/ ChangedCall(t) \/ SelectBegins(t) \/ \E u \in Threads : Clone(t, u)
  \/ /\ DeadlinePasses(t) \/ DropSender(t) \/ DropReceiver(t) \/ Spurious(t)
     /\ UNCHANGED watchVars

vars == <<waiterVars, endVars, watchVars>>

Over == (\A t \in Threads : Idle(t)) /\ UNCHANGED vars

Init == WaiterInit /\ EndpointInit /\ WatchInit
Next == (\E t \in Threads : WatchStep(t) \/ WatchChance(t)) \/ Over
Spec == Init /\ [][Next]_vars
FairSpec == Spec /\ \A t \in Threads : WF_vars(WatchStep(t))

-----------------------------------------------------------------------------
Steps == {"unborn", "idle", "check", "store", "bump", "count", "arm", "await", "test", "enlist",
          "recheck", "retest", "park", "again", "return", "complete"} \cup SelectSteps
Versions == 0 .. program.items

TypeOK ==
  /\ EndpointTypeOK
  /\ pc \in [Threads -> Steps]
  /\ version \in Versions /\ value \in Versions /\ shown \subseteq Versions
  /\ Len(log) = version
  /\ \A t \in Threads :
       /\ {cursor[t], baseline[t], since[t]} \subseteq 0 .. version
       /\ sight[t] \in 0 .. version \cup {Unarmed}
       /\ sending[t] \in Versions

(* "the new value (if any) is visible before the version bump is observed": *)
(* the argument of a send whose version a receiver knows of has been put in *)
(* the cell, so what it borrows is that value or one stored after it.       *)
NewsComesWithValue ==
  \A t \in Threads : \A v \in 1 .. cursor[t] : log[v] \in shown

(* changed returns Ok for a change that came after the call; the completion *)
(* of a select arm, for one that this receiver has not been told of.        *)
Answers(t, a) == pc[t] # "return" /\ pc'[t] = "return" /\ answer'[t] = a
OkMeansChange ==
  [][\A t \in Threads : Answers(t, "ok") =>
       /\ cursor'[t] > cursor[t]
       /\ op[t] = "changed" => cursor'[t] > since[t]]_vars

(* There is a change to return for, or nobody is left to make one.          *)
Due(t) == version # baseline[t] \/ Senders = {}
ArmDue(t) == version # sight[t] \/ Senders = {}

(* Neither a parked call nor a sleeping select call misses it.              *)
NoLostWakeup ==
  \A t \in Threads :
    /\ pc[t] = "park" /\ Due(t)     => permit[t] \/ \E u \in Threads : WillUnpark(u, t)
    /\ pc[t] = "sleep" /\ ArmDue(t) => permit[t] \/ \E u \in Threads : WillSelect(u, t)

(* A wait ends after the change, or the last drop, and a select call at the *)
(* latest after its deadline.                                               *)
Owed(t) ==
  \/ pc[t] # "idle" /\ op[t] \in {"changed", "complete"} /\ pc[t] \notin {"count", "arm"} /\ Due(t)
  \/ op[t] = "select_recv" /\ sight[t] # Unarmed /\ (arm[t].limit = "passed" \/ ArmDue(t))
WaitersReturn == \A t \in Threads : Owed(t) ~> ~Owed(t)
=============================================================================
