------------------------------- MODULE Oneshot -------------------------------
(***************************************************************************)
(* oneshot.rs: a sender that sends once or is dropped, and receivers, any  *)
(* of which may take the value.  The value and the state of the sender are *)
(* two atomics; send writes the value first, a receive reads the state     *)
(* first, and once more when it was not "sent".                            *)
(*                                                                         *)
(* ArcSwapOption::swap hands the cell to one thread, whose take always     *)
(* succeeds: the two are one step.                                         *)
(***************************************************************************)
EXTENDS Endpoints

(* Sender is not Clone.                                                     *)
ASSUME OneSender ==
  \A p \in Programs : \A t, u \in Threads :
    /\ p.offspring[t] # "send"
    /\ "send" \in p.handles[t] \cap p.handles[u] => t = u

VARIABLES
  state,    \* sender_state: "open", "sent" or "dropped"
  cell,     \* value: "none", "full", or "taken" once it was swapped out
  late      \* history: the threads whose receive began when a value was sent

oneshotVars == <<state, cell, late>>

OneshotInit == state = "open" /\ cell = "none" /\ late = {}

-----------------------------------------------------------------------------
(* Sender::send consumes the handle: its drop comes last, on every path.    *)
SendCall(t) == Call(t, "send", "send", "check") /\ UNCHANGED oneshotVars

Check(t) ==
  /\ At(t, "check")
  /\ Step(t, IF Receivers = {} THEN "close" ELSE "store")
  /\ UNCHANGED <<localVars, oneshotVars>>

StoreValue(t) ==
  /\ At(t, "store")
  /\ cell' = "full"
  /\ Step(t, "mark")
  /\ UNCHANGED <<localVars, state, late>>

MarkSent(t) ==
  /\ At(t, "mark")
  /\ state' = "sent"
  /\ Step(t, "close")
  /\ Then(t, <<WakeOne("recv"), SelectOne("recv")>>)
  /\ UNCHANGED <<quietVars, cell, late>>

\* Faulty: a store where the compare_exchange is needed.
CloseAlways(t) ==
  /\ At(t, "close")
  /\ held' = [held EXCEPT ![t] = @ \ {"send"}]
  /\ Finish(t)
  /\ state' = "dropped"
  /\ Then(t, WakeEverybody)
  /\ UNCHANGED <<program, arm, spurious, permit, waiting, stack, aborted, selected, cell, late>>

(* Sender::drop: compare_exchange from "open".                              *)
Close(t) ==
  /\ At(t, "close")
  /\ held' = [held EXCEPT ![t] = @ \ {"send"}]
  /\ Finish(t)
  /\ IF state = "open" THEN state' = "dropped" /\ Then(t, WakeEverybody)
     ELSE UNCHANGED <<state, calls>>
  /\ UNCHANGED <<program, arm, spurious, permit, waiting, stack, aborted, selected, cell, late>>

DropSenderUnused(t) ==
  /\ MayDrop(t, "send")
  /\ Step(t, "close")
  /\ UNCHANGED <<localVars, oneshotVars>>

-----------------------------------------------------------------------------
(* Receiver::try_recv and recv.                                             *)
Begins(t) == late' = IF state = "sent" THEN late \cup {t} ELSE late
RecvCall(t) ==
  /\ \E operation \in {"recv", "try_recv"} : Call(t, operation, "recv", "load")
  /\ Begins(t)
  /\ UNCHANGED <<state, cell>>

\* Faulty: whatever is not "open" is taken for "dropped".
LoadStateOpenOrNot(t) ==
  /\ At(t, "load")
  /\ IF state = "open" THEN Step(t, "reload") ELSE Answer(t, "disconnected")
  /\ UNCHANGED <<localVars, oneshotVars>>

\* Faulty: whatever is not "dropped" is taken for "sent".
LoadStateNotDropped(t) ==
  /\ At(t, "load")
  /\ Step(t, IF state = "dropped" THEN "reload" ELSE "swap")
  /\ UNCHANGED <<localVars, oneshotVars>>

LoadState(t) ==
  /\ At(t, "load")
  /\ Step(t, IF state = "sent" THEN "swap" ELSE "reload")
  /\ UNCHANGED <<localVars, oneshotVars>>

SwapValue(t) ==
  /\ At(t, "swap")
  /\ cell' = IF cell = "full" THEN "taken" ELSE cell
  /\ Answer(t, IF cell = "full" THEN "ok" ELSE "disconnected")
  /\ UNCHANGED <<localVars, state, late>>

(* Not sent: empty if the sender's state is "open" still.  The second look  *)
(* of recv drops an answer other than a value and tests the state itself.   *)
\* Faulty: once the sender is gone a receive tries again.
ReloadAgain(t) ==
  /\ At(t, "reload")
  /\ IF state = "open" \/ Registered(t) THEN Nothing(t, "test", "test") ELSE Step(t, "load")
  /\ UNCHANGED <<localVars, oneshotVars>>

Reload(t) ==
  /\ At(t, "reload")
  /\ IF state = "open" \/ Registered(t) THEN Nothing(t, "test", "test")
     ELSE Answer(t, "disconnected")
  /\ UNCHANGED <<localVars, oneshotVars>>

(* recv's own load of the state, before its registration and before park.   *)
TestState(t) ==
  /\ At(t, "test")
  /\ IF state # "open" THEN Answer(t, "disconnected")
     ELSE Step(t, IF Registered(t) THEN "park" ELSE "enlist")
  /\ UNCHANGED <<localVars, oneshotVars>>

-----------------------------------------------------------------------------
(* The hooks for select!.                                                   *)
Probe(t) ==
  /\ At(t, "probe")
  /\ IF state # "open" THEN ArmReady(t) ELSE ArmNotReady(t)
  /\ UNCHANGED <<probeVars, oneshotVars>>

RegisterSelect(t) ==
  /\ At(t, "enrol")
  /\ Step(t, IF state # "open" THEN "probe" ELSE "push")
  /\ UNCHANGED <<localVars, oneshotVars>>

Complete(t) == CompleteBy(t, "recv", "load") /\ Begins(t) /\ UNCHANGED <<state, cell>>

-----------------------------------------------------------------------------
ReturnValue(t) == Return(t) /\ late' = late \ {t} /\ UNCHANGED <<state, cell>>

(* A step of an operation under way.                                        *)
OneshotStep(t) ==
  \/ Check(t) \/ StoreValue(t) \/ MarkSent(t) \/ Close(t)
  \/ LoadState(t) \/ SwapValue(t) \/ Reload(t) \/ TestState(t) \/ ReturnValue(t)
  \/ Probe(t) \/ RegisterSelect(t) \/ Complete(t)
  \/ /\ \/ Enlist(t, "load") \/ ParkReturns(t, "park", "again") \/ Again(t, "load")
        \/ PushArm(t, "push") \/ SelectStep(t) \/ (WakeStep(t) /\ UNCHANGED endVars)
     /\ UNCHANGED oneshotVars

(* What a thread or its environment may do but need not.                    *)
OneshotChance(t) ==
  \/ SendCall(t) \/ DropSenderUnused(t) \/ RecvCall(t)
  \/ /\ \/ SelectCall(t, "select_recv", "recv") \/ DeadlinePasses(t)
        \/ DropReceiver(t) \/ Spurious(t) \/ \E u \in Threads : CloneHandle(t, u)
     /\ UNCHANGED oneshotVars

vars == <<waiterVars, endVars, oneshotVars>>

Over == (\A t \in Threads : Idle(t)) /\ UNCHANGED vars

Init == WaiterInit /\ EndpointInit /\ OneshotInit
Next == (\E t \in Threads : OneshotStep(t) \/ OneshotChance(t)) \/ Over
Spec == Init /\ [][Next]_vars

(* A thread inside an operation keeps running until it parks.               *)
FairSpec == Spec /\ \A t \in Threads : WF_vars(OneshotStep(t))

-----------------------------------------------------------------------------
Steps == {"unborn", "idle", "check", "store", "mark", "close", "load", "swap", "reload", "test",
          "enlist", "park", "again", "return", "complete"} \cup SelectSteps

(* The value is there when the state says so, and taken only after that.    *)
TypeOK ==
  /\ EndpointTypeOK
  /\ pc \in [Threads -> Steps]
  /\ state \in {"open", "sent", "dropped"}
  /\ cell \in {"none", "full", "taken"}
  /\ state = "sent" => cell # "none"
  /\ cell = "taken" => state = "sent"
  /\ late \subseteq {t \in Threads : op[t] \in {"recv", "try_recv"}}

(* The channel keeps the promise of its name: the value shows once the      *)
(* state does, one receiver gets it, and the drop that follows a send does  *)
(* not take it back.                                                        *)
PromiseState == CASE state = "open"    -> "open"
                  [] state = "dropped" -> "broken"
                  [] state = "sent"    -> IF cell = "full" THEN "kept" ELSE "claimed"
Promised == INSTANCE Promise WITH promise <- PromiseState
KeepsPromise == Promised!Spec

(* A receive that began when the value was sent does not answer that the    *)
(* sender is gone while the value is there: send's two stores are seen in   *)
(* their order.  (One that began before may, see the hazards.)              *)
NoFalseDisconnect ==
  \A t \in late : pc[t] = "return" /\ answer[t] = "disconnected" => cell # "full"

(* The programs for which the next property is stated: one thread at most   *)
(* blocks in recv and one at most selects, as send wakes one of each.       *)
OneWaiter ==
  \A p \in Programs : \A operation \in {"recv", "select_recv"} : \A t, u \in Threads :
    operation \in p.uses[t] \cap p.uses[u] => t = u

(* Neither the parked receiver nor the sleeping select call misses the      *)
(* value or the drop of the sender.                                         *)
NoLostWakeup ==
  \A t \in Threads : state # "open" =>
    /\ pc[t] = "park"  => permit[t] \/ \E u \in Threads : WillUnpark(u, t)
    /\ pc[t] = "sleep" => permit[t] \/ \E u \in Threads : WillSelect(u, t)

(* And both return: recv and select! end after the sender's last word.      *)
ReceiversReturn ==
  \A t \in Threads : op[t] \in {"recv", "select_recv"} /\ state # "open" ~> op[t] = "none"
=============================================================================
