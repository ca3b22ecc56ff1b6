----------------------------- MODULE WatchProofs -----------------------------
(***************************************************************************)
(* Proofs about Watch for any threads and programs: that the version a     *)
(* receiver knows of has brought its value, that changed answers Ok for a  *)
(* change that came after the call, and that no wake-up is lost; types.    *)
(***************************************************************************)
EXTENDS Watch, EndpointProofs

(* The state that matters here: all that the steps of Watch change but      *)
(* sight, and the control state.                                            *)
valueVars == <<version, value, cursor, baseline, sending, shown, log, since>>
coreVars == <<pc, op, answer, valueVars>>

Operations == {"none", "send", "mark_changed", "changed", "select_send", "select_recv", "complete"}
Answers3 == {"none", "ok", "empty", "lagged", "disconnected"}

Types ==
  /\ pc \in [Threads -> Steps]
  /\ op \in [Threads -> Operations]
  /\ answer \in [Threads -> Answers3]
  /\ version \in Nat /\ value \in Nat
  /\ cursor \in [Threads -> Nat] /\ baseline \in [Threads -> Nat]
  /\ sending \in [Threads -> Nat] /\ since \in [Threads -> Nat]
  /\ log \in Seq(Nat) /\ Len(log) = version

(* The values that have been in the cell: that of every version, and that   *)
(* of every send which has only its version left to bump.  mark_changed     *)
(* goes there straight from its check, with 0.                              *)
ToBump(t) == pc[t] = "bump" \/ (pc[t] = "check" /\ op[t] # "send")
Behind ==
  /\ \A t \in Threads : cursor[t] <= version /\ since[t] <= version
  /\ 0 \in shown
  /\ \A t \in Threads : ToBump(t) => sending[t] \in shown
  /\ \A v \in 1 .. version : log[v] \in shown

(* A wait is for a version other than the one that the receiver knows of,   *)
(* and in a call of changed that one is not older than the call.            *)
WaitSteps == {"await", "test", "enlist", "recheck", "retest", "park", "again"}
Waiting ==
  \A t \in Threads : pc[t] \in WaitSteps =>
    /\ baseline[t] = cursor[t]
    /\ op[t] = "changed" => since[t] <= cursor[t]

WatchInv == Types /\ Behind /\ Waiting

-----------------------------------------------------------------------------
(* What most steps of a thread t come to: neither a value nor a version     *)
(* changes, t waits or is to bump only if it did or was, and t does not     *)
(* answer Ok.                                                               *)
Quiet(t) ==
  /\ pc' \in [Threads -> Steps] /\ op' \in [Threads -> Operations]
  /\ answer' \in [Threads -> Answers3]
  /\ pc'[t] \in WaitSteps => pc[t] \in WaitSteps /\ op'[t] = op[t]
  /\ ToBump(t)' => ToBump(t)
  /\ ~Answers(t, "ok")
  /\ \A u \in Threads \ {t} : pc'[u] = pc[u] /\ op'[u] = op[u] /\ answer'[u] = answer[u]
  /\ UNCHANGED valueVars

QuietCall(t) ==
  \/ Check(t) \/ CountSenders(t) \/ AwaitSenders(t) \/ Recheck(t)
  \/ CompleteSend(t)

(* The test of a send and those that come before a wait or a park.          *)
LEMMA CallsAreQuiet ==
  ASSUME WatchInv, NEW t \in Threads, QuietCall(t)
  PROVE  Quiet(t)
<1>. USE DEF WatchInv, Types, Quiet, ToBump, Answers, Operations, Answers3, Steps, SelectSteps,
             WaitSteps, At, Step, Answer, Finish, watchVars, valueVars
<1>2. CASE Check(t)
  <2>1. UNCHANGED valueVars
    BY <1>2 DEF Check
  <2>2. \/ Finish(t)
        \/ Step(t, "store")
        \/ pc[t] = "check" /\ op[t] # "send" /\ Step(t, "bump")
    BY <1>2 DEF Check, CheckReceivers
  <2>3. CASE Finish(t)
    BY <2>1, <2>3
  <2>4. CASE Step(t, "store") \/ (pc[t] = "check" /\ op[t] # "send" /\ Step(t, "bump"))
    BY <2>1, <2>4
  <2>. QED  BY <2>2, <2>3, <2>4
<1>3. CASE CountSenders(t)
  <2>1. UNCHANGED valueVars
    BY <1>3 DEF CountSenders
  <2>2. Answer(t, "disconnected") \/ Step(t, "arm")
    BY <1>3 DEF CountSenders
  <2>. QED  BY <2>1, <2>2
<1>4. CASE AwaitSenders(t)
  <2>1. UNCHANGED valueVars
    BY <1>4 DEF AwaitSenders
  <2>2. Answer(t, "disconnected") \/ (Step(t, "enlist") /\ pc[t] = "test")
    BY <1>4 DEF AwaitSenders
  <2>. QED  BY <2>1, <2>2
<1>5. CASE Recheck(t)
  BY <1>5 DEF Recheck
<1>6. CASE CompleteSend(t)
  BY <1>6 DEF CompleteSend, CompleteBy
<1>. QED  BY <1>2, <1>3, <1>4, <1>5, <1>6 DEF QuietCall

QuietWait(t) ==
  \/ SelectBegins(t) \/ Probe(t) \/ ProbeVersion(t) \/ RegisterSelect(t)
  \/ /\ \/ Enlist(t, "recheck") \/ ParkReturns(t, "park", "again") \/ Again(t, "await")
        \/ PushArm(t, "push") \/ SelectStep(t)
     /\ UNCHANGED watchVars

(* The registration, the park and the steps of select!.                     *)
LEMMA WaitsAreQuiet ==
  ASSUME WatchInv, NEW t \in Threads, QuietWait(t)
  PROVE  Quiet(t)
<1>. USE DEF WatchInv, Types, Quiet, ToBump, Answers, Operations, Answers3, Steps, SelectSteps,
             WaitSteps, At, Step, Finish, watchVars, valueVars, history
<1>1. CASE SelectBegins(t)
  BY <1>1 DEF SelectBegins, SelectCall
<1>2. CASE Probe(t)
  <2>1. UNCHANGED valueVars
    BY <1>2 DEF Probe
  <2>2. \E to \in {"complete", "decide", "probe_more"} : Step(t, to)
    BY <1>2 DEF Probe, ArmReady, CompleteArm, Proceed
  <2>. QED  BY <2>1, <2>2
<1>3. CASE ProbeVersion(t)
  <2>1. CASE ArmReady(t)
    BY <1>3, <2>1 DEF ProbeVersion, ArmReady, CompleteArm, Proceed
  <2>2. CASE ArmNotReady(t)
    <3>1. UNCHANGED valueVars
      BY <1>3 DEF ProbeVersion
    <3>2. \/ Finish(t)
          \/ \E to \in {"decide", "enrol"} : Step(t, to)
      BY <2>2 DEF ArmNotReady, TakeDefault, Proceed
    <3>3. CASE Finish(t)
      BY <3>1, <3>3
    <3>4. ASSUME NEW to \in {"decide", "enrol"}, Step(t, to) PROVE Quiet(t)
      BY <3>1, <3>4
    <3>. QED  BY <3>2, <3>3, <3>4
  <2>. QED  BY <1>3, <2>1, <2>2 DEF ProbeVersion
<1>4. CASE RegisterSelect(t)
  BY <1>4 DEF RegisterSelect
<1>5. CASE Enlist(t, "recheck") /\ UNCHANGED watchVars
  BY <1>5 DEF Enlist
<1>6. CASE ParkReturns(t, "park", "again") /\ UNCHANGED watchVars
  BY <1>6 DEF ParkReturns
<1>7. CASE Again(t, "await") /\ UNCHANGED watchVars
  BY <1>7 DEF Again
<1>8. CASE PushArm(t, "push") /\ UNCHANGED watchVars
  BY <1>8 DEF PushArm
<1>9. CASE SelectStep(t) /\ UNCHANGED watchVars
  <2>1. CASE Decide(t)
    BY <1>9, <2>1 DEF Decide
  <2>2. CASE WakeUp(t)
    BY <1>9, <2>2 DEF WakeUp
  <2>3. CASE AbortLoad(t)
    BY <1>9, <2>3 DEF AbortLoad, Proceed
  <2>4. CASE Walk(t)
    BY <1>9, <2>4 DEF Walk, Proceed
  <2>5. CASE Judge(t)
    <3>1. UNCHANGED valueVars
      BY <1>9
    <3>2. \/ Finish(t)
          \/ \E to \in {"complete", "probe"} : Step(t, to)
      BY <2>5 DEF Judge, CompleteArm, TakeDefault, Proceed
    <3>3. CASE Finish(t)
      BY <3>1, <3>3
    <3>4. ASSUME NEW to \in {"complete", "probe"}, Step(t, to) PROVE Quiet(t)
      BY <3>1, <3>4
    <3>. QED  BY <3>2, <3>3, <3>4
  <2>. QED  BY <1>9, <2>1, <2>2, <2>3, <2>4, <2>5 DEF SelectStep
<1>. QED  BY <1>1, <1>2, <1>3, <1>4, <1>5, <1>6, <1>7, <1>8, <1>9 DEF QuietWait

LEMMA QuietStep ==
  ASSUME WatchInv, NEW t \in Threads, Quiet(t)
  PROVE  WatchInv'
<1>1. Types'
  BY DEF WatchInv, Types, Quiet, valueVars
<1>2. Behind'
  BY DEF WatchInv, Behind, Quiet, ToBump, valueVars
<1>3. Waiting'
  BY DEF WatchInv, Waiting, Quiet, valueVars
<1>. QED  BY <1>1, <1>2, <1>3 DEF WatchInv

-----------------------------------------------------------------------------
(* A send stores its argument before it bumps the version.                  *)
LEMMA SenderStep ==
  ASSUME WatchInv, NEW t \in Threads, SendCall(t) \/ StoreValue(t) \/ Bump(t)
  PROVE  WatchInv' /\ \A u \in Threads : ~Answers(u, "ok")
<1>. USE DEF WatchInv, Types, Behind, ToBump, Waiting, Answers, Operations, Answers3, Steps,
             SelectSteps, WaitSteps, At, Step, Finish, history
<1>1. CASE StoreValue(t)
  <2>1. /\ pc[t] = "store" /\ pc' = [pc EXCEPT ![t] = "bump"]
        /\ value' = sending[t] /\ shown' = shown \cup {sending[t]}
        /\ UNCHANGED <<op, answer, version, cursor, baseline, sending, log, since>>
    BY <1>1 DEF StoreValue
  <2>2. Types'
    BY <2>1
  <2>3. Behind'
    BY <2>1
  <2>4. Waiting' /\ \A u \in Threads : ~Answers(u, "ok")
    BY <2>1
  <2>. QED  BY <2>2, <2>3, <2>4
<1>2. CASE Bump(t)
  <2>1. /\ pc' = [pc EXCEPT ![t] = "idle"] /\ op' = [op EXCEPT ![t] = "none"]
        /\ answer' = [answer EXCEPT ![t] = "none"]
        /\ version' = version + 1 /\ log' = Append(log, sending[t])
        /\ sending' = [sending EXCEPT ![t] = 0]
        /\ pc[t] = "bump" /\ UNCHANGED <<value, cursor, baseline, shown, since>>
    BY <1>2 DEF Bump
  <2>2. /\ log' \in Seq(Nat) /\ Len(log') = version'
        /\ \A v \in 1 .. version' : log'[v] = IF v = version' THEN sending[t] ELSE log[v]
    BY <2>1
  <2>3. Types'
    BY <2>1, <2>2
  <2>4. Behind'
    BY <2>1, <2>2
  <2>5. Waiting' /\ \A u \in Threads : ~Answers(u, "ok")
    BY <2>1
  <2>. QED  BY <2>3, <2>4, <2>5
<1>3. CASE SendCall(t)
  <2>1. version + Cardinality(BumpsUnderWay) + 1 \in Nat
    <3>1. BumpsUnderWay \in SUBSET Threads
      BY DEF BumpsUnderWay
    <3>2. Cardinality(BumpsUnderWay) \in Nat
      BY <3>1, FewThreads
    <3>. QED  BY <3>2
  <2>2. PICK operation \in {"send", "mark_changed", "select_send"}, to \in {"check", "probe"},
             argument \in Nat :
          /\ pc[t] = "idle" /\ pc' = [pc EXCEPT ![t] = to] /\ op' = [op EXCEPT ![t] = operation]
          /\ to = "check" /\ operation # "send" => argument = 0
          /\ sending' = [sending EXCEPT ![t] = argument]
          /\ UNCHANGED <<answer, version, value, cursor, baseline, shown, log, since>>
    BY <1>3, <2>1 DEF SendCall, Call, SelectCall
  <2>3. Types'
    BY <2>2
  <2>4. Behind'
    BY <2>2
  <2>5. Waiting' /\ \A u \in Threads : ~Answers(u, "ok")
    BY <2>2
  <2>. QED  BY <2>3, <2>4, <2>5
<1>. QED  BY <1>1, <1>2, <1>3

(* A call of changed begins with the version at which it finds the channel; *)
(* what completes a select! arm, with the one that its receiver knows of.   *)
LEMMA ReceiverStep ==
  ASSUME WatchInv, NEW t \in Threads,
         \/ ChangedCall(t) \/ ArmCursor(t) \/ ReturnChange(t) \/ CompleteRecv(t)
         \/ \E u \in Threads : Clone(t, u)
  PROVE  WatchInv' /\ \A u \in Threads : ~Answers(u, "ok")
<1>. USE DEF WatchInv, Types, Behind, ToBump, Waiting, Answers, Operations, Answers3, Steps,
             SelectSteps, WaitSteps, At, Step, Finish, WaitFrom, history
<1>1. CASE ChangedCall(t)
  BY <1>1 DEF ChangedCall, Call
<1>2. CASE ArmCursor(t)
  BY <1>2 DEF ArmCursor
<1>3. CASE ReturnChange(t)
  BY <1>3 DEF ReturnChange, Return
<1>4. CASE CompleteRecv(t)
  BY <1>4 DEF CompleteRecv, CompleteBy
<1>5. CASE \E u \in Threads : Clone(t, u)
  BY <1>5 DEF Clone, CloneHandle
<1>. QED  BY <1>1, <1>2, <1>3, <1>4, <1>5

(* The one step that answers Ok.                                            *)
ChangeFor(t) == cursor'[t] > cursor[t] /\ (op[t] = "changed" => cursor'[t] > since[t])

LEMMA AwaitStep ==
  ASSUME WatchInv, NEW t \in Threads, AwaitVersion(t)
  PROVE  WatchInv' /\ \A u \in Threads : Answers(u, "ok") => ChangeFor(u)
<1>. USE DEF WatchInv, Types, Behind, ToBump, Waiting, Answers, Operations, Answers3, Steps,
             SelectSteps, WaitSteps, At, Step, Answer, history, AwaitVersion
<1>1. CASE version # baseline[t]
  <2>1. /\ pc' = [pc EXCEPT ![t] = "return"] /\ answer' = [answer EXCEPT ![t] = "ok"]
        /\ cursor' = [cursor EXCEPT ![t] = version]
        /\ UNCHANGED <<op, version, value, baseline, sending, shown, log, since>>
    BY <1>1
  <2>2. version > cursor[t] /\ (op[t] = "changed" => since[t] <= cursor[t])
    BY <1>1
  <2>3. ASSUME NEW u \in Threads, Answers(u, "ok")
        PROVE  ChangeFor(u)
    BY <2>1, <2>2, <2>3 DEF ChangeFor
  <2>. QED  BY <2>1, <2>3
<1>2. CASE version = baseline[t]
  BY <1>2
<1>. QED  BY <1>1, <1>2

LEMMA UnchangedStep ==
  ASSUME WatchInv, UNCHANGED coreVars
  PROVE  WatchInv' /\ \A u \in Threads : ~Answers(u, "ok")
BY DEF WatchInv, Types, Behind, ToBump, Waiting, Answers, coreVars, valueVars

LEMMA WatchInitial == ASSUME Init PROVE WatchInv
BY DEF Init, EndpointInit, WatchInit, WatchInv, Types, Behind, ToBump, Waiting, Operations, Answers3,
       Steps, WaitSteps

-----------------------------------------------------------------------------
LEMMA WatchInductive ==
  ASSUME WatchInv, [Next]_vars
  PROVE  WatchInv' /\ \A u \in Threads : Answers(u, "ok") => ChangeFor(u)
<1>1. CASE UNCHANGED vars
  BY <1>1, UnchangedStep DEF vars, endVars, watchVars, coreVars, valueVars
<1>2. ASSUME NEW t \in Threads, Quiet(t)
      PROVE  WatchInv' /\ \A u \in Threads : ~Answers(u, "ok")
  BY <1>2, QuietStep DEF Quiet, Answers
<1>3. ASSUME NEW t \in Threads, WatchStep(t)
      PROVE  WatchInv' /\ \A u \in Threads : Answers(u, "ok") => ChangeFor(u)
  <2>1. CASE WakeStep(t) /\ UNCHANGED endVars /\ UNCHANGED watchVars
    BY <2>1, UnchangedStep DEF endVars, watchVars, coreVars, valueVars
  <2>2. CASE QuietCall(t) \/ QuietWait(t)
    BY <1>2, <2>2, CallsAreQuiet, WaitsAreQuiet
  <2>3. CASE AwaitVersion(t)
    BY <2>3, AwaitStep
  <2>4. CASE \/ StoreValue(t) \/ Bump(t) \/ ArmCursor(t) \/ ReturnChange(t) \/ CompleteRecv(t)
    BY <2>4, SenderStep, ReceiverStep
  <2>. QED  BY <1>3, <2>1, <2>2, <2>3, <2>4 DEF WatchStep, SendStep, QuietCall, QuietWait
<1>4. ASSUME NEW t \in Threads, WatchChance(t)
      PROVE  WatchInv' /\ \A u \in Threads : ~Answers(u, "ok")
  <2>1. CASE /\ DeadlinePasses(t) \/ DropSender(t) \/ DropReceiver(t) \/ Spurious(t)
             /\ UNCHANGED watchVars
    BY <2>1, UnchangedStep DEF DeadlinePasses, DropSender, DropReceiver, DropHandle, Spurious,
                               watchVars, coreVars, valueVars
  <2>2. CASE SelectBegins(t)
    BY <1>2, <2>2, WaitsAreQuiet DEF QuietWait
  <2>3. CASE SendCall(t) \/ ChangedCall(t) \/ \E u \in Threads : Clone(t, u)
    BY <2>3, SenderStep, ReceiverStep
  <2>. QED  BY <1>4, <2>1, <2>2, <2>3 DEF WatchChance
<1>5. CASE Over
  BY <1>5, <1>1 DEF Over
<1>. QED  BY <1>1, <1>3, <1>4, <1>5 DEF Next

(* What the proofs below rest on, in every reachable state.                 *)
THEOREM WatchInvariant == Spec => []WatchInv
BY WatchInitial, WatchInductive, PTL DEF Spec

(* The argument of a send is in the cell, or has been followed by another,  *)
(* before any receiver can learn of the version that the send bumps to:     *)
(* what borrow() returns is never older than what was announced.            *)
THEOREM WatchNewsComesWithValue == Spec => []NewsComesWithValue
<1>1. WatchInv => NewsComesWithValue
  BY DEF WatchInv, Types, Behind, NewsComesWithValue
<1>. QED  BY <1>1, WatchInvariant, PTL

(* changed answers Ok for a version that came after the call, and after     *)
(* every one that this receiver has been told of.                           *)
THEOREM WatchOkMeansChange == Spec => OkMeansChange
<1>1. WatchInv /\ [Next]_vars =>
        [\A t \in Threads : Answers(t, "ok") =>
           /\ cursor'[t] > cursor[t]
           /\ op[t] = "changed" => cursor'[t] > since[t]]_vars
  BY WatchInductive DEF ChangeFor
<1>. QED  BY <1>1, WatchInvariant, PTL DEF Spec, OkMeansChange

-----------------------------------------------------------------------------
(* Wake-ups.  A registered receive that a change or the last drop concerns  *)
(* is woken from the test after which it will not look again; and a select  *)
(* call goes to sleep with its node where the next waker finds it.          *)
Attends(u) ==
  /\ pc[u] \in {"recheck", "retest", "park"} => Registered(u)
  /\ pc[u] \in {"retest", "park"} /\ version # baseline[u] => Woken(u, "recv")
  /\ pc[u] = "park" /\ Senders = {} => Woken(u, "recv")

Watches(u) ==
  /\ sight[u] \in Int /\ sight[u] <= version
  /\ Armed(u) => sight[u] # Unarmed
  /\ Armed(u) /\ pc[u] = "probe" => Live(ArmNode(u), "recv") \/ ArmDue(u)
  /\ Armed(u) /\ pc[u] = "probe_more" =>
       \/ version # sight[u]
       \/ Live(ArmNode(u), "recv") /\ (Senders = {} => Roused(ArmNode(u), "recv"))
  /\ pc[u] = "sleep" \/ (pc[u] = "decide" /\ Won(u) = Unselected) =>
       /\ Live(ArmNode(u), "recv")
       /\ ArmDue(u) => Roused(ArmNode(u), "recv")

WakeInvariant ==
  /\ EndInv /\ Drained /\ DOMAIN sight = Threads /\ DOMAIN baseline = Threads
  /\ \A u \in Threads : Attends(u) /\ Watches(u)

(* What a step of a thread other than u does to u's obligations.            *)
Same == version' = version /\ (Senders' = {} <=> Senders = {})
Forward == version' \in Nat /\ version <= version' /\ (Senders = {} => Senders' = {})

LEMMA Onlooker ==
  ASSUME version \in Nat, Forward, Same \/ News, NEW u \in Threads,
         Attends(u), Watches(u), Keeps(u),
         pc'[u] = pc[u], arm'[u].turn = arm[u].turn, sight'[u] = sight[u], baseline'[u] = baseline[u]
  PROVE  Attends(u)' /\ Watches(u)'
<1>1. Armed(u)' = Armed(u)
  BY DEF Armed
<1>2. Attends(u)'
  <2>1. CASE News
    BY <2>1, NewsReaches DEF Attends, Keeps
  <2>2. CASE Same
    BY <2>2 DEF Attends, Keeps, Same
  <2>. QED BY <2>1, <2>2
<1>. DEFINE live == Live(ArmNode(u), "recv")
            rous == Roused(ArmNode(u), "recv")
<1>3. Armed(u) => /\ live => live'
                  /\ live /\ (rous \/ News) => rous'
                  /\ Won(u)' = Unselected => Won(u) = Unselected
  <2>1. News => rous'
    <3>. SUFFICES ASSUME News PROVE rous'
      OBVIOUS
    <3>1. PICK m : m = ArmNode(u)'
      OBVIOUS
    <3>2. Roused(m, "recv")'
      BY NewsReaches
    <3>. QED BY <3>1, <3>2
  <2>. QED BY <2>1 DEF Keeps
<1>4. /\ version # sight[u] => version' # sight'[u]
      /\ Senders = {} => Senders' = {}
      /\ ArmDue(u) => ArmDue(u)'
      /\ Same => (ArmDue(u)' => ArmDue(u))
      /\ Same => (Senders' = {} => Senders = {})
      /\ sight'[u] \in Int /\ sight'[u] <= version'
  BY DEF Watches, Forward, Same, ArmDue
<1>5. pc[u] \in {"sleep", "decide"} => Armed(u)
  BY DEF Armed
<1>. HIDE DEF live, rous
<1>6. /\ sight[u] \in Int /\ sight[u] <= version
      /\ Armed(u) => sight[u] # Unarmed
      /\ Armed(u) /\ pc[u] = "probe" => live \/ ArmDue(u)
      /\ Armed(u) /\ pc[u] = "probe_more" => \/ version # sight[u]
                                             \/ live /\ (Senders = {} => rous)
      /\ pc[u] = "sleep" \/ (pc[u] = "decide" /\ Won(u) = Unselected) =>
           live /\ (ArmDue(u) => rous)
  BY DEF Watches, live, rous
<1>7. /\ sight'[u] \in Int /\ sight'[u] <= version'
      /\ Armed(u)' => sight'[u] # Unarmed
      /\ Armed(u)' /\ pc'[u] = "probe" => live' \/ ArmDue(u)'
      /\ Armed(u)' /\ pc'[u] = "probe_more" => \/ version' # sight'[u]
                                               \/ live' /\ (Senders' = {} => rous')
      /\ pc'[u] = "sleep" \/ (pc'[u] = "decide" /\ Won(u)' = Unselected) =>
           live' /\ (ArmDue(u)' => rous')
  BY <1>1, <1>3, <1>4, <1>5, <1>6
<1>. QED BY <1>2, <1>7 DEF Watches, live, rous

(* What is shown of every step of a thread t that is not one of a wake call *)
(* and leaves the handles alone.                                            *)
Frame(t) ==
  /\ DOMAIN sight' = Threads /\ DOMAIN baseline' = Threads
  /\ \A u \in Threads \ {t} : sight'[u] = sight[u] /\ baseline'[u] = baseline[u]
  /\ Forward /\ (Same \/ News)

Moves(t) == Harmless(t) /\ Attends(t)' /\ Watches(t)' /\ Frame(t)

LEMMA Uninvolved ==
  ASSUME NEW t, pc'[t] \notin {"recheck", "retest", "park"}, ~Armed(t)',
         sight'[t] \in Int, sight'[t] <= version'
  PROVE  Attends(t)' /\ Watches(t)'
BY DEF Attends, Watches, Armed

(* Outside select_impl.                                                     *)
Apart == {"idle", "check", "store", "bump", "count", "arm", "await", "test", "enlist",
          "again", "return", "complete"}

LEMMA ApartStep ==
  ASSUME WakeInvariant, Types, NEW t \in Threads, EndTypes', Mild(t), UNCHANGED <<held, arm>>,
         pc[t] \notin SelectSteps, pc'[t] \in Apart,
         op'[t] = op[t] \/ op'[t] # "select_recv", pc'[t] = "idle" => op'[t] = "none",
         \A u \in Threads : calls'[u] = calls[u] \/ calls'[u] \in Announcements,
         sight'[t] \in {sight[t], Unarmed}, Frame(t)
  PROVE  Moves(t)
<1>1. pc'[t] \notin SelectSteps \cup {"unborn", "recheck", "retest", "park"}
  BY DEF SelectSteps, Apart
<1>2. ArmOf(t)' /\ ~Armed(t)'
  BY <1>1, ApartArm DEF WakeInvariant
<1>3. sight[t] \in Int /\ sight[t] <= version
  BY DEF WakeInvariant, Watches
<1>4. sight'[t] \in Int /\ sight'[t] <= version'
  BY <1>3 DEF Frame, Forward, Types, Unarmed
<1>5. Attends(t)' /\ Watches(t)'
  BY <1>1, <1>2, <1>4, Uninvolved
<1>. QED BY <1>2, <1>5 DEF Moves, Harmless

LEMMA FrameStays ==
  ASSUME Types, NEW t \in Threads, UNCHANGED <<version, held>>,
         DOMAIN sight' = Threads, DOMAIN baseline' = Threads,
         \A u \in Threads \ {t} : sight'[u] = sight[u] /\ baseline'[u] = baseline[u]
  PROVE  Frame(t)
BY DEF Frame, Forward, Same, Senders, Types

Plainly(t) ==
  \/ Check(t) \/ StoreValue(t) \/ CountSenders(t) \/ ArmCursor(t) \/ AwaitVersion(t)
  \/ AwaitSenders(t) \/ CompleteSend(t) \/ CompleteRecv(t) \/ ChangedCall(t)
  \/ \E operation \in {"send", "mark_changed"} :
       Call(t, operation, "send", "check") /\ UNCHANGED <<version, value, cursor, sight, baseline>>

LEMMA PlainlyMoves ==
  ASSUME WakeInvariant, Types, NEW t \in Threads, Plainly(t)
  PROVE  Moves(t)
<1>. DEFINE Done == /\ Alone(t) /\ UNCHANGED localVars /\ UNCHANGED version
                    /\ pc[t] \notin SelectSteps /\ pc'[t] \in Apart
                    /\ op'[t] = op[t] \/ op'[t] # "select_recv"
                    /\ pc'[t] = "idle" => op'[t] = "none"
                    /\ sight'[t] \in {sight[t], Unarmed}
                    /\ DOMAIN sight' = Threads /\ DOMAIN baseline' = Threads
                    /\ \A u \in Threads \ {t} : sight'[u] = sight[u] /\ baseline'[u] = baseline[u]
<1>1. DOMAIN pc = Threads /\ DOMAIN op = Threads /\ DOMAIN sight = Threads /\ DOMAIN baseline = Threads
  BY DEF WakeInvariant, EndInv, EndTypes
<1>. USE <1>1 DEF Alone, SelectSteps, Apart, At, Step, Answer, Finish, history, WaitFrom
<1>2. Done
  <2>1. CASE Check(t)
    BY <2>1 DEF Check, CheckReceivers, watchVars
  <2>2. CASE StoreValue(t)
    BY <2>2 DEF StoreValue, localVars
  <2>3. CASE CountSenders(t)
    BY <2>3 DEF CountSenders, watchVars
  <2>4. CASE ArmCursor(t)
    BY <2>4 DEF ArmCursor
  <2>5. CASE AwaitVersion(t)
    BY <2>5 DEF AwaitVersion
  <2>6. CASE AwaitSenders(t)
    BY <2>6 DEF AwaitSenders, watchVars
  <2>7. CASE CompleteSend(t)
    BY <2>7 DEF CompleteSend, CompleteBy, watchVars
  <2>8. CASE CompleteRecv(t)
    BY <2>8 DEF CompleteRecv, CompleteBy
  <2>9. CASE ChangedCall(t)
    BY <2>9 DEF ChangedCall, Call
  <2>10. CASE \E operation \in {"send", "mark_changed"} :
                Call(t, operation, "send", "check") /\ UNCHANGED <<version, value, cursor, sight, baseline>>
    BY <2>10 DEF Call
  <2>. QED BY <2>1, <2>2, <2>3, <2>4, <2>5, <2>6, <2>7, <2>8, <2>9, <2>10 DEF Plainly
<1>3. EndTypes' /\ Mild(t)
  BY <1>2, PlainStep DEF WakeInvariant, EndInv
<1>4. UNCHANGED <<held, calls, arm>>
  BY <1>2 DEF localVars, quietVars
<1>5. Frame(t)
  BY <1>2, <1>4, FrameStays
<1>. QED BY <1>2, <1>3, <1>4, <1>5, ApartStep

LEMMA BumpMoves ==
  ASSUME WakeInvariant, Types, NEW t \in Threads, Bump(t)
  PROVE  Moves(t)
<1>1. DOMAIN pc = Threads /\ DOMAIN op = Threads /\ DOMAIN sight = Threads /\ DOMAIN baseline = Threads
  BY DEF WakeInvariant, EndInv, EndTypes
<1>2. /\ pc' = [pc EXCEPT ![t] = "idle"] /\ op' = [op EXCEPT ![t] = "none"]
      /\ version' = version + 1 /\ Then(t, WakeEverybody) /\ Free(t)
      /\ UNCHANGED <<quietVars, sight, baseline>> /\ pc[t] = "bump"
  BY DEF Bump, Finish, At
<1>3. Alone(t) /\ pc'[t] = "idle" /\ op'[t] = "none"
  BY <1>1, <1>2 DEF Alone
<1>4. EndTypes' /\ Mild(t) /\ calls'[t] = WakeEverybody
  BY <1>2, <1>3, WakingStep, WakeSequences DEF WakeInvariant, EndInv
<1>5. UNCHANGED <<held, arm>>
  BY <1>2 DEF quietVars
<1>6. /\ Frame(t)
      /\ \A u \in Threads : calls'[u] = calls[u] \/ calls'[u] \in Announcements
  BY <1>1, <1>2, <1>4, <1>5 DEF Frame, Forward, News, Announcements, Senders, Types, Then
<1>. QED BY <1>1, <1>2, <1>3, <1>4, <1>5, <1>6, ApartStep DEF SelectSteps, Apart

(* Registration, tests, park, and the drop of the guard.                    *)
LEMMA ListMoves ==
  ASSUME WakeInvariant, Types, NEW t \in Threads,
         \/ /\ Enlist(t, "recheck") \/ ParkReturns(t, "park", "again") \/ Again(t, "await")
            /\ UNCHANGED watchVars
         \/ ReturnChange(t) \/ Recheck(t)
  PROVE  Moves(t)
<1>1. /\ EndTypes /\ ArmOf(t) /\ Attends(t) /\ Watches(t) /\ DOMAIN pc = Threads
      /\ DOMAIN op = Threads /\ DOMAIN sight = Threads /\ DOMAIN baseline = Threads
  BY DEF WakeInvariant, EndInv, EndTypes
<1>2. CASE Enlist(t, "recheck") /\ UNCHANGED watchVars
  <2>1. EndTypes' /\ Mild(t) /\ Registered(t)'
    BY <1>1, <1>2, EnlistStep
  <2>2. /\ pc[t] = "enlist" /\ pc'[t] = "recheck" /\ op' = op
        /\ UNCHANGED <<version, held, calls, arm, sight, baseline>>
    BY <1>1, <1>2 DEF Enlist, At, Step, watchVars
  <2>3. Frame(t)
    BY <1>1, <2>2, FrameStays
  <2>4. ~Armed(t)' /\ ArmOf(t)'
    BY <1>1, <2>2 DEF ArmOf, Armed, SelectSteps
  <2>5. Attends(t)' /\ Watches(t)'
    BY <1>1, <2>1, <2>2, <2>4 DEF Attends, Watches
  <2>. QED BY <2>1, <2>2, <2>3, <2>4, <2>5 DEF Moves, Harmless
<1>3. CASE ParkReturns(t, "park", "again") /\ UNCHANGED watchVars
  <2>1. EndTypes' /\ Mild(t)
    BY <1>1, <1>3, ParkStep
  <2>2. /\ pc[t] = "park" /\ pc'[t] = "again" /\ op' = op
        /\ UNCHANGED <<version, held, calls, arm, sight, baseline>>
    BY <1>1, <1>3 DEF ParkReturns, At, Step, watchVars
  <2>3. Frame(t)
    BY <1>1, <2>2, FrameStays
  <2>. QED BY <2>1, <2>2, <2>3, ApartStep DEF SelectSteps, Apart
<1>4. CASE (Again(t, "await") /\ UNCHANGED watchVars) \/ ReturnChange(t)
  <2>1. EndTypes' /\ Mild(t)
    BY <1>1, <1>4, LeaveStep DEF ReturnChange
  <2>2. /\ pc[t] \in {"again", "return"}
        /\ \/ pc'[t] = "await" /\ op' = op
           \/ pc'[t] = "idle" /\ op'[t] = "none"
        /\ DOMAIN baseline' = Threads /\ \A u \in Threads \ {t} : baseline'[u] = baseline[u]
        /\ UNCHANGED <<version, held, calls, arm, sight>>
    BY <1>1, <1>4 DEF Again, ReturnChange, Return, Finish, WaitFrom, At, Step, watchVars
  <2>3. Frame(t)
    BY <1>1, <2>2, FrameStays
  <2>. QED BY <2>1, <2>2, <2>3, ApartStep DEF SelectSteps, Apart
<1>5. CASE Recheck(t)
  <2>1. Alone(t) /\ UNCHANGED localVars /\ UNCHANGED watchVars /\ op' = op
    BY <1>1, <1>5 DEF Recheck, Alone, Step
  <2>2. EndTypes' /\ Mild(t) /\ Steady(t)
    BY <1>1, <2>1, PlainStep
  <2>3. UNCHANGED <<version, held, calls, arm, sight, baseline>>
    BY <2>1 DEF localVars, quietVars, watchVars
  <2>4. Frame(t)
    BY <1>1, <2>3, FrameStays
  <2>5. /\ pc[t] \in {"recheck", "retest"}
        /\ \/ pc'[t] = "again"
           \/ pc[t] = "recheck" /\ pc'[t] = "retest" /\ version = baseline[t]
           \/ pc[t] = "retest" /\ pc'[t] = "park" /\ Senders # {}
    BY <1>1, <1>5 DEF Recheck, At, Step
  <2>6. CASE pc'[t] = "again"
    BY <2>1, <2>2, <2>3, <2>4, <2>5, <2>6, ApartStep DEF SelectSteps, Apart
  <2>7. CASE pc'[t] # "again"
    <3>1. ~Armed(t)' /\ ArmOf(t)'
      BY <1>1, <2>1, <2>3, <2>5, <2>7 DEF ArmOf, Armed, SelectSteps
    <3>2. Keeps(t)
      BY <1>1, <2>2, SteadyKeeps DEF Mild
    <3>3. Senders' = Senders
      BY <2>3 DEF Senders
    <3>4. Attends(t)'
      BY <1>1, <2>3, <2>5, <2>7, <3>2, <3>3 DEF Attends, Keeps
    <3>5. Watches(t)'
      BY <1>1, <2>3, <2>5, <2>7, <3>1 DEF Watches
    <3>. QED BY <2>2, <2>3, <2>4, <3>1, <3>4, <3>5 DEF Moves, Harmless
  <2>. QED BY <2>6, <2>7
<1>. QED BY <1>2, <1>3, <1>4, <1>5

(* The steps of select!.                                                    *)
LEMMA SelectCallMoves ==
  ASSUME WakeInvariant, Types, NEW t \in Threads,
         \/ SelectBegins(t)
         \/ SelectCall(t, "select_send", "send") /\ UNCHANGED <<version, sight, baseline>>
  PROVE  Moves(t)
<1>1. EndInv /\ Watches(t) /\ DOMAIN sight = Threads /\ DOMAIN baseline = Threads
  BY DEF WakeInvariant
<1>2. PICK operation \in {"select_send", "select_recv"}, side \in {"send", "recv"} :
        /\ SelectCall(t, operation, side) /\ (operation = "select_recv" => side = "recv")
        /\ sight' \in {sight, [sight EXCEPT ![t] = Unarmed]} /\ UNCHANGED <<version, baseline>>
  BY DEF SelectBegins
<1>3. Harmless(t) /\ ~Armed(t)' /\ pc'[t] = "probe"
  BY <1>1, <1>2, SelectCallEffect
<1>4. /\ DOMAIN sight' = Threads /\ \A u \in Threads \ {t} : sight'[u] = sight[u]
      /\ sight'[t] \in Int /\ sight'[t] <= version'
  BY <1>1, <1>2 DEF Watches, Unarmed, Types
<1>5. Frame(t)
  BY <1>1, <1>2, <1>3, <1>4, FrameStays DEF Harmless
<1>6. Attends(t)' /\ Watches(t)'
  BY <1>3, <1>4, Uninvolved
<1>. QED BY <1>3, <1>5, <1>6 DEF Moves

LEMMA ReadyMoves ==
  ASSUME WakeInvariant, Types, NEW t \in Threads, pc[t] \in {"probe", "probe_more"}, ArmReady(t),
         UNCHANGED probeVars, UNCHANGED <<version, sight, baseline>>
  PROVE  Moves(t)
<1>1. EndInv /\ Watches(t) /\ DOMAIN sight = Threads /\ DOMAIN baseline = Threads
  BY DEF WakeInvariant
<1>2. /\ Harmless(t) /\ \/ pc'[t] = "complete" /\ ~Armed(t)'
                        \/ pc'[t] = "decide" /\ Won(t)' # Unselected
  BY <1>1, ReadyEffect
<1>3. Frame(t)
  BY <1>1, <1>2, FrameStays DEF Harmless
<1>4. Armed(t)' => Armed(t)
  BY <1>1, <1>2, ReadyStep DEF Armed, EndInv
<1>5. Attends(t)' /\ Watches(t)'
  BY <1>1, <1>2, <1>4 DEF Attends, Watches
<1>. QED BY <1>2, <1>3, <1>5 DEF Moves

LEMMA ProbeMoves ==
  ASSUME WakeInvariant, Types, NEW t \in Threads, Probe(t)
  PROVE  Moves(t)
<1>1. /\ EndInv /\ EndTypes /\ ArmOf(t) /\ Watches(t)
      /\ DOMAIN sight = Threads /\ DOMAIN baseline = Threads
      /\ DOMAIN pc = Threads /\ DOMAIN op = Threads
  BY DEF WakeInvariant, EndInv, EndTypes
<1>2. pc[t] = "probe" /\ UNCHANGED probeVars /\ UNCHANGED <<version, sight, baseline>>
  BY DEF Probe, At, watchVars
<1>3. CASE op[t] = "select_send" \/ Senders = {}
  BY <1>2, <1>3, ReadyMoves DEF Probe
<1>4. CASE ~(op[t] = "select_send" \/ Senders = {})
  <2>1. /\ pc' = [pc EXCEPT ![t] = "probe_more"] /\ op' = op /\ UNCHANGED <<arm, selected>>
        /\ Senders # {}
    BY <1>4 DEF Probe, Step
  <2>2. Alone(t) /\ UNCHANGED localVars /\ pc'[t] = "probe_more" /\ op[t] = "select_recv"
    BY <1>1, <1>2, <1>4, <2>1 DEF Alone, localVars, quietVars, probeVars, ArmOf, SelectSteps
  <2>3. Harmless(t) /\ Keeps(t) /\ Armed(t)' = Armed(t)
    BY <1>1, <1>2, <2>1, <2>2, LookEffect
  <2>4. Frame(t) /\ Senders' = Senders
    BY <1>1, <1>2, <2>3, FrameStays DEF Harmless, Senders
  <2>5. Attends(t)' /\ Watches(t)'
    BY <1>1, <1>2, <2>1, <2>2, <2>3, <2>4 DEF Attends, Watches, Keeps, ArmDue
  <2>. QED BY <2>3, <2>4, <2>5 DEF Moves
<1>. QED BY <1>3, <1>4

LEMMA ProbeVersionMoves ==
  ASSUME WakeInvariant, Types, NEW t \in Threads, ProbeVersion(t)
  PROVE  Moves(t)
<1>1. /\ EndInv /\ ArmOf(t) /\ Watches(t) /\ DOMAIN sight = Threads /\ DOMAIN baseline = Threads
  BY DEF WakeInvariant, EndInv
<1>2. /\ pc[t] = "probe_more" /\ UNCHANGED probeVars /\ UNCHANGED <<version, baseline, held>>
  BY DEF ProbeVersion, At, probeVars
<1>3. CASE ArmReady(t) /\ UNCHANGED sight
  BY <1>2, <1>3, ReadyMoves
<1>4. CASE ~(ArmReady(t) /\ UNCHANGED sight)
  <2>1. /\ ArmNotReady(t) /\ version' = sight'[t]
        /\ \/ sight[t] = Unarmed /\ sight' = [sight EXCEPT ![t] = version]
           \/ sight' = sight
    BY <1>1, <1>2, <1>4 DEF ProbeVersion
  <2>2. op[t] = "select_recv"
    BY <1>1, <1>2 DEF ArmOf, SelectSteps
  <2>3. /\ Harmless(t)
        /\ \/ pc'[t] = "decide" /\ Armed(t) /\ Keeps(t)
           \/ pc'[t] = "idle" /\ ~Armed(t)'
           \/ pc'[t] = "enrol"
    BY <1>1, <1>2, <2>1, <2>2, NotReadyEffect
  <2>4. /\ DOMAIN sight' = Threads /\ \A u \in Threads \ {t} : sight'[u] = sight[u]
        /\ sight'[t] \in Nat
    BY <1>1, <1>2, <2>1 DEF Types
  <2>5. Frame(t)
    BY <1>1, <1>2, <2>4, FrameStays
  <2>6. CASE pc'[t] # "decide"
    <3>1. Attends(t)' /\ Watches(t)'
      BY <2>1, <2>3, <2>4, <2>6 DEF Attends, Watches, Unarmed
    <3>. QED BY <2>3, <2>5, <3>1 DEF Moves
  <2>7. CASE pc'[t] = "decide"
    <3>1. version = sight[t] /\ sight' = sight
      BY <1>1, <1>2, <2>1, <2>3, <2>7 DEF Watches
    <3>2. Senders' = Senders
      BY <1>2 DEF Senders
    <3>3. Attends(t)' /\ Watches(t)'
      BY <1>1, <1>2, <2>3, <2>7, <3>1, <3>2 DEF Attends, Watches, Keeps, ArmDue
    <3>. QED BY <2>3, <2>5, <3>3 DEF Moves
  <2>. QED BY <2>6, <2>7
<1>. QED BY <1>3, <1>4

LEMMA RegisterMoves ==
  ASSUME WakeInvariant, Types, NEW t \in Threads,
         RegisterSelect(t) \/ (PushArm(t, "push") /\ UNCHANGED watchVars)
  PROVE  Moves(t)
<1>1. /\ EndInv /\ EndTypes /\ ArmOf(t) /\ Watches(t)
      /\ DOMAIN sight = Threads /\ DOMAIN baseline = Threads
      /\ DOMAIN pc = Threads /\ DOMAIN op = Threads
  BY DEF WakeInvariant, EndInv, EndTypes
<1>2. pc[t] \in {"enrol", "enrol_more", "push"} /\ UNCHANGED <<version, sight, baseline, held>>
  BY DEF RegisterSelect, PushArm, At, localVars, quietVars, watchVars
<1>3. Frame(t)
  BY <1>1, <1>2, FrameStays
<1>4. Armed(t) /\ op[t] = "select_recv" /\ sight[t] # Unarmed
  BY <1>1, <1>2 DEF Armed, ArmOf, SelectSteps, Watches
<1>5. CASE RegisterSelect(t)
  <2>1. /\ Alone(t) /\ UNCHANGED localVars /\ op' = op /\ pc[t] \in {"enrol", "enrol_more"}
        /\ \/ pc'[t] = "probe" /\ ArmDue(t)
           \/ pc'[t] \in {"enrol_more", "push"}
    BY <1>1, <1>5 DEF RegisterSelect, Alone, Step, ArmDue, At
  <2>2. Harmless(t)
    BY <1>1, <1>4, <2>1, LookEffect
  <2>3. Attends(t)' /\ Watches(t)'
    BY <1>1, <1>2, <1>4, <2>1 DEF Attends, Watches, ArmDue, Senders
  <2>. QED BY <1>3, <2>2, <2>3 DEF Moves
<1>6. CASE PushArm(t, "push")
  <2>1. Harmless(t) /\ pc'[t] = "probe" /\ Live(ArmNode(t), "recv")'
    BY <1>1, <1>6, PushEffect
  <2>2. Attends(t)' /\ Watches(t)'
    BY <1>1, <1>2, <1>4, <2>1 DEF Attends, Watches
  <2>. QED BY <1>3, <2>1, <2>2 DEF Moves
<1>. QED BY <1>5, <1>6

LEMMA SelectMoves ==
  ASSUME WakeInvariant, Types, NEW t \in Threads, SelectStep(t), UNCHANGED watchVars
  PROVE  Moves(t)
<1>1. /\ EndInv /\ Watches(t) /\ DOMAIN sight = Threads /\ DOMAIN baseline = Threads
  BY DEF WakeInvariant
<1>2. /\ Harmless(t)
      /\ pc'[t] \in {"sleep", "abort", "walk", "judge", "probe", "idle", "complete"}
      /\ \/ pc[t] = "decide" /\ pc'[t] = "sleep" /\ Won(t) = Unselected /\ Keeps(t)
         \/ ~Armed(t)' /\ pc'[t] # "sleep"
  BY <1>1, SelectEffect
<1>3. UNCHANGED <<version, sight, baseline>>
  BY DEF watchVars
<1>4. Frame(t)
  BY <1>1, <1>2, <1>3, FrameStays DEF Harmless
<1>5. CASE ~Armed(t)'
  BY <1>1, <1>2, <1>3, <1>4, <1>5, Uninvolved DEF Watches, Moves
<1>6. CASE pc'[t] = "sleep"
  <2>1. Senders' = Senders /\ Armed(t)
    BY <1>2, <1>6 DEF Harmless, Senders, Armed
  <2>2. Attends(t)' /\ Watches(t)'
    BY <1>1, <1>2, <1>3, <1>6, <2>1 DEF Attends, Watches, Keeps, ArmDue
  <2>. QED BY <1>2, <1>4, <2>2 DEF Moves
<1>. QED BY <1>2, <1>5, <1>6

LEMMA OutsideMoves ==
  ASSUME WakeInvariant, Types, NEW t \in Threads, DeadlinePasses(t) \/ Spurious(t),
         UNCHANGED watchVars
  PROVE  Moves(t)
<1>1. EndInv /\ Watches(t) /\ Attends(t) /\ DOMAIN sight = Threads /\ DOMAIN baseline = Threads
  BY DEF WakeInvariant
<1>2. /\ Harmless(t) /\ Keeps(t) /\ arm'[t].turn = arm[t].turn
      /\ UNCHANGED <<pc, op, held, version, sight, baseline>>
  BY <1>1, OutsideEffect DEF watchVars
<1>3. Frame(t)
  BY <1>1, <1>2, FrameStays
<1>4. Attends(t)' /\ Watches(t)'
  BY <1>1, <1>2, <1>3, Onlooker DEF Frame, Types
<1>. QED BY <1>2, <1>3, <1>4 DEF Moves

(* The steps put together.                                                  *)
LEMMA MovesInv ==
  ASSUME WakeInvariant, Types, NEW t \in Threads, Moves(t)
  PROVE  WakeInvariant'
<1>1. EndInv' /\ Drained'
  BY HarmlessInv DEF WakeInvariant, Moves
<1>2. ASSUME NEW u \in Threads \ {t} PROVE Attends(u)' /\ Watches(u)'
  <2>1. /\ EndTypes /\ ArmOf(u) /\ Attends(u) /\ Watches(u) /\ Steady(u) /\ Growing
        /\ pc'[u] = pc[u] /\ arm'[u].turn = arm[u].turn /\ sight'[u] = sight[u]
        /\ baseline'[u] = baseline[u] /\ Forward /\ (Same \/ News) /\ version \in Nat
    BY DEF WakeInvariant, EndInv, Moves, Harmless, Mild, Frame, Types
  <2>. QED BY <2>1, SteadyKeeps, Onlooker
<1>. QED BY <1>1, <1>2 DEF WakeInvariant, Moves, Frame

LEMMA OthersMove ==
  ASSUME WakeInvariant, Types, UNCHANGED <<version, sight, baseline>>, EndInv', Drained',
         Senders = {} => Senders' = {}, News \/ (Senders' = {} => Senders = {}),
         \A u \in Threads : \/ Keeps(u) /\ pc'[u] = pc[u] /\ arm'[u].turn = arm[u].turn
                            \/ ~Armed(u)' /\ pc'[u] \notin {"recheck", "retest", "park"}
  PROVE  WakeInvariant'
<1>1. Forward /\ (Same \/ News) /\ version \in Nat
  BY DEF Forward, Same, Types
<1>2. ASSUME NEW u \in Threads PROVE Attends(u)' /\ Watches(u)'
  <2>1. Attends(u) /\ Watches(u)
    BY DEF WakeInvariant
  <2>2. CASE ~Armed(u)' /\ pc'[u] \notin {"recheck", "retest", "park"}
    BY <2>1, <2>2, Uninvolved DEF Watches
  <2>3. CASE Keeps(u) /\ pc'[u] = pc[u] /\ arm'[u].turn = arm[u].turn
    BY <1>1, <2>1, <2>3, Onlooker
  <2>. QED BY <2>2, <2>3
<1>. QED BY <1>2 DEF WakeInvariant

LEMMA WakeInductive ==
  ASSUME WakeInvariant, Types, [Next]_vars
  PROVE  WakeInvariant'
<1>0. EndInv /\ Drained
  BY DEF WakeInvariant
<1>1. CASE UNCHANGED vars
  <2>1. UNCHANGED <<waiterVars, endVars, version, sight, baseline>>
    BY <1>1 DEF vars, watchVars
  <2>2. EndInv' /\ Drained' /\ \A u \in Threads : Keeps(u)
    BY <1>0, <2>1, StutterEffect
  <2>3. Senders' = Senders
    BY <2>1 DEF Senders, endVars
  <2>. QED BY <2>1, <2>2, <2>3, OthersMove DEF endVars
<1>2. CASE Over
  BY <1>1, <1>2 DEF Over
<1>. SUFFICES ASSUME NEW t \in Threads, WatchStep(t) \/ WatchChance(t)
              PROVE  WakeInvariant'
  BY <1>1, <1>2 DEF Next
<1>3. CASE Plainly(t)
  BY <1>3, PlainlyMoves, MovesInv
<1>4. CASE Bump(t)
  BY <1>4, BumpMoves, MovesInv
<1>5. CASE \/ /\ Enlist(t, "recheck") \/ ParkReturns(t, "park", "again") \/ Again(t, "await")
              /\ UNCHANGED watchVars
           \/ ReturnChange(t) \/ Recheck(t)
  BY <1>5, ListMoves, MovesInv
<1>6. CASE \/ SelectBegins(t)
           \/ SelectCall(t, "select_send", "send") /\ UNCHANGED <<version, sight, baseline>>
  BY <1>6, SelectCallMoves, MovesInv
<1>7. CASE Probe(t) \/ ProbeVersion(t)
  BY <1>7, ProbeMoves, ProbeVersionMoves, MovesInv
<1>8. CASE RegisterSelect(t) \/ (PushArm(t, "push") /\ UNCHANGED watchVars)
  BY <1>8, RegisterMoves, MovesInv
<1>9. CASE SelectStep(t) /\ UNCHANGED watchVars
  BY <1>9, SelectMoves, MovesInv
<1>10. CASE (DeadlinePasses(t) \/ Spurious(t)) /\ UNCHANGED watchVars
  BY <1>10, OutsideMoves, MovesInv
<1>11. CASE (DropSender(t) \/ DropReceiver(t)) /\ UNCHANGED watchVars
  BY <1>0, <1>11, DropEffect, OthersMove DEF watchVars
<1>12. CASE \E u \in Threads : Clone(t, u)
  <2>1. PICK x \in Threads : Clone(t, x)
    BY <1>12
  <2>2. CloneHandle(t, x) /\ UNCHANGED <<version, sight, baseline>>
    BY <2>1 DEF Clone
  <2>3. /\ EndInv' /\ Drained' /\ UNCHANGED arm /\ pc'[x] = "idle" /\ ~Armed(x)'
        /\ (Senders' = {}) = (Senders = {})
        /\ \A u \in Threads \ {x} : Keeps(u) /\ pc'[u] = pc[u]
    BY <1>0, <2>2, CloneEffect
  <2>. QED BY <2>2, <2>3, OthersMove
<1>13. CASE SendCall(t)
  <2>1. UNCHANGED <<version, value, cursor, sight, baseline>>
    BY <1>13 DEF SendCall
  <2>2. \/ \E operation \in {"send", "mark_changed"} : Call(t, operation, "send", "check")
        \/ SelectCall(t, "select_send", "send")
    BY <1>13 DEF SendCall
  <2>3. Plainly(t) \/ SelectCall(t, "select_send", "send")
    BY <2>1, <2>2 DEF Plainly
  <2>. QED BY <1>3, <1>6, <2>1, <2>3
<1>14. CASE WakeStep(t) /\ UNCHANGED endVars /\ UNCHANGED watchVars
  <2>1. EndInv' /\ Drained' /\ \A u \in Threads : Keeps(u)
    BY <1>0, <1>14, WakeEffect
  <2>2. Senders' = Senders
    BY <1>14 DEF Senders, endVars
  <2>. QED BY <1>14, <2>1, <2>2, OthersMove DEF endVars, watchVars
<1>. QED BY <1>3, <1>4, <1>5, <1>6, <1>7, <1>8, <1>9, <1>10, <1>11, <1>12, <1>13, <1>14
         DEF WatchStep, SendStep, WatchChance, Plainly

LEMMA WatchWakes == Spec => []WakeInvariant
<1>1. Init => WakeInvariant
  <2>. SUFFICES ASSUME Init PROVE WakeInvariant
    OBVIOUS
  <2>1. EndInv /\ \A t \in Threads : pc[t] \in {"idle", "unborn"} /\ ToSet(calls[t]) = {}
    BY EndpointInitial DEF Init
  <2>2. \A t \in Threads : ~Armed(t)
    BY <2>1 DEF EndInv, ArmOf, Armed, SelectSteps
  <2>3. \A t \in Threads : Attends(t) /\ Watches(t)
    BY <2>1, <2>2 DEF Init, WatchInit, Attends, Watches, Unarmed
  <2>. QED BY <2>1, <2>3 DEF Init, WatchInit, WakeInvariant, Drained, AllOrNone
<1>2. WakeInvariant /\ WatchInv /\ [Next]_vars => WakeInvariant'
  BY WakeInductive DEF WatchInv
<1>. QED BY <1>1, <1>2, WatchInvariant, PTL DEF Spec

(* A parked call of changed and a sleeping select call learn of every       *)
(* version that they wait for, and of the drop of the last sender.          *)
THEOREM WatchLosesNoWakeup == Spec => []NoLostWakeup
<1>1. WakeInvariant => NoLostWakeup
  <2>. SUFFICES ASSUME WakeInvariant, NEW t \in Threads
                PROVE  /\ pc[t] = "park" /\ Due(t) => permit[t] \/ \E u \in Threads : WillUnpark(u, t)
                       /\ pc[t] = "sleep" /\ ArmDue(t)
                            => permit[t] \/ \E u \in Threads : WillSelect(u, t)
    BY DEF NoLostWakeup
  <2>1. Attends(t) /\ Watches(t) /\ ArmOf(t) /\ EndTypes
    BY DEF WakeInvariant, EndInv
  <2>2. Woken(t, "recv") => permit[t] \/ \E u \in Threads : WillUnpark(u, t)
    BY DEF Woken, Wakes, WillUnpark, ToSet
  <2>. QED BY <2>1, <2>2, WillBeSelected DEF Attends, Watches, Due
<1>. QED BY <1>1, WatchWakes, PTL

-----------------------------------------------------------------------------
(* The bounds: the versions and the sends under way are together no more    *)
(* than the items of the program, and every value is an argument of a send. *)
Position(t) ==
  /\ pc[t] \in {"check", "store", "bump"} => op[t] \in {"send", "mark_changed"}
  /\ baseline[t] <= version
  /\ sight[t] \in Int /\ Unarmed <= sight[t] /\ sight[t] <= version

Bounded ==
  /\ DOMAIN sight = Threads /\ program \in Programs
  /\ version + Cardinality(BumpsUnderWay) <= program.items
  /\ value \in Versions /\ shown \subseteq Versions /\ sending \in [Threads -> Versions]
  /\ \A t \in Threads : Position(t)

(* A step that neither bumps nor stores, and begins no send.                *)
Paces(t) ==
  /\ UNCHANGED <<program, version, value, sending, shown>> /\ DOMAIN sight' = Threads
  /\ \A u \in Threads \ {t} :
       pc'[u] = pc[u] /\ op'[u] = op[u] /\ sight'[u] = sight[u] /\ baseline'[u] = baseline[u]
  /\ op'[t] \in {"send", "mark_changed", "select_send"}
       => op[t] \in {"send", "mark_changed", "select_send"}
  /\ Position(t)'

LEMMA PacesBounded ==
  ASSUME Types, Bounded, NEW t \in Threads, Paces(t)
  PROVE  Bounded'
<1>1. BumpsUnderWay' \subseteq BumpsUnderWay /\ BumpsUnderWay \subseteq Threads
  BY DEF Paces, BumpsUnderWay
<1>2. /\ Cardinality(BumpsUnderWay') <= Cardinality(BumpsUnderWay)
      /\ Cardinality(BumpsUnderWay) \in Nat /\ Cardinality(BumpsUnderWay') \in Nat
  BY <1>1, FewThreads
<1>3. version \in Nat /\ program.items \in Nat
  BY ProgramAssumption DEF Types, Bounded
<1>4. version' + Cardinality(BumpsUnderWay') <= program'.items
  BY <1>2, <1>3 DEF Bounded, Paces
<1>5. \A u \in Threads : Position(u)'
  BY DEF Bounded, Paces, Position
<1>. QED BY <1>4, <1>5 DEF Bounded, Paces, Versions

Within == Types /\ Behind /\ Bounded /\ EndTypes /\ Orderly(Steps)

LEMMA StepsOfWatch ==
  /\ SelectSteps \cup {"complete", "idle"} \subseteq Steps /\ "idle" \in Steps /\ "probe" \in Steps
  /\ "return" \in Steps
  /\ {"check", "store", "bump", "count", "arm", "await", "test", "enlist", "recheck", "retest",
      "park", "again"} \subseteq Steps \ {"idle", "unborn"}
  /\ {"probe", "probe_more", "enrol_more", "push"} \subseteq Steps \ {"idle", "unborn"}
<1>1. "probe" \in SelectSteps
  BY DEF SelectSteps
<1>2. {"check", "store", "bump", "count", "arm", "await"} \subseteq Steps \ {"idle", "unborn"}
  BY DEF Steps
<1>3. {"test", "enlist", "recheck", "retest", "park", "again"} \subseteq Steps \ {"idle", "unborn"}
  BY DEF Steps
<1>4. {"probe", "probe_more", "enrol_more", "push"} \subseteq Steps \ {"idle", "unborn"}
  BY DEF Steps, SelectSteps
<1>. QED BY <1>1, <1>2, <1>3, <1>4 DEF Steps

(* Calls and tests.                                                         *)
LEMMA CallPaces ==
  ASSUME Within, NEW t \in Threads,
         \/ Check(t) \/ CountSenders(t) \/ ArmCursor(t) \/ AwaitVersion(t) \/ AwaitSenders(t)
         \/ Recheck(t) \/ RegisterSelect(t) \/ CompleteSend(t) \/ CompleteRecv(t) \/ ChangedCall(t)
  PROVE  Paces(t) /\ Orderly(Steps)'
<1>0. /\ Orderly(Steps) /\ DOMAIN pc = Threads /\ DOMAIN op = Threads /\ DOMAIN sight = Threads
      /\ Position(t) /\ version \in Nat /\ cursor[t] \in Nat /\ cursor[t] <= version
      /\ baseline \in [Threads -> Nat]
  BY DEF Within, Orderly, Bounded, Types, Behind
<1>. USE DEF At, Step, Answer, Finish, Paces, Position, watchVars, localVars, quietVars, history
<1>1. Timed
  <2>1. CASE \/ Check(t) \/ CountSenders(t) \/ ArmCursor(t) \/ AwaitVersion(t) \/ AwaitSenders(t)
             \/ Recheck(t) \/ RegisterSelect(t)
    BY <2>1 DEF Check, CheckReceivers, CountSenders, ArmCursor, AwaitVersion, AwaitSenders, Recheck,
                RegisterSelect, Timed
  <2>2. CASE CompleteSend(t) \/ CompleteRecv(t) \/ ChangedCall(t)
    BY <2>2 DEF CompleteSend, CompleteRecv, ChangedCall, CompleteBy, Call, Timed
  <2>. QED BY <2>1, <2>2
<1>2. CASE Check(t)
  <2>1. Paces(t)
    BY <1>0, <1>2 DEF Check, CheckReceivers
  <2>2. Finish(t) \/ \E to \in {"store", "bump"} : Step(t, to)
    BY <1>2 DEF Check, CheckReceivers
  <2>. QED BY <1>0, <1>1, <2>1, <2>2, StepsOfWatch, OrderlyStep, OrderlyFinish
<1>3. CASE CountSenders(t) \/ AwaitSenders(t)
  <2>1. Paces(t)
    BY <1>0, <1>3 DEF CountSenders, AwaitSenders
  <2>2. Answer(t, "disconnected") \/ \E to \in {"arm", "enlist"} : Step(t, to)
    BY <1>3 DEF CountSenders, AwaitSenders
  <2>3. "disconnected" \in Verdicts
    BY DEF Verdicts
  <2>. QED BY <1>0, <1>1, <2>1, <2>2, <2>3, StepsOfWatch, OrderlyStep, OrderlyAnswer
<1>4. CASE ArmCursor(t)
  <2>1. Paces(t)
    BY <1>0, <1>4 DEF ArmCursor, WaitFrom
  <2>2. Step(t, "await")
    BY <1>4 DEF ArmCursor
  <2>. QED BY <1>0, <1>1, <2>1, <2>2, StepsOfWatch, OrderlyStep
<1>5. CASE AwaitVersion(t)
  <2>1. Paces(t)
    BY <1>0, <1>5 DEF AwaitVersion
  <2>2. Answer(t, "ok") \/ Step(t, "test")
    BY <1>5 DEF AwaitVersion
  <2>3. "ok" \in Verdicts
    BY DEF Verdicts
  <2>. QED BY <1>0, <1>1, <2>1, <2>2, <2>3, StepsOfWatch, OrderlyStep, OrderlyAnswer
<1>6. CASE Recheck(t)
  <2>1. Paces(t)
    BY <1>0, <1>6 DEF Recheck
  <2>2. PICK to \in {"again", "retest", "park"} : Step(t, to)
    BY <1>6 DEF Recheck
  <2>3. to \in Steps \ {"idle", "unborn"}
    BY StepsOfWatch
  <2>. QED BY <1>0, <1>1, <2>1, <2>2, <2>3, OrderlyStep
<1>7. CASE RegisterSelect(t)
  <2>1. Paces(t)
    BY <1>0, <1>7 DEF RegisterSelect
  <2>2. PICK to \in {"probe", "enrol_more", "push"} : Step(t, to)
    BY <1>7 DEF RegisterSelect
  <2>3. to \in Steps \ {"idle", "unborn"}
    BY StepsOfWatch
  <2>. QED BY <1>0, <1>1, <2>1, <2>2, <2>3, OrderlyStep
<1>8. CASE CompleteSend(t)
  <2>1. CompleteBy(t, "send", "check") /\ UNCHANGED watchVars /\ op[t] = "select_send"
    BY <1>8 DEF CompleteSend
  <2>2. Paces(t)
    BY <1>0, <2>1 DEF CompleteBy
  <2>. QED BY <1>0, <2>1, <2>2, StepsOfWatch, OrderlyCall
<1>9. CASE CompleteRecv(t)
  <2>1. CompleteBy(t, "complete", "await")
    BY <1>9 DEF CompleteRecv
  <2>2. Paces(t)
    BY <1>0, <1>9 DEF CompleteRecv, CompleteBy, WaitFrom, Unarmed
  <2>. QED BY <1>0, <2>1, <2>2, StepsOfWatch, OrderlyCall
<1>10. CASE ChangedCall(t)
  <2>1. Call(t, "changed", "recv", "count")
    BY <1>10 DEF ChangedCall
  <2>2. Paces(t)
    BY <1>0, <1>10 DEF ChangedCall, Call
  <2>. QED BY <1>0, <2>1, <2>2, StepsOfWatch, OrderlyCall
<1>. QED BY <1>2, <1>3, <1>4, <1>5, <1>6, <1>7, <1>8, <1>9, <1>10

(* The probes of select!, the registration, the park, the end of a call,    *)
(* and what happens outside any call.                                       *)
LEMMA WaitPaces ==
  ASSUME Within, NEW t \in Threads,
         \/ SelectBegins(t) \/ Probe(t) \/ ProbeVersion(t) \/ ReturnChange(t)
         \/ /\ \/ Enlist(t, "recheck") \/ ParkReturns(t, "park", "again") \/ Again(t, "await")
               \/ PushArm(t, "push") \/ SelectStep(t) \/ (WakeStep(t) /\ UNCHANGED endVars)
               \/ DeadlinePasses(t) \/ DropSender(t) \/ DropReceiver(t) \/ Spurious(t)
            /\ UNCHANGED watchVars
  PROVE  Paces(t) /\ Orderly(Steps)'
<1>0. /\ Orderly(Steps) /\ EndTypes /\ DOMAIN pc = Threads /\ DOMAIN op = Threads
      /\ DOMAIN sight = Threads /\ Position(t) /\ version \in Nat /\ baseline \in [Threads -> Nat]
  BY DEF Within, Orderly, Bounded, Types
<1>. USE DEF At, Step, Answer, Finish, Paces, Position, watchVars, localVars, quietVars, history
<1>1. CASE SelectBegins(t)
  <2>1. Paces(t)
    BY <1>0, <1>1 DEF SelectBegins, SelectCall, probeVars, Unarmed
  <2>. QED BY <1>0, <1>1, <2>1, StepsOfWatch, OrderlySelectCall DEF SelectBegins
<1>2. CASE Probe(t)
  <2>1. CASE ArmReady(t)
    <3>1. Paces(t)
      BY <1>0, <1>2, <2>1 DEF Probe, ArmReady, CompleteArm, Proceed, probeVars
    <3>. QED BY <1>0, <1>2, <2>1, <3>1, StepsOfWatch, OrderlyProbe DEF Probe, probeVars
  <2>2. CASE Step(t, "probe_more") /\ UNCHANGED <<arm, selected>>
    <3>1. Paces(t) /\ Timed
      BY <1>0, <1>2, <2>2 DEF Probe, probeVars, Timed
    <3>. QED BY <1>0, <2>2, <3>1, StepsOfWatch, OrderlyStep
  <2>. QED BY <1>2, <2>1, <2>2 DEF Probe
<1>3. CASE ProbeVersion(t)
  <2>0. /\ UNCHANGED <<program, spurious, version, value, baseline, sending, shown>> /\ pc[t] = "probe_more"
        /\ DOMAIN sight' = Threads /\ \A u \in Threads \ {t} : sight'[u] = sight[u]
        /\ sight'[t] \in Int /\ Unarmed <= sight'[t] /\ sight'[t] <= version
    BY <1>0, <1>3 DEF ProbeVersion, probeVars, history, Unarmed
  <2>1. CASE ArmReady(t)
    <3>1. Paces(t)
      BY <1>0, <2>0, <2>1 DEF ArmReady, CompleteArm, Proceed
    <3>. QED BY <1>0, <2>0, <2>1, <3>1, StepsOfWatch, OrderlyProbe
  <2>2. CASE ArmNotReady(t)
    <3>1. Paces(t)
      BY <1>0, <2>0, <2>2 DEF ArmNotReady, TakeDefault, Proceed
    <3>. QED BY <1>0, <2>0, <2>2, <3>1, StepsOfWatch, OrderlyProbe
  <2>. QED BY <1>3, <2>1, <2>2 DEF ProbeVersion
<1>4. CASE ReturnChange(t)
  <2>1. Paces(t)
    BY <1>0, <1>4 DEF ReturnChange, Return, WaitFrom
  <2>. QED BY <1>0, <1>4, <2>1, StepsOfWatch, OrderlyWait DEF ReturnChange
<1>5. CASE /\ Enlist(t, "recheck") \/ ParkReturns(t, "park", "again") \/ Again(t, "await")
           /\ UNCHANGED watchVars
  <2>1. Paces(t)
    BY <1>0, <1>5 DEF Enlist, ParkReturns, Again
  <2>. QED BY <1>0, <1>5, <2>1, StepsOfWatch, OrderlyWait
<1>6. CASE PushArm(t, "push") /\ UNCHANGED watchVars
  <2>1. Paces(t)
    BY <1>0, <1>6 DEF PushArm
  <2>. QED BY <1>0, <1>6, <2>1, StepsOfWatch, OrderlyPush
<1>7. CASE SelectStep(t) /\ UNCHANGED watchVars
  <2>1. ASSUME Decide(t) \/ WakeUp(t) PROVE Paces(t)
    BY <1>0, <1>7, <2>1 DEF Decide, WakeUp
  <2>2. ASSUME AbortLoad(t) \/ Walk(t) PROVE Paces(t)
    BY <1>0, <1>7, <2>2 DEF AbortLoad, Walk, Proceed
  <2>3. ASSUME Judge(t) PROVE Paces(t)
    BY <1>0, <1>7, <2>3 DEF Judge, CompleteArm, TakeDefault, Proceed, probeVars
  <2>4. Paces(t)
    BY <1>7, <2>1, <2>2, <2>3 DEF SelectStep
  <2>. QED BY <1>0, <1>7, <2>4, StepsOfWatch, OrderlySelect
<1>8. CASE WakeStep(t) /\ UNCHANGED endVars /\ UNCHANGED watchVars
  <2>1. Paces(t)
    BY <1>0, <1>8 DEF endVars
  <2>. QED BY <1>0, <1>8, <2>1, OrderlyUnchanged
<1>9. CASE /\ DeadlinePasses(t) \/ DropSender(t) \/ DropReceiver(t) \/ Spurious(t)
           /\ UNCHANGED watchVars
  <2>1. Paces(t)
    BY <1>0, <1>9 DEF DeadlinePasses, DropSender, DropReceiver, DropHandle, Spurious
  <2>. QED BY <1>0, <1>9, <2>1, StepsOfWatch, OrderlyChance
<1>. QED BY <1>1, <1>2, <1>3, <1>4, <1>5, <1>6, <1>7, <1>8, <1>9

(* A clone; and the three steps of a send that count.                       *)
LEMMA ClonePaces ==
  ASSUME Within, NEW t \in Threads, NEW x \in Threads, Clone(t, x)
  PROVE  Paces(x) /\ Orderly(Steps)'
<1>0. /\ Orderly(Steps) /\ EndTypes /\ DOMAIN pc = Threads /\ DOMAIN op = Threads
      /\ DOMAIN sight = Threads /\ Position(x)
  BY DEF Within, Orderly, Bounded
<1>1. CloneHandle(t, x)
  BY DEF Clone
<1>2. Paces(x)
  BY <1>0 DEF Clone, CloneHandle, Step, Paces, Position, history
<1>. QED BY <1>0, <1>1, <1>2, StepsOfWatch, OrderlyChance

LEMMA StoreBounded ==
  ASSUME Within, NEW t \in Threads, StoreValue(t)
  PROVE  Bounded' /\ Orderly(Steps)'
<1>1. /\ pc[t] = "store" /\ Step(t, "bump") /\ value' = sending[t] /\ shown' = shown \cup {sending[t]}
      /\ UNCHANGED <<localVars, op, version, sight, baseline, sending>>
  BY DEF StoreValue, At, Step
<1>2. /\ Orderly(Steps) /\ DOMAIN pc = Threads /\ Bounded
  BY DEF Within, Orderly
<1>3. /\ pc'[t] = "bump" /\ \A u \in Threads \ {t} : pc'[u] = pc[u]
  BY <1>1, <1>2 DEF Step
<1>4. \A u \in Threads : Position(u)'
  BY <1>1, <1>2, <1>3 DEF Bounded, Position
<1>5. BumpsUnderWay' = BumpsUnderWay
  BY <1>1 DEF BumpsUnderWay
<1>6. Bounded'
  BY <1>1, <1>2, <1>4, <1>5 DEF Bounded, Versions, localVars, quietVars
<1>7. Timed
  BY <1>1 DEF localVars, quietVars, Timed
<1>. QED BY <1>1, <1>2, <1>6, <1>7, StepsOfWatch, OrderlyStep

LEMMA BumpBounded ==
  ASSUME Within, NEW t \in Threads, Bump(t)
  PROVE  Bounded' /\ Orderly(Steps)'
<1>1. /\ pc[t] = "bump" /\ Finish(t) /\ version' = version + 1 /\ UNCHANGED quietVars
      /\ sending' = [sending EXCEPT ![t] = 0] /\ UNCHANGED <<value, sight, baseline, shown>>
  BY DEF Bump, At
<1>2. /\ Orderly(Steps) /\ DOMAIN pc = Threads /\ DOMAIN op = Threads /\ Bounded
      /\ version \in Nat /\ baseline \in [Threads -> Nat]
      /\ program.items \in Nat
  BY ProgramAssumption DEF Within, Orderly, Types, Bounded
<1>3. /\ pc'[t] = "idle" /\ op'[t] = "none"
      /\ \A u \in Threads \ {t} : pc'[u] = pc[u] /\ op'[u] = op[u]
  BY <1>1, <1>2 DEF Finish
<1>4. op[t] \in {"send", "mark_changed"}
  BY <1>1, <1>2 DEF Bounded, Position
<1>5. /\ t \in BumpsUnderWay /\ t \notin BumpsUnderWay' /\ BumpsUnderWay' \subseteq BumpsUnderWay
      /\ BumpsUnderWay \subseteq Threads
  BY <1>3, <1>4 DEF BumpsUnderWay
<1>6. /\ Cardinality(BumpsUnderWay') + 1 <= Cardinality(BumpsUnderWay)
      /\ Cardinality(BumpsUnderWay) \in Nat /\ Cardinality(BumpsUnderWay') \in Nat
  BY <1>5, FewThreads
<1>7. version' + Cardinality(BumpsUnderWay') <= program.items
  BY <1>1, <1>2, <1>6 DEF Bounded
<1>8. \A u \in Threads : Position(u)'
  BY <1>1, <1>2, <1>3 DEF Bounded, Position
<1>9. 0 \in Versions
  BY <1>2 DEF Versions
<1>10. Bounded'
  BY <1>1, <1>2, <1>7, <1>8, <1>9 DEF Bounded, Versions, quietVars
<1>11. Timed
  BY <1>1 DEF quietVars, Timed
<1>. QED BY <1>1, <1>2, <1>10, <1>11, StepsOfWatch, OrderlyFinish

LEMMA SendBounded ==
  ASSUME Within, NEW t \in Threads, SendCall(t)
  PROVE  Bounded' /\ Orderly(Steps)'
<1>1. /\ version + Cardinality(BumpsUnderWay) < program.items
      /\ UNCHANGED <<program, version, value, sight, baseline, shown>>
      /\ sending' \in {[sending EXCEPT ![t] = v] : v \in {0, version + Cardinality(BumpsUnderWay) + 1}}
  BY DEF SendCall, Call, SelectCall, localVars, quietVars, probeVars, history
<1>2. /\ Orderly(Steps) /\ EndTypes /\ DOMAIN pc = Threads /\ DOMAIN op = Threads /\ Bounded
      /\ version \in Nat /\ program.items \in Nat
  BY ProgramAssumption DEF Within, Orderly, Types, Bounded
<1>3. PICK operation \in {"send", "mark_changed", "select_send"}, step \in {"check", "probe"} :
        /\ \/ step = "check" /\ operation # "select_send" /\ Call(t, operation, "send", step)
           \/ step = "probe" /\ SelectCall(t, operation, "send")
        /\ pc[t] = "idle" /\ pc' = [pc EXCEPT ![t] = step] /\ op' = [op EXCEPT ![t] = operation]
  <2>1. CASE \E operation \in {"send", "mark_changed"} : Call(t, operation, "send", "check")
    BY <2>1 DEF Call, At
  <2>2. CASE SelectCall(t, "select_send", "send")
    BY <2>2 DEF SelectCall, At
  <2>. QED BY <2>1, <2>2 DEF SendCall
<1>4. /\ BumpsUnderWay' \subseteq BumpsUnderWay \cup {t} /\ BumpsUnderWay \subseteq Threads
      /\ BumpsUnderWay \cup {t} \subseteq Threads
  BY <1>2, <1>3 DEF BumpsUnderWay
<1>5. /\ Cardinality(BumpsUnderWay') <= Cardinality(BumpsUnderWay) + 1
      /\ Cardinality(BumpsUnderWay) \in Nat /\ Cardinality(BumpsUnderWay') \in Nat
  <2>1. Cardinality(BumpsUnderWay') <= Cardinality(BumpsUnderWay \cup {t})
    BY <1>4, FewThreads
  <2>2. IsFiniteSet(BumpsUnderWay)
    BY <1>4, EndpointAssumption, FS_Subset
  <2>3. Cardinality(BumpsUnderWay \cup {t}) \in {Cardinality(BumpsUnderWay), Cardinality(BumpsUnderWay) + 1}
    BY <2>2, FS_AddElement
  <2>4. BumpsUnderWay' \subseteq Threads
    BY <1>4
  <2>5. Cardinality(BumpsUnderWay) \in Nat /\ Cardinality(BumpsUnderWay') \in Nat
    BY <1>4, <2>4, FewThreads
  <2>. QED BY <2>1, <2>3, <2>5
<1>6. version' + Cardinality(BumpsUnderWay') <= program'.items
  BY <1>1, <1>2, <1>5
<1>7. \A u \in Threads : Position(u)'
  BY <1>1, <1>2, <1>3 DEF Bounded, Position
<1>8. Bounded'
  <2>1. sending' \in [Threads -> Versions] /\ Versions' = Versions
    BY <1>1, <1>2, <1>5 DEF Bounded, Versions
  <2>. QED BY <1>1, <1>2, <1>6, <1>7, <2>1 DEF Bounded
<1>9. Orderly(Steps)'
  <2>1. CASE step = "check"
    BY <1>2, <1>3, <2>1, StepsOfWatch, OrderlyCall
  <2>2. CASE step = "probe"
    BY <1>2, <1>3, <2>2, StepsOfWatch, OrderlySelectCall
  <2>. QED BY <2>1, <2>2
<1>. QED BY <1>8, <1>9

LEMMA BoundedInductive ==
  ASSUME Within, [Next]_vars
  PROVE  Bounded' /\ Orderly(Steps)'
<1>0. Types /\ Bounded /\ Orderly(Steps)
  BY DEF Within
<1>1. CASE UNCHANGED vars
  <2>1. Orderly(Steps)'
    BY <1>0, <1>1, OrderlyUnchanged DEF vars
  <2>2. BumpsUnderWay' = BumpsUnderWay
    BY <1>1 DEF BumpsUnderWay, vars, endVars
  <2>3. \A u \in Threads : Position(u)'
    BY <1>0, <1>1 DEF Bounded, Position, vars, endVars, watchVars
  <2>. QED BY <1>0, <1>1, <2>1, <2>2, <2>3 DEF Bounded, Versions, vars, endVars, watchVars
<1>2. CASE Over
  BY <1>1, <1>2 DEF Over
<1>3. ASSUME NEW t \in Threads, Paces(t) /\ Orderly(Steps)' PROVE Bounded' /\ Orderly(Steps)'
  BY <1>0, <1>3, PacesBounded
<1>. SUFFICES ASSUME NEW t \in Threads, WatchStep(t) \/ WatchChance(t)
              PROVE  Bounded' /\ Orderly(Steps)'
  BY <1>1, <1>2 DEF Next
<1>4. CASE \/ Check(t) \/ CountSenders(t) \/ ArmCursor(t) \/ AwaitVersion(t) \/ AwaitSenders(t)
           \/ Recheck(t) \/ RegisterSelect(t) \/ CompleteSend(t) \/ CompleteRecv(t) \/ ChangedCall(t)
  BY <1>3, <1>4, CallPaces
<1>5. CASE \/ SelectBegins(t) \/ Probe(t) \/ ProbeVersion(t) \/ ReturnChange(t)
           \/ /\ \/ Enlist(t, "recheck") \/ ParkReturns(t, "park", "again") \/ Again(t, "await")
                 \/ PushArm(t, "push") \/ SelectStep(t) \/ (WakeStep(t) /\ UNCHANGED endVars)
                 \/ DeadlinePasses(t) \/ DropSender(t) \/ DropReceiver(t) \/ Spurious(t)
              /\ UNCHANGED watchVars
  BY <1>3, <1>5, WaitPaces
<1>6. CASE StoreValue(t) \/ Bump(t) \/ SendCall(t)
  BY <1>6, StoreBounded, BumpBounded, SendBounded
<1>7. CASE \E x \in Threads : Clone(t, x)
  BY <1>3, <1>7, ClonePaces
<1>. QED BY <1>4, <1>5, <1>6, <1>7 DEF WatchStep, SendStep, WatchChance

LEMMA BoundedInitial ==
  ASSUME Init
  PROVE  Bounded /\ Orderly(Steps)
<1>1. {"idle", "unborn"} \subseteq Steps
  BY DEF Steps
<1>2. Orderly(Steps)
  BY <1>1, OrderlyInitial DEF Init
<1>3. /\ \A t \in Threads : pc[t] \in {"idle", "unborn"} /\ op[t] = "none"
      /\ program \in Programs /\ version = 0 /\ value = 0 /\ DOMAIN sight = Threads
      /\ shown = {0} /\ sending = [t \in Threads |-> 0]
      /\ \A t \in Threads : baseline[t] = 0 /\ sight[t] = Unarmed
  BY DEF Init, EndpointInit, WatchInit
<1>4. BumpsUnderWay = {}
  BY <1>3 DEF BumpsUnderWay
<1>5. Cardinality(BumpsUnderWay) = 0 /\ program.items \in Nat /\ 0 \in Versions
  BY <1>3, <1>4, FS_EmptySet, ProgramAssumption DEF Versions
<1>6. \A t \in Threads : Position(t)
  BY <1>3 DEF Position, Unarmed
<1>7. Bounded
  BY <1>3, <1>5, <1>6 DEF Bounded
<1>. QED BY <1>2, <1>7

LEMMA WithinTypes ==
  ASSUME Within
  PROVE  TypeOK
<1>1. Types /\ Behind /\ Bounded /\ EndpointTypeOK /\ program.items \in Nat
  BY EndpointTypes, ProgramAssumption DEF Within, EndTypes
<1>2. Cardinality(BumpsUnderWay) \in Nat
  BY FewThreads DEF BumpsUnderWay
<1>3. version \in Versions
  BY <1>1, <1>2 DEF Types, Bounded, Versions
<1>4. ASSUME NEW t \in Threads
      PROVE  /\ {cursor[t], baseline[t], since[t]} \subseteq 0 .. version
             /\ sight[t] \in 0 .. version \cup {Unarmed}
             /\ sending[t] \in Versions
  <2>1. /\ cursor[t] \in Nat /\ baseline[t] \in Nat /\ since[t] \in Nat /\ version \in Nat
    BY <1>1 DEF Types
  <2>2. /\ cursor[t] <= version /\ since[t] <= version /\ Position(t)
        /\ sending \in [Threads -> Versions]
    BY <1>1 DEF Behind, Bounded
  <2>. QED BY <2>1, <2>2 DEF Position, Unarmed
<1>. QED BY <1>1, <1>3, <1>4 DEF TypeOK, Types, Bounded

(* Every variable keeps its type and its bound: versions and values are     *)
(* never more than the sends, nor a receiver ahead of the channel.          *)
THEOREM WatchTypeCorrect == Spec => []TypeOK
<1>1. Init => Bounded /\ Orderly(Steps)
  BY BoundedInitial
<1>2. WatchInv /\ WakeInvariant => Types /\ Behind /\ EndTypes
  BY DEF WatchInv, WakeInvariant, EndInv
<1>3. WatchInv /\ WakeInvariant /\ Bounded /\ Orderly(Steps) /\ [Next]_vars
        => Bounded' /\ Orderly(Steps)'
  BY <1>2, BoundedInductive DEF Within
<1>4. WatchInv /\ WakeInvariant /\ Bounded /\ Orderly(Steps) => TypeOK
  BY <1>2, WithinTypes DEF Within
<1>. QED BY <1>1, <1>3, <1>4, WatchInvariant, WatchWakes, PTL DEF Spec
=============================================================================
