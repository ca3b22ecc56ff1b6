---------------------------- MODULE OneshotProofs ----------------------------
(***************************************************************************)
(* Proofs about Oneshot for any threads and programs: that it keeps the    *)
(* promise of Promise, and that a receive that starts after the send is    *)
(* not told that the sender is gone while the value is there; types; and,  *)
(* for the programs of OneWaiter, that no wake-up is lost.                 *)
(***************************************************************************)
EXTENDS Oneshot, EndpointProofs

(* The state that matters here, and its types.                              *)
coreVars == <<program, held, pc, answer, state, cell, late>>

Types ==
  /\ program \in Programs
  /\ held \in [Threads -> SUBSET {"send", "recv"}]
  /\ pc \in [Threads -> Steps]
  /\ answer \in [Threads -> {"none", "ok", "empty", "lagged", "disconnected"}]
  /\ state \in {"open", "sent", "dropped"}
  /\ cell \in {"none", "full", "taken"}
  /\ late \subseteq Threads

SendSteps == {"check", "store", "mark", "close"}

(* There is one sender, and how far it is tells what state and cell are.    *)
SingleSender ==
  \A t, u \in Threads : "send" \in held[t] /\ "send" \in held[u] => t = u

Sending ==
  \A t \in Threads :
    /\ pc[t] \in SendSteps => "send" \in held[t]
    /\ "send" \in held[t] /\ pc[t] \notin {"mark", "close"} => state = "open" /\ cell = "none"
    /\ pc[t] = "mark"  => state = "open" /\ cell = "full"
    /\ pc[t] = "close" => \/ state = "open" /\ cell = "none"
                          \/ state = "sent" /\ cell # "none"

(* A receive about to take the value has seen "sent", as has a late one.    *)
Receiving ==
  /\ state = "sent" => cell # "none"
  /\ cell = "taken" => state = "sent"
  /\ \A t \in Threads : pc[t] = "swap" => state = "sent"
  /\ \A t \in late : /\ state = "sent"
                     /\ pc[t] \in {"load", "swap", "return"}
                     /\ pc[t] = "return" /\ answer[t] = "disconnected" => cell # "full"

OneshotInv == Types /\ SingleSender /\ Sending /\ Receiving

-----------------------------------------------------------------------------
(* What most steps of a thread t come to: it goes from a step at which      *)
(* nothing is at stake to another one.                                      *)
Quiet(t) ==
  /\ pc[t] \notin SendSteps \cup {"load", "swap", "return"}
  /\ pc' \in [Threads -> Steps]
  /\ pc'[t] \notin SendSteps \cup {"swap"}
  /\ answer' \in [Threads -> {"none", "ok", "empty", "lagged", "disconnected"}]
  /\ \A u \in Threads \ {t} : pc'[u] = pc[u] /\ answer'[u] = answer[u]
  /\ UNCHANGED <<program, held, state, cell, late>>

(* The waiting in recv and in select!, the look at the state before it, and *)
(* the wake calls.                                                          *)
LEMMA WaitingIsQuiet ==
  ASSUME OneshotInv, NEW t \in Threads,
         \/ Reload(t) \/ TestState(t) \/ Probe(t) \/ RegisterSelect(t)
         \/ /\ \/ Enlist(t, "load") \/ ParkReturns(t, "park", "again") \/ Again(t, "load")
               \/ PushArm(t, "push") \/ SelectStep(t)
            /\ UNCHANGED oneshotVars
         \/ SelectCall(t, "select_recv", "recv") /\ UNCHANGED oneshotVars
  PROVE  Quiet(t)
<1>. USE DEF OneshotInv, Types, Quiet, SendSteps, Steps, SelectSteps, At, Step, Answer, Finish,
             localVars, quietVars, oneshotVars, probeVars
<1>1. CASE Reload(t)
  BY <1>1 DEF Reload, Nothing
<1>2. CASE TestState(t)
  BY <1>2 DEF TestState
<1>3. CASE Probe(t)
  BY <1>3 DEF Probe, ArmReady, ArmNotReady, CompleteArm, TakeDefault, Proceed
<1>4. CASE RegisterSelect(t)
  BY <1>4 DEF RegisterSelect
<1>5. CASE Enlist(t, "load") /\ UNCHANGED oneshotVars
  BY <1>5 DEF Enlist
<1>6. CASE ParkReturns(t, "park", "again") /\ UNCHANGED oneshotVars
  BY <1>6 DEF ParkReturns
<1>7. CASE Again(t, "load") /\ UNCHANGED oneshotVars
  BY <1>7 DEF Again
<1>8. CASE PushArm(t, "push") /\ UNCHANGED oneshotVars
  BY <1>8 DEF PushArm
<1>9. CASE SelectStep(t) /\ UNCHANGED oneshotVars
  <2>1. CASE Decide(t)
    BY <1>9, <2>1 DEF Decide
  <2>2. CASE WakeUp(t)
    BY <1>9, <2>2 DEF WakeUp
  <2>3. CASE AbortLoad(t)
    BY <1>9, <2>3 DEF AbortLoad, Proceed
  <2>4. CASE Walk(t)
    BY <1>9, <2>4 DEF Walk, Proceed
  <2>5. CASE Judge(t)
    BY <1>9, <2>5 DEF Judge, CompleteArm, TakeDefault, Proceed
  <2>. QED  BY <1>9, <2>1, <2>2, <2>3, <2>4, <2>5 DEF SelectStep
<1>10. CASE SelectCall(t, "select_recv", "recv") /\ UNCHANGED oneshotVars
  BY <1>10 DEF SelectCall
<1>. QED  BY <1>1, <1>2, <1>3, <1>4, <1>5, <1>6, <1>7, <1>8, <1>9, <1>10

LEMMA QuietStep ==
  ASSUME OneshotInv, NEW t \in Threads, Quiet(t)
  PROVE  OneshotInv'
<1>1. Types'
  BY DEF OneshotInv, Types, Quiet
<1>2. SingleSender'
  BY DEF OneshotInv, SingleSender, Quiet
<1>3. Sending'
  BY DEF OneshotInv, Types, Sending, Quiet, SendSteps
<1>4. Receiving'
  BY DEF OneshotInv, Types, Receiving, Quiet, SendSteps
<1>. QED  BY <1>1, <1>2, <1>3, <1>4 DEF OneshotInv

-----------------------------------------------------------------------------
(* One lemma for the sender's steps, one for the receivers' that read what  *)
(* it wrote, one for handles.                                               *)
LEMMA SenderStep ==
  ASSUME OneshotInv, NEW t \in Threads,
         \/ SendCall(t) \/ Check(t) \/ StoreValue(t) \/ MarkSent(t) \/ Close(t)
         \/ DropSenderUnused(t)
  PROVE  OneshotInv'
<1>. USE DEF OneshotInv, Types, SingleSender, Sending, Receiving, SendSteps, Steps, SelectSteps,
             At, Step, Finish, localVars, quietVars, oneshotVars
<1>1. CASE SendCall(t)
  BY <1>1 DEF SendCall, Call
<1>2. CASE Check(t)
  BY <1>2 DEF Check
<1>3. CASE StoreValue(t)
  BY <1>3 DEF StoreValue
<1>4. CASE MarkSent(t)
  BY <1>4 DEF MarkSent
<1>5. CASE Close(t)
  BY <1>5 DEF Close
<1>6. CASE DropSenderUnused(t)
  BY <1>6 DEF DropSenderUnused, MayDrop
<1>. QED  BY <1>1, <1>2, <1>3, <1>4, <1>5, <1>6

LEMMA ReceiverStep ==
  ASSUME OneshotInv, NEW t \in Threads,
         RecvCall(t) \/ LoadState(t) \/ SwapValue(t) \/ ReturnValue(t) \/ Complete(t)
  PROVE  OneshotInv'
<1>. USE DEF OneshotInv, Types, SingleSender, Sending, Receiving, SendSteps, Steps, SelectSteps,
             At, Step, Answer, Finish, Begins, localVars, quietVars, oneshotVars
<1>1. CASE RecvCall(t)
  BY <1>1 DEF RecvCall, Call
<1>2. CASE LoadState(t)
  BY <1>2 DEF LoadState
<1>3. CASE SwapValue(t)
  BY <1>3 DEF SwapValue
<1>4. CASE ReturnValue(t)
  BY <1>4 DEF ReturnValue, Return
<1>5. CASE Complete(t)
  BY <1>5 DEF Complete, CompleteBy
<1>. QED  BY <1>1, <1>2, <1>3, <1>4, <1>5

LEMMA HandleStep ==
  ASSUME OneshotInv, NEW t \in Threads, UNCHANGED oneshotVars,
         DropReceiver(t) \/ \E u \in Threads : CloneHandle(t, u)
  PROVE  OneshotInv'
<1>. USE DEF OneshotInv, Types, SingleSender, Sending, Receiving, SendSteps, Steps, SelectSteps,
             At, Step, oneshotVars
<1>1. CASE DropReceiver(t)
  BY <1>1 DEF DropReceiver, DropHandle, MayDrop
<1>2. CASE \E u \in Threads : CloneHandle(t, u)
  <2>1. PICK u \in Threads : CloneHandle(t, u)
    BY <1>2
  <2>2. program.offspring[u] # "send"
    BY OneSender
  <2>3. program.offspring[u] = "recv"
    BY <2>1, <2>2 DEF CloneHandle
  <2>. QED  BY <2>1, <2>3 DEF CloneHandle
<1>. QED  BY <1>1, <1>2

LEMMA UnchangedStep ==
  ASSUME OneshotInv, UNCHANGED coreVars
  PROVE  OneshotInv'
BY DEF OneshotInv, Types, SingleSender, Sending, Receiving, coreVars

LEMMA OneshotInitial == ASSUME Init PROVE OneshotInv
<1>. USE DEF Init, EndpointInit, OneshotInit
<1>1. program.handles \in [Threads -> SUBSET {"send", "recv"}]
  BY ProgramAssumption
<1>2. Types
  BY <1>1 DEF Types, Steps
<1>3. SingleSender
  BY OneSender DEF SingleSender
<1>4. Sending /\ Receiving
  BY DEF Sending, Receiving, SendSteps
<1>. QED  BY <1>2, <1>3, <1>4 DEF OneshotInv

LEMMA OneshotInductive ==
  ASSUME OneshotInv, [Next]_vars
  PROVE  OneshotInv'
<1>1. CASE UNCHANGED vars
  BY <1>1, UnchangedStep DEF vars, endVars, oneshotVars, coreVars
<1>2. ASSUME NEW t \in Threads, OneshotStep(t)
      PROVE  OneshotInv'
  <2>1. CASE WakeStep(t) /\ UNCHANGED endVars /\ UNCHANGED oneshotVars
    BY <2>1, UnchangedStep DEF endVars, oneshotVars, coreVars
  <2>2. CASE ~(WakeStep(t) /\ UNCHANGED endVars /\ UNCHANGED oneshotVars)
    BY <1>2, <2>2, SenderStep, ReceiverStep, WaitingIsQuiet, QuietStep DEF OneshotStep
  <2>. QED  BY <2>1, <2>2
<1>3. ASSUME NEW t \in Threads, OneshotChance(t)
      PROVE  OneshotInv'
  <2>1. CASE (DeadlinePasses(t) \/ Spurious(t)) /\ UNCHANGED oneshotVars
    BY <2>1, UnchangedStep DEF DeadlinePasses, Spurious, oneshotVars, coreVars
  <2>2. CASE ~((DeadlinePasses(t) \/ Spurious(t)) /\ UNCHANGED oneshotVars)
    BY <1>3, <2>2, SenderStep, ReceiverStep, HandleStep, WaitingIsQuiet, QuietStep
       DEF OneshotChance
  <2>. QED  BY <2>1, <2>2
<1>4. CASE Over
  BY <1>4, <1>1 DEF Over
<1>. QED  BY <1>1, <1>2, <1>3, <1>4 DEF Next

(* What the proofs below rest on, in every reachable state.                 *)
THEOREM OneshotInvariant == Spec => []OneshotInv
BY OneshotInitial, OneshotInductive, PTL DEF Spec

(* A receive that begins after the two stores of send, if it answers        *)
(* Disconnected, does so because another receiver has the value.            *)
THEOREM OneshotNoFalseDisconnect == Spec => []NoFalseDisconnect
<1>1. OneshotInv => NoFalseDisconnect
  BY DEF OneshotInv, Receiving, NoFalseDisconnect
<1>. QED  BY <1>1, OneshotInvariant, PTL

-----------------------------------------------------------------------------
(* The promise, as Oneshot keeps it: four steps can change it, and the      *)
(* invariant says in which state they are taken.                            *)
LEMMA PromiseStep ==
  ASSUME OneshotInv, [Next]_vars
  PROVE  Promised!Next \/ UNCHANGED PromiseState
<1>. USE DEF PromiseState, Promised!Next, Promised!Keep, Promised!Break, Promised!Claim
<1>1. CASE UNCHANGED <<state, cell>>
  BY <1>1
<1>2. ASSUME NEW t \in Threads, StoreValue(t) \/ MarkSent(t) \/ Close(t) \/ SwapValue(t)
      PROVE  Promised!Next \/ UNCHANGED PromiseState
  <2>. USE DEF OneshotInv, Types, Sending, Receiving, At
  <2>1. CASE StoreValue(t)
    BY <2>1 DEF StoreValue, SendSteps
  <2>2. CASE MarkSent(t)
    BY <2>2 DEF MarkSent
  <2>3. CASE Close(t)
    BY <2>3 DEF Close
  <2>4. CASE SwapValue(t)
    BY <2>4 DEF SwapValue
  <2>. QED  BY <1>2, <2>1, <2>2, <2>3, <2>4
<1>3. ASSUME NEW t \in Threads, OneshotStep(t) \/ OneshotChance(t)
      PROVE  \/ UNCHANGED <<state, cell>>
             \/ StoreValue(t) \/ MarkSent(t) \/ Close(t) \/ SwapValue(t)
  BY <1>3 DEF OneshotStep, OneshotChance, oneshotVars, SendCall, Check, DropSenderUnused, RecvCall,
              LoadState, Reload, TestState, ReturnValue, Probe, RegisterSelect, Complete
<1>4. CASE Over \/ UNCHANGED vars
  BY <1>1, <1>4 DEF Over, vars, oneshotVars
<1>. QED  BY <1>1, <1>2, <1>3, <1>4 DEF Next

(* The value is promised, then claimed once or not at all: no drop of the   *)
(* sender takes it back and no two receivers get it.                        *)
THEOREM OneshotKeepsPromise == Spec => KeepsPromise
<1>1. Init => Promised!Init
  BY DEF Init, OneshotInit, Promised!Init, PromiseState
<1>2. OneshotInv /\ [Next]_vars => [Promised!Next]_PromiseState
  BY PromiseStep
<1>. QED  BY <1>1, <1>2, OneshotInvariant, PTL DEF Spec, KeepsPromise, Promised!Spec

-----------------------------------------------------------------------------
(* The types of the whole state, with what the lemmas on endpoints need.    *)
Began == /\ late \subseteq {t \in Threads : op[t] \in {"recv", "try_recv"}}
         /\ \A t \in Threads : op[t] # "select_send"
WholeTypes == EndInv /\ Orderly(Steps) /\ Began

LEMMA WakesOfSend == <<WakeOne("recv"), SelectOne("recv")>> \in Seq(WakeCalls(ArmNodes))
<1>1. WakeOne("recv") \in Snapshots /\ SelectOne("recv") \in Swaps
  BY EndpointConstants DEF WakeOne, SelectOne, Snapshots, Swaps
<1>. DEFINE S == WakeCalls(ArmNodes)
<1>2. WakeOne("recv") \in S /\ SelectOne("recv") \in S
  BY <1>1 DEF WakeCalls
<1>. HIDE DEF S
<1>. QED BY <1>2 DEF S

(* Steps of t that are not of select_impl and only go on, to a step or an   *)
(* answer, or begin an operation.                                           *)
Ordinary(t) ==
  \/ SendCall(t) \/ RecvCall(t) \/ DropSenderUnused(t) \/ Check(t) \/ StoreValue(t)
  \/ LoadState(t) \/ SwapValue(t) \/ Reload(t) \/ TestState(t) \/ Complete(t)
  \/ RegisterSelect(t)

LEMMA OrdinarySteps ==
  ASSUME NEW t \in Threads, Ordinary(t)
  PROVE  /\ UNCHANGED localVars
         /\ \/ \E operation \in {"send", "recv", "try_recv"}, side \in {"send", "recv"},
                 step \in {"check", "load"} :
                 /\ Call(t, operation, side, step) \/ CompleteBy(t, operation, step)
                 /\ pc[t] \in {"idle", "complete"}
            \/ \E step \in {"close", "store", "mark", "swap", "reload", "test", "park", "enlist"} :
                 Step(t, step) /\ pc[t] \notin SelectSteps
            \/ \E step \in {"probe", "push"} : Step(t, step) /\ pc[t] = "enrol"
            \/ \E a \in {"ok", "empty", "disconnected"} :
                 Answer(t, a) /\ pc[t] \in {"swap", "reload", "test"}
<1>1. CASE SendCall(t)
  <2>1. Call(t, "send", "send", "check") /\ UNCHANGED localVars /\ pc[t] = "idle"
    BY <1>1 DEF SendCall, Call, At
  <2>. QED BY <2>1
<1>2. CASE RecvCall(t)
  <2>1. PICK operation \in {"recv", "try_recv"} : Call(t, operation, "recv", "load")
    BY <1>2 DEF RecvCall
  <2>2. UNCHANGED localVars /\ pc[t] = "idle"
    BY <2>1 DEF Call, At
  <2>. QED BY <2>1, <2>2
<1>3. CASE DropSenderUnused(t)
  BY <1>3 DEF DropSenderUnused, MayDrop, At, SelectSteps
<1>4. CASE Check(t)
  BY <1>4 DEF Check, At, SelectSteps
<1>5. CASE StoreValue(t)
  BY <1>5 DEF StoreValue, At, SelectSteps
<1>6. CASE LoadState(t)
  BY <1>6 DEF LoadState, At, SelectSteps
<1>7. CASE SwapValue(t)
  BY <1>7 DEF SwapValue, At
<1>8. CASE Reload(t)
  BY <1>8 DEF Reload, Nothing, At, SelectSteps
<1>9. CASE TestState(t)
  BY <1>9 DEF TestState, At, SelectSteps
<1>10. CASE Complete(t)
  BY <1>10 DEF Complete, CompleteBy, At
<1>11. CASE RegisterSelect(t)
  BY <1>11 DEF RegisterSelect, At
<1>. QED BY <1>1, <1>2, <1>3, <1>4, <1>5, <1>6, <1>7, <1>8, <1>9, <1>10, <1>11 DEF Ordinary

LEMMA OrdinaryTypes ==
  ASSUME EndInv, Orderly(Steps), NEW t \in Threads, Ordinary(t)
  PROVE  EndInv' /\ Orderly(Steps)'
<1>0. EndTypes /\ DOMAIN pc = Threads /\ DOMAIN op = Threads /\ UNCHANGED localVars
  BY OrdinarySteps DEF EndInv, EndTypes
<1>1. Timed /\ UNCHANGED <<held, arm, calls>>
  BY <1>0 DEF localVars, quietVars, Timed
<1>2. Alone(t) => EndTypes' /\ Mild(t)
  BY <1>0, PlainStep
<1>3. ASSUME NEW operation \in {"send", "recv", "try_recv"}, NEW side \in {"send", "recv"}, NEW step \in {"check", "load"},
             Call(t, operation, side, step) \/ CompleteBy(t, operation, step),
             pc[t] \in {"idle", "complete"}
      PROVE  EndInv' /\ Orderly(Steps)'
  <2>1. step \in Steps \ {"idle", "unborn"}
    BY DEF Steps
  <2>2. Orderly(Steps)'
    BY <1>3, <2>1, OrderlyCall
  <2>3. pc' = [pc EXCEPT ![t] = step] /\ op' = [op EXCEPT ![t] = operation]
    BY <1>3 DEF Call, CompleteBy
  <2>4. EndTypes' /\ Mild(t)
    BY <1>0, <1>2, <2>3 DEF Alone
  <2>5. pc[t] \notin SelectSteps /\ pc'[t] \notin SelectSteps \cup {"unborn", "idle"} /\ op'[t] = operation
    BY <1>0, <1>3, <2>3 DEF SelectSteps
  <2>. QED BY <1>1, <2>2, <2>4, <2>5, OuterInv
<1>4. ASSUME NEW step \in {"close", "store", "mark", "swap", "reload", "test", "park", "enlist"},
             Step(t, step), pc[t] \notin SelectSteps
      PROVE  EndInv' /\ Orderly(Steps)'
  <2>1. step \in Steps \ {"idle", "unborn"}
    BY DEF Steps
  <2>2. Orderly(Steps)'
    BY <1>1, <1>4, <2>1, OrderlyStep
  <2>3. EndTypes' /\ Mild(t)
    BY <1>0, <1>2, <1>4 DEF Alone, Step
  <2>4. pc'[t] \notin SelectSteps \cup {"unborn", "idle"} /\ op'[t] = op[t]
    BY <1>0, <1>4 DEF SelectSteps, Step
  <2>. QED BY <1>1, <1>4, <2>2, <2>3, <2>4, OuterInv
<1>5. ASSUME NEW step \in {"probe", "push"}, Step(t, step), pc[t] = "enrol"
      PROVE  EndInv' /\ Orderly(Steps)'
  <2>1. step \in Steps \ {"idle", "unborn"}
    BY DEF Steps, SelectSteps
  <2>2. Orderly(Steps)'
    BY <1>1, <1>5, <2>1, OrderlyStep
  <2>3. Alone(t) /\ op' = op /\ pc'[t] \in {"probe", "push"}
    BY <1>0, <1>5 DEF Alone, Step
  <2>4. op[t] = "select_recv"
    BY <1>5 DEF EndInv, ArmOf, SelectSteps
  <2>5. Harmless(t)
    BY <1>0, <1>5, <2>3, <2>4, LookEffect
  <2>. QED BY <2>2, <2>5, MildInv DEF Harmless
<1>6. ASSUME NEW a \in {"ok", "empty", "disconnected"}, Answer(t, a), pc[t] \in {"swap", "reload", "test"}
      PROVE  EndInv' /\ Orderly(Steps)'
  <2>1. "return" \in Steps /\ a \in Verdicts
    BY DEF Steps, Verdicts
  <2>2. Orderly(Steps)'
    BY <1>1, <1>6, <2>1, OrderlyAnswer
  <2>3. EndTypes' /\ Mild(t)
    BY <1>0, <1>2, <1>6 DEF Alone, Answer
  <2>4. /\ pc[t] \notin SelectSteps /\ pc'[t] \notin SelectSteps \cup {"unborn", "idle"}
        /\ op'[t] = op[t]
    BY <1>0, <1>6 DEF SelectSteps, Answer
  <2>. QED BY <1>1, <2>2, <2>3, <2>4, OuterInv
<1>. QED BY <1>3, <1>4, <1>5, <1>6, OrdinarySteps

(* The steps that announce, and those of waiting.                           *)
LEMMA MarkTypes ==
  ASSUME EndInv, Orderly(Steps), NEW t \in Threads, MarkSent(t)
  PROVE  EndInv' /\ Orderly(Steps)'
<1>1. /\ pc[t] = "mark" /\ Free(t) /\ Step(t, "close") /\ UNCHANGED quietVars
      /\ Then(t, <<WakeOne("recv"), SelectOne("recv")>>)
  BY DEF MarkSent, At
<1>2. EndTypes /\ DOMAIN pc = Threads /\ DOMAIN op = Threads
  BY DEF EndInv, EndTypes
<1>3. Timed /\ UNCHANGED <<held, arm>>
  BY <1>1 DEF quietVars, Timed
<1>4. Alone(t) /\ pc'[t] = "close" /\ op'[t] = op[t]
  BY <1>1, <1>2 DEF Alone, Step
<1>5. EndTypes' /\ Mild(t)
  BY <1>1, <1>2, <1>4, WakingStep, WakesOfSend
<1>6. EndInv'
  BY <1>1, <1>3, <1>4, <1>5, OuterInv DEF SelectSteps
<1>7. "close" \in Steps \ {"idle", "unborn"}
  BY DEF Steps
<1>. QED BY <1>1, <1>3, <1>6, <1>7, OrderlyStep

LEMMA CloseTypes ==
  ASSUME EndInv, Orderly(Steps), NEW t \in Threads, Close(t)
  PROVE  EndInv' /\ Orderly(Steps)'
<1>. DEFINE S == Seq(WakeCalls(ArmNodes))
<1>1. /\ pc[t] = "close" /\ Free(t) /\ Finish(t) /\ held' = [held EXCEPT ![t] = @ \ {"send"}]
      /\ UNCHANGED <<program, arm, spurious, permit, waiting, stack, aborted, selected>>
      /\ Then(t, WakeEverybody) \/ UNCHANGED calls
  BY DEF Close, At
<1>2. /\ EndTypes /\ DOMAIN pc = Threads /\ DOMAIN op = Threads /\ calls \in [Threads -> S]
      /\ held \in [Threads -> SUBSET {"send", "recv"}] /\ ArmOf(t)
  BY DEF EndInv, EndTypes, WaiterTypes
<1>3. WakeEverybody \in S
  BY WakeSequences
<1>. HIDE DEF S
<1>4. /\ calls' \in [Threads -> S] /\ \A u \in Threads \ {t} : calls'[u] = calls[u]
      /\ held' \in [Threads -> SUBSET {"send", "recv"}]
      /\ \A u \in Threads \ {t} : held'[u] = held[u]
  BY <1>1, <1>2, <1>3 DEF Then
<1>5. Alone(t) /\ pc'[t] = "idle" /\ op'[t] = "none" /\ Timed
  BY <1>1, <1>2 DEF Alone, Finish, Timed
<1>6. EndTypes'
  BY <1>1, <1>2, <1>4, <1>5 DEF EndTypes, WaiterTypes, Alone, S, ArmNodes
<1>7. Growing /\ \A u \in Threads : Steady(u)
  BY <1>1, <1>4 DEF Growing, Steady, Registered
<1>8. Mild(t)
  BY <1>1, <1>5, <1>7 DEF Mild, Alone
<1>9. ArmOf(t)'
  BY <1>1, <1>2, <1>5 DEF ArmOf, Armed, SelectSteps
<1>10. EndInv'
  BY <1>4, <1>6, <1>8, <1>9, MildInv
<1>11. "idle" \in Steps
  BY DEF Steps
<1>. QED BY <1>1, <1>5, <1>10, <1>11, OrderlyFinish

LEMMA WaitTypes ==
  ASSUME EndInv, Orderly(Steps), NEW t \in Threads,
         Enlist(t, "load") \/ ParkReturns(t, "park", "again") \/ Again(t, "load") \/ Return(t)
  PROVE  EndInv' /\ Orderly(Steps)'
<1>0. EndTypes /\ DOMAIN pc = Threads /\ DOMAIN op = Threads
  BY DEF EndInv, EndTypes
<1>1. EndTypes' /\ Mild(t)
  BY <1>0, EnlistStep, ParkStep, LeaveStep
<1>2. /\ UNCHANGED <<held, arm>> /\ pc[t] \in {"enlist", "park", "again", "return"}
      /\ \/ pc'[t] \in {"load", "again"} /\ op'[t] = op[t]
         \/ pc'[t] = "idle" /\ op'[t] = "none"
  BY <1>0 DEF Enlist, ParkReturns, Again, Return, At, Step, Finish
<1>3. EndInv'
  BY <1>1, <1>2, OuterInv DEF SelectSteps
<1>4. "idle" \in Steps /\ {"load", "again"} \subseteq Steps \ {"idle", "unborn"}
  BY DEF Steps
<1>. QED BY <1>3, <1>4, OrderlyWait

LEMMA SelectTypes ==
  ASSUME EndInv, Orderly(Steps), NEW t \in Threads, op[t] # "select_send",
         \/ Probe(t) \/ SelectCall(t, "select_recv", "recv") \/ PushArm(t, "push")
         \/ SelectStep(t) \/ DeadlinePasses(t) \/ Spurious(t)
  PROVE  EndInv' /\ Orderly(Steps)'
<1>0. SelectSteps \cup {"complete", "idle"} \subseteq Steps /\ "probe" \in Steps /\ "idle" \in Steps
  BY DEF Steps, SelectSteps
<1>. USE <1>0
<1>1. CASE Probe(t)
  <2>1. /\ pc[t] = "probe" /\ UNCHANGED probeVars /\ UNCHANGED <<program, spurious>>
        /\ ArmReady(t) \/ ArmNotReady(t)
    BY <1>1 DEF Probe, At, probeVars
  <2>2. op[t] = "select_recv"
    BY <2>1 DEF EndInv, ArmOf, SelectSteps
  <2>. QED BY <2>1, <2>2, SelectInv, OrderlyProbe DEF EndInv
<1>2. CASE SelectCall(t, "select_recv", "recv")
  BY <1>2, SelectInv, OrderlySelectCall DEF EndInv
<1>3. CASE PushArm(t, "push")
  BY <1>3, SelectInv, OrderlyPush
<1>4. CASE SelectStep(t)
  BY <1>4, SelectInv, OrderlySelect DEF EndInv
<1>5. CASE DeadlinePasses(t) \/ Spurious(t)
  BY <1>5, SelectInv, OrderlyChance DEF EndInv
<1>. QED BY <1>1, <1>2, <1>3, <1>4, <1>5

(* No step of another kind touches what began late.                         *)
LEMMA BeganStays ==
  ASSUME OneshotInv, EndInv, Began, NEW t \in Threads, OneshotStep(t) \/ OneshotChance(t),
         Orderly(Steps)
  PROVE  Began'
<1>0. DOMAIN op = Threads /\ \A u \in late : op[u] \in {"recv", "try_recv"}
  BY DEF EndInv, EndTypes, Began
<1>1. t \in late => pc[t] \in {"load", "swap", "return"}
  BY DEF OneshotInv, Receiving
<1>2. ASSUME late' = late, \A u \in Threads \ {t} : op'[u] = op[u],
             op'[t] = op[t] \/ (t \notin late /\ op'[t] # "select_send")
      PROVE  Began'
  BY <1>0, <1>2 DEF Began
<1>. USE <1>0 DEF At, Step, Answer, Finish, oneshotVars
<1>3. CASE SendCall(t) \/ (SelectCall(t, "select_recv", "recv") /\ UNCHANGED oneshotVars)
  BY <1>1, <1>2, <1>3 DEF SendCall, Call, SelectCall
<1>4. CASE RecvCall(t) \/ Complete(t)
  <2>1. PICK operation \in {"recv", "try_recv"} : op' = [op EXCEPT ![t] = operation]
    BY <1>4 DEF RecvCall, Complete, Call, CompleteBy
  <2>2. late' = late \/ late' = late \cup {t}
    BY <1>4 DEF RecvCall, Complete, Begins
  <2>. QED BY <2>1, <2>2 DEF Began
<1>5. CASE \/ DropSenderUnused(t) \/ Check(t) \/ StoreValue(t) \/ MarkSent(t) \/ LoadState(t)
           \/ SwapValue(t) \/ Reload(t) \/ TestState(t) \/ RegisterSelect(t)
  BY <1>2, <1>5 DEF DropSenderUnused, Check, StoreValue, MarkSent, LoadState, SwapValue, Reload,
                    Nothing, TestState, RegisterSelect
<1>6. CASE Close(t)
  BY <1>1, <1>2, <1>6 DEF Close
<1>7. CASE ReturnValue(t)
  BY <1>7 DEF ReturnValue, Return, Began
<1>8. CASE Probe(t)
  BY <1>1, <1>2, <1>8 DEF Probe, ArmReady, ArmNotReady, CompleteArm, TakeDefault, Proceed
<1>9. CASE /\ Enlist(t, "load") \/ ParkReturns(t, "park", "again") \/ Again(t, "load")
              \/ PushArm(t, "push") \/ (WakeStep(t) /\ UNCHANGED endVars)
           /\ UNCHANGED oneshotVars
  BY <1>2, <1>9 DEF Enlist, ParkReturns, Again, PushArm, endVars
<1>10. CASE SelectStep(t) /\ UNCHANGED oneshotVars
  <2>1. CASE Decide(t)
    BY <1>2, <1>10, <2>1 DEF Decide
  <2>2. CASE WakeUp(t)
    BY <1>2, <1>10, <2>2 DEF WakeUp
  <2>3. CASE AbortLoad(t)
    BY <1>2, <1>10, <2>3 DEF AbortLoad, Proceed
  <2>4. CASE Walk(t)
    BY <1>2, <1>10, <2>4 DEF Walk, Proceed
  <2>5. CASE Judge(t)
    BY <1>1, <1>2, <1>10, <2>5 DEF Judge, CompleteArm, TakeDefault, Proceed
  <2>. QED BY <1>10, <2>1, <2>2, <2>3, <2>4, <2>5 DEF SelectStep
<1>11. CASE DeadlinePasses(t) /\ UNCHANGED oneshotVars
  BY <1>2, <1>11 DEF DeadlinePasses
<1>12. CASE Spurious(t) /\ UNCHANGED oneshotVars
  BY <1>2, <1>12 DEF Spurious
<1>13. CASE DropReceiver(t) /\ UNCHANGED oneshotVars
  BY <1>2, <1>13 DEF DropReceiver, DropHandle
<1>14. CASE (\E u \in Threads : CloneHandle(t, u)) /\ UNCHANGED oneshotVars
  BY <1>2, <1>14 DEF CloneHandle
<1>. QED BY <1>3, <1>4, <1>5, <1>6, <1>7, <1>8, <1>9, <1>10, <1>11, <1>12, <1>13, <1>14
         DEF OneshotStep, OneshotChance

LEMMA WholeTypesInductive ==
  ASSUME OneshotInv, WholeTypes, [Next]_vars
  PROVE  WholeTypes'
<1>0. EndInv /\ Orderly(Steps) /\ Began
  BY DEF WholeTypes
<1>1. CASE UNCHANGED vars
  <2>1. EndInv'
    BY <1>0, <1>1, StutterInv DEF vars
  <2>2. Orderly(Steps)'
    BY <1>0, <1>1, OrderlyUnchanged DEF vars
  <2>3. Began'
    BY <1>0, <1>1 DEF Began, vars, endVars, oneshotVars
  <2>. QED BY <2>1, <2>2, <2>3 DEF WholeTypes
<1>2. CASE Over
  BY <1>1, <1>2 DEF Over
<1>. SUFFICES ASSUME NEW t \in Threads, OneshotStep(t) \/ OneshotChance(t)
              PROVE  EndInv' /\ Orderly(Steps)'
  BY <1>0, <1>1, <1>2, BeganStays DEF Next, WholeTypes
<1>3. op[t] # "select_send"
  BY <1>0 DEF Began
<1>4. CASE Ordinary(t)
  BY <1>0, <1>4, OrdinaryTypes
<1>5. CASE MarkSent(t) \/ Close(t)
  BY <1>0, <1>5, MarkTypes, CloseTypes
<1>6. CASE Enlist(t, "load") \/ ParkReturns(t, "park", "again") \/ Again(t, "load") \/ ReturnValue(t)
  BY <1>0, <1>6, WaitTypes DEF ReturnValue
<1>7. CASE \/ Probe(t) \/ SelectCall(t, "select_recv", "recv") \/ PushArm(t, "push")
           \/ SelectStep(t) \/ DeadlinePasses(t) \/ Spurious(t)
  BY <1>0, <1>3, <1>7, SelectTypes
<1>8. CASE WakeStep(t) /\ UNCHANGED endVars
  BY <1>0, <1>8, WakeInv, OrderlyUnchanged
<1>9. "idle" \in Steps
  BY DEF Steps
<1>10. CASE DropReceiver(t)
  <2>1. PICK wakes \in {<<>>, <<Drain("recv")>>} : DropHandle(t, "recv", wakes)
    BY <1>10 DEF DropReceiver
  <2>2. wakes \in Seq(WakeCalls(ArmNodes))
    BY WakeSequences
  <2>. QED BY <1>0, <1>9, <1>10, <2>1, <2>2, DropInv, OrderlyChance DEF EndInv
<1>11. CASE \E u \in Threads : CloneHandle(t, u)
  BY <1>0, <1>9, <1>11, CloneInv, OrderlyChance DEF EndInv
<1>. QED BY <1>4, <1>5, <1>6, <1>7, <1>8, <1>10, <1>11 DEF OneshotStep, OneshotChance, Ordinary

LEMMA WholeTypesInitial == ASSUME Init PROVE WholeTypes
<1>1. EndInv
  BY EndpointInitial DEF Init
<1>2. {"idle", "unborn"} \subseteq Steps
  BY DEF Steps
<1>3. Orderly(Steps)
  BY <1>2, OrderlyInitial DEF Init
<1>4. Began
  BY DEF Init, OneshotInit, EndpointInit, Began
<1>. QED BY <1>1, <1>3, <1>4 DEF WholeTypes

(* Every variable keeps its type, what an operation has taken hold of is    *)
(* given back when it ends, and the value is there when the state says so.  *)
THEOREM OneshotTypeCorrect == Spec => []TypeOK
<1>1. Init => WholeTypes
  BY WholeTypesInitial
<1>2. OneshotInv /\ WholeTypes /\ [Next]_vars => WholeTypes'
  BY WholeTypesInductive
<1>3. OneshotInv /\ WholeTypes => TypeOK
  <2>. SUFFICES ASSUME OneshotInv, WholeTypes PROVE TypeOK
    OBVIOUS
  <2>1. EndpointTypeOK
    BY EndpointTypes DEF WholeTypes, EndInv
  <2>. QED BY <2>1 DEF TypeOK, OneshotInv, Types, Receiving, WholeTypes, Began
<1>. QED BY <1>1, <1>2, <1>3, OneshotInvariant, PTL DEF Spec

-----------------------------------------------------------------------------
(* No wake-up is lost, where one thread at most blocks and one selects.     *)
(* A receive that may register is one the program makes; the one that       *)
(* completes an arm never does, because the sender has spoken by then.      *)
AskingOf(t) ==
  /\ pc[t] = "complete" => state # "open"
  /\ pc[t] \in {"test", "enlist", "park", "again"} => op[t] = "recv"
  /\ pc[t] \in {"load", "swap", "reload"} => op[t] \in {"recv", "try_recv"}
  /\ op[t] = "recv" => \/ "recv" \in program.uses[t]
                       \/ state # "open" /\ pc[t] \in {"load", "swap", "reload", "return"}
  /\ op[t] = "select_recv" => "select_recv" \in program.uses[t]
Asking == \A t \in Threads : AskingOf(t)

(* The list of waiters has the one receiver that blocks or nobody.          *)
Reading(t) ==
  /\ "recv" \in program.uses[t] /\ op[t] = "recv"
  /\ pc[t] \in {"load", "swap", "reload", "test", "park", "again", "return"}
OneListed ==
  /\ waiting["recv"] = <<>> \/ \E t \in Threads : waiting["recv"] = <<t>> /\ Reading(t)
  /\ \A t \in Threads : /\ pc[t] = "enlist" => ~Registered(t)
                        /\ pc[t] = "park" => Registered(t)

(* Until the sender has spoken nobody is elected or on the way to be.       *)
Draining(call) == call.op = "drain" \/ (call.op = "visit" /\ call.mode = "drain")
Unspoken ==
  state = "open" =>
    /\ \A t \in Threads : \A r \in Rounds : selected[t][r] = Unselected
    /\ \A t \in Threads : \A call \in ToSet(calls[t]) : Draining(call)

Base == OneshotInv /\ EndInv /\ Began

LEMMA BaseTyped ==
  ASSUME Base
  PROVE  /\ pc \in [Threads -> Steps] /\ DOMAIN op = Threads /\ held \in [Threads -> SUBSET {"send", "recv"}]
         /\ WaiterTypes(ArmNodes) /\ arm \in [Threads -> Arms] /\ DOMAIN arm = Threads
         /\ DOMAIN selected = Threads /\ \A t \in Threads : selected[t] \in [Rounds -> Nat]
         /\ calls \in [Threads -> Seq(WakeCalls(ArmNodes))] /\ DOMAIN calls = Threads
         /\ waiting \in [Lists -> Seq(Threads)] /\ waiting["recv"] \in Seq(Threads)
         /\ stack \in [Stacks -> Seq(ArmNodes)] /\ stack["recv"] \in Seq(ArmNodes) /\ stack["send"] \in Seq(ArmNodes)
         /\ permit \in [Threads -> BOOLEAN] /\ aborted \subseteq ArmNodes
         /\ state \in {"open", "sent", "dropped"}
  BY EndpointConstants DEF Base, EndInv, EndTypes, WaiterTypes, OneshotInv, Types

(* The sender speaks once.                                                  *)
LEMMA SpokenOnce ==
  ASSUME Base, NEW t \in Threads, OneshotStep(t) \/ OneshotChance(t)
  PROVE  /\ state # "open" => state' # "open"
         /\ program' = program
         /\ state' = state \/ MarkSent(t) \/ Close(t)
<1>1. state' = state \/ MarkSent(t) \/ Close(t)
  BY DEF OneshotStep, OneshotChance, oneshotVars, SendCall, Check, DropSenderUnused, RecvCall, StoreValue,
         LoadState, SwapValue, Reload, TestState, ReturnValue, Probe, RegisterSelect, Complete
<1>2. state # "open" => state' # "open"
  BY <1>1 DEF MarkSent, Close
<1>3. program' = program
  <2>1. CASE SelectStep(t) \/ (WakeStep(t) /\ UNCHANGED endVars)
    BY <2>1 DEF SelectStep, Decide, WakeUp, AbortLoad, Walk, Judge, localVars, quietVars, probeVars, endVars
  <2>2. CASE \/ SendCall(t) \/ Check(t) \/ DropSenderUnused(t) \/ RecvCall(t) \/ StoreValue(t) \/ MarkSent(t)
             \/ Close(t) \/ LoadState(t) \/ SwapValue(t) \/ Reload(t) \/ TestState(t) \/ ReturnValue(t)
             \/ Probe(t) \/ RegisterSelect(t) \/ Complete(t)
    BY <2>2 DEF SendCall, Check, DropSenderUnused, RecvCall, StoreValue, MarkSent, Close, LoadState, SwapValue,
                Reload, TestState, ReturnValue, Probe, RegisterSelect, Complete, Call, CompleteBy, Return,
                localVars, quietVars, probeVars
  <2>3. CASE \/ Enlist(t, "load") \/ ParkReturns(t, "park", "again") \/ Again(t, "load") \/ PushArm(t, "push")
             \/ SelectCall(t, "select_recv", "recv") \/ DeadlinePasses(t) \/ DropReceiver(t) \/ Spurious(t)
             \/ \E u \in Threads : CloneHandle(t, u)
    BY <2>3 DEF Enlist, ParkReturns, Again, PushArm, SelectCall, DeadlinePasses, DropReceiver, DropHandle,
                Spurious, CloneHandle, probeVars
  <2>. QED BY <2>1, <2>2, <2>3 DEF OneshotStep, OneshotChance
<1>. QED BY <1>1, <1>2, <1>3

(* The steps of t itself change nobody else's place.                        *)
LEMMA OthersStay ==
  ASSUME Base, NEW t \in Threads, OneshotStep(t) \/ OneshotChance(t)
  PROVE  \A u \in Threads \ {t} : /\ op'[u] = op[u] /\ arm'[u] = arm[u]
                                  /\ pc'[u] = pc[u] \/ (pc[u] = "unborn" /\ pc'[u] = "idle")
<1>. USE BaseTyped DEF At, Step, Answer, Finish
<1>1. CASE SelectStep(t)
  BY <1>1 DEF SelectStep, Decide, WakeUp, AbortLoad, Walk, Judge, localVars, quietVars, probeVars,
              CompleteArm, TakeDefault, Proceed
<1>2. CASE WakeStep(t) /\ UNCHANGED endVars
  BY <1>2 DEF endVars
<1>3. CASE Probe(t)
  BY <1>3 DEF Probe, ArmReady, ArmNotReady, CompleteArm, TakeDefault, Proceed
<1>4. CASE \/ SendCall(t) \/ Check(t) \/ DropSenderUnused(t) \/ RecvCall(t) \/ StoreValue(t) \/ MarkSent(t)
           \/ Close(t) \/ LoadState(t) \/ SwapValue(t) \/ Reload(t) \/ TestState(t) \/ ReturnValue(t)
           \/ RegisterSelect(t) \/ Complete(t)
  BY <1>4 DEF SendCall, Check, DropSenderUnused, RecvCall, StoreValue, MarkSent, Close,
              LoadState, SwapValue, Reload, Nothing, TestState, ReturnValue, RegisterSelect, Complete, Call, CompleteBy,
              Return, MayDrop, localVars, quietVars
<1>5. CASE \/ Enlist(t, "load") \/ ParkReturns(t, "park", "again") \/ Again(t, "load") \/ PushArm(t, "push")
           \/ SelectCall(t, "select_recv", "recv") \/ DeadlinePasses(t) \/ DropReceiver(t) \/ Spurious(t)
  BY <1>5 DEF Enlist, ParkReturns, Again, PushArm, SelectCall, DeadlinePasses, DropReceiver, DropHandle, Spurious
<1>6. CASE \E u \in Threads : CloneHandle(t, u)
  BY <1>6 DEF CloneHandle
<1>. QED BY <1>1, <1>2, <1>3, <1>4, <1>5, <1>6 DEF OneshotStep, OneshotChance

LEMMA AskingOthers ==
  ASSUME Base, Asking, NEW t \in Threads, OneshotStep(t) \/ OneshotChance(t),
         NEW u \in Threads, u # t
  PROVE  AskingOf(u)'
<1>1. /\ op'[u] = op[u]
      /\ pc'[u] = pc[u] \/ (pc[u] = "unborn" /\ pc'[u] = "idle")
      /\ program' = program
      /\ state # "open" => state' # "open"
  BY OthersStay, SpokenOnce
<1>2. pc[u] = "unborn" => op[u] = "none"
  BY DEF Base, EndInv, ArmOf
<1>. QED BY <1>1, <1>2 DEF Asking, AskingOf

(* The steps that go on in a receive or a send, and those that begin one.   *)
LEMMA AskingReceive ==
  ASSUME Base, NEW t \in Threads, AskingOf(t), OneListed,  program' = program,
         \/ RecvCall(t) \/ LoadState(t) \/ SwapValue(t) \/ Reload(t) \/ TestState(t) \/ ReturnValue(t)
         \/ Complete(t)
         \/ Enlist(t, "load") /\ UNCHANGED oneshotVars
         \/ ParkReturns(t, "park", "again") /\ UNCHANGED oneshotVars
         \/ Again(t, "load") /\ UNCHANGED oneshotVars
  PROVE  AskingOf(t)'
<1>. USE BaseTyped DEF At, Step, Answer, Finish, AskingOf, oneshotVars
<1>1. CASE RecvCall(t)
  BY <1>1 DEF RecvCall, Call
<1>2. CASE LoadState(t)
  BY <1>2 DEF LoadState
<1>3. CASE SwapValue(t)
  BY <1>3 DEF SwapValue
<1>4. CASE Reload(t)
  <2>1. Registered(t) => "recv" \in program.uses[t]
    <3>. SUFFICES ASSUME Registered(t) PROVE "recv" \in program.uses[t]
      OBVIOUS
    <3>1. PICK u \in Threads : waiting["recv"] = <<u>> /\ Reading(u)
      BY DEF OneListed, Registered, ToSet
    <3>2. t = u
      BY <3>1 DEF Registered, ToSet
    <3>. QED BY <3>1, <3>2 DEF Reading
  <2>. QED BY <1>4, <2>1 DEF Reload, Nothing
<1>5. CASE TestState(t)
  BY <1>5 DEF TestState
<1>6. CASE ReturnValue(t)
  BY <1>6 DEF ReturnValue, Return
<1>7. CASE Complete(t)
  BY <1>7 DEF Complete, CompleteBy
<1>8. CASE (Enlist(t, "load") \/ ParkReturns(t, "park", "again") \/ Again(t, "load")) /\ UNCHANGED oneshotVars
  BY <1>8 DEF Enlist, ParkReturns, Again
<1>. QED BY <1>1, <1>2, <1>3, <1>4, <1>5, <1>6, <1>7, <1>8

LEMMA AskingSend ==
  ASSUME Base, NEW t \in Threads, AskingOf(t),  program' = program,
         \/ SendCall(t) \/ Check(t) \/ StoreValue(t) \/ MarkSent(t) \/ Close(t) \/ DropSenderUnused(t)
         \/ RegisterSelect(t) \/ Probe(t)
         \/ /\ \/ PushArm(t, "push") \/ SelectCall(t, "select_recv", "recv") \/ DropReceiver(t)
               \/ DeadlinePasses(t) \/ Spurious(t) \/ (\E u \in Threads : CloneHandle(t, u))
               \/ (WakeStep(t) /\ UNCHANGED endVars)
            /\ UNCHANGED oneshotVars
  PROVE  AskingOf(t)'
<1>. USE BaseTyped DEF At, Step, Answer, Finish, AskingOf, oneshotVars
<1>1. CASE SendCall(t)
  BY <1>1 DEF SendCall, Call
<1>2. CASE Check(t) \/ StoreValue(t) \/ DropSenderUnused(t) \/ RegisterSelect(t)
  <2>1. op[t] = "recv" => pc[t] \notin {"load", "swap", "reload", "return"}
    BY <1>2 DEF Check, StoreValue, DropSenderUnused, RegisterSelect, MayDrop
  <2>. QED BY <1>2, <2>1 DEF Check, StoreValue, DropSenderUnused, RegisterSelect, MayDrop
<1>3. CASE MarkSent(t) \/ Close(t)
  BY <1>3 DEF MarkSent, Close
<1>4. CASE Probe(t)
  BY <1>4 DEF Probe, ArmReady, ArmNotReady, CompleteArm, TakeDefault, Proceed
<1>5. CASE PushArm(t, "push") /\ UNCHANGED oneshotVars
  BY <1>5 DEF PushArm
<1>6. CASE SelectCall(t, "select_recv", "recv") /\ UNCHANGED oneshotVars
  BY <1>6 DEF SelectCall
<1>7. CASE (DropReceiver(t) \/ DeadlinePasses(t) \/ Spurious(t)) /\ UNCHANGED oneshotVars
  BY <1>7 DEF DropReceiver, DropHandle, DeadlinePasses, Spurious
<1>8. CASE (\E u \in Threads : CloneHandle(t, u)) /\ UNCHANGED oneshotVars
  BY <1>8 DEF CloneHandle
<1>9. CASE WakeStep(t) /\ UNCHANGED endVars /\ UNCHANGED oneshotVars
  BY <1>9 DEF endVars
<1>. QED BY <1>1, <1>2, <1>3, <1>4, <1>5, <1>6, <1>7, <1>8, <1>9

LEMMA AskingSelect ==
  ASSUME Base, NEW t \in Threads, AskingOf(t), Unspoken,  program' = program, SelectStep(t),
         UNCHANGED oneshotVars
  PROVE  AskingOf(t)'
<1>. USE BaseTyped DEF At, Step, Finish, AskingOf, oneshotVars
<1>1. CASE Decide(t)
  BY <1>1 DEF Decide
<1>2. CASE WakeUp(t)
  BY <1>2 DEF WakeUp
<1>3. CASE AbortLoad(t)
  BY <1>3 DEF AbortLoad, Proceed
<1>4. CASE Walk(t)
  BY <1>4 DEF Walk, Proceed
<1>5. CASE Judge(t)
  <2>1. pc[t] = "judge"
    BY <1>5 DEF Judge
  <2>2. arm[t].turn # 0
    BY <2>1 DEF Base, EndInv, ArmOf, SelectSteps
  <2>3. arm[t].turn \in Rounds
    BY <2>2 DEF Arms
  <2>4. Won(t) # Unselected => state # "open"
    BY <2>3 DEF Unspoken, Won
  <2>. QED BY <1>5, <2>1, <2>4 DEF Judge, CompleteArm, TakeDefault, Proceed
<1>. QED BY <1>1, <1>2, <1>3, <1>4, <1>5 DEF SelectStep

LEMMA AskingStep ==
  ASSUME Base, Asking, OneListed, Unspoken, NEW t \in Threads, OneshotStep(t) \/ OneshotChance(t)
  PROVE  Asking'
<1>1. AskingOf(t) /\ program' = program
  BY SpokenOnce DEF Asking
<1>2. AskingOf(t)'
  BY <1>1, AskingReceive, AskingSend, AskingSelect DEF OneshotStep, OneshotChance
<1>3. \A u \in Threads \ {t} : AskingOf(u)'
  BY AskingOthers
<1>. QED BY <1>2, <1>3 DEF Asking

(* The calls a step makes, and where it writes a winner.                    *)
Waking(t) == WakeStep(t) /\ UNCHANGED endVars /\ UNCHANGED oneshotVars
Word == <<WakeOne("recv"), SelectOne("recv")>>

LEMMA CallsMade ==
  ASSUME Base, NEW t \in Threads, OneshotStep(t) \/ OneshotChance(t)
  PROVE  \/ UNCHANGED calls
         \/ Waking(t)
         \/ \E more \in {Word, WakeEverybody} :
              Free(t) /\ calls' = [calls EXCEPT ![t] = more] /\ state' # "open"
         \/ \E more \in {<<Drain("recv")>>, <<>>} :
              Free(t) /\ calls' = [calls EXCEPT ![t] = more] /\ UNCHANGED state /\ DropReceiver(t)
<1>. USE BaseTyped DEF At
<1>1. CASE SelectStep(t)
  BY <1>1 DEF SelectStep, Decide, WakeUp, AbortLoad, Walk, Judge, localVars, waiterVars, probeVars
<1>2. CASE Waking(t)
  BY <1>2
<1>3. CASE \/ SendCall(t) \/ Check(t) \/ DropSenderUnused(t) \/ RecvCall(t) \/ StoreValue(t)
           \/ LoadState(t) \/ SwapValue(t) \/ Reload(t) \/ TestState(t) \/ ReturnValue(t)
           \/ Probe(t) \/ RegisterSelect(t) \/ Complete(t)
  BY <1>3 DEF SendCall, Check, DropSenderUnused, RecvCall, StoreValue, LoadState, SwapValue,
              Reload, TestState, ReturnValue, Probe, RegisterSelect, Complete, Call, CompleteBy, Return,
              localVars, probeVars
<1>4. CASE MarkSent(t)
  BY <1>4 DEF MarkSent, Then, Word
<1>5. CASE Close(t)
  BY <1>5 DEF Close, Then
<1>6. CASE \/ Enlist(t, "load") \/ ParkReturns(t, "park", "again") \/ Again(t, "load") \/ PushArm(t, "push")
           \/ SelectCall(t, "select_recv", "recv") \/ DeadlinePasses(t) \/ Spurious(t)
           \/ \E u \in Threads : CloneHandle(t, u)
  BY <1>6 DEF Enlist, ParkReturns, Again, PushArm, SelectCall, DeadlinePasses, Spurious, CloneHandle,
              probeVars, waiterVars
<1>7. CASE DropReceiver(t) /\ UNCHANGED oneshotVars
  <2>1. PICK more \in {<<Drain("recv")>>, <<>>} : DropHandle(t, "recv", more)
    BY <1>7 DEF DropReceiver
  <2>2. Free(t) /\ calls' = [calls EXCEPT ![t] = more]
    BY <2>1 DEF DropHandle, MayDrop, Then
  <2>. QED BY <1>7, <2>2 DEF oneshotVars
<1>. QED BY <1>1, <1>2, <1>3, <1>4, <1>5, <1>6, <1>7 DEF OneshotStep, OneshotChance, Waking

LEMMA WordCalls ==
  /\ Word \in Seq(WakeCalls(ArmNodes)) /\ ToSet(Word) = {WakeOne("recv"), SelectOne("recv")}
  /\ ToSet(<<Drain("recv")>>) = {Drain("recv")} /\ ToSet(<<>>) = {}
<1>1. Word \in Seq(WakeCalls(ArmNodes))
  BY WakesOfSend DEF Word
<1>2. ToSet(Word) = {WakeOne("recv"), SelectOne("recv")}
  BY DEF Word, ToSet
<1>3. ToSet(<<Drain("recv")>>) = {Drain("recv")} /\ ToSet(<<>>) = {}
  BY DEF ToSet
<1>. QED BY <1>1, <1>2, <1>3

LEMMA RetireUnselects ==
  ASSUME Base, NEW t \in Threads, Retire(t)
  PROVE  \A u \in Threads : \A r \in Rounds :
           selected'[u][r] = selected[u][r] \/ (u = t /\ selected'[u][r] = Unselected)
  BY BaseTyped DEF Retire

LEMMA WinnersMade ==
  ASSUME Base, NEW t \in Threads, OneshotStep(t) \/ OneshotChance(t), ~Waking(t)
  PROVE  \A u \in Threads : \A r \in Rounds :
           \/ selected'[u][r] = selected[u][r]
           \/ u = t /\ selected'[u][r] = Unselected /\ pc[t] \in {"probe", "judge"}
           \/ u = t /\ pc[t] = "probe" /\ state # "open"
<1>. USE BaseTyped DEF At
<1>1. CASE SelectStep(t)
  <2>1. CASE Judge(t)
    <3>1. Retire(t) /\ pc[t] = "judge"
      BY <2>1 DEF Judge, CompleteArm, TakeDefault
    <3>. QED BY <3>1, RetireUnselects
  <2>2. CASE Decide(t) \/ WakeUp(t) \/ AbortLoad(t) \/ Walk(t)
    BY <2>2 DEF Decide, WakeUp, AbortLoad, Walk, localVars, quietVars, waiterVars
  <2>. QED BY <1>1, <2>1, <2>2 DEF SelectStep
<1>2. CASE Probe(t)
  <2>1. pc[t] = "probe"
    BY <1>2 DEF Probe
  <2>2. CASE Retire(t)
    BY <2>1, <2>2, RetireUnselects
  <2>3. CASE ~Retire(t)
    <3>1. CASE state # "open" /\ selected' = [selected EXCEPT ![t][arm[t].turn] = 1]
      BY <2>1, <3>1
    <3>2. CASE UNCHANGED selected
      BY <3>2
    <3>3. CASE selected' = [selected EXCEPT ![t][FreshTurn(t)] = Unselected]
      BY <2>1, <3>3
    <3>. QED BY <1>2, <2>3, <3>1, <3>2, <3>3 DEF Probe, ArmReady, ArmNotReady, CompleteArm, TakeDefault
  <2>. QED BY <2>2, <2>3
<1>3. CASE \/ SendCall(t) \/ Check(t) \/ DropSenderUnused(t) \/ RecvCall(t) \/ StoreValue(t)
           \/ LoadState(t) \/ SwapValue(t) \/ Reload(t) \/ TestState(t) \/ ReturnValue(t)
           \/ RegisterSelect(t) \/ Complete(t) \/ MarkSent(t) \/ Close(t)
  BY <1>3 DEF SendCall, Check, DropSenderUnused, RecvCall, StoreValue, LoadState, SwapValue,
              Reload, TestState, ReturnValue, RegisterSelect, Complete, Call, CompleteBy, Return,
              MarkSent, Close, localVars, quietVars
<1>4. CASE \/ Enlist(t, "load") \/ ParkReturns(t, "park", "again") \/ Again(t, "load") \/ PushArm(t, "push")
           \/ SelectCall(t, "select_recv", "recv") \/ DeadlinePasses(t) \/ Spurious(t) \/ DropReceiver(t)
           \/ \E u \in Threads : CloneHandle(t, u)
  BY <1>4 DEF Enlist, ParkReturns, Again, PushArm, SelectCall, DeadlinePasses, Spurious, CloneHandle,
              DropReceiver, DropHandle, probeVars, waiterVars
<1>. QED BY <1>1, <1>2, <1>3, <1>4 DEF OneshotStep, OneshotChance, Waking

(* A wake call that only drains goes on draining and elects nobody.         *)
LEMMA DrainingStep ==
  ASSUME Base, NEW t \in Threads, WakeStep(t), \A call \in ToSet(calls[t]) : Draining(call)
  PROVE  UNCHANGED selected /\ \A call \in ToSet(calls'[t]) : Draining(call)
<1>. DEFINE front == Head(calls[t])
<1>1. /\ NodesOK(ArmNodes) /\ WaiterTypes(ArmNodes) /\ ~Free(t)
      /\ ToSet(calls[t]) = {front} \cup ToSet(Tail(calls[t]))
  BY BaseTyped, EndpointConstants, WakeStepCall
<1>2. Draining(front) /\ \A call \in ToSet(Tail(calls[t])) : Draining(call)
  BY <1>1
<1>3. ASSUME NEW todo, GoOn(t, Visit("drain", todo)),
             todo = <<>> \/ Visit("drain", todo) \in WakeCalls(ArmNodes)
      PROVE  \A call \in ToSet(calls'[t]) : Draining(call)
  <2>1. Visit("drain", todo).todo = todo /\ Draining(Visit("drain", todo))
    BY DEF Visit, Draining
  <2>2. ToSet(calls'[t]) \subseteq {Visit("drain", todo)} \cup ToSet(Tail(calls[t]))
    BY <1>1, <1>3, <2>1, GoingOn
  <2>. QED BY <1>2, <2>1, <2>2
<1>4. CASE SwapStack(t)
  <2>1. front.op = "drain" /\ GoOn(t, Visit(front.op, stack[front.on])) /\ UNCHANGED selected
    BY <1>2, <1>4 DEF SwapStack, Calling, Draining
  <2>2. Visit(front.op, stack[front.on]).todo = <<>> \/ Visit(front.op, stack[front.on]) \in WakeCalls(ArmNodes)
    BY <1>1, <1>4, SwapEffect
  <2>3. Visit(front.op, stack[front.on]).todo = stack[front.on]
    BY DEF Visit
  <2>. QED BY <1>3, <2>1, <2>2, <2>3
<1>5. CASE VisitNode(t)
  <2>1. front.op = "visit" /\ front.mode = "drain"
    BY <1>2, <1>5 DEF VisitNode, Calling, Draining
  <2>2. GoOn(t, Visit("drain", Tail(front.todo))) /\ UNCHANGED selected
    BY <1>5, <2>1 DEF VisitNode
  <2>3. Visit("drain", Tail(front.todo)).todo = <<>> \/ Visit("drain", Tail(front.todo)) \in WakeCalls(ArmNodes)
    BY <1>1, <1>5, VisitEffect
  <2>4. Visit("drain", Tail(front.todo)).todo = Tail(front.todo)
    BY DEF Visit
  <2>. QED BY <1>3, <2>2, <2>3, <2>4
<1>6. ~(SnapshotOne(t) \/ SnapshotAll(t) \/ UnparkNext(t) \/ ElectNode(t))
  BY <1>2 DEF SnapshotOne, SnapshotAll, UnparkNext, ElectNode, Calling, Draining
<1>. QED BY <1>4, <1>5, <1>6 DEF WakeStep

LEMMA UnspokenStep ==
  ASSUME Base, Unspoken, NEW t \in Threads, OneshotStep(t) \/ OneshotChance(t)
  PROVE  Unspoken'
<1>. SUFFICES ASSUME state' = "open"
              PROVE  /\ \A u \in Threads : \A r \in Rounds : selected'[u][r] = Unselected
                     /\ \A u \in Threads : \A call \in ToSet(calls'[u]) : Draining(call)
  BY DEF Unspoken, Draining
<1>1. state = "open"
  BY SpokenOnce
<1>2. /\ \A u \in Threads : \A r \in Rounds : selected[u][r] = Unselected
      /\ \A u \in Threads : \A call \in ToSet(calls[u]) : Draining(call)
  BY <1>1 DEF Unspoken
<1>3. CASE WakeStep(t)
  <2>1. \A u \in Threads \ {t} : calls'[u] = calls[u]
    BY <1>3, BaseTyped, EndpointConstants, WakeStepTypes
  <2>. QED BY <1>2, <1>3, <2>1, DrainingStep
<1>4. CASE ~WakeStep(t)
  <2>1. \A u \in Threads : \A r \in Rounds : selected'[u][r] = Unselected
    BY <1>1, <1>2, <1>4, WinnersMade DEF Waking
  <2>2. UNCHANGED calls \/ \E more \in {<<Drain("recv")>>, <<>>} : calls' = [calls EXCEPT ![t] = more]
    BY <1>4, CallsMade DEF Waking
  <2>3. \A call \in {Drain("recv")} : Draining(call)
    BY DEF Drain, Draining
  <2>4. \A u \in Threads : \A call \in ToSet(calls'[u]) : Draining(call)
    <3>1. CASE UNCHANGED calls
      BY <1>2, <3>1
    <3>2. ASSUME NEW more \in {<<Drain("recv")>>, <<>>}, calls' = [calls EXCEPT ![t] = more]
          PROVE  \A u \in Threads : \A call \in ToSet(calls'[u]) : Draining(call)
      <4>1. ToSet(more) \subseteq {Drain("recv")}
        BY WordCalls
      <4>2. calls'[t] = more /\ \A u \in Threads \ {t} : calls'[u] = calls[u]
        BY <3>2, BaseTyped
      <4>. QED BY <1>2, <2>3, <4>1, <4>2
    <3>. QED BY <2>2, <3>1, <3>2
  <2>. QED BY <2>1, <2>4
<1>. QED BY <1>3, <1>4

(* Where the list of waiters is written, and where permits are used up.     *)
LEMMA ListWritten ==
  ASSUME Base, NEW t \in Threads, OneshotStep(t) \/ OneshotChance(t), ~UNCHANGED waiting
  PROVE  \/ Enlist(t, "load") /\ UNCHANGED oneshotVars
         \/ Again(t, "load") /\ UNCHANGED oneshotVars
         \/ ReturnValue(t)
<1>1. CASE SelectStep(t)
  BY <1>1 DEF SelectStep, Decide, WakeUp, AbortLoad, Walk, Judge, localVars, quietVars, waiterVars, probeVars
<1>2. CASE WakeStep(t)
  BY <1>2 DEF WakeStep, SnapshotOne, SnapshotAll, UnparkNext, SwapStack, VisitNode, ElectNode
<1>3. CASE \/ SendCall(t) \/ Check(t) \/ DropSenderUnused(t) \/ RecvCall(t) \/ StoreValue(t)
           \/ LoadState(t) \/ SwapValue(t) \/ Reload(t) \/ TestState(t)
           \/ Probe(t) \/ RegisterSelect(t) \/ Complete(t) \/ MarkSent(t) \/ Close(t)
  BY <1>3 DEF SendCall, Check, DropSenderUnused, RecvCall, StoreValue, LoadState, SwapValue,
              Reload, TestState, Probe, RegisterSelect, Complete, Call, CompleteBy,
              MarkSent, Close, localVars, quietVars, probeVars
<1>4. CASE \/ ParkReturns(t, "park", "again") \/ PushArm(t, "push")
           \/ SelectCall(t, "select_recv", "recv") \/ DeadlinePasses(t) \/ Spurious(t) \/ DropReceiver(t)
           \/ \E u \in Threads : CloneHandle(t, u)
  BY <1>4 DEF ParkReturns, PushArm, SelectCall, DeadlinePasses, Spurious, CloneHandle,
              DropReceiver, DropHandle, probeVars, waiterVars
<1>. QED BY <1>1, <1>2, <1>3, <1>4 DEF OneshotStep, OneshotChance

LEMMA PermitsKept ==
  ASSUME Base, NEW t \in Threads, OneshotStep(t) \/ OneshotChance(t), NEW u \in Threads, permit[u]
  PROVE  \/ permit'[u]
         \/ u = t /\ pc[t] = "park" /\ pc'[t] = "again"
         \/ u = t /\ pc[t] = "sleep" /\ pc'[t] = "abort"
<1>. USE BaseTyped DEF At, Step
<1>1. CASE SelectStep(t)
  BY <1>1 DEF SelectStep, Decide, WakeUp, AbortLoad, Walk, Judge, localVars, quietVars, waiterVars, probeVars
<1>2. CASE WakeStep(t)
  BY <1>2 DEF WakeStep, SnapshotOne, SnapshotAll, UnparkNext, SwapStack, VisitNode, ElectNode
<1>3. CASE \/ SendCall(t) \/ Check(t) \/ DropSenderUnused(t) \/ RecvCall(t) \/ StoreValue(t)
           \/ LoadState(t) \/ SwapValue(t) \/ Reload(t) \/ TestState(t) \/ ReturnValue(t)
           \/ Probe(t) \/ RegisterSelect(t) \/ Complete(t) \/ MarkSent(t) \/ Close(t)
  BY <1>3 DEF SendCall, Check, DropSenderUnused, RecvCall, StoreValue, LoadState, SwapValue,
              Reload, TestState, Probe, RegisterSelect, Complete, Call, CompleteBy, Return, ReturnValue,
              MarkSent, Close, localVars, quietVars, probeVars
<1>4. CASE \/ Enlist(t, "load") \/ Again(t, "load") \/ ParkReturns(t, "park", "again") \/ PushArm(t, "push")
           \/ SelectCall(t, "select_recv", "recv") \/ DeadlinePasses(t) \/ Spurious(t) \/ DropReceiver(t)
           \/ \E v \in Threads : CloneHandle(t, v)
  BY <1>4 DEF Enlist, Again, ParkReturns, PushArm, SelectCall, DeadlinePasses, Spurious, CloneHandle,
              DropReceiver, DropHandle, probeVars, waiterVars
<1>. QED BY <1>1, <1>2, <1>3, <1>4 DEF OneshotStep, OneshotChance

(* What a registered receiver does, and how a thread gets to register and   *)
(* to park.                                                                 *)
LEMMA ReadingGoesOn ==
  ASSUME Base, OneListed, NEW t \in Threads, AskingOf(t), OneshotStep(t) \/ OneshotChance(t), UNCHANGED waiting,
         program' = program
  PROVE  /\ Reading(t) /\ Registered(t) => Reading(t)' \/ Again(t, "load") \/ ReturnValue(t)
         /\ pc'[t] = "enlist" => ~Registered(t)
         /\ pc'[t] = "park" => Registered(t) /\ (pc[t] = "park" \/ state' = "open")
<1>. USE BaseTyped DEF At, Step, Answer, Finish, Reading, Steps, SelectSteps
<1>0. pc[t] = "enlist" => ~Registered(t)
  BY DEF OneListed
<1>1. CASE SelectStep(t)
  BY <1>1 DEF SelectStep, Decide, WakeUp, AbortLoad, Walk, Judge, CompleteArm, TakeDefault, Proceed
<1>2. CASE \/ WakeStep(t) /\ UNCHANGED endVars /\ UNCHANGED oneshotVars
           \/ (DeadlinePasses(t) \/ Spurious(t)) /\ UNCHANGED oneshotVars
  <2>1. pc'[t] = pc[t] /\ op'[t] = op[t]
    BY <1>2 DEF endVars, DeadlinePasses, Spurious
  <2>. QED BY <1>0, <2>1 DEF OneListed
<1>3. CASE SendCall(t) \/ Check(t) \/ DropSenderUnused(t) \/ StoreValue(t) \/ MarkSent(t) \/ Close(t)
  BY <1>3 DEF SendCall, Check, DropSenderUnused, StoreValue, Call, MarkSent, Close, MayDrop
<1>4. CASE RecvCall(t) \/ LoadState(t) \/ SwapValue(t) \/ Complete(t)
  BY <1>4 DEF RecvCall, LoadState, SwapValue, Complete, Call, CompleteBy
<1>5. CASE Reload(t) \/ TestState(t)
  BY <1>5 DEF Reload, TestState, Nothing, oneshotVars
<1>6. CASE Probe(t) \/ RegisterSelect(t) \/ ReturnValue(t)
  BY <1>6 DEF Probe, RegisterSelect, ReturnValue, Return, ArmReady, ArmNotReady, CompleteArm, TakeDefault, Proceed
<1>7. CASE \/ Enlist(t, "load") \/ Again(t, "load") \/ ParkReturns(t, "park", "again") \/ PushArm(t, "push")
           \/ SelectCall(t, "select_recv", "recv") \/ DropReceiver(t)
  BY <1>7 DEF Enlist, Again, ParkReturns, PushArm, SelectCall, DropReceiver, DropHandle, MayDrop
<1>8. CASE \E v \in Threads : CloneHandle(t, v)
  BY <1>8 DEF CloneHandle
<1>. QED BY <1>1, <1>2, <1>3, <1>4, <1>5, <1>6, <1>7, <1>8 DEF OneshotStep, OneshotChance

LEMMA OneRegistered ==
  ASSUME Base, OneListed, NEW t \in Threads, Registered(t)
  PROVE  waiting["recv"] = <<t>> /\ Reading(t)
<1>1. PICK u \in Threads : waiting["recv"] = <<u>> /\ Reading(u)
  BY DEF OneListed, Registered, ToSet
<1>2. t = u
  BY <1>1 DEF Registered, ToSet
<1>. QED BY <1>1, <1>2

LEMMA OneBlocks ==
  ASSUME OneWaiter, Base, NEW t \in Threads, NEW u \in Threads,
         \/ "recv" \in program.uses[t] /\ "recv" \in program.uses[u]
         \/ "select_recv" \in program.uses[t] /\ "select_recv" \in program.uses[u]
  PROVE  t = u
  BY DEF OneWaiter, Base, EndInv, EndTypes

LEMMA WithoutOne ==
  ASSUME NEW t \in Threads, NEW s, s = <<>> \/ s = <<t>>
  PROVE  Without(s, t) = <<>>
<1>1. s \in Seq(Threads) /\ Once(s) /\ ToSet(s) \subseteq {t}
  <2>1. CASE s = <<>>
    BY <2>1 DEF Once, ToSet
  <2>2. CASE s = <<t>>
    BY <2>2 DEF Once, ToSet
  <2>. QED BY <2>1, <2>2
<1>2. Without(s, t) \in Seq(Threads) /\ ToSet(Without(s, t)) = {}
  BY <1>1, ToSetWithout
<1>3. Without(s, t) # <<>> => Without(s, t)[1] \in ToSet(Without(s, t))
  BY <1>2 DEF ToSet
<1>. QED BY <1>2, <1>3

LEMMA OneListedStep ==
  ASSUME OneWaiter, Base, Asking, OneListed, NEW t \in Threads, OneshotStep(t) \/ OneshotChance(t)
  PROVE  OneListed'
<1>0. /\ \A u \in Threads \ {t} : /\ op'[u] = op[u] 
                                  /\ pc'[u] = pc[u] \/ (pc[u] = "unborn" /\ pc'[u] = "idle")
      /\ program' = program
  BY OthersStay, SpokenOnce
<1>a. \A u \in Threads : AskingOf(u)
  BY DEF Asking
<1>1. CASE UNCHANGED waiting /\ ~Again(t, "load") /\ ~ReturnValue(t)
  <2>1. \A u \in Threads : Registered(u)' <=> Registered(u)
    BY <1>1 DEF Registered
  <2>2. ASSUME NEW u \in Threads, Reading(u), Registered(u)
        PROVE  Reading(u)'
    <3>1. CASE u # t
      BY <1>0, <2>2, <3>1 DEF Reading
    <3>2. CASE u = t
      BY <1>0, <1>a, <1>1, <2>2, <3>2, ReadingGoesOn
    <3>. QED BY <3>1, <3>2
  <2>3. waiting'["recv"] = <<>> \/ \E u \in Threads : waiting'["recv"] = <<u>> /\ Reading(u)'
    BY <1>1, <2>2 DEF OneListed, Registered, ToSet
  <2>4. \A u \in Threads : /\ pc'[u] = "enlist" => ~Registered(u)'
                           /\ pc'[u] = "park" => Registered(u)'
    BY <1>0, <1>a, <1>1, <2>1, ReadingGoesOn DEF OneListed
  <2>. QED BY <2>3, <2>4 DEF OneListed, Reading
<1>2. CASE Enlist(t, "load") /\ UNCHANGED oneshotVars
  <2>1. /\ pc[t] = "enlist" /\ Register(t, "recv") /\ pc' = [pc EXCEPT ![t] = "load"] /\ op' = op
    BY <1>2 DEF Enlist, At, Step
  <2>2. op[t] = "recv" /\ "recv" \in program.uses[t] /\ ~Registered(t)
    BY <1>a, <2>1 DEF AskingOf, OneListed
  <2>3. \A u \in Threads : "recv" \in program.uses[u] => u = t
    BY <2>2, OneBlocks
  <2>4. waiting["recv"] = <<>>
    <3>1. ASSUME NEW u \in Threads, waiting["recv"] = <<u>>, Reading(u)
          PROVE  FALSE
      BY <2>2, <2>3, <3>1 DEF Reading, Registered, ToSet
    <3>. QED BY <3>1 DEF OneListed
  <2>5. waiting'["recv"] = <<t>>
    BY <2>1, <2>4, BaseTyped, EndpointConstants DEF Register
  <2>6. Reading(t)' /\ pc'[t] = "load"
    BY <1>0, <2>1, <2>2, BaseTyped DEF Reading
  <2>7. \A u \in Threads \ {t} : pc[u] \notin {"enlist", "park"}
    BY <1>a, <2>3 DEF AskingOf
  <2>8. \A u \in Threads : pc'[u] \notin {"enlist", "park"}
    BY <1>0, <2>6, <2>7
  <2>. QED BY <2>5, <2>6, <2>8 DEF OneListed, Reading
<1>3. CASE Again(t, "load") \/ ReturnValue(t)
  <2>1. /\ pc[t] \in {"again", "return"} /\ waiting' = [waiting EXCEPT !["recv"] = Without(@, t)]
        /\ pc'[t] \in {"load", "idle"}
    BY <1>3, BaseTyped DEF Again, ReturnValue, Return, At, Step, Finish, Unregister
  <2>2. waiting'["recv"] = Without(waiting["recv"], t)
    BY <2>1, BaseTyped, EndpointConstants
  <2>3. CASE Registered(t)
    <3>1. waiting'["recv"] = <<>> /\ \A u \in Threads : Registered(u) => u = t
      <4>1. waiting["recv"] = <<t>>
        BY <2>3, OneRegistered
      <4>2. waiting'["recv"] = <<>>
        BY <2>2, <4>1, WithoutOne
      <4>. QED BY <4>1, <4>2 DEF Registered, ToSet
    <3>2. \A u \in Threads : pc'[u] # "park"
      BY <1>0, <2>1, <3>1 DEF OneListed
    <3>3. \A u \in Threads : ~Registered(u)'
      BY <3>1 DEF Registered, ToSet
    <3>. QED BY <3>1, <3>2, <3>3 DEF OneListed
  <2>4. CASE ~Registered(t)
    <3>1. waiting'["recv"] = waiting["recv"]
      BY <2>2, <2>4 DEF Without, Registered
    <3>2. \A u \in Threads : Registered(u)' <=> Registered(u)
      BY <3>1 DEF Registered
    <3>3. \A u \in Threads : /\ pc'[u] = "enlist" => ~Registered(u)'
                             /\ pc'[u] = "park" => Registered(u)'
      BY <1>0, <2>1, <3>2 DEF OneListed
    <3>4. \A u \in Threads : waiting["recv"] = <<u>> => u # t
      BY <2>4 DEF Registered, ToSet
    <3>5. waiting'["recv"] = <<>> \/ \E u \in Threads : waiting'["recv"] = <<u>> /\ Reading(u)'
      BY <1>0, <3>1, <3>4 DEF OneListed, Reading
    <3>. QED BY <3>3, <3>5 DEF OneListed, Reading
  <2>. QED BY <2>3, <2>4
<1>. QED BY <1>1, <1>2, <1>3, ListWritten

(* Whoever is told that no receiver is left is right.                       *)
Dry == \A t \in Threads : \A call \in ToSet(calls[t]) : call.op = "drain" => Receivers = {}

LEMMA ReceiversGone ==
  ASSUME Base, NEW t \in Threads, OneshotStep(t) \/ OneshotChance(t), Receivers = {}
  PROVE  Receivers' = {}
<1>1. CASE \E u \in Threads : CloneHandle(t, u)
  BY <1>1, CloneHandleStep DEF Base, EndInv
<1>2. CASE Close(t)
  BY <1>2, BaseTyped DEF Close, Receivers
<1>3. CASE DropReceiver(t)
  BY <1>3, BaseTyped DEF DropReceiver, DropHandle, Receivers
<1>4. CASE held' = held
  BY <1>4 DEF Receivers
<1>5. CASE SelectStep(t) \/ (WakeStep(t) /\ UNCHANGED endVars)
  <2>1. held' = held
    BY <1>5 DEF SelectStep, Decide, WakeUp, AbortLoad, Walk, Judge, localVars, quietVars, probeVars, endVars
  <2>. QED BY <1>4, <2>1
<1>6. CASE \/ SendCall(t) \/ Check(t) \/ DropSenderUnused(t) \/ RecvCall(t) \/ StoreValue(t)
           \/ LoadState(t) \/ SwapValue(t) \/ Reload(t) \/ TestState(t) \/ ReturnValue(t)
           \/ Probe(t) \/ RegisterSelect(t) \/ Complete(t) \/ MarkSent(t)
  <2>1. held' = held
    BY <1>6 DEF SendCall, Check, DropSenderUnused, RecvCall, StoreValue, LoadState, SwapValue,
              Reload, TestState, Probe, RegisterSelect, Complete, Call, CompleteBy, Return, ReturnValue,
              MarkSent, localVars, quietVars, probeVars
  <2>. QED BY <1>4, <2>1
<1>7. CASE \/ Enlist(t, "load") \/ Again(t, "load") \/ ParkReturns(t, "park", "again") \/ PushArm(t, "push")
           \/ SelectCall(t, "select_recv", "recv") \/ DeadlinePasses(t) \/ Spurious(t)
  <2>1. held' = held
    BY <1>7 DEF Enlist, Again, ParkReturns, PushArm, SelectCall, DeadlinePasses, Spurious, probeVars
  <2>. QED BY <1>4, <2>1
<1>. QED BY <1>1, <1>2, <1>3, <1>5, <1>6, <1>7 DEF OneshotStep, OneshotChance

LEMMA DryStep ==
  ASSUME Base, Dry, NEW t \in Threads, OneshotStep(t) \/ OneshotChance(t)
  PROVE  Dry'
<1>. SUFFICES ASSUME NEW u \in Threads, NEW call \in ToSet(calls'[u]), call.op = "drain",
                     call \notin ToSet(calls[u])
              PROVE  Receivers' = {}
  BY ReceiversGone DEF Dry
<1>1. ~WakeStep(t)
  BY BaseTyped, EndpointConstants, NoNewCalls
<1>2. calls' # calls
  OBVIOUS
<1>3. PICK more : /\ calls' = [calls EXCEPT ![t] = more]
                  /\ \/ more \in {Word, WakeEverybody}
                     \/ more \in {<<Drain("recv")>>, <<>>} /\ DropReceiver(t)
  BY <1>1, <1>2, CallsMade DEF Waking
<1>11. u = t /\ call \in ToSet(more)
  BY <1>3, BaseTyped
<1>4. /\ \A m \in ToSet(Word) : m.op # "drain"
      /\ \A m \in ToSet(WakeEverybody) : m.op # "drain"
  BY WordCalls, WakeSequences DEF WakeOne, SelectOne, WakeAll, SelectAll
<1>5. more = <<Drain("recv")>> /\ DropReceiver(t)
  BY <1>3, <1>11, <1>4, WordCalls
<1>6. <<Drain("recv")>> # <<>>
  OBVIOUS
<1>7. calls'[t] = <<Drain("recv")>>
  BY <1>3, <1>5, BaseTyped
<1>8. DropHandle(t, "recv", IF Receivers = {t} THEN <<Drain("recv")>> ELSE <<>>)
  BY <1>5 DEF DropReceiver
<1>9. Receivers = {t}
  BY <1>7, <1>8, <1>6, BaseTyped DEF DropHandle, Then
<1>10. held' = [held EXCEPT ![t] = @ \ {"recv"}]
  BY <1>8 DEF DropHandle
<1>. QED BY <1>9, <1>10, BaseTyped DEF Receivers

(* The one receiver that is registered is going to be woken.                *)
Sought(t) == Woken(t, "recv") \/ \E u \in Threads : WakeOne("recv") \in ToSet(calls[u])
Parked == \A t \in Threads : pc[t] = "park" /\ state # "open" => Sought(t)

LEMMA SoughtWake ==
  ASSUME Base, OneListed, NEW u \in Threads, WakeStep(u), NEW t \in Threads, Registered(t), Sought(t)
  PROVE  Sought(t)'
<1>. DEFINE front == Head(calls[u])
<1>1. /\ NodesOK(ArmNodes) /\ WaiterTypes(ArmNodes) /\ "recv" \in Lists /\ ~Free(u)
      /\ ToSet(calls[u]) = {front} \cup ToSet(Tail(calls[u]))
      /\ \A v \in Threads \ {u} : calls'[v] = calls[v]
      /\ ToSet(Tail(calls[u])) \subseteq ToSet(calls'[u])
  BY BaseTyped, EndpointConstants, WakeStepCall, WakeStepTypes
<1>2. CASE Woken(t, "recv")
  <2>1. t \in ToSet(waiting["recv"])
    BY DEF Registered
  <2>. QED BY <1>1, <1>2, <2>1, WakeStepWakes DEF Sought
<1>3. ASSUME NEW v \in Threads, WakeOne("recv") \in ToSet(calls[v])
      PROVE  Sought(t)'
  <2>1. CASE v # u \/ WakeOne("recv") \in ToSet(Tail(calls[u]))
    BY <1>1, <1>3, <2>1 DEF Sought, WakeOne
  <2>2. CASE v = u /\ front = WakeOne("recv")
    <3>1. SnapshotOne(u)
      <4>1. front.op = "wake_one"
        BY <2>2 DEF WakeOne
      <4>. QED BY <4>1 DEF WakeStep, SnapshotOne, SnapshotAll, UnparkNext, SwapStack, VisitNode, ElectNode, Calling
    <3>2. GoOn(u, Unpark(OneOf(waiting["recv"])))
      BY <2>2, <3>1 DEF SnapshotOne, WakeOne
    <3>3. OneOf(waiting["recv"]) = <<t>>
      BY OneRegistered DEF OneOf
    <3>. DEFINE goal == Unpark(<<t>>)
    <3>4. /\ goal.op = "unpark" /\ goal.todo = <<t>> /\ <<t>> # <<>> /\ <<t>> \in Seq(Threads)
          /\ t \in ToSet(<<t>>)
      BY DEF Unpark, ToSet
    <3>5. goal \in WakeCalls(ArmNodes)
      BY <3>4 DEF Unpark, WakeCalls, Unparks
    <3>6. goal \in ToSet(calls'[u])
      BY <1>1, <3>2, <3>3, <3>4, <3>5, GoingOn
    <3>. QED BY <3>4, <3>6 DEF Sought, Woken, Wakes
  <2>. QED BY <1>1, <1>3, <2>1, <2>2
<1>. QED BY <1>2, <1>3 DEF Sought

(* A step that makes calls keeps those there are.                           *)
LEMMA CallsGrow ==
  ASSUME Base, NEW t \in Threads, OneshotStep(t) \/ OneshotChance(t), ~Waking(t)
  PROVE  /\ \A u \in Threads : ToSet(calls[u]) \subseteq ToSet(calls'[u])
         /\ \/ UNCHANGED calls
            \/ Free(t) /\ \A u \in Threads \ {t} : calls'[u] = calls[u]
         /\ state # state' => ToSet(calls'[t]) \in {ToSet(Word), ToSet(WakeEverybody)}
<1>1. CASE UNCHANGED calls
  <2>1. ~(\E more \in {Word, WakeEverybody} : calls' = [calls EXCEPT ![t] = more] /\ Free(t))
    <3>1. Word # <<>> /\ WakeEverybody # <<>>
      BY DEF Word, WakeEverybody
    <3>. QED BY <1>1, <3>1, BaseTyped DEF Free
  <2>2. MarkSent(t) => \E more \in {Word, WakeEverybody} : calls' = [calls EXCEPT ![t] = more] /\ Free(t)
    BY DEF MarkSent, Then, Word, At
  <2>3. Close(t) /\ state' # state =>
          \E more \in {Word, WakeEverybody} : calls' = [calls EXCEPT ![t] = more] /\ Free(t)
    BY DEF Close, Then, At
  <2>. QED BY <1>1, <2>1, <2>2, <2>3, SpokenOnce
<1>2. CASE calls' # calls
  <2>1. PICK more : /\ calls' = [calls EXCEPT ![t] = more] /\ Free(t)
                    /\ \/ more \in {Word, WakeEverybody}
                       \/ UNCHANGED state
    BY <1>2, CallsMade
  <2>2. /\ \A v \in Threads : ToSet(calls[v]) \subseteq ToSet(calls'[v])
        /\ ToSet(calls'[t]) = ToSet(more)
    BY <2>1, BaseTyped, CallsAdded
  <2>. QED BY <2>1, <2>2, BaseTyped
<1>. QED BY <1>1, <1>2

LEMMA ParkedStep ==
  ASSUME Base, Asking, OneListed, Parked, NEW t \in Threads, OneshotStep(t) \/ OneshotChance(t)
  PROVE  Parked'
<1>. SUFFICES ASSUME NEW u \in Threads, pc'[u] = "park", state' # "open"
              PROVE  Sought(u)'
  BY DEF Parked, Sought, Woken, Wakes
<1>1. pc[u] = "park"
  <2>1. CASE u # t
    BY <2>1, OthersStay
  <2>2. CASE u = t
    <3>1. CASE UNCHANGED waiting
      BY <2>2, <3>1, SpokenOnce, ReadingGoesOn DEF Asking
    <3>2. CASE ~UNCHANGED waiting
      <4>1. pc'[t] \in {"load", "idle"}
        BY <3>2, ListWritten, BaseTyped DEF Enlist, Again, ReturnValue, Return, At, Step, Finish
      <4>. QED BY <2>2, <4>1
    <3>. QED BY <3>1, <3>2
  <2>. QED BY <2>1, <2>2
<1>2. Registered(u)
  BY <1>1 DEF OneListed
<1>3. CASE WakeStep(t)
  <2>1. state' = state
    BY <1>3, SpokenOnce DEF MarkSent, Close, At, WakeStep, SnapshotOne, SnapshotAll, UnparkNext, SwapStack,
                            VisitNode, ElectNode, Calling, Free
  <2>. QED BY <1>1, <1>2, <1>3, <2>1, SoughtWake DEF Parked
<1>4. CASE ~WakeStep(t)
  <2>1. CASE state # "open"
    <3>1. Sought(u)
      BY <1>1, <2>1 DEF Parked
    <3>2. permit[u] => permit'[u]
      BY <1>1, PermitsKept
    <3>3. \A v \in Threads : ToSet(calls[v]) \subseteq ToSet(calls'[v])
      BY <1>4, CallsGrow DEF Waking
    <3>4. Woken(u, "recv") => Woken(u, "recv")'
      BY <3>2, <3>3, EndpointConstants, StaysWoken
    <3>. QED BY <3>1, <3>3, <3>4 DEF Sought, WakeOne
  <2>2. CASE state = "open"
    <3>1. ToSet(calls'[t]) \in {ToSet(Word), ToSet(WakeEverybody)}
      BY <1>4, <2>2, CallsGrow DEF Waking
    <3>2. WakeOne("recv") \in ToSet(calls'[t]) \/ WakeAll("recv") \in ToSet(calls'[t])
      BY <3>1, WordCalls, WakeSequences
    <3>. QED BY <3>2 DEF Sought, Woken, Wakes, WakeAll, WakeOne
  <2>. QED BY <2>1, <2>2
<1>. QED BY <1>3, <1>4

-----------------------------------------------------------------------------
(* The select calls.                                                        *)
(* A select call between its push and its walk; the nodes it has yet to     *)
(* mark; and where its turn stands.                                         *)
Posted(t) == pc[t] \in {"decide", "sleep"} \/ (pc[t] = "probe" /\ arm[t].turn # 0)
Ahead(m, n, chain) == \E i \in DOMAIN chain : \E j \in DOMAIN chain : i <= j /\ chain[i] = m /\ chain[j] = n
Watched(n) ==
  /\ arm[Thread(n)].turn = Round(n)
  /\ \/ Posted(Thread(n)) \/ pc[Thread(n)] = "abort"
     \/ pc[Thread(n)] = "walk" /\ Ahead(arm[Thread(n)].node, n, stack["recv"])
Clean == stack["send"] = <<>> /\ \A n \in ToSet(stack["recv"]) : n \in aborted \/ Watched(n)
NewNodes == \A t \in Threads : pc[t] \in {"enrol", "push"} => ~Allocated(ArmNode(t))
AlertOf(t) ==
  /\ Posted(t) /\ state = "open" => ArmNode(t) \in ToSet(stack["recv"]) \ aborted
  /\ pc[t] \in {"decide", "sleep"} /\ state # "open" => Coming(t, arm[t].turn)
  /\ pc[t] = "sleep" => Won(t) = Unselected \/ permit[t]
Alert == \A t \in Threads : AlertOf(t)

(* Who has a turn selects, on the receiving side.                           *)
LEMMA TurnSelects ==
  ASSUME Base, Asking, NEW t \in Threads,
         pc[t] \in {"enrol", "push", "decide", "sleep", "abort", "walk"} \/ Posted(t)
  PROVE  /\ op[t] = "select_recv" /\ "select_recv" \in program.uses[t] /\ "recv" \in held[t]
         /\ ArmSide(t) = "recv" /\ arm[t].turn \in Rounds /\ arm[t].turn # 0 /\ ArmNode(t) \in ArmNodes
<1>1. pc[t] \in SelectSteps /\ arm[t].turn # 0 /\ ArmOf(t) /\ AskingOf(t) /\ op[t] # "select_send"
  BY DEF Posted, SelectSteps, Base, EndInv, ArmOf, Began, Asking
<1>2. op[t] = "select_recv" /\ "select_recv" \in program.uses[t] /\ "recv" \in held[t] /\ ArmSide(t) = "recv"
  BY <1>1 DEF ArmOf, AskingOf, ArmSide
<1>3. arm[t].turn \in Rounds
  BY <1>1, BaseTyped DEF Arms
<1>. QED BY <1>1, <1>2, <1>3 DEF ArmNode, ArmNodes

(* Where nodes come from and where they are marked.                         *)
LEMMA NodesWritten ==
  ASSUME Base, NEW t \in Threads, OneshotStep(t) \/ OneshotChance(t), ~Waking(t)
  PROVE  /\ UNCHANGED stack \/ (PushArm(t, "push") /\ UNCHANGED oneshotVars)
         /\ UNCHANGED aborted \/ (Walk(t) /\ UNCHANGED oneshotVars)
<1>1. CASE SelectStep(t) /\ UNCHANGED oneshotVars
  <2>1. CASE Walk(t)
    BY <1>1, <2>1 DEF Walk
  <2>2. CASE Decide(t) \/ WakeUp(t) \/ AbortLoad(t) \/ Judge(t)
    BY <2>2 DEF Decide, WakeUp, AbortLoad, Judge, localVars, quietVars, waiterVars, probeVars
  <2>. QED BY <1>1, <2>1, <2>2 DEF SelectStep
<1>2. CASE \/ SendCall(t) \/ Check(t) \/ DropSenderUnused(t) \/ RecvCall(t) \/ StoreValue(t)
           \/ LoadState(t) \/ SwapValue(t) \/ Reload(t) \/ TestState(t) \/ ReturnValue(t)
           \/ Probe(t) \/ RegisterSelect(t) \/ Complete(t) \/ MarkSent(t) \/ Close(t)
  BY <1>2 DEF SendCall, Check, DropSenderUnused, RecvCall, StoreValue, LoadState, SwapValue,
              Reload, TestState, Probe, RegisterSelect, Complete, Call, CompleteBy, Return, ReturnValue,
              MarkSent, Close, localVars, quietVars, probeVars
<1>3. CASE PushArm(t, "push") /\ UNCHANGED oneshotVars
  BY <1>3 DEF PushArm
<1>4. CASE \/ Enlist(t, "load") \/ Again(t, "load") \/ ParkReturns(t, "park", "again")
           \/ SelectCall(t, "select_recv", "recv") \/ DeadlinePasses(t) \/ Spurious(t) \/ DropReceiver(t)
           \/ \E v \in Threads : CloneHandle(t, v)
  BY <1>4 DEF Enlist, Again, ParkReturns, SelectCall, DeadlinePasses, Spurious, CloneHandle,
              DropReceiver, DropHandle, probeVars, waiterVars
<1>. QED BY <1>1, <1>2, <1>3, <1>4 DEF OneshotStep, OneshotChance, Waking

(* What a step other than a wake call's leaves of the nodes.                *)
LEMMA NodesKept ==
  ASSUME Base, Asking, Separate, NewNodes, NEW t \in Threads, OneshotStep(t) \/ OneshotChance(t), ~Waking(t)
  PROVE  /\ Separate'
         /\ \A v \in Threads : Hand(v)' = Hand(v) /\ (Hand(v) # <<>> => calls'[v] = calls[v])
         /\ \A n : Allocated(n)' => Allocated(n) \/ (PushArm(t, "push") /\ n = ArmNode(t))
         /\ \A s \in Stacks : ToSet(stack[s]) \subseteq ToSet(stack'[s])
         /\ aborted \subseteq aborted'
         /\ \A n : n \in aborted' => n \in aborted \/ (Thread(n) = t /\ pc[t] = "walk")
<1>1. \A u \in Threads : Hand(u) # <<>> => calls[u] # <<>>
  BY DEF Hand, Calling
<1>2. CASE PushArm(t, "push") /\ UNCHANGED oneshotVars
  <2>1. /\ pc[t] = "push" /\ PushNode(ArmNode(t), ArmSide(t)) /\ UNCHANGED <<calls, aborted>>
    BY <1>2 DEF PushArm, At
  <2>2. ArmSide(t) = "recv" /\ ArmNode(t) \in ArmNodes /\ ~Allocated(ArmNode(t))
    BY <2>1, TurnSelects DEF NewNodes
  <2>3. Separate' /\ \A m : Allocated(m)' <=> Allocated(m) \/ m = ArmNode(t)
    BY <2>1, <2>2, BaseTyped, EndpointConstants, PushSeparate
  <2>4. \A s \in Stacks : ToSet(stack[s]) \subseteq ToSet(stack'[s])
    BY <2>1, <2>2, BaseTyped, EndpointConstants, PushMoves
  <2>5. \A v \in Threads : Hand(v)' = Hand(v)
    BY <2>1 DEF Hand, Calling
  <2>. QED BY <1>2, <2>1, <2>3, <2>4, <2>5
<1>3. CASE Walk(t) /\ UNCHANGED oneshotVars
  <2>1. /\ UNCHANGED <<stack, calls>> /\ pc[t] = "walk"
        /\ UNCHANGED aborted \/ Mark(arm[t].node, t, arm[t].turn)
    BY <1>3 DEF Walk, At
  <2>2. Separate' /\ \A n : Allocated(n)' <=> Allocated(n)
    BY <2>1 DEF Separate, Ordered, Hand, Calling, Allocated, Chains, Drainers
  <2>3. \A v \in Threads : Hand(v)' = Hand(v)
    BY <2>1 DEF Hand, Calling
  <2>4. aborted \subseteq aborted' /\ \A n : n \in aborted' => n \in aborted \/ Thread(n) = t
    BY <2>1 DEF Mark
  <2>. QED BY <2>1, <2>2, <2>3, <2>4
<1>4. CASE UNCHANGED <<stack, aborted>>
  <2>1. PICK more \in {<<>>, Word, WakeEverybody, <<Drain("recv")>>} :
          calls' = calls \/ (Free(t) /\ calls' = [calls EXCEPT ![t] = more])
    <3>1. CASE UNCHANGED calls
      BY <3>1
    <3>2. CASE calls' # calls
      BY <3>2, CallsMade
    <3>. QED BY <3>1, <3>2
  <2>2. more \in Seq(WakeCalls(ArmNodes)) /\ \A call \in ToSet(more) : call.op \notin {"visit", "elect"}
    <3>1. more \in Seq(WakeCalls(ArmNodes))
      BY WordCalls, WakeSequences, Zenon
    <3>2. \A call \in ToSet(more) : call.op \notin {"visit", "elect"}
      BY WordCalls, WakeSequences DEF WakeOne, SelectOne, WakeAll, SelectAll, Drain
    <3>. QED BY <3>1, <3>2
  <2>3. /\ Separate' /\ (\A m : Allocated(m)' <=> Allocated(m))
        /\ \A v \in Threads : Hand(v)' = Hand(v)
    BY <1>4, <2>1, <2>2, BaseTyped, CallsSeparate
  <2>4. \A v \in Threads : Hand(v) # <<>> => calls'[v] = calls[v]
    BY <1>1, <2>1, BaseTyped DEF Free
  <2>. QED BY <1>4, <2>3, <2>4
<1>. QED BY <1>2, <1>3, <1>4, NodesWritten DEF PushArm, Walk

(* A select call marks its nodes from the top down.                         *)
LEMMA OwnWatched ==
  ASSUME Base, Asking, Separate, NEW t \in Threads, OneshotStep(t) \/ OneshotChance(t), ~Waking(t),
         UNCHANGED stack, NEW n \in ToSet(stack["recv"]), Thread(n) = t, Watched(n), n \notin aborted'
  PROVE  Watched(n)'
<1>0. /\ stack["recv"] \in Seq(ArmNodes) /\ WaiterTypes(ArmNodes) /\ NodesOK(ArmNodes)
      /\ arm \in [Threads -> Arms] /\ DOMAIN pc = Threads /\ DOMAIN arm = Threads /\ "recv" \in Stacks
  BY BaseTyped, EndpointConstants DEF Base, EndInv, EndTypes
<1>1. arm[t].turn = Round(n) /\ arm[t].turn \in Rounds /\ arm[t].turn # 0 /\ ArmSide(t) = "recv"
  <2>1. pc[t] \in {"enrol", "push", "decide", "sleep", "abort", "walk"} \/ Posted(t)
    BY DEF Watched
  <2>. QED BY <2>1, TurnSelects DEF Watched
<1>2. ASSUME arm'[t].turn = arm[t].turn, Posted(t)' \/ pc'[t] = "abort"
      PROVE  Watched(n)'
  BY <1>1, <1>2 DEF Watched, Thread, Round, Posted
<1>3. CASE Decide(t) \/ WakeUp(t)
  <2>1. pc'[t] \in {"sleep", "abort"} /\ arm' = arm
    BY <1>0, <1>3 DEF Decide, WakeUp, Step, localVars, quietVars
  <2>. QED BY <1>2, <2>1 DEF Posted
<1>4. CASE Probe(t)
  <2>1. pc'[t] = "decide" /\ arm'[t] = arm[t]
    BY <1>0, <1>1, <1>4 DEF Probe, ArmReady, ArmNotReady, Proceed, Step
  <2>. QED BY <1>2, <2>1 DEF Posted
<1>5. CASE AbortLoad(t)
  <2>1. pc[t] = "abort"
    BY <1>5 DEF AbortLoad, At
  <2>2. stack["recv"] # <<>>
    BY DEF ToSet
  <2>3. Top("recv") # NoNode
    BY <1>0, <2>2, TopEmpty
  <2>4. Top("recv") = stack["recv"][1]
    BY <1>0, <2>3, TopTyped
  <2>5. pc'[t] = "walk" /\ arm'[t] = [arm[t] EXCEPT !.node = Top("recv")]
    BY <1>0, <1>1, <1>5, <2>3 DEF AbortLoad, Proceed, Step
  <2>6. arm'[t].turn = arm[t].turn /\ arm'[t].node = stack["recv"][1]
    BY <1>0, <2>4, <2>5 DEF Arms
  <2>7. PICK j \in DOMAIN stack["recv"] : stack["recv"][j] = n
    BY DEF ToSet
  <2>8. 1 \in DOMAIN stack["recv"] /\ 1 <= j
    BY <1>0, <2>7
  <2>9. Ahead(stack["recv"][1], n, stack["recv"])
    BY <2>7, <2>8 DEF Ahead
  <2>10. stack'["recv"] = stack["recv"]
    OBVIOUS
  <2>11. Ahead(arm'[t].node, n, stack'["recv"])
    BY <2>6, <2>9, <2>10
  <2>. QED BY <1>1, <2>5, <2>6, <2>11 DEF Watched, Thread, Round, Ahead
<1>6. CASE Walk(t)
  <2>. DEFINE chain == stack["recv"]
              m == arm[t].node
  <2>1. pc[t] = "walk" /\ Ahead(m, n, chain)
    <3>1. pc[t] = "walk"
      BY <1>6 DEF Walk, At
    <3>. QED BY <3>1 DEF Watched, Posted
  <2>2. PICK i \in DOMAIN chain, j \in DOMAIN chain : i <= j /\ chain[i] = m /\ chain[j] = n
    BY <2>1 DEF Ahead
  <2>3. Allocated(m) /\ NextOf(m) = IF i = Len(chain) THEN NoNode ELSE chain[i + 1]
    BY <1>0, <2>2, NextOfStack
  <2>4. Mark(m, t, arm[t].turn)
    BY <1>6, <2>3 DEF Walk
  <2>5. i # j
    BY <1>1, <2>2, <2>4 DEF Mark
  <2>6. i + 1 \in DOMAIN chain /\ i + 1 <= j /\ i # Len(chain) /\ NextOf(m) = chain[i + 1]
    BY <1>0, <2>2, <2>3, <2>5
  <2>7. NextOf(m) # NoNode
    <3>1. chain[i + 1] \in ArmNodes
      BY <1>0, <2>6
    <3>. QED BY <2>6, <3>1 DEF ArmNodes, NoNode
  <2>8. pc'[t] = "walk" /\ arm'[t] = [arm[t] EXCEPT !.node = NextOf(m)]
    BY <1>0, <1>6, <2>3, <2>7 DEF Walk, Beyond, Proceed, Step
  <2>9. arm'[t].turn = arm[t].turn /\ arm'[t].node = chain[i + 1]
    BY <1>0, <2>6, <2>8 DEF Arms
  <2>10. Ahead(arm'[t].node, n, stack'["recv"])
    BY <2>2, <2>6, <2>9 DEF Ahead
  <2>. QED BY <1>1, <2>8, <2>9, <2>10 DEF Watched, Thread, Round, Ahead
<1>7. CASE (DeadlinePasses(t) \/ Spurious(t)) /\ UNCHANGED stack
  <2>1. /\ pc' = pc /\ arm'[t].turn = arm[t].turn /\ arm'[t].node = arm[t].node
        /\ stack'["recv"] = stack["recv"]
    BY <1>0, <1>7 DEF DeadlinePasses, Spurious, Arms
  <2>. QED BY <1>1, <2>1 DEF Watched, Posted, Thread, Round, Ahead
<1>8. pc[t] \in {"decide", "sleep", "probe", "abort", "walk"}
  BY DEF Watched, Posted
<1>9. CASE \/ SendCall(t) \/ Check(t) \/ DropSenderUnused(t) \/ RecvCall(t) \/ StoreValue(t)
           \/ LoadState(t) \/ SwapValue(t) \/ Reload(t) \/ TestState(t) \/ ReturnValue(t)
           \/ RegisterSelect(t) \/ Complete(t) \/ MarkSent(t) \/ Close(t) \/ Judge(t)
           \/ Enlist(t, "load") \/ Again(t, "load") \/ ParkReturns(t, "park", "again") \/ PushArm(t, "push")
           \/ SelectCall(t, "select_recv", "recv") \/ DropReceiver(t) \/ \E v \in Threads : CloneHandle(t, v)
  BY <1>8, <1>9 DEF SendCall, Check, DropSenderUnused, RecvCall, StoreValue, LoadState, SwapValue,
              Reload, TestState, RegisterSelect, Complete, Call, CompleteBy, Return, ReturnValue,
              MarkSent, Close, Judge, Enlist, Again, ParkReturns, PushArm, SelectCall, DropReceiver, DropHandle,
              MayDrop, CloneHandle, At
<1>. QED BY <1>3, <1>4, <1>5, <1>6, <1>7, <1>9 DEF OneshotStep, OneshotChance, SelectStep, Waking

(* Only one thread has nodes that are not marked.                           *)
LEMMA WatchedSelects ==
  ASSUME Base, Asking, NEW n \in ArmNodes, Watched(n)
  PROVE  /\ Thread(n) \in Threads /\ "select_recv" \in program.uses[Thread(n)]
         /\ pc[Thread(n)] \in {"probe", "decide", "sleep", "abort", "walk"} /\ pc[Thread(n)] # "push"
<1>1. Thread(n) \in Threads
  BY DEF ArmNodes, Thread
<1>2. pc[Thread(n)] \in {"probe", "decide", "sleep", "abort", "walk"}
  BY DEF Watched, Posted
<1>3. pc[Thread(n)] \in {"enrol", "push", "decide", "sleep", "abort", "walk"} \/ Posted(Thread(n))
  BY DEF Watched
<1>4. "select_recv" \in program.uses[Thread(n)]
  BY <1>1, <1>3, TurnSelects
<1>. QED BY <1>1, <1>2, <1>4

LEMMA CleanWaking ==
  ASSUME Base, Separate, Clean, NEW t \in Threads, Waking(t)
  PROVE  Clean'
<1>1. /\ \A n \in ArmNodes : Allocated(n)' => (n \in aborted <=> n \in aborted')
      /\ \A s \in Stacks : stack'[s] \in {stack[s], <<>>}
  BY BaseTyped, EndpointConstants, WakeSeparate DEF Waking
<1>2. UNCHANGED <<pc, arm>>
  BY DEF Waking, endVars
<1>3. stack'["send"] = <<>>
  BY <1>1, EndpointConstants DEF Clean
<1>4. ASSUME NEW n \in ToSet(stack'["recv"])
      PROVE  n \in aborted' \/ Watched(n)'
  <2>1. stack'["recv"] = stack["recv"]
    <3>1. stack'["recv"] \in {stack["recv"], <<>>}
      BY <1>1, EndpointConstants
    <3>2. ToSet(<<>>) = {}
      BY DEF ToSet
    <3>. QED BY <1>4, <3>1, <3>2
  <2>2. n \in ToSet(stack["recv"]) /\ n \in ArmNodes
    BY <2>1, BaseTyped DEF ToSet
  <2>3. Allocated(n)'
    BY <1>4, AllocatedHand, EndpointConstants
  <2>4. n \in aborted <=> n \in aborted'
    BY <1>1, <2>2, <2>3
  <2>5. Watched(n) => Watched(n)'
    BY <1>2, <2>1 DEF Watched, Posted, Thread, Round, Ahead
  <2>. QED BY <2>2, <2>4, <2>5 DEF Clean
<1>. QED BY <1>3, <1>4 DEF Clean, Watched, Posted, Ahead

LEMMA CleanStep ==
  ASSUME OneWaiter, Base, Asking, Separate, NewNodes, Clean, NEW t \in Threads, OneshotStep(t) \/ OneshotChance(t),
         ~Waking(t)
  PROVE  Clean'
<1>0. /\ stack["recv"] \in Seq(ArmNodes) /\ WaiterTypes(ArmNodes)
      /\ "recv" \in Stacks /\ DOMAIN pc = Threads
      /\ \A n \in ToSet(stack["recv"]) : n \in ArmNodes
      /\ aborted \subseteq aborted'
  BY BaseTyped, EndpointConstants, NodesKept DEF Base, EndInv, EndTypes, ToSet
<1>1. CASE UNCHANGED stack
  <2>1. ASSUME NEW n \in ToSet(stack["recv"]), n \notin aborted'
        PROVE  Watched(n)'
    <3>1. Watched(n) /\ n \in ArmNodes
      BY <1>0, <2>1 DEF Clean
    <3>2. CASE Thread(n) = t
      BY <1>1, <2>1, <3>1, <3>2, OwnWatched
    <3>3. CASE Thread(n) # t
      <4>1. Thread(n) \in Threads /\ pc[Thread(n)] # "unborn"
        BY <3>1, WatchedSelects
      <4>2. arm'[Thread(n)] = arm[Thread(n)] /\ pc'[Thread(n)] = pc[Thread(n)]
        BY <3>3, <4>1, OthersStay
      <4>3. stack'["recv"] = stack["recv"]
        BY <1>1
      <4>. QED BY <3>1, <4>2, <4>3 DEF Watched, Posted, Thread, Round, Ahead
    <3>. QED BY <3>2, <3>3
  <2>2. stack'["recv"] = stack["recv"] /\ stack'["send"] = stack["send"]
    BY <1>1
  <2>. QED BY <2>1, <2>2 DEF Clean, Watched, Posted, Ahead
<1>2. CASE PushArm(t, "push")
  <2>1. /\ pc[t] = "push" /\ PushNode(ArmNode(t), ArmSide(t)) /\ UNCHANGED <<arm, aborted>>
        /\ pc'[t] = "probe"
    BY <1>0, <1>2 DEF PushArm, At, Step
  <2>2. /\ ArmSide(t) = "recv" /\ ArmNode(t) \in ArmNodes /\ arm[t].turn # 0
        /\ "select_recv" \in program.uses[t]
    BY <2>1, TurnSelects
  <2>3. /\ ToSet(stack'["recv"]) = {ArmNode(t)} \cup ToSet(stack["recv"])
        /\ stack'["send"] = stack["send"]
    BY <1>0, <2>1, <2>2, EndpointConstants, PushMoves
  <2>4. Watched(ArmNode(t))'
    <3>1. Posted(t)' /\ arm'[t].turn = arm[t].turn
      BY <2>1, <2>2 DEF Posted
    <3>2. Thread(ArmNode(t)) = t /\ Round(ArmNode(t)) = arm[t].turn
      BY DEF ArmNode, Thread, Round
    <3>3. ArmNode(t)' = ArmNode(t)
      BY <2>1 DEF ArmNode
    <3>. QED BY <3>1, <3>2, <3>3 DEF Watched, Posted, Thread, Round
  <2>5. \A n \in ToSet(stack["recv"]) : n \in aborted'
    <3>. SUFFICES ASSUME NEW n \in ToSet(stack["recv"]), Watched(n) PROVE FALSE
      BY <2>1 DEF Clean
    <3>1. Thread(n) = t
      BY <1>0, <2>2, WatchedSelects, OneBlocks
    <3>. QED BY <1>0, <2>1, <3>1, WatchedSelects
  <2>6. ArmNode(t)' = ArmNode(t)
    BY <2>1 DEF ArmNode
  <2>7. \A n \in ToSet(stack'["recv"]) : n \in aborted' \/ n = ArmNode(t)
    BY <2>3, <2>5
  <2>8. \A n : n = ArmNode(t) => Watched(n)'
    BY <2>4, <2>6 DEF Watched, Posted, Thread, Round, Ahead
  <2>. QED BY <2>3, <2>7, <2>8 DEF Clean, Watched, Posted, Ahead
<1>. QED BY <1>1, <1>2, NodesWritten

(* Every turn has a name of its own.                                        *)
LEMMA NewNodesStep ==
  ASSUME Base, Asking, Separate, NewNodes, NEW t \in Threads, OneshotStep(t) \/ OneshotChance(t)
  PROVE  NewNodes'
<1>0. WaiterTypes(ArmNodes) /\ NodesOK(ArmNodes) /\ DOMAIN pc = Threads /\ DOMAIN arm = Threads /\ arm \in [Threads -> Arms]
  BY BaseTyped, EndpointConstants
<1>1. ASSUME NEW u \in Threads, pc[u] \in {"enrol", "push"}, UNCHANGED <<pc, arm>>, Waking(t)
      PROVE  ~Allocated(ArmNode(u))'
  <2>1. ArmNode(u) \in ArmNodes /\ ~Allocated(ArmNode(u)) /\ ArmNode(u)' = ArmNode(u)
    BY <1>1, TurnSelects DEF NewNodes, ArmNode
  <2>2. \A n \in ArmNodes : Allocated(n)' => Allocated(n)
    BY <1>0, <1>1, WakeSeparate DEF Waking
  <2>. QED BY <2>1, <2>2
<1>2. CASE Waking(t)
  BY <1>1, <1>2 DEF Waking, endVars, NewNodes
<1>3. CASE ~Waking(t)
  <2>1. \A n : Allocated(n)' => Allocated(n) \/ (PushArm(t, "push") /\ n = ArmNode(t))
    BY <1>3, NodesKept
  <2>2. ASSUME NEW u \in Threads \ {t}, pc'[u] \in {"enrol", "push"}
        PROVE  ~Allocated(ArmNode(u))'
    <3>1. pc[u] = pc'[u] /\ ArmNode(u)' = ArmNode(u) /\ ~Allocated(ArmNode(u))
      BY <2>2, OthersStay DEF ArmNode, NewNodes
    <3>2. ArmNode(u) # ArmNode(t)
      BY <2>2 DEF ArmNode
    <3>. QED BY <2>1, <3>1, <3>2
  <2>3. ASSUME pc'[t] \in {"enrol", "push"}
        PROVE  ~Allocated(ArmNode(t))'
    <3>1. CASE pc[t] \in {"enrol", "push"} /\ arm'[t].turn = arm[t].turn
      <4>1. ArmNode(t)' = ArmNode(t) /\ ~Allocated(ArmNode(t))
        BY <3>1 DEF ArmNode, NewNodes
      <4>2. ~PushArm(t, "push")
        BY <1>0, <2>3 DEF PushArm, Step
      <4>. QED BY <2>1, <4>1, <4>2
    <3>2. CASE Probe(t)
      <4>1. /\ \E r \in Rounds : Chained(t, r) = {}
            /\ arm'[t] = [arm[t] EXCEPT !.turn = FreshTurn(t)]
        BY <1>0, <2>3, <3>2 DEF Probe, ArmReady, ArmNotReady, CompleteArm, TakeDefault, Proceed, Step, Finish
      <4>2. Chained(t, FreshTurn(t)) = {}
        BY <4>1 DEF FreshTurn
      <4>3. ArmNode(t)' = <<t, FreshTurn(t), 1>>
        BY <1>0, <4>1 DEF ArmNode, Arms
      <4>4. ~Allocated(<<t, FreshTurn(t), 1>>)
        BY <4>2 DEF Chained, Allocated, Thread, Round
      <4>5. ~PushArm(t, "push")
        BY <1>0, <2>3 DEF PushArm, Step
      <4>. QED BY <2>1, <4>3, <4>4, <4>5
    <3>3. CASE RegisterSelect(t)
      <4>1. pc[t] = "enrol" /\ arm' = arm
        BY <3>3 DEF RegisterSelect, At, localVars, quietVars
      <4>. QED BY <3>1, <4>1
    <3>4. CASE DeadlinePasses(t) \/ Spurious(t)
      <4>1. pc' = pc /\ arm'[t].turn = arm[t].turn
        BY <1>0, <3>4 DEF DeadlinePasses, Spurious, Arms
      <4>. QED BY <2>3, <3>1, <4>1
    <3>5. CASE SelectStep(t)
      BY <1>0, <2>3, <3>5 DEF SelectStep, Decide, WakeUp, AbortLoad, Walk, Judge, CompleteArm, TakeDefault, Proceed, Step,
                              Finish
    <3>6. CASE \/ SendCall(t) \/ Check(t) \/ DropSenderUnused(t) \/ RecvCall(t) \/ StoreValue(t)
               \/ LoadState(t) \/ SwapValue(t) \/ Reload(t) \/ TestState(t) \/ ReturnValue(t)
               \/ Complete(t) \/ MarkSent(t) \/ Close(t)
               \/ Enlist(t, "load") \/ Again(t, "load") \/ ParkReturns(t, "park", "again") \/ PushArm(t, "push")
               \/ SelectCall(t, "select_recv", "recv")
      BY <1>0, <2>3, <3>6 DEF SendCall, Check, DropSenderUnused, RecvCall, StoreValue, LoadState, SwapValue,
              Reload, TestState, Complete, Call, CompleteBy, Return, ReturnValue, Nothing,
              MarkSent, Close, Enlist, Again, ParkReturns, PushArm, SelectCall, Step, Answer, Finish
    <3>7. CASE DropReceiver(t)
      BY <2>3, <3>7 DEF DropReceiver, DropHandle, MayDrop, At
    <3>8. CASE \E v \in Threads : CloneHandle(t, v)
      BY <1>0, <2>3, <3>8 DEF CloneHandle, At, Step
    <3>. QED BY <1>3, <3>2, <3>3, <3>4, <3>5, <3>6, <3>7, <3>8 DEF OneshotStep, OneshotChance, Waking
  <2>. QED BY <2>2, <2>3 DEF NewNodes
<1>. QED BY <1>2, <1>3

(* Whoever takes the stack finds the nodes of one turn to choose among.     *)
LEMMA UniformStep ==
  ASSUME OneWaiter, Base, Asking, Separate, NewNodes, Clean, Uniform, NEW t \in Threads, OneshotStep(t) \/ OneshotChance(t)
  PROVE  Uniform'
<1>1. CASE Waking(t)
  <2>1. SameTurn({n \in ToSet(stack["recv"]) : n \notin aborted})
    <3>. SUFFICES ASSUME NEW m \in ToSet(stack["recv"]), m \notin aborted,
                         NEW n \in ToSet(stack["recv"]), n \notin aborted
                  PROVE  Thread(m) = Thread(n) /\ Round(m) = Round(n)
      BY DEF SameTurn
    <3>1. m \in ArmNodes /\ n \in ArmNodes
      BY BaseTyped DEF ToSet
    <3>2. Watched(m) /\ Watched(n)
      BY DEF Clean
    <3>3. Thread(m) = Thread(n)
      BY <3>1, <3>2, WatchedSelects, OneBlocks
    <3>. QED BY <3>2, <3>3 DEF Watched
  <2>2. SameTurn({n \in ToSet(stack["send"]) : n \notin aborted})
    BY DEF Clean, ToSet, SameTurn
  <2>. QED BY <1>1, <2>1, <2>2, BaseTyped, EndpointConstants, UniformWake DEF Waking
<1>2. CASE ~Waking(t)
  BY <1>2, NodesKept, UniformAside
<1>. QED BY <1>1, <1>2

LEMMA SeparateStep ==
  ASSUME Base, Asking, Separate, NewNodes, NEW t \in Threads, OneshotStep(t) \/ OneshotChance(t)
  PROVE  Separate'
<1>1. CASE Waking(t)
  BY <1>1, BaseTyped, EndpointConstants, WakeSeparate DEF Waking
<1>2. CASE ~Waking(t)
  BY <1>2, NodesKept
<1>. QED BY <1>1, <1>2

(* A select call that has its node on the stack owns a receiver: nobody     *)
(* drains the stack.                                                        *)
LEMMA NobodyDrains ==
  ASSUME Base, Asking, Dry, NEW t \in Threads, WakeStep(t), NEW u \in Threads, Posted(u)
  PROVE  Head(calls[t]).op # "drain" /\ Head(calls[t]) \in ToSet(calls[t])
<1>1. Head(calls[t]) \in ToSet(calls[t])
  BY BaseTyped, EndpointConstants, WakeStepCall
<1>2. "recv" \in held[u]
  BY TurnSelects
<1>3. Receivers # {}
  BY <1>2 DEF Receivers
<1>. QED BY <1>1, <1>3 DEF Dry

LEMMA AlertWaking ==
  ASSUME Base, EndInv', Asking, Unspoken, Dry, Separate, Uniform, NEW t \in Threads, Waking(t),
         NEW u \in Threads, AlertOf(u)
  PROVE  AlertOf(u)'
<1>0. /\ UNCHANGED <<pc, arm, op, state>> /\ WakeStep(t) /\ WaiterTypes(ArmNodes) /\ NodesOK(ArmNodes)
      /\ "recv" \in Stacks /\ ArmNode(u)' = ArmNode(u) /\ (Posted(u)' <=> Posted(u))
  BY BaseTyped, EndpointConstants DEF Waking, endVars, oneshotVars, ArmNode, Posted
<1>1. ASSUME Posted(u), state = "open"
      PROVE  ArmNode(u) \in ToSet(stack'["recv"]) /\ ArmNode(u) \notin aborted'
  <2>1. Head(calls[t]).op # "drain" /\ Head(calls[t]) \in ToSet(calls[t])
    BY <1>0, <1>1, NobodyDrains
  <2>2. Head(calls[t]).op = "visit"
    BY <1>1, <2>1 DEF Unspoken, Draining
  <2>3. UNCHANGED stack
    BY <1>0, <2>2 DEF WakeStep, SnapshotOne, SnapshotAll, UnparkNext, SwapStack, VisitNode, ElectNode, Calling
  <2>4. ArmNode(u) \in ToSet(stack["recv"])
    BY <1>1 DEF AlertOf
  <2>5. Armed(u)' /\ ArmOf(u)'
    BY <1>0, <1>1 DEF Posted, Armed, EndInv
  <2>6. ArmNode(u)' \notin aborted'
    BY <2>5 DEF ArmOf
  <2>. QED BY <1>0, <2>3, <2>4, <2>6
<1>2. ASSUME pc[u] \in {"decide", "sleep"}, state # "open"
      PROVE  Coming(u, arm[u].turn)'
  <2>1. Posted(u) /\ arm[u].turn \in Rounds
    BY <1>2, TurnSelects DEF Posted
  <2>2. Coming(u, arm[u].turn)
    BY <1>2 DEF AlertOf
  <2>3. Head(calls[t]).op # "drain"
    BY <1>0, <2>1, NobodyDrains
  <2>4. \A n \in ArmNodes : Arm(n) # Unselected
    BY DEF ArmNodes, Arm, Unselected
  <2>. DEFINE r == arm[u].turn
  <2>5. r \in Rounds /\ Coming(u, r)
    BY <2>1, <2>2
  <2>6. PICK q : q = r
    OBVIOUS
  <2>7. Coming(u, q)'
    BY <1>0, <2>3, <2>4, <2>5, <2>6, ComingWake
  <2>8. r' = q
    BY <1>0, <2>6
  <2>. QED BY <2>7, <2>8
<1>3. ASSUME pc[u] = "sleep"
      PROVE  Won(u)' = Unselected \/ permit'[u]
  <2>1. arm[u].turn \in Rounds
    BY <1>3, TurnSelects
  <2>2. Won(u) = Unselected \/ permit[u]
    BY <1>3 DEF AlertOf
  <2>3. /\ permit[u] => permit'[u]
        /\ selected'[u][arm[u].turn] = selected[u][arm[u].turn] \/ permit'[u]
    BY <1>0, <2>1, WakePermits
  <2>. QED BY <1>0, <2>2, <2>3 DEF Won
<1>. QED BY <1>0, <1>1, <1>2, <1>3 DEF AlertOf

(* What is on its way to a thread is not lost in a step that neither marks  *)
(* its nodes nor forgets its winner.                                        *)
LEMMA ComingKept ==
  ASSUME Base, Asking, Separate, NewNodes, NEW t \in Threads, OneshotStep(t) \/ OneshotChance(t), ~Waking(t),
         NEW u \in Threads, pc[u] \in {"decide", "sleep"}, permit[u] => permit'[u],
         Coming(u, arm[u].turn)
  PROVE  \A r : r = arm[u].turn => Coming(u, r)'
<1>1. arm[u].turn \in Rounds
  BY TurnSelects
<1>2. selected[u][arm[u].turn] # Unselected => selected'[u][arm[u].turn] # Unselected
  <2>1. ~WakeStep(t) => selected'[u][arm[u].turn] = selected[u][arm[u].turn]
    BY <1>1, WinnersMade
  <2>2. WakeStep(t) => selected'[u][arm[u].turn] = selected[u][arm[u].turn]
    BY <1>1, WinnersMade
  <2>. QED BY <2>1, <2>2
<1>3. \A n : OfTurn(n, u, arm[u].turn) => n \notin aborted'
  BY NodesKept DEF OfTurn
<1>4. \A v \in Threads : ToSet(calls[v]) \subseteq ToSet(calls'[v])
  BY CallsGrow
<1>5. PICK r : r = arm[u].turn
  OBVIOUS
<1>6. Coming(u, r)'
  BY <1>2, <1>3, <1>4, <1>5, BaseTyped, NodesKept, ComingAside
<1>. QED BY <1>5, <1>6

(* The sender speaks while another thread has its node on the stack.        *)
LEMMA SpeakingCalls ==
  ASSUME Base, NEW t \in Threads, OneshotStep(t) \/ OneshotChance(t), ~Waking(t), state = "open", state' # "open",
         NEW n \in ToSet(stack["recv"]), n \notin aborted, UNCHANGED <<stack, aborted>>
  PROVE  \A u : \A r : u = Thread(n) /\ r = Round(n) => Coming(u, r)'
<1>1. ToSet(calls'[t]) \in {ToSet(Word), ToSet(WakeEverybody)}
  BY CallsGrow
<1>2. SelectOne("recv") \in ToSet(calls'[t]) \/ SelectAll("recv") \in ToSet(calls'[t])
  BY <1>1, WordCalls, WakeSequences
<1>3. PICK call \in ToSet(calls'[t]) : call.op \in Choice /\ call.on = "recv"
  BY <1>2 DEF SelectOne, SelectAll, Choice
<1>4. n \in ToSet(stack'[call.on]) /\ n \notin aborted'
  BY <1>3
<1>5. \A u : \A r : u = Thread(n) /\ r = Round(n) => OfTurn(n, u, r)'
  BY <1>4 DEF OfTurn, Thread, Round
<1>. QED BY <1>3, <1>4, <1>5 DEF Coming, Called

LEMMA AlertOther ==
  ASSUME Base, Base', Asking, Separate, NewNodes, NEW t \in Threads, OneshotStep(t) \/ OneshotChance(t),
         ~Waking(t), NEW u \in Threads, u # t, AlertOf(u)
  PROVE  AlertOf(u)'
<1>0. /\ arm'[u] = arm[u] /\ ArmNode(u)' = ArmNode(u)
      /\ pc[u] # "unborn" => pc'[u] = pc[u]
      /\ pc[u] = "unborn" => pc'[u] \in {"unborn", "idle"}
      /\ permit[u] => permit'[u]
      /\ state # "open" => state' # "open"
      /\ "recv" \in Stacks
  BY OthersStay, PermitsKept, SpokenOnce, EndpointConstants DEF ArmNode
<1>1. /\ Posted(u)' => Posted(u)
      /\ pc'[u] \in {"decide", "sleep"} => pc[u] = pc'[u]
  BY <1>0 DEF Posted
<1>2. ASSUME Posted(u)', state' = "open"
      PROVE  ArmNode(u)' \in ToSet(stack'["recv"]) /\ ArmNode(u)' \notin aborted'
  <2>1. ArmNode(u) \in ToSet(stack["recv"]) /\ ArmNode(u) \notin aborted
    BY <1>0, <1>1, <1>2 DEF AlertOf
  <2>2. Thread(ArmNode(u)) = u
    BY DEF Thread, ArmNode
  <2>. QED BY <1>0, <2>1, <2>2, NodesKept
<1>3. ASSUME pc'[u] \in {"decide", "sleep"}, state' # "open"
      PROVE  Coming(u, arm[u].turn)'
  <2>1. pc[u] \in {"decide", "sleep"}
    BY <1>1, <1>3
  <2>2. PICK r : r = arm[u].turn
    OBVIOUS
  <2>3. arm'[u].turn = r
    BY <1>0, <2>2
  <2>4. CASE state # "open"
    <3>1. Coming(u, arm[u].turn)
      BY <2>1, <2>4 DEF AlertOf
    <3>2. Coming(u, r)'
      BY <1>0, <2>1, <2>2, <3>1, ComingKept
    <3>. QED BY <2>3, <3>2
  <2>5. CASE state = "open"
    <3>1. ArmNode(u) \in ToSet(stack["recv"]) /\ ArmNode(u) \notin aborted
      BY <2>1, <2>5 DEF AlertOf, Posted
    <3>2. UNCHANGED <<stack, aborted>>
      BY <1>3, <2>5, SpokenOnce DEF MarkSent, Close, quietVars
    <3>3. Thread(ArmNode(u)) = u /\ Round(ArmNode(u)) = r
      BY <2>2 DEF Thread, Round, ArmNode
    <3>4. Coming(u, r)'
      BY <1>3, <2>5, <3>1, <3>2, <3>3, SpeakingCalls
    <3>. QED BY <2>3, <3>4
  <2>. QED BY <2>4, <2>5
<1>4. ASSUME pc'[u] = "sleep"
      PROVE  Won(u)' = Unselected \/ permit'[u]
  <2>1. pc[u] = "sleep"
    BY <1>1, <1>4
  <2>2. arm[u].turn \in Rounds
    BY <2>1, TurnSelects
  <2>3. selected'[u][arm[u].turn] = selected[u][arm[u].turn]
    BY <2>2, WinnersMade
  <2>. QED BY <1>0, <2>1, <2>3 DEF AlertOf, Won
<1>. QED BY <1>2, <1>3, <1>4 DEF AlertOf

(* How a select call gets from its push to its sleep.                       *)
LEMMA PostedGoesOn ==
  ASSUME Base, Asking, NEW t \in Threads, OneshotStep(t) \/ OneshotChance(t), ~Waking(t), Posted(t)'
  PROVE  \/ /\ Posted(t) /\ arm'[t].turn = arm[t].turn /\ UNCHANGED <<stack, aborted>>
            /\ \/ pc'[t] = pc[t] /\ UNCHANGED <<state, selected>> /\ (permit[t] => permit'[t])
               \/ Probe(t) /\ pc'[t] = "decide" /\ arm[t].turn # 0
               \/ Decide(t) /\ UNCHANGED oneshotVars
         \/ PushArm(t, "push") /\ pc'[t] = "probe"
         \/ pc'[t] = "probe" /\ state' # "open"
<1>0. DOMAIN pc = Threads /\ DOMAIN arm = Threads /\ arm \in [Threads -> Arms]
  BY BaseTyped
<1>1. ASSUME pc'[t] = pc[t], arm'[t].turn = arm[t].turn PROVE Posted(t)
  BY <1>1 DEF Posted
<1>2. CASE DeadlinePasses(t) /\ UNCHANGED oneshotVars
  <2>1. pc' = pc /\ arm'[t].turn = arm[t].turn /\ UNCHANGED <<stack, aborted, permit, selected, state>>
    BY <1>0, <1>2 DEF DeadlinePasses, Arms, waiterVars, oneshotVars
  <2>. QED BY <1>1, <2>1
<1>3. CASE Spurious(t) /\ UNCHANGED oneshotVars
  <2>1. pc' = pc /\ arm' = arm /\ UNCHANGED <<stack, aborted, selected, state>> /\ ~permit[t]
    BY <1>3 DEF Spurious, oneshotVars
  <2>. QED BY <1>1, <2>1
<1>4. CASE Probe(t)
  <2>1. pc[t] = "probe" /\ UNCHANGED <<stack, aborted>>
    BY <1>4 DEF Probe, At, probeVars
  <2>2. CASE arm[t].turn # 0
    <3>1. pc'[t] = "decide" /\ arm'[t] = arm[t]
      BY <1>0, <1>4, <2>2 DEF Probe, ArmReady, ArmNotReady, Proceed, Step
    <3>. QED BY <1>4, <2>1, <2>2, <3>1 DEF Posted
  <2>3. CASE arm[t].turn = 0
    <3>1. pc'[t] \in {"complete", "idle", "enrol"}
      BY <1>0, <1>4, <2>3 DEF Probe, ArmReady, ArmNotReady, CompleteArm, TakeDefault, Proceed, Step, Finish
    <3>. QED BY <3>1 DEF Posted
  <2>. QED BY <2>2, <2>3
<1>5. CASE Decide(t) /\ UNCHANGED oneshotVars
  <2>1. pc[t] = "decide" /\ arm' = arm /\ UNCHANGED <<stack, aborted>>
    BY <1>5 DEF Decide, At, localVars, quietVars
  <2>. QED BY <1>5, <2>1 DEF Posted
<1>6. CASE PushArm(t, "push")
  <2>1. pc'[t] = "probe"
    BY <1>0, <1>6 DEF PushArm, Step
  <2>. QED BY <1>6, <2>1
<1>7. CASE RegisterSelect(t)
  <2>1. pc'[t] = IF state # "open" THEN "probe" ELSE "push"
    BY <1>0, <1>7 DEF RegisterSelect, Step
  <2>2. state' = state
    BY <1>7 DEF RegisterSelect, oneshotVars
  <2>. QED BY <2>1, <2>2 DEF Posted
<1>8. CASE Judge(t)
  <2>1. pc'[t] \in {"complete", "idle"} \/ (pc'[t] = "probe" /\ arm'[t].turn = 0)
    BY <1>0, <1>8 DEF Judge, CompleteArm, TakeDefault, Proceed, Step, Finish, Arms
  <2>. QED BY <2>1 DEF Posted
<1>9. CASE SelectCall(t, "select_recv", "recv")
  <2>1. pc'[t] = "probe" /\ pc[t] = "idle"
    BY <1>0, <1>9 DEF SelectCall, At
  <2>2. arm[t].turn = 0
    BY <2>1 DEF Base, EndInv, ArmOf, SelectSteps
  <2>3. arm'[t].turn = 0
    BY <1>0, <1>9, <2>2 DEF SelectCall, Arms
  <2>. QED BY <2>1, <2>3 DEF Posted
<1>10. CASE WakeUp(t) \/ AbortLoad(t) \/ Walk(t)
  <2>1. pc'[t] \in {"abort", "judge", "walk"}
    BY <1>0, <1>10 DEF WakeUp, AbortLoad, Walk, Proceed, Step
  <2>. QED BY <2>1 DEF Posted
<1>11. CASE DropReceiver(t)
  <2>1. pc'[t] = "idle"
    BY <1>11 DEF DropReceiver, DropHandle, MayDrop, At
  <2>. QED BY <2>1 DEF Posted
<1>12. CASE \E v \in Threads : CloneHandle(t, v)
  <2>1. pc'[t] = "idle"
    BY <1>0, <1>12 DEF CloneHandle, At, Step
  <2>. QED BY <2>1 DEF Posted
<1>13. CASE \/ SendCall(t) \/ Check(t) \/ DropSenderUnused(t) \/ RecvCall(t) \/ StoreValue(t)
            \/ LoadState(t) \/ SwapValue(t) \/ Reload(t) \/ TestState(t) \/ ReturnValue(t)
            \/ Complete(t) \/ MarkSent(t) \/ Close(t)
            \/ Enlist(t, "load") \/ Again(t, "load") \/ ParkReturns(t, "park", "again")
  <2>1. pc'[t] \notin {"decide", "sleep", "probe"}
    BY <1>0, <1>13 DEF SendCall, Check, DropSenderUnused, RecvCall, StoreValue, LoadState, SwapValue,
              Reload, TestState, Complete, Call, CompleteBy, Return, ReturnValue, Nothing,
              MarkSent, Close, Enlist, Again, ParkReturns, Step, Answer, Finish
  <2>. QED BY <2>1 DEF Posted
<1>. QED BY <1>2, <1>3, <1>4, <1>5, <1>6, <1>7, <1>8, <1>9, <1>10, <1>11, <1>12, <1>13
         DEF OneshotStep, OneshotChance, SelectStep, Waking

LEMMA AlertOwn ==
  ASSUME Base, Base', Asking, Separate, NewNodes, NEW t \in Threads, OneshotStep(t) \/ OneshotChance(t),
         ~Waking(t), AlertOf(t)
  PROVE  AlertOf(t)'
<1>. SUFFICES ASSUME Posted(t)'
              PROVE  AlertOf(t)'
  BY DEF AlertOf, Posted
<1>0. /\ DOMAIN pc = Threads /\ DOMAIN selected = Threads /\ selected \in [Threads -> [Rounds -> Nat]]
      /\ state # "open" => state' # "open"
  BY BaseTyped, SpokenOnce DEF WaiterTypes
<1>1. CASE PushArm(t, "push") /\ pc'[t] = "probe"
  <2>1. pc[t] = "push" /\ PushNode(ArmNode(t), ArmSide(t)) /\ UNCHANGED <<arm, aborted>>
    BY <1>1 DEF PushArm, At
  <2>2. ArmNode(t) \in ArmNodes /\ ArmSide(t) = "recv"
    BY <2>1, TurnSelects
  <2>3. ArmNode(t) \in ToSet(stack'["recv"])
    BY <2>1, <2>2, BaseTyped, EndpointConstants, PushMoves
  <2>4. Armed(t) /\ ArmOf(t)
    BY <2>1 DEF Armed, Base, EndInv
  <2>5. ArmNode(t) \notin aborted' /\ ArmNode(t)' = ArmNode(t)
    BY <2>1, <2>4 DEF ArmOf, ArmNode
  <2>. QED BY <1>1, <2>3, <2>5 DEF AlertOf
<1>2. CASE pc'[t] = "probe" /\ state' # "open"
  BY <1>2 DEF AlertOf
<1>3. CASE Posted(t) /\ arm'[t].turn = arm[t].turn /\ UNCHANGED <<stack, aborted>>
  <2>0. ArmNode(t)' = ArmNode(t) /\ arm[t].turn \in Rounds
    BY <1>3, TurnSelects DEF ArmNode
  <2>1. state' = "open" => ArmNode(t)' \in ToSet(stack'["recv"]) /\ ArmNode(t)' \notin aborted'
    BY <1>0, <1>3, <2>0 DEF AlertOf
  <2>2. CASE pc'[t] = pc[t] /\ UNCHANGED <<state, selected>> /\ (permit[t] => permit'[t])
    <3>1. ASSUME pc[t] \in {"decide", "sleep"}, state # "open"
          PROVE  Coming(t, arm[t].turn)'
      <4>1. PICK r : r = arm[t].turn
        OBVIOUS
      <4>2. Coming(t, r)'
        BY <2>2, <3>1, <4>1, ComingKept DEF AlertOf
      <4>. QED BY <1>3, <4>1, <4>2
    <3>2. pc[t] = "sleep" => Won(t)' = Unselected \/ permit'[t]
      BY <1>3, <2>2 DEF AlertOf, Won
    <3>. QED BY <2>1, <2>2, <3>1, <3>2 DEF AlertOf
  <2>3. CASE Probe(t) /\ pc'[t] = "decide" /\ arm[t].turn # 0
    <3>1. ASSUME state # "open"
          PROVE  Coming(t, arm[t].turn)'
      <4>1. selected' = [selected EXCEPT ![t][arm[t].turn] = 1]
        BY <2>3, <3>1 DEF Probe, ArmReady
      <4>2. PICK r \in Rounds : r = arm[t].turn
        BY <2>0
      <4>3. selected'[t][r] # Unselected
        BY <1>0, <4>1, <4>2 DEF Unselected
      <4>. QED BY <1>3, <4>2, <4>3 DEF Coming
    <3>2. state' = state
      BY <2>3 DEF Probe, oneshotVars
    <3>. QED BY <2>1, <2>3, <3>1, <3>2 DEF AlertOf
  <2>4. CASE Decide(t) /\ UNCHANGED oneshotVars
    <3>1. /\ pc[t] = "decide" /\ UNCHANGED <<permit, selected>> /\ state' = state
          /\ pc'[t] = IF Won(t) = Unselected THEN "sleep" ELSE "abort"
      BY <1>0, <2>4 DEF Decide, At, Step, localVars, quietVars, oneshotVars
    <3>2. ASSUME state # "open"
          PROVE  Coming(t, arm[t].turn)'
      <4>1. PICK r : r = arm[t].turn
        OBVIOUS
      <4>2. Coming(t, r)'
        BY <3>1, <3>2, <4>1, ComingKept DEF AlertOf
      <4>. QED BY <1>3, <4>1, <4>2
    <3>3. pc'[t] = "sleep" => Won(t)' = Unselected
      BY <1>3, <3>1 DEF Won
    <3>. QED BY <2>1, <3>1, <3>2, <3>3 DEF AlertOf
  <2>. QED BY <1>1, <1>2, <2>2, <2>3, <2>4, PostedGoesOn
<1>. QED BY <1>1, <1>2, <1>3, PostedGoesOn

Words == Asking /\ OneListed /\ Unspoken /\ Dry /\ Parked
Turns == Separate /\ Uniform /\ Clean /\ NewNodes /\ Alert
ListensInv == OneshotInv /\ WholeTypes /\ Words /\ Turns

LEMMA ListensInitial ==
  ASSUME Init
  PROVE  ListensInv
<1>0. OneshotInv /\ WholeTypes
  BY OneshotInitial, WholeTypesInitial
<1>1. /\ Stacks = {"recv", "send"} /\ Lists = {"recv"} /\ 0 \notin Rounds
      /\ waiting["recv"] = <<>> /\ stack["recv"] = <<>> /\ stack["send"] = <<>>
      /\ \A t \in Threads : /\ calls[t] = <<>> /\ op[t] = "none" /\ pc[t] \in {"idle", "unborn"}
                            /\ \A r \in Rounds : selected[t][r] = Unselected
      /\ state = "open"
  BY EndpointConstants DEF Init, WaiterInit, EndpointInit, OneshotInit
<1>2. ToSet(<<>>) = {} /\ Once(<<>>)
  BY DEF ToSet, Once
<1>3. \A t \in Threads : Hand(t) = <<>>
  BY <1>1 DEF Hand, Calling
<1>4. Words
  BY <1>1, <1>2 DEF Words, Asking, AskingOf, OneListed, Unspoken, Dry, Parked
<1>5. Separate /\ Uniform
  BY <1>1, <1>2, <1>3 DEF Separate, Ordered, Uniform, Choosing
<1>6. Clean /\ NewNodes /\ Alert
  BY <1>1, <1>2 DEF Clean, NewNodes, Alert, AlertOf, Posted
<1>. QED BY <1>0, <1>4, <1>5, <1>6 DEF ListensInv, Turns

LEMMA ListensStep ==
  ASSUME OneWaiter, ListensInv, OneshotInv', WholeTypes', NEW t \in Threads, OneshotStep(t) \/ OneshotChance(t)
  PROVE  Words' /\ Turns'
<1>1. /\ Base /\ EndInv' /\ Base'
      /\ Asking /\ OneListed /\ Unspoken /\ Dry /\ Parked
      /\ Separate /\ Uniform /\ Clean /\ NewNodes /\ Alert
  BY DEF ListensInv, WholeTypes, Base, Words, Turns
<1>2. Words'
  BY <1>1, AskingStep, OneListedStep, UnspokenStep, DryStep, ParkedStep DEF Words
<1>3. Clean'
  BY <1>1, CleanWaking, CleanStep
<1>4. Alert'
  <2>1. CASE Waking(t)
    BY <1>1, <2>1, AlertWaking DEF Alert
  <2>2. CASE ~Waking(t)
    BY <1>1, <2>2, AlertOwn, AlertOther DEF Alert
  <2>. QED BY <2>1, <2>2
<1>5. Separate' /\ Uniform' /\ NewNodes'
  BY <1>1, SeparateStep, UniformStep, NewNodesStep
<1>. QED BY <1>2, <1>3, <1>4, <1>5 DEF Turns

LEMMA ListensStutter ==
  ASSUME ListensInv, UNCHANGED vars
  PROVE  Words' /\ Turns'
<1>1. UNCHANGED <<permit, waiting, stack, aborted, selected, calls, program, held, pc, op, arm, state>>
  BY DEF vars, waiterVars, endVars, oneshotVars
<1>2. Words'
  BY <1>1 DEF ListensInv, Words, Asking, AskingOf, OneListed, Reading, Registered, Unspoken, Draining, Dry,
              Receivers, Parked, Sought, Woken, Wakes
<1>3. Separate' /\ Uniform'
  BY <1>1 DEF ListensInv, Turns, Separate, Ordered, Uniform, Choosing, Wanted, Hand, Calling
<1>4. Clean' /\ NewNodes'
  BY <1>1 DEF ListensInv, Turns, Clean, Watched, Posted, Ahead, NewNodes, Allocated, Chains, Drainers, Calling,
              ArmNode
<1>5. \A t : \A r : Coming(t, r)' = Coming(t, r)
  BY <1>1 DEF Coming, Called, Chosen, Choosing, Hand, Calling, OfTurn, Thread, Round
<1>6. Alert'
  BY <1>1, <1>5 DEF ListensInv, Turns, Alert, AlertOf, Posted, ArmNode, Won
<1>. QED BY <1>2, <1>3, <1>4, <1>6 DEF Turns

(* What is sought or coming is a waker.                                     *)
LEMMA SoughtWakes ==
  ASSUME Base, OneListed, NEW t \in Threads, Registered(t), Sought(t)
  PROVE  permit[t] \/ \E u \in Threads : WillUnpark(u, t)
<1>1. OneOf(waiting["recv"]) = <<t>>
  BY OneRegistered DEF OneOf
<1>2. ASSUME NEW u \in Threads, NEW call \in ToSet(calls[u]), Wakes(call, t, "recv") \/ call = WakeOne("recv")
      PROVE  WillUnpark(u, t)
  <2>1. PICK i \in DOMAIN calls[u] : calls[u][i] = call
    BY DEF ToSet
  <2>. QED BY <1>1, <1>2, <2>1 DEF WillUnpark, Wakes, WakeOne
<1>. QED BY <1>2 DEF Sought, Woken

LEMMA ComingWakes ==
  ASSUME Base, NEW t \in Threads, Coming(t, arm[t].turn), Won(t) = Unselected \/ permit[t]
  PROVE  permit[t] \/ \E u \in Threads : WillSelect(u, t)
<1>. DEFINE r == arm[t].turn
<1>1. \A n : OfTurn(n, t, r) <=> Current(n, t)
  BY DEF OfTurn, Current
<1>2. ASSUME NEW u \in Threads, NEW call \in ToSet(calls[u]), call.op \in Choice,
             NEW n \in ToSet(stack[call.on]), OfTurn(n, t, r)
      PROVE  WillSelect(u, t)
  <2>1. PICK i \in DOMAIN calls[u] : calls[u][i] = call
    BY DEF ToSet
  <2>. QED BY <1>1, <1>2, <2>1 DEF WillSelect, Choice
<1>3. ASSUME NEW u \in Threads, Choosing(u), NEW n \in ToSet(Hand(u)), OfTurn(n, t, r)
      PROVE  WillSelect(u, t)
  <2>1. calls[u] # <<>> /\ Head(calls[u]).op \in {"visit", "elect"} /\ Hand(u) = Head(calls[u]).todo
    BY <1>3 DEF Choosing, Hand, Calling
  <2>2. calls[u] \in Seq(WakeCalls(ArmNodes))
    BY BaseTyped
  <2>3. 1 \in DOMAIN calls[u] /\ Head(calls[u]) = calls[u][1]
    BY <2>1, <2>2
  <2>4. Head(calls[u]).mode \in {"select_one", "select_all"}
    BY <1>3 DEF Choosing, Choice
  <2>. QED BY <1>1, <1>3, <2>1, <2>3, <2>4 DEF WillSelect
<1>. QED BY <1>2, <1>3 DEF Coming, Called, Chosen, Won

(* Where one thread at most blocks in recv and one at most selects, neither *)
(* misses the sender's last word, however the value is sent or the sender   *)
(* dropped between its look at the state and its registration, or between   *)
(* that and its park: send's wake of one is enough.                         *)
THEOREM OneshotLosesNoWakeup ==
  ASSUME OneWaiter
  PROVE  Spec => []NoLostWakeup
<1>. DEFINE Known == OneshotInv /\ WholeTypes
            More == Words /\ Turns
<1>1. Init => Known /\ More
  BY ListensInitial DEF ListensInv
<1>2. Known /\ [Next]_vars => WholeTypes'
  BY WholeTypesInductive
<1>3. Known /\ Known' /\ More /\ [Next]_vars => More'
  BY ListensStep, ListensStutter DEF ListensInv, Next, Over
<1>4. Known /\ More => NoLostWakeup
  <2>. SUFFICES ASSUME Known, More, NEW t \in Threads, state # "open"
                PROVE  /\ pc[t] = "park"  => permit[t] \/ \E u \in Threads : WillUnpark(u, t)
                       /\ pc[t] = "sleep" => permit[t] \/ \E u \in Threads : WillSelect(u, t)
    BY DEF NoLostWakeup
  <2>1. Base /\ OneListed /\ Parked /\ AlertOf(t)
    BY DEF WholeTypes, Base, Words, Turns, Alert
  <2>2. pc[t] = "park" => Registered(t) /\ Sought(t)
    BY <2>1 DEF OneListed, Parked
  <2>3. pc[t] = "sleep" => Coming(t, arm[t].turn) /\ (Won(t) = Unselected \/ permit[t])
    BY <2>1 DEF AlertOf
  <2>. QED BY <2>1, <2>2, <2>3, SoughtWakes, ComingWakes
<1>. HIDE DEF More
<1>. QED BY <1>1, <1>2, <1>3, <1>4, OneshotInvariant, PTL DEF Spec
=============================================================================
