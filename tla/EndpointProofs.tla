--------------------------- MODULE EndpointProofs ---------------------------
(***************************************************************************)
(* Lemmas about Endpoints that the proofs about its channels share: what   *)
(* every step keeps of a receiver that is registered and of a select call  *)
(* that is about to sleep.                                                 *)
(***************************************************************************)
EXTENDS Endpoints, WaiterProofs

-----------------------------------------------------------------------------
(* The types of the state.                                                  *)
ArmNodes == Threads \X Rounds \X {1}
Arms == [turn : Rounds \cup {0}, node : ArmNodes \cup {NoNode},
         limit : {"none", "ahead", "passed"}, timed : Nat]

EndTypes ==
  /\ WaiterTypes(ArmNodes)
  /\ program \in Programs
  /\ held \in [Threads -> SUBSET {"send", "recv"}]
  /\ DOMAIN pc = Threads /\ DOMAIN op = Threads
  /\ arm \in [Threads -> Arms]

LEMMA EndpointConstants ==
  /\ NodesOK(ArmNodes)
  /\ Lists = {"recv"} /\ Stacks = {"recv", "send"} /\ 0 \notin Rounds
BY EndpointAssumption DEF NodesOK, ArmNodes

-----------------------------------------------------------------------------
(* A select call between its registration and its walk: the turn is a name  *)
(* of its own, and nobody has marked its node.                              *)
Armed(t) ==
  \/ pc[t] \in {"enrol", "enrol_more", "push", "decide", "sleep"}
  \/ pc[t] \in {"probe", "probe_more"} /\ arm[t].turn # 0

ArmOf(t) ==
  /\ pc[t] \notin SelectSteps => arm[t].turn = 0
  /\ pc[t] \in SelectSteps \ {"probe", "probe_more"} => arm[t].turn # 0
  /\ op[t] = "select_recv" => "recv" \in held[t]
  /\ pc[t] \in SelectSteps => \/ op[t] = "select_recv"
                              \/ op[t] = "select_send" /\ pc[t] = "probe" /\ arm[t].turn = 0
  /\ pc[t] \in {"unborn", "idle"} => op[t] = "none"
  /\ pc[t] = "unborn" => held[t] = {}
  /\ Armed(t) => ArmNode(t) \notin aborted

EndInv == EndTypes /\ AbortedExist /\ \A t \in Threads : ArmOf(t)

(* What a step that is not part of a wake call leaves to thread u, and what *)
(* it leaves of the stacks and of the wake calls.                           *)
Steady(u) ==
  /\ arm'[u].turn = arm[u].turn /\ selected'[u] = selected[u]
  /\ permit[u] => permit'[u]
  /\ Registered(u)' = Registered(u)
  /\ \A n \in aborted' : n \in aborted \/ Thread(n) # u

Growing ==
  /\ \A s \in Stacks : ToSet(stack[s]) \subseteq ToSet(stack'[s])
  /\ \A u \in Threads : calls'[u] = calls[u] \/ Free(u)
  /\ \A n \in aborted' : n \in aborted \/ Allocated(n)

Mild(t) ==
  /\ Growing
  /\ \A u \in Threads \ {t} :
       pc'[u] = pc[u] /\ op'[u] = op[u] /\ arm'[u] = arm[u] /\ Steady(u)

(* What every step, of a wake call or not, is to keep of u.                 *)
Keeps(u) ==
  /\ Registered(u)' = Registered(u)
  /\ Registered(u) /\ Woken(u, "recv") => Woken(u, "recv")'
  /\ Armed(u) =>
       /\ ArmNode(u)' \notin aborted'
       /\ Live(ArmNode(u), "recv") => Live(ArmNode(u), "recv")'
       /\ Live(ArmNode(u), "recv") /\ Roused(ArmNode(u), "recv") => Roused(ArmNode(u), "recv")'
       /\ Won(u)' = Unselected => Won(u) = Unselected

LEMMA ArmedNode ==
  ASSUME EndTypes, NEW u \in Threads, ArmOf(u), Armed(u)
  PROVE  /\ arm[u].turn \in Rounds /\ ArmNode(u) \in ArmNodes /\ ArmNode(u) \notin aborted
         /\ Thread(ArmNode(u)) = u
<1>1. arm[u].turn \in Rounds \cup {0}
  BY DEF EndTypes, Arms
<1>2. arm[u].turn # 0
  BY DEF Armed, ArmOf, SelectSteps
<1>. QED BY <1>1, <1>2 DEF ArmNode, ArmNodes, ArmOf, Thread

LEMMA SteadyKeeps ==
  ASSUME EndTypes, Growing, NEW u \in Threads, ArmOf(u), Steady(u)
  PROVE  Keeps(u)
<1>1. \A v \in Threads : ToSet(calls[v]) \subseteq ToSet(calls'[v])
  BY DEF Growing, Free, ToSet
<1>2. Registered(u) /\ Woken(u, "recv") => Woken(u, "recv")'
  BY <1>1, StaysWoken, EndpointConstants DEF Steady
<1>. SUFFICES ASSUME Armed(u)
              PROVE  /\ ArmNode(u)' \notin aborted'
                     /\ Live(ArmNode(u), "recv") => Live(ArmNode(u), "recv")'
                     /\ Live(ArmNode(u), "recv") /\ Roused(ArmNode(u), "recv")
                          => Roused(ArmNode(u), "recv")'
                     /\ Won(u)' = Unselected => Won(u) = Unselected
  BY <1>2 DEF Keeps, Steady
<1>. DEFINE n == ArmNode(u)
<1>3. n \notin aborted' /\ Thread(n) = u /\ ArmNode(u)' = n
  BY ArmedNode DEF Steady, ArmNode
<1>4. Won(u)' = Won(u)
  BY DEF Steady, Won
<1>5. ToSet(stack["recv"]) \subseteq ToSet(stack'["recv"])
  BY EndpointConstants DEF Growing
<1>6. PICK m : m = n
  OBVIOUS
<1>7. (Live(m, "recv") => Live(m, "recv")') /\ (Roused(m, "recv") => Roused(m, "recv")')
  BY <1>1, <1>3, <1>5, <1>6, StaysRoused DEF Steady
<1>8. Live(n, "recv")' = Live(m, "recv")' /\ Roused(n, "recv")' = Roused(m, "recv")'
  BY <1>3, <1>6
<1>. QED BY <1>3, <1>4, <1>6, <1>7, <1>8

(* As long as nobody is about to take a stack for one waiter, or to clear   *)
(* it, a wake call gets to whom it is meant for.                            *)
LEMMA WakeKeeps ==
  ASSUME EndTypes, AbortedExist, NEW t \in Threads, WakeStep(t), UNCHANGED endVars,
         NEW u \in Threads, ArmOf(u), Armed(u) => AllOrNone("recv")
  PROVE  Keeps(u)
<1>0. WaiterTypes(ArmNodes) /\ NodesOK(ArmNodes) /\ "recv" \in Lists /\ "recv" \in Stacks
  BY EndpointConstants DEF EndTypes
<1>1. UNCHANGED waiting
  BY DEF WakeStep, SnapshotOne, SnapshotAll, UnparkNext, SwapStack, VisitNode, ElectNode
<1>2. Registered(u) /\ Woken(u, "recv") => Woken(u, "recv")'
  BY <1>0, WakeStepWakes DEF Registered
<1>. SUFFICES ASSUME Armed(u)
              PROVE  /\ ArmNode(u)' \notin aborted'
                     /\ Live(ArmNode(u), "recv") => Live(ArmNode(u), "recv")'
                     /\ Live(ArmNode(u), "recv") /\ Roused(ArmNode(u), "recv")
                          => Roused(ArmNode(u), "recv")'
                     /\ Won(u)' = Unselected => Won(u) = Unselected
  BY <1>1, <1>2 DEF Keeps, Registered
<1>. DEFINE n == ArmNode(u)
<1>3. n \in ArmNodes /\ n \notin aborted /\ ArmNode(u)' = n /\ arm[u].turn \in Rounds
  BY ArmedNode DEF endVars, ArmNode
<1>4. n \notin aborted'
  BY <1>3 DEF WakeStep, SnapshotOne, SnapshotAll, UnparkNext, SwapStack, VisitNode, ElectNode
<1>5. PICK m : m = n
  OBVIOUS
<1>6. Live(m, "recv") => Live(m, "recv")' /\ (Roused(m, "recv") => Roused(m, "recv")')
  BY <1>0, <1>3, <1>5, WakeStepRouses
<1>7. Live(n, "recv")' = Live(m, "recv")' /\ Roused(n, "recv")' = Roused(m, "recv")'
  BY <1>3, <1>5
<1>8. Won(u)' = Unselected => Won(u) = Unselected
  <2>1. CASE UNCHANGED selected
    BY <2>1 DEF Won, endVars
  <2>2. CASE ElectNode(t)
    <3>. DEFINE e == Head(Head(calls[t]).todo)
    <3>1. e \in ArmNodes
      BY <1>0, <2>2, VisitEffect
    <3>2. Arm(e) = 1 /\ Thread(e) \in Threads /\ Round(e) \in Rounds
      BY <3>1 DEF ArmNodes, Arm, Thread, Round
    <3>3. \/ selected' = selected
          \/ /\ selected[Thread(e)][Round(e)] = Unselected
             /\ selected' = [selected EXCEPT ![Thread(e)][Round(e)] = Arm(e)]
      BY <2>2 DEF ElectNode
    <3>4. PICK v \in Threads, r \in Rounds :
            selected' = selected \/ selected' = [selected EXCEPT ![v][r] = 1]
      BY <3>2, <3>3
    <3>5. selected \in [Threads -> [Rounds -> Nat]] /\ arm' = arm
      BY <1>0 DEF WaiterTypes, endVars
    <3>. QED BY <1>3, <3>4, <3>5 DEF Won, Unselected
  <2>. QED BY <2>1, <2>2 DEF WakeStep, SnapshotOne, SnapshotAll, UnparkNext, SwapStack, VisitNode
<1>. QED BY <1>3, <1>4, <1>5, <1>6, <1>7, <1>8

(* The rest of the invariant, after each kind of step.                      *)
LEMMA WakeInv ==
  ASSUME EndInv, NEW t \in Threads, WakeStep(t), UNCHANGED endVars
  PROVE  EndInv'
<1>1. WaiterTypes(ArmNodes) /\ NodesOK(ArmNodes)
  BY EndpointConstants DEF EndInv, EndTypes
<1>2. WaiterTypes(ArmNodes)' /\ AbortedExist'
  BY <1>1, WakeStepTypes, WakeStepAborted DEF EndInv
<1>3. aborted' \subseteq aborted
  BY DEF WakeStep, SnapshotOne, SnapshotAll, UnparkNext, SwapStack, VisitNode, ElectNode
<1>4. EndTypes'
  BY <1>2 DEF EndInv, EndTypes, endVars, ArmNodes
<1>5. ASSUME NEW u \in Threads PROVE ArmOf(u)'
  <2>1. ArmOf(u)
    BY DEF EndInv
  <2>. QED BY <1>3, <2>1 DEF ArmOf, Armed, ArmNode, endVars
<1>. QED BY <1>2, <1>4, <1>5 DEF EndInv

LEMMA GrowingAborted ==
  ASSUME AbortedExist, Growing
  PROVE  AbortedExist'
<1>. SUFFICES ASSUME NEW m \in aborted' PROVE Allocated(m)'
  BY DEF AbortedExist
<1>1. Allocated(m)
  BY DEF Growing, AbortedExist
<1>2. CASE \E s \in Stacks : m \in ToSet(stack[s])
  <2>1. \E s \in Stacks : m \in ToSet(stack'[s])
    BY <1>2 DEF Growing
  <2>. QED BY <2>1 DEF Allocated, Chains
<1>3. CASE \E u \in Threads : Calling(u, {"visit", "elect"}) /\ m \in ToSet(Head(calls[u]).todo)
  <2>1. PICK u \in Threads : Calling(u, {"visit", "elect"}) /\ m \in ToSet(Head(calls[u]).todo)
    BY <1>3
  <2>2. calls'[u] = calls[u]
    BY <2>1 DEF Growing, Calling, Free
  <2>. QED BY <2>1, <2>2 DEF Allocated, Chains, Drainers, Calling
<1>. QED BY <1>1, <1>2, <1>3, AllocatedIff

LEMMA MildInv ==
  ASSUME EndInv, EndTypes', NEW t \in Threads, Mild(t), ArmOf(t)',
         \A u \in Threads \ {t} : held'[u] = held[u]
  PROVE  EndInv'
<1>1. AbortedExist'
  BY GrowingAborted DEF Mild, EndInv
<1>2. ASSUME NEW u \in Threads \ {t} PROVE ArmOf(u)'
  <2>1. ArmOf(u) /\ pc'[u] = pc[u] /\ op'[u] = op[u] /\ arm'[u] = arm[u] /\ Steady(u)
    BY DEF EndInv, Mild
  <2>2. Armed(u)' = Armed(u)
    BY <2>1 DEF Armed
  <2>3. Armed(u) => ArmNode(u)' \notin aborted'
    <3>1. Armed(u) => Keeps(u)
      BY <2>1, SteadyKeeps DEF EndInv, Mild
    <3>. QED BY <3>1 DEF Keeps
  <2>. QED BY <2>1, <2>2, <2>3 DEF ArmOf
<1>. QED BY <1>1, <1>2 DEF EndInv

-----------------------------------------------------------------------------
(* The steps of a thread t by itself.                                       *)
Alone(t) ==
  /\ DOMAIN pc' = Threads /\ DOMAIN op' = Threads
  /\ \A u \in Threads \ {t} : pc'[u] = pc[u] /\ op'[u] = op[u]

LEMMA PlainStep ==
  ASSUME EndTypes, NEW t \in Threads, Alone(t), UNCHANGED localVars
  PROVE  EndTypes' /\ Mild(t) /\ Steady(t)
<1>1. EndTypes'
  BY DEF EndTypes, Alone, localVars, quietVars, WaiterTypes
<1>2. Growing /\ \A u \in Threads : Steady(u)
  BY DEF Growing, Steady, Registered, localVars, quietVars
<1>. QED BY <1>1, <1>2 DEF Mild, Alone, localVars, quietVars

LEMMA WakingStep ==
  ASSUME EndTypes, NEW t \in Threads, Alone(t), UNCHANGED quietVars, Free(t),
         NEW wakes \in Seq(WakeCalls(ArmNodes)), Then(t, wakes)
  PROVE  EndTypes' /\ Mild(t) /\ Steady(t) /\ calls'[t] = wakes
<1>1. calls' \in [Threads -> Seq(WakeCalls(ArmNodes))] /\ calls'[t] = wakes
  <2>. DEFINE S == Seq(WakeCalls(ArmNodes))
  <2>1. calls \in [Threads -> S] /\ wakes \in S
    BY DEF EndTypes, WaiterTypes
  <2>. HIDE DEF S
  <2>2. calls' \in [Threads -> S] /\ calls'[t] = wakes
    BY <2>1 DEF Then
  <2>. QED BY <2>2 DEF S
<1>2. EndTypes'
  BY <1>1 DEF EndTypes, Alone, quietVars, WaiterTypes
<1>3. Growing /\ \A u \in Threads : Steady(u)
  BY DEF Growing, Steady, Registered, quietVars, Then
<1>. QED BY <1>1, <1>2, <1>3 DEF Mild, Alone, quietVars

LEMMA WithoutKeeps ==
  ASSUME NEW S, NEW s \in Seq(S), NEW e
  PROVE  /\ Without(s, e) \in Seq(S)
         /\ ToSet(s) \ {e} \subseteq ToSet(Without(s, e)) /\ ToSet(Without(s, e)) \subseteq ToSet(s)
<1>1. CASE e \notin ToSet(s)
  BY <1>1 DEF Without
<1>2. CASE e \in ToSet(s)
  <2>. DEFINE k == CHOOSE i \in DOMAIN s : s[i] = e
              w == RemoveAt(s, k)
  <2>1. k \in DOMAIN s /\ s[k] = e
    BY <1>2 DEF ToSet
  <2>2. Len(s) \in Nat /\ DOMAIN s = 1 .. Len(s) /\ k \in 1 .. Len(s)
    BY <2>1
  <2>. HIDE DEF k
  <2>3. /\ w \in Seq(S) /\ Len(w) = Len(s) - 1 /\ DOMAIN w = 1 .. Len(s) - 1
        /\ \A i \in 1 .. Len(s) - 1 : w[i] = IF i < k THEN s[i] ELSE s[i + 1]
    <3>1. /\ w \in Seq(S) /\ Len(w) = Len(s) - 1
          /\ \A i \in 1 .. Len(s) - 1 : w[i] = IF i < k THEN s[i] ELSE s[i + 1]
      BY <2>2, RemoveAtProperties
    <3>. HIDE DEF w
    <3>. QED BY <3>1
  <2>4. Without(s, e) = w
    BY <1>2 DEF Without, k
  <2>. HIDE DEF w
  <2>5. ASSUME NEW j \in DOMAIN s, s[j] # e PROVE \E i \in DOMAIN w : w[i] = s[j]
    <3>1. CASE j < k  BY <3>1, <2>2, <2>3
    <3>2. CASE j > k
      <4>1. j - 1 \in DOMAIN w /\ w[j - 1] = s[j]  BY <3>2, <2>2, <2>3
      <4>. QED BY <4>1
    <3>. QED BY <3>1, <3>2, <2>1, <2>2, <2>5
  <2>6. ASSUME NEW i \in DOMAIN w PROVE \E j \in DOMAIN s : s[j] = w[i]
    BY <2>2, <2>3
  <2>. QED BY <2>3, <2>4, <2>5, <2>6 DEF ToSet
<1>. QED BY <1>1, <1>2

(* The registration of a receive and the drop of its guard.                 *)
LEMMA EnlistStep ==
  ASSUME EndTypes, NEW t \in Threads, NEW next, Enlist(t, next)
  PROVE  EndTypes' /\ Mild(t) /\ Registered(t)'
<1>1. waiting["recv"] \in Seq(Threads) /\ waiting' = [waiting EXCEPT !["recv"] = Append(@, t)]
      /\ Lists = {"recv"} /\ waiting \in [Lists -> Seq(Threads)]
  BY EndpointConstants DEF Enlist, Register, EndTypes, WaiterTypes
<1>2. Append(waiting["recv"], t) \in Seq(Threads)
      /\ ToSet(Append(waiting["recv"], t)) = ToSet(waiting["recv"]) \cup {t}
  BY <1>1, ToSetAppend
<1>3. waiting' \in [Lists -> Seq(Threads)] /\ ToSet(waiting'["recv"]) = ToSet(waiting["recv"]) \cup {t}
  BY <1>1, <1>2
<1>4. EndTypes'
  BY <1>3 DEF EndTypes, WaiterTypes, Enlist, Step
<1>5. Growing /\ (\A u \in Threads \ {t} : Steady(u)) /\ Registered(t)'
  BY <1>3 DEF Growing, Steady, Registered, Enlist
<1>. QED BY <1>4, <1>5 DEF Mild, Enlist, Step, EndTypes

LEMMA LeaveStep ==
  ASSUME EndTypes, NEW t \in Threads, NEW next, Again(t, next) \/ Return(t)
  PROVE  EndTypes' /\ Mild(t)
<1>1. /\ waiting["recv"] \in Seq(Threads) /\ waiting' = [waiting EXCEPT !["recv"] = Without(@, t)]
      /\ Lists = {"recv"} /\ waiting \in [Lists -> Seq(Threads)]
  BY EndpointConstants DEF Again, Return, Unregister, EndTypes, WaiterTypes
<1>2. /\ Without(waiting["recv"], t) \in Seq(Threads)
      /\ ToSet(waiting["recv"]) \ {t} \subseteq ToSet(Without(waiting["recv"], t))
      /\ ToSet(Without(waiting["recv"], t)) \subseteq ToSet(waiting["recv"])
  BY <1>1, WithoutKeeps
<1>3. /\ waiting' \in [Lists -> Seq(Threads)]
      /\ ToSet(waiting["recv"]) \ {t} \subseteq ToSet(waiting'["recv"])
      /\ ToSet(waiting'["recv"]) \subseteq ToSet(waiting["recv"])
  BY <1>1, <1>2
<1>4. /\ UNCHANGED <<program, held, arm, permit, stack, aborted, selected, calls>>
      /\ Alone(t)
  BY DEF Again, Return, Step, Finish, Alone, EndTypes
<1>5. EndTypes'
  BY <1>3, <1>4 DEF EndTypes, WaiterTypes, Alone
<1>6. Growing /\ \A u \in Threads \ {t} : Steady(u)
  BY <1>3, <1>4 DEF Growing, Steady, Registered
<1>. QED BY <1>4, <1>5, <1>6 DEF Mild, Alone

LEMMA ParkStep ==
  ASSUME EndTypes, NEW t \in Threads, NEW at, NEW next, ParkReturns(t, at, next)
  PROVE  EndTypes' /\ Mild(t)
<1>1. permit' \in [Threads -> BOOLEAN] /\ \A u \in Threads \ {t} : permit'[u] = permit[u]
  BY DEF ParkReturns, EndTypes, WaiterTypes
<1>2. /\ UNCHANGED <<program, held, arm, waiting, stack, aborted, selected, calls>> /\ Alone(t)
  BY DEF ParkReturns, Step, Alone, EndTypes
<1>3. EndTypes'
  BY <1>1, <1>2 DEF EndTypes, WaiterTypes, Alone
<1>4. Growing /\ \A u \in Threads \ {t} : Steady(u)
  BY <1>1, <1>2 DEF Growing, Steady, Registered
<1>. QED BY <1>2, <1>3, <1>4 DEF Mild, Alone

LEMMA SpuriousStep ==
  ASSUME EndTypes, NEW t \in Threads, Spurious(t)
  PROVE  EndTypes' /\ Mild(t) /\ Steady(t)
<1>1. permit' \in [Threads -> BOOLEAN] /\ \A u \in Threads : permit[u] => permit'[u]
  BY DEF Spurious, EndTypes, WaiterTypes
<1>2. EndTypes'
  BY <1>1 DEF EndTypes, WaiterTypes, Spurious
<1>3. Growing /\ \A u \in Threads : Steady(u)
  BY <1>1 DEF Growing, Steady, Registered, Spurious
<1>. QED BY <1>2, <1>3 DEF Mild, Spurious

-----------------------------------------------------------------------------
(* The steps of select_impl.                                                *)
LEMMA ArmAlone ==
  ASSUME EndTypes, NEW t \in Threads, UNCHANGED <<program, held, waiting, stack, calls>>,
         Alone(t), WaiterTypes(ArmNodes)', arm' \in [Threads -> Arms],
         \A u \in Threads \ {t} :
           arm'[u] = arm[u] /\ selected'[u] = selected[u] /\ (permit[u] => permit'[u]),
         \A n \in aborted' : n \in aborted \/ (Allocated(n) /\ Thread(n) = t)
  PROVE  EndTypes' /\ Mild(t)
<1>1. EndTypes'
  BY DEF EndTypes, Alone
<1>2. Growing /\ \A u \in Threads \ {t} : Steady(u)
  BY DEF Growing, Steady, Registered
<1>. QED BY <1>1, <1>2 DEF Mild, Alone

LEMMA RetireTypes ==
  ASSUME EndTypes, NEW t \in Threads, Retire(t)
  PROVE  /\ selected' \in [Threads -> [Rounds -> Nat]]
         /\ \A u \in Threads \ {t} : selected'[u] = selected[u]
<1>1. arm[t].turn \in Rounds \cup {0} /\ selected \in [Threads -> [Rounds -> Nat]]
  BY DEF EndTypes, Arms, WaiterTypes
<1>2. CASE selected' = selected
  BY <1>1, <1>2
<1>3. CASE selected' # selected
  <2>1. arm[t].turn \in Rounds /\ selected' = [selected EXCEPT ![t][arm[t].turn] = Unselected]
    BY <1>1, <1>3 DEF Retire
  <2>. QED BY <2>1, <1>1 DEF Unselected
<1>. QED BY <1>2, <1>3

LEMMA LeavingTypes ==
  ASSUME EndTypes, NEW t \in Threads
  PROVE  Leaving(t) \in Arms /\ Leaving(t).turn = 0
<1>1. arm[t] \in Arms
  BY DEF EndTypes
<1>. QED BY <1>1 DEF Arms, Leaving

(* select_impl returns.                                                     *)
LEMMA LeaveSelect ==
  ASSUME EndTypes, NEW t \in Threads, CompleteArm(t) \/ TakeDefault(t),
         UNCHANGED probeVars
  PROVE  /\ EndTypes' /\ Mild(t)
         /\ \/ pc'[t] = "complete" /\ op' = op
            \/ pc'[t] = "idle" /\ op'[t] = "none"
         /\ arm'[t].turn = 0
<1>. DEFINE leaving == Leaving(t)
<1>1. /\ selected' \in [Threads -> [Rounds -> Nat]]
      /\ \A u \in Threads \ {t} : selected'[u] = selected[u]
  BY RetireTypes DEF CompleteArm, TakeDefault
<1>2. leaving \in Arms /\ leaving.turn = 0 /\ arm' = [arm EXCEPT ![t] = leaving]
      /\ arm \in [Threads -> Arms] /\ DOMAIN pc = Threads /\ DOMAIN op = Threads
  BY LeavingTypes DEF CompleteArm, TakeDefault, Proceed, EndTypes
<1>. HIDE DEF leaving
<1>3. arm' \in [Threads -> Arms] /\ arm'[t] = leaving /\ \A u \in Threads \ {t} : arm'[u] = arm[u]
  BY <1>2
<1>4. /\ Alone(t)
      /\ \/ pc'[t] = "complete" /\ op' = op
         \/ pc'[t] = "idle" /\ op'[t] = "none"
  BY <1>2 DEF CompleteArm, TakeDefault, Proceed, Step, Finish, Alone
<1>5. WaiterTypes(ArmNodes)'
  BY <1>1 DEF EndTypes, WaiterTypes, probeVars, ArmNodes
<1>. QED BY <1>1, <1>2, <1>3, <1>4, <1>5, ArmAlone DEF probeVars

LEMMA ReadyStep ==
  ASSUME EndTypes, NEW t \in Threads, ArmReady(t), UNCHANGED probeVars
  PROVE  /\ EndTypes' /\ Mild(t) /\ op'[t] = op[t]
         /\ \/ pc'[t] = "complete" /\ arm'[t].turn = 0
            \/ /\ pc'[t] = "decide" /\ arm'[t].turn = arm[t].turn /\ arm[t].turn # 0
               /\ Won(t)' # Unselected /\ UNCHANGED aborted
<1>1. CASE arm[t].turn = 0 /\ CompleteArm(t)
  BY <1>1, LeaveSelect DEF CompleteArm, Proceed, Step, EndTypes
<1>2. CASE ~(arm[t].turn = 0 /\ CompleteArm(t))
  <2>1. /\ arm[t].turn # 0 /\ selected' = [selected EXCEPT ![t][arm[t].turn] = 1]
        /\ arm' = [arm EXCEPT ![t] = arm[t]] /\ pc' = [pc EXCEPT ![t] = "decide"] /\ op' = op
    BY <1>2 DEF ArmReady, Proceed, Step
  <2>2. arm[t].turn \in Rounds /\ selected \in [Threads -> [Rounds -> Nat]]
        /\ arm \in [Threads -> Arms] /\ DOMAIN pc = Threads /\ DOMAIN op = Threads
    BY <2>1 DEF EndTypes, Arms, WaiterTypes
  <2>3. /\ selected' \in [Threads -> [Rounds -> Nat]] /\ selected'[t][arm[t].turn] = 1
        /\ \A u \in Threads \ {t} : selected'[u] = selected[u]
    BY <2>1, <2>2
  <2>4. arm' = arm
    BY <2>1, <2>2
  <2>5. WaiterTypes(ArmNodes)'
    BY <2>3 DEF EndTypes, WaiterTypes, probeVars, ArmNodes
  <2>6. EndTypes' /\ Mild(t)
    BY <2>1, <2>2, <2>3, <2>4, <2>5, ArmAlone DEF probeVars, Alone
  <2>7. Won(t)' # Unselected
    BY <2>3, <2>4 DEF Won, Unselected
  <2>. QED BY <2>1, <2>2, <2>4, <2>6, <2>7 DEF probeVars
<1>. QED BY <1>1, <1>2

(* A fresh turn is the name of no node that is left.                        *)
LEMMA NotReadyStep ==
  ASSUME EndTypes, AbortedExist, NEW t \in Threads, ArmNotReady(t), UNCHANGED probeVars
  PROVE  /\ EndTypes' /\ Mild(t)
         /\ \/ /\ pc'[t] = "decide" /\ arm[t].turn # 0 /\ op'[t] = op[t] /\ Steady(t)
               /\ UNCHANGED <<aborted, arm>>
            \/ pc'[t] = "idle" /\ op'[t] = "none" /\ arm'[t].turn = 0
            \/ /\ pc'[t] = "enrol" /\ arm[t].turn = 0 /\ arm'[t].turn # 0 /\ op'[t] = op[t]
               /\ ArmNode(t)' \notin aborted'
<1>0. arm \in [Threads -> Arms] /\ DOMAIN pc = Threads /\ DOMAIN op = Threads
  BY DEF EndTypes
<1>1. CASE arm[t].turn # 0
  <2>1. /\ pc' = [pc EXCEPT ![t] = "decide"] /\ op' = op /\ arm' = arm /\ selected' = selected
    BY <1>0, <1>1 DEF ArmNotReady, Proceed, Step
  <2>2. WaiterTypes(ArmNodes)'
    BY <2>1 DEF EndTypes, WaiterTypes, probeVars, ArmNodes
  <2>3. EndTypes' /\ Mild(t)
    BY <1>0, <2>1, <2>2, ArmAlone DEF probeVars, Alone
  <2>. QED BY <1>0, <1>1, <2>1, <2>3 DEF probeVars, Steady, Registered
<1>2. CASE arm[t].turn = 0 /\ TakeDefault(t)
  <2>1. pc'[t] = "idle"
    BY <1>0, <1>2 DEF TakeDefault, Finish
  <2>. QED BY <1>2, <2>1, LeaveSelect
<1>3. CASE arm[t].turn = 0 /\ ~TakeDefault(t)
  <2>. DEFINE r == FreshTurn(t)
              a == [arm[t] EXCEPT !.turn = r]
  <2>1. /\ \E s \in Rounds : Chained(t, s) = {}
        /\ pc' = [pc EXCEPT ![t] = "enrol"] /\ op' = op
        /\ selected' = [selected EXCEPT ![t][r] = Unselected] /\ arm' = [arm EXCEPT ![t] = a]
    BY <1>3 DEF ArmNotReady, Proceed, Step
  <2>2. r \in Rounds /\ Chained(t, r) = {}
    BY <2>1 DEF FreshTurn
  <2>. HIDE DEF r
  <2>3. a \in Arms /\ a.turn = r
    <3>1. arm[t] \in Arms
      BY <1>0
    <3>. QED BY <2>2, <3>1 DEF Arms
  <2>. HIDE DEF a
  <2>4. arm' \in [Threads -> Arms] /\ arm'[t].turn = r /\ \A u \in Threads \ {t} : arm'[u] = arm[u]
    BY <2>1, <2>3, <1>0
  <2>5. /\ selected' \in [Threads -> [Rounds -> Nat]]
        /\ \A u \in Threads \ {t} : selected'[u] = selected[u]
    BY <2>1, <2>2 DEF EndTypes, WaiterTypes, Unselected
  <2>9. WaiterTypes(ArmNodes)'
    BY <2>5 DEF EndTypes, WaiterTypes, probeVars, ArmNodes
  <2>6. EndTypes' /\ Mild(t)
    BY <1>0, <2>1, <2>4, <2>5, <2>9, ArmAlone DEF probeVars, Alone
  <2>7. <<t, r, 1>> \notin aborted
    <3>1. ~Allocated(<<t, r, 1>>)
      BY <2>2 DEF Chained, Allocated, Thread, Round
    <3>. QED BY <3>1 DEF AbortedExist
  <2>8. r # 0
    BY <2>2, EndpointConstants
  <2>. QED BY <1>0, <1>3, <2>1, <2>4, <2>6, <2>7, <2>8 DEF ArmNode, probeVars
<1>. QED BY <1>1, <1>2, <1>3

LEMMA AllocatedNodes ==
  ASSUME WaiterTypes(ArmNodes), NEW n, Allocated(n)
  PROVE  n \in ArmNodes
<1>1. CASE \E s \in Stacks : n \in ToSet(stack[s])
  BY <1>1 DEF WaiterTypes, ToSet
<1>2. CASE \E u \in Threads : Calling(u, {"visit", "elect"}) /\ n \in ToSet(Head(calls[u]).todo)
  <2>1. PICK u \in Threads : Calling(u, {"visit", "elect"}) /\ n \in ToSet(Head(calls[u]).todo)
    BY <1>2
  <2>2. calls[u] \in Seq(WakeCalls(ArmNodes)) /\ calls[u] # <<>>
    BY <2>1 DEF WaiterTypes, Calling
  <2>3. Head(calls[u]) \in WakeCalls(ArmNodes)
    BY <2>2, HeadTailProperties
  <2>4. Head(calls[u]) \in Visits(ArmNodes)
    BY <2>1, <2>3 DEF Calling, WakeCalls, Snapshots, Swaps, Unparks
  <2>. QED BY <2>1, <2>4 DEF Visits, ToSet
<1>. QED BY <1>1, <1>2, AllocatedIff

LEMMA BeyondNodes ==
  ASSUME WaiterTypes(ArmNodes), NEW n
  PROVE  Beyond(n) \subseteq ArmNodes \cup {NoNode}
<1>1. CASE Allocated(n)
  <2>. DEFINE chain == CHOOSE ch \in Chains : n \in ToSet(ch)
              i == CHOOSE j \in 1 .. Len(chain) : chain[j] = n
  <2>1. chain \in Chains /\ n \in ToSet(chain)
    BY <1>1 DEF Allocated
  <2>. HIDE DEF chain
  <2>2. chain \in Seq(ArmNodes)
    <3>1. CASE \E s \in Stacks : chain = stack[s]
      BY <3>1 DEF WaiterTypes
    <3>2. CASE \E u \in Drainers : chain = Head(calls[u]).todo
      <4>1. PICK u \in Threads : Calling(u, {"visit", "elect"}) /\ chain = Head(calls[u]).todo
        BY <3>2 DEF Drainers
      <4>2. calls[u] \in Seq(WakeCalls(ArmNodes)) /\ calls[u] # <<>>
        BY <4>1 DEF WaiterTypes, Calling
      <4>3. Head(calls[u]) \in WakeCalls(ArmNodes)
        BY <4>2, HeadTailProperties
      <4>4. Head(calls[u]) \in Visits(ArmNodes)
        BY <4>1, <4>3 DEF Calling, WakeCalls, Snapshots, Swaps, Unparks
      <4>. QED BY <4>1, <4>4 DEF Visits
    <3>. QED BY <2>1, <3>1, <3>2 DEF Chains
  <2>3. i \in 1 .. Len(chain)
    BY <2>1, <2>2 DEF ToSet
  <2>4. NextOf(n) = IF i = Len(chain) THEN NoNode ELSE chain[i + 1]
    BY DEF NextOf, chain
  <2>. HIDE DEF i
  <2>5. i # Len(chain) => i + 1 \in 1 .. Len(chain)
    BY <2>2, <2>3
  <2>6. NextOf(n) \in ArmNodes \cup {NoNode}
    BY <2>2, <2>4, <2>5
  <2>. QED BY <1>1, <2>6 DEF Beyond
<1>2. CASE ~Allocated(n)
  <2>1. ASSUME NEW u \in Drainers
        PROVE  Head(Head(calls[u]).todo) \in ArmNodes
    <3>1. calls[u] \in Seq(WakeCalls(ArmNodes)) /\ calls[u] # <<>> /\ Calling(u, {"visit", "elect"})
      BY <2>1 DEF WaiterTypes, Calling, Drainers
    <3>2. Head(calls[u]) \in WakeCalls(ArmNodes)
      BY <3>1, HeadTailProperties
    <3>3. Head(calls[u]) \in Visits(ArmNodes)
      BY <3>1, <3>2 DEF Calling, WakeCalls, Snapshots, Swaps, Unparks
    <3>. DEFINE todo == Head(calls[u]).todo
    <3>4. todo \in Seq(ArmNodes) /\ todo # <<>>
      BY <3>3 DEF Visits
    <3>. HIDE DEF todo
    <3>5. Head(todo) \in ArmNodes
      BY <3>4, HeadTailProperties
    <3>. QED BY <3>5 DEF todo
  <2>. QED BY <1>2, <2>1 DEF Beyond
<1>. QED BY <1>1, <1>2

LEMMA NodeProceeds ==
  ASSUME EndTypes, NEW t \in Threads, NEW to, NEW n \in ArmNodes \cup {NoNode},
         Proceed(t, to, [arm[t] EXCEPT !.node = n])
  PROVE  /\ Alone(t) /\ arm' \in [Threads -> Arms] /\ arm'[t].turn = arm[t].turn
         /\ \A u \in Threads \ {t} : arm'[u] = arm[u]
         /\ pc'[t] = to /\ op' = op
<1>. DEFINE a == [arm[t] EXCEPT !.node = n]
<1>1. arm[t] \in Arms
  BY DEF EndTypes
<1>2. a \in Arms /\ a.turn = arm[t].turn
  BY <1>1 DEF Arms
<1>. HIDE DEF a
<1>3. arm' = [arm EXCEPT ![t] = a] /\ pc' = [pc EXCEPT ![t] = to] /\ op' = op
  BY DEF Proceed, Step, a
<1>. QED BY <1>2, <1>3 DEF EndTypes, Alone

(* The steps between the registration and the end of a turn.                *)
LEMMA DecideStep ==
  ASSUME EndTypes, NEW t \in Threads, Decide(t)
  PROVE  /\ EndTypes' /\ Mild(t) /\ Steady(t) /\ op' = op /\ UNCHANGED <<aborted, arm>>
         /\ \/ pc'[t] = "sleep" /\ Won(t) = Unselected
            \/ pc'[t] = "abort"
<1>1. Alone(t) /\ UNCHANGED localVars
  BY DEF Decide, Step, Alone, EndTypes
<1>. QED BY <1>1, PlainStep DEF Decide, Step, EndTypes, localVars, quietVars

LEMMA WakeUpStep ==
  ASSUME EndTypes, NEW t \in Threads, WakeUp(t)
  PROVE  EndTypes' /\ Mild(t) /\ op' = op /\ pc'[t] = "abort" /\ UNCHANGED arm
<1>1. permit' \in [Threads -> BOOLEAN] /\ \A u \in Threads \ {t} : permit'[u] = permit[u]
  BY DEF WakeUp, EndTypes, WaiterTypes
<1>2. /\ UNCHANGED <<program, held, arm, op, waiting, stack, aborted, selected, calls>> /\ Alone(t)
      /\ pc'[t] = "abort"
  BY DEF WakeUp, Step, Alone, EndTypes
<1>3. EndTypes'
  BY <1>1, <1>2 DEF EndTypes, WaiterTypes, Alone
<1>4. Growing /\ \A u \in Threads \ {t} : Steady(u)
  BY <1>1, <1>2 DEF Growing, Steady, Registered
<1>. QED BY <1>2, <1>3, <1>4 DEF Mild, Alone

LEMMA AbortLoadStep ==
  ASSUME EndTypes, NEW t \in Threads, AbortLoad(t)
  PROVE  /\ EndTypes' /\ Mild(t) /\ op' = op /\ pc'[t] \in {"judge", "walk"}
         /\ arm'[t].turn = arm[t].turn
<1>1. PICK to \in {"judge", "walk"}, n \in ArmNodes \cup {NoNode} :
        Proceed(t, to, [arm[t] EXCEPT !.node = n])
  <2>0. arm[t] \in Arms
    BY DEF EndTypes
  <2>1. CASE Top(ArmSide(t)) = NoNode
    <3>1. Proceed(t, "judge", arm[t]) /\ [arm[t] EXCEPT !.node = arm[t].node] = arm[t]
      BY <2>0, <2>1 DEF AbortLoad, Arms
    <3>2. arm[t].node \in ArmNodes \cup {NoNode}
      BY <2>0 DEF Arms
    <3>. QED BY <3>1, <3>2
  <2>2. CASE Top(ArmSide(t)) # NoNode
    <3>. DEFINE s == ArmSide(t)
    <3>1. s \in Stacks
      BY EndpointConstants DEF ArmSide
    <3>. HIDE DEF s
    <3>2. stack[s] \in Seq(ArmNodes)
      BY <3>1 DEF EndTypes, WaiterTypes
    <3>3. Top(s) \in ArmNodes \cup {NoNode}
      BY <3>2, HeadTailProperties DEF Top
    <3>. QED BY <2>2, <3>3 DEF AbortLoad, s
  <2>. QED BY <2>1, <2>2
<1>2. UNCHANGED <<program, held, waiterVars>>
  BY DEF AbortLoad
<1>3. WaiterTypes(ArmNodes)'
  BY <1>2 DEF EndTypes, WaiterTypes, waiterVars, ArmNodes
<1>4. /\ Alone(t) /\ arm' \in [Threads -> Arms] /\ arm'[t].turn = arm[t].turn
      /\ \A u \in Threads \ {t} : arm'[u] = arm[u]
      /\ pc'[t] = to /\ op' = op
  BY <1>1, NodeProceeds
<1>. QED BY <1>2, <1>3, <1>4, ArmAlone DEF waiterVars

LEMMA WalkStep ==
  ASSUME EndTypes, NEW t \in Threads, Walk(t)
  PROVE  /\ EndTypes' /\ Mild(t) /\ op' = op /\ pc'[t] \in {"judge", "walk"}
         /\ arm'[t].turn = arm[t].turn
<1>. DEFINE n == arm[t].node
<1>0. WaiterTypes(ArmNodes)
  BY DEF EndTypes
<1>1. PICK m \in ArmNodes \cup {NoNode} :
        Proceed(t, IF m = NoNode THEN "judge" ELSE "walk", [arm[t] EXCEPT !.node = m])
  BY <1>0, BeyondNodes DEF Walk
<1>2. /\ Alone(t) /\ arm' \in [Threads -> Arms] /\ arm'[t].turn = arm[t].turn
      /\ \A u \in Threads \ {t} : arm'[u] = arm[u]
      /\ pc'[t] \in {"judge", "walk"} /\ op' = op
  BY <1>1, NodeProceeds
<1>3. \A x \in aborted' : x \in aborted \/ (Allocated(x) /\ Thread(x) = t)
  BY DEF Walk, Mark
<1>4. UNCHANGED <<program, held, permit, waiting, stack, selected, calls>>
  BY DEF Walk
<1>5. aborted' \subseteq ArmNodes
  BY <1>0, <1>3, AllocatedNodes DEF WaiterTypes
<1>6. WaiterTypes(ArmNodes)'
  BY <1>0, <1>4, <1>5 DEF WaiterTypes, ArmNodes
<1>. QED BY <1>2, <1>3, <1>4, <1>6, ArmAlone

LEMMA JudgeStep ==
  ASSUME EndTypes, NEW t \in Threads, Judge(t)
  PROVE  /\ EndTypes' /\ Mild(t)
         /\ \/ pc'[t] = "complete" /\ op' = op
            \/ pc'[t] = "idle" /\ op'[t] = "none"
            \/ pc'[t] = "probe" /\ op' = op
         /\ arm'[t].turn = 0
<1>1. CASE CompleteArm(t) \/ TakeDefault(t)
  BY <1>1, LeaveSelect DEF Judge
<1>2. CASE ~(CompleteArm(t) \/ TakeDefault(t))
  <2>. DEFINE a == [arm[t] EXCEPT !.turn = 0]
  <2>1. Proceed(t, "probe", a) /\ Retire(t) /\ UNCHANGED probeVars
    BY <1>2 DEF Judge
  <2>2. /\ selected' \in [Threads -> [Rounds -> Nat]]
        /\ \A u \in Threads \ {t} : selected'[u] = selected[u]
    BY <2>1, RetireTypes
  <2>3. arm[t] \in Arms /\ arm \in [Threads -> Arms] /\ DOMAIN pc = Threads /\ DOMAIN op = Threads
    BY DEF EndTypes
  <2>4. a \in Arms /\ a.turn = 0
    BY <2>3 DEF Arms
  <2>. HIDE DEF a
  <2>5. /\ arm' \in [Threads -> Arms] /\ arm'[t].turn = 0
        /\ \A u \in Threads \ {t} : arm'[u] = arm[u]
        /\ pc'[t] = "probe" /\ op' = op /\ Alone(t)
    BY <2>1, <2>3, <2>4 DEF Proceed, Step, Alone
  <2>6. WaiterTypes(ArmNodes)'
    BY <2>1, <2>2 DEF EndTypes, WaiterTypes, probeVars, ArmNodes
  <2>7. EndTypes' /\ Mild(t)
    BY <2>1, <2>2, <2>5, <2>6, ArmAlone DEF probeVars
  <2>. QED BY <2>5, <2>7
<1>. QED BY <1>1, <1>2

LEMMA PushStep ==
  ASSUME EndTypes, NEW t \in Threads, NEW at, PushArm(t, at), arm[t].turn # 0
  PROVE  /\ EndTypes' /\ Mild(t) /\ Steady(t) /\ pc'[t] = "probe" /\ op' = op
         /\ UNCHANGED <<arm, aborted>>
         /\ ArmNode(t) \in ToSet(stack'[ArmSide(t)])
<1>. DEFINE n == ArmNode(t)
            side == ArmSide(t)
<1>1. n \in ArmNodes /\ side \in Stacks
  BY EndpointConstants DEF EndTypes, Arms, ArmNode, ArmNodes, ArmSide
<1>2. stack \in [Stacks -> Seq(ArmNodes)] /\ stack[side] \in Seq(ArmNodes)
      /\ stack' = [stack EXCEPT ![side] = <<n>> \o @]
  BY <1>1 DEF EndTypes, WaiterTypes, PushArm, PushNode
<1>. HIDE DEF n, side
<1>. DEFINE s == stack[side]
            r == <<n>> \o s
<1>3. s \in Seq(ArmNodes) /\ Len(s) \in Nat
  BY <1>2
<1>. HIDE DEF s
<1>4. r \in Seq(ArmNodes) /\ n \in ToSet(r) /\ ToSet(s) \subseteq ToSet(r)
  <2>. HIDE DEF r
  <2>1. /\ r \in Seq(ArmNodes) /\ DOMAIN r = 1 .. Len(s) + 1 /\ r[1] = n
        /\ \A i \in 1 .. Len(s) : r[i + 1] = s[i]
    BY <1>1, <1>3 DEF r, n
  <2>2. n \in ToSet(r)
    <3>1. 1 \in DOMAIN r
      BY <1>3, <2>1
    <3>. QED BY <2>1, <3>1 DEF ToSet
  <2>3. ASSUME NEW i \in DOMAIN s PROVE s[i] \in ToSet(r)
    <3>1. i + 1 \in DOMAIN r /\ r[i + 1] = s[i]
      BY <1>3, <2>1
    <3>. QED BY <3>1 DEF ToSet
  <2>. QED BY <2>1, <2>2, <2>3 DEF ToSet
<1>. HIDE DEF r
<1>5. stack' = [stack EXCEPT ![side] = r]
  BY <1>2 DEF r, s
<1>6. /\ stack' \in [Stacks -> Seq(ArmNodes)] /\ stack'[side] = r
      /\ \A x \in Stacks : ToSet(stack[x]) \subseteq ToSet(stack'[x])
  BY <1>1, <1>2, <1>4, <1>5 DEF s
<1>7. /\ UNCHANGED <<program, held, arm, permit, waiting, aborted, selected, calls, op>>
      /\ Alone(t) /\ pc'[t] = "probe"
  BY DEF PushArm, Step, Alone, EndTypes
<1>8. EndTypes'
  BY <1>6, <1>7 DEF EndTypes, WaiterTypes, Alone, ArmNodes
<1>9. Growing /\ \A u \in Threads : Steady(u)
  BY <1>6, <1>7 DEF Growing, Steady, Registered
<1>. QED BY <1>4, <1>6, <1>7, <1>8, <1>9 DEF Mild, Alone, n, side

LEMMA SelectCallStep ==
  ASSUME EndTypes, NEW t \in Threads, NEW operation, NEW side, SelectCall(t, operation, side)
  PROVE  /\ EndTypes' /\ Mild(t) /\ Steady(t) /\ pc'[t] = "probe" /\ op'[t] = operation
         /\ arm'[t].turn = arm[t].turn /\ pc[t] = "idle" /\ side \in held[t]
<1>0. MaxTimed \in Nat
  BY EndpointAssumption
<1>1. arm \in [Threads -> Arms] /\ DOMAIN pc = Threads /\ DOMAIN op = Threads /\ arm[t] \in Arms
  BY DEF EndTypes
<1>2. /\ pc' = [pc EXCEPT ![t] = "probe"] /\ op' = [op EXCEPT ![t] = operation]
      /\ pc[t] = "idle" /\ side \in held[t] /\ UNCHANGED <<probeVars, selected>>
  BY DEF SelectCall, At
<1>3. PICK a \in Arms : a.turn = arm[t].turn /\ arm' = [arm EXCEPT ![t] = a]
  <2>1. CASE UNCHANGED arm
    BY <1>1, <2>1
  <2>2. CASE ~UNCHANGED arm
    <3>. DEFINE a == [arm[t] EXCEPT !.limit = "ahead", !.timed = @ + 1]
    <3>1. arm' = [arm EXCEPT ![t].limit = "ahead", ![t].timed = @ + 1]
      BY <2>2 DEF SelectCall
    <3>2. a \in Arms /\ a.turn = arm[t].turn
      <4>. DEFINE b == [arm[t] EXCEPT !.limit = "ahead"]
                  k == b.timed + 1
      <4>1. b \in Arms /\ b.turn = arm[t].turn
        BY <1>1 DEF Arms
      <4>2. a = [b EXCEPT !.timed = @ + 1]
        OBVIOUS
      <4>. HIDE DEF b
      <4>3. k \in Nat
        BY <4>1 DEF Arms
      <4>4. [b EXCEPT !.timed = @ + 1] = [b EXCEPT !.timed = k]
        OBVIOUS
      <4>. HIDE DEF a, k
      <4>5. [b EXCEPT !.timed = k] \in Arms /\ [b EXCEPT !.timed = k].turn = b.turn
        BY <4>1, <4>3 DEF Arms
      <4>. QED BY <4>1, <4>2, <4>4, <4>5
    <3>3. arm' = [arm EXCEPT ![t] = a]
      BY <1>1, <3>1 DEF Arms
    <3>. QED BY <3>2, <3>3
  <2>. QED BY <2>1, <2>2
<1>4. /\ arm' \in [Threads -> Arms] /\ arm'[t].turn = arm[t].turn
      /\ \A u \in Threads \ {t} : arm'[u] = arm[u]
  BY <1>1, <1>3
<1>5. WaiterTypes(ArmNodes)'
  BY <1>2 DEF EndTypes, WaiterTypes, probeVars, ArmNodes
<1>6. EndTypes' /\ Mild(t)
  BY <1>1, <1>2, <1>4, <1>5, ArmAlone DEF probeVars, Alone
<1>. QED BY <1>1, <1>2, <1>4, <1>6 DEF Steady, probeVars, Registered

LEMMA DeadlineStep ==
  ASSUME EndTypes, NEW t \in Threads, DeadlinePasses(t)
  PROVE  /\ EndTypes' /\ Mild(t) /\ Steady(t) /\ UNCHANGED <<pc, op, aborted>>
         /\ arm'[t].turn = arm[t].turn
<1>. DEFINE a == [arm[t] EXCEPT !.limit = "passed"]
<1>1. arm \in [Threads -> Arms] /\ DOMAIN pc = Threads /\ DOMAIN op = Threads /\ arm[t] \in Arms
  BY DEF EndTypes
<1>2. a \in Arms /\ a.turn = arm[t].turn
  BY <1>1 DEF Arms
<1>3. arm' = [arm EXCEPT ![t] = a]
  BY <1>1 DEF DeadlinePasses, Arms
<1>. HIDE DEF a
<1>4. /\ arm' \in [Threads -> Arms] /\ arm'[t].turn = arm[t].turn
      /\ \A u \in Threads \ {t} : arm'[u] = arm[u]
  BY <1>1, <1>2, <1>3
<1>5. UNCHANGED <<program, held, pc, op, waiterVars>>
  BY DEF DeadlinePasses
<1>6. WaiterTypes(ArmNodes)'
  BY <1>5 DEF EndTypes, WaiterTypes, waiterVars, ArmNodes
<1>7. EndTypes' /\ Mild(t)
  BY <1>1, <1>4, <1>5, <1>6, ArmAlone DEF waiterVars, Alone
<1>. QED BY <1>4, <1>5, <1>7 DEF Steady, waiterVars, Registered

-----------------------------------------------------------------------------
(* Handles.                                                                 *)
LEMMA CloneHandleStep ==
  ASSUME EndTypes, NEW t \in Threads, NEW u \in Threads, CloneHandle(t, u)
  PROVE  /\ EndTypes' /\ Mild(u) /\ pc[u] = "unborn" /\ pc'[u] = "idle" /\ op' = op
         /\ arm' = arm /\ \A v \in Threads \ {u} : held'[v] = held[v]
         /\ (Senders = {} => Senders' = {}) /\ (Receivers = {} => Receivers' = {})
<1>1. PICK side : side = program.offspring[u]
  OBVIOUS
<1>2. /\ side \in held[t] /\ held' = [held EXCEPT ![u] = {side}] /\ pc[u] = "unborn"
      /\ pc' = [pc EXCEPT ![u] = "idle"] /\ op' = op /\ UNCHANGED <<program, arm, waiterVars>>
  BY <1>1 DEF CloneHandle, Step
<1>3. held \in [Threads -> SUBSET {"send", "recv"}] /\ DOMAIN pc = Threads /\ DOMAIN op = Threads
  BY DEF EndTypes
<1>4. side \in {"send", "recv"}
  BY <1>2, <1>3
<1>5. /\ held' \in [Threads -> SUBSET {"send", "recv"}]
      /\ held'[u] = {side} /\ \A v \in Threads \ {u} : held'[v] = held[v]
  BY <1>2, <1>3, <1>4
<1>6. EndTypes'
  BY <1>2, <1>3, <1>5 DEF EndTypes, WaiterTypes, waiterVars, ArmNodes
<1>7. Growing /\ \A v \in Threads : Steady(v)
  BY <1>2 DEF Growing, Steady, Registered, waiterVars
<1>8. (Senders = {} => Senders' = {}) /\ (Receivers = {} => Receivers' = {})
  BY <1>2, <1>5 DEF Senders, Receivers
<1>. QED BY <1>2, <1>3, <1>5, <1>6, <1>7, <1>8 DEF Mild

LEMMA DropHandleStep ==
  ASSUME EndTypes, NEW t \in Threads, NEW side, NEW wakes \in Seq(WakeCalls(ArmNodes)),
         DropHandle(t, side, wakes)
  PROVE  /\ EndTypes' /\ Mild(t) /\ Steady(t) /\ calls'[t] = wakes /\ pc[t] = "idle"
         /\ UNCHANGED <<pc, op, arm, aborted>> /\ \A v \in Threads \ {t} : held'[v] = held[v]
         /\ held'[t] = held[t] \ {side}
<1>1. calls' \in [Threads -> Seq(WakeCalls(ArmNodes))] /\ calls'[t] = wakes
  <2>. DEFINE S == Seq(WakeCalls(ArmNodes))
  <2>1. calls \in [Threads -> S] /\ wakes \in S
    BY DEF EndTypes, WaiterTypes
  <2>. HIDE DEF S
  <2>2. calls' \in [Threads -> S] /\ calls'[t] = wakes
    BY <2>1 DEF DropHandle, Then
  <2>. QED BY <2>2 DEF S
<1>2. /\ UNCHANGED <<program, pc, op, arm, permit, waiting, stack, aborted, selected>>
      /\ held' = [held EXCEPT ![t] = @ \ {side}] /\ Then(t, wakes) /\ Free(t) /\ pc[t] = "idle"
  BY DEF DropHandle, MayDrop, At
<1>3. held' \in [Threads -> SUBSET {"send", "recv"}] /\ held'[t] = held[t] \ {side}
      /\ \A v \in Threads \ {t} : held'[v] = held[v]
  BY <1>2 DEF EndTypes
<1>4. EndTypes'
  BY <1>1, <1>2, <1>3 DEF EndTypes, WaiterTypes, ArmNodes
<1>5. Growing /\ \A u \in Threads : Steady(u)
  BY <1>2 DEF Growing, Steady, Registered, Then
<1>. QED BY <1>1, <1>2, <1>3, <1>4, <1>5 DEF Mild

LEMMA WakeSequences ==
  /\ <<>> \in Seq(WakeCalls(ArmNodes))
  /\ WakeEverybody \in Seq(WakeCalls(ArmNodes))
  /\ <<Drain("recv")>> \in Seq(WakeCalls(ArmNodes))
  /\ <<WakeAllUnselected("recv"), SelectAll("recv")>> \in Seq(WakeCalls(ArmNodes))
  /\ ToSet(WakeEverybody) = {WakeAll("recv"), SelectAll("recv")}
  /\ ToSet(<<WakeAllUnselected("recv"), SelectAll("recv")>>)
       = {WakeAllUnselected("recv"), SelectAll("recv")}
<1>1. /\ WakeAll("recv") \in Snapshots /\ WakeAllUnselected("recv") \in Snapshots
      /\ SelectAll("recv") \in Swaps /\ Drain("recv") \in Swaps
  BY EndpointConstants DEF WakeAll, WakeAllUnselected, SelectAll, Drain, Snapshots, Swaps
<1>. DEFINE S == WakeCalls(ArmNodes)
<1>2. /\ WakeAll("recv") \in S /\ WakeAllUnselected("recv") \in S
      /\ SelectAll("recv") \in S /\ Drain("recv") \in S
  BY <1>1 DEF WakeCalls
<1>. HIDE DEF S
<1>3. \A a, b : ToSet(<<a, b>>) = {a, b}
  BY DEF ToSet
<1>. QED BY <1>2, <1>3 DEF S, WakeEverybody

-----------------------------------------------------------------------------
(* All that a step does to these invariants.  First the steps of a thread t *)
(* that are not of a wake call and leave the handles alone.                 *)
Announcements == {WakeEverybody, <<WakeAllUnselected("recv"), SelectAll("recv")>>}
News == \E t \in Threads : calls'[t] \in Announcements

(* Only the drop of the last receiver takes the stack without waking.       *)
Drained == Receivers # {} => AllOrNone("recv")

Harmless(t) ==
  /\ EndTypes' /\ Mild(t) /\ ArmOf(t)' /\ UNCHANGED held
  /\ \A u \in Threads : calls'[u] = calls[u] \/ calls'[u] \in Announcements

LEMMA AnnouncedCalls ==
  ASSUME NEW wakes \in Announcements
  PROVE  /\ wakes \in Seq(WakeCalls(ArmNodes)) /\ SelectAll("recv") \in ToSet(wakes)
         /\ \E call \in ToSet(wakes) : call.op \in {"wake_all", "wake_all_unselected"} /\ call.on = "recv"
         /\ \A call \in ToSet(wakes) : call.op \notin {"select_one", "drain"}
<1>1. \/ wakes = WakeEverybody /\ ToSet(wakes) = {WakeAll("recv"), SelectAll("recv")}
      \/ /\ wakes = <<WakeAllUnselected("recv"), SelectAll("recv")>>
         /\ ToSet(wakes) = {WakeAllUnselected("recv"), SelectAll("recv")}
  BY WakeSequences DEF Announcements
<1>2. wakes \in Seq(WakeCalls(ArmNodes))
  BY WakeSequences DEF Announcements
<1>3. /\ WakeAll("recv").op = "wake_all" /\ WakeAll("recv").on = "recv"
      /\ WakeAllUnselected("recv").op = "wake_all_unselected" /\ WakeAllUnselected("recv").on = "recv"
      /\ SelectAll("recv").op = "select_all"
  BY DEF WakeAll, WakeAllUnselected, SelectAll
<1>4. PICK first \in {WakeAll("recv"), WakeAllUnselected("recv")} :
        ToSet(wakes) = {first, SelectAll("recv")}
  BY <1>1
<1>5. first.op \in {"wake_all", "wake_all_unselected"} /\ first.on = "recv"
  BY <1>3
<1>6. \E call \in ToSet(wakes) : call.op \in {"wake_all", "wake_all_unselected"} /\ call.on = "recv"
  BY <1>4, <1>5
<1>. QED BY <1>2, <1>3, <1>4, <1>5, <1>6

LEMMA NewsReaches ==
  ASSUME News, NEW u, NEW n
  PROVE  Woken(u, "recv")' /\ Roused(n, "recv")'
<1>1. PICK t \in Threads : calls'[t] \in Announcements
  BY DEF News
<1>2. /\ SelectAll("recv") \in ToSet(calls'[t])
      /\ \E call \in ToSet(calls'[t]) : call.op \in {"wake_all", "wake_all_unselected"} /\ call.on = "recv"
  BY <1>1, AnnouncedCalls
<1>3. SelectAll("recv").op = "select_all" /\ SelectAll("recv").on = "recv"
  BY DEF SelectAll
<1>. QED BY <1>2, <1>3 DEF Woken, Wakes, Roused

LEMMA DrainedStays ==
  ASSUME Drained, Receivers' # {} => Receivers # {},
         \A u \in Threads : calls'[u] = calls[u] \/ calls'[u] \in Announcements \/ calls'[u] = <<>>
  PROVE  Drained'
<1>. SUFFICES ASSUME Receivers' # {}, NEW u \in Threads, NEW call \in ToSet(calls'[u]),
                     call.op \in {"select_one", "drain"}
              PROVE  call.on # "recv"
  BY DEF Drained, AllOrNone
<1>1. AllOrNone("recv")
  BY DEF Drained
<1>2. calls'[u] = calls[u]
  BY AnnouncedCalls DEF ToSet
<1>. QED BY <1>1, <1>2 DEF AllOrNone

LEMMA HarmlessInv ==
  ASSUME EndInv, Drained, NEW t \in Threads, Harmless(t)
  PROVE  EndInv' /\ Drained'
<1>1. EndInv'
  BY MildInv DEF Harmless
<1>2. Receivers' = Receivers
  BY DEF Harmless, Receivers
<1>. QED BY <1>1, <1>2, DrainedStays DEF Harmless

(* A step outside select_impl.                                              *)
LEMMA ApartArm ==
  ASSUME EndInv, NEW t \in Threads, pc[t] \notin SelectSteps, UNCHANGED <<held, arm>>,
         pc'[t] \notin SelectSteps \cup {"unborn"}, op'[t] = op[t] \/ op'[t] # "select_recv",
         pc'[t] = "idle" => op'[t] = "none"
  PROVE  ArmOf(t)' /\ ~Armed(t)' /\ arm'[t].turn = 0
<1>1. arm'[t].turn = 0
  BY DEF EndInv, ArmOf
<1>2. ~Armed(t)'
  BY <1>1 DEF SelectSteps, Armed
<1>. QED BY <1>1, <1>2 DEF EndInv, ArmOf

(* The steps of select_impl.                                                *)
LEMMA SelectCallEffect ==
  ASSUME EndInv, NEW t \in Threads, NEW operation \in {"select_send", "select_recv"}, NEW side,
         SelectCall(t, operation, side), operation = "select_recv" => side = "recv"
  PROVE  /\ Harmless(t) /\ ~Armed(t)' /\ UNCHANGED calls
         /\ pc[t] = "idle" /\ pc'[t] = "probe" /\ op'[t] = operation
<1>1. /\ EndTypes' /\ Mild(t) /\ pc'[t] = "probe" /\ op'[t] = operation
      /\ arm'[t].turn = arm[t].turn /\ pc[t] = "idle" /\ side \in held[t]
  BY SelectCallStep DEF EndInv
<1>2. UNCHANGED <<held, calls>>
  BY DEF SelectCall, probeVars
<1>3. arm'[t].turn = 0 /\ ~Armed(t)'
  BY <1>1 DEF EndInv, ArmOf, Armed, SelectSteps
<1>4. ArmOf(t)'
  BY <1>1, <1>2, <1>3 DEF ArmOf, SelectSteps
<1>. QED BY <1>1, <1>2, <1>3, <1>4 DEF Harmless

LEMMA ReadyEffect ==
  ASSUME EndInv, NEW t \in Threads, pc[t] \in {"probe", "probe_more"}, ArmReady(t),
         UNCHANGED probeVars
  PROVE  /\ Harmless(t) /\ UNCHANGED calls
         /\ \/ pc'[t] = "complete" /\ ~Armed(t)'
            \/ pc'[t] = "decide" /\ Won(t)' # Unselected
<1>1. /\ EndTypes' /\ Mild(t) /\ op'[t] = op[t]
      /\ \/ pc'[t] = "complete" /\ arm'[t].turn = 0
         \/ /\ pc'[t] = "decide" /\ arm'[t].turn = arm[t].turn /\ arm[t].turn # 0
            /\ Won(t)' # Unselected /\ UNCHANGED aborted
  BY ReadyStep DEF EndInv
<1>2. UNCHANGED <<held, calls>> /\ ArmOf(t)
  BY DEF probeVars, EndInv
<1>3. ArmOf(t)' /\ (pc'[t] = "complete" => ~Armed(t)')
  BY <1>1, <1>2 DEF ArmOf, Armed, SelectSteps, ArmNode
<1>. QED BY <1>1, <1>2, <1>3 DEF Harmless

LEMMA NotReadyEffect ==
  ASSUME EndInv, NEW t \in Threads, pc[t] \in {"probe", "probe_more"}, ArmNotReady(t),
         UNCHANGED probeVars, op[t] = "select_recv"
  PROVE  /\ Harmless(t) /\ UNCHANGED calls
         /\ \/ pc'[t] = "decide" /\ Armed(t) /\ Keeps(t)
            \/ pc'[t] = "idle" /\ ~Armed(t)'
            \/ pc'[t] = "enrol"
<1>0. EndTypes /\ AbortedExist /\ ArmOf(t)
  BY DEF EndInv
<1>1. /\ EndTypes' /\ Mild(t)
      /\ \/ /\ pc'[t] = "decide" /\ arm[t].turn # 0 /\ op'[t] = op[t] /\ Steady(t)
            /\ UNCHANGED <<aborted, arm>>
         \/ pc'[t] = "idle" /\ op'[t] = "none" /\ arm'[t].turn = 0
         \/ /\ pc'[t] = "enrol" /\ arm[t].turn = 0 /\ arm'[t].turn # 0 /\ op'[t] = op[t]
            /\ ArmNode(t)' \notin aborted'
  BY <1>0, NotReadyStep
<1>2. UNCHANGED <<held, calls>>
  BY DEF probeVars
<1>3. CASE pc'[t] = "decide"
  <2>1. /\ arm[t].turn # 0 /\ op'[t] = op[t] /\ Steady(t) /\ UNCHANGED <<aborted, arm>> /\ Growing
    BY <1>1, <1>3 DEF Mild
  <2>2. Armed(t) /\ Keeps(t)
    BY <1>0, <2>1, SteadyKeeps DEF Armed
  <2>3. ArmOf(t)'
    BY <1>0, <1>2, <1>3, <2>1, <2>2 DEF ArmOf, SelectSteps, Keeps
  <2>. QED BY <1>1, <1>2, <1>3, <2>2, <2>3 DEF Harmless
<1>4. CASE pc'[t] # "decide"
  <2>1. ArmOf(t)' /\ (pc'[t] = "idle" => ~Armed(t)')
    BY <1>0, <1>1, <1>2, <1>4 DEF ArmOf, Armed, SelectSteps
  <2>. QED BY <1>1, <1>2, <1>4, <2>1 DEF Harmless
<1>. QED BY <1>3, <1>4

(* A look of is_ready or register_select that decides nothing yet.          *)
LEMMA LookEffect ==
  ASSUME EndInv, NEW t \in Threads, Alone(t), UNCHANGED localVars, op' = op, op[t] = "select_recv",
         \/ pc[t] = "probe" /\ pc'[t] = "probe_more"
         \/ /\ pc[t] \in {"enrol", "enrol_more"}
            /\ pc'[t] \in {"enrol_more", "probe", "push"}
  PROVE  Harmless(t) /\ Keeps(t) /\ Armed(t)' = Armed(t) /\ UNCHANGED <<arm, calls>>
<1>0. EndTypes /\ ArmOf(t)
  BY DEF EndInv
<1>1. EndTypes' /\ Mild(t) /\ Steady(t)
  BY <1>0, PlainStep
<1>2. UNCHANGED <<held, calls, arm, aborted>>
  BY DEF localVars, quietVars
<1>3. Keeps(t)
  BY <1>0, <1>1, SteadyKeeps DEF Mild
<1>4. Armed(t)' = Armed(t)
  BY <1>0, <1>2 DEF Armed, ArmOf, SelectSteps
<1>5. ArmOf(t)'
  BY <1>0, <1>2, <1>3, <1>4 DEF ArmOf, SelectSteps, Keeps
<1>. QED BY <1>1, <1>2, <1>3, <1>4, <1>5 DEF Harmless

LEMMA PushEffect ==
  ASSUME EndInv, NEW t \in Threads, PushArm(t, "push")
  PROVE  /\ Harmless(t) /\ UNCHANGED calls /\ pc[t] = "push" /\ pc'[t] = "probe"
         /\ Live(ArmNode(t), "recv")'
<1>0. EndTypes /\ ArmOf(t) /\ pc[t] = "push"
  BY DEF EndInv, PushArm, At
<1>1. arm[t].turn # 0 /\ op[t] = "select_recv" /\ Armed(t)
  BY <1>0 DEF ArmOf, Armed, SelectSteps
<1>2. /\ EndTypes' /\ Mild(t) /\ pc'[t] = "probe" /\ op' = op
      /\ UNCHANGED <<arm, aborted>>
      /\ ArmNode(t) \in ToSet(stack'["recv"])
  <2>1. ArmSide(t) = "recv"
    BY <1>1 DEF ArmSide
  <2>. QED BY <1>0, <1>1, <2>1, PushStep
<1>3. UNCHANGED <<held, calls>>
  BY DEF PushArm
<1>4. ArmOf(t)' /\ ArmNode(t)' = ArmNode(t) /\ ArmNode(t)' \notin aborted'
  BY <1>0, <1>1, <1>2, <1>3 DEF ArmOf, Armed, SelectSteps, ArmNode
<1>5. Live(ArmNode(t), "recv")'
  BY <1>2, <1>4 DEF Live
<1>. QED BY <1>0, <1>2, <1>3, <1>4, <1>5 DEF Harmless

LEMMA SelectEffect ==
  ASSUME EndInv, NEW t \in Threads, SelectStep(t)
  PROVE  /\ Harmless(t) /\ UNCHANGED calls
         /\ pc[t] \in {"decide", "sleep", "abort", "walk", "judge"}
         /\ pc'[t] \in {"sleep", "abort", "walk", "judge", "probe", "idle", "complete"}
         /\ pc'[t] = "probe" => op'[t] = "select_recv"
         /\ \/ pc[t] = "decide" /\ pc'[t] = "sleep" /\ Won(t) = Unselected /\ Keeps(t)
            \/ ~Armed(t)' /\ pc'[t] # "sleep"
<1>1. EndTypes /\ ArmOf(t)
  BY DEF EndInv
<1>2. /\ pc[t] \in {"decide", "sleep", "abort", "walk", "judge"}
      /\ UNCHANGED <<held, calls>>
  BY DEF SelectStep, Decide, WakeUp, AbortLoad, Walk, Judge, At, localVars, quietVars, waiterVars,
         probeVars
<1>4. arm[t].turn # 0 /\ op[t] = "select_recv"
  BY <1>1, <1>2 DEF ArmOf, SelectSteps
<1>. DEFINE Goal == /\ Harmless(t) /\ UNCHANGED calls
                    /\ pc[t] \in {"decide", "sleep", "abort", "walk", "judge"}
                    /\ pc'[t] = "probe" => op'[t] = "select_recv"
                    /\ pc'[t] \in {"sleep", "abort", "walk", "judge", "probe", "idle", "complete"}
                    /\ \/ pc[t] = "decide" /\ pc'[t] = "sleep" /\ Won(t) = Unselected /\ Keeps(t)
                       \/ ~Armed(t)' /\ pc'[t] # "sleep"
<1>5. ASSUME EndTypes', Mild(t), op'[t] \in {op[t], "none"},
             pc'[t] = "idle" => op'[t] = "none",
             \/ pc'[t] \in {"abort", "walk", "judge"} /\ op'[t] = op[t] /\ arm'[t].turn # 0
             \/ pc'[t] = "probe" /\ op'[t] = op[t] /\ arm'[t].turn = 0
             \/ pc'[t] \in {"idle", "complete"} /\ arm'[t].turn = 0
      PROVE  Goal
  <2>1. ~Armed(t)'
    BY <1>5 DEF Armed
  <2>2. ArmOf(t)'
    BY <1>1, <1>2, <1>4, <1>5, <2>1 DEF ArmOf, SelectSteps
  <2>. QED BY <1>2, <1>4, <1>5, <2>1, <2>2 DEF Harmless
<1>6. CASE Decide(t)
  <2>1. /\ EndTypes' /\ Mild(t) /\ Steady(t) /\ op' = op /\ UNCHANGED <<aborted, arm>>
        /\ \/ pc'[t] = "sleep" /\ Won(t) = Unselected
           \/ pc'[t] = "abort"
    BY <1>1, <1>6, DecideStep
  <2>2. CASE pc'[t] = "abort"
    BY <1>4, <1>5, <2>1, <2>2
  <2>3. CASE pc'[t] = "sleep"
    <3>1. Keeps(t) /\ Armed(t) /\ pc[t] = "decide" /\ Won(t) = Unselected
      BY <1>1, <1>6, <2>1, <2>3, SteadyKeeps DEF Mild, Armed, Decide, At
    <3>2. ArmOf(t)'
      BY <1>1, <1>2, <1>4, <2>1, <2>3, <3>1 DEF ArmOf, SelectSteps, Keeps
    <3>. QED BY <1>2, <2>1, <2>3, <3>1, <3>2 DEF Harmless
  <2>. QED BY <2>1, <2>2, <2>3
<1>7. CASE WakeUp(t)
  BY <1>1, <1>4, <1>5, <1>7, WakeUpStep
<1>8. CASE AbortLoad(t)
  BY <1>1, <1>4, <1>5, <1>8, AbortLoadStep
<1>9. CASE Walk(t)
  BY <1>1, <1>4, <1>5, <1>9, WalkStep
<1>10. CASE Judge(t)
  BY <1>1, <1>4, <1>5, <1>10, JudgeStep
<1>. QED BY <1>2, <1>6, <1>7, <1>8, <1>9, <1>10 DEF SelectStep

(* What the clock and the operating system do to a thread.                  *)
LEMMA OutsideEffect ==
  ASSUME EndInv, NEW t \in Threads, DeadlinePasses(t) \/ Spurious(t)
  PROVE  /\ Harmless(t) /\ Keeps(t) /\ arm'[t].turn = arm[t].turn
         /\ UNCHANGED <<pc, op, held, calls>>
<1>1. EndTypes /\ ArmOf(t)
  BY DEF EndInv
<1>2. /\ EndTypes' /\ Mild(t) /\ Steady(t) /\ arm'[t].turn = arm[t].turn
      /\ UNCHANGED <<pc, op, held, calls, aborted>>
  BY <1>1, DeadlineStep, SpuriousStep DEF DeadlinePasses, Spurious, waiterVars
<1>3. Keeps(t)
  BY <1>1, <1>2, SteadyKeeps DEF Mild
<1>4. ArmOf(t)'
  BY <1>1, <1>2, <1>3 DEF ArmOf, Armed, Keeps
<1>. QED BY <1>2, <1>3, <1>4 DEF Harmless

-----------------------------------------------------------------------------
(* The steps of the wake calls and those on the handles.                    *)
LEMMA WakeEffect ==
  ASSUME EndInv, Drained, NEW t \in Threads, WakeStep(t), UNCHANGED endVars
  PROVE  EndInv' /\ Drained' /\ \A u \in Threads : Keeps(u)
<1>1. EndTypes /\ AbortedExist /\ \A u \in Threads : ArmOf(u)
  BY DEF EndInv
<1>2. EndInv'
  BY WakeInv
<1>3. ASSUME NEW u \in Threads PROVE Keeps(u)
  <2>1. Armed(u) => "recv" \in held[u]
    BY <1>1 DEF ArmOf, Armed, SelectSteps
  <2>2. Armed(u) => AllOrNone("recv")
    BY <2>1 DEF Drained, Receivers
  <2>. QED BY <1>1, <2>2, WakeKeeps
<1>4. Drained'
  <2>. SUFFICES ASSUME Receivers # {} PROVE AllOrNone("recv")'
    BY DEF Drained, Receivers, endVars
  <2>1. \A u \in Threads : \A call \in ToSet(calls'[u]) :
           call \in ToSet(calls[u]) \/ call.op \in {"unpark", "visit", "elect"}
    BY <1>1, NoNewCalls, EndpointConstants DEF EndTypes
  <2>. QED BY <2>1 DEF Drained, AllOrNone
<1>. QED BY <1>2, <1>3, <1>4

LEMMA StutterEffect ==
  ASSUME EndInv, Drained, UNCHANGED <<waiterVars, endVars>>
  PROVE  EndInv' /\ Drained' /\ \A u \in Threads : Keeps(u)
<1>1. EndTypes /\ AbortedExist /\ \A u \in Threads : ArmOf(u)
  BY DEF EndInv
<1>2. EndTypes'
  BY <1>1 DEF EndTypes, WaiterTypes, waiterVars, endVars
<1>3. AbortedExist'
  BY <1>1 DEF AbortedExist, Allocated, Chains, Drainers, Calling, waiterVars
<1>4. Drained'
  BY DEF Drained, Receivers, AllOrNone, waiterVars, endVars
<1>5. ASSUME NEW u \in Threads PROVE ArmOf(u)' /\ Keeps(u)
  <2>1. ArmOf(u)' = ArmOf(u)
    BY DEF ArmOf, Armed, ArmNode, waiterVars, endVars
  <2>2. Steady(u) /\ Growing
    BY DEF Steady, Growing, Registered, waiterVars, endVars
  <2>. QED BY <1>1, <2>1, <2>2, SteadyKeeps
<1>. QED BY <1>2, <1>3, <1>4, <1>5 DEF EndInv

LEMMA DropEffect ==
  ASSUME EndInv, Drained, NEW t \in Threads, DropSender(t) \/ DropReceiver(t)
  PROVE  /\ EndInv' /\ Drained' /\ \A u \in Threads : Keeps(u)
         /\ UNCHANGED <<pc, op, arm>> /\ pc[t] = "idle"
         /\ \A u \in Threads \ {t} : held'[u] = held[u]
         /\ Senders = {} => Senders' = {}
         /\ News \/ (Senders' = {} => Senders = {})
<1>1. EndTypes /\ AbortedExist /\ \A u \in Threads : ArmOf(u)
  BY DEF EndInv
<1>2. PICK side \in {"send", "recv"}, wakes \in {<<>>, WakeEverybody, <<Drain("recv")>>} :
        /\ DropHandle(t, side, wakes)
        /\ side = "send" => wakes = IF Senders = {t} THEN WakeEverybody ELSE <<>>
        /\ side = "recv" => wakes = IF Receivers = {t} THEN <<Drain("recv")>> ELSE <<>>
  BY DEF DropSender, DropReceiver
<1>3. /\ EndTypes' /\ Mild(t) /\ Steady(t) /\ calls'[t] = wakes /\ pc[t] = "idle"
      /\ UNCHANGED <<pc, op, arm, aborted>> /\ \A v \in Threads \ {t} : held'[v] = held[v]
      /\ held'[t] = held[t] \ {side}
  <2>1. wakes \in Seq(WakeCalls(ArmNodes))
    BY WakeSequences
  <2>. QED BY <1>1, <1>2, <2>1, DropHandleStep
<1>5. /\ Senders' = IF side = "send" THEN Senders \ {t} ELSE Senders
      /\ Receivers' = IF side = "recv" THEN Receivers \ {t} ELSE Receivers
  BY <1>3 DEF Senders, Receivers
<1>6. (Senders = {} => Senders' = {}) /\ (News \/ (Senders' = {} => Senders = {}))
  <2>1. CASE side = "send" /\ Senders = {t}
    BY <1>2, <1>3, <1>5, <2>1 DEF News, Announcements
  <2>2. CASE ~(side = "send" /\ Senders = {t})
    BY <1>5, <2>2
  <2>. QED BY <2>1, <2>2
<1>7. ASSUME NEW u \in Threads PROVE Keeps(u) /\ ArmOf(u)'
  <2>1. Steady(u) /\ Growing
    BY <1>3 DEF Mild
  <2>2. Keeps(u)
    BY <1>1, <2>1, SteadyKeeps
  <2>3. ArmOf(u)'
    BY <1>1, <1>3, <2>2 DEF ArmOf, Armed, Keeps, SelectSteps
  <2>. QED BY <2>2, <2>3
<1>8. AbortedExist'
  <2>. SUFFICES ASSUME NEW m \in aborted' PROVE Allocated(m)'
    BY DEF AbortedExist
  <2>1. Allocated(m)
    BY <1>1, <1>3 DEF AbortedExist
  <2>2. UNCHANGED stack /\ \A u \in Threads : calls'[u] = calls[u] \/ Free(u)
    BY <1>2, <1>3 DEF DropHandle, Mild, Growing
  <2>. QED BY <2>1, <2>2 DEF Allocated, Chains, Drainers, Calling, Free
<1>9. \A u \in Threads \ {t} : calls'[u] = calls[u]
  BY <1>2 DEF DropHandle, Then
<1>10. Drained'
  <2>1. CASE wakes = <<Drain("recv")>> /\ side = "recv"
    BY <1>2, <1>5, <2>1 DEF Drained
  <2>2. CASE ~(wakes = <<Drain("recv")>> /\ side = "recv")
    <3>1. wakes \in {<<>>, WakeEverybody}
      BY <1>2, <2>2
    <3>2. \A u \in Threads :
            calls'[u] = calls[u] \/ calls'[u] \in Announcements \/ calls'[u] = <<>>
      BY <1>3, <1>9, <3>1 DEF Announcements
    <3>. QED BY <1>5, <3>2, DrainedStays
  <2>. QED BY <2>1, <2>2
<1>. QED BY <1>3, <1>6, <1>7, <1>8, <1>10 DEF EndInv

LEMMA CloneEffect ==
  ASSUME EndInv, Drained, NEW t \in Threads, NEW x \in Threads, CloneHandle(t, x)
  PROVE  /\ EndInv' /\ Drained' /\ UNCHANGED <<op, arm>>
         /\ pc[x] = "unborn" /\ pc'[x] = "idle" /\ ~Armed(x)'
         /\ \A u \in Threads \ {x} : Keeps(u) /\ pc'[u] = pc[u] /\ held'[u] = held[u]
         /\ (Senders' = {}) = (Senders = {})
<1>1. EndTypes /\ AbortedExist /\ \A u \in Threads : ArmOf(u)
  BY DEF EndInv
<1>2. /\ EndTypes' /\ Mild(x) /\ pc[x] = "unborn" /\ pc'[x] = "idle" /\ op' = op
      /\ arm' = arm /\ \A v \in Threads \ {x} : held'[v] = held[v]
      /\ (Senders = {} => Senders' = {}) /\ (Receivers = {} => Receivers' = {})
  BY <1>1, CloneHandleStep
<1>3. UNCHANGED waiterVars
  BY DEF CloneHandle
<1>4. Senders' = {} => Senders = {}
  <2>1. held[x] = {}
    BY <1>1, <1>2 DEF ArmOf
  <2>. QED BY <1>2, <2>1 DEF Senders
<1>5. ASSUME NEW u \in Threads \ {x} PROVE Keeps(u) /\ pc'[u] = pc[u] /\ ArmOf(u)'
  <2>1. /\ Steady(u) /\ Growing /\ pc'[u] = pc[u] /\ op'[u] = op[u] /\ arm'[u].turn = arm[u].turn
        /\ held'[u] = held[u]
    BY <1>2 DEF Mild
  <2>2. Keeps(u)
    BY <1>1, <2>1, SteadyKeeps
  <2>. QED BY <1>1, <2>1, <2>2 DEF ArmOf, Armed, Keeps
<1>6. ~Armed(x)' /\ ArmOf(x)'
  BY <1>1, <1>2 DEF ArmOf, Armed, SelectSteps
<1>7. AbortedExist'
  BY <1>1, <1>3 DEF AbortedExist, Allocated, Chains, Drainers, Calling, waiterVars
<1>8. Drained'
  BY <1>2, <1>3, DrainedStays DEF waiterVars
<1>. QED BY <1>2, <1>4, <1>5, <1>6, <1>7, <1>8 DEF EndInv

(* A select call that sleeps with its node where a waker finds it.          *)
LEMMA WillBeSelected ==
  ASSUME EndTypes, NEW t \in Threads, ArmOf(t), pc[t] = "sleep",
         Live(ArmNode(t), "recv"), Roused(ArmNode(t), "recv")
  PROVE  permit[t] \/ \E u \in Threads : WillSelect(u, t)
<1>. DEFINE n == ArmNode(t)
<1>1. Thread(n) = t /\ Round(n) = arm[t].turn /\ n \notin aborted /\ Armed(t)
  BY ArmedNode DEF Armed, ArmNode, Round
<1>2. Current(n, t)
  BY <1>1 DEF Current
<1>. HIDE DEF n
<1>3. Visited(n) => \E u \in Threads : WillSelect(u, t)
  BY <1>2 DEF Visited, WillSelect, ToSet
<1>4. ASSUME ~permit[t], ~Visited(n)
      PROVE  \E u \in Threads : WillSelect(u, t)
  <2>1. PICK u \in Threads : \E call \in ToSet(calls[u]) :
                               call.op = "select_all" /\ call.on = "recv"
    BY <1>1, <1>4 DEF Roused, n
  <2>2. n \in ToSet(stack["recv"])
    BY <1>1, <1>4 DEF Live, n
  <2>. QED BY <1>2, <2>1, <2>2 DEF WillSelect, ToSet
<1>. QED BY <1>3, <1>4

(* At the start.                                                            *)
LEMMA EndpointInitial ==
  ASSUME WaiterInit, EndpointInit
  PROVE  EndInv /\ \A t \in Threads : pc[t] \in {"idle", "unborn"} /\ ToSet(calls[t]) = {}
<1>1. WaiterTypes(ArmNodes)
  BY InitTypes
<1>2. NoArm \in Arms /\ NoArm.turn = 0
  BY DEF NoArm, Arms
<1>3. EndTypes
  BY <1>1, <1>2, ProgramAssumption DEF EndpointInit, EndTypes
<1>4. AbortedExist
  BY DEF WaiterInit, AbortedExist
<1>5. ASSUME NEW t \in Threads PROVE ArmOf(t)
  BY <1>2, ProgramAssumption DEF EndpointInit, ArmOf, Armed, SelectSteps
<1>. QED BY <1>3, <1>4, <1>5 DEF EndInv, EndpointInit, WaiterInit, ToSet

-----------------------------------------------------------------------------
(* The rest of EndpointTypeOK, for a channel whose steps are S: a thread    *)
(* between two operations has none and is about to answer nothing.          *)
Verdicts == {"none", "ok", "empty", "lagged", "disconnected"}

Orderly(S) ==
  /\ pc \in [Threads -> S] /\ answer \in [Threads -> Verdicts] /\ DOMAIN op = Threads
  /\ spurious \in 0 .. program.spurious
  /\ \A t \in Threads : arm[t].timed <= MaxTimed
  /\ \A t \in Threads : pc[t] \in {"idle", "unborn"} => op[t] = "none" /\ answer[t] = "none"

LEMMA EndpointTypes ==
  ASSUME EndTypes, NEW S, Orderly(S)
  PROVE  EndpointTypeOK
<1>1. "recv" \in Lists /\ waiting["recv"] \in Seq(Threads)
  BY EndpointConstants DEF EndTypes, WaiterTypes
<1>2. ToSet(waiting["recv"]) \subseteq Threads
  BY <1>1 DEF ToSet
<1>3. ASSUME NEW t \in Threads
      PROVE  /\ arm[t].turn \in Rounds \cup {0} /\ arm[t].limit \in {"none", "ahead", "passed"}
             /\ arm[t].timed \in 0 .. MaxTimed
             /\ pc[t] = "idle" => op[t] = "none" /\ answer[t] = "none"
  <2>1. arm[t].timed \in Nat /\ MaxTimed \in Nat /\ arm[t].timed <= MaxTimed
    BY EndpointAssumption DEF EndTypes, Arms, Orderly
  <2>2. arm[t].timed \in 0 .. MaxTimed
    BY <2>1
  <2>. QED BY <2>2 DEF EndTypes, Arms, Orderly
<1>4. /\ program \in Programs /\ held \in [Threads -> SUBSET {"send", "recv"}]
      /\ permit \in [Threads -> BOOLEAN]
  BY DEF EndTypes, WaiterTypes
<1>5. answer \in [Threads -> Verdicts] /\ spurious \in 0 .. program.spurious
  BY DEF Orderly
<1>. QED BY <1>2, <1>3, <1>4, <1>5 DEF EndpointTypeOK, Verdicts

LEMMA OrderlyInitial ==
  ASSUME EndpointInit, NEW S, {"idle", "unborn"} \subseteq S
  PROVE  Orderly(S)
<1>1. program.spurious \in Nat /\ MaxTimed \in Nat
  BY ProgramAssumption, EndpointAssumption DEF EndpointInit
<1>2. 0 \in 0 .. program.spurious /\ 0 <= MaxTimed
  BY <1>1
<1>3. \A t \in Threads : arm[t].timed = 0
  BY DEF EndpointInit, NoArm
<1>4. pc \in [Threads -> S] /\ answer \in [Threads -> Verdicts] /\ DOMAIN op = Threads
  BY DEF EndpointInit, Verdicts
<1>5. \A t \in Threads : op[t] = "none" /\ answer[t] = "none"
  BY DEF EndpointInit
<1>6. spurious = 0
  BY DEF EndpointInit
<1>. QED BY <1>2, <1>3, <1>4, <1>5, <1>6 DEF Orderly

(* A step of thread t that is not a spurious return or a call of select.    *)
Timed == UNCHANGED <<program, spurious>> /\ \A u \in Threads : arm'[u].timed = arm[u].timed

LEMMA OrderlyMove ==
  ASSUME NEW S, Orderly(S), NEW t \in Threads, Timed, NEW to \in S, pc' = [pc EXCEPT ![t] = to],
         answer' \in [Threads -> Verdicts], DOMAIN op' = Threads,
         \A u \in Threads \ {t} : op'[u] = op[u] /\ answer'[u] = answer[u],
         to \in {"idle", "unborn"} => op'[t] = "none" /\ answer'[t] = "none"
  PROVE  Orderly(S)'
<1>1. /\ pc' \in [Threads -> S] /\ pc'[t] = to /\ \A u \in Threads \ {t} : pc'[u] = pc[u]
  BY DEF Orderly
<1>2. spurious' \in 0 .. program'.spurious /\ \A u \in Threads : arm'[u].timed <= MaxTimed
  BY DEF Orderly, Timed
<1>3. \A u \in Threads : pc'[u] \in {"idle", "unborn"} => op'[u] = "none" /\ answer'[u] = "none"
  BY <1>1 DEF Orderly
<1>. QED BY <1>1, <1>2, <1>3 DEF Orderly

LEMMA OrderlyStep ==
  ASSUME NEW S, Orderly(S), NEW t \in Threads, Timed,
         NEW to \in S \ {"idle", "unborn"}, Step(t, to)
  PROVE  Orderly(S)'
<1>1. pc' = [pc EXCEPT ![t] = to] /\ op' = op /\ answer' = answer
  BY DEF Step
<1>2. answer' \in [Threads -> Verdicts] /\ DOMAIN op' = Threads
  BY <1>1 DEF Orderly
<1>. QED BY <1>1, <1>2, OrderlyMove

LEMMA OrderlyAnswer ==
  ASSUME NEW S, Orderly(S), "return" \in S, NEW t \in Threads, Timed,
         NEW a \in Verdicts, Answer(t, a)
  PROVE  Orderly(S)'
<1>1. pc' = [pc EXCEPT ![t] = "return"] /\ op' = op /\ answer' = [answer EXCEPT ![t] = a]
  BY DEF Answer
<1>2. /\ answer' \in [Threads -> Verdicts] /\ DOMAIN op' = Threads
      /\ \A u \in Threads \ {t} : answer'[u] = answer[u]
  BY <1>1 DEF Orderly
<1>. QED BY <1>1, <1>2, OrderlyMove

LEMMA OrderlyFinish ==
  ASSUME NEW S, Orderly(S), "idle" \in S, NEW t \in Threads, Timed, Finish(t)
  PROVE  Orderly(S)'
<1>1. /\ pc' = [pc EXCEPT ![t] = "idle"] /\ op' = [op EXCEPT ![t] = "none"]
      /\ answer' = [answer EXCEPT ![t] = "none"]
  BY DEF Finish
<1>2. /\ answer' \in [Threads -> Verdicts] /\ DOMAIN op' = Threads
      /\ op'[t] = "none" /\ answer'[t] = "none"
      /\ \A u \in Threads \ {t} : op'[u] = op[u] /\ answer'[u] = answer[u]
  BY <1>1 DEF Orderly, Verdicts
<1>. QED BY <1>1, <1>2, OrderlyMove

(* The beginning of an operation, and the completion of an arm by one.      *)
LEMMA OrderlyCall ==
  ASSUME NEW S, Orderly(S), NEW t \in Threads, NEW operation, NEW side,
         NEW step \in S \ {"idle", "unborn"},
         Call(t, operation, side, step) \/ CompleteBy(t, operation, step)
  PROVE  Orderly(S)'
<1>1. /\ pc' = [pc EXCEPT ![t] = step] /\ op' = [op EXCEPT ![t] = operation]
      /\ answer' = answer /\ Timed
  BY DEF Call, CompleteBy, localVars, quietVars, Timed
<1>2. /\ answer' \in [Threads -> Verdicts] /\ DOMAIN op' = Threads
      /\ \A u \in Threads \ {t} : op'[u] = op[u] /\ answer'[u] = answer[u]
  BY <1>1 DEF Orderly
<1>. QED BY <1>1, <1>2, OrderlyMove

LEMMA OrderlyRest ==
  ASSUME NEW S, Orderly(S), UNCHANGED <<program, pc, op, answer, spurious>>,
         \A u \in Threads : arm'[u].timed = arm[u].timed
  PROVE  Orderly(S)'
BY DEF Orderly

-----------------------------------------------------------------------------
(* The steps of select_impl.                                                *)
LEMMA ArmTimed ==
  ASSUME EndTypes, NEW t \in Threads, NEW a, arm' = [arm EXCEPT ![t] = a], a.timed = arm[t].timed
  PROVE  \A u \in Threads : arm'[u].timed = arm[u].timed
BY DEF EndTypes

LEMMA ArmFields ==
  ASSUME EndTypes, NEW t \in Threads, NEW n, NEW r
  PROVE  /\ [arm[t] EXCEPT !.node = n].timed = arm[t].timed
         /\ [arm[t] EXCEPT !.turn = r].timed = arm[t].timed
         /\ [arm[t] EXCEPT !.limit = "passed"].timed = arm[t].timed
         /\ Leaving(t).timed = arm[t].timed
<1>1. arm[t] \in Arms
  BY DEF EndTypes
<1>. QED BY <1>1 DEF Arms, Leaving

LEMMA OrderlyProceed ==
  ASSUME NEW S, Orderly(S), SelectSteps \cup {"complete", "idle"} \subseteq S, EndTypes,
         NEW t \in Threads, NEW to \in SelectSteps \cup {"complete"}, NEW a,
         Proceed(t, to, a), a.timed = arm[t].timed, UNCHANGED <<program, spurious>>
  PROVE  Orderly(S)'
<1>1. Timed
  BY ArmTimed DEF Proceed, Timed
<1>2. to \in S \ {"idle", "unborn"}
  BY DEF SelectSteps
<1>. QED BY <1>1, <1>2, OrderlyStep DEF Proceed

LEMMA OrderlyLeave ==
  ASSUME NEW S, Orderly(S), SelectSteps \cup {"complete", "idle"} \subseteq S, EndTypes,
         NEW t \in Threads, CompleteArm(t) \/ TakeDefault(t), UNCHANGED <<program, spurious>>
  PROVE  Orderly(S)'
<1>1. CASE CompleteArm(t)
  BY <1>1, OrderlyProceed, ArmFields DEF CompleteArm
<1>2. CASE TakeDefault(t)
  <2>1. Timed
    BY <1>2, ArmTimed, ArmFields DEF TakeDefault, Timed
  <2>. QED BY <1>2, <2>1, OrderlyFinish DEF TakeDefault
<1>. QED BY <1>1, <1>2

LEMMA OrderlyProbe ==
  ASSUME NEW S, Orderly(S), SelectSteps \cup {"complete", "idle"} \subseteq S, EndTypes,
         NEW t \in Threads, ArmReady(t) \/ ArmNotReady(t), UNCHANGED <<program, spurious>>
  PROVE  Orderly(S)'
<1>0. {"decide", "enrol"} \subseteq SelectSteps \cup {"complete"}
  BY DEF SelectSteps
<1>1. CASE CompleteArm(t) \/ TakeDefault(t)
  BY <1>1, OrderlyLeave
<1>2. CASE Proceed(t, "decide", arm[t])
  BY <1>0, <1>2, OrderlyProceed
<1>3. CASE Proceed(t, "enrol", [arm[t] EXCEPT !.turn = FreshTurn(t)])
  BY <1>0, <1>3, OrderlyProceed, ArmFields
<1>. QED BY <1>1, <1>2, <1>3 DEF ArmReady, ArmNotReady

LEMMA OrderlySelect ==
  ASSUME NEW S, Orderly(S), SelectSteps \cup {"complete", "idle"} \subseteq S, EndTypes,
         NEW t \in Threads, SelectStep(t)
  PROVE  Orderly(S)'
<1>0. {"decide", "sleep", "abort", "walk", "judge", "probe"} \subseteq SelectSteps
      /\ {"sleep", "abort"} \subseteq S \ {"idle", "unborn"}
  BY DEF SelectSteps
<1>1. CASE Decide(t)
  <2>1. Timed
    BY <1>1 DEF Decide, Timed, localVars, quietVars
  <2>. QED BY <1>0, <1>1, <2>1, OrderlyStep DEF Decide
<1>2. CASE WakeUp(t)
  <2>1. Timed
    BY <1>2 DEF WakeUp, Timed
  <2>. QED BY <1>0, <1>2, <2>1, OrderlyStep DEF WakeUp
<1>3. CASE AbortLoad(t)
  BY <1>0, <1>3, OrderlyProceed, ArmFields DEF AbortLoad
<1>4. CASE Walk(t)
  <2>1. PICK m : Proceed(t, IF m = NoNode THEN "judge" ELSE "walk", [arm[t] EXCEPT !.node = m])
    BY <1>4 DEF Walk
  <2>2. UNCHANGED <<program, spurious>>
    BY <1>4 DEF Walk
  <2>. QED BY <1>0, <2>1, <2>2, OrderlyProceed, ArmFields
<1>5. CASE Judge(t)
  <2>1. UNCHANGED <<program, spurious>>
    BY <1>5 DEF Judge, probeVars
  <2>2. \/ CompleteArm(t) \/ TakeDefault(t)
        \/ Proceed(t, "probe", [arm[t] EXCEPT !.turn = 0])
    BY <1>5 DEF Judge
  <2>. QED BY <1>0, <2>1, <2>2, OrderlyLeave, OrderlyProceed, ArmFields
<1>. QED BY <1>1, <1>2, <1>3, <1>4, <1>5 DEF SelectStep

LEMMA OrderlyPush ==
  ASSUME NEW S, Orderly(S), "probe" \in S, NEW t \in Threads, NEW at, PushArm(t, at)
  PROVE  Orderly(S)'
<1>1. Timed /\ Step(t, "probe")
  BY DEF PushArm, Timed
<1>. QED BY <1>1, OrderlyStep

LEMMA OrderlySelectCall ==
  ASSUME NEW S, Orderly(S), "probe" \in S, EndTypes, NEW t \in Threads, NEW operation, NEW side,
         SelectCall(t, operation, side)
  PROVE  Orderly(S)'
<1>1. /\ pc' = [pc EXCEPT ![t] = "probe"] /\ op' = [op EXCEPT ![t] = operation]
      /\ UNCHANGED <<answer, program, spurious>>
  BY DEF SelectCall, probeVars
<1>2. \A u \in Threads : arm'[u].timed <= MaxTimed
  <2>1. CASE arm' = arm
    BY <2>1 DEF Orderly
  <2>2. CASE ~(arm' = arm)
    <3>1. /\ arm[t].timed < MaxTimed
          /\ arm' = [arm EXCEPT ![t].limit = "ahead", ![t].timed = @ + 1]
      BY <2>2 DEF SelectCall
    <3>2. arm \in [Threads -> Arms] /\ MaxTimed \in Nat /\ arm[t].timed \in Nat
      BY EndpointAssumption DEF EndTypes, Arms
    <3>. DEFINE k == arm[t].timed + 1
                once == [arm[t] EXCEPT !.limit = "ahead"]
    <3>3. arm[t] \in Arms /\ once \in Arms /\ once.timed = arm[t].timed
      BY <3>2 DEF Arms
    <3>4. arm'[t].timed = once.timed + 1 /\ \A u \in Threads \ {t} : arm'[u] = arm[u]
      BY <3>1, <3>2, <3>3 DEF Arms
    <3>5. arm'[t].timed <= MaxTimed
      BY <3>1, <3>2, <3>3, <3>4
    <3>. QED BY <3>4, <3>5 DEF Orderly
  <2>. QED BY <2>1, <2>2
<1>3. /\ pc' \in [Threads -> S] /\ pc'[t] = "probe" /\ DOMAIN op' = Threads
      /\ \A u \in Threads \ {t} : pc'[u] = pc[u] /\ op'[u] = op[u]
  BY <1>1 DEF Orderly
<1>4. /\ answer' \in [Threads -> Verdicts] /\ spurious' \in 0 .. program'.spurious
      /\ \A u \in Threads : pc'[u] \in {"idle", "unborn"} => op'[u] = "none" /\ answer'[u] = "none"
  BY <1>1, <1>3 DEF Orderly
<1>. QED BY <1>2, <1>3, <1>4 DEF Orderly

LEMMA OrderlyChance ==
  ASSUME NEW S, Orderly(S), "idle" \in S, EndTypes, NEW t \in Threads,
         \/ DeadlinePasses(t) \/ Spurious(t) \/ DropSender(t) \/ DropReceiver(t)
         \/ \E u \in Threads : CloneHandle(t, u)
  PROVE  Orderly(S)'
<1>1. CASE DeadlinePasses(t)
  BY <1>1, OrderlyRest, ArmTimed, ArmFields DEF DeadlinePasses
<1>2. CASE Spurious(t)
  <2>1. program.spurious \in Nat
    BY ProgramAssumption DEF EndTypes
  <2>2. spurious' \in 0 .. program.spurious
    BY <1>2, <2>1 DEF Spurious, Orderly
  <2>3. UNCHANGED <<program, pc, op, answer, arm>>
    BY <1>2 DEF Spurious
  <2>. QED BY <2>2, <2>3 DEF Orderly
<1>3. CASE DropSender(t) \/ DropReceiver(t)
  BY <1>3, OrderlyRest DEF DropSender, DropReceiver, DropHandle
<1>4. ASSUME NEW u \in Threads, CloneHandle(t, u) PROVE Orderly(S)'
  <2>1. pc[u] = "unborn" /\ pc' = [pc EXCEPT ![u] = "idle"] /\ UNCHANGED <<op, answer>> /\ Timed
    BY <1>4 DEF CloneHandle, Step, Timed
  <2>2. op[u] = "none" /\ answer[u] = "none" /\ answer' \in [Threads -> Verdicts] /\ DOMAIN op' = Threads
    BY <2>1 DEF Orderly
  <2>. QED BY <2>1, <2>2, OrderlyMove
<1>. QED BY <1>1, <1>2, <1>3, <1>4

(* The registration, the park and the return of a receive, and wake calls.  *)
LEMMA OrderlyWait ==
  ASSUME NEW S, Orderly(S), "idle" \in S, NEW t \in Threads,
         \/ \E to \in S \ {"idle", "unborn"} :
              Enlist(t, to) \/ Again(t, to) \/ (\E at : ParkReturns(t, at, to))
         \/ Return(t)
  PROVE  Orderly(S)'
<1>1. ASSUME NEW to \in S \ {"idle", "unborn"},
             Enlist(t, to) \/ Again(t, to) \/ \E at : ParkReturns(t, at, to)
      PROVE  Orderly(S)'
  <2>1. Step(t, to) /\ Timed
    BY <1>1 DEF Enlist, Again, ParkReturns, Timed
  <2>. QED BY <2>1, OrderlyStep
<1>2. CASE Return(t)
  <2>1. Finish(t) /\ Timed
    BY <1>2 DEF Return, Timed
  <2>. QED BY <2>1, OrderlyFinish
<1>. QED BY <1>1, <1>2

LEMMA OrderlyUnchanged ==
  ASSUME NEW S, Orderly(S), UNCHANGED endVars
  PROVE  Orderly(S)'
BY OrderlyRest DEF endVars

-----------------------------------------------------------------------------
(* EndInv where the handles change, and where nothing does.                 *)
LEMMA DropInv ==
  ASSUME EndInv, NEW t \in Threads, NEW side, NEW wakes \in Seq(WakeCalls(ArmNodes)),
         DropHandle(t, side, wakes)
  PROVE  EndInv' /\ \A u \in Threads : Keeps(u)
<1>1. /\ EndTypes' /\ Mild(t) /\ Steady(t) /\ pc[t] = "idle"
      /\ UNCHANGED <<pc, op, arm, aborted>> /\ \A v \in Threads \ {t} : held'[v] = held[v]
  BY DropHandleStep DEF EndInv
<1>2. EndTypes /\ ArmOf(t) /\ \A u \in Threads : ArmOf(u) /\ Steady(u)
  BY <1>1 DEF EndInv, Mild
<1>3. \A u \in Threads : Keeps(u)
  BY <1>1, <1>2, SteadyKeeps DEF Mild
<1>4. ArmOf(t)'
  BY <1>1, <1>2 DEF ArmOf, Armed, SelectSteps
<1>. QED BY <1>1, <1>3, <1>4, MildInv

LEMMA CloneInv ==
  ASSUME EndInv, NEW t \in Threads, NEW x \in Threads, CloneHandle(t, x)
  PROVE  EndInv'
<1>1. /\ EndTypes' /\ Mild(x) /\ pc[x] = "unborn" /\ pc'[x] = "idle" /\ op' = op
      /\ arm' = arm /\ \A v \in Threads \ {x} : held'[v] = held[v]
  BY CloneHandleStep DEF EndInv
<1>2. ArmOf(x)'
  BY <1>1 DEF EndInv, ArmOf, Armed, SelectSteps
<1>. QED BY <1>1, <1>2, MildInv

LEMMA StutterInv ==
  ASSUME EndInv, UNCHANGED <<waiterVars, endVars>>
  PROVE  EndInv'
<1>1. EndTypes'
  BY DEF EndInv, EndTypes, WaiterTypes, waiterVars, endVars
<1>2. AbortedExist'
  BY DEF EndInv, AbortedExist, Allocated, Chains, Drainers, Calling, waiterVars
<1>3. ASSUME NEW u \in Threads PROVE ArmOf(u)'
  BY DEF EndInv, ArmOf, Armed, ArmNode, waiterVars, endVars
<1>. QED BY <1>1, <1>2, <1>3 DEF EndInv

(* A step of t outside select_impl that leaves the handles alone.           *)
LEMMA OuterInv ==
  ASSUME EndInv, NEW t \in Threads, EndTypes', Mild(t), UNCHANGED <<held, arm>>,
         pc[t] \notin SelectSteps, pc'[t] \notin SelectSteps \cup {"unborn"},
         op'[t] = op[t] \/ op'[t] # "select_recv", pc'[t] = "idle" => op'[t] = "none"
  PROVE  EndInv'
BY ApartArm, MildInv

(* The steps of select! that are the same for every channel.                *)
LEMMA SelectInv ==
  ASSUME EndInv, NEW t \in Threads,
         \/ SelectCall(t, "select_recv", "recv") \/ PushArm(t, "push")
         \/ SelectStep(t) \/ DeadlinePasses(t) \/ Spurious(t)
         \/ /\ pc[t] \in {"probe", "probe_more"} /\ UNCHANGED probeVars
            /\ ArmReady(t) \/ (ArmNotReady(t) /\ op[t] = "select_recv")
  PROVE  EndInv'
<1>1. Harmless(t)
  <2>1. CASE SelectCall(t, "select_recv", "recv")
    BY <2>1, SelectCallEffect
  <2>2. CASE PushArm(t, "push")
    BY <2>2, PushEffect
  <2>3. CASE SelectStep(t)
    BY <2>3, SelectEffect
  <2>4. CASE DeadlinePasses(t) \/ Spurious(t)
    BY <2>4, OutsideEffect
  <2>5. CASE /\ pc[t] \in {"probe", "probe_more"} /\ UNCHANGED probeVars
             /\ ArmReady(t)
    BY <2>5, ReadyEffect
  <2>6. CASE /\ pc[t] \in {"probe", "probe_more"} /\ UNCHANGED probeVars
             /\ ArmNotReady(t) /\ op[t] = "select_recv"
    BY <2>6, NotReadyEffect
  <2>. QED BY <2>1, <2>2, <2>3, <2>4, <2>5, <2>6
<1>. QED BY <1>1, MildInv DEF Harmless

-----------------------------------------------------------------------------
(* Sets of threads, which the bounds on what is sent count.                 *)
LEMMA FewThreads ==
  ASSUME NEW S \in SUBSET Threads, NEW R \in SUBSET S
  PROVE  /\ Cardinality(S) \in Nat /\ Cardinality(R) <= Cardinality(S)
         /\ \A t \in S : t \notin R => Cardinality(R) + 1 <= Cardinality(S)
<1>1. IsFiniteSet(S)
  BY EndpointAssumption, FS_Subset
<1>2. Cardinality(S) \in Nat /\ Cardinality(R) <= Cardinality(S) /\ IsFiniteSet(R)
  BY <1>1, FS_Subset, FS_CardinalityType
<1>3. ASSUME NEW t \in S, t \notin R PROVE Cardinality(R) + 1 <= Cardinality(S)
  <2>1. R \cup {t} \subseteq S
    BY <1>3
  <2>2. Cardinality(R \cup {t}) <= Cardinality(S)
    BY <1>1, <2>1, FS_Subset
  <2>3. Cardinality(R \cup {t}) = Cardinality(R) + 1
    BY <1>2, <1>3, FS_AddElement
  <2>. QED BY <2>2, <2>3
<1>. QED BY <1>2, <1>3
=============================================================================
