---------------------------- MODULE WaiterProofs ----------------------------
(***************************************************************************)
(* Lemmas about Waiter that the proofs about the channels share: what its  *)
(* lists hold, and that a wake call is not forgotten on its way to the     *)
(* thread it is meant for.                                                 *)
(***************************************************************************)
EXTENDS Waiter, TLAPS, SequenceTheorems, FiniteSetTheorems

-----------------------------------------------------------------------------
(* Sequences without repetition: the waiter lists.                          *)
Once(s) == \A i, j \in DOMAIN s : s[i] = s[j] => i = j

LEMMA ToSetAppend ==
  ASSUME NEW S, NEW s \in Seq(S), NEW e \in S
  PROVE  /\ ToSet(Append(s, e)) = ToSet(s) \cup {e}
         /\ e \notin ToSet(s) /\ Once(s) => Once(Append(s, e))
  BY AppendProperties DEF ToSet, Once

LEMMA ToSetTail ==
  ASSUME NEW S, NEW s \in Seq(S), s # <<>>
  PROVE  ToSet(s) = {Head(s)} \cup ToSet(Tail(s))
<1>1. /\ Len(s) \in Nat \ {0} /\ DOMAIN s = 1 .. Len(s) /\ Head(s) = s[1]
      /\ Tail(s) \in Seq(S) /\ DOMAIN Tail(s) = 1 .. Len(s) - 1
      /\ \A i \in 1 .. Len(s) - 1 : Tail(s)[i] = s[i + 1]
  BY HeadTailProperties
<1>2. ASSUME NEW i \in DOMAIN s PROVE s[i] \in {Head(s)} \cup ToSet(Tail(s))
  <2>1. CASE i = 1 BY <2>1, <1>1
  <2>2. CASE i # 1
    <3>1. i - 1 \in DOMAIN Tail(s) /\ Tail(s)[i - 1] = s[i] BY <1>1, <2>2
    <3>. QED BY <3>1 DEF ToSet
  <2>. QED BY <2>1, <2>2
<1>. QED BY <1>1, <1>2 DEF ToSet

LEMMA RemoveAtProperties ==
  ASSUME NEW S, NEW s \in Seq(S), NEW k \in 1 .. Len(s)
  PROVE  /\ RemoveAt(s, k) \in Seq(S)
         /\ Len(RemoveAt(s, k)) = Len(s) - 1
         /\ \A i \in 1 .. Len(s) - 1 : RemoveAt(s, k)[i] = IF i < k THEN s[i] ELSE s[i + 1]
<1>. DEFINE n == Len(s)
            before == SubSeq(s, 1, k - 1)
            after  == SubSeq(s, k + 1, n)
            w == RemoveAt(s, k)
<1>1. n \in Nat /\ k \in Int /\ 1 <= k /\ k <= n /\ \A i \in 1 .. n : s[i] \in S
  OBVIOUS
<1>2. w = before \o after
  BY DEF RemoveAt
<1>. HIDE DEF n
<1>3. /\ before \in Seq(S) /\ Len(before) = k - 1
      /\ \A i \in 1 .. k - 1 : before[i] = s[i]
  <2>1. /\ before \in Seq(S)
        /\ Len(before) = IF 1 <= k - 1 THEN k - 1 - 1 + 1 ELSE 0
        /\ \A i \in 1 .. k - 1 - 1 + 1 : before[i] = s[1 + i - 1]
    BY <1>1, SubSeqProperties
  <2>. HIDE DEF before
  <2>2. Len(before) = k - 1
    BY <1>1, <2>1
  <2>3. ASSUME NEW i \in 1 .. k - 1 PROVE before[i] = s[i]
    <3>1. i \in 1 .. k - 1 - 1 + 1 /\ 1 + i - 1 = i  BY <1>1
    <3>. QED BY <3>1, <2>1
  <2>. QED BY <2>1, <2>2, <2>3
<1>4. /\ after \in Seq(S) /\ Len(after) = n - k
      /\ \A i \in 1 .. n - k : after[i] = s[k + i]
  <2>1. /\ after \in Seq(S)
        /\ Len(after) = IF k + 1 <= n THEN n - (k + 1) + 1 ELSE 0
        /\ \A i \in 1 .. n - (k + 1) + 1 : after[i] = s[k + 1 + i - 1]
    BY <1>1, SubSeqProperties
  <2>. HIDE DEF after
  <2>2. Len(after) = n - k
    BY <1>1, <2>1
  <2>3. ASSUME NEW i \in 1 .. n - k PROVE after[i] = s[k + i]
    <3>1. i \in 1 .. n - (k + 1) + 1 /\ k + 1 + i - 1 = k + i  BY <1>1
    <3>. QED BY <3>1, <2>1
  <2>. QED BY <2>1, <2>2, <2>3
<1>. HIDE DEF before, after, w
<1>5. /\ w \in Seq(S) /\ Len(w) = Len(before) + Len(after)
      /\ \A i \in 1 .. Len(before) + Len(after) :
           w[i] = IF i <= Len(before) THEN before[i] ELSE after[i - Len(before)]
  BY <1>2, <1>3, <1>4, ConcatProperties
<1>6. Len(w) = n - 1
  BY <1>1, <1>3, <1>4, <1>5
<1>7. ASSUME NEW i \in 1 .. n - 1 PROVE w[i] = IF i < k THEN s[i] ELSE s[i + 1]
  <2>0. i \in 1 .. Len(before) + Len(after) /\ Len(before) = k - 1
    BY <1>1, <1>3, <1>4
  <2>1. CASE i < k
    <3>1. i \in 1 .. k - 1 /\ i <= Len(before)  BY <2>0, <2>1, <1>1
    <3>. QED BY <3>1, <2>0, <2>1, <1>3, <1>5
  <2>2. CASE ~(i < k)
    <3>1. i - (k - 1) \in 1 .. n - k /\ k + (i - (k - 1)) = i + 1 /\ ~(i <= k - 1)
      BY <2>2, <1>1
    <3>2. w[i] = after[i - (k - 1)]
      BY <2>0, <3>1, <1>5
    <3>. QED BY <3>1, <3>2, <2>2, <1>4
  <2>. QED BY <2>1, <2>2
<1>. QED BY <1>5, <1>6, <1>7 DEF n, w

LEMMA ToSetWithout ==
  ASSUME NEW S, NEW s \in Seq(S), NEW e, Once(s)
  PROVE  /\ Without(s, e) \in Seq(S)
         /\ ToSet(Without(s, e)) = ToSet(s) \ {e}
         /\ Once(Without(s, e))
<1>1. CASE e \notin ToSet(s)
  BY <1>1 DEF Without
<1>2. CASE e \in ToSet(s)
  <2>. DEFINE k == CHOOSE i \in DOMAIN s : s[i] = e
              w == RemoveAt(s, k)
  <2>1. k \in DOMAIN s /\ s[k] = e
    BY <1>2 DEF ToSet
  <2>2. Len(s) \in Nat /\ DOMAIN s = 1 .. Len(s) /\ k \in 1 .. Len(s)
    BY <2>1
  <2>. HIDE DEF k
  <2>3. /\ w \in Seq(S) /\ Len(w) = Len(s) - 1 /\ DOMAIN w = 1 .. Len(s) - 1
        /\ \A i \in 1 .. Len(s) - 1 : w[i] = IF i < k THEN s[i] ELSE s[i + 1]
    <3>1. /\ w \in Seq(S) /\ Len(w) = Len(s) - 1
          /\ \A i \in 1 .. Len(s) - 1 : w[i] = IF i < k THEN s[i] ELSE s[i + 1]
      BY <2>2, RemoveAtProperties
    <3>. HIDE DEF w
    <3>. QED BY <3>1
  <2>4. Without(s, e) = w
    BY <1>2 DEF Without, k
  <2>. HIDE DEF w
  <2>5. ASSUME NEW i \in DOMAIN w PROVE \E j \in DOMAIN s : j # k /\ w[i] = s[j]
    <3>0. i \in 1 .. Len(s) - 1
      BY <2>3
    <3>1. CASE i < k
      <4>1. i \in DOMAIN s /\ i # k /\ w[i] = s[i]
        BY <3>0, <3>1, <2>2, <2>3
      <4>. QED BY <4>1
    <3>2. CASE ~(i < k)
      <4>1. i + 1 \in DOMAIN s /\ i + 1 # k /\ w[i] = s[i + 1]
        BY <3>0, <3>2, <2>2, <2>3
      <4>. QED BY <4>1
    <3>. QED BY <3>1, <3>2
  <2>6. ASSUME NEW j \in DOMAIN s, j # k PROVE \E i \in DOMAIN w : w[i] = s[j]
    <3>1. CASE j < k  BY <3>1, <2>2, <2>3
    <3>2. CASE j > k
      <4>1. j - 1 \in DOMAIN w /\ w[j - 1] = s[j]  BY <3>2, <2>2, <2>3
      <4>. QED BY <4>1
    <3>. QED BY <3>1, <3>2, <2>2, <2>6
  <2>7. ToSet(w) = ToSet(s) \ {e}
    BY <2>1, <2>5, <2>6 DEF ToSet, Once
  <2>8. ASSUME NEW i \in DOMAIN w, NEW j \in DOMAIN w, w[i] = w[j] PROVE i = j
    <3>. DEFINE at(m) == IF m < k THEN m ELSE m + 1
    <3>0. i \in 1 .. Len(s) - 1 /\ j \in 1 .. Len(s) - 1
      BY <2>3
    <3>1. at(i) \in DOMAIN s /\ at(j) \in DOMAIN s
      BY <3>0, <2>2
    <3>2. w[i] = s[at(i)] /\ w[j] = s[at(j)]
      BY <3>0, <2>3
    <3>3. at(i) = at(j) => i = j
      BY <3>0, <2>2
    <3>. HIDE DEF at
    <3>. QED BY <3>1, <3>2, <3>3, <2>8 DEF Once
  <2>9. Once(w)
    BY <2>8 DEF Once
  <2>. QED BY <2>3, <2>4, <2>7, <2>9
<1>. QED BY <1>1, <1>2

LEMMA LenOfOnce ==
  ASSUME NEW S, NEW s \in Seq(S), Once(s)
  PROVE  IsFiniteSet(ToSet(s)) /\ Cardinality(ToSet(s)) = Len(s)
<1>1. Len(s) \in Nat /\ DOMAIN s = 1 .. Len(s)
  OBVIOUS
<1>2. s \in Bijection(1 .. Len(s), ToSet(s))
  BY <1>1 DEF Bijection, Injection, IsInjective, Surjection, ToSet, Once
<1>3. ExistsBijection(1 .. Len(s), ToSet(s))
  BY <1>2 DEF ExistsBijection
<1>. QED BY <1>1, <1>3, FS_Interval, FS_Bijection

-----------------------------------------------------------------------------
(* The types of Waiter's variables, for a set of nodes.                     *)
Snapshots == [op : {"wake_one", "wake_all", "wake_all_unselected"}, on : Lists]
Swaps     == [op : {"select_one", "select_all", "drain"}, on : Stacks]
Unparks   == [op : {"unpark"}, todo : Seq(Threads) \ {<<>>}]
Visits(Nodes) == [op : {"visit", "elect"}, mode : {"select_one", "select_all", "drain", "rest"},
                  todo : Seq(Nodes) \ {<<>>}]
WakeCalls(Nodes) == Snapshots \cup Swaps \cup Unparks \cup Visits(Nodes)

WaiterTypes(Nodes) ==
  /\ permit \in [Threads -> BOOLEAN]
  /\ waiting \in [Lists -> Seq(Threads)]
  /\ stack \in [Stacks -> Seq(Nodes)]
  /\ aborted \subseteq Nodes
  /\ selected \in [Threads -> [Rounds -> Nat]]
  /\ calls \in [Threads -> Seq(WakeCalls(Nodes))]

NodesOK(Nodes) == Nodes \subseteq Threads \X Rounds \X Nat

LEMMA InitTypes ==
  ASSUME NEW Nodes, WaiterInit
  PROVE  WaiterTypes(Nodes)
  BY DEF WaiterInit, WaiterTypes, Unselected

(* What a call that goes on leaves to be done.                              *)
LEMMA GoOnEffect ==
  ASSUME NEW S, calls \in [Threads -> Seq(S)], NEW t \in Threads, ~Free(t),
         NEW call, call.todo = <<>> \/ call \in S, GoOn(t, call)
  PROVE  /\ calls' \in [Threads -> Seq(S)]
         /\ \A u \in Threads \ {t} : calls'[u] = calls[u]
         /\ ToSet(calls'[t]) = (IF call.todo = <<>> THEN {} ELSE {call}) \cup ToSet(Tail(calls[t]))
         /\ ToSet(calls[t]) = {Head(calls[t])} \cup ToSet(Tail(calls[t]))
         /\ Head(calls[t]) \in S
         /\ call.todo # <<>> => calls'[t] # <<>> /\ Head(calls'[t]) = call
<1>1. calls[t] \in Seq(S) /\ calls[t] # <<>>
  BY DEF Free
<1>2. Tail(calls[t]) \in Seq(S) /\ Head(calls[t]) \in S
  BY <1>1, HeadTailProperties
<1>. DEFINE rest == (IF call.todo = <<>> THEN <<>> ELSE <<call>>) \o Tail(calls[t])
<1>3. /\ rest \in Seq(S)
      /\ ToSet(rest) = (IF call.todo = <<>> THEN {} ELSE {call}) \cup ToSet(Tail(calls[t]))
      /\ call.todo # <<>> => rest # <<>> /\ Head(rest) = call
  <2>1. CASE call.todo = <<>>
    BY <2>1, <1>2
  <2>2. CASE call.todo # <<>>
    <3>1. rest = <<call>> \o Tail(calls[t])  BY <2>2
    <3>. DEFINE tl == Tail(calls[t])
    <3>2. tl \in Seq(S) /\ Len(tl) \in Nat /\ DOMAIN tl = 1 .. Len(tl)  BY <1>2
    <3>3. call \in S  BY <2>2
    <3>. HIDE DEF tl, rest
    <3>4. /\ rest \in Seq(S) /\ DOMAIN rest = 1 .. Len(tl) + 1 /\ rest[1] = call
          /\ \A i \in 1 .. Len(tl) : rest[i + 1] = tl[i]
          /\ \A i \in 2 .. Len(tl) + 1 : rest[i] = tl[i - 1]
      BY <3>1, <3>2, <3>3 DEF tl
    <3>5. ToSet(rest) = {call} \cup ToSet(tl)
      <4>1. ASSUME NEW i \in DOMAIN rest PROVE rest[i] \in {call} \cup ToSet(tl)
        <5>1. CASE i = 1  BY <5>1, <3>4
        <5>2. CASE i # 1
          <6>1. i - 1 \in DOMAIN tl /\ rest[i] = tl[i - 1]  BY <5>2, <3>2, <3>4
          <6>. QED BY <6>1 DEF ToSet
        <5>. QED BY <5>1, <5>2
      <4>2. ASSUME NEW i \in DOMAIN tl PROVE tl[i] \in ToSet(rest)
        <5>1. i + 1 \in DOMAIN rest /\ rest[i + 1] = tl[i]  BY <3>2, <3>4
        <5>. QED BY <5>1 DEF ToSet
      <4>3. call \in ToSet(rest)
        <5>1. 1 \in DOMAIN rest /\ rest[1] = call  BY <3>2, <3>4
        <5>. QED BY <5>1 DEF ToSet
      <4>. QED BY <4>1, <4>2, <4>3 DEF ToSet
    <3>6. rest # <<>> /\ Head(rest) = call
      BY <3>2, <3>4
    <3>. QED BY <3>4, <3>5, <3>6, <2>2 DEF tl
  <2>. QED BY <2>1, <2>2
<1>4. calls' = [calls EXCEPT ![t] = rest]
  BY DEF GoOn
<1>. HIDE DEF rest
<1>5. ToSet(calls[t]) = {Head(calls[t])} \cup ToSet(Tail(calls[t]))
  BY <1>1, ToSetTail
<1>. QED BY <1>2, <1>3, <1>4, <1>5


-----------------------------------------------------------------------------
(* A wake call is worked off from the front; the calls after it stay.       *)
LEMMA WakeStepCall ==
  ASSUME NEW Nodes, WaiterTypes(Nodes), NEW t \in Threads, WakeStep(t)
  PROVE  /\ ~Free(t) /\ Head(calls[t]) \in WakeCalls(Nodes)
         /\ ToSet(calls[t]) = {Head(calls[t])} \cup ToSet(Tail(calls[t]))
<1>1. ~Free(t)
  BY DEF WakeStep, SnapshotOne, SnapshotAll, UnparkNext, SwapStack, VisitNode, ElectNode,
         Calling, Free
<1>2. calls[t] \in Seq(WakeCalls(Nodes)) /\ calls[t] # <<>>
  BY <1>1 DEF Free, WaiterTypes
<1>. QED BY <1>1, <1>2, HeadTailProperties, ToSetTail

(* What the steps of a wake call make of it.                                *)
LEMMA SnapshotEffect ==
  ASSUME NEW Nodes, WaiterTypes(Nodes), NEW t \in Threads, SnapshotOne(t) \/ SnapshotAll(t)
  PROVE  /\ Head(calls[t]) \in Snapshots
         /\ \E todo \in Seq(Threads) :
              /\ SnapshotAll(t) => todo = waiting[Head(calls[t]).on]
              /\ GoOn(t, Unpark(todo))
              /\ Unpark(todo).todo = <<>> \/ Unpark(todo) \in WakeCalls(Nodes)
<1>. DEFINE call == Head(calls[t])
<1>1. call \in Snapshots
  <2>1. WakeStep(t)
    BY DEF WakeStep
  <2>. QED BY <2>1, WakeStepCall
           DEF SnapshotOne, SnapshotAll, Calling, WakeCalls, Snapshots, Swaps, Unparks, Visits
<1>2. waiting[call.on] \in Seq(Threads)
  BY <1>1 DEF Snapshots, WaiterTypes
<1>3. OneOf(waiting[call.on]) \in Seq(Threads)
  BY <1>2, HeadTailProperties DEF OneOf
<1>4. \A todo \in Seq(Threads) : Unpark(todo).todo = <<>> \/ Unpark(todo) \in WakeCalls(Nodes)
  BY DEF Unpark, WakeCalls, Unparks
<1>5. CASE SnapshotAll(t)
  BY <1>1, <1>2, <1>4, <1>5 DEF SnapshotAll
<1>6. CASE SnapshotOne(t) /\ ~SnapshotAll(t)
  BY <1>1, <1>3, <1>4, <1>6 DEF SnapshotOne
<1>. QED BY <1>5, <1>6

LEMMA UnparkEffect ==
  ASSUME NEW Nodes, WaiterTypes(Nodes), NEW t \in Threads, UnparkNext(t)
  PROVE  LET call == Head(calls[t]) IN
         /\ call \in Unparks /\ Head(call.todo) \in Threads
         /\ ToSet(call.todo) = {Head(call.todo)} \cup ToSet(Tail(call.todo))
         /\ GoOn(t, Unpark(Tail(call.todo)))
         /\ \/ Unpark(Tail(call.todo)).todo = <<>>
            \/ Unpark(Tail(call.todo)) \in WakeCalls(Nodes)
<1>. DEFINE call == Head(calls[t])
<1>1. call \in Unparks
  <2>1. WakeStep(t)
    BY DEF WakeStep
  <2>. QED BY <2>1, WakeStepCall
           DEF UnparkNext, Calling, WakeCalls, Snapshots, Swaps, Unparks, Visits
<1>2. call.todo \in Seq(Threads) /\ call.todo # <<>>
  BY <1>1 DEF Unparks
<1>. DEFINE todo == call.todo
<1>3. todo \in Seq(Threads) /\ todo # <<>>
  BY <1>2
<1>. HIDE DEF todo
<1>4. /\ Head(todo) \in Threads /\ Tail(todo) \in Seq(Threads)
      /\ ToSet(todo) = {Head(todo)} \cup ToSet(Tail(todo))
  BY <1>3, HeadTailProperties, ToSetTail
<1>5. Unpark(Tail(todo)).todo = <<>> \/ Unpark(Tail(todo)) \in WakeCalls(Nodes)
  BY <1>4 DEF Unpark, WakeCalls, Unparks
<1>6. GoOn(t, Unpark(Tail(todo)))
  BY DEF UnparkNext, todo
<1>. QED BY <1>1, <1>4, <1>5, <1>6 DEF todo

LEMMA SwapEffect ==
  ASSUME NEW Nodes, WaiterTypes(Nodes), NEW t \in Threads, SwapStack(t)
  PROVE  LET call == Head(calls[t]) IN
         /\ call \in Swaps
         /\ GoOn(t, Visit(call.op, stack[call.on]))
         /\ \/ Visit(call.op, stack[call.on]).todo = <<>>
            \/ Visit(call.op, stack[call.on]) \in WakeCalls(Nodes)
<1>. DEFINE call == Head(calls[t])
<1>1. call \in Swaps
  <2>1. WakeStep(t)
    BY DEF WakeStep
  <2>. QED BY <2>1, WakeStepCall
           DEF SwapStack, Calling, WakeCalls, Snapshots, Swaps, Unparks, Visits
<1>2. stack[call.on] \in Seq(Nodes) /\ call.op \in {"select_one", "select_all", "drain"}
  BY <1>1 DEF Swaps, WaiterTypes
<1>3. \/ Visit(call.op, stack[call.on]).todo = <<>>
      \/ Visit(call.op, stack[call.on]) \in WakeCalls(Nodes)
  BY <1>2 DEF Visit, WakeCalls, Visits
<1>. QED BY <1>1, <1>3 DEF SwapStack

(* A visit ends with its node freed, or goes on to elect it.                *)
LEMMA VisitEffect ==
  ASSUME NEW Nodes, WaiterTypes(Nodes), NEW t \in Threads, VisitNode(t) \/ ElectNode(t)
  PROVE  LET call == Head(calls[t]) IN
         /\ call \in Visits(Nodes) /\ Head(call.todo) \in Nodes
         /\ ToSet(call.todo) = {Head(call.todo)} \cup ToSet(Tail(call.todo))
         /\ \A mode \in {"select_one", "select_all", "drain", "rest"} :
              \/ Visit(mode, Tail(call.todo)).todo = <<>>
              \/ Visit(mode, Tail(call.todo)) \in WakeCalls(Nodes)
<1>. DEFINE call == Head(calls[t])
<1>1. call \in Visits(Nodes)
  <2>1. WakeStep(t)
    BY DEF WakeStep
  <2>. QED BY <2>1, WakeStepCall
           DEF VisitNode, ElectNode, Calling, WakeCalls, Snapshots, Swaps, Unparks, Visits
<1>. DEFINE todo == call.todo
<1>2. todo \in Seq(Nodes) /\ todo # <<>>
  BY <1>1 DEF Visits
<1>. HIDE DEF todo
<1>3. /\ Head(todo) \in Nodes /\ Tail(todo) \in Seq(Nodes)
      /\ ToSet(todo) = {Head(todo)} \cup ToSet(Tail(todo))
  BY <1>2, HeadTailProperties, ToSetTail
<1>4. \A mode \in {"select_one", "select_all", "drain", "rest"} :
        \/ Visit(mode, Tail(todo)).todo = <<>> \/ Visit(mode, Tail(todo)) \in WakeCalls(Nodes)
  BY <1>3 DEF Visit, WakeCalls, Visits
<1>. QED BY <1>1, <1>3, <1>4 DEF todo

LEMMA ElectionBegins ==
  ASSUME NEW Nodes, WaiterTypes(Nodes), NEW t \in Threads, VisitNode(t),
         Head(Head(calls[t]).todo) \notin aborted,
         Head(calls[t]).mode \in {"select_one", "select_all"}
  PROVE  /\ calls' \in [Threads -> Seq(WakeCalls(Nodes))]
         /\ \A u \in Threads \ {t} : calls'[u] = calls[u]
         /\ ToSet(calls'[t]) = {[Head(calls[t]) EXCEPT !.op = "elect"]} \cup ToSet(Tail(calls[t]))
         /\ calls'[t] # <<>> /\ Head(calls'[t]) = [Head(calls[t]) EXCEPT !.op = "elect"]
         /\ UNCHANGED aborted
<1>. DEFINE call == Head(calls[t])
            s == calls[t]
            elect == [call EXCEPT !.op = "elect"]
<1>1. call \in Visits(Nodes)
  BY VisitEffect
<1>2. s \in Seq(WakeCalls(Nodes)) /\ s # <<>>
  BY DEF VisitNode, Calling, WaiterTypes
<1>3. elect \in WakeCalls(Nodes)
  BY <1>1 DEF Visits, WakeCalls
<1>4. calls' = [calls EXCEPT ![t] = [s EXCEPT ![1] = elect]] /\ UNCHANGED aborted
  <2>1. s[1] = call
    BY <1>2
  <2>. QED BY <2>1 DEF VisitNode
<1>. HIDE DEF s, call, elect
<1>. DEFINE r == [s EXCEPT ![1] = elect]
<1>5. r \in Seq(WakeCalls(Nodes)) /\ r # <<>> /\ Head(r) = elect /\ Tail(r) = Tail(s)
  <2>1. /\ r \in Seq(WakeCalls(Nodes)) /\ Len(r) = Len(s) /\ r[1] = elect
        /\ \A i \in 2 .. Len(s) : r[i] = s[i]
    BY <1>2, <1>3
  <2>. HIDE DEF r
  <2>2. r # <<>> /\ Head(r) = elect
    BY <2>1, <1>2
  <2>3. /\ Tail(r) \in Seq(WakeCalls(Nodes)) /\ Tail(s) \in Seq(WakeCalls(Nodes))
        /\ Len(Tail(r)) = Len(Tail(s))
        /\ \A i \in 1 .. Len(Tail(s)) : Tail(r)[i] = Tail(s)[i]
    BY <2>1, <2>2, <1>2, HeadTailProperties
  <2>. QED BY <2>1, <2>2, <2>3, SeqEqual
<1>6. ToSet(r) = {elect} \cup ToSet(Tail(s))
  <2>. HIDE DEF r
  <2>. QED BY <1>5, ToSetTail
<1>7. calls' = [calls EXCEPT ![t] = r]
  BY <1>4
<1>. HIDE DEF r
<1>. QED BY <1>4, <1>5, <1>6, <1>7 DEF WaiterTypes, s, call, elect

(* A step of a wake call keeps the types, the other threads' calls and the  *)
(* calls that come after it.                                                *)
LEMMA WakeStepTypes ==
  ASSUME NEW Nodes, NodesOK(Nodes), WaiterTypes(Nodes), NEW t \in Threads, WakeStep(t)
  PROVE  /\ WaiterTypes(Nodes)'
         /\ \A u \in Threads \ {t} : calls'[u] = calls[u]
         /\ ToSet(Tail(calls[t])) \subseteq ToSet(calls'[t])
<1>. DEFINE call == Head(calls[t])
            CallsOK == /\ calls' \in [Threads -> Seq(WakeCalls(Nodes))]
                       /\ \A u \in Threads \ {t} : calls'[u] = calls[u]
                       /\ ToSet(Tail(calls[t])) \subseteq ToSet(calls'[t])
<1>0. ~Free(t) /\ calls \in [Threads -> Seq(WakeCalls(Nodes))]
  BY WakeStepCall DEF WaiterTypes
<1>1. ASSUME NEW goal, GoOn(t, goal), goal.todo = <<>> \/ goal \in WakeCalls(Nodes)
      PROVE  CallsOK
  <2>. DEFINE S == WakeCalls(Nodes)
  <2>1. calls \in [Threads -> Seq(S)] /\ (goal.todo = <<>> \/ goal \in S)
    BY <1>0, <1>1
  <2>. HIDE DEF S
  <2>2. /\ calls' \in [Threads -> Seq(S)]
        /\ \A u \in Threads \ {t} : calls'[u] = calls[u]
        /\ ToSet(Tail(calls[t])) \subseteq ToSet(calls'[t])
    BY <1>0, <1>1, <2>1, GoOnEffect
  <2>. QED BY <2>2 DEF S
<1>. HIDE DEF CallsOK
<1>2. CASE SnapshotOne(t) \/ SnapshotAll(t)
  <2>1. CallsOK
    BY <1>1, <1>2, SnapshotEffect
  <2>. QED BY <2>1, <1>2 DEF SnapshotOne, SnapshotAll, WaiterTypes, CallsOK
<1>3. CASE UnparkNext(t)
  <2>1. CallsOK /\ Head(call.todo) \in Threads
    BY <1>1, <1>3, UnparkEffect
  <2>. QED BY <2>1, <1>3 DEF UnparkNext, WaiterTypes, CallsOK
<1>4. CASE SwapStack(t)
  <2>1. CallsOK /\ call.on \in Stacks
    BY <1>1, <1>4, SwapEffect DEF Swaps
  <2>. QED BY <2>1, <1>4 DEF SwapStack, WaiterTypes, CallsOK
<1>5. CASE VisitNode(t)
  <2>1. CallsOK /\ aborted' \subseteq aborted
    <3>1. call \in Visits(Nodes)
      BY <1>5, VisitEffect
    <3>2. CASE Head(call.todo) \notin aborted /\ call.mode \in {"select_one", "select_all"}
      BY <1>5, <3>2, ElectionBegins DEF CallsOK
    <3>3. CASE ~(Head(call.todo) \notin aborted /\ call.mode \in {"select_one", "select_all"})
      <4>1. GoOn(t, Visit(call.mode, Tail(call.todo))) /\ aborted' \subseteq aborted
        BY <1>5, <3>3 DEF VisitNode
      <4>2. call.mode \in {"select_one", "select_all", "drain", "rest"}
        BY <3>1 DEF Visits
      <4>. QED BY <4>1, <4>2, <1>1, <1>5, VisitEffect
    <3>. QED BY <3>2, <3>3
  <2>. QED BY <2>1, <1>5 DEF VisitNode, WaiterTypes, CallsOK
<1>6. CASE ElectNode(t)
  <2>. DEFINE n == Head(call.todo)
  <2>1. call \in Visits(Nodes) /\ n \in Nodes
    BY <1>6, VisitEffect
  <2>2. n[1] \in Threads /\ n[2] \in Rounds /\ n[3] \in Nat
    BY <2>1 DEF NodesOK
  <2>3. PICK mode \in {"select_one", "select_all", "drain", "rest"} :
          GoOn(t, Visit(mode, Tail(call.todo)))
    BY <1>6, <2>1 DEF ElectNode, Visits
  <2>4. CallsOK
    BY <2>3, <1>1, <1>6, VisitEffect
  <2>5. permit' \in [Threads -> BOOLEAN] /\ selected' \in [Threads -> [Rounds -> Nat]]
    BY <1>6, <2>2 DEF ElectNode, Thread, Round, Arm, WaiterTypes
  <2>6. aborted' \subseteq aborted /\ UNCHANGED <<waiting, stack>>
    BY <1>6 DEF ElectNode
  <2>. QED BY <2>4, <2>5, <2>6 DEF WaiterTypes, CallsOK
<1>. QED BY <1>2, <1>3, <1>4, <1>5, <1>6 DEF WakeStep

-----------------------------------------------------------------------------
(* Thread t, registered in list l, is going to find a permit, has one, or   *)
(* is unparked before long.                                                 *)
Wakes(call, t, l) ==
  \/ call.op = "unpark" /\ t \in ToSet(call.todo)
  \/ call.op \in {"wake_all", "wake_all_unselected"} /\ call.on = l

Woken(t, l) ==
  permit[t] \/ \E u \in Threads : \E call \in ToSet(calls[u]) : Wakes(call, t, l)

(* A wake call under way does not lose a thread that is registered.         *)
LEMMA WakeStepWakes ==
  ASSUME NEW Nodes, NodesOK(Nodes), WaiterTypes(Nodes), NEW u \in Threads, WakeStep(u),
         NEW l \in Lists, NEW t \in Threads, t \in ToSet(waiting[l]), Woken(t, l)
  PROVE  Woken(t, l)'
<1>. DEFINE call == Head(calls[u])
<1>0. /\ ~Free(u) /\ calls \in [Threads -> Seq(WakeCalls(Nodes))]
      /\ ToSet(calls[u]) = {call} \cup ToSet(Tail(calls[u]))
      /\ \A v \in Threads \ {u} : calls'[v] = calls[v]
      /\ ToSet(Tail(calls[u])) \subseteq ToSet(calls'[u])
  BY WakeStepCall, WakeStepTypes DEF WaiterTypes
<1>1. CASE permit[t]
  <2>1. permit'[t]
    BY <1>1 DEF WakeStep, SnapshotOne, SnapshotAll, UnparkNext, SwapStack, VisitNode, ElectNode,
                WaiterTypes
  <2>. QED BY <2>1 DEF Woken
<1>2. CASE ~permit[t] /\ ~Wakes(call, t, l)
  BY <1>0, <1>2 DEF Woken
<1>3. CASE Wakes(call, t, l)
  <2>1. ASSUME NEW goal, GoOn(u, goal), goal \in WakeCalls(Nodes), Wakes(goal, t, l),
               goal.todo # <<>>
        PROVE  Woken(t, l)'
    <3>1. goal \in ToSet(calls'[u])
      <4>. DEFINE S == WakeCalls(Nodes)
      <4>1. calls \in [Threads -> Seq(S)] /\ goal \in S
        BY <1>0, <2>1
      <4>. HIDE DEF S
      <4>. QED BY <1>0, <2>1, <4>1, GoOnEffect
    <3>2. Wakes(goal, t, l)'
      BY <2>1 DEF Wakes
    <3>. QED BY <3>1, <3>2 DEF Woken
  <2>2. CASE SnapshotOne(u) \/ SnapshotAll(u)
    <3>1. call.op \in {"wake_all", "wake_all_unselected"} /\ call.on = l /\ SnapshotAll(u)
      BY <1>3, <2>2 DEF Wakes, SnapshotOne, SnapshotAll, Calling
    <3>2. PICK todo \in Seq(Threads) :
            /\ todo = waiting[l] /\ GoOn(u, Unpark(todo))
            /\ Unpark(todo).todo = <<>> \/ Unpark(todo) \in WakeCalls(Nodes)
      BY <3>1, SnapshotEffect
    <3>3. t \in ToSet(todo) /\ todo # <<>>
      BY <3>2 DEF ToSet
    <3>4. Unpark(todo).todo # <<>> /\ Wakes(Unpark(todo), t, l)
      BY <3>3 DEF Unpark, Wakes
    <3>. QED BY <3>2, <3>4, <2>1
  <2>3. CASE UnparkNext(u)
    <3>1. /\ t \in ToSet(call.todo) /\ Head(call.todo) \in Threads
          /\ ToSet(call.todo) = {Head(call.todo)} \cup ToSet(Tail(call.todo))
          /\ GoOn(u, Unpark(Tail(call.todo)))
          /\ \/ Unpark(Tail(call.todo)).todo = <<>>
             \/ Unpark(Tail(call.todo)) \in WakeCalls(Nodes)
      BY <1>3, <2>3, UnparkEffect DEF Wakes, UnparkNext, Calling
    <3>2. CASE t = Head(call.todo)
      <4>1. permit'[t]
        BY <2>3, <3>2 DEF UnparkNext, WaiterTypes
      <4>. QED BY <4>1 DEF Woken
    <3>3. CASE t \in ToSet(Tail(call.todo))
      <4>1. Unpark(Tail(call.todo)).todo # <<>> /\ Wakes(Unpark(Tail(call.todo)), t, l)
        BY <3>3 DEF Unpark, Wakes, ToSet
      <4>. QED BY <4>1, <3>1, <2>1
    <3>. QED BY <3>1, <3>2, <3>3
  <2>4. CASE SwapStack(u) \/ VisitNode(u) \/ ElectNode(u)
    BY <1>3, <2>4 DEF Wakes, SwapStack, VisitNode, ElectNode, Calling
  <2>. QED BY <2>2, <2>3, <2>4 DEF WakeStep
<1>. QED BY <1>2, <1>1, <1>3

(* Nor does the step of an operation that makes more calls, if any.         *)
LEMMA CallsAdded ==
  ASSUME NEW S, calls \in [Threads -> Seq(S)], NEW u \in Threads, Free(u), NEW more,
         calls' = [calls EXCEPT ![u] = more]
  PROVE  /\ \A v \in Threads : ToSet(calls[v]) \subseteq ToSet(calls'[v])
         /\ ToSet(calls'[u]) = ToSet(more)
<1>1. ToSet(calls[u]) = {}
  BY DEF Free, ToSet
<1>2. \A v \in Threads \ {u} : calls'[v] = calls[v]
  OBVIOUS
<1>. QED BY <1>1, <1>2

LEMMA StaysWoken ==
  ASSUME NEW t \in Threads, NEW l \in Lists, Woken(t, l), permit[t] => permit'[t],
         \A u \in Threads : ToSet(calls[u]) \subseteq ToSet(calls'[u])
  PROVE  Woken(t, l)'
<1>1. CASE permit[t]
  BY <1>1 DEF Woken
<1>2. CASE ~permit[t]
  <2>1. PICK u \in Threads : \E call \in ToSet(calls[u]) : Wakes(call, t, l)
    BY <1>2 DEF Woken
  <2>2. \E call \in ToSet(calls'[u]) : Wakes(call, t, l)'
    BY <2>1 DEF Wakes
  <2>. QED BY <2>2 DEF Woken
<1>. QED BY <1>1, <1>2

-----------------------------------------------------------------------------
(* The call at the front is replaced by what is left of it.                 *)
LEMMA GoingOn ==
  ASSUME NEW Nodes, WaiterTypes(Nodes), NEW t \in Threads, ~Free(t),
         NEW goal, GoOn(t, goal), goal.todo = <<>> \/ goal \in WakeCalls(Nodes)
  PROVE  /\ ToSet(calls'[t]) = (IF goal.todo = <<>> THEN {} ELSE {goal}) \cup ToSet(Tail(calls[t]))
         /\ goal.todo # <<>> => calls'[t] # <<>> /\ Head(calls'[t]) = goal
         /\ \A u \in Threads \ {t} : calls'[u] = calls[u]
<1>. DEFINE S == WakeCalls(Nodes)
<1>1. calls \in [Threads -> Seq(S)] /\ (goal.todo = <<>> \/ goal \in S)
  BY DEF WaiterTypes
<1>. HIDE DEF S
<1>. QED BY <1>1, GoOnEffect

(* A wake call makes no other than itself.                                  *)
LEMMA NoNewCalls ==
  ASSUME NEW Nodes, NodesOK(Nodes), WaiterTypes(Nodes), NEW t \in Threads, WakeStep(t)
  PROVE  \A u \in Threads : \A call \in ToSet(calls'[u]) :
           call \in ToSet(calls[u]) \/ call.op \in {"unpark", "visit", "elect"}
<1>0. /\ ~Free(t) /\ ToSet(calls[t]) = {Head(calls[t])} \cup ToSet(Tail(calls[t]))
      /\ \A u \in Threads \ {t} : calls'[u] = calls[u]
  BY WakeStepCall, WakeStepTypes
<1>1. ASSUME NEW goal, GoOn(t, goal), goal.todo = <<>> \/ goal \in WakeCalls(Nodes),
             goal.op \in {"unpark", "visit", "elect"}
      PROVE  \A call \in ToSet(calls'[t]) :
               call \in ToSet(calls[t]) \/ call.op \in {"unpark", "visit", "elect"}
  BY <1>0, <1>1, GoingOn
<1>2. CASE SnapshotOne(t) \/ SnapshotAll(t)
  BY <1>0, <1>1, <1>2, SnapshotEffect DEF Unpark
<1>3. CASE UnparkNext(t)
  BY <1>0, <1>1, <1>3, UnparkEffect DEF Unpark
<1>4. CASE SwapStack(t)
  BY <1>0, <1>1, <1>4, SwapEffect DEF Visit
<1>5. CASE VisitNode(t)
  <2>. DEFINE call == Head(calls[t])
  <2>1. CASE Head(call.todo) \notin aborted /\ call.mode \in {"select_one", "select_all"}
    <3>1. call \in Visits(Nodes)
      BY <1>5, VisitEffect
    <3>2. [call EXCEPT !.op = "elect"].op = "elect"
      BY <3>1 DEF Visits
    <3>. QED BY <3>2, <2>1, <1>0, <1>5, ElectionBegins
  <2>2. CASE ~(Head(call.todo) \notin aborted /\ call.mode \in {"select_one", "select_all"})
    <3>1. GoOn(t, Visit(call.mode, Tail(call.todo)))
      BY <2>2, <1>5 DEF VisitNode
    <3>2. call.mode \in {"select_one", "select_all", "drain", "rest"}
      BY <1>5, VisitEffect DEF Visits
    <3>3. /\ Visit(call.mode, Tail(call.todo)).todo = <<>>
             \/ Visit(call.mode, Tail(call.todo)) \in WakeCalls(Nodes)
          /\ Visit(call.mode, Tail(call.todo)).op = "visit"
      BY <3>2, <1>5, VisitEffect DEF Visit
    <3>. QED BY <3>1, <3>3, <1>0, <1>1
  <2>. QED BY <2>1, <2>2
<1>6. CASE ElectNode(t)
  <2>. DEFINE call == Head(calls[t])
  <2>1. PICK mode \in {"select_one", "select_all", "drain", "rest"} :
          GoOn(t, Visit(mode, Tail(call.todo)))
    BY <1>6, VisitEffect DEF ElectNode, Visits
  <2>2. /\ Visit(mode, Tail(call.todo)).todo = <<>>
           \/ Visit(mode, Tail(call.todo)) \in WakeCalls(Nodes)
        /\ Visit(mode, Tail(call.todo)).op = "visit"
    BY <1>6, VisitEffect DEF Visit
  <2>. QED BY <2>1, <2>2, <1>0, <1>1
<1>. QED BY <1>2, <1>3, <1>4, <1>5, <1>6 DEF WakeStep

-----------------------------------------------------------------------------
(* Node n of a select call is within reach of the wakers of stack s: not    *)
(* aborted, and on the stack, before a thread that wakes everybody, or no   *)
(* longer needed because its thread has a permit.                           *)
Visited(n) ==
  \E u \in Threads : \E call \in ToSet(calls[u]) :
    call.op \in {"visit", "elect"} /\ call.mode = "select_all" /\ n \in ToSet(call.todo)

Live(n, s) ==
  n \notin aborted /\ (permit[Thread(n)] \/ n \in ToSet(stack[s]) \/ Visited(n))

(* And its wake-up is on the way.                                           *)
Roused(n, s) ==
  \/ permit[Thread(n)] \/ Visited(n)
  \/ \E u \in Threads : \E call \in ToSet(calls[u]) : call.op = "select_all" /\ call.on = s

(* Whoever takes stack s wakes everybody on it.                             *)
AllOrNone(s) ==
  \A u \in Threads : \A call \in ToSet(calls[u]) : call.op \in {"select_one", "drain"} => call.on # s

LEMMA VisitedStays ==
  ASSUME NEW Nodes, NodesOK(Nodes), WaiterTypes(Nodes), NEW u \in Threads, WakeStep(u),
         NEW n \in Nodes, n \notin aborted, Visited(n)
  PROVE  permit'[Thread(n)] \/ Visited(n)'
<1>. DEFINE call == Head(calls[u])
<1>0. /\ ~Free(u) /\ ToSet(calls[u]) = {call} \cup ToSet(Tail(calls[u]))
      /\ \A v \in Threads \ {u} : calls'[v] = calls[v]
      /\ ToSet(Tail(calls[u])) \subseteq ToSet(calls'[u])
  BY WakeStepCall, WakeStepTypes
<1>. DEFINE Holds(c) == c.op \in {"visit", "elect"} /\ c.mode = "select_all" /\ n \in ToSet(c.todo)
<1>1. PICK v \in Threads : \E c \in ToSet(calls[v]) : Holds(c)
  BY DEF Visited
<1>2. PICK c \in ToSet(calls[v]) : Holds(c)
  BY <1>1
<1>3. CASE c \in ToSet(calls'[v])
  BY <1>2, <1>3 DEF Visited
<1>4. CASE v = u /\ c = call
  <2>1. VisitNode(u) \/ ElectNode(u)
    BY <1>2, <1>4 DEF WakeStep, SnapshotOne, SnapshotAll, UnparkNext, SwapStack, Calling
  <2>2. /\ call \in Visits(Nodes)
        /\ ToSet(call.todo) = {Head(call.todo)} \cup ToSet(Tail(call.todo))
        /\ \/ Visit("select_all", Tail(call.todo)).todo = <<>>
           \/ Visit("select_all", Tail(call.todo)) \in WakeCalls(Nodes)
    BY <2>1, VisitEffect
  <2>3. ASSUME GoOn(u, Visit("select_all", Tail(call.todo))), n \in ToSet(Tail(call.todo))
        PROVE  Visited(n)'
    <3>. DEFINE goal == Visit("select_all", Tail(call.todo))
    <3>1. goal.todo # <<>> /\ Holds(goal)
      BY <2>3 DEF Visit, ToSet
    <3>. HIDE DEF goal
    <3>2. goal \in ToSet(calls'[u])
      BY <3>1, <2>2, <2>3, <1>0, GoingOn DEF goal
    <3>. QED BY <3>1, <3>2 DEF Visited
  <2>4. CASE VisitNode(u)
    <3>1. CASE Head(call.todo) \notin aborted
      <4>. DEFINE elect == [call EXCEPT !.op = "elect"]
      <4>1. elect.op = "elect" /\ elect.mode = "select_all" /\ n \in ToSet(elect.todo)
        BY <2>2, <1>2, <1>4 DEF Visits
      <4>. HIDE DEF elect
      <4>2. elect \in ToSet(calls'[u])
        BY <3>1, <2>4, <1>2, <1>4, ElectionBegins DEF elect
      <4>. QED BY <4>1, <4>2 DEF Visited
    <3>2. CASE Head(call.todo) \in aborted
      <4>1. GoOn(u, Visit("select_all", Tail(call.todo)))
        BY <3>2, <2>4, <1>2, <1>4 DEF VisitNode
      <4>. QED BY <4>1, <3>2, <2>2, <2>3, <1>2, <1>4
    <3>. QED BY <3>1, <3>2
  <2>5. CASE ElectNode(u)
    <3>1. CASE Head(call.todo) = n
      <4>1. Thread(n) \in Threads
        BY DEF NodesOK, Thread
      <4>. QED BY <4>1, <3>1, <2>5, <1>2, <1>4 DEF ElectNode, WaiterTypes
    <3>2. CASE Head(call.todo) # n
      <4>1. GoOn(u, Visit("select_all", Tail(call.todo)))
        BY <2>5, <1>2, <1>4 DEF ElectNode
      <4>. QED BY <4>1, <3>2, <2>2, <2>3, <1>2, <1>4
    <3>. QED BY <3>1, <3>2
  <2>. QED BY <2>1, <2>4, <2>5
<1>. QED BY <1>0, <1>2, <1>3, <1>4

LEMMA StackTaken ==
  ASSUME NEW Nodes, NodesOK(Nodes), WaiterTypes(Nodes), NEW u \in Threads, SwapStack(u),
         NEW s \in Stacks, Head(calls[u]).op = "select_all", Head(calls[u]).on = s,
         NEW n, n \in ToSet(stack[s])
  PROVE  Visited(n)'
<1>. DEFINE goal == Visit("select_all", stack[s])
<1>1. ~Free(u) /\ GoOn(u, goal) /\ (goal.todo = <<>> \/ goal \in WakeCalls(Nodes))
  BY WakeStepCall, SwapEffect DEF WakeStep
<1>2. /\ goal.todo # <<>> /\ goal.op \in {"visit", "elect"} /\ goal.mode = "select_all"
      /\ n \in ToSet(goal.todo)
  BY DEF Visit, ToSet
<1>. HIDE DEF goal
<1>3. goal \in ToSet(calls'[u])
  BY <1>1, <1>2, GoingOn
<1>. QED BY <1>2, <1>3 DEF Visited

LEMMA WakeStepRouses ==
  ASSUME NEW Nodes, NodesOK(Nodes), WaiterTypes(Nodes), NEW u \in Threads, WakeStep(u),
         NEW s \in Stacks, AllOrNone(s), NEW n \in Nodes, Live(n, s)
  PROVE  Live(n, s)' /\ (Roused(n, s) => Roused(n, s)')
<1>. DEFINE call == Head(calls[u])
<1>0. /\ ToSet(calls[u]) = {call} \cup ToSet(Tail(calls[u])) /\ call \in ToSet(calls[u])
      /\ \A v \in Threads \ {u} : calls'[v] = calls[v]
      /\ ToSet(Tail(calls[u])) \subseteq ToSet(calls'[u])
  BY WakeStepCall, WakeStepTypes
<1>1. n \notin aborted'
  BY DEF Live, WakeStep, SnapshotOne, SnapshotAll, UnparkNext, SwapStack, VisitNode, ElectNode
<1>2. Thread(n) \in Threads
  BY DEF NodesOK, Thread
<1>3. CASE permit[Thread(n)] \/ Visited(n)
  <2>1. permit[Thread(n)] => permit'[Thread(n)]
    BY <1>2 DEF WakeStep, SnapshotOne, SnapshotAll, UnparkNext, SwapStack, VisitNode, ElectNode,
                WaiterTypes
  <2>2. permit'[Thread(n)] \/ Visited(n)'
    BY <1>3, <2>1, VisitedStays DEF Live
  <2>3. Thread(n)' = Thread(n)
    BY DEF Thread
  <2>. QED BY <1>1, <2>2, <2>3 DEF Live, Roused
<1>4. CASE n \in ToSet(stack[s]) /\ SwapStack(u) /\ call.on = s
  <2>1. call.op = "select_all"
    BY <1>0, <1>4 DEF SwapStack, Calling, AllOrNone
  <2>2. Visited(n)'
    BY <1>4, <2>1, StackTaken
  <2>. QED BY <1>1, <2>2 DEF Live, Roused
<1>5. CASE n \in ToSet(stack[s]) /\ ~(SwapStack(u) /\ call.on = s)
  <2>1. stack'[s] = stack[s]
    BY <1>5 DEF WakeStep, SnapshotOne, SnapshotAll, UnparkNext, SwapStack, VisitNode, ElectNode,
                WaiterTypes
  <2>2. Live(n, s)'
    BY <1>1, <1>5, <2>1 DEF Live
  <2>3. ASSUME NEW v \in Threads, NEW c \in ToSet(calls[v]), c.op = "select_all", c.on = s
        PROVE  Roused(n, s)'
    <3>1. CASE c \in ToSet(calls'[v])
      BY <2>3, <3>1 DEF Roused
    <3>2. CASE v = u /\ c = call
      BY <1>5, <2>3, <3>2 DEF WakeStep, SnapshotOne, SnapshotAll, UnparkNext, SwapStack,
                              VisitNode, ElectNode, Calling
    <3>. QED BY <1>0, <3>1, <3>2
  <2>. QED BY <1>3, <2>2, <2>3 DEF Roused
<1>. QED BY <1>3, <1>4, <1>5 DEF Live

LEMMA StaysRoused ==
  ASSUME NEW n, NEW s, permit[Thread(n)] => permit'[Thread(n)], n \notin aborted',
         ToSet(stack[s]) \subseteq ToSet(stack'[s]),
         \A u \in Threads : ToSet(calls[u]) \subseteq ToSet(calls'[u])
  PROVE  (Live(n, s) => Live(n, s)') /\ (Roused(n, s) => Roused(n, s)')
<1>1. Visited(n) => Visited(n)'
  <2>. SUFFICES ASSUME Visited(n) PROVE Visited(n)'
    OBVIOUS
  <2>1. PICK u \in Threads : \E call \in ToSet(calls[u]) :
          call.op \in {"visit", "elect"} /\ call.mode = "select_all" /\ n \in ToSet(call.todo)
    BY DEF Visited
  <2>. QED BY <2>1 DEF Visited
<1>2. Thread(n)' = Thread(n)
  BY DEF Thread
<1>3. (\E u \in Threads : \E call \in ToSet(calls[u]) : call.op = "select_all" /\ call.on = s)
      => (\E u \in Threads : \E call \in ToSet(calls'[u]) : call.op = "select_all" /\ call.on = s)
  OBVIOUS
<1>. QED BY <1>1, <1>2, <1>3 DEF Live, Roused

-----------------------------------------------------------------------------
(* A node that is marked aborted has not been freed.                        *)
AbortedExist == \A n \in aborted : Allocated(n)

LEMMA AllocatedIff ==
  ASSUME NEW n
  PROVE  Allocated(n) <=> \/ \E s \in Stacks : n \in ToSet(stack[s])
                          \/ \E u \in Threads : /\ Calling(u, {"visit", "elect"})
                                                /\ n \in ToSet(Head(calls[u]).todo)
  BY DEF Allocated, Chains, Drainers

LEMMA WakeStepAborted ==
  ASSUME NEW Nodes, NodesOK(Nodes), WaiterTypes(Nodes), NEW u \in Threads, WakeStep(u),
         AbortedExist
  PROVE  AbortedExist'
<1>. DEFINE call == Head(calls[u])
            Held(m, v) == Calling(v, {"visit", "elect"}) /\ m \in ToSet(Head(calls[v]).todo)
            Kept(m) == \/ \E s \in Stacks : m \in ToSet(stack'[s])
                       \/ \E v \in Threads : /\ Calling(v, {"visit", "elect"})'
                                             /\ m \in ToSet(Head(calls'[v]).todo)
<1>0. ~Free(u) /\ \A v \in Threads \ {u} : calls'[v] = calls[v]
  BY WakeStepCall, WakeStepTypes
<1>1. SUFFICES ASSUME NEW m \in aborted' PROVE Kept(m)
  BY DEF AbortedExist, Allocated, Chains, Drainers
<1>2. m \in aborted
  BY DEF WakeStep, SnapshotOne, SnapshotAll, UnparkNext, SwapStack, VisitNode, ElectNode
<1>3. (\E s \in Stacks : m \in ToSet(stack[s])) \/ (\E v \in Threads : Held(m, v))
  BY <1>2, AllocatedIff DEF AbortedExist
<1>4. ASSUME NEW v \in Threads \ {u}, Held(m, v) PROVE Kept(m)
  BY <1>0, <1>4 DEF Calling
<1>5. ASSUME NEW mode \in {"select_one", "select_all", "drain", "rest"}, NEW todo,
             GoOn(u, Visit(mode, todo)), m \in ToSet(todo),
             Visit(mode, todo).todo = <<>> \/ Visit(mode, todo) \in WakeCalls(Nodes)
      PROVE  Kept(m)
  <2>. DEFINE goal == Visit(mode, todo)
  <2>1. goal.op = "visit" /\ goal.todo = todo /\ todo # <<>>
    BY <1>5 DEF Visit, ToSet
  <2>. HIDE DEF goal
  <2>2. calls'[u] # <<>> /\ Head(calls'[u]) = goal
    BY <2>1, <1>0, <1>5, GoingOn DEF goal
  <2>. QED BY <2>1, <2>2, <1>5 DEF Calling
<1>6. CASE SwapStack(u)
  <2>0. call \in Swaps /\ GoOn(u, Visit(call.op, stack[call.on]))
        /\ \/ Visit(call.op, stack[call.on]).todo = <<>>
           \/ Visit(call.op, stack[call.on]) \in WakeCalls(Nodes)
    BY <1>6, SwapEffect
  <2>1. ASSUME NEW s \in Stacks, m \in ToSet(stack[s]) PROVE Kept(m)
    <3>1. CASE call.on = s
      BY <1>5, <2>0, <2>1, <3>1 DEF Swaps
    <3>2. CASE call.on # s
      <4>1. stack'[s] = stack[s]
        BY <1>6, <3>2 DEF SwapStack, WaiterTypes
      <4>. QED BY <2>1, <4>1
    <3>. QED BY <3>1, <3>2
  <2>2. ~Held(m, u)
    BY <1>6 DEF SwapStack, Calling
  <2>. QED BY <1>3, <1>4, <2>1, <2>2
<1>7. CASE VisitNode(u) \/ ElectNode(u)
  <2>0. /\ call \in Visits(Nodes)
        /\ ToSet(call.todo) = {Head(call.todo)} \cup ToSet(Tail(call.todo))
        /\ \A mode \in {"select_one", "select_all", "drain", "rest"} :
              \/ Visit(mode, Tail(call.todo)).todo = <<>>
              \/ Visit(mode, Tail(call.todo)) \in WakeCalls(Nodes)
    BY <1>7, VisitEffect
  <2>1. ASSUME NEW s \in Stacks, m \in ToSet(stack[s]) PROVE Kept(m)
    BY <1>7, <2>1 DEF VisitNode, ElectNode
  <2>2. ASSUME Held(m, u) PROVE Kept(m)
    <3>1. CASE VisitNode(u) /\ Head(call.todo) \notin aborted /\ call.mode \in {"select_one", "select_all"}
      <4>. DEFINE elect == [call EXCEPT !.op = "elect"]
      <4>1. elect.op = "elect" /\ m \in ToSet(elect.todo)
        BY <2>0, <2>2 DEF Visits
      <4>. HIDE DEF elect
      <4>2. calls'[u] # <<>> /\ Head(calls'[u]) = elect
        BY <3>1, ElectionBegins DEF elect
      <4>. QED BY <4>1, <4>2 DEF Calling
    <3>2. CASE ~(VisitNode(u) /\ Head(call.todo) \notin aborted /\ call.mode \in {"select_one", "select_all"})
      <4>1. PICK mode \in {"select_one", "select_all", "drain", "rest"} :
              GoOn(u, Visit(mode, Tail(call.todo))) /\ aborted' = aborted \ {Head(call.todo)}
        BY <1>7, <2>0, <3>2 DEF VisitNode, ElectNode, Visits
      <4>. QED BY <4>1, <2>0, <2>2, <1>5
    <3>. QED BY <3>1, <3>2
  <2>. QED BY <1>3, <1>4, <2>1, <2>2
<1>8. CASE SnapshotOne(u) \/ SnapshotAll(u) \/ UnparkNext(u)
  <2>1. ~Held(m, u) /\ UNCHANGED stack
    BY <1>8 DEF SnapshotOne, SnapshotAll, UnparkNext, Calling
  <2>. QED BY <1>3, <1>4, <2>1
<1>. QED BY <1>6, <1>7, <1>8 DEF WakeStep
-----------------------------------------------------------------------------
(* The nodes a thread has taken from a stack and not yet freed.             *)
Hand(u) == IF Calling(u, {"visit", "elect"}) THEN Head(calls[u]).todo ELSE <<>>

(* Only the call at the front has been begun.                               *)
Ordered ==
  \A u \in Threads : calls[u] # <<>> =>
    \A call \in ToSet(Tail(calls[u])) : call.op \notin {"visit", "elect"}

LEMMA GoOnHand ==
  ASSUME NEW Nodes, WaiterTypes(Nodes), Ordered, NEW t \in Threads, ~Free(t),
         NEW goal, goal.op \in {"unpark", "visit"}, GoOn(t, goal),
         goal.todo = <<>> \/ goal \in WakeCalls(Nodes)
  PROVE  Ordered' /\ Hand(t)' = IF goal.op = "visit" THEN goal.todo ELSE <<>>
<1>. DEFINE S == WakeCalls(Nodes)
            tl == Tail(calls[t])
<1>1. calls \in [Threads -> Seq(S)] /\ calls[t] \in Seq(S) /\ calls[t] # <<>>
  BY DEF WaiterTypes, Free
<1>2. goal.todo = <<>> \/ goal \in S
  OBVIOUS
<1>. HIDE DEF S
<1>3. tl \in Seq(S) /\ \A call \in ToSet(tl) : call.op \notin {"visit", "elect"}
  BY <1>1, HeadTailProperties DEF Ordered
<1>4. calls' = [calls EXCEPT ![t] = (IF goal.todo = <<>> THEN <<>> ELSE <<goal>>) \o tl]
  BY DEF GoOn
<1>. HIDE DEF tl
<1>5. CASE goal.todo = <<>>
  <2>1. calls' = [calls EXCEPT ![t] = tl]
    BY <1>3, <1>4, <1>5
  <2>2. ASSUME tl # <<>>
        PROVE  /\ Head(tl) \in ToSet(tl)
               /\ \A call \in ToSet(Tail(tl)) : call.op \notin {"visit", "elect"}
    <3>1. ToSet(tl) = {Head(tl)} \cup ToSet(Tail(tl))
      BY <1>3, <2>2, ToSetTail
    <3>. QED BY <3>1, <1>3
  <2>3. calls'[t] = tl /\ \A u \in Threads \ {t} : calls'[u] = calls[u]
    BY <2>1, <1>1
  <2>4. Ordered'
    BY <2>2, <2>3 DEF Ordered
  <2>5. Hand(t)' = <<>>
    BY <2>2, <2>3, <1>3 DEF Hand, Calling
  <2>. QED BY <2>4, <2>5, <1>5
<1>6. CASE goal.todo # <<>>
  <2>. DEFINE r == <<goal>> \o tl
  <2>1. goal \in S
    BY <1>2, <1>6
  <2>2. r # <<>> /\ Head(r) = goal /\ Tail(r) = tl
    <3>1. <<goal>> \in Seq(S) /\ r \in Seq(S) /\ Len(r) = Len(tl) + 1 /\ r[1] = goal
          /\ \A i \in 1 .. Len(tl) : r[i + 1] = tl[i]
      BY <2>1, <1>3
    <3>2. Len(tl) \in Nat
      BY <1>3
    <3>. HIDE DEF r
    <3>3. r # <<>> /\ Head(r) = goal
      BY <3>1, <3>2
    <3>4. /\ Tail(r) \in Seq(S) /\ Len(Tail(r)) = Len(tl)
          /\ \A i \in 1 .. Len(tl) : Tail(r)[i] = tl[i]
      BY <3>1, <3>2, <3>3, HeadTailProperties
    <3>. QED BY <3>3, <3>4, <1>3, SeqEqual
  <2>3. calls'[t] = r /\ \A u \in Threads \ {t} : calls'[u] = calls[u]
    BY <1>4, <1>6, <1>1
  <2>. HIDE DEF r
  <2>4. Ordered'
    BY <2>2, <2>3, <1>3 DEF Ordered
  <2>5. Hand(t)' = IF goal.op = "visit" THEN goal.todo ELSE <<>>
    BY <2>2, <2>3 DEF Hand, Calling
  <2>. QED BY <2>4, <2>5
<1>. QED BY <1>5, <1>6

(* What a step of a wake call does to the nodes: nothing, take those of a   *)
(* stack, or free the first of those in hand.                               *)
Takes(u, s) ==
  /\ Hand(u) = <<>> /\ Hand(u)' = stack[s]
  /\ stack' = [stack EXCEPT ![s] = <<>>] /\ UNCHANGED aborted
Frees(u) ==
  /\ Hand(u) # <<>> /\ Hand(u)' = Tail(Hand(u))
  /\ aborted' = aborted \ {Head(Hand(u))} /\ UNCHANGED stack

LEMMA WakeMoves ==
  ASSUME NEW Nodes, NodesOK(Nodes), WaiterTypes(Nodes), Ordered,
         NEW u \in Threads, WakeStep(u)
  PROVE  /\ Ordered' /\ \A v \in Threads \ {u} : Hand(v)' = Hand(v)
         /\ \/ UNCHANGED <<stack, aborted>> /\ Hand(u)' = Hand(u)
            \/ \E s \in Stacks : Takes(u, s)
            \/ Frees(u)
<1>. DEFINE call == Head(calls[u])
<1>1. ~Free(u) /\ \A v \in Threads \ {u} : calls'[v] = calls[v]
  BY WakeStepCall, WakeStepTypes
<1>2. \A v \in Threads \ {u} : Hand(v)' = Hand(v)
  BY <1>1 DEF Hand, Calling
<1>3. CASE SnapshotOne(u) \/ SnapshotAll(u)
  <2>1. PICK todo \in Seq(Threads) :
          /\ GoOn(u, Unpark(todo))
          /\ Unpark(todo).todo = <<>> \/ Unpark(todo) \in WakeCalls(Nodes)
    BY <1>3, SnapshotEffect
  <2>2. Unpark(todo).op = "unpark"
    BY DEF Unpark
  <2>3. Ordered' /\ Hand(u)' = <<>>
    BY <2>1, <2>2, <1>1, GoOnHand
  <2>4. Hand(u) = <<>> /\ UNCHANGED <<stack, aborted>>
    BY <1>3 DEF SnapshotOne, SnapshotAll, Hand, Calling
  <2>. QED BY <2>3, <2>4, <1>2
<1>4. CASE UnparkNext(u)
  <2>1. /\ GoOn(u, Unpark(Tail(call.todo)))
        /\ \/ Unpark(Tail(call.todo)).todo = <<>>
           \/ Unpark(Tail(call.todo)) \in WakeCalls(Nodes)
    BY <1>4, UnparkEffect
  <2>2. Unpark(Tail(call.todo)).op = "unpark"
    BY DEF Unpark
  <2>3. Ordered' /\ Hand(u)' = <<>>
    BY <2>1, <2>2, <1>1, GoOnHand
  <2>4. Hand(u) = <<>> /\ UNCHANGED <<stack, aborted>>
    BY <1>4 DEF UnparkNext, Hand, Calling
  <2>. QED BY <2>3, <2>4, <1>2
<1>5. CASE SwapStack(u)
  <2>. DEFINE goal == Visit(call.op, stack[call.on])
  <2>1. /\ call \in Swaps /\ GoOn(u, goal)
        /\ goal.todo = <<>> \/ goal \in WakeCalls(Nodes)
    BY <1>5, SwapEffect
  <2>2. goal.op = "visit" /\ goal.todo = stack[call.on] /\ call.on \in Stacks
    BY <2>1 DEF Visit, Swaps
  <2>. HIDE DEF goal
  <2>3. Ordered' /\ Hand(u)' = stack[call.on]
    BY <2>1, <2>2, <1>1, GoOnHand
  <2>4. Takes(u, call.on)
    BY <2>3, <1>5 DEF Takes, SwapStack, Hand, Calling
  <2>. QED BY <2>2, <2>3, <2>4, <1>2
<1>6. CASE VisitNode(u) \/ ElectNode(u)
  <2>0. /\ call \in Visits(Nodes) /\ Hand(u) = call.todo /\ call.todo # <<>>
        /\ \A mode \in {"select_one", "select_all", "drain", "rest"} :
              \/ Visit(mode, Tail(call.todo)).todo = <<>>
              \/ Visit(mode, Tail(call.todo)) \in WakeCalls(Nodes)
    BY <1>6, VisitEffect DEF Hand, VisitNode, ElectNode, Calling, Visits
  <2>1. CASE VisitNode(u) /\ Head(call.todo) \notin aborted /\ call.mode \in {"select_one", "select_all"}
    <3>. DEFINE elect == [call EXCEPT !.op = "elect"]
    <3>1. elect.op = "elect" /\ elect.todo = call.todo
      BY <2>0 DEF Visits
    <3>. DEFINE s == calls[u]
    <3>2. /\ calls' \in [Threads -> Seq(WakeCalls(Nodes))]
          /\ calls'[u] # <<>> /\ Head(calls'[u]) = elect /\ UNCHANGED aborted
      BY <2>1, ElectionBegins
    <3>3. Tail(calls'[u]) = Tail(calls[u])
      <4>1. s \in Seq(WakeCalls(Nodes)) /\ s # <<>> /\ calls'[u] = [s EXCEPT ![1].op = "elect"]
            /\ calls'[u] \in Seq(WakeCalls(Nodes))
        BY <2>1, <3>2 DEF VisitNode, Calling, WaiterTypes
      <4>. DEFINE r == calls'[u]
      <4>2. Len(r) = Len(s) /\ \A i \in 2 .. Len(s) : r[i] = s[i]
        BY <4>1
      <4>3. r \in Seq(WakeCalls(Nodes)) /\ r # <<>>
        BY <3>2, <4>1
      <4>. HIDE DEF r, s
      <4>4. /\ Tail(s) \in Seq(WakeCalls(Nodes)) /\ Len(Tail(s)) = Len(s) - 1
            /\ \A i \in 1 .. Len(Tail(s)) : Tail(s)[i] = s[i + 1]
        BY <4>1, HeadTailProperties
      <4>5. /\ Tail(r) \in Seq(WakeCalls(Nodes)) /\ Len(Tail(r)) = Len(r) - 1
            /\ \A i \in 1 .. Len(Tail(r)) : Tail(r)[i] = r[i + 1]
        BY <4>3, HeadTailProperties
      <4>6. Len(Tail(r)) = Len(Tail(s)) /\ Len(s) \in Nat
        BY <4>1, <4>2, <4>4, <4>5
      <4>7. ASSUME NEW i \in 1 .. Len(Tail(s)) PROVE Tail(r)[i] = Tail(s)[i]
        <5>1. i + 1 \in 2 .. Len(s) /\ i \in 1 .. Len(Tail(r))
          BY <4>4, <4>6
        <5>. QED BY <5>1, <4>2, <4>4, <4>5
      <4>. QED BY <4>4, <4>5, <4>6, <4>7, SeqEqual DEF r, s
    <3>. HIDE DEF elect
    <3>4. Ordered'
      BY <3>2, <3>3, <1>1 DEF Ordered, Free
    <3>5. Hand(u)' = Hand(u)
      BY <3>1, <3>2, <2>0 DEF Hand, Calling
    <3>. QED BY <3>2, <3>4, <3>5, <2>1, <1>2 DEF VisitNode
  <2>2. CASE ~(VisitNode(u) /\ Head(call.todo) \notin aborted /\ call.mode \in {"select_one", "select_all"})
    <3>1. PICK mode \in {"select_one", "select_all", "drain", "rest"} :
            /\ GoOn(u, Visit(mode, Tail(call.todo)))
            /\ aborted' = aborted \ {Head(call.todo)} /\ UNCHANGED stack
      BY <1>6, <2>0, <2>2 DEF VisitNode, ElectNode, Visits
    <3>. DEFINE goal == Visit(mode, Tail(call.todo))
                rest == Tail(call.todo)
    <3>2. /\ goal.op = "visit" /\ goal.todo = rest
          /\ goal.todo = <<>> \/ goal \in WakeCalls(Nodes)
          /\ GoOn(u, goal)
      BY <2>0, <3>1 DEF Visit
    <3>. HIDE DEF goal, rest
    <3>3. Ordered' /\ Hand(u)' = rest
      BY <3>2, <1>1, GoOnHand
    <3>4. Frees(u)
      BY <3>1, <3>3, <2>0 DEF Frees, rest
    <3>. QED BY <3>3, <3>4, <1>2
  <2>. QED BY <2>1, <2>2
<1>. QED BY <1>3, <1>4, <1>5, <1>6 DEF WakeStep

(* A node is in one place: on one stack, or in the hands of one thread.     *)
Separate ==
  /\ Ordered
  /\ \A s \in Stacks : Once(stack[s])
  /\ \A u \in Threads : Once(Hand(u))
  /\ \A s \in Stacks, r \in Stacks : s # r => ToSet(stack[s]) \cap ToSet(stack[r]) = {}
  /\ \A u \in Threads, v \in Threads : u # v => ToSet(Hand(u)) \cap ToSet(Hand(v)) = {}
  /\ \A u \in Threads, s \in Stacks : ToSet(Hand(u)) \cap ToSet(stack[s]) = {}

LEMMA HandTyped ==
  ASSUME NEW Nodes, WaiterTypes(Nodes), NEW u \in Threads
  PROVE  Hand(u) \in Seq(Nodes)
<1>1. CASE Calling(u, {"visit", "elect"})
  <2>1. calls[u] \in Seq(WakeCalls(Nodes)) /\ calls[u] # <<>>
    BY <1>1 DEF Calling, WaiterTypes
  <2>2. Head(calls[u]) \in WakeCalls(Nodes)
    BY <2>1, HeadTailProperties
  <2>. QED BY <1>1, <2>2 DEF Calling, Hand, WakeCalls, Snapshots, Swaps, Unparks, Visits
<1>. QED BY <1>1 DEF Hand

LEMMA AllocatedHand ==
  ASSUME NEW n
  PROVE  /\ Allocated(n) <=> \/ \E s \in Stacks : n \in ToSet(stack[s])
                             \/ \E u \in Threads : n \in ToSet(Hand(u))
         /\ Allocated(n)' <=> \/ \E s \in Stacks : n \in ToSet(stack'[s])
                              \/ \E u \in Threads : n \in ToSet(Hand(u)')
<1>1. ToSet(<<>>) = {}
  BY DEF ToSet
<1>. QED BY <1>1 DEF Allocated, Chains, Drainers, Hand

LEMMA OnceTail ==
  ASSUME NEW S, NEW s \in Seq(S), s # <<>>, Once(s)
  PROVE  Once(Tail(s)) /\ Head(s) \notin ToSet(Tail(s))
<1>1. /\ Len(s) \in Nat \ {0} /\ DOMAIN s = 1 .. Len(s) /\ Head(s) = s[1]
      /\ DOMAIN Tail(s) = 1 .. Len(s) - 1
      /\ \A i \in 1 .. Len(s) - 1 : Tail(s)[i] = s[i + 1]
  BY HeadTailProperties
<1>2. ASSUME NEW i \in DOMAIN Tail(s) PROVE i + 1 \in DOMAIN s /\ i + 1 # 1 /\ Tail(s)[i] = s[i + 1]
  BY <1>1
<1>3. Head(s) \notin ToSet(Tail(s))
  BY <1>1, <1>2 DEF ToSet, Once
<1>4. ASSUME NEW i \in DOMAIN Tail(s), NEW j \in DOMAIN Tail(s), Tail(s)[i] = Tail(s)[j]
      PROVE  i = j
  <2>1. i + 1 = j + 1
    BY <1>2, <1>4 DEF Once
  <2>. QED BY <2>1, <1>1
<1>. QED BY <1>3, <1>4 DEF Once

(* A step of a wake call keeps the nodes apart; of those it does not free   *)
(* none gets lost, and the mark of those that are left does not change.     *)
LEMMA WakeSeparate ==
  ASSUME NEW Nodes, NodesOK(Nodes), WaiterTypes(Nodes), Separate,
         NEW u \in Threads, WakeStep(u)
  PROVE  /\ Separate'
         /\ \A n \in Nodes : Allocated(n)' => Allocated(n) /\ (n \in aborted <=> n \in aborted')
         /\ \A s \in Stacks : stack'[s] \in {stack[s], <<>>}
<1>0. Ordered' /\ \A v \in Threads \ {u} : Hand(v)' = Hand(v)
  BY WakeMoves DEF Separate
<1>00. ToSet(<<>>) = {} /\ Once(<<>>)
  BY DEF ToSet, Once
<1>1. CASE UNCHANGED <<stack, aborted>> /\ Hand(u)' = Hand(u)
  <2>1. \A v \in Threads : Hand(v)' = Hand(v)
    BY <1>0, <1>1
  <2>2. \A n \in Nodes : Allocated(n)' <=> Allocated(n)
    BY <2>1, <1>1, AllocatedHand
  <2>. QED BY <2>1, <2>2, <1>0, <1>1 DEF Separate
<1>2. ASSUME NEW s \in Stacks, Takes(u, s)
      PROVE  /\ Separate'
             /\ \A n \in Nodes : Allocated(n)' => Allocated(n) /\ (n \in aborted <=> n \in aborted')
             /\ \A r \in Stacks : stack'[r] \in {stack[r], <<>>}
  <2>1. /\ stack'[s] = <<>> /\ \A r \in Stacks : r # s => stack'[r] = stack[r]
        /\ Hand(u)' = stack[s] /\ aborted' = aborted
    BY <1>2 DEF Takes, WaiterTypes
  <2>2. \A n \in Nodes : Allocated(n)' => Allocated(n)
    BY <2>1, <1>0, <1>00, AllocatedHand
  <2>3. Separate'
    <3>1. \A r \in Stacks : Once(stack'[r])
      BY <2>1, <1>00 DEF Separate
    <3>2. \A v \in Threads : Once(Hand(v)')
      BY <2>1, <1>0 DEF Separate
    <3>3. \A r \in Stacks, x \in Stacks : r # x => ToSet(stack'[r]) \cap ToSet(stack'[x]) = {}
      BY <2>1, <1>00 DEF Separate
    <3>4. \A v \in Threads, x \in Threads : v # x => ToSet(Hand(v)') \cap ToSet(Hand(x)') = {}
      BY <2>1, <1>0 DEF Separate
    <3>5. \A v \in Threads, r \in Stacks : ToSet(Hand(v)') \cap ToSet(stack'[r]) = {}
      BY <2>1, <1>0, <1>00 DEF Separate
    <3>. QED BY <3>1, <3>2, <3>3, <3>4, <3>5, <1>0 DEF Separate
  <2>. QED BY <2>1, <2>2, <2>3
<1>3. CASE Frees(u)
  <2>0. Hand(u) # <<>> /\ Hand(u) \in Seq(Nodes)
    BY <1>3, HandTyped DEF Frees
  <2>. PICK n \in Nodes : n = Head(Hand(u))
    BY <2>0, HeadTailProperties
  <2>1. Hand(u)' = Tail(Hand(u)) /\ aborted' = aborted \ {n} /\ UNCHANGED stack
    BY <1>3 DEF Frees
  <2>2. /\ ToSet(Hand(u)) = {n} \cup ToSet(Hand(u)')
        /\ Once(Hand(u)') /\ n \notin ToSet(Hand(u)')
    BY <2>0, <2>1, ToSetTail, OnceTail DEF Separate
  <2>3. Separate'
    <3>1. \A v \in Threads : Once(Hand(v)') /\ ToSet(Hand(v)') \subseteq ToSet(Hand(v))
      BY <2>2, <1>0 DEF Separate
    <3>2. \A v \in Threads, x \in Threads : v # x => ToSet(Hand(v)') \cap ToSet(Hand(x)') = {}
      BY <3>1 DEF Separate
    <3>3. \A v \in Threads, r \in Stacks : ToSet(Hand(v)') \cap ToSet(stack[r]) = {}
      BY <3>1 DEF Separate
    <3>. QED BY <3>1, <3>2, <3>3, <2>1, <1>0 DEF Separate
  <2>4. ~Allocated(n)'
    BY <2>1, <2>2, <1>0, AllocatedHand DEF Separate
  <2>5. \A m \in Nodes : Allocated(m)' => Allocated(m)
    BY <2>1, <2>2, <1>0, AllocatedHand
  <2>. QED BY <2>1, <2>3, <2>4, <2>5
<1>. QED BY <1>1, <1>2, <1>3, WakeMoves DEF Separate

(* A walk over a stack is at a node, or at its end.                         *)
LEMMA TopTyped ==
  ASSUME NEW Nodes, WaiterTypes(Nodes), NEW s \in Stacks, Top(s) # NoNode
  PROVE  Top(s) \in Nodes /\ stack[s] # <<>> /\ Top(s) = stack[s][1]
<1>1. stack[s] \in Seq(Nodes) /\ stack[s] # <<>>
  BY DEF WaiterTypes, Top
<1>. QED BY <1>1, HeadTailProperties DEF Top

LEMMA NextOfTyped ==
  ASSUME NEW Nodes, WaiterTypes(Nodes), NEW n, Allocated(n)
  PROVE  NextOf(n) \in Nodes \cup {NoNode}
<1>. DEFINE chain == CHOOSE ch \in Chains : n \in ToSet(ch)
            i == CHOOSE j \in 1 .. Len(chain) : chain[j] = n
<1>1. chain \in Chains /\ n \in ToSet(chain)
  BY DEF Allocated
<1>2. chain \in Seq(Nodes)
  <2>1. \A s \in Stacks : stack[s] \in Seq(Nodes)
    BY DEF WaiterTypes
  <2>2. \A u \in Drainers : Head(calls[u]).todo \in Seq(Nodes)
    BY HandTyped DEF Drainers, Hand
  <2>. QED BY <1>1, <2>1, <2>2 DEF Chains
<1>. HIDE DEF chain
<1>3. i \in 1 .. Len(chain) /\ chain[i] = n /\ Len(chain) \in Nat
  BY <1>1, <1>2 DEF ToSet
<1>4. NextOf(n) = IF i = Len(chain) THEN NoNode ELSE chain[i + 1]
  BY DEF NextOf, chain
<1>. HIDE DEF i
<1>5. i # Len(chain) => chain[i + 1] \in Nodes
  BY <1>2, <1>3
<1>. QED BY <1>4, <1>5

LEMMA BeyondTyped ==
  ASSUME NEW Nodes, WaiterTypes(Nodes), NEW n, NEW m \in Beyond(n)
  PROVE  m \in Nodes \cup {NoNode}
<1>1. CASE Allocated(n)
  BY <1>1, NextOfTyped DEF Beyond
<1>2. CASE ~Allocated(n)
  <2>1. \A u \in Drainers : Head(Head(calls[u]).todo) \in Nodes
    <3>. SUFFICES ASSUME NEW u \in Drainers PROVE Head(Hand(u)) \in Nodes
      BY DEF Drainers, Hand
    <3>1. u \in Threads /\ Calling(u, {"visit", "elect"})
      BY DEF Drainers
    <3>2. Head(calls[u]) \in WakeCalls(Nodes)
      <4>1. calls[u] \in Seq(WakeCalls(Nodes)) /\ calls[u] # <<>>
        BY <3>1 DEF Calling, WaiterTypes
      <4>. QED BY <4>1, HeadTailProperties
    <3>3. Head(calls[u]).todo # <<>>
      BY <3>1, <3>2 DEF Calling, WakeCalls, Snapshots, Swaps, Unparks, Visits
    <3>4. Hand(u) \in Seq(Nodes) /\ Hand(u) # <<>>
      BY <3>1, <3>3, HandTyped DEF Hand
    <3>. QED BY <3>4, HeadTailProperties
  <2>. QED BY <1>2, <2>1 DEF Beyond
<1>. QED BY <1>1, <1>2

(* Only an election changes the winner of a turn.                           *)
LEMMA WakeSelects ==
  ASSUME NEW Nodes, NodesOK(Nodes), WaiterTypes(Nodes), NEW u \in Threads, WakeStep(u),
         NEW t \in Threads, NEW r \in Rounds, selected'[t][r] # selected[t][r]
  PROVE  /\ selected[t][r] = Unselected
         /\ \E n \in Nodes : Thread(n) = t /\ Round(n) = r /\ selected'[t][r] = Arm(n)
<1>1. ElectNode(u)
  BY DEF WakeStep, SnapshotOne, SnapshotAll, UnparkNext, SwapStack, VisitNode
<1>2. PICK n \in Nodes : n = Head(Head(calls[u]).todo)
  BY <1>1, VisitEffect
<1>3. n[1] \in Threads /\ n[2] \in Rounds
  BY DEF NodesOK
<1>4. /\ selected[n[1]][n[2]] = Unselected
      /\ selected' = [selected EXCEPT ![n[1]][n[2]] = n[3]]
  BY <1>1, <1>2 DEF ElectNode, Thread, Round, Arm
<1>5. n[1] = t /\ n[2] = r
  BY <1>3, <1>4 DEF WaiterTypes
<1>. QED BY <1>2, <1>3, <1>4, <1>5 DEF WaiterTypes, Thread, Round, Arm

(* Who elects a node wakes its thread.                                      *)
LEMMA WakePermits ==
  ASSUME NEW Nodes, NodesOK(Nodes), WaiterTypes(Nodes), NEW u \in Threads, WakeStep(u),
         NEW t \in Threads, NEW r \in Rounds
  PROVE  /\ permit[t] => permit'[t]
         /\ selected'[t][r] = selected[t][r] \/ permit'[t]
<1>1. CASE ~ElectNode(u)
  BY <1>1 DEF WakeStep, SnapshotOne, SnapshotAll, UnparkNext, SwapStack, VisitNode, WaiterTypes
<1>2. CASE ElectNode(u)
  <2>. DEFINE n == Head(Head(calls[u]).todo)
              wins == selected[Thread(n)][Round(n)] = Unselected
  <2>1. n[1] \in Threads /\ n[2] \in Rounds
    BY <1>2, VisitEffect DEF NodesOK
  <2>2. wins => selected' = [selected EXCEPT ![n[1]][n[2]] = n[3]] /\ permit' = [permit EXCEPT ![n[1]] = TRUE]
    BY <1>2 DEF ElectNode, Thread, Round, Arm
  <2>3. ~wins => UNCHANGED selected
    BY <1>2 DEF ElectNode
  <2>4. permit' \in {permit, [permit EXCEPT ![n[1]] = TRUE]}
    BY <1>2 DEF ElectNode, Thread
  <2>. HIDE DEF n, wins
  <2>. QED BY <2>1, <2>2, <2>3, <2>4 DEF WaiterTypes
<1>. QED BY <1>1, <1>2

(* The node after one of a stack's is the next one down.                    *)
LEMMA NextOfStack ==
  ASSUME NEW Nodes, WaiterTypes(Nodes), Separate, NEW s \in Stacks, NEW i \in DOMAIN stack[s]
  PROVE  /\ Allocated(stack[s][i])
         /\ NextOf(stack[s][i]) = IF i = Len(stack[s]) THEN NoNode ELSE stack[s][i + 1]
<1>. DEFINE n == stack[s][i]
            chain == CHOOSE ch \in Chains : n \in ToSet(ch)
            j == CHOOSE k \in 1 .. Len(chain) : chain[k] = n
<1>1. stack[s] \in Seq(Nodes) /\ n \in ToSet(stack[s])
  BY DEF WaiterTypes, ToSet
<1>2. Allocated(n)
  BY <1>1 DEF Allocated, Chains
<1>3. chain \in Chains /\ n \in ToSet(chain)
  BY <1>2 DEF Allocated
<1>4. NextOf(n) = IF j = Len(chain) THEN NoNode ELSE chain[j + 1]
  BY DEF NextOf
<1>. HIDE DEF chain, n
<1>5. chain = stack[s]
  <2>1. ASSUME NEW r \in Stacks, chain = stack[r] PROVE r = s
    BY <1>1, <1>3, <2>1 DEF Separate
  <2>2. ASSUME NEW u \in Drainers, chain = Head(calls[u]).todo PROVE FALSE
    <3>1. u \in Threads /\ Hand(u) = chain
      BY <2>2 DEF Drainers, Hand
    <3>. QED BY <1>1, <1>3, <3>1 DEF Separate
  <2>. QED BY <1>3, <2>1, <2>2 DEF Chains
<1>6. j \in 1 .. Len(chain) /\ chain[j] = n
  BY <1>1, <1>3, <1>5 DEF ToSet
<1>. HIDE DEF j
<1>7. i \in DOMAIN stack[s] /\ j \in DOMAIN stack[s] /\ stack[s][i] = stack[s][j]
  BY <1>1, <1>5, <1>6 DEF n
<1>8. j = i
  BY <1>7 DEF Separate, Once
<1>. QED BY <1>2, <1>4, <1>5, <1>8 DEF n

(* A new node is pushed.                                                    *)
LEMMA PushMoves ==
  ASSUME NEW Nodes, WaiterTypes(Nodes), NEW s \in Stacks, NEW n \in Nodes, PushNode(n, s)
  PROVE  /\ stack'[s] \in Seq(Nodes) /\ ToSet(stack'[s]) = {n} \cup ToSet(stack[s])
         /\ \A r \in Stacks : r # s => stack'[r] = stack[r]
         /\ \A i \in DOMAIN stack[s] : i + 1 \in DOMAIN stack'[s] /\ stack'[s][i + 1] = stack[s][i]
         /\ \A i \in DOMAIN stack'[s] : i = 1 \/ (i - 1 \in DOMAIN stack[s] /\ stack'[s][i] = stack[s][i - 1])
         /\ stack'[s][1] = n
<1>. DEFINE old == stack[s]
            new == <<n>> \o old
<1>1. old \in Seq(Nodes) /\ Len(old) \in Nat
  BY DEF WaiterTypes
<1>2. stack'[s] = new /\ \A r \in Stacks : r # s => stack'[r] = stack[r]
  BY DEF PushNode, WaiterTypes
<1>. HIDE DEF old
<1>3. /\ new \in Seq(Nodes) /\ Len(new) = Len(old) + 1 /\ new[1] = n
      /\ \A i \in 1 .. Len(old) : new[i + 1] = old[i]
      /\ \A i \in 2 .. Len(old) + 1 : new[i] = old[i - 1]
  BY <1>1
<1>. HIDE DEF new
<1>4. DOMAIN new = 1 .. Len(old) + 1 /\ DOMAIN old = 1 .. Len(old)
  BY <1>1, <1>3
<1>5. \A i \in DOMAIN old : i + 1 \in DOMAIN new /\ new[i + 1] = old[i]
  BY <1>1, <1>3, <1>4
<1>6. \A i \in DOMAIN new : i = 1 \/ (i - 1 \in DOMAIN old /\ new[i] = old[i - 1])
  <2>. SUFFICES ASSUME NEW i \in DOMAIN new, i # 1 PROVE i - 1 \in DOMAIN old /\ new[i] = old[i - 1]
    OBVIOUS
  <2>1. i \in 2 .. Len(old) + 1 /\ i - 1 \in 1 .. Len(old)
    BY <1>1, <1>4
  <2>. QED BY <2>1, <1>3, <1>4
<1>7. ToSet(new) = {n} \cup ToSet(old)
  BY <1>1, <1>3, <1>4, <1>5, <1>6 DEF ToSet
<1>. QED BY <1>2, <1>3, <1>5, <1>6, <1>7 DEF old

LEMMA PushSeparate ==
  ASSUME NEW Nodes, WaiterTypes(Nodes), Separate, NEW s \in Stacks, NEW n \in Nodes, PushNode(n, s),
         ~Allocated(n), UNCHANGED calls
  PROVE  Separate' /\ \A m : Allocated(m)' <=> Allocated(m) \/ m = n
<1>1. \A u \in Threads : Hand(u)' = Hand(u)
  BY DEF Hand, Calling
<1>2. /\ \A r \in Stacks : n \notin ToSet(stack[r])
      /\ \A u \in Threads : n \notin ToSet(Hand(u))
  BY AllocatedHand
<1>3. /\ ToSet(stack'[s]) = {n} \cup ToSet(stack[s])
      /\ \A r \in Stacks : r # s => stack'[r] = stack[r]
      /\ stack'[s] \in Seq(Nodes) /\ stack[s] \in Seq(Nodes) /\ stack'[s][1] = n
      /\ \A i \in DOMAIN stack'[s] : i = 1 \/ (i - 1 \in DOMAIN stack[s] /\ stack'[s][i] = stack[s][i - 1])
  <2>1. stack[s] \in Seq(Nodes)
    BY DEF WaiterTypes
  <2>2. /\ stack'[s] \in Seq(Nodes) /\ ToSet(stack'[s]) = {n} \cup ToSet(stack[s])
        /\ \A r \in Stacks : r # s => stack'[r] = stack[r]
        /\ \A i \in DOMAIN stack[s] : i + 1 \in DOMAIN stack'[s] /\ stack'[s][i + 1] = stack[s][i]
        /\ \A i \in DOMAIN stack'[s] : i = 1 \/ (i - 1 \in DOMAIN stack[s] /\ stack'[s][i] = stack[s][i - 1])
        /\ stack'[s][1] = n
    BY PushMoves
  <2>. QED BY <2>1, <2>2
<1>4. Once(stack'[s])
  <2>. SUFFICES ASSUME NEW i \in DOMAIN stack'[s], NEW j \in DOMAIN stack'[s], stack'[s][i] = stack'[s][j]
                PROVE  i = j
    BY DEF Once
  <2>1. i \in Nat /\ j \in Nat /\ n \notin ToSet(stack[s]) /\ Once(stack[s])
    BY <1>2, <1>3 DEF Separate
  <2>2. \A k \in DOMAIN stack[s] : stack[s][k] # n
    BY <2>1 DEF ToSet
  <2>3. CASE i = 1 \/ j = 1
    BY <2>2, <2>3, <1>3
  <2>4. CASE i # 1 /\ j # 1
    <3>1. i - 1 = j - 1
      BY <2>1, <2>4, <1>3 DEF Once
    <3>. QED BY <3>1, <2>1
  <2>. QED BY <2>3, <2>4
<1>5. Separate'
  <2>1. Ordered' /\ \A u \in Threads : Once(Hand(u)')
    BY <1>1 DEF Separate, Ordered
  <2>2. \A r \in Stacks : Once(stack'[r])
    BY <1>3, <1>4 DEF Separate
  <2>3. \A r \in Stacks : r # s => n \notin ToSet(stack'[r]) /\ ToSet(stack'[r]) = ToSet(stack[r])
    BY <1>2, <1>3
  <2>4. \A r \in Stacks, x \in Stacks : r # x => ToSet(stack'[r]) \cap ToSet(stack'[x]) = {}
    <3>. SUFFICES ASSUME NEW r \in Stacks, NEW x \in Stacks, r # x
                  PROVE  ToSet(stack'[r]) \cap ToSet(stack'[x]) = {}
      OBVIOUS
    <3>1. ToSet(stack[r]) \cap ToSet(stack[x]) = {}
      BY DEF Separate
    <3>2. r # s \/ x # s
      OBVIOUS
    <3>. QED BY <1>3, <2>3, <3>1, <3>2
  <2>5. \A u \in Threads, v \in Threads : u # v => ToSet(Hand(u)') \cap ToSet(Hand(v)') = {}
    BY <1>1 DEF Separate
  <2>6. \A u \in Threads, r \in Stacks : ToSet(Hand(u)') \cap ToSet(stack'[r]) = {}
    BY <1>1, <1>2, <1>3, <2>3 DEF Separate
  <2>. QED BY <2>1, <2>2, <2>4, <2>5, <2>6 DEF Separate
<1>6. ASSUME NEW m PROVE Allocated(m)' <=> Allocated(m) \/ m = n
  BY <1>1, <1>3, AllocatedHand
<1>. QED BY <1>5, <1>6

(* New wake calls hold no nodes yet.                                        *)
LEMMA CallsSeparate ==
  ASSUME Separate, NEW u \in Threads, NEW more, UNCHANGED <<stack, aborted>>,
         NEW S, calls \in [Threads -> Seq(S)], more \in Seq(S),
         \A call \in ToSet(more) : call.op \notin {"visit", "elect"},
         calls' = calls \/ (Free(u) /\ calls' = [calls EXCEPT ![u] = more])
  PROVE  /\ Separate' /\ \A m : Allocated(m)' <=> Allocated(m)
         /\ \A v \in Threads : Hand(v)' = Hand(v)
<1>1. Ordered' /\ \A v \in Threads : Hand(v)' = Hand(v)
  <2>1. CASE calls' = calls
    BY <2>1 DEF Separate, Ordered, Hand, Calling
  <2>2. CASE Free(u) /\ calls' = [calls EXCEPT ![u] = more]
    <3>1. calls'[u] = more /\ calls[u] = <<>> /\ \A v \in Threads \ {u} : calls'[v] = calls[v]
      BY <2>2 DEF Free
    <3>2. ASSUME more # <<>>
          PROVE  /\ Head(more).op \notin {"visit", "elect"}
                 /\ \A call \in ToSet(Tail(more)) : call.op \notin {"visit", "elect"}
      BY <3>2, ToSetTail
    <3>3. Hand(u) = <<>> /\ Hand(u)' = <<>>
      BY <3>1, <3>2 DEF Hand, Calling
    <3>4. \A v \in Threads \ {u} : Hand(v)' = Hand(v)
      BY <3>1 DEF Hand, Calling
    <3>5. Ordered'
      BY <3>1, <3>2 DEF Separate, Ordered
    <3>. QED BY <3>3, <3>4, <3>5
  <2>. QED BY <2>1, <2>2
<1>2. \A m : Allocated(m)' <=> Allocated(m)
  <2>. SUFFICES ASSUME NEW m PROVE Allocated(m)' <=> Allocated(m)
    OBVIOUS
  <2>. QED BY <1>1, AllocatedHand
<1>3. Separate'
  BY <1>1 DEF Separate
<1>. QED BY <1>1, <1>2, <1>3

LEMMA TopEmpty ==
  ASSUME NEW Nodes, NodesOK(Nodes), WaiterTypes(Nodes), NEW s \in Stacks, Top(s) = NoNode
  PROVE  stack[s] = <<>>
<1>. SUFFICES ASSUME stack[s] # <<>> PROVE FALSE
  OBVIOUS
<1>1. stack[s] \in Seq(Nodes)
  BY DEF WaiterTypes
<1>2. Head(stack[s]) \in Threads \X Rounds \X Nat
  BY <1>1, HeadTailProperties DEF NodesOK
<1>. DEFINE n == Head(stack[s])
<1>3. n = <<n[1], n[2], n[3]>> /\ n = <<>>
  BY <1>2 DEF Top, NoNode
<1>. HIDE DEF n
<1>4. Len(<<n[1], n[2], n[3]>>) = 3 /\ Len(<<>>) = 0
  OBVIOUS
<1>. QED BY <1>3, <1>4

-----------------------------------------------------------------------------
(* Calls that wake somebody: a node they have in hand and find unmarked is  *)
(* elected, unless they have woken another.                                 *)
Choice == {"select_one", "select_all"}
Choosing(u) == Hand(u) # <<>> /\ Head(calls[u]).mode \in Choice

(* The nodes u may still elect: those that are not marked, and the one it   *)
(* has looked at already.                                                   *)
Wanted(u) == {n \in ToSet(Hand(u)) : n \notin aborted \/ (Calling(u, {"elect"}) /\ n = Head(Hand(u)))}

SameTurn(S) == \A m \in S : \A n \in S : Thread(m) = Thread(n) /\ Round(m) = Round(n)
Uniform == \A u \in Threads : Choosing(u) => SameTurn(Wanted(u))

(* Turn r of thread t is on its way to end: there is a permit or a winner,  *)
(* or a waker has before it a node of the turn that is not marked.          *)
OfTurn(n, t, r) == Thread(n) = t /\ Round(n) = r /\ n \notin aborted
Called(t, r) ==
  \E u \in Threads : \E call \in ToSet(calls[u]) :
    call.op \in Choice /\ \E n \in ToSet(stack[call.on]) : OfTurn(n, t, r)
Chosen(t, r) == \E u \in Threads : Choosing(u) /\ \E n \in ToSet(Hand(u)) : OfTurn(n, t, r)
Coming(t, r) == permit[t] \/ selected[t][r] # Unselected \/ Called(t, r) \/ Chosen(t, r)

(* The five things a step of a wake call may be, as far as nodes go.        *)
Passes(u) == /\ Hand(u) = <<>> /\ Hand(u)' = <<>> /\ UNCHANGED <<stack, aborted, selected>>
             /\ Head(calls[u]).op \notin Choice \cup {"drain"}
Collects(u) ==
  LET call == Head(calls[u]) IN
  /\ call.op \in Choice \cup {"drain"} /\ call.on \in Stacks /\ Takes(u, call.on)
  /\ Choosing(u)' <=> (stack[call.on] # <<>> /\ call.op \in Choice)
  /\ ~Calling(u, {"elect"})' \/ Hand(u)' = <<>>
  /\ UNCHANGED selected
Approves(u) ==
  /\ Hand(u) # <<>> /\ Hand(u)' = Hand(u) /\ UNCHANGED <<stack, aborted, selected>>
  /\ Choosing(u) /\ Choosing(u)' /\ Head(Hand(u)) \notin aborted
Skips(u) ==
  /\ Frees(u) /\ UNCHANGED selected
  /\ Choosing(u) => Head(Hand(u)) \in aborted
  /\ Choosing(u)' <=> (Choosing(u) /\ Tail(Hand(u)) # <<>>)
  /\ ~Calling(u, {"elect"})' \/ Hand(u)' = <<>>
Elects(u) ==
  LET n == Head(Hand(u)) IN
  /\ Frees(u) /\ Calling(u, {"elect"})
  /\ Choosing(u)' => Choosing(u)
  /\ ~Calling(u, {"elect"})' \/ Hand(u)' = <<>>
  /\ selected[Thread(n)][Round(n)] = Unselected =>
       selected'[Thread(n)][Round(n)] = Arm(n) /\ permit'[Thread(n)]

LEMMA GoOnChoosing ==
  ASSUME NEW Nodes, WaiterTypes(Nodes), Ordered, NEW t \in Threads, ~Free(t),
         NEW mode, NEW todo, GoOn(t, Visit(mode, todo)),
         todo = <<>> \/ Visit(mode, todo) \in WakeCalls(Nodes)
  PROVE  /\ Hand(t)' = todo /\ (Choosing(t)' <=> todo # <<>> /\ mode \in Choice)
         /\ ~Calling(t, {"elect"})' \/ Hand(t)' = <<>>
<1>. DEFINE goal == Visit(mode, todo)
<1>1. goal.op = "visit" /\ goal.mode = mode /\ goal.todo = todo /\ GoOn(t, goal)
  BY DEF Visit
<1>. HIDE DEF goal
<1>2. goal.todo = <<>> \/ goal \in WakeCalls(Nodes)
  BY <1>1 DEF goal
<1>3. Hand(t)' = todo
  BY <1>1, <1>2, GoOnHand
<1>4. goal.todo # <<>> => calls'[t] # <<>> /\ Head(calls'[t]) = goal
  BY <1>1, <1>2, GoingOn
<1>5. CASE todo = <<>>
  BY <1>3, <1>5 DEF Choosing
<1>6. CASE todo # <<>>
  <2>1. Head(calls'[t]) = goal
    BY <1>1, <1>4, <1>6
  <2>. QED BY <2>1, <1>1, <1>3, <1>6 DEF Choosing, Calling
<1>. QED BY <1>5, <1>6

LEMMA HandSteps ==
  ASSUME NEW Nodes, NodesOK(Nodes), WaiterTypes(Nodes), Ordered, NEW u \in Threads, WakeStep(u)
  PROVE  Passes(u) \/ Collects(u) \/ Approves(u) \/ Skips(u) \/ Elects(u)
<1>. DEFINE call == Head(calls[u])
<1>1. ~Free(u)
  BY WakeStepCall
<1>2. CASE SnapshotOne(u) \/ SnapshotAll(u) \/ UnparkNext(u)
  <2>1. /\ call.op \in {"wake_one", "wake_all", "wake_all_unselected", "unpark"}
        /\ UNCHANGED <<stack, aborted, selected>> /\ Hand(u) = <<>>
    BY <1>2 DEF SnapshotOne, SnapshotAll, UnparkNext, Calling, Hand
  <2>2. Hand(u)' = <<>>
    <3>1. ASSUME NEW todo, GoOn(u, Unpark(todo)),
                 Unpark(todo).todo = <<>> \/ Unpark(todo) \in WakeCalls(Nodes)
          PROVE  Hand(u)' = <<>>
      <4>1. Unpark(todo).op = "unpark"
        BY DEF Unpark
      <4>. QED BY <4>1, <3>1, <1>1, GoOnHand
    <3>2. CASE SnapshotOne(u) \/ SnapshotAll(u)
      BY <3>1, <3>2, SnapshotEffect
    <3>3. CASE UnparkNext(u)
      BY <3>1, <3>3, UnparkEffect
    <3>. QED BY <1>2, <3>2, <3>3
  <2>. QED BY <2>1, <2>2 DEF Passes, Choice
<1>3. CASE SwapStack(u)
  <2>1. /\ call \in Swaps /\ GoOn(u, Visit(call.op, stack[call.on]))
        /\ \/ Visit(call.op, stack[call.on]).todo = <<>>
           \/ Visit(call.op, stack[call.on]) \in WakeCalls(Nodes)
    BY <1>3, SwapEffect
  <2>2. Visit(call.op, stack[call.on]).todo = stack[call.on]
    BY DEF Visit
  <2>3. /\ Hand(u)' = stack[call.on]
        /\ Choosing(u)' <=> stack[call.on] # <<>> /\ call.op \in Choice
        /\ ~Calling(u, {"elect"})' \/ Hand(u)' = <<>>
    BY <1>1, <2>1, <2>2, GoOnChoosing
  <2>4. call.op \in Choice \cup {"drain"} /\ call.on \in Stacks
    BY <2>1 DEF Swaps, Choice
  <2>5. Takes(u, call.on)
    BY <2>3, <1>3 DEF Takes, SwapStack, Hand, Calling
  <2>. QED BY <2>3, <2>4, <2>5, <1>3 DEF Collects, SwapStack
<1>4. CASE VisitNode(u) \/ ElectNode(u)
  <2>0. /\ call \in Visits(Nodes) /\ Hand(u) = call.todo /\ call.todo # <<>>
        /\ \A mode \in {"select_one", "select_all", "drain", "rest"} :
              \/ Visit(mode, Tail(call.todo)).todo = <<>>
              \/ Visit(mode, Tail(call.todo)) \in WakeCalls(Nodes)
        /\ Head(call.todo) \in Nodes
    BY <1>4, VisitEffect DEF Hand, VisitNode, ElectNode, Calling, Visits
  <2>1. \A mode : Visit(mode, Tail(call.todo)).todo = Tail(call.todo)
    BY DEF Visit
  <2>2. ASSUME NEW mode \in {"select_one", "select_all", "drain", "rest"},
               GoOn(u, Visit(mode, Tail(call.todo)))
        PROVE  /\ Hand(u)' = Tail(call.todo)
               /\ Choosing(u)' <=> Tail(call.todo) # <<>> /\ mode \in Choice
               /\ ~Calling(u, {"elect"})' \/ Hand(u)' = <<>>
    BY <2>2, <2>0, <2>1, <1>1, GoOnChoosing
  <2>3. Choosing(u) <=> call.mode \in Choice
    BY <2>0 DEF Choosing
  <2>4. CASE VisitNode(u) /\ Head(call.todo) \notin aborted /\ call.mode \in Choice
    <3>. DEFINE elect == [call EXCEPT !.op = "elect"]
    <3>1. elect.op = "elect" /\ elect.todo = call.todo /\ elect.mode = call.mode
      BY <2>0 DEF Visits
    <3>2. calls'[u] # <<>> /\ Head(calls'[u]) = elect /\ UNCHANGED aborted
      BY <2>4, ElectionBegins DEF Choice
    <3>. HIDE DEF elect
    <3>3. Hand(u)' = Hand(u) /\ Choosing(u)'
      BY <3>1, <3>2, <2>0, <2>4 DEF Hand, Calling, Choosing
    <3>. QED BY <3>2, <3>3, <2>0, <2>3, <2>4 DEF Approves, VisitNode
  <2>5. CASE VisitNode(u) /\ ~(Head(call.todo) \notin aborted /\ call.mode \in Choice)
    <3>1. /\ GoOn(u, Visit(call.mode, Tail(call.todo)))
          /\ aborted' = aborted \ {Head(call.todo)} /\ UNCHANGED <<stack, selected>>
      BY <2>5 DEF VisitNode, Choice
    <3>2. call.mode \in {"select_one", "select_all", "drain", "rest"}
      BY <2>0 DEF Visits
    <3>3. /\ Hand(u)' = Tail(call.todo)
          /\ Choosing(u)' <=> Tail(call.todo) # <<>> /\ call.mode \in Choice
          /\ ~Calling(u, {"elect"})' \/ Hand(u)' = <<>>
      BY <3>1, <3>2, <2>2
    <3>. QED BY <3>1, <3>3, <2>0, <2>3, <2>5 DEF Skips, Frees
  <2>6. CASE ElectNode(u)
    <3>. DEFINE n == Head(call.todo)
                wins == selected[Thread(n)][Round(n)] = Unselected
    <3>1. PICK mode \in {"rest", call.mode} :
            GoOn(u, Visit(mode, Tail(call.todo))) /\ aborted' = aborted \ {n} /\ UNCHANGED stack
      BY <2>6 DEF ElectNode
    <3>2. mode \in {"select_one", "select_all", "drain", "rest"} /\ (mode \in Choice => call.mode \in Choice)
      BY <2>0, <3>1 DEF Visits, Choice
    <3>3. /\ Hand(u)' = Tail(call.todo)
          /\ Choosing(u)' <=> Tail(call.todo) # <<>> /\ mode \in Choice
          /\ ~Calling(u, {"elect"})' \/ Hand(u)' = <<>>
      BY <3>1, <3>2, <2>2
    <3>4. n[1] \in Threads /\ n[2] \in Rounds
      BY <2>0 DEF NodesOK
    <3>5. wins => selected' = [selected EXCEPT ![n[1]][n[2]] = n[3]] /\ permit' = [permit EXCEPT ![n[1]] = TRUE]
      BY <2>6 DEF ElectNode, Thread, Round, Arm
    <3>6. wins => selected'[n[1]][n[2]] = n[3] /\ permit'[n[1]]
      <4>1. selected \in [Threads -> [Rounds -> Nat]] /\ permit \in [Threads -> BOOLEAN]
        BY DEF WaiterTypes
      <4>. HIDE DEF n, wins
      <4>. QED BY <4>1, <3>4, <3>5
    <3>. HIDE DEF n
    <3>7. selected[Thread(n)][Round(n)] = Unselected =>
             selected'[Thread(n)][Round(n)] = Arm(n) /\ permit'[Thread(n)]
      BY <3>6 DEF Thread, Round, Arm
    <3>8. Frees(u)
      BY <3>1, <3>3, <2>0 DEF Frees, n
    <3>9. Calling(u, {"elect"})
      BY <2>6 DEF ElectNode
    <3>. QED BY <3>2, <3>3, <3>7, <3>8, <3>9, <2>0, <2>3 DEF Elects, n
  <2>. QED BY <1>4, <2>4, <2>5, <2>6
<1>. QED BY <1>2, <1>3, <1>4 DEF WakeStep

(* Steps keep what a node of a turn can do for it.                          *)
LEMMA UniformKept ==
  ASSUME Uniform, NEW v \in Threads, Choosing(v)' => Choosing(v) /\ Wanted(v)' \subseteq Wanted(v)
  PROVE  Choosing(v)' => SameTurn(Wanted(v)')
<1>. DEFINE W == Wanted(v)'
<1>1. Choosing(v)' => SameTurn(Wanted(v)) /\ W \subseteq Wanted(v)
  BY DEF Uniform
<1>. HIDE DEF W
<1>2. Choosing(v)' => SameTurn(W)
  BY <1>1 DEF SameTurn
<1>. QED BY <1>2 DEF W

LEMMA UniformWake ==
  ASSUME NEW Nodes, NodesOK(Nodes), WaiterTypes(Nodes), Separate, Uniform,
         NEW u \in Threads, WakeStep(u),
         \A s \in Stacks : SameTurn({n \in ToSet(stack[s]) : n \notin aborted})
  PROVE  Uniform'
<1>1. /\ Separate' /\ \A s \in Stacks : stack'[s] \in {stack[s], <<>>}
      /\ \A n \in Nodes : Allocated(n)' => Allocated(n) /\ (n \in aborted <=> n \in aborted')
  BY WakeSeparate
<1>2. \A v \in Threads \ {u} : calls'[v] = calls[v]
  BY WakeStepTypes
<1>3. WaiterTypes(Nodes)'
  BY WakeStepTypes
<1>4. ASSUME NEW v \in Threads
      PROVE  \A n \in ToSet(Hand(v)') : n \in aborted <=> n \in aborted'
  <2>1. Hand(v)' \in Seq(Nodes)
    <3>. DEFINE c == Head(calls'[v])
    <3>1. CASE calls'[v] # <<>> /\ c.op \in {"visit", "elect"}
      <4>1. calls'[v] \in Seq(WakeCalls(Nodes)) /\ calls'[v] # <<>>
        BY <1>3, <3>1 DEF WaiterTypes
      <4>2. c \in WakeCalls(Nodes)
        BY <4>1, HeadTailProperties
      <4>3. c.todo \in Seq(Nodes)
        BY <4>2, <3>1 DEF WakeCalls, Snapshots, Swaps, Unparks, Visits
      <4>. QED BY <4>3, <3>1 DEF Hand, Calling
    <3>2. CASE ~(calls'[v] # <<>> /\ c.op \in {"visit", "elect"})
      BY <3>2 DEF Hand, Calling
    <3>. QED BY <3>1, <3>2
  <2>2. \A n \in ToSet(Hand(v)') : n \in Nodes
    BY <2>1 DEF ToSet
  <2>. QED BY <2>2, <1>1, AllocatedHand
<1>5. ASSUME NEW v \in Threads \ {u}
      PROVE  Choosing(v)' => SameTurn(Wanted(v)')
  <2>1. Hand(v)' = Hand(v) /\ (Choosing(v)' <=> Choosing(v)) /\ (Calling(v, {"elect"})' <=> Calling(v, {"elect"}))
    BY <1>2 DEF Hand, Choosing, Calling
  <2>2. Wanted(v)' \subseteq Wanted(v)
    BY <2>1, <1>4 DEF Wanted
  <2>. QED BY <2>1, <2>2, UniformKept
<1>6. Choosing(u)' => SameTurn(Wanted(u)')
  <2>1. CASE Passes(u)
    BY <2>1 DEF Passes, Choosing
  <2>2. CASE Collects(u)
    <3>. DEFINE s == Head(calls[u]).on
                W == Wanted(u)'
    <3>1. s \in Stacks /\ Hand(u)' = stack[s] /\ UNCHANGED aborted
          /\ (~Calling(u, {"elect"})' \/ Hand(u)' = <<>>)
      BY <2>2 DEF Collects, Takes
    <3>2. Choosing(u)' => Hand(u)' # <<>>
      BY DEF Choosing
    <3>3. Choosing(u)' => W \subseteq {n \in ToSet(stack[s]) : n \notin aborted}
      BY <3>1, <3>2 DEF Wanted
    <3>. HIDE DEF W, s
    <3>4. Choosing(u)' => SameTurn(W)
      BY <3>1, <3>3 DEF SameTurn
    <3>. QED BY <3>4 DEF W
  <2>3. CASE Approves(u)
    <3>1. Hand(u)' = Hand(u) /\ UNCHANGED aborted /\ Choosing(u) /\ Head(Hand(u)) \notin aborted
          /\ Hand(u) # <<>>
      BY <2>3 DEF Approves
    <3>2. Wanted(u)' \subseteq Wanted(u)
      BY <3>1 DEF Wanted
    <3>. QED BY <3>1, <3>2, UniformKept
  <2>4. CASE Skips(u) \/ Elects(u)
    <3>1. /\ Hand(u) # <<>> /\ Hand(u)' = Tail(Hand(u)) /\ (Choosing(u)' => Choosing(u))
          /\ ~Calling(u, {"elect"})' \/ Hand(u)' = <<>>
      BY <2>4 DEF Skips, Elects, Frees
    <3>2. Hand(u) \in Seq(Nodes)
      BY HandTyped
    <3>. DEFINE h == Hand(u)
    <3>3. ToSet(Tail(h)) \subseteq ToSet(h)
      <4>1. h \in Seq(Nodes) /\ h # <<>>
        BY <3>1, <3>2
      <4>. HIDE DEF h
      <4>. QED BY <4>1, ToSetTail
    <3>4. ToSet(Hand(u)') \subseteq ToSet(Hand(u))
      BY <3>1, <3>3
    <3>5. Choosing(u)' => Hand(u)' # <<>>
      BY DEF Choosing
    <3>6. Choosing(u)' => Wanted(u)' \subseteq Wanted(u)
      BY <3>1, <3>4, <3>5, <1>4 DEF Wanted
    <3>. QED BY <3>1, <3>6, UniformKept
  <2>. QED BY <2>1, <2>2, <2>3, <2>4, HandSteps DEF Separate
<1>. QED BY <1>5, <1>6 DEF Uniform

(* A turn that is on its way to end stays so, and one whose node is taken   *)
(* off a stack is, unless the stack is only drained.                        *)
LEMMA ComingWake ==
  ASSUME NEW Nodes, NodesOK(Nodes), WaiterTypes(Nodes), Separate, Uniform,
         \A n \in Nodes : Arm(n) # Unselected,
         NEW u \in Threads, WakeStep(u), NEW t \in Threads, NEW r \in Rounds,
         Head(calls[u]).op = "drain" => \A n \in ToSet(stack[Head(calls[u]).on]) : ~OfTurn(n, t, r)
  PROVE  /\ Coming(t, r) => Coming(t, r)'
         /\ \A s \in Stacks : \A n \in ToSet(stack[s]) :
              OfTurn(n, t, r) => (n \in ToSet(stack'[s]) /\ n \notin aborted') \/ Coming(t, r)'
<1>. DEFINE call == Head(calls[u])
<1>0. /\ ToSet(calls[u]) = {call} \cup ToSet(Tail(calls[u]))
      /\ \A v \in Threads \ {u} : calls'[v] = calls[v]
      /\ ToSet(Tail(calls[u])) \subseteq ToSet(calls'[u])
      /\ WaiterTypes(Nodes)'
  BY WakeStepCall, WakeStepTypes
<1>1. aborted' \subseteq aborted
  BY DEF WakeStep, SnapshotOne, SnapshotAll, UnparkNext, SwapStack, VisitNode, ElectNode
<1>2. permit[t] => permit'[t]
  BY DEF WakeStep, SnapshotOne, SnapshotAll, UnparkNext, SwapStack, VisitNode, ElectNode, WaiterTypes
<1>3. selected[t][r] # Unselected => selected'[t][r] # Unselected
  BY WakeSelects
<1>4. \A n : OfTurn(n, t, r) => OfTurn(n, t, r)'
  BY <1>1 DEF OfTurn, Thread, Round
<1>5. ASSUME NEW s \in Stacks, NEW n \in ToSet(stack[s]), OfTurn(n, t, r), n \notin ToSet(stack'[s])
      PROVE  Coming(t, r)'
  <2>1. Collects(u) /\ call.on = s
    <3>1. stack'[s] # stack[s]
      BY <1>5
    <3>2. CASE Collects(u)
      BY <3>1, <3>2 DEF Collects, Takes, WaiterTypes
    <3>. QED BY <3>1, <3>2, HandSteps DEF Separate, Passes, Approves, Skips, Elects, Frees
  <2>2. call.op \in Choice
    BY <2>1, <1>5 DEF Collects
  <2>3. Choosing(u)' /\ Hand(u)' = stack[s]
    BY <2>1, <2>2, <1>5 DEF Collects, Takes, ToSet
  <2>4. Chosen(t, r)'
    BY <2>3, <1>4, <1>5 DEF Chosen
  <2>. QED BY <2>4 DEF Coming
<1>6. ASSUME NEW v \in Threads, NEW c \in ToSet(calls[v]), c.op \in Choice,
             NEW n \in ToSet(stack[c.on]), OfTurn(n, t, r)
      PROVE  Coming(t, r)'
  <2>1. c.on \in Stacks
    <3>1. calls[v] \in Seq(WakeCalls(Nodes))
      BY DEF WaiterTypes
    <3>2. c \in WakeCalls(Nodes)
      BY <3>1 DEF ToSet
    <3>. QED BY <3>2, <1>6 DEF WakeCalls, Snapshots, Swaps, Unparks, Visits, Choice
  <2>2. CASE n \notin ToSet(stack'[c.on])
    BY <2>1, <2>2, <1>5, <1>6
  <2>3. CASE n \in ToSet(stack'[c.on]) /\ c \in ToSet(calls'[v])
    <3>1. Called(t, r)'
      BY <2>3, <1>4, <1>6 DEF Called
    <3>. QED BY <3>1 DEF Coming
  <2>4. CASE n \in ToSet(stack'[c.on]) /\ v = u /\ c = call
    <3>1. Collects(u)
      BY <2>4, <1>6, HandSteps DEF Separate, Passes, Approves, Skips, Elects, Frees, Hand, Calling, Choice
    <3>2. stack'[c.on] = <<>>
      BY <2>1, <2>4, <3>1 DEF Collects, Takes, WaiterTypes
    <3>. QED BY <2>4, <3>2 DEF ToSet
  <2>. QED BY <2>2, <2>3, <2>4, <1>0
<1>7. ASSUME NEW v \in Threads, Choosing(v), NEW n \in ToSet(Hand(v)), OfTurn(n, t, r)
      PROVE  Coming(t, r)'
  <2>1. CASE v # u
    <3>1. Hand(v)' = Hand(v) /\ Choosing(v)'
      BY <2>1, <1>0, <1>7 DEF Hand, Choosing, Calling
    <3>2. Chosen(t, r)'
      BY <3>1, <1>4, <1>7 DEF Chosen
    <3>. QED BY <3>2 DEF Coming
  <2>2. CASE v = u
    <3>0. /\ Hand(u) # <<>> /\ Hand(u) \in Seq(Nodes)
      BY <2>2, <1>7, HandTyped DEF Choosing
    <3>. DEFINE h == Hand(u)
    <3>1. ToSet(h) = {Head(h)} \cup ToSet(Tail(h)) /\ Head(h) \in Nodes
      <4>1. h \in Seq(Nodes) /\ h # <<>>
        BY <3>0
      <4>. HIDE DEF h
      <4>. QED BY <4>1, ToSetTail
    <3>2. CASE Approves(u)
      <4>1. Hand(u)' = Hand(u) /\ Choosing(u)'
        BY <3>2 DEF Approves
      <4>2. Chosen(t, r)'
        BY <4>1, <2>2, <1>4, <1>7 DEF Chosen
      <4>. QED BY <4>2 DEF Coming
    <3>3. CASE Skips(u)
      <4>1. n # Head(h)
        BY <3>3, <2>2, <1>7 DEF Skips, OfTurn
      <4>2. n \in ToSet(Tail(h)) /\ Tail(h) # <<>>
        BY <4>1, <3>1, <2>2, <1>7 DEF ToSet
      <4>3. Hand(u)' = Tail(h) /\ Choosing(u)'
        BY <4>2, <3>3, <2>2, <1>7 DEF Skips, Frees
      <4>4. Chosen(t, r)'
        BY <4>2, <4>3, <1>4, <1>7 DEF Chosen
      <4>. QED BY <4>4 DEF Coming
    <3>4. CASE Elects(u)
      <4>. DEFINE m == Head(h)
      <4>1. m \in Wanted(u) /\ n \in Wanted(u)
        BY <3>1, <3>4, <2>2, <1>7 DEF Wanted, OfTurn, Elects
      <4>2. Thread(m) = t /\ Round(m) = r
        BY <4>1, <2>2, <1>7 DEF Uniform, SameTurn, OfTurn
      <4>3. selected[t][r] = Unselected => selected'[t][r] = Arm(m)
        BY <4>2, <3>4 DEF Elects
      <4>4. selected'[t][r] # Unselected
        BY <4>3, <3>1, <1>3
      <4>. QED BY <4>4 DEF Coming
    <3>5. CASE Passes(u) \/ Collects(u)
      BY <3>0, <3>5 DEF Passes, Collects, Takes
    <3>. QED BY <3>2, <3>3, <3>4, <3>5, HandSteps DEF Separate
  <2>. QED BY <2>1, <2>2
<1>8. Coming(t, r) => Coming(t, r)'
  <2>1. CASE permit[t] \/ selected[t][r] # Unselected
    BY <2>1, <1>2, <1>3 DEF Coming
  <2>2. CASE Called(t, r)
    BY <2>2, <1>6 DEF Called
  <2>3. CASE Chosen(t, r)
    BY <2>3, <1>7 DEF Chosen
  <2>. QED BY <2>1, <2>2, <2>3 DEF Coming
<1>9. \A s \in Stacks : \A n \in ToSet(stack[s]) :
        OfTurn(n, t, r) => (n \in ToSet(stack'[s]) /\ n \notin aborted') \/ Coming(t, r)'
  BY <1>1, <1>5 DEF OfTurn
<1>. QED BY <1>8, <1>9

(* The other steps: they add calls and nodes, and take nothing away from    *)
(* those who are walking.                                                   *)
LEMMA UniformAside ==
  ASSUME Uniform, aborted \subseteq aborted',
         \A v \in Threads : Hand(v)' = Hand(v) /\ (Hand(v) # <<>> => calls'[v] = calls[v])
  PROVE  Uniform'
<1>1. ASSUME NEW v \in Threads
      PROVE  Choosing(v)' => SameTurn(Wanted(v)')
  <2>1. Hand(v)' = Hand(v) /\ (Hand(v) # <<>> => calls'[v] = calls[v])
    OBVIOUS
  <2>2. Choosing(v)' => Choosing(v) /\ (Calling(v, {"elect"})' <=> Calling(v, {"elect"}))
    BY <2>1 DEF Choosing, Calling
  <2>3. Choosing(v)' => Wanted(v)' \subseteq Wanted(v)
    BY <2>1, <2>2 DEF Wanted
  <2>. QED BY <2>2, <2>3, UniformKept
<1>. QED BY <1>1 DEF Uniform

LEMMA ComingAside ==
  ASSUME NEW Nodes, WaiterTypes(Nodes), NEW t, NEW r, Coming(t, r),
         permit[t] => permit'[t],
         selected[t][r] # Unselected => selected'[t][r] # Unselected,
         \A n : OfTurn(n, t, r) => n \notin aborted',
         \A s \in Stacks : ToSet(stack[s]) \subseteq ToSet(stack'[s]),
         \A v \in Threads : /\ Hand(v)' = Hand(v) /\ (Hand(v) # <<>> => calls'[v] = calls[v])
                            /\ ToSet(calls[v]) \subseteq ToSet(calls'[v])
  PROVE  Coming(t, r)'
<1>1. \A n : OfTurn(n, t, r) => OfTurn(n, t, r)'
  BY DEF OfTurn, Thread, Round
<1>2. ASSUME NEW v \in Threads, NEW c \in ToSet(calls[v]), c.op \in Choice,
             NEW n \in ToSet(stack[c.on]), OfTurn(n, t, r)
      PROVE  Called(t, r)'
  <2>1. calls[v] \in Seq(WakeCalls(Nodes))
    BY DEF WaiterTypes
  <2>2. c \in WakeCalls(Nodes)
    BY <2>1 DEF ToSet
  <2>3. c.on \in Stacks
    BY <2>2, <1>2 DEF WakeCalls, Snapshots, Swaps, Unparks, Visits, Choice
  <2>. QED BY <2>3, <1>1, <1>2 DEF Called
<1>3. Chosen(t, r) => Chosen(t, r)'
  <2>1. \A v \in Threads : Choosing(v) => Choosing(v)' /\ Hand(v)' = Hand(v)
    BY DEF Choosing
  <2>. QED BY <2>1, <1>1 DEF Chosen
<1>. QED BY <1>2, <1>3 DEF Coming, Called
=============================================================================
