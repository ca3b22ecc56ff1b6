-------------------------- MODULE RendezvousProofs --------------------------
(***************************************************************************)
(* Proofs about Rendezvous.  As long as no walk has gone astray, the nodes *)
(* linked from the top form a list without repetition, of sends that wait  *)
(* with their item; a popped node is off the list and its item is its      *)
(* receiver's alone.  No parked receiver misses a sender, no blocked       *)
(* sender the receiver that takes its item or the last one to leave, and   *)
(* no select call, if it is alone on its side, its counterpart.            *)
(***************************************************************************)
EXTENDS Rendezvous, EndpointProofs

-----------------------------------------------------------------------------
(* The types, and what a step says of the handles of its thread: who pops   *)
(* has a receiver, and nobody has one once a send takes its node back.      *)
Popping  == {"pop", "pop_next", "pop_cas", "pop_take", "pop_unpark", "count_senders",
             "enlist", "park", "again"}
Removing == {"remove", "remove_next", "remove_head", "remove_walk", "remove_below",
             "remove_link", "recover"}

Looks == [node : Nodes, below : Nodes]

StackTypes ==
  /\ held \in [Threads -> SUBSET {"send", "recv"}]
  /\ DOMAIN pc = Threads /\ DOMAIN op = Threads
  /\ top \in Nodes
  /\ next \in [Threads -> Nodes]
  /\ taken \in [Threads -> BOOLEAN]
  /\ looked \in [Threads -> Looks]

HandlesOf(t) ==
  /\ pc[t] \in Popping => "recv" \in held[t]
  /\ op[t] = "select_recv" => "recv" \in held[t]
  /\ pc[t] \in {"unborn", "idle"} => op[t] = "none"
  /\ pc[t] \in Removing => Receivers = {}
  /\ pc[t] \in Looking => looked[t].node \in Threads

Handles == StackTypes /\ \A t \in Threads : HandlesOf(t)

(* What every step does to the threads but its own, and to the handles.     *)
Apart(t) ==
  /\ \A u \in Threads \ {t} : /\ pc'[u] = pc[u] /\ op'[u] = op[u]
                              /\ looked'[u] = looked[u] /\ held'[u] = held[u]
  /\ Receivers = {} => Receivers' = {}
  /\ StackTypes' /\ HandlesOf(t)'

LEMMA ApartHandles ==
  ASSUME Handles, NEW t \in Threads, Apart(t)
  PROVE  Handles'
<1>1. ASSUME NEW u \in Threads \ {t} PROVE HandlesOf(u)'
  BY DEF Handles, HandlesOf, Apart
<1>. QED BY <1>1 DEF Handles, Apart

LEMMA SameReceivers ==
  ASSUME held' = held
  PROVE  Receivers' = Receivers
BY DEF Receivers

-----------------------------------------------------------------------------
(* The list s that is linked from the top.                                  *)
Chain(s) ==
  /\ s \in Seq(Threads) /\ Once(s)
  /\ top = (IF s = <<>> THEN Null ELSE s[1])
  /\ \A i \in 1 .. Len(s) : next[s[i]] = (IF i = Len(s) THEN Null ELSE s[i + 1])

LEMMA OnStackListed ==
  ASSUME NEW s, Chain(s)
  PROVE  OnStack \subseteq ToSet(s)
<1>1. ToSet(s) \in SUBSET Threads
  BY DEF Chain, ToSet
<1>2. Linked(ToSet(s))
  <2>1. top # Null => top \in ToSet(s)
    BY DEF Chain, ToSet
  <2>2. ASSUME NEW n \in ToSet(s), next[n] # Null PROVE next[n] \in ToSet(s)
    <3>1. PICK i \in 1 .. Len(s) : n = s[i]
      BY DEF Chain, ToSet
    <3>2. Len(s) \in Nat
      BY DEF Chain
    <3>3. i # Len(s) /\ next[n] = s[i + 1]
      BY <3>1, <2>2 DEF Chain
    <3>4. i + 1 \in 1 .. Len(s)
      BY <3>2, <3>3
    <3>. QED BY <3>3, <3>4 DEF Chain, ToSet
  <2>. QED BY <2>1, <2>2 DEF Linked
<1>. QED BY <1>1, <1>2 DEF OnStack

(* A node is pushed over the others ...                                     *)
LEMMA PushChain ==
  ASSUME NEW s, Chain(s), NEW t \in Threads, t \notin ToSet(s),
         StackTypes, top' = t, next' = [next EXCEPT ![t] = top]
  PROVE  \E r : Chain(r)' /\ ToSet(r) = ToSet(s) \cup {t}
<1>1. Len(s) \in Nat /\ s \in Seq(Threads) /\ DOMAIN s = 1 .. Len(s)
  BY DEF Chain
<1>2. PICK r : /\ r \in Seq(Threads) /\ Len(r) = Len(s) + 1
               /\ \A i \in 1 .. Len(s) + 1 : r[i] = IF i <= 1 THEN t ELSE s[i - 1]
  <2>1. <<t>> \in Seq(Threads) /\ Len(<<t>>) = 1 /\ <<t>>[1] = t
    OBVIOUS
  <2>2. /\ <<t>> \o s \in Seq(Threads) /\ Len(<<t>> \o s) = 1 + Len(s)
        /\ \A i \in 1 .. 1 + Len(s) : (<<t>> \o s)[i] = IF i <= 1 THEN <<t>>[i] ELSE s[i - 1]
    BY <2>1, <1>1, ConcatProperties
  <2>3. \A i \in 1 .. 1 + Len(s) : i <= 1 => i = 1
    BY <1>1
  <2>4. Len(s) + 1 = 1 + Len(s)
    BY <1>1
  <2>. QED BY <2>1, <2>2, <2>3, <2>4
<1>3. DOMAIN r = 1 .. Len(s) + 1
  BY <1>2
<1>4. r[1] = t /\ \A i \in 1 .. Len(s) : i + 1 \in DOMAIN r /\ r[i + 1] = s[i]
  BY <1>1, <1>2, <1>3
<1>5. \A i \in 1 .. Len(s) : s[i] # t /\ s[i] \in ToSet(s) /\ s[i] \in Threads
  BY <1>1 DEF ToSet
<1>6. \A j \in DOMAIN r : j = 1 \/ (j - 1 \in 1 .. Len(s) /\ r[j] = s[j - 1])
  BY <1>1, <1>2, <1>3
<1>7. Once(r)
  <2>1. \A i, j \in 1 .. Len(s) : s[i] = s[j] => i = j
    BY <1>1 DEF Once, Chain
  <2>. SUFFICES ASSUME NEW i \in DOMAIN r, NEW j \in DOMAIN r, r[i] = r[j] PROVE i = j
    BY DEF Once
  <2>2. CASE i = 1 \/ j = 1
    BY <2>2, <1>4, <1>5, <1>6
  <2>3. CASE i # 1 /\ j # 1
    <3>1. i - 1 \in 1 .. Len(s) /\ j - 1 \in 1 .. Len(s) /\ s[i - 1] = s[j - 1]
      BY <2>3, <1>6
    <3>2. i - 1 = j - 1 /\ i \in Int /\ j \in Int
      BY <3>1, <2>1, <1>3
    <3>. QED BY <3>2
  <2>. QED BY <2>2, <2>3
<1>8. ToSet(r) = ToSet(s) \cup {t}
  <2>1. ToSet(r) \subseteq ToSet(s) \cup {t}
    BY <1>1, <1>4, <1>6 DEF ToSet
  <2>2. ToSet(s) \subseteq ToSet(r)
    BY <1>1, <1>4 DEF ToSet
  <2>3. t \in ToSet(r)
    <3>1. 1 \in DOMAIN r
      BY <1>1, <1>3
    <3>. QED BY <3>1, <1>4 DEF ToSet
  <2>. QED BY <2>1, <2>2, <2>3
<1>9. ASSUME NEW i \in 1 .. Len(r)
      PROVE  next'[r[i]] = (IF i = Len(r) THEN Null ELSE r[i + 1])
  <2>1. CASE i = 1
    <3>1. next'[r[i]] = top
      BY <2>1, <1>4 DEF StackTypes
    <3>2. CASE s = <<>>
      <4>1. Len(s) = 0
        BY <3>2
      <4>. QED BY <4>1, <3>1, <3>2, <2>1, <1>2 DEF Chain
    <3>3. CASE s # <<>>
      <4>1. Len(s) # 0
        BY <3>3, <1>1, EmptySeq
      <4>2. 1 \in 1 .. Len(s) /\ i # Len(r)
        BY <4>1, <2>1, <1>1, <1>2
      <4>3. r[i + 1] = s[1]
        BY <4>2, <2>1, <1>4
      <4>. QED BY <4>2, <4>3, <3>1, <3>3 DEF Chain
    <3>. QED BY <3>2, <3>3
  <2>2. CASE i # 1
    <3>. DEFINE j == i - 1
    <3>1. j \in 1 .. Len(s) /\ r[i] = s[j] /\ i = j + 1
      BY <2>2, <1>1, <1>3, <1>6, <1>2
    <3>2. next'[r[i]] = next[s[j]]
      BY <3>1, <1>5 DEF StackTypes
    <3>3. next[s[j]] = (IF j = Len(s) THEN Null ELSE s[j + 1])
      BY <3>1 DEF Chain
    <3>4. i = Len(r) <=> j = Len(s)
      BY <3>1, <1>1, <1>2
    <3>5. j # Len(s) => r[i + 1] = s[j + 1]
      <4>. SUFFICES ASSUME j # Len(s) PROVE r[i + 1] = s[j + 1]
        OBVIOUS
      <4>1. i \in 1 .. Len(s)
        BY <3>1, <1>1
      <4>. QED BY <4>1, <3>1, <1>4
    <3>. QED BY <3>2, <3>3, <3>4, <3>5
  <2>. QED BY <2>1, <2>2
<1>10. r # <<>> /\ top' = r[1]
  BY <1>1, <1>2, <1>4
<1>11. Chain(r)'
  BY <1>2, <1>7, <1>9, <1>10 DEF Chain, Once
<1>. QED BY <1>8, <1>11

(* ... and unlinked from the top or from between two others.                *)
LEMMA UnlinkChain ==
  ASSUME NEW s, Chain(s), NEW k \in 1 .. Len(s), StackTypes,
         \/ k = 1 /\ top' = next[s[k]] /\ next' = next
         \/ k # 1 /\ top' = top /\ next' = [next EXCEPT ![s[k - 1]] = next[s[k]]]
  PROVE  \E r : Chain(r)' /\ ToSet(r) = ToSet(s) \ {s[k]}
<1>1. Len(s) \in Nat /\ s \in Seq(Threads) /\ DOMAIN s = 1 .. Len(s) /\ k \in Nat
  BY DEF Chain
<1>2. PICK r : /\ r \in Seq(Threads) /\ Len(r) = Len(s) - 1
               /\ \A i \in 1 .. Len(s) - 1 : r[i] = IF i < k THEN s[i] ELSE s[i + 1]
  <2>. DEFINE w == RemoveAt(s, k)
  <2>1. /\ w \in Seq(Threads) /\ Len(w) = Len(s) - 1
        /\ \A i \in 1 .. Len(s) - 1 : w[i] = IF i < k THEN s[i] ELSE s[i + 1]
    BY <1>1, RemoveAtProperties
  <2>. HIDE DEF w
  <2>. QED BY <2>1
<1>3. DOMAIN r = 1 .. Len(s) - 1 /\ Len(s) >= 1
  BY <1>1, <1>2
<1>4. \A i, j \in 1 .. Len(s) : s[i] = s[j] => i = j
  BY <1>1 DEF Chain, Once
<1>5. Once(r)
  BY <1>1, <1>2, <1>3, <1>4 DEF Once
<1>6. ToSet(r) = ToSet(s) \ {s[k]}
  <2>1. \A i \in DOMAIN r : \E j \in DOMAIN s : j # k /\ r[i] = s[j]
    BY <1>1, <1>2, <1>3
  <2>2. ASSUME NEW j \in DOMAIN s, j # k PROVE \E i \in DOMAIN r : r[i] = s[j]
    <3>1. CASE j < k  BY <3>1, <1>1, <1>2, <1>3
    <3>2. CASE j > k
      <4>1. j - 1 \in DOMAIN r /\ r[j - 1] = s[j]  BY <3>2, <1>1, <1>2, <1>3
      <4>. QED BY <4>1
    <3>. QED BY <3>1, <3>2, <2>2, <1>1
  <2>. QED BY <1>1, <1>4, <2>1, <2>2 DEF ToSet
<1>7. \A i \in 1 .. Len(s) : s[i] \in Threads
  BY <1>1
<1>8. \A i \in 1 .. Len(s) : next[s[i]] = (IF i = Len(s) THEN Null ELSE s[i + 1])
  BY DEF Chain
<1>9. ASSUME NEW i \in 1 .. Len(r)
      PROVE  next'[r[i]] = (IF i = Len(r) THEN Null ELSE r[i + 1])
  <2>0. i \in 1 .. Len(s) - 1 /\ i + 1 \in 1 .. Len(s) /\ i \in 1 .. Len(s) /\ i \in Nat
    BY <1>1, <1>2
  <2>1. CASE k # 1 /\ i = k - 1
    <3>1. r[i] = s[k - 1] /\ k - 1 \in 1 .. Len(s)
      BY <2>0, <2>1, <1>1, <1>2
    <3>2. next'[r[i]] = next[s[k]]
      BY <3>1, <2>1, <1>7 DEF StackTypes
    <3>3. next[s[k]] = (IF k = Len(s) THEN Null ELSE s[k + 1])
      BY <1>8
    <3>4. i = Len(r) <=> k = Len(s)
      BY <2>0, <2>1, <1>1, <1>2
    <3>5. k # Len(s) => r[i + 1] = s[k + 1]
      <4>. SUFFICES ASSUME k # Len(s) PROVE r[i + 1] = s[k + 1]
        OBVIOUS
      <4>1. k \in 1 .. Len(s) - 1 /\ i + 1 = k
        BY <2>1, <1>1
      <4>. QED BY <4>1, <1>1, <1>2
    <3>. QED BY <3>2, <3>3, <3>4, <3>5
  <2>2. CASE i < k /\ ~(k # 1 /\ i = k - 1)
    <3>1. i + 1 < k /\ i + 1 \in 1 .. Len(s) - 1
      BY <2>0, <2>2, <1>1
    <3>2. r[i] = s[i] /\ r[i + 1] = s[i + 1] /\ i # Len(r)
      BY <3>1, <2>0, <1>1, <1>2
    <3>3. k # 1 => s[i] # s[k - 1]
      BY <2>0, <2>2, <1>1, <1>4
    <3>4. next'[s[i]] = next[s[i]]
      BY <3>3, <2>0, <1>7 DEF StackTypes
    <3>5. i # Len(s)
      BY <2>0, <1>1
    <3>. QED BY <3>2, <3>4, <3>5, <2>0, <1>8
  <2>3. CASE i >= k
    <3>1. r[i] = s[i + 1]
      BY <2>0, <2>3, <1>1, <1>2
    <3>2. k # 1 => s[i + 1] # s[k - 1]
      BY <2>0, <2>3, <1>1, <1>4
    <3>3. next'[s[i + 1]] = next[s[i + 1]]
      BY <3>2, <2>0, <1>7 DEF StackTypes
    <3>4. next[s[i + 1]] = (IF i + 1 = Len(s) THEN Null ELSE s[i + 1 + 1])
      BY <2>0, <1>8
    <3>5. i = Len(r) <=> i + 1 = Len(s)
      BY <2>0, <1>1, <1>2
    <3>6. i # Len(r) => r[i + 1] = s[i + 1 + 1]
      <4>. SUFFICES ASSUME i # Len(r) PROVE r[i + 1] = s[i + 1 + 1]
        OBVIOUS
      <4>0. i # Len(s) - 1
        BY <1>2
      <4>1. i + 1 \in 1 .. Len(s) - 1 /\ ~(i + 1 < k)
        BY <4>0, <2>0, <2>3, <1>1
      <4>. QED BY <4>1, <1>2
    <3>. QED BY <3>1, <3>3, <3>4, <3>5, <3>6
  <2>. QED BY <2>0, <2>1, <2>2, <2>3, <1>1
<1>10. top' = (IF r = <<>> THEN Null ELSE r[1])
  <2>1. r = <<>> <=> Len(s) = 1
    BY <1>1, <1>2, <1>3, EmptySeq
  <2>2. CASE k = 1
    <3>0. 1 \in 1 .. Len(s) /\ 1 + 1 = 2
      BY <1>1, <1>3
    <3>1. top' = (IF Len(s) = 1 THEN Null ELSE s[2])
      BY <3>0, <2>2, <1>8
    <3>2. Len(s) # 1 => r[1] = s[2]
      <4>. SUFFICES ASSUME Len(s) # 1 PROVE r[1] = s[2]
        OBVIOUS
      <4>1. 1 \in 1 .. Len(s) - 1 /\ ~(1 < k) /\ 1 + 1 = 2
        BY <2>2, <1>1, <1>3
      <4>. QED BY <4>1, <1>2
    <3>. QED BY <3>1, <3>2, <2>1
  <2>3. CASE k # 1
    <3>1. 1 \in 1 .. Len(s) - 1 /\ 1 < k
      BY <2>3, <1>1
    <3>2. r[1] = s[1] /\ Len(s) # 1 /\ s # <<>>
      BY <3>1, <1>1, <1>2
    <3>. QED BY <3>2, <2>1, <2>3 DEF Chain
  <2>. QED BY <2>2, <2>3
<1>11. Chain(r)'
  BY <1>2, <1>5, <1>9, <1>10 DEF Chain, Once
<1>. QED BY <1>6, <1>11

-----------------------------------------------------------------------------
(* A calm step changes nothing of the list, nor of who stands on it, has    *)
(* popped a node of it or walks along it.                                   *)
Waiting == {"offered", "count", "blocked"}

Calm(t) ==
  /\ Apart(t)
  /\ UNCHANGED <<top, next, taken>> /\ (~astray' => ~astray)
  /\ pc'[t] \in FrameSteps <=> pc[t] \in FrameSteps
  /\ pc'[t] \in Waiting => pc[t] \in Waiting
  /\ pc'[t] = "recover" => pc[t] = "recover"
  /\ pc'[t] = "pop_take" <=> pc[t] = "pop_take"
  /\ pc'[t] \in {"pop_take", "remove_walk"} => pc'[t] = pc[t] /\ looked'[t] = looked[t]

(* The steps that are not about the stack.                                  *)
Outer == SelectSteps \cup {"complete", "return"}

LEMMA OuterCalm ==
  ASSUME Handles, NEW t \in Threads, UNCHANGED <<held, rendezvousVars>>,
         pc[t] \notin FrameSteps \cup {"pop_take"},
         \/ \E to \in Outer : pc' = [pc EXCEPT ![t] = to] /\ op' = op
         \/ pc' = [pc EXCEPT ![t] = "idle"] /\ op' = [op EXCEPT ![t] = "none"]
  PROVE  Calm(t)
<1>1. Receivers' = Receivers
  BY SameReceivers
<1>2. StackTypes'
  BY DEF Handles, StackTypes, rendezvousVars, stackVars
<1>3. \A u \in Threads \ {t} : pc'[u] = pc[u] /\ op'[u] = op[u]
  BY DEF Handles, StackTypes
<1>4. \/ pc'[t] \in Outer /\ op'[t] = op[t]
      \/ pc'[t] = "idle" /\ op'[t] = "none"
  BY DEF Handles, StackTypes
<1>5. pc'[t] \notin FrameSteps \cup Popping \cup Removing \cup Looking \cup Waiting \cup {"unborn"}
  BY <1>4 DEF Outer, SelectSteps, FrameSteps, Popping, Removing, Looking, Waiting
<1>6. HandlesOf(t)'
  <2>1. HandlesOf(t)
    BY DEF Handles
  <2>2. pc'[t] = "idle" => op'[t] = "none"
    BY <1>4 DEF Outer, SelectSteps
  <2>3. op'[t] = "select_recv" => "recv" \in held'[t]
    BY <1>4, <2>1 DEF HandlesOf
  <2>. QED BY <2>2, <2>3, <1>5 DEF HandlesOf
<1>7. Apart(t)
  BY <1>1, <1>2, <1>3, <1>6 DEF Apart, rendezvousVars, stackVars
<1>8. pc'[t] \notin {"recover", "pop_take", "remove_walk"}
  BY <1>5 DEF Popping, Removing
<1>. QED BY <1>5, <1>7, <1>8 DEF Calm, rendezvousVars, stackVars

LEMMA SelectOuter ==
  ASSUME NEW t \in Threads, SelectStep(t), Handles
  PROVE  /\ pc[t] \in {"decide", "sleep", "abort", "walk", "judge"}
         /\ held' = held
         /\ \/ \E to \in Outer : pc' = [pc EXCEPT ![t] = to] /\ op' = op
            \/ pc' = [pc EXCEPT ![t] = "idle"] /\ op' = [op EXCEPT ![t] = "none"]
<1>1. CASE Decide(t)
  BY <1>1 DEF Decide, At, Step, localVars, quietVars, Outer, SelectSteps
<1>2. CASE WakeUp(t)
  BY <1>2 DEF WakeUp, At, Step, Outer, SelectSteps
<1>3. CASE AbortLoad(t)
  BY <1>3 DEF AbortLoad, At, Proceed, Step, Outer, SelectSteps
<1>4. CASE Walk(t)
  BY <1>4 DEF Walk, At, Proceed, Step, Outer, SelectSteps
<1>5. CASE Judge(t)
  BY <1>5 DEF Judge, At, CompleteArm, TakeDefault, Proceed, Step, Finish, probeVars, Outer,
              SelectSteps
<1>. QED BY <1>1, <1>2, <1>3, <1>4, <1>5 DEF SelectStep

LEMMA ProbeOuter ==
  ASSUME NEW t \in Threads, Probe(t) \/ ProbeOtherSide(t), Handles
  PROVE  /\ pc[t] \in {"probe", "probe_more"}
         /\ UNCHANGED <<held, rendezvousVars>>
         /\ \/ \E to \in Outer : pc' = [pc EXCEPT ![t] = to] /\ op' = op
            \/ pc' = [pc EXCEPT ![t] = "idle"] /\ op' = [op EXCEPT ![t] = "none"]
<1>1. ASSUME ArmReady(t) PROVE \E to \in Outer : pc' = [pc EXCEPT ![t] = to] /\ op' = op
  BY <1>1 DEF ArmReady, CompleteArm, Proceed, Step, Outer, SelectSteps
<1>2. ASSUME ArmNotReady(t)
      PROVE  \/ \E to \in Outer : pc' = [pc EXCEPT ![t] = to] /\ op' = op
             \/ pc' = [pc EXCEPT ![t] = "idle"] /\ op' = [op EXCEPT ![t] = "none"]
  BY <1>2 DEF ArmNotReady, TakeDefault, Proceed, Step, Finish, Outer, SelectSteps
<1>3. CASE Probe(t)
  <2>1. CASE Counterpart(t)
    BY <2>1, <1>1, <1>3 DEF Probe, At, probeVars
  <2>2. CASE ~Counterpart(t)
    BY <2>2, <1>3 DEF Probe, At, probeVars, Step, Outer, SelectSteps
  <2>. QED BY <2>1, <2>2
<1>4. CASE ProbeOtherSide(t)
  BY <1>1, <1>2, <1>4 DEF ProbeOtherSide, At, probeVars
<1>. QED BY <1>3, <1>4

(* The steps of Endpoints that RendezvousStep and RendezvousChance take.    *)
LEMMA WakeCalm ==
  ASSUME Handles, NEW t \in Threads, WakeStep(t) \/ DeadlinePasses(t) \/ Spurious(t),
         UNCHANGED <<held, pc, op, rendezvousVars>>
  PROVE  Calm(t)
<1>1. Receivers' = Receivers
  BY SameReceivers
<1>2. StackTypes' /\ HandlesOf(t)'
  BY <1>1 DEF Handles, StackTypes, HandlesOf, rendezvousVars, stackVars
<1>. QED BY <1>1, <1>2 DEF Calm, Apart, rendezvousVars, stackVars

LEMMA WaitCalm ==
  ASSUME Handles, NEW t \in Threads, UNCHANGED rendezvousVars,
         \/ ParkReturns(t, "park", "again") \/ ParkReturns(t, "blocked", "offered")
         \/ Again(t, "pop")
  PROVE  Calm(t)
<1>1. Receivers' = Receivers
  BY SameReceivers DEF ParkReturns, Again
<1>2. StackTypes'
  BY DEF Handles, StackTypes, ParkReturns, Again, Step, rendezvousVars, stackVars
<1>3. /\ \A u \in Threads \ {t} : pc'[u] = pc[u] /\ op'[u] = op[u]
      /\ op'[t] = op[t] /\ held' = held
      /\ \/ pc[t] = "park" /\ pc'[t] = "again"
         \/ pc[t] = "blocked" /\ pc'[t] = "offered"
         \/ pc[t] = "again" /\ pc'[t] = "pop"
  BY DEF Handles, StackTypes, ParkReturns, Again, At, Step
<1>4. HandlesOf(t)'
  <2>1. HandlesOf(t)
    BY DEF Handles
  <2>. QED BY <1>3, <2>1 DEF HandlesOf, Popping, Removing, Looking
<1>5. Apart(t)
  BY <1>1, <1>2, <1>3, <1>4 DEF Apart, rendezvousVars, stackVars
<1>. QED BY <1>3, <1>5 DEF Calm, FrameSteps, Waiting, rendezvousVars, stackVars

LEMMA ReturnCalm ==
  ASSUME Handles, NEW t \in Threads, UNCHANGED rendezvousVars,
         Return(t) \/ PushArm(t, "enrol") \/ SelectStep(t)
  PROVE  Calm(t)
<1>1. CASE Return(t)
  BY <1>1, OuterCalm DEF Return, At, Finish, FrameSteps
<1>2. CASE PushArm(t, "enrol")
  BY <1>2, OuterCalm DEF PushArm, At, Step, FrameSteps, Outer, SelectSteps
<1>3. CASE SelectStep(t)
  <2>1. pc[t] \notin FrameSteps \cup {"pop_take"}
    BY <1>3, SelectOuter DEF FrameSteps
  <2>. QED BY <2>1, <1>3, SelectOuter, OuterCalm
<1>. QED BY <1>1, <1>2, <1>3

LEMMA CallCalm ==
  ASSUME Handles, NEW t \in Threads,
         \/ SendCall(t) \/ RecvCall(t) \/ Complete(t)
         \/ SelectCall(t, "select_recv", "recv") /\ UNCHANGED rendezvousVars
  PROVE  Calm(t)
<1>1. /\ UNCHANGED <<held, stackVars, astray>>
      /\ \A u \in Threads \ {t} : pc'[u] = pc[u] /\ op'[u] = op[u]
      /\ DOMAIN pc' = Threads /\ DOMAIN op' = Threads
      /\ pc[t] \in {"idle", "complete"}
      /\ \/ pc'[t] = "check" /\ op'[t] = "send"
         \/ pc'[t] = "probe" /\ op'[t] = "select_send"
         \/ pc'[t] = "pop" /\ op'[t] \in {"recv", "try_recv"} /\ "recv" \in held[t]
         \/ pc'[t] = "probe" /\ op'[t] = "select_recv" /\ "recv" \in held[t]
  <2>1. CASE SendCall(t)
    BY <2>1 DEF SendCall, Call, SelectCall, At, Handles, StackTypes, localVars, quietVars,
                probeVars, stackVars
  <2>2. CASE RecvCall(t)
    BY <2>2 DEF RecvCall, Call, At, Handles, StackTypes, localVars, quietVars, rendezvousVars
  <2>3. CASE SelectCall(t, "select_recv", "recv") /\ UNCHANGED rendezvousVars
    BY <2>3 DEF SelectCall, At, Handles, StackTypes, probeVars, rendezvousVars
  <2>4. CASE Complete(t)
    BY <2>4 DEF Complete, CompleteBy, At, Handles, StackTypes, HandlesOf, localVars, quietVars,
                rendezvousVars
  <2>. QED BY <2>1, <2>2, <2>3, <2>4
<1>2. Receivers' = Receivers
  BY <1>1, SameReceivers
<1>3. StackTypes'
  BY <1>1 DEF Handles, StackTypes, stackVars
<1>4. HandlesOf(t)'
  BY <1>1 DEF HandlesOf, Popping, Removing, Looking
<1>5. Apart(t)
  BY <1>1, <1>2, <1>3, <1>4 DEF Apart, stackVars
<1>. QED BY <1>1, <1>5 DEF Calm, FrameSteps, Waiting, stackVars

LEMMA HandleCalm ==
  ASSUME Handles, NEW t \in Threads,
         \/ (DropSender(t) \/ \E u \in Threads : CloneHandle(t, u)) /\ UNCHANGED rendezvousVars
         \/ DropOne(t) \/ DropLast(t)
  PROVE  \E u \in Threads : Calm(u)
<1>1. ASSUME NEW side \in {"send", "recv"}, NEW to \in {"idle", "drop"},
             MayDrop(t, side), held' = [held EXCEPT ![t] = @ \ {side}],
             DOMAIN pc' = Threads, \A u \in Threads \ {t} : pc'[u] = pc[u], pc'[t] = to,
             UNCHANGED <<op, rendezvousVars>>
      PROVE  Calm(t)
  <2>1. /\ \A u \in Threads \ {t} : held'[u] = held[u] /\ pc'[u] = pc[u] /\ op'[u] = op[u]
        /\ held'[t] \subseteq held[t] /\ StackTypes'
    BY <1>1 DEF Handles, StackTypes, rendezvousVars, stackVars
  <2>2. Receivers = {} => Receivers' = {}
    BY <2>1 DEF Receivers
  <2>3. pc[t] = "idle" /\ op[t] = "none" /\ pc'[t] = to
    BY <1>1 DEF MayDrop, At, Handles, StackTypes, HandlesOf
  <2>4. HandlesOf(t)'
    BY <2>3, <1>1 DEF HandlesOf, Popping, Removing, Looking
  <2>5. Apart(t)
    BY <2>1, <2>2, <2>4, <1>1 DEF Apart, rendezvousVars, stackVars
  <2>. QED BY <2>3, <2>5, <1>1 DEF Calm, FrameSteps, Waiting, rendezvousVars, stackVars
<1>2. ASSUME NEW side \in {"send", "recv"}, NEW wakes, DropHandle(t, side, wakes),
             UNCHANGED rendezvousVars
      PROVE  Calm(t)
  <2>1. pc' = pc /\ DOMAIN pc = Threads /\ pc[t] = "idle"
    BY <1>2 DEF DropHandle, MayDrop, At, Handles, StackTypes
  <2>. QED BY <1>1, <1>2, <2>1 DEF DropHandle
<1>3. CASE DropSender(t) /\ UNCHANGED rendezvousVars
  BY <1>2, <1>3 DEF DropSender
<1>4. CASE DropOne(t)
  BY <1>2, <1>4 DEF DropOne, DropReceiver
<1>5. CASE DropLast(t)
  <2>1. DOMAIN pc' = Threads /\ pc'[t] = "drop" /\ \A u \in Threads \ {t} : pc'[u] = pc[u]
    BY <1>5 DEF DropLast, Step, Handles, StackTypes
  <2>. QED BY <1>1, <1>5, <2>1 DEF DropLast, Step
<1>6. ASSUME NEW u \in Threads, CloneHandle(t, u), UNCHANGED rendezvousVars
      PROVE  Calm(u)
  <2>1. /\ held' = [held EXCEPT ![u] = {program.offspring[u]}]
        /\ pc' = [pc EXCEPT ![u] = "idle"] /\ op' = op
        /\ pc[u] = "unborn" /\ program.offspring[u] \in held[t]
    BY <1>6 DEF CloneHandle, Step
  <2>2. program.offspring[u] \in {"send", "recv"}
    BY <2>1 DEF Handles, StackTypes
  <2>3. /\ \A v \in Threads \ {u} : held'[v] = held[v] /\ pc'[v] = pc[v] /\ op'[v] = op[v]
        /\ held'[u] = {program.offspring[u]} /\ StackTypes'
    BY <2>1, <2>2, <1>6 DEF Handles, StackTypes, rendezvousVars, stackVars
  <2>4. Receivers = {} => Receivers' = {}
    BY <2>1, <2>3 DEF Receivers
  <2>5. op[u] = "none" /\ pc'[u] = "idle" /\ op'[u] = "none"
    BY <2>1 DEF Handles, StackTypes, HandlesOf
  <2>6. HandlesOf(u)'
    BY <2>5 DEF HandlesOf, Popping, Removing, Looking
  <2>7. Apart(u)
    BY <2>3, <2>4, <2>6, <1>6, <2>1 DEF Apart, rendezvousVars, stackVars
  <2>. QED BY <2>1, <2>5, <2>7, <1>6 DEF Calm, FrameSteps, Waiting, rendezvousVars, stackVars
<1>. QED BY <1>3, <1>4, <1>5, <1>6

-----------------------------------------------------------------------------
(* The calm steps of the channel itself.                                    *)
LEMMA LookTypes ==
  ASSUME StackTypes, NEW t \in Threads, NEW node \in Nodes, NEW below \in Nodes,
         Look(t, node, below)
  PROVE  /\ looked' \in [Threads -> Looks]
         /\ looked'[t].node = node /\ looked'[t].below = below
         /\ \A u \in Threads \ {t} : looked'[u] = looked[u]
<1>1. [node |-> node, below |-> below] \in Looks
  BY DEF Looks
<1>. QED BY <1>1 DEF Look, StackTypes

(* One that moves its thread and leaves its handles and operation.          *)
LEMMA MoveCalm ==
  ASSUME Handles, NEW t \in Threads, NEW to,
         UNCHANGED <<held, top, next, taken>>, ~astray' => ~astray,
         looked' \in [Threads -> Looks], \A u \in Threads \ {t} : looked'[u] = looked[u],
         pc' = [pc EXCEPT ![t] = to], op' = op,
         to \notin {"unborn", "idle", "pop_take", "remove_walk", "recover"},
         pc[t] # "pop_take",
         to \in Popping => pc[t] \in Popping,
         to \in Removing => Receivers = {},
         to \in Looking => looked'[t].node \in Threads,
         to \in FrameSteps <=> pc[t] \in FrameSteps,
         to \in Waiting => pc[t] \in Waiting
  PROVE  Calm(t)
<1>1. Receivers' = Receivers
  BY SameReceivers
<1>2. StackTypes'
  BY DEF Handles, StackTypes
<1>3. pc'[t] = to /\ \A u \in Threads \ {t} : pc'[u] = pc[u] /\ op'[u] = op[u]
  BY DEF Handles, StackTypes
<1>4. HandlesOf(t)'
  BY <1>1, <1>3 DEF Handles, HandlesOf
<1>5. Apart(t)
  BY <1>1, <1>2, <1>3, <1>4 DEF Apart
<1>. QED BY <1>3, <1>5 DEF Calm

(* One that ends the operation, or has its answer.                          *)
LEMMA EndCalm ==
  ASSUME Handles, NEW t \in Threads,
         UNCHANGED <<held, top, next, taken>>, ~astray' => ~astray,
         looked' \in [Threads -> Looks], \A u \in Threads \ {t} : looked'[u] = looked[u],
         Finish(t) \/ \E a : Answer(t, a),
         pc[t] \notin FrameSteps \cup {"pop_take"}
  PROVE  Calm(t)
<1>1. Receivers' = Receivers
  BY SameReceivers
<1>2. StackTypes'
  BY DEF Handles, StackTypes, Finish, Answer
<1>3. /\ \/ pc'[t] = "idle" /\ op'[t] = "none"
         \/ pc'[t] = "return" /\ op'[t] = op[t]
      /\ \A u \in Threads \ {t} : pc'[u] = pc[u] /\ op'[u] = op[u]
  BY DEF Handles, StackTypes, Finish, Answer
<1>4. HandlesOf(t)'
  BY <1>1, <1>3 DEF Handles, HandlesOf, Popping, Removing, Looking
<1>5. Apart(t)
  BY <1>1, <1>2, <1>3, <1>4 DEF Apart
<1>. QED BY <1>3, <1>5 DEF Calm, FrameSteps, Waiting

LEMMA LinksTypes ==
  ASSUME StackTypes, NEW n \in Threads, NEW m \in Links(n)
  PROVE  m \in Nodes
BY DEF StackTypes, Links, Nodes

LEMMA CountCalm ==
  ASSUME Handles, NEW t \in Threads, Check(t) \/ CountReceivers(t) \/ CountSenders(t)
  PROVE  Calm(t)
<1>0. UNCHANGED <<held, top, next, taken, looked, astray>> /\ looked \in [Threads -> Looks]
  BY DEF Check, CheckReceivers, CountReceivers, CountSenders, localVars, quietVars,
         rendezvousVars, stackVars, Handles, StackTypes
<1>1. CASE Check(t)
  <2>1. pc[t] = "check"
    BY <1>1 DEF Check, CheckReceivers, At
  <2>2. CASE Finish(t)
    BY <1>0, <2>1, <2>2, EndCalm DEF FrameSteps
  <2>3. CASE Step(t, "push")
    BY <1>0, <2>1, <2>3, MoveCalm DEF Step, Popping, Removing, Looking, FrameSteps, Waiting
  <2>. QED BY <1>1, <2>2, <2>3 DEF Check, CheckReceivers
<1>2. CASE CountReceivers(t)
  <2>1. pc[t] = "count"
    BY <1>2 DEF CountReceivers, At
  <2>2. CASE Receivers = {} /\ Step(t, "remove")
    BY <1>0, <2>1, <2>2, MoveCalm DEF Step, Popping, Removing, Looking, FrameSteps, Waiting
  <2>3. CASE Step(t, "blocked")
    BY <1>0, <2>1, <2>3, MoveCalm DEF Step, Popping, Removing, Looking, FrameSteps, Waiting
  <2>. QED BY <1>2, <2>2, <2>3 DEF CountReceivers
<1>3. CASE CountSenders(t)
  <2>1. pc[t] = "count_senders"
    BY <1>3 DEF CountSenders, At
  <2>2. CASE \E a : Answer(t, a)
    BY <1>0, <2>1, <2>2, EndCalm DEF FrameSteps
  <2>3. CASE Step(t, "enlist") \/ Step(t, "park")
    BY <1>0, <2>1, <2>3, MoveCalm DEF Step, Popping, Removing, Looking, FrameSteps, Waiting
  <2>. QED BY <1>3, <2>2, <2>3 DEF CountSenders, Nothing
<1>. QED BY <1>1, <1>2, <1>3

LEMMA PopCalm ==
  ASSUME Handles, NEW t \in Threads,
         PopLoad(t) \/ PopNext(t) \/ PopUnpark(t) \/ EnlistAndInvite(t)
  PROVE  Calm(t)
<1>0. StackTypes /\ HandlesOf(t) /\ Null \in Nodes
  BY DEF Handles, Nodes
<1>1. CASE PopLoad(t)
  <2>1. pc[t] = "pop" /\ UNCHANGED <<held, top, next, taken, astray>> /\ Look(t, top, Null)
    BY <1>1 DEF PopLoad, At, localVars, quietVars
  <2>2. /\ looked' \in [Threads -> Looks] /\ \A u \in Threads \ {t} : looked'[u] = looked[u]
        /\ looked'[t].node = top
    BY <1>0, <2>1, LookTypes DEF StackTypes
  <2>3. CASE top = Null
    <3>1. Step(t, "count_senders")
      BY <1>1, <2>3 DEF PopLoad
    <3>. QED BY <3>1, <2>1, <2>2, MoveCalm
             DEF Step, Popping, Removing, Looking, FrameSteps, Waiting
  <2>4. CASE top # Null
    <3>1. top \in Threads
      BY <1>0, <2>4 DEF StackTypes, Nodes
    <3>2. Step(t, "pop_next")
      BY <1>1, <2>4 DEF PopLoad
    <3>. QED BY <3>1, <3>2, <2>1, <2>2, MoveCalm
             DEF Step, Popping, Removing, Looking, FrameSteps, Waiting
  <2>. QED BY <2>3, <2>4
<1>2. CASE PopNext(t)
  <2>1. /\ pc[t] = "pop_next" /\ UNCHANGED <<held, top, next, taken, astray>>
        /\ Step(t, "pop_cas")
    BY <1>2 DEF PopNext, At, localVars, quietVars
  <2>2. looked[t].node \in Threads
    BY <1>0, <2>1 DEF HandlesOf, Looking
  <2>3. PICK n \in Links(looked[t].node) : Look(t, looked[t].node, n)
    BY <1>2 DEF PopNext
  <2>4. n \in Nodes /\ looked[t].node \in Nodes
    BY <1>0, <2>2, <2>3, LinksTypes DEF Nodes
  <2>5. /\ looked' \in [Threads -> Looks] /\ \A u \in Threads \ {t} : looked'[u] = looked[u]
        /\ looked'[t].node \in Threads
    BY <1>0, <2>2, <2>3, <2>4, LookTypes
  <2>. QED BY <2>1, <2>5, MoveCalm
           DEF Step, Popping, Removing, Looking, FrameSteps, Waiting
<1>3. CASE PopUnpark(t)
  <2>1. /\ pc[t] = "pop_unpark" /\ UNCHANGED <<held, top, next, taken, astray>>
        /\ Look(t, Null, Null) /\ Answer(t, "ok")
    BY <1>3 DEF PopUnpark, At
  <2>2. looked' \in [Threads -> Looks] /\ \A u \in Threads \ {t} : looked'[u] = looked[u]
    BY <1>0, <2>1, LookTypes
  <2>. QED BY <2>1, <2>2, EndCalm DEF FrameSteps
<1>4. CASE EnlistAndInvite(t)
  <2>1. /\ pc[t] = "enlist" /\ UNCHANGED <<held, top, next, taken, looked, astray>>
        /\ Step(t, "pop") /\ looked \in [Threads -> Looks]
    BY <1>0, <1>4 DEF EnlistAndInvite, At, rendezvousVars, stackVars, StackTypes
  <2>. QED BY <2>1, MoveCalm DEF Step, Popping, Removing, Looking, FrameSteps, Waiting
<1>. QED BY <1>1, <1>2, <1>3, <1>4

LEMMA RemoveCalm ==
  ASSUME Handles, NEW t \in Threads, RemoveNext(t) \/ RemoveBelow(t)
  PROVE  Calm(t)
<1>0. StackTypes /\ HandlesOf(t)
  BY DEF Handles
<1>1. CASE RemoveNext(t)
  <2>1. /\ pc[t] = "remove_next" /\ UNCHANGED <<held, top, next, taken, astray>>
        /\ Step(t, "remove_head") /\ Look(t, t, next[t])
    BY <1>1 DEF RemoveNext, At, localVars, quietVars
  <2>2. t \in Nodes /\ next[t] \in Nodes /\ Receivers = {}
    BY <1>0, <2>1 DEF StackTypes, Nodes, HandlesOf, Removing
  <2>3. looked' \in [Threads -> Looks] /\ \A u \in Threads \ {t} : looked'[u] = looked[u]
    BY <1>0, <2>1, <2>2, LookTypes
  <2>. QED BY <2>1, <2>2, <2>3, MoveCalm
           DEF Step, Popping, Removing, Looking, FrameSteps, Waiting
<1>2. CASE RemoveBelow(t)
  <2>1. /\ pc[t] = "remove_below" /\ UNCHANGED <<held, top, next, taken, astray>>
        /\ Step(t, "remove_link") /\ Look(t, looked[t].node, next[t])
    BY <1>2 DEF RemoveBelow, At, localVars, quietVars
  <2>2. /\ looked[t].node \in Threads /\ looked[t].node \in Nodes /\ next[t] \in Nodes
        /\ Receivers = {}
    BY <1>0, <2>1 DEF StackTypes, Nodes, HandlesOf, Removing, Looking
  <2>3. /\ looked' \in [Threads -> Looks] /\ \A u \in Threads \ {t} : looked'[u] = looked[u]
        /\ looked'[t].node \in Threads
    BY <1>0, <2>1, <2>2, LookTypes
  <2>. QED BY <2>1, <2>2, <2>3, MoveCalm
           DEF Step, Popping, Removing, Looking, FrameSteps, Waiting
<1>. QED BY <1>1, <1>2

LEMMA DropCalm ==
  ASSUME Handles, NEW t \in Threads, DropLoad(t) \/ DropNext(t) \/ DropUnpark(t)
  PROVE  Calm(t)
<1>0. StackTypes /\ HandlesOf(t) /\ Null \in Nodes
  BY DEF Handles, Nodes
<1>1. CASE DropLoad(t)
  <2>1. pc[t] = "drop" /\ UNCHANGED <<held, top, next, taken, astray>> /\ Look(t, top, Null)
    BY <1>1 DEF DropLoad, At, quietVars
  <2>2. /\ looked' \in [Threads -> Looks] /\ \A u \in Threads \ {t} : looked'[u] = looked[u]
        /\ looked'[t].node = top
    BY <1>0, <2>1, LookTypes DEF StackTypes
  <2>3. CASE top = Null
    BY <1>1, <2>1, <2>2, <2>3, EndCalm DEF DropLoad, WalkEnds, FrameSteps
  <2>4. CASE top # Null
    <3>1. top \in Threads
      BY <1>0, <2>4 DEF StackTypes, Nodes
    <3>. QED BY <3>1, <1>1, <2>1, <2>2, <2>4, MoveCalm
             DEF DropLoad, Step, Popping, Removing, Looking, FrameSteps, Waiting
  <2>. QED BY <2>3, <2>4
<1>2. CASE DropNext(t)
  <2>1. /\ pc[t] = "drop_next" /\ UNCHANGED <<held, top, next, taken>> /\ (~astray' => ~astray)
        /\ Step(t, "drop_unpark")
    BY <1>2 DEF DropNext, At, localVars, quietVars, Stray
  <2>2. looked[t].node \in Threads
    BY <1>0, <2>1 DEF HandlesOf, Looking
  <2>3. PICK n \in Links(looked[t].node) : Look(t, looked[t].node, n)
    BY <1>2 DEF DropNext
  <2>4. n \in Nodes /\ looked[t].node \in Nodes
    BY <1>0, <2>2, <2>3, LinksTypes DEF Nodes
  <2>5. /\ looked' \in [Threads -> Looks] /\ \A u \in Threads \ {t} : looked'[u] = looked[u]
        /\ looked'[t].node \in Threads
    BY <1>0, <2>2, <2>3, <2>4, LookTypes
  <2>. QED BY <2>1, <2>5, MoveCalm
           DEF Step, Popping, Removing, Looking, FrameSteps, Waiting
<1>3. CASE DropUnpark(t)
  <2>1. /\ pc[t] = "drop_unpark" /\ UNCHANGED <<held, top, next, taken, astray>>
        /\ Look(t, looked[t].below, Null)
    BY <1>3 DEF DropUnpark, At
  <2>2. looked[t].below \in Nodes
    BY <1>0 DEF StackTypes, Looks
  <2>3. /\ looked' \in [Threads -> Looks] /\ \A u \in Threads \ {t} : looked'[u] = looked[u]
        /\ looked'[t].node = looked[t].below
    BY <1>0, <2>1, <2>2, LookTypes
  <2>4. CASE looked[t].below = Null
    BY <1>3, <2>1, <2>3, <2>4, EndCalm DEF DropUnpark, WalkEnds, FrameSteps
  <2>5. CASE looked[t].below # Null
    <3>1. looked[t].below \in Threads
      BY <2>2, <2>5 DEF Nodes
    <3>. QED BY <3>1, <1>3, <2>1, <2>3, <2>5, MoveCalm
             DEF DropUnpark, Step, Popping, Removing, Looking, FrameSteps, Waiting
  <2>. QED BY <2>4, <2>5
<1>. QED BY <1>1, <1>2, <1>3

-----------------------------------------------------------------------------
(* Who stands on the list s, who has popped a node of it, and who walks     *)
(* along it to take back its own.                                           *)
OnItsWay(t, n) == pc[t] = "pop_take" /\ looked[t].node = n

Held(t, n) == Offers(n) /\ ~taken[n] /\ \A u \in Threads \ {t} : ~OnItsWay(u, n)

(* A walk that is at n does not come to an end before it gets to t, unless  *)
(* it goes astray.                                                          *)
Leads(n, t) ==
  /\ n # t
  /\ \E nodes \in SUBSET Threads :
       n \in nodes /\ \A m \in nodes \ {t} : Offers(m) => next[m] \in nodes

Standing(s) ==
  /\ \A n \in ToSet(s) : Offers(n) /\ ~taken[n] /\ pc[n] # "recover"
  /\ \A t \in Threads : \A n \in ToSet(s) : ~OnItsWay(t, n)
  /\ \A t, n \in Threads : OnItsWay(t, n) => Held(t, n)
  /\ \A t \in ToSet(s) : pc[t] = "remove_walk" => Leads(looked[t].node, t)

(* An offer nobody has taken or is taking is on the list.                   *)
Listed(s) ==
  \A n \in Threads : pc[n] \in Waiting /\ ~taken[n] =>
    n \in ToSet(s) \/ \E t \in Threads : OnItsWay(t, n)

StackInv == Handles /\ (~astray => \E s : Chain(s) /\ Standing(s) /\ Listed(s))

(* No step but a stray one makes a walk miss the node it is after, as long  *)
(* as that is on the list: neither one that leaves the links alone, ...     *)
LEMMA LeadsStays ==
  ASSUME NEW n \in Threads, NEW t \in Threads, Leads(n, t),
         next' = next, \A m \in Threads : Offers(m)' => Offers(m)
  PROVE  Leads(n, t)'
BY DEF Leads

(* ... nor a push, ...                                                      *)
LEMMA LeadsPush ==
  ASSUME NEW s, Chain(s), NEW n \in Threads, NEW t \in ToSet(s), Leads(n, t),
         NEW u \in Threads, StackTypes, next' = [next EXCEPT ![u] = top],
         \A m \in Threads \ {u} : Offers(m)' => Offers(m)
  PROVE  Leads(n, t)'
<1>1. PICK nodes \in SUBSET Threads :
        n \in nodes /\ \A m \in nodes \ {t} : Offers(m) => next[m] \in nodes
  BY DEF Leads
<1>2. Len(s) \in Nat /\ DOMAIN s = 1 .. Len(s) /\ s \in Seq(Threads)
  BY DEF Chain
<1>3. PICK k \in 1 .. Len(s) : s[k] = t
  BY <1>2 DEF ToSet
<1>. DEFINE upper == {s[i] : i \in 1 .. k}
            more == nodes \cup upper
<1>4. more \in SUBSET Threads
  BY <1>1, <1>2, <1>3
<1>5. ASSUME NEW i \in 1 .. k, s[i] # t PROVE next[s[i]] \in upper
  <2>1. i # k /\ k \in 1 .. Len(s)
    BY <1>3, <1>5
  <2>2. i \in 1 .. Len(s) /\ i # Len(s) /\ i + 1 \in 1 .. k
    <3>1. i \in Int /\ k \in Int /\ 1 <= i /\ i <= k /\ k <= Len(s) /\ Len(s) \in Int
      BY <1>2, <2>1
    <3>. QED BY <3>1, <2>1
  <2>3. next[s[i]] = s[i + 1]
    BY <2>2 DEF Chain
  <2>. QED BY <2>2, <2>3
<1>6. top \in upper
  <2>1. s # <<>> /\ 1 \in 1 .. k
    BY <1>2, <1>3
  <2>. QED BY <2>1 DEF Chain
<1>7. ASSUME NEW m \in more \ {t}, Offers(m)' PROVE next'[m] \in more
  <2>1. CASE m = u
    BY <2>1, <1>4, <1>6, <1>7 DEF StackTypes
  <2>2. CASE m # u /\ m \in nodes
    BY <2>2, <1>1, <1>4, <1>7 DEF StackTypes
  <2>3. CASE m # u /\ m \in upper
    BY <2>3, <1>4, <1>5, <1>7 DEF StackTypes
  <2>. QED BY <2>1, <2>2, <2>3
<1>8. n \in more /\ n # t
  BY <1>1 DEF Leads
<1>. HIDE DEF more
<1>. QED BY <1>4, <1>7, <1>8 DEF Leads

(* ... nor one that takes another node u out.                               *)
LEMMA LeadsLink ==
  ASSUME NEW n \in Threads, NEW t \in Threads, Leads(n, t), StackTypes,
         NEW u \in Threads \ {t}, NEW above \in Threads, next[above] = u,
         next' = [next EXCEPT ![above] = next[u]], Offers(u),
         \A m \in Threads : Offers(m)' => Offers(m)
  PROVE  Leads(n, t)'
<1>1. PICK nodes \in SUBSET Threads :
        n \in nodes /\ \A m \in nodes \ {t} : Offers(m) => next[m] \in nodes
  BY DEF Leads
<1>2. ASSUME NEW m \in nodes \ {t}, Offers(m)' PROVE next'[m] \in nodes
  BY <1>1, <1>2 DEF StackTypes
<1>. QED BY <1>1, <1>2 DEF Leads

-----------------------------------------------------------------------------
(* Each kind of step keeps the invariant.                                   *)
LEMMA CalmStack ==
  ASSUME StackInv, NEW t \in Threads, Calm(t)
  PROVE  StackInv'
<1>1. Handles'
  BY ApartHandles DEF StackInv, Calm
<1>. SUFFICES ASSUME ~astray' PROVE \E s : (Chain(s) /\ Standing(s) /\ Listed(s))'
  BY <1>1 DEF StackInv
<1>2. PICK s : Chain(s) /\ Standing(s) /\ Listed(s)
  BY DEF StackInv, Calm
<1>3. Chain(s)'
  BY <1>2 DEF Calm, Chain
<1>4. \A n \in Threads : Offers(n)' = Offers(n)
  BY DEF Calm, Apart, Offers
<1>5. \A u, n \in Threads : OnItsWay(u, n)' = OnItsWay(u, n)
  BY DEF Calm, Apart, OnItsWay
<1>6. ToSet(s) \subseteq Threads
  BY <1>2 DEF Chain, ToSet
<1>7. Standing(s)'
  <2>1. \A n \in ToSet(s) : Offers(n)' /\ ~taken'[n] /\ pc'[n] # "recover"
    BY <1>2, <1>4, <1>6 DEF Standing, Calm, Apart
  <2>2. \A u \in Threads : \A n \in ToSet(s) : ~OnItsWay(u, n)'
    BY <1>2, <1>5, <1>6 DEF Standing
  <2>3. \A u, n \in Threads : OnItsWay(u, n)' => Held(u, n)'
    BY <1>2, <1>4, <1>5 DEF Standing, Held, Calm
  <2>4. ASSUME NEW u \in ToSet(s), pc'[u] = "remove_walk" PROVE Leads(looked[u].node, u)'
    <3>1. pc[u] = "remove_walk" /\ looked'[u] = looked[u] /\ u \in Threads
      BY <2>4, <1>6 DEF Calm, Apart
    <3>2. looked[u].node \in Threads
      BY <3>1 DEF StackInv, Handles, HandlesOf, Looking
    <3>3. PICK n \in Threads : n = looked[u].node
      BY <3>2
    <3>4. Leads(n, u)'
      BY <3>1, <3>3, <1>2, <1>4, LeadsStays DEF Standing, Calm
    <3>. QED BY <3>1, <3>3, <3>4
  <2>. QED BY <2>1, <2>2, <2>3, <2>4 DEF Standing
<1>8. Listed(s)'
  BY <1>2, <1>5 DEF Listed, Calm, Apart
<1>. QED BY <1>3, <1>7, <1>8

(* A thread that takes back its node, as long as it leaves the links alone. *)
LEMMA RemoverStack ==
  ASSUME StackInv, NEW t \in Threads, Apart(t), UNCHANGED <<top, next, taken>>,
         ~astray' => ~astray, pc[t] \in Removing, pc'[t] \in Removing,
         \A s : ~astray' /\ Chain(s) /\ Standing(s) /\ t \in ToSet(s) =>
           pc'[t] # "recover" /\ (pc'[t] = "remove_walk" => Leads(looked'[t].node, t))
  PROVE  StackInv'
<1>1. Handles'
  BY ApartHandles DEF StackInv
<1>. SUFFICES ASSUME ~astray' PROVE \E s : (Chain(s) /\ Standing(s) /\ Listed(s))'
  BY <1>1 DEF StackInv
<1>2. PICK s : Chain(s) /\ Standing(s) /\ Listed(s)
  BY DEF StackInv
<1>3. Chain(s)'
  BY <1>2 DEF Chain
<1>4. \A n \in Threads : Offers(n)' = Offers(n)
  BY DEF Apart, Offers, Removing, FrameSteps
<1>5. \A u, n \in Threads : OnItsWay(u, n)' = OnItsWay(u, n)
  BY DEF Apart, OnItsWay, Removing
<1>6. ToSet(s) \subseteq Threads
  BY <1>2 DEF Chain, ToSet
<1>7. Standing(s)'
  <2>1. \A n \in ToSet(s) : Offers(n)' /\ ~taken'[n] /\ pc'[n] # "recover"
    BY <1>2, <1>4, <1>6 DEF Standing, Apart
  <2>2. \A u \in Threads : \A n \in ToSet(s) : ~OnItsWay(u, n)'
    BY <1>2, <1>5, <1>6 DEF Standing
  <2>3. \A u, n \in Threads : OnItsWay(u, n)' => Held(u, n)'
    BY <1>2, <1>4, <1>5 DEF Standing, Held
  <2>4. ASSUME NEW u \in ToSet(s), pc'[u] = "remove_walk" PROVE Leads(looked[u].node, u)'
    <3>1. u \in Threads
      BY <1>6
    <3>2. looked'[u].node \in Threads
      BY <1>1, <2>4, <3>1 DEF Handles, HandlesOf, Looking
    <3>3. PICK n \in Threads : n = looked'[u].node
      BY <3>2
    <3>4. Leads(n, u)
      <4>1. CASE u = t
        BY <4>1, <1>2, <2>4, <3>3
      <4>2. CASE u # t
        BY <4>2, <1>2, <2>4, <3>1, <3>3 DEF Standing, Apart
      <4>. QED BY <4>1, <4>2
    <3>5. Leads(n, u)'
      BY <3>1, <3>4, <1>4, LeadsStays
    <3>. QED BY <3>3, <3>5
  <2>. QED BY <2>1, <2>2, <2>3, <2>4 DEF Standing
<1>8. Listed(s)'
  BY <1>2, <1>5 DEF Listed, Apart, Waiting, Removing
<1>. QED BY <1>3, <1>7, <1>8

(* A thread whose node is off the list and not on anybody's way leaves.     *)
LEMMA LeaverStack ==
  ASSUME StackInv, NEW t \in Threads, Apart(t), UNCHANGED <<top, next, taken>>,
         ~astray' => ~astray, pc[t] \in FrameSteps, pc'[t] = "idle",
         taken[t] \/ pc[t] = "recover"
  PROVE  StackInv'
<1>1. Handles'
  BY ApartHandles DEF StackInv
<1>. SUFFICES ASSUME ~astray' PROVE \E s : (Chain(s) /\ Standing(s) /\ Listed(s))'
  BY <1>1 DEF StackInv
<1>2. PICK s : Chain(s) /\ Standing(s) /\ Listed(s)
  BY DEF StackInv
<1>3. Chain(s)'
  BY <1>2 DEF Chain
<1>4. t \notin ToSet(s)
  BY <1>2 DEF Standing
<1>5. ASSUME NEW u \in Threads PROVE ~OnItsWay(u, t)
  <2>1. CASE taken[t]
    BY <2>1, <1>2 DEF Standing, Held
  <2>2. CASE pc[t] = "recover"
    <3>1. Receivers = {}
      BY <2>2 DEF StackInv, Handles, HandlesOf, Removing
    <3>2. pc[u] # "pop_take"
      BY <3>1 DEF StackInv, Handles, HandlesOf, Popping, Receivers
    <3>. QED BY <3>2 DEF OnItsWay
  <2>. QED BY <2>1, <2>2
<1>6. \A n \in Threads \ {t} : Offers(n)' = Offers(n)
  BY DEF Apart, Offers
<1>7. \A u, n \in Threads : OnItsWay(u, n)' = OnItsWay(u, n)
  BY DEF Apart, OnItsWay, FrameSteps
<1>8. ToSet(s) \subseteq Threads \ {t}
  BY <1>2, <1>4 DEF Chain, ToSet
<1>9. ~Offers(t)' /\ pc'[t] \notin Waiting /\ pc'[t] # "remove_walk"
  BY DEF Offers, FrameSteps, Waiting
<1>10. Standing(s)'
  <2>1. \A n \in ToSet(s) : Offers(n)' /\ ~taken'[n] /\ pc'[n] # "recover"
    BY <1>2, <1>6, <1>8 DEF Standing, Apart
  <2>2. \A u \in Threads : \A n \in ToSet(s) : ~OnItsWay(u, n)'
    BY <1>2, <1>7, <1>8 DEF Standing
  <2>3. \A u, n \in Threads : OnItsWay(u, n)' => Held(u, n)'
    BY <1>2, <1>5, <1>6, <1>7 DEF Standing, Held
  <2>4. ASSUME NEW u \in ToSet(s), pc'[u] = "remove_walk" PROVE Leads(looked[u].node, u)'
    <3>1. pc[u] = "remove_walk" /\ looked'[u] = looked[u] /\ u \in Threads
      BY <2>4, <1>8 DEF Apart
    <3>2. looked[u].node \in Threads
      BY <3>1 DEF StackInv, Handles, HandlesOf, Looking
    <3>3. PICK n \in Threads : n = looked[u].node
      BY <3>2
    <3>4. Leads(n, u)'
      BY <3>1, <3>3, <1>2, <1>6, <1>9, LeadsStays DEF Standing
    <3>. QED BY <3>1, <3>3, <3>4
  <2>. QED BY <2>1, <2>2, <2>3, <2>4 DEF Standing
<1>11. Listed(s)'
  BY <1>2, <1>7, <1>9 DEF Listed, Apart
<1>. QED BY <1>3, <1>10, <1>11

(* The top is popped.                                                       *)
LEMMA PopStack ==
  ASSUME StackInv, NEW t \in Threads, Apart(t), UNCHANGED <<taken, looked>>, next' = next,
         ~astray' => ~astray, pc[t] \in Popping, pc[t] # "pop_take", pc'[t] = "pop_take",
         top \in Threads, looked[t].node = top, ~astray' => top' = next[top]
  PROVE  StackInv'
<1>1. Handles'
  BY ApartHandles DEF StackInv
<1>. SUFFICES ASSUME ~astray' PROVE \E r : (Chain(r) /\ Standing(r) /\ Listed(r))'
  BY <1>1 DEF StackInv
<1>2. PICK s : Chain(s) /\ Standing(s) /\ Listed(s)
  BY DEF StackInv
<1>3. s # <<>> /\ s[1] = top /\ 1 \in 1 .. Len(s)
  <2>1. s # <<>> /\ s \in Seq(Threads)
    BY <1>2, RendezvousAssumption DEF Chain
  <2>2. Len(s) \in Nat /\ Len(s) # 0
    BY <2>1, EmptySeq
  <2>. QED BY <2>1, <2>2, <1>2 DEF Chain
<1>4. PICK r : Chain(r)' /\ ToSet(r) = ToSet(s) \ {top}
  BY <1>2, <1>3, UnlinkChain DEF StackInv, Handles
<1>5. \A n \in Threads : Offers(n)' = Offers(n)
  BY DEF Apart, Offers, Popping, FrameSteps
<1>6. \A u, n \in Threads : OnItsWay(u, n)' <=> OnItsWay(u, n) \/ (u = t /\ n = top)
  BY DEF Apart, OnItsWay
<1>7. ToSet(r) \subseteq ToSet(s) /\ ToSet(s) \subseteq Threads /\ top \in ToSet(s)
  <2>1. s \in Seq(Threads) /\ DOMAIN s = 1 .. Len(s)
    BY <1>2 DEF Chain
  <2>2. ToSet(s) \subseteq Threads /\ s[1] \in ToSet(s)
    BY <2>1, <1>3 DEF ToSet
  <2>. QED BY <2>2, <1>3, <1>4
<1>8. Standing(r)'
  <2>1. \A n \in ToSet(r) : Offers(n)' /\ ~taken'[n] /\ pc'[n] # "recover"
    BY <1>2, <1>5, <1>7 DEF Standing, Apart
  <2>2. \A u \in Threads : \A n \in ToSet(r) : ~OnItsWay(u, n)'
    BY <1>2, <1>4, <1>6, <1>7 DEF Standing
  <2>3. ASSUME NEW u \in Threads, NEW n \in Threads, OnItsWay(u, n)' PROVE Held(u, n)'
    <3>1. CASE u = t /\ n = top
      <4>1. \A v \in Threads : ~OnItsWay(v, n)
        BY <3>1, <1>2, <1>7 DEF Standing
      <4>2. Offers(n) /\ ~taken[n]
        BY <3>1, <1>2, <1>7 DEF Standing
      <4>. QED BY <3>1, <4>1, <4>2, <1>5, <1>6 DEF Held
    <3>2. CASE OnItsWay(u, n)
      <4>1. n # top /\ Held(u, n)
        BY <3>2, <1>2, <1>7 DEF Standing
      <4>. QED BY <4>1, <1>5, <1>6 DEF Held
    <3>. QED BY <2>3, <3>1, <3>2, <1>6
  <2>4. ASSUME NEW u \in ToSet(r), pc'[u] = "remove_walk" PROVE Leads(looked[u].node, u)'
    <3>1. pc[u] = "remove_walk" /\ looked'[u] = looked[u] /\ u \in Threads /\ u \in ToSet(s)
      BY <2>4, <1>7 DEF Apart
    <3>2. looked[u].node \in Threads
      BY <3>1 DEF StackInv, Handles, HandlesOf, Looking
    <3>3. PICK n \in Threads : n = looked[u].node
      BY <3>2
    <3>4. Leads(n, u)'
      BY <3>1, <3>3, <1>2, <1>5, LeadsStays DEF Standing
    <3>. QED BY <3>1, <3>3, <3>4
  <2>. QED BY <2>1, <2>2, <2>3, <2>4 DEF Standing
<1>9. Listed(r)'
  <2>. SUFFICES ASSUME NEW n \in Threads, pc'[n] \in Waiting, ~taken'[n]
                PROVE  n \in ToSet(r) \/ \E u \in Threads : OnItsWay(u, n)'
    BY DEF Listed
  <2>1. pc[n] \in Waiting /\ ~taken[n]
    BY DEF Apart, Waiting
  <2>. QED BY <2>1, <1>2, <1>4, <1>6 DEF Listed
<1>. QED BY <1>4, <1>8, <1>9

(* A node is taken out by its own thread, from the top or under another.    *)
LEMMA UnlinkStack ==
  ASSUME StackInv, NEW t \in Threads, Apart(t), UNCHANGED <<taken, looked>>,
         ~astray' => ~astray, pc[t] \in Removing, pc'[t] = "recover",
         \/ top = t /\ next' = next /\ (~astray' => top' = next[t])
         \/ \E above \in Threads :
              /\ next[above] = t /\ top' = top
              /\ ~astray' => above \in OnStack /\ next' = [next EXCEPT ![above] = next[t]]
  PROVE  StackInv'
<1>1. Handles'
  BY ApartHandles DEF StackInv
<1>. SUFFICES ASSUME ~astray' PROVE \E r : (Chain(r) /\ Standing(r) /\ Listed(r))'
  BY <1>1 DEF StackInv
<1>2. PICK s : Chain(s) /\ Standing(s) /\ Listed(s)
  BY DEF StackInv
<1>3. s \in Seq(Threads) /\ Len(s) \in Nat /\ DOMAIN s = 1 .. Len(s)
  BY <1>2 DEF Chain
<1>4. PICK r : /\ Chain(r)' /\ ToSet(r) = ToSet(s) \ {t}
               /\ \A n, u \in Threads : u # t /\ Offers(t) /\ Leads(n, u) => Leads(n, u)'
  <2>0. \A n \in Threads : Offers(n)' => Offers(n)
    BY DEF Apart, Offers, Removing, FrameSteps
  <2>1. CASE top = t /\ next' = next /\ top' = next[t]
    <3>1. s # <<>> /\ s[1] = t
      BY <1>2, <2>1, RendezvousAssumption DEF Chain
    <3>2. 1 \in 1 .. Len(s)
      BY <3>1, <1>3, EmptySeq
    <3>3. \A n, u \in Threads : Leads(n, u) => Leads(n, u)'
      BY <2>0, <2>1, LeadsStays
    <3>. QED BY <3>1, <3>2, <3>3, <2>1, <1>2, UnlinkChain DEF StackInv, Handles
  <2>2. ASSUME NEW above \in Threads, next[above] = t, top' = top, above \in OnStack,
               next' = [next EXCEPT ![above] = next[t]]
        PROVE  \E r : /\ Chain(r)' /\ ToSet(r) = ToSet(s) \ {t}
                      /\ \A n, u \in Threads : u # t /\ Offers(t) /\ Leads(n, u) => Leads(n, u)'
    <3>1. PICK i \in 1 .. Len(s) : s[i] = above
      BY <2>2, <1>2, <1>3, OnStackListed DEF ToSet
    <3>2. next[s[i]] = IF i = Len(s) THEN Null ELSE s[i + 1]
      BY <1>2 DEF Chain
    <3>3. i # Len(s) /\ s[i + 1] = t
      BY <2>2, <3>1, <3>2, RendezvousAssumption
    <3>4. PICK k \in 1 .. Len(s) : k # 1 /\ k = i + 1 /\ k - 1 = i
      <4>1. i + 1 \in 1 .. Len(s) /\ i + 1 # 1 /\ i + 1 - 1 = i
        BY <1>3, <3>3
      <4>. QED BY <4>1
    <3>5. s[k] = t /\ s[k - 1] = above
      BY <3>1, <3>3, <3>4
    <3>6. \E r : Chain(r)' /\ ToSet(r) = ToSet(s) \ {t}
      <4>1. \/ k = 1 /\ top' = next[s[k]] /\ next' = next
            \/ k # 1 /\ top' = top /\ next' = [next EXCEPT ![s[k - 1]] = next[s[k]]]
        BY <3>4, <3>5, <2>2
      <4>2. StackTypes /\ Chain(s)
        BY <1>2 DEF StackInv, Handles
      <4>3. \E r : Chain(r)' /\ ToSet(r) = ToSet(s) \ {s[k]}
        BY <4>1, <4>2, UnlinkChain
      <4>. QED BY <4>3, <3>5
    <3>7. \A n, u \in Threads : u # t /\ Offers(t) /\ Leads(n, u) => Leads(n, u)'
      <4>. SUFFICES ASSUME NEW n \in Threads, NEW u \in Threads, u # t, Offers(t), Leads(n, u)
                    PROVE  Leads(n, u)'
        OBVIOUS
      <4>1. t \in Threads \ {u}
        OBVIOUS
      <4>. QED BY <4>1, <2>0, <2>2, LeadsLink DEF StackInv, Handles
    <3>. QED BY <3>6, <3>7
  <2>. QED BY <2>1, <2>2
<1>5. \A n \in Threads : Offers(n)' = Offers(n)
  BY DEF Apart, Offers, Removing, FrameSteps
<1>6. \A u, n \in Threads : OnItsWay(u, n)' = OnItsWay(u, n)
  BY DEF Apart, OnItsWay, Removing
<1>7. ToSet(r) \subseteq ToSet(s) /\ ToSet(s) \subseteq Threads
  <2>1. ToSet(s) \subseteq Threads
    BY <1>3 DEF ToSet
  <2>. QED BY <2>1, <1>4
<1>8. Standing(r)'
  <2>1. \A n \in ToSet(r) : Offers(n)' /\ ~taken'[n] /\ pc'[n] # "recover"
    BY <1>2, <1>4, <1>5, <1>7 DEF Standing, Apart
  <2>2. \A u \in Threads : \A n \in ToSet(r) : ~OnItsWay(u, n)'
    BY <1>2, <1>6, <1>7 DEF Standing
  <2>3. \A u, n \in Threads : OnItsWay(u, n)' => Held(u, n)'
    BY <1>2, <1>5, <1>6 DEF Standing, Held
  <2>4. ASSUME NEW u \in ToSet(r), pc'[u] = "remove_walk" PROVE Leads(looked[u].node, u)'
    <3>1. /\ pc[u] = "remove_walk" /\ looked'[u] = looked[u] /\ u \in Threads /\ u \in ToSet(s)
          /\ u # t
      BY <2>4, <1>4, <1>7 DEF Apart
    <3>2. looked[u].node \in Threads
      BY <3>1 DEF StackInv, Handles, HandlesOf, Looking
    <3>3. PICK n \in Threads : n = looked[u].node
      BY <3>2
    <3>4. Leads(n, u) /\ Offers(t)
      BY <3>1, <3>3, <1>2 DEF Standing, Offers, Removing, FrameSteps
    <3>. QED BY <3>1, <3>3, <3>4, <1>4
  <2>. QED BY <2>1, <2>2, <2>3, <2>4 DEF Standing
<1>9. Listed(r)'
  <2>. SUFFICES ASSUME NEW n \in Threads, pc'[n] \in Waiting, ~taken'[n]
                PROVE  n \in ToSet(r) \/ \E u \in Threads : OnItsWay(u, n)'
    BY DEF Listed
  <2>1. pc[n] \in Waiting /\ ~taken[n] /\ n # t
    BY DEF Apart, Waiting
  <2>. QED BY <2>1, <1>2, <1>4, <1>6 DEF Listed
<1>. QED BY <1>4, <1>8, <1>9

(* A send puts its node on top.                                             *)
LEMMA PushStack ==
  ASSUME StackInv, NEW t \in Threads, Apart(t), UNCHANGED looked, ~astray' => ~astray,
         pc[t] = "push", pc'[t] = "offered",
         top' = t, next' = [next EXCEPT ![t] = top], taken' = [taken EXCEPT ![t] = FALSE]
  PROVE  StackInv'
<1>1. Handles'
  BY ApartHandles DEF StackInv
<1>. SUFFICES ASSUME ~astray' PROVE \E r : (Chain(r) /\ Standing(r) /\ Listed(r))'
  BY <1>1 DEF StackInv
<1>2. PICK s : Chain(s) /\ Standing(s) /\ Listed(s)
  BY DEF StackInv
<1>3. ~Offers(t)
  BY DEF Offers, FrameSteps
<1>4. t \notin ToSet(s) /\ \A u \in Threads : ~OnItsWay(u, t)
  BY <1>2, <1>3 DEF Standing, Held
<1>5. PICK r : Chain(r)' /\ ToSet(r) = ToSet(s) \cup {t}
  BY <1>2, <1>4, PushChain DEF StackInv, Handles
<1>6. /\ \A n \in Threads \ {t} : Offers(n)' = Offers(n) /\ taken'[n] = taken[n]
      /\ Offers(t)' /\ ~taken'[t]
  BY DEF Apart, Offers, FrameSteps, StackInv, Handles, StackTypes
<1>7. \A u, n \in Threads : OnItsWay(u, n)' = OnItsWay(u, n)
  BY DEF Apart, OnItsWay
<1>8. ToSet(s) \subseteq Threads \ {t}
  BY <1>2, <1>4 DEF Chain, ToSet
<1>9. Standing(r)'
  <2>1. \A n \in ToSet(r) : Offers(n)' /\ ~taken'[n] /\ pc'[n] # "recover"
    BY <1>2, <1>5, <1>6, <1>8 DEF Standing, Apart
  <2>2. \A u \in Threads : \A n \in ToSet(r) : ~OnItsWay(u, n)'
    BY <1>2, <1>4, <1>5, <1>7, <1>8 DEF Standing
  <2>3. \A u, n \in Threads : OnItsWay(u, n)' => Held(u, n)'
    BY <1>2, <1>4, <1>6, <1>7 DEF Standing, Held
  <2>4. ASSUME NEW u \in ToSet(r), pc'[u] = "remove_walk" PROVE Leads(looked[u].node, u)'
    <3>1. /\ pc[u] = "remove_walk" /\ looked'[u] = looked[u] /\ u \in Threads /\ u \in ToSet(s)
      BY <2>4, <1>5, <1>8 DEF Apart
    <3>2. looked[u].node \in Threads
      BY <3>1 DEF StackInv, Handles, HandlesOf, Looking
    <3>3. PICK n \in Threads : n = looked[u].node
      BY <3>2
    <3>4. Leads(n, u)
      BY <3>1, <3>3, <1>2 DEF Standing
    <3>5. Leads(n, u)'
      BY <3>1, <3>4, <1>2, <1>6, LeadsPush DEF StackInv, Handles
    <3>. QED BY <3>1, <3>3, <3>5
  <2>. QED BY <2>1, <2>2, <2>3, <2>4 DEF Standing
<1>10. Listed(r)'
  <2>. SUFFICES ASSUME NEW n \in Threads, n # t, pc'[n] \in Waiting, ~taken'[n]
                PROVE  n \in ToSet(r) \/ \E u \in Threads : OnItsWay(u, n)'
    BY <1>5 DEF Listed
  <2>1. pc[n] \in Waiting /\ ~taken[n]
    BY <1>6 DEF Apart, Waiting
  <2>. QED BY <2>1, <1>2, <1>5, <1>7 DEF Listed
<1>. QED BY <1>5, <1>9, <1>10

(* A receiver takes the item of the node it has popped.                     *)
LEMMA TakeStack ==
  ASSUME StackInv, NEW t \in Threads, Apart(t), UNCHANGED <<top, next, looked>>,
         ~astray' => ~astray, pc[t] = "pop_take", pc'[t] = "pop_unpark",
         taken' = [taken EXCEPT ![looked[t].node] = TRUE]
  PROVE  StackInv'
<1>1. Handles'
  BY ApartHandles DEF StackInv
<1>. SUFFICES ASSUME ~astray' PROVE \E s : (Chain(s) /\ Standing(s) /\ Listed(s))'
  BY <1>1 DEF StackInv
<1>2. PICK s : Chain(s) /\ Standing(s) /\ Listed(s)
  BY DEF StackInv
<1>. DEFINE n == looked[t].node
<1>3. n \in Threads
  BY DEF StackInv, Handles, HandlesOf, Looking
<1>4. Held(t, n) /\ n \notin ToSet(s)
  BY <1>2, <1>3 DEF Standing, OnItsWay
<1>5. Chain(s)'
  BY <1>2 DEF Chain
<1>6. /\ \A m \in Threads : Offers(m)' = Offers(m)
      /\ \A m \in Threads \ {n} : taken'[m] = taken[m]
      /\ taken'[n]
  BY <1>3 DEF Apart, Offers, FrameSteps, StackInv, Handles, StackTypes
<1>. HIDE DEF n
<1>7. \A u, m \in Threads : OnItsWay(u, m)' <=> OnItsWay(u, m) /\ u # t
  BY DEF Apart, OnItsWay
<1>8. OnItsWay(t, n) /\ \A m \in Threads : OnItsWay(t, m) => m = n
  BY DEF OnItsWay, n
<1>9. ToSet(s) \subseteq Threads
  BY <1>2 DEF Chain, ToSet
<1>10. Standing(s)'
  <2>1. \A m \in ToSet(s) : Offers(m)' /\ ~taken'[m] /\ pc'[m] # "recover"
    BY <1>2, <1>4, <1>6, <1>9 DEF Standing, Apart
  <2>2. \A u \in Threads : \A m \in ToSet(s) : ~OnItsWay(u, m)'
    BY <1>2, <1>7, <1>9 DEF Standing
  <2>3. ASSUME NEW u \in Threads, NEW m \in Threads, OnItsWay(u, m)' PROVE Held(u, m)'
    <3>1. u # t /\ OnItsWay(u, m) /\ Held(u, m)
      BY <2>3, <1>2, <1>7 DEF Standing
    <3>2. m # n
      BY <3>1, <1>4 DEF Held
    <3>. QED BY <3>1, <3>2, <1>6, <1>7 DEF Held
  <2>4. ASSUME NEW u \in ToSet(s), pc'[u] = "remove_walk" PROVE Leads(looked[u].node, u)'
    <3>1. pc[u] = "remove_walk" /\ looked'[u] = looked[u] /\ u \in Threads
      BY <2>4, <1>9 DEF Apart
    <3>2. looked[u].node \in Threads
      BY <3>1 DEF StackInv, Handles, HandlesOf, Looking
    <3>3. PICK m \in Threads : m = looked[u].node
      BY <3>2
    <3>4. Leads(m, u)'
      BY <3>1, <3>3, <1>2, <1>6, LeadsStays DEF Standing
    <3>. QED BY <3>1, <3>3, <3>4
  <2>. QED BY <2>1, <2>2, <2>3, <2>4 DEF Standing
<1>11. Listed(s)'
  <2>. SUFFICES ASSUME NEW m \in Threads, pc'[m] \in Waiting, ~taken'[m]
                PROVE  m \in ToSet(s) \/ \E u \in Threads : OnItsWay(u, m)'
    BY DEF Listed
  <2>1. pc[m] \in Waiting /\ ~taken[m] /\ m # n
    BY <1>6 DEF Apart, Waiting
  <2>. QED BY <2>1, <1>2, <1>7, <1>8 DEF Listed
<1>. QED BY <1>5, <1>10, <1>11

-----------------------------------------------------------------------------
(* Every step keeps the invariant.                                          *)
LEMMA RemoveSteps ==
  ASSUME StackInv, NEW t \in Threads,
         RemoveLoad(t) \/ RemoveHead(t) \/ RemoveWalk(t) \/ RemoveLink(t) \/ Recover(t)
  PROVE  StackInv'
<1>0. Handles /\ StackTypes /\ HandlesOf(t) /\ t \in Nodes /\ Null \in Nodes
  BY DEF StackInv, Handles, Nodes
<1>1. CASE RemoveLoad(t)
  <2>1. /\ pc[t] = "remove" /\ UNCHANGED <<held, top, next, taken, astray>> /\ Look(t, top, Null)
        /\ Step(t, CASE top = Null -> "recover" [] top = t -> "remove_next" [] OTHER -> "remove_walk")
    BY <1>1 DEF RemoveLoad, At, localVars, quietVars
  <2>2. Receivers = {} /\ Receivers' = Receivers
    BY <1>0, <2>1, SameReceivers DEF HandlesOf, Removing
  <2>3. /\ looked' \in [Threads -> Looks] /\ looked'[t].node = top
        /\ \A u \in Threads \ {t} : looked'[u] = looked[u]
    BY <1>0, <2>1, LookTypes DEF StackTypes
  <2>4. /\ op' = op /\ DOMAIN pc' = Threads /\ \A u \in Threads \ {t} : pc'[u] = pc[u]
        /\ pc'[t] \in {"recover", "remove_next", "remove_walk"}
        /\ pc'[t] = "recover" => top = Null
        /\ pc'[t] = "remove_walk" => top # Null /\ top # t
    <3>1. CASE top = Null
      BY <3>1, <2>1, <1>0 DEF Step, StackTypes
    <3>2. CASE top # Null /\ top = t
      BY <3>2, <2>1, <1>0 DEF Step, StackTypes
    <3>3. CASE top # Null /\ top # t
      BY <3>3, <2>1, <1>0 DEF Step, StackTypes
    <3>. QED BY <3>1, <3>2, <3>3
  <2>5. top # Null => top \in Threads
    BY <1>0 DEF StackTypes, Nodes
  <2>6. Apart(t)
    <3>1. StackTypes'
      BY <1>0, <2>1, <2>3, <2>4 DEF StackTypes
    <3>2. HandlesOf(t)'
      BY <1>0, <2>1, <2>2, <2>3, <2>4, <2>5 DEF HandlesOf, Popping, Removing, Looking
    <3>. QED BY <2>1, <2>2, <2>3, <2>4, <3>1, <3>2 DEF Apart
  <2>7. ASSUME NEW s, Chain(s), Standing(s), t \in ToSet(s)
        PROVE  pc'[t] # "recover" /\ (pc'[t] = "remove_walk" => Leads(looked'[t].node, t))
    <3>1. s \in Seq(Threads) /\ Len(s) \in Nat /\ DOMAIN s = 1 .. Len(s)
      BY <2>7 DEF Chain
    <3>2. PICK k \in 1 .. Len(s) : s[k] = t
      BY <2>7, <3>1 DEF ToSet
    <3>3. s # <<>> /\ top = s[1] /\ 1 \in 1 .. k /\ s[1] \in Threads
      <4>1. s # <<>> /\ 1 \in 1 .. k /\ 1 \in 1 .. Len(s)
        BY <3>1, <3>2
      <4>2. s[1] \in Threads
        BY <4>1, <3>1
      <4>. QED BY <4>1, <4>2, <2>7 DEF Chain
    <3>4. pc'[t] # "recover"
      BY <3>3, <2>4, RendezvousAssumption
    <3>5. ASSUME pc'[t] = "remove_walk" PROVE Leads(top, t)
      <4>. DEFINE upper == {s[i] : i \in 1 .. k}
      <4>1. upper \in SUBSET Threads /\ top \in upper
        BY <3>1, <3>2, <3>3
      <4>2. ASSUME NEW i \in 1 .. k, s[i] # t PROVE next[s[i]] \in upper
        <5>1. i # k
          BY <3>2, <4>2
        <5>2. i \in 1 .. Len(s) /\ i # Len(s) /\ i + 1 \in 1 .. k
          <6>1. i \in Int /\ k \in Int /\ 1 <= i /\ i <= k /\ k <= Len(s) /\ Len(s) \in Int
            BY <3>1
          <6>. QED BY <6>1, <5>1
        <5>3. next[s[i]] = s[i + 1]
          BY <5>2, <2>7 DEF Chain
        <5>. QED BY <5>2, <5>3
      <4>3. \A m \in upper \ {t} : Offers(m) => next[m] \in upper
        BY <4>2
      <4>4. top # t
        BY <3>5, <2>4
      <4>. HIDE DEF upper
      <4>. QED BY <4>1, <4>3, <4>4 DEF Leads
    <3>. QED BY <3>4, <3>5, <2>3
  <2>8. pc[t] \in Removing /\ pc'[t] \in Removing
    BY <2>1, <2>4 DEF Removing
  <2>. QED BY <2>1, <2>6, <2>7, <2>8, RemoverStack
<1>2. CASE RemoveHead(t)
  <2>1. /\ pc[t] = "remove_head" /\ UNCHANGED <<held, next, taken, looked>> /\ op' = op
        /\ \/ /\ top = t /\ top' = looked[t].below /\ pc' = [pc EXCEPT ![t] = "recover"]
              /\ Stray(looked[t].below # next[t])
           \/ pc' = [pc EXCEPT ![t] = "remove"] /\ UNCHANGED <<top, astray>>
    BY <1>2 DEF RemoveHead, At, Step, localVars, quietVars
  <2>2. looked[t].below \in Nodes /\ (~astray' => ~astray)
    <3>1. looked[t].below \in Nodes
      BY <1>0 DEF StackTypes, Looks
    <3>2. ~astray' => ~astray
      BY <2>1 DEF Stray
    <3>. QED BY <3>1, <3>2
  <2>3. Receivers = {} /\ Receivers' = Receivers
    BY <1>0, <2>1, SameReceivers DEF HandlesOf, Removing
  <2>4. Apart(t) /\ pc[t] \in Removing /\ pc'[t] \in {"recover", "remove"}
    <3>1. StackTypes' /\ pc'[t] \in {"recover", "remove"} /\ \A u \in Threads \ {t} : pc'[u] = pc[u]
      BY <1>0, <2>1, <2>2 DEF StackTypes
    <3>2. HandlesOf(t)'
      BY <1>0, <2>1, <2>3, <3>1 DEF HandlesOf, Popping, Removing, Looking
    <3>. QED BY <2>1, <2>3, <3>1, <3>2 DEF Apart, Removing
  <2>5. CASE pc'[t] = "recover"
    <3>1. top = t /\ (~astray' => top' = next[t])
      BY <1>0, <2>1, <2>5 DEF StackTypes, Stray
    <3>. QED BY <3>1, <2>1, <2>2, <2>4, <2>5, UnlinkStack
  <2>6. CASE pc'[t] = "remove"
    <3>1. UNCHANGED <<top, astray>> /\ pc'[t] \in Removing
      BY <1>0, <2>1, <2>6 DEF StackTypes, Removing
    <3>. QED BY <3>1, <2>1, <2>2, <2>4, <2>6, RemoverStack
  <2>. QED BY <2>4, <2>5, <2>6
<1>3. CASE RemoveWalk(t)
  <2>. DEFINE above == looked[t].node
  <2>1. PICK n \in Links(above) :
          /\ Step(t, CASE n = t -> "remove_below" [] n = Null -> "recover" [] OTHER -> "remove_walk")
          /\ Look(t, IF n = t THEN above ELSE n, Null)
    BY <1>3 DEF RemoveWalk
  <2>2. /\ pc[t] = "remove_walk" /\ UNCHANGED <<held, top, next, taken>>
        /\ Stray(~Offers(above))
    BY <1>3 DEF RemoveWalk, At, localVars, quietVars
  <2>3. /\ above \in Threads /\ above \in Nodes /\ n \in Nodes
        /\ Receivers = {} /\ Receivers' = Receivers
    BY <1>0, <2>1, <2>2, LinksTypes, SameReceivers DEF HandlesOf, Removing, Looking, Nodes
  <2>4. /\ looked' \in [Threads -> Looks] /\ looked'[t].node = (IF n = t THEN above ELSE n)
        /\ \A u \in Threads \ {t} : looked'[u] = looked[u]
    BY <1>0, <2>1, <2>3, LookTypes
  <2>5. /\ op' = op /\ DOMAIN pc' = Threads /\ \A u \in Threads \ {t} : pc'[u] = pc[u]
        /\ \/ pc'[t] = "remove_below" /\ n = t
           \/ pc'[t] = "recover" /\ n = Null /\ n # t
           \/ pc'[t] = "remove_walk" /\ n # Null /\ n # t
    <3>1. CASE n = t
      <4>1. n # Null
        BY <3>1, RendezvousAssumption
      <4>2. Step(t, "remove_below")
        BY <3>1, <4>1, <2>1
      <4>. QED BY <3>1, <4>2, <1>0 DEF Step, StackTypes
    <3>2. CASE n # t /\ n = Null
      BY <3>2, <2>1, <1>0 DEF Step, StackTypes
    <3>3. CASE n # t /\ n # Null
      BY <3>3, <2>1, <1>0 DEF Step, StackTypes
    <3>. QED BY <3>1, <3>2, <3>3
  <2>6. Apart(t)
    <3>1. StackTypes'
      BY <1>0, <2>2, <2>4, <2>5 DEF StackTypes
    <3>2. HandlesOf(t)'
      BY <1>0, <2>2, <2>3, <2>4, <2>5 DEF HandlesOf, Popping, Removing, Looking, Nodes
    <3>. QED BY <2>2, <2>3, <2>4, <2>5, <3>1, <3>2 DEF Apart
  <2>7. ASSUME NEW s, ~astray', Chain(s), Standing(s), t \in ToSet(s)
        PROVE  pc'[t] # "recover" /\ (pc'[t] = "remove_walk" => Leads(looked'[t].node, t))
    <3>1. Leads(above, t) /\ Offers(above)
      BY <2>2, <2>7 DEF Standing, Stray
    <3>2. PICK nodes \in SUBSET Threads :
            above \in nodes /\ \A m \in nodes \ {t} : Offers(m) => next[m] \in nodes
      BY <3>1 DEF Leads
    <3>3. above # t /\ n = next[above]
      BY <3>1, <2>1 DEF Leads, Links
    <3>4. n \in nodes
      BY <3>1, <3>2, <3>3
    <3>5. pc'[t] # "recover"
      BY <3>4, <2>5, RendezvousAssumption
    <3>6. ASSUME pc'[t] = "remove_walk" PROVE looked'[t].node = n /\ n # t
      BY <3>6, <2>4, <2>5
    <3>. QED BY <3>2, <3>4, <3>5, <3>6 DEF Leads
  <2>8. pc[t] \in Removing /\ pc'[t] \in Removing /\ (~astray' => ~astray)
    BY <2>2, <2>5 DEF Removing, Stray
  <2>. QED BY <2>2, <2>6, <2>7, <2>8, RemoverStack
<1>4. CASE RemoveLink(t)
  <2>. DEFINE above == looked[t].node
  <2>1. /\ pc[t] = "remove_link" /\ UNCHANGED <<held, top, taken, looked>> /\ op' = op
        /\ \/ /\ next[above] = t /\ next' = [next EXCEPT ![above] = looked[t].below]
              /\ pc' = [pc EXCEPT ![t] = "recover"]
              /\ Stray(above \notin OnStack \/ looked[t].below # next[t])
           \/ pc' = [pc EXCEPT ![t] = "remove"] /\ next' = next /\ Stray(~Offers(above))
    BY <1>4 DEF RemoveLink, At, Step, localVars, quietVars
  <2>2. looked[t].below \in Nodes /\ above \in Threads /\ (~astray' => ~astray)
    BY <1>0, <2>1 DEF StackTypes, Looks, Stray, HandlesOf, Looking
  <2>3. Receivers = {} /\ Receivers' = Receivers
    BY <1>0, <2>1, SameReceivers DEF HandlesOf, Removing
  <2>4. Apart(t) /\ pc[t] \in Removing /\ pc'[t] \in {"recover", "remove"}
    <3>1. StackTypes' /\ pc'[t] \in {"recover", "remove"} /\ \A u \in Threads \ {t} : pc'[u] = pc[u]
      BY <1>0, <2>1, <2>2 DEF StackTypes
    <3>2. HandlesOf(t)'
      BY <1>0, <2>1, <2>3, <3>1 DEF HandlesOf, Popping, Removing, Looking
    <3>. QED BY <2>1, <2>3, <3>1, <3>2 DEF Apart, Removing
  <2>5. CASE pc'[t] = "recover"
    <3>1. /\ next[above] = t
          /\ ~astray' => above \in OnStack /\ next' = [next EXCEPT ![above] = next[t]]
      BY <1>0, <2>1, <2>5 DEF StackTypes, Stray
    <3>. QED BY <3>1, <2>1, <2>2, <2>4, <2>5, UnlinkStack
  <2>6. CASE pc'[t] = "remove"
    <3>1. next' = next /\ pc'[t] \in Removing
      BY <1>0, <2>1, <2>6 DEF StackTypes, Removing
    <3>. QED BY <3>1, <2>1, <2>2, <2>4, <2>6, RemoverStack
  <2>. QED BY <2>4, <2>5, <2>6
<1>5. CASE Recover(t)
  <2>1. /\ pc[t] = "recover" /\ UNCHANGED <<held, top, next, taken, astray>> /\ Finish(t)
        /\ Look(t, Null, Null)
    BY <1>5 DEF Recover, At, localVars, quietVars
  <2>2. looked' \in [Threads -> Looks] /\ \A u \in Threads \ {t} : looked'[u] = looked[u]
    BY <1>0, <2>1, LookTypes
  <2>3. /\ pc'[t] = "idle" /\ op'[t] = "none" /\ StackTypes'
        /\ \A u \in Threads \ {t} : pc'[u] = pc[u] /\ op'[u] = op[u]
    BY <1>0, <2>1, <2>2 DEF Finish, StackTypes
  <2>4. Apart(t)
    <3>1. Receivers' = Receivers
      BY <2>1, SameReceivers
    <3>. QED BY <2>1, <2>2, <2>3, <3>1 DEF Apart, HandlesOf, Popping, Removing, Looking
  <2>. QED BY <2>1, <2>3, <2>4, LeaverStack DEF FrameSteps
<1>. QED BY <1>1, <1>2, <1>3, <1>4, <1>5

LEMMA SendSteps ==
  ASSUME StackInv, NEW t \in Threads, Push(t) \/ LoadTaken(t)
  PROVE  StackInv'
<1>0. Handles /\ StackTypes /\ HandlesOf(t) /\ t \in Nodes
  BY DEF StackInv, Handles, Nodes
<1>1. CASE Push(t)
  <2>1. /\ pc[t] = "push" /\ UNCHANGED <<held, looked, astray>> /\ op' = op
        /\ top' = t /\ next' = [next EXCEPT ![t] = top] /\ taken' = [taken EXCEPT ![t] = FALSE]
        /\ pc' = [pc EXCEPT ![t] = "offered"]
    BY <1>1 DEF Push, At, Step, quietVars
  <2>2. StackTypes' /\ pc'[t] = "offered" /\ \A u \in Threads \ {t} : pc'[u] = pc[u]
    BY <1>0, <2>1 DEF StackTypes
  <2>3. Receivers' = Receivers
    BY <2>1, SameReceivers
  <2>4. HandlesOf(t)'
    BY <1>0, <2>1, <2>2 DEF HandlesOf, Popping, Removing, Looking
  <2>5. Apart(t)
    BY <2>1, <2>2, <2>3, <2>4 DEF Apart
  <2>. QED BY <2>1, <2>2, <2>5, PushStack
<1>2. CASE LoadTaken(t)
  <2>1. pc[t] = "offered" /\ UNCHANGED <<held, top, next, taken, looked, astray>>
    BY <1>2 DEF LoadTaken, At, localVars, quietVars, rendezvousVars, stackVars
  <2>2. CASE taken[t]
    <3>1. Finish(t)
      BY <1>2, <2>2 DEF LoadTaken
    <3>2. /\ pc'[t] = "idle" /\ op'[t] = "none" /\ StackTypes'
          /\ \A u \in Threads \ {t} : pc'[u] = pc[u] /\ op'[u] = op[u]
      BY <1>0, <2>1, <3>1 DEF Finish, StackTypes
    <3>3. Apart(t)
      <4>1. Receivers' = Receivers
        BY <2>1, SameReceivers
      <4>. QED BY <2>1, <3>2, <4>1 DEF Apart, HandlesOf, Popping, Removing, Looking
    <3>. QED BY <2>1, <2>2, <3>2, <3>3, LeaverStack DEF FrameSteps
  <2>3. CASE ~taken[t]
    <3>1. Step(t, "count") /\ looked' \in [Threads -> Looks]
      BY <1>0, <1>2, <2>1, <2>3 DEF LoadTaken, StackTypes
    <3>2. Calm(t)
      BY <1>0, <2>1, <3>1, MoveCalm DEF Step, Popping, Removing, Looking, FrameSteps, Waiting
    <3>. QED BY <3>2, CalmStack
  <2>. QED BY <2>2, <2>3
<1>. QED BY <1>1, <1>2

LEMMA RecvSteps ==
  ASSUME StackInv, NEW t \in Threads, PopCas(t) \/ PopTake(t)
  PROVE  StackInv'
<1>0. Handles /\ StackTypes /\ HandlesOf(t)
  BY DEF StackInv, Handles
<1>1. CASE PopCas(t)
  <2>1. /\ pc[t] = "pop_cas" /\ UNCHANGED <<held, next, taken, looked>> /\ op' = op
        /\ \/ /\ top = looked[t].node /\ top' = looked[t].below
              /\ pc' = [pc EXCEPT ![t] = "pop_take"] /\ Stray(looked[t].below # next[top])
           \/ pc' = [pc EXCEPT ![t] = "pop"] /\ UNCHANGED <<top, astray>>
    BY <1>1 DEF PopCas, At, Step, localVars, quietVars
  <2>2. looked[t].below \in Nodes /\ looked[t].node \in Threads
    BY <1>0, <2>1 DEF StackTypes, Looks, HandlesOf, Looking
  <2>3. Receivers' = Receivers /\ (~astray' => ~astray)
    <3>1. Receivers' = Receivers
      BY <2>1, SameReceivers
    <3>2. ~astray' => ~astray
      BY <2>1 DEF Stray
    <3>. QED BY <3>1, <3>2
  <2>4. Apart(t) /\ pc'[t] \in {"pop_take", "pop"}
    <3>1. StackTypes' /\ pc'[t] \in {"pop_take", "pop"} /\ \A u \in Threads \ {t} : pc'[u] = pc[u]
      BY <1>0, <2>1, <2>2 DEF StackTypes
    <3>2. HandlesOf(t)'
      BY <1>0, <2>1, <2>2, <2>3, <3>1 DEF HandlesOf, Popping, Removing, Looking
    <3>. QED BY <2>1, <2>3, <3>1, <3>2 DEF Apart
  <2>5. CASE pc'[t] = "pop_take"
    <3>1. top = looked[t].node /\ (~astray' => top' = next[top])
      BY <1>0, <2>1, <2>5 DEF StackTypes, Stray
    <3>2. pc[t] \in Popping /\ pc[t] # "pop_take" /\ top \in Threads
      BY <2>1, <2>2, <3>1 DEF Popping
    <3>. QED BY <3>1, <3>2, <2>1, <2>3, <2>4, <2>5, PopStack
  <2>6. CASE pc'[t] = "pop"
    <3>1. UNCHANGED <<top, astray>> /\ pc' = [pc EXCEPT ![t] = "pop"] /\ looked' \in [Threads -> Looks]
      BY <1>0, <2>1, <2>6 DEF StackTypes
    <3>2. Calm(t)
      BY <1>0, <2>1, <3>1, MoveCalm DEF Popping, Removing, Looking, FrameSteps, Waiting
    <3>. QED BY <3>2, CalmStack
  <2>. QED BY <2>4, <2>5, <2>6
<1>2. CASE PopTake(t)
  <2>1. /\ pc[t] = "pop_take" /\ UNCHANGED <<held, top, next, looked, astray>> /\ op' = op
        /\ taken' = [taken EXCEPT ![looked[t].node] = TRUE]
        /\ pc' = [pc EXCEPT ![t] = "pop_unpark"]
    BY <1>2 DEF PopTake, At, Step, localVars, quietVars
  <2>2. looked[t].node \in Threads
    BY <1>0, <2>1 DEF HandlesOf, Looking
  <2>3. StackTypes' /\ pc'[t] = "pop_unpark" /\ \A u \in Threads \ {t} : pc'[u] = pc[u]
    BY <1>0, <2>1, <2>2 DEF StackTypes
  <2>4. Apart(t)
    <3>1. Receivers' = Receivers
      BY <2>1, SameReceivers
    <3>2. HandlesOf(t)'
      BY <1>0, <2>1, <2>2, <2>3, <3>1 DEF HandlesOf, Popping, Removing, Looking
    <3>. QED BY <2>1, <2>3, <3>1, <3>2 DEF Apart
  <2>. QED BY <2>1, <2>3, <2>4, TakeStack
<1>. QED BY <1>1, <1>2

LEMMA StackStep ==
  ASSUME StackInv, [Next]_vars
  PROVE  StackInv'
<1>0. Handles
  BY DEF StackInv
<1>1. ASSUME NEW t \in Threads, RendezvousStep(t) PROVE StackInv'
  <2>1. CASE Check(t) \/ CountReceivers(t) \/ CountSenders(t)
    BY <1>0, <2>1, CountCalm, CalmStack
  <2>2. CASE Push(t) \/ LoadTaken(t)
    BY <2>2, SendSteps
  <2>3. CASE RemoveLoad(t) \/ RemoveHead(t) \/ RemoveWalk(t) \/ RemoveLink(t) \/ Recover(t)
    BY <2>3, RemoveSteps
  <2>4. CASE RemoveNext(t) \/ RemoveBelow(t)
    BY <1>0, <2>4, RemoveCalm, CalmStack
  <2>5. CASE PopLoad(t) \/ PopNext(t) \/ PopUnpark(t) \/ EnlistAndInvite(t)
    BY <1>0, <2>5, PopCalm, CalmStack
  <2>6. CASE PopCas(t) \/ PopTake(t)
    BY <2>6, RecvSteps
  <2>7. CASE DropLoad(t) \/ DropNext(t) \/ DropUnpark(t)
    BY <1>0, <2>7, DropCalm, CalmStack
  <2>8. CASE Probe(t) \/ ProbeOtherSide(t)
    <3>1. pc[t] \notin FrameSteps \cup {"pop_take"}
      BY <1>0, <2>8, ProbeOuter DEF FrameSteps
    <3>2. Calm(t)
      BY <3>1, <1>0, <2>8, ProbeOuter, OuterCalm
    <3>. QED BY <3>2, CalmStack
  <2>9. CASE Complete(t)
    BY <1>0, <2>9, CallCalm, CalmStack
  <2>10. CASE UNCHANGED rendezvousVars /\ (\/ ParkReturns(t, "park", "again")
                                           \/ ParkReturns(t, "blocked", "offered")
                                           \/ Again(t, "pop"))
    BY <1>0, <2>10, WaitCalm, CalmStack
  <2>11. CASE UNCHANGED rendezvousVars /\ (Return(t) \/ PushArm(t, "enrol") \/ SelectStep(t))
    BY <1>0, <2>11, ReturnCalm, CalmStack
  <2>12. CASE UNCHANGED rendezvousVars /\ WakeStep(t) /\ UNCHANGED endVars
    BY <1>0, <2>12, WakeCalm, CalmStack DEF endVars
  <2>. QED BY <1>1, <2>1, <2>2, <2>3, <2>4, <2>5, <2>6, <2>7, <2>8, <2>9, <2>10, <2>11, <2>12
           DEF RendezvousStep
<1>2. ASSUME NEW t \in Threads, RendezvousChance(t) PROVE StackInv'
  <2>1. CASE SendCall(t) \/ RecvCall(t)
    BY <1>0, <2>1, CallCalm, CalmStack
  <2>2. CASE SelectCall(t, "select_recv", "recv") /\ UNCHANGED rendezvousVars
    BY <1>0, <2>2, CallCalm, CalmStack
  <2>3. CASE DropOne(t) \/ DropLast(t)
    BY <1>0, <2>3, HandleCalm, CalmStack
  <2>4. CASE (DropSender(t) \/ \E u \in Threads : CloneHandle(t, u)) /\ UNCHANGED rendezvousVars
    BY <1>0, <2>4, HandleCalm, CalmStack
  <2>5. CASE (DeadlinePasses(t) \/ Spurious(t)) /\ UNCHANGED rendezvousVars
    BY <1>0, <2>5, WakeCalm, CalmStack DEF DeadlinePasses, Spurious
  <2>. QED BY <1>2, <2>1, <2>2, <2>3, <2>4, <2>5 DEF RendezvousChance
<1>3. CASE UNCHANGED vars
  <2>1. Handles'
    BY <1>0, <1>3, SameReceivers DEF vars, endVars, rendezvousVars, stackVars, Handles, StackTypes,
                                     HandlesOf
  <2>2. ASSUME NEW s, Chain(s), Standing(s), Listed(s) PROVE (Chain(s) /\ Standing(s) /\ Listed(s))'
    BY <2>2, <1>3 DEF vars, endVars, rendezvousVars, stackVars, Chain, Standing, Listed, Held,
                      OnItsWay, Leads, Offers
  <2>. QED BY <2>1, <2>2, <1>3 DEF StackInv, vars, rendezvousVars
<1>. QED BY <1>1, <1>2, <1>3 DEF Next, Over

LEMMA StackInit ==
  ASSUME Init
  PROVE  StackInv
<1>1. Handles
  <2>1. StackTypes
    <3>1. NoLook \in Looks /\ Null \in Nodes
      BY DEF NoLook, Looks, Nodes
    <3>2. program.handles \in [Threads -> SUBSET {"send", "recv"}]
      BY ProgramAssumption DEF Init, EndpointInit
    <3>. QED BY <3>1, <3>2 DEF Init, EndpointInit, RendezvousInit, StackTypes
  <2>2. ASSUME NEW t \in Threads PROVE HandlesOf(t)
    <3>1. pc[t] \in {"idle", "unborn"} /\ op[t] = "none"
      BY DEF Init, EndpointInit
    <3>. QED BY <3>1 DEF HandlesOf, Popping, Removing, Looking
  <2>. QED BY <2>1, <2>2 DEF Handles
<1>2. Chain(<<>>) /\ ToSet(<<>>) = {}
  BY DEF Chain, Once, ToSet, Init, RendezvousInit
<1>3. \A t \in Threads : pc[t] \in {"idle", "unborn"}
  BY DEF Init, EndpointInit
<1>4. Standing(<<>>) /\ Listed(<<>>)
  BY <1>2, <1>3 DEF Standing, Listed, OnItsWay, Waiting
<1>. QED BY <1>1, <1>2, <1>4 DEF StackInv

-----------------------------------------------------------------------------
(* The inductive invariant of the stack.                                    *)
THEOREM RendezvousInvariant == Spec => []StackInv
<1>1. Init => StackInv
  BY StackInit
<1>2. StackInv /\ [Next]_vars => StackInv'
  BY StackStep
<1>. QED BY <1>1, <1>2, PTL DEF Spec

(* "The node lives on the sender's stack frame": as long as no walk has     *)
(* relied on a link that is no more, every node on the stack is in the      *)
(* frame of a send that has not returned, and has its item.                 *)
THEOREM RendezvousStackHoldsOffers == Spec => []StackHoldsOffers
<1>1. StackInv => StackHoldsOffers
  <2>. SUFFICES ASSUME StackInv, ~astray, NEW n \in OnStack PROVE Offers(n) /\ ~taken[n]
    BY DEF StackHoldsOffers
  <2>1. PICK s : Chain(s) /\ Standing(s)
    BY DEF StackInv
  <2>. QED BY <2>1, OnStackListed DEF Standing
<1>. QED BY <1>1, RendezvousInvariant, PTL

(* "We own this slot now": the item a receiver reads is there, and no other *)
(* receiver reads it.                                                       *)
THEOREM RendezvousReadsOffer == Spec => []ReadsOffer
<1>1. StackInv => ReadsOffer
  <2>. SUFFICES ASSUME StackInv, ~astray, NEW t \in Threads, pc[t] = "pop_take"
                PROVE  /\ Offers(looked[t].node) /\ ~taken[looked[t].node]
                       /\ \A u \in Threads \ {t} : pc[u] = "pop_take" => looked[u].node # looked[t].node
    BY DEF ReadsOffer
  <2>1. PICK s : Chain(s) /\ Standing(s)
    BY DEF StackInv
  <2>2. looked[t].node \in Threads
    BY DEF StackInv, Handles, HandlesOf, Looking
  <2>3. Held(t, looked[t].node)
    BY <2>1, <2>2 DEF Standing, OnItsWay
  <2>. QED BY <2>3 DEF Held, OnItsWay
<1>. QED BY <1>1, RendezvousInvariant, PTL

-----------------------------------------------------------------------------
(* The types of the rest of the state.                                      *)
(* (A send, too, has a step named "push".)                                  *)
Turning == SelectSteps \ {"probe", "probe_more", "push"}
Turned == \A t \in Threads : pc[t] \in Turning => arm[t].turn # 0
Counted == sends \in 0 .. program.items /\ astray \in BOOLEAN
EndsTyped == EndTypes /\ AbortedExist /\ Turned /\ Orderly(Steps)

(* A step of t outside select_impl: it goes on, answers, ends or begins an  *)
(* operation.                                                               *)
Inner == Steps \ (Turning \cup {"idle", "unborn"})

Advances(t) ==
  \/ \E to \in Inner : Step(t, to)
  \/ \E a \in {"ok", "empty", "disconnected"} : Answer(t, a)
  \/ Finish(t)
  \/ \E to \in Inner, operation \in {"send", "recv", "try_recv"} :
       /\ pc' = [pc EXCEPT ![t] = to] /\ op' = [op EXCEPT ![t] = operation]
       /\ UNCHANGED answer

LEMMA AdvanceOrderly ==
  ASSUME EndsTyped, NEW t \in Threads, Advances(t), UNCHANGED <<program, arm, spurious>>
  PROVE  Orderly(Steps)' /\ Alone(t) /\ Turned'
<1>0. EndTypes /\ Orderly(Steps) /\ DOMAIN pc = Threads /\ DOMAIN op = Threads /\ Timed
  BY DEF EndsTyped, EndTypes, Timed
<1>1. ASSUME NEW to \in Inner, Step(t, to) PROVE Orderly(Steps)' /\ Alone(t) /\ pc'[t] \notin Turning
  <2>1. to \in Steps \ {"idle", "unborn"} /\ to \notin Turning
    BY DEF Inner
  <2>2. Alone(t) /\ pc'[t] = to
    BY <1>0, <1>1 DEF Alone, Step
  <2>. QED BY <1>0, <1>1, <2>1, <2>2, OrderlyStep
<1>2. ASSUME NEW a \in {"ok", "empty", "disconnected"}, Answer(t, a)
      PROVE  Orderly(Steps)' /\ Alone(t) /\ pc'[t] \notin Turning
  <2>1. "return" \in Steps /\ a \in Verdicts
    BY DEF Steps, Verdicts
  <2>2. Alone(t) /\ pc'[t] = "return"
    BY <1>0, <1>2 DEF Alone, Answer
  <2>3. "return" \notin Turning
    BY DEF Turning, SelectSteps
  <2>. QED BY <1>0, <1>2, <2>1, <2>2, <2>3, OrderlyAnswer
<1>3. ASSUME Finish(t) PROVE Orderly(Steps)' /\ Alone(t) /\ pc'[t] \notin Turning
  <2>1. "idle" \in Steps /\ "idle" \notin Turning
    BY DEF Steps, Turning, SelectSteps
  <2>2. Alone(t) /\ pc'[t] = "idle"
    BY <1>0, <1>3 DEF Alone, Finish
  <2>. QED BY <1>0, <1>3, <2>1, <2>2, OrderlyFinish
<1>4. ASSUME NEW to \in Inner, NEW operation \in {"send", "recv", "try_recv"},
             pc' = [pc EXCEPT ![t] = to] /\ op' = [op EXCEPT ![t] = operation] /\ UNCHANGED answer
      PROVE  Orderly(Steps)' /\ Alone(t) /\ pc'[t] \notin Turning
  <2>1. to \in Steps /\ to \notin {"idle", "unborn"} /\ to \notin Turning
    BY DEF Inner
  <2>2. Alone(t) /\ pc'[t] = to
    BY <1>0, <1>4 DEF Alone
  <2>3. /\ answer' \in [Threads -> Verdicts] /\ DOMAIN op' = Threads
        /\ \A u \in Threads \ {t} : op'[u] = op[u] /\ answer'[u] = answer[u]
    BY <1>0, <1>4 DEF Orderly
  <2>. QED BY <1>0, <1>4, <2>1, <2>2, <2>3, OrderlyMove
<1>5. Orderly(Steps)' /\ Alone(t) /\ pc'[t] \notin Turning
  BY <1>1, <1>2, <1>3, <1>4 DEF Advances
<1>. QED BY <1>5 DEF EndsTyped, Turned, Alone

LEMMA InnerSteps ==
  {"check", "push", "pop", "pop_next", "pop_cas", "pop_take", "pop_unpark", "count_senders",
   "enlist", "park", "again", "drop", "drop_next", "drop_unpark", "complete", "offered", "count",
   "blocked", "remove", "remove_next", "remove_head", "remove_walk", "remove_below",
   "remove_link", "recover"} \subseteq Inner
<1>1. {"check", "push", "pop", "pop_next", "pop_cas"} \subseteq Inner
  BY DEF Inner, Steps, Turning, SelectSteps
<1>2. {"pop_take", "pop_unpark", "count_senders", "enlist"} \subseteq Inner
  BY DEF Inner, Steps, Turning, SelectSteps
<1>3. {"park", "again", "drop", "drop_next", "drop_unpark", "complete"} \subseteq Inner
  BY DEF Inner, Steps, Turning, SelectSteps
<1>4. {"offered", "count", "blocked", "remove", "remove_next"} \subseteq Inner
  BY DEF Inner, Steps, Turning, SelectSteps, FrameSteps
<1>5. {"remove_head", "remove_walk", "remove_below", "remove_link", "recover"} \subseteq Inner
  BY DEF Inner, Steps, Turning, SelectSteps, FrameSteps
<1>. QED BY <1>1, <1>2, <1>3, <1>4, <1>5

(* The steps that leave what is in Waiter alone.                            *)
Local(t) ==
  \/ RecvCall(t) \/ Check(t) \/ LoadTaken(t) \/ CountReceivers(t) \/ RemoveLoad(t)
  \/ RemoveNext(t) \/ RemoveHead(t) \/ RemoveWalk(t) \/ RemoveBelow(t) \/ RemoveLink(t)
  \/ Recover(t) \/ PopLoad(t) \/ PopNext(t) \/ PopCas(t) \/ PopTake(t) \/ CountSenders(t)
  \/ DropNext(t) \/ Complete(t)
  \/ Call(t, "send", "send", "check")

LEMMA LocalAdvances ==
  ASSUME NEW t \in Threads, Local(t)
  PROVE  Advances(t) /\ UNCHANGED localVars
<1>. USE InnerSteps DEF Advances
<1>1. CASE RecvCall(t)
  <2>1. PICK operation \in {"recv", "try_recv"} : Call(t, operation, "recv", "pop")
    BY <1>1 DEF RecvCall
  <2>. QED BY <2>1 DEF Call
<1>2. CASE Check(t)
  BY <1>2 DEF Check, CheckReceivers
<1>3. CASE LoadTaken(t)
  BY <1>3 DEF LoadTaken
<1>4. CASE CountReceivers(t)
  BY <1>4 DEF CountReceivers
<1>5. CASE RemoveLoad(t)
  BY <1>5 DEF RemoveLoad
<1>6. CASE RemoveNext(t)
  BY <1>6 DEF RemoveNext
<1>7. CASE RemoveHead(t)
  BY <1>7 DEF RemoveHead
<1>8. CASE RemoveWalk(t)
  <2>1. \E to \in {"remove_below", "recover", "remove_walk"} : Step(t, to)
    BY <1>8 DEF RemoveWalk
  <2>. QED BY <1>8, <2>1 DEF RemoveWalk
<1>9. CASE RemoveBelow(t)
  BY <1>9 DEF RemoveBelow
<1>10. CASE RemoveLink(t)
  BY <1>10 DEF RemoveLink
<1>11. CASE Recover(t)
  BY <1>11 DEF Recover
<1>12. CASE PopLoad(t)
  BY <1>12 DEF PopLoad
<1>13. CASE PopNext(t)
  BY <1>13 DEF PopNext
<1>14. CASE PopCas(t)
  BY <1>14 DEF PopCas
<1>15. CASE PopTake(t)
  BY <1>15 DEF PopTake
<1>16. CASE CountSenders(t)
  BY <1>16 DEF CountSenders, Nothing
<1>17. CASE DropNext(t)
  BY <1>17 DEF DropNext
<1>18. CASE Complete(t)
  BY <1>18 DEF Complete, CompleteBy
<1>19. CASE Call(t, "send", "send", "check")
  BY <1>19 DEF Call
<1>. QED BY <1>1, <1>2, <1>3, <1>4, <1>5, <1>6, <1>7, <1>8, <1>9, <1>10, <1>11, <1>12, <1>13,
            <1>14, <1>15, <1>16, <1>17, <1>18, <1>19 DEF Local

LEMMA LocalTyped ==
  ASSUME EndsTyped, NEW t \in Threads, Local(t)
  PROVE  EndsTyped'
<1>1. Advances(t) /\ UNCHANGED localVars
  BY LocalAdvances
<1>2. Orderly(Steps)' /\ Alone(t) /\ Turned'
  BY <1>1, AdvanceOrderly DEF localVars, quietVars
<1>3. EndTypes' /\ Mild(t)
  BY <1>1, <1>2, PlainStep DEF EndsTyped
<1>4. AbortedExist'
  BY <1>3, GrowingAborted DEF EndsTyped, Mild
<1>. QED BY <1>2, <1>3, <1>4 DEF EndsTyped

(* Those that announce, unpark, or register.                                *)
LEMMA SendWakes ==
  /\ <<WakeAll("recv"), SelectOne("recv")>> \in Seq(WakeCalls(ArmNodes))
  /\ <<SelectOne("send")>> \in Seq(WakeCalls(ArmNodes))
  /\ <<Drain("recv"), SelectAll("send")>> \in Seq(WakeCalls(ArmNodes))
<1>1. /\ WakeAll("recv") \in Snapshots /\ SelectOne("recv") \in Swaps
      /\ SelectOne("send") \in Swaps /\ Drain("recv") \in Swaps /\ SelectAll("send") \in Swaps
  BY EndpointConstants DEF WakeAll, SelectOne, SelectAll, Drain, Snapshots, Swaps
<1>. DEFINE S == WakeCalls(ArmNodes)
<1>2. /\ WakeAll("recv") \in S /\ SelectOne("recv") \in S
      /\ SelectOne("send") \in S /\ Drain("recv") \in S /\ SelectAll("send") \in S
  BY <1>1 DEF WakeCalls
<1>. HIDE DEF S
<1>. QED BY <1>2 DEF S

LEMMA AnnounceTyped ==
  ASSUME EndsTyped, NEW t \in Threads, Free(t), Advances(t),
         UNCHANGED <<program, held, arm, spurious, stack, aborted, selected>>,
         permit' \in [Threads -> BOOLEAN], waiting' \in [Lists -> Seq(Threads)],
         \/ UNCHANGED calls
         \/ \E wakes \in Seq(WakeCalls(ArmNodes)) : Then(t, wakes)
  PROVE  EndsTyped'
<1>. DEFINE S == Seq(WakeCalls(ArmNodes))
<1>1. calls \in [Threads -> S] /\ EndTypes
  BY DEF EndsTyped, EndTypes, WaiterTypes
<1>2. UNCHANGED calls \/ \E wakes \in S : Then(t, wakes)
  OBVIOUS
<1>. HIDE DEF S
<1>3. calls' \in [Threads -> S] /\ \A u \in Threads \ {t} : calls'[u] = calls[u]
  BY <1>1, <1>2 DEF Then
<1>4. Orderly(Steps)' /\ Alone(t) /\ Turned'
  BY AdvanceOrderly
<1>5. WaiterTypes(ArmNodes)'
  BY <1>1, <1>3 DEF EndTypes, WaiterTypes, ArmNodes, S
<1>6. EndTypes'
  BY <1>1, <1>4, <1>5 DEF EndTypes, Alone
<1>7. Growing
  BY <1>3 DEF Growing
<1>. QED BY <1>4, <1>6, <1>7, GrowingAborted DEF EndsTyped

LEMMA AnnouncingTyped ==
  ASSUME EndsTyped, Handles, NEW t \in Threads,
         \/ Push(t) \/ PopUnpark(t) \/ EnlistAndInvite(t) \/ DropLoad(t) \/ DropUnpark(t)
         \/ UNCHANGED rendezvousVars /\ (\/ ParkReturns(t, "park", "again")
                                         \/ ParkReturns(t, "blocked", "offered")
                                         \/ Again(t, "pop") \/ Return(t))
  PROVE  EndsTyped'
<1>0. permit \in [Threads -> BOOLEAN] /\ waiting \in [Lists -> Seq(Threads)] /\ EndTypes
  BY DEF EndsTyped, EndTypes, WaiterTypes
<1>1. ASSUME NEW wakes \in Seq(WakeCalls(ArmNodes)), Then(t, wakes)
      PROVE  \E w \in Seq(WakeCalls(ArmNodes)) : Then(t, w)
  BY <1>1
<1>2. ASSUME NEW n \in Threads, UnparkSender(n) PROVE permit' \in [Threads -> BOOLEAN]
  BY <1>0, <1>2 DEF UnparkSender
<1>3. ASSUME WalkEnds(t) PROVE Advances(t) /\ \E w \in Seq(WakeCalls(ArmNodes)) : Then(t, w)
  BY <1>1, <1>3, SendWakes DEF WalkEnds, Advances
<1>. USE InnerSteps
<1>4. CASE Push(t)
  <2>1. /\ Free(t) /\ Advances(t) /\ Then(t, <<WakeAll("recv"), SelectOne("recv")>>)
        /\ UNCHANGED <<program, held, arm, spurious, permit, waiting, stack, aborted, selected>>
    BY <1>4 DEF Push, At, quietVars, Advances
  <2>. QED BY <1>0, <1>1, <2>1, SendWakes, AnnounceTyped
<1>5. CASE PopUnpark(t)
  <2>1. /\ Free(t) /\ Advances(t) /\ pc[t] = "pop_unpark" /\ UnparkSender(looked[t].node)
        /\ UNCHANGED <<program, held, arm, spurious, waiting, stack, aborted, selected, calls>>
    BY <1>5 DEF PopUnpark, At, Advances
  <2>2. looked[t].node \in Threads
    BY <2>1 DEF Handles, HandlesOf, Looking
  <2>3. permit' \in [Threads -> BOOLEAN]
    BY <1>2, <2>1, <2>2
  <2>. QED BY <1>0, <2>1, <2>3, AnnounceTyped
<1>6. CASE EnlistAndInvite(t)
  <2>1. /\ Free(t) /\ Advances(t) /\ Then(t, <<SelectOne("send")>>)
        /\ waiting' = [waiting EXCEPT !["recv"] = Append(@, t)]
        /\ UNCHANGED <<program, held, arm, spurious, permit, stack, aborted, selected>>
    BY <1>6 DEF EnlistAndInvite, At, Register, Advances
  <2>2. waiting["recv"] \in Seq(Threads) /\ "recv" \in Lists
    BY <1>0, EndpointConstants
  <2>3. Append(waiting["recv"], t) \in Seq(Threads)
    BY <2>2
  <2>4. waiting' \in [Lists -> Seq(Threads)]
    BY <1>0, <2>1, <2>2, <2>3
  <2>. QED BY <1>0, <1>1, <2>1, <2>4, SendWakes, AnnounceTyped
<1>7. CASE DropLoad(t)
  <2>1. /\ Free(t) /\ UNCHANGED <<program, held, arm, spurious, permit, waiting, stack, aborted, selected>>
        /\ WalkEnds(t) \/ (Advances(t) /\ UNCHANGED calls)
    BY <1>7 DEF DropLoad, At, quietVars, Advances
  <2>. QED BY <1>0, <1>3, <2>1, AnnounceTyped
<1>8. CASE DropUnpark(t)
  <2>1. /\ Free(t) /\ UNCHANGED <<program, held, arm, spurious, waiting, stack, aborted, selected>>
        /\ WalkEnds(t) \/ (Advances(t) /\ UNCHANGED calls)
        /\ pc[t] = "drop_unpark" /\ UnparkSender(looked[t].node)
    BY <1>8 DEF DropUnpark, At, Advances
  <2>2. looked[t].node \in Threads
    BY <2>1 DEF Handles, HandlesOf, Looking
  <2>3. permit' \in [Threads -> BOOLEAN]
    BY <1>2, <2>1, <2>2
  <2>. QED BY <1>0, <1>3, <2>1, <2>3, AnnounceTyped
<1>9. CASE ParkReturns(t, "park", "again") \/ ParkReturns(t, "blocked", "offered")
  <2>1. /\ Free(t) /\ Advances(t) /\ permit' = [permit EXCEPT ![t] = FALSE]
        /\ UNCHANGED <<program, held, arm, spurious, waiting, stack, aborted, selected, calls>>
    BY <1>9 DEF ParkReturns, At, Advances
  <2>2. permit' \in [Threads -> BOOLEAN]
    BY <1>0, <2>1
  <2>. QED BY <1>0, <2>1, <2>2, AnnounceTyped
<1>10. CASE Again(t, "pop") \/ Return(t)
  <2>1. /\ Free(t) /\ Advances(t) /\ waiting' = [waiting EXCEPT !["recv"] = Without(@, t)]
        /\ UNCHANGED <<program, held, arm, spurious, permit, stack, aborted, selected, calls>>
    BY <1>10 DEF Again, Return, At, Unregister, Advances
  <2>2. waiting["recv"] \in Seq(Threads) /\ "recv" \in Lists
    BY <1>0, EndpointConstants
  <2>3. Without(waiting["recv"], t) \in Seq(Threads)
    BY <2>2, WithoutKeeps
  <2>4. waiting' \in [Lists -> Seq(Threads)]
    BY <1>0, <2>1, <2>2, <2>3
  <2>. QED BY <1>0, <2>1, <2>4, AnnounceTyped
<1>. QED BY <1>4, <1>5, <1>6, <1>7, <1>8, <1>9, <1>10

-----------------------------------------------------------------------------
(* The steps of select_impl, and those outside any operation.               *)
TurnOf(t) == pc[t] \in Turning => arm[t].turn # 0

LEMMA MildTyped ==
  ASSUME EndsTyped, EndTypes', NEW t \in Threads, Mild(t), TurnOf(t)', Orderly(Steps)'
  PROVE  EndsTyped'
<1>1. AbortedExist'
  BY GrowingAborted DEF EndsTyped, Mild
<1>2. ASSUME NEW u \in Threads PROVE TurnOf(u)'
  <2>1. CASE u = t
    BY <2>1
  <2>2. CASE u # t
    <3>1. pc'[u] = pc[u] /\ arm'[u] = arm[u] /\ TurnOf(u)
      BY <2>2 DEF Mild, EndsTyped, Turned, TurnOf
    <3>. QED BY <3>1 DEF TurnOf, Turning
  <2>. QED BY <2>1, <2>2
<1>3. Turned'
  BY <1>2 DEF Turned, TurnOf
<1>. QED BY <1>1, <1>3 DEF EndsTyped

LEMMA StepsOfSelect ==
  SelectSteps \cup {"complete", "idle"} \subseteq Steps /\ "probe" \in Steps /\ "idle" \in Steps
BY DEF Steps, SelectSteps

LEMMA ProbeTyped ==
  ASSUME EndsTyped, NEW t \in Threads, Probe(t) \/ ProbeOtherSide(t)
  PROVE  EndsTyped'
<1>1. UNCHANGED <<program, spurious>> /\ UNCHANGED probeVars
  BY DEF Probe, ProbeOtherSide, probeVars
<1>2. EndTypes /\ AbortedExist /\ Orderly(Steps) /\ DOMAIN pc = Threads /\ DOMAIN op = Threads
  BY DEF EndsTyped, EndTypes
<1>3. CASE ArmReady(t)
  <2>1. Orderly(Steps)'
    BY <1>1, <1>2, <1>3, StepsOfSelect, OrderlyProbe
  <2>2. /\ EndTypes' /\ Mild(t)
        /\ pc'[t] = "complete" \/ (arm'[t].turn = arm[t].turn /\ arm[t].turn # 0)
    BY <1>1, <1>2, <1>3, ReadyStep
  <2>3. TurnOf(t)'
    BY <2>2 DEF TurnOf, Turning, SelectSteps
  <2>. QED BY <2>1, <2>2, <2>3, MildTyped
<1>4. CASE ArmNotReady(t)
  <2>1. Orderly(Steps)'
    BY <1>1, <1>2, <1>4, StepsOfSelect, OrderlyProbe
  <2>2. /\ EndTypes' /\ Mild(t)
        /\ pc'[t] = "idle" \/ (arm' = arm /\ arm[t].turn # 0) \/ arm'[t].turn # 0
    BY <1>1, <1>2, <1>4, NotReadyStep
  <2>3. TurnOf(t)'
    BY <2>2 DEF TurnOf, Turning, SelectSteps
  <2>. QED BY <2>1, <2>2, <2>3, MildTyped
<1>5. CASE Step(t, "probe_more") /\ UNCHANGED <<arm, selected>>
  <2>1. Timed /\ UNCHANGED localVars /\ Alone(t) /\ pc'[t] = "probe_more"
    BY <1>1, <1>2, <1>5 DEF Timed, localVars, quietVars, probeVars, Alone, Step
  <2>2. "probe_more" \in Steps \ {"idle", "unborn"}
    BY DEF Steps, SelectSteps
  <2>3. Orderly(Steps)'
    BY <1>2, <1>5, <2>1, <2>2, OrderlyStep
  <2>4. EndTypes' /\ Mild(t)
    BY <1>2, <2>1, PlainStep
  <2>5. TurnOf(t)'
    BY <2>1 DEF TurnOf, Turning
  <2>. QED BY <2>3, <2>4, <2>5, MildTyped
<1>. QED BY <1>3, <1>4, <1>5 DEF Probe, ProbeOtherSide

LEMMA SelectTyped ==
  ASSUME EndsTyped, NEW t \in Threads,
         \/ PushArm(t, "enrol") \/ SelectStep(t)
         \/ SelectCall(t, "select_recv", "recv") \/ SelectCall(t, "select_send", "send")
  PROVE  EndsTyped'
<1>0. EndTypes /\ AbortedExist /\ Orderly(Steps) /\ DOMAIN pc = Threads /\ TurnOf(t)
  BY DEF EndsTyped, EndTypes, Turned, TurnOf
<1>1. ASSUME EndTypes', Mild(t), Orderly(Steps)', TurnOf(t)' PROVE EndsTyped'
  BY <1>1, MildTyped
<1>2. CASE PushArm(t, "enrol")
  <2>1. pc[t] = "enrol"
    BY <1>2 DEF PushArm, At
  <2>2. arm[t].turn # 0
    BY <1>0, <2>1 DEF TurnOf, Turning, SelectSteps
  <2>3. EndTypes' /\ Mild(t) /\ pc'[t] = "probe"
    BY <1>0, <1>2, <2>2, PushStep
  <2>4. TurnOf(t)'
    BY <2>3 DEF TurnOf, Turning
  <2>5. Orderly(Steps)'
    BY <1>0, <1>2, StepsOfSelect, OrderlyPush
  <2>. QED BY <1>1, <2>3, <2>4, <2>5
<1>3. CASE SelectStep(t)
  <2>0. Orderly(Steps)'
    BY <1>0, <1>3, StepsOfSelect, OrderlySelect
  <2>1. CASE Decide(t)
    <3>1. pc[t] = "decide"
      BY <2>1 DEF Decide, At
    <3>2. arm[t].turn # 0
      BY <1>0, <3>1 DEF TurnOf, Turning, SelectSteps
    <3>3. EndTypes' /\ Mild(t) /\ UNCHANGED arm
      BY <1>0, <2>1, DecideStep
    <3>. QED BY <1>1, <2>0, <3>2, <3>3 DEF TurnOf, Turning
  <2>2. CASE WakeUp(t)
    <3>1. pc[t] = "sleep"
      BY <2>2 DEF WakeUp, At
    <3>2. arm[t].turn # 0
      BY <1>0, <3>1 DEF TurnOf, Turning, SelectSteps
    <3>3. EndTypes' /\ Mild(t) /\ UNCHANGED arm
      BY <1>0, <2>2, WakeUpStep
    <3>. QED BY <1>1, <2>0, <3>2, <3>3 DEF TurnOf, Turning
  <2>3. CASE AbortLoad(t) \/ Walk(t)
    <3>1. pc[t] \in {"abort", "walk"}
      BY <2>3 DEF AbortLoad, Walk, At
    <3>2. arm[t].turn # 0
      BY <1>0, <3>1 DEF TurnOf, Turning, SelectSteps
    <3>3. EndTypes' /\ Mild(t) /\ arm'[t].turn = arm[t].turn
      BY <1>0, <2>3, AbortLoadStep, WalkStep
    <3>. QED BY <1>1, <2>0, <3>2, <3>3 DEF TurnOf, Turning
  <2>4. CASE Judge(t)
    <3>1. EndTypes' /\ Mild(t) /\ pc'[t] \in {"complete", "idle", "probe"}
      BY <1>0, <2>4, JudgeStep
    <3>2. TurnOf(t)'
      BY <3>1 DEF TurnOf, Turning, SelectSteps
    <3>. QED BY <1>1, <2>0, <3>1, <3>2
  <2>. QED BY <1>3, <2>1, <2>2, <2>3, <2>4 DEF SelectStep
<1>4. ASSUME NEW operation, NEW side, SelectCall(t, operation, side) PROVE EndsTyped'
  <2>1. EndTypes' /\ Mild(t) /\ pc'[t] = "probe"
    BY <1>0, <1>4, SelectCallStep
  <2>2. TurnOf(t)'
    BY <2>1 DEF TurnOf, Turning
  <2>3. Orderly(Steps)'
    BY <1>0, <1>4, StepsOfSelect, OrderlySelectCall
  <2>. QED BY <1>1, <2>1, <2>2, <2>3
<1>. QED BY <1>2, <1>3, <1>4

LEMMA OutsideTyped ==
  ASSUME EndsTyped, NEW t \in Threads,
         \/ DeadlinePasses(t) \/ Spurious(t) \/ DropSender(t) \/ DropReceiver(t)
         \/ \E u \in Threads : CloneHandle(t, u)
  PROVE  EndsTyped'
<1>0. EndTypes /\ AbortedExist /\ Orderly(Steps) /\ TurnOf(t)
  BY DEF EndsTyped, Turned, TurnOf
<1>1. Orderly(Steps)'
  BY <1>0, StepsOfSelect, OrderlyChance
<1>2. CASE DeadlinePasses(t)
  <2>1. EndTypes' /\ Mild(t) /\ UNCHANGED pc /\ arm'[t].turn = arm[t].turn
    BY <1>0, <1>2, DeadlineStep
  <2>2. TurnOf(t)'
    BY <1>0, <2>1 DEF TurnOf, Turning
  <2>. QED BY <1>1, <2>1, <2>2, MildTyped
<1>3. CASE Spurious(t)
  <2>1. EndTypes' /\ Mild(t) /\ UNCHANGED <<pc, arm>>
    BY <1>0, <1>3, SpuriousStep DEF Spurious
  <2>2. TurnOf(t)'
    BY <1>0, <2>1 DEF TurnOf, Turning
  <2>. QED BY <1>1, <2>1, <2>2, MildTyped
<1>4. CASE DropSender(t) \/ DropReceiver(t)
  <2>1. PICK side \in {"send", "recv"}, wakes \in {<<>>, WakeEverybody, <<Drain("recv")>>} :
          DropHandle(t, side, wakes)
    BY <1>4 DEF DropSender, DropReceiver
  <2>2. wakes \in Seq(WakeCalls(ArmNodes))
    BY WakeSequences
  <2>3. EndTypes' /\ Mild(t) /\ UNCHANGED <<pc, arm>>
    BY <1>0, <2>1, <2>2, DropHandleStep
  <2>4. TurnOf(t)'
    BY <1>0, <2>3 DEF TurnOf, Turning
  <2>. QED BY <1>1, <2>3, <2>4, MildTyped
<1>5. ASSUME NEW u \in Threads, CloneHandle(t, u) PROVE EndsTyped'
  <2>1. EndTypes' /\ Mild(u) /\ pc'[u] = "idle"
    BY <1>0, <1>5, CloneHandleStep
  <2>2. TurnOf(u)'
    BY <2>1 DEF TurnOf, Turning, SelectSteps
  <2>. QED BY <1>1, <2>1, <2>2, MildTyped
<1>. QED BY <1>2, <1>3, <1>4, <1>5

LEMMA DropLastTyped ==
  ASSUME EndsTyped, NEW t \in Threads, DropLast(t)
  PROVE  EndsTyped'
<1>1. /\ held' = [held EXCEPT ![t] = @ \ {"recv"}] /\ Step(t, "drop")
      /\ UNCHANGED <<program, arm, spurious, waiterVars>>
  BY DEF DropLast
<1>2. /\ EndTypes /\ AbortedExist /\ Orderly(Steps) /\ DOMAIN pc = Threads /\ DOMAIN op = Threads
      /\ held \in [Threads -> SUBSET {"send", "recv"}] /\ WaiterTypes(ArmNodes)
  BY DEF EndsTyped, EndTypes
<1>3. "drop" \in Steps \ {"idle", "unborn"} /\ Timed
  BY <1>1 DEF Steps, Timed
<1>4. Orderly(Steps)'
  BY <1>1, <1>2, <1>3, OrderlyStep
<1>5. held' \in [Threads -> SUBSET {"send", "recv"}]
  BY <1>1, <1>2
<1>6. Alone(t) /\ pc'[t] = "drop"
  BY <1>1, <1>2 DEF Alone, Step
<1>7. WaiterTypes(ArmNodes)'
  BY <1>1, <1>2 DEF WaiterTypes, waiterVars, ArmNodes
<1>8. EndTypes'
  BY <1>1, <1>2, <1>5, <1>6, <1>7 DEF EndTypes, Alone
<1>9. Growing /\ \A u \in Threads : Steady(u)
  BY <1>1 DEF Growing, Steady, Registered, waiterVars
<1>10. Mild(t)
  BY <1>1, <1>6, <1>9 DEF Mild, Alone
<1>11. TurnOf(t)'
  BY <1>6 DEF TurnOf, Turning, SelectSteps
<1>. QED BY <1>4, <1>8, <1>10, <1>11, MildTyped

LEMMA WakeTyped ==
  ASSUME EndsTyped, NEW t \in Threads, WakeStep(t), UNCHANGED endVars
  PROVE  EndsTyped'
<1>1. WaiterTypes(ArmNodes) /\ NodesOK(ArmNodes) /\ AbortedExist /\ Orderly(Steps) /\ EndTypes
  BY EndpointConstants DEF EndsTyped, EndTypes
<1>2. WaiterTypes(ArmNodes)' /\ AbortedExist'
  BY <1>1, WakeStepTypes, WakeStepAborted
<1>3. EndTypes'
  BY <1>1, <1>2 DEF EndTypes, endVars
<1>4. Orderly(Steps)'
  BY <1>1, OrderlyUnchanged
<1>. QED BY <1>2, <1>3, <1>4 DEF EndsTyped, Turned, endVars

(* Only a call of send counts, and no step changes the program.             *)
LEMMA SendsStay ==
  ASSUME Counted, NEW t \in Threads, RendezvousStep(t) \/ RendezvousChance(t), ~SendCall(t)
  PROVE  UNCHANGED <<program, sends>> /\ astray' \in BOOLEAN
<1>0. astray \in BOOLEAN
  BY DEF Counted
<1>1. CASE \/ RecvCall(t) \/ Check(t) \/ LoadTaken(t) \/ CountReceivers(t) \/ RemoveLoad(t)
           \/ RemoveNext(t) \/ RemoveBelow(t) \/ Recover(t) \/ PopLoad(t) \/ PopNext(t)
           \/ PopTake(t) \/ CountSenders(t) \/ Complete(t)
  <2>1. UNCHANGED program
    BY <1>1, LocalAdvances DEF Local, localVars, quietVars
  <2>. QED BY <1>0, <1>1, <2>1
       DEF RecvCall, Check, LoadTaken, CountReceivers, RemoveLoad, RemoveNext, RemoveBelow,
           Recover, PopLoad, PopNext, PopTake, CountSenders, Complete, rendezvousVars
<1>2. CASE RemoveHead(t) \/ RemoveWalk(t) \/ RemoveLink(t) \/ PopCas(t) \/ DropNext(t)
  <2>1. UNCHANGED program
    BY <1>2, LocalAdvances DEF Local, localVars, quietVars
  <2>. QED BY <1>0, <1>2, <2>1 DEF RemoveHead, RemoveWalk, RemoveLink, PopCas, DropNext, Stray
<1>3. CASE Push(t) \/ PopUnpark(t) \/ EnlistAndInvite(t) \/ DropLoad(t) \/ DropUnpark(t)
  BY <1>0, <1>3 DEF Push, PopUnpark, EnlistAndInvite, DropLoad, DropUnpark, quietVars, rendezvousVars
<1>4. CASE Probe(t) \/ ProbeOtherSide(t) \/ DropOne(t) \/ DropLast(t)
  BY <1>0, <1>4 DEF Probe, ProbeOtherSide, DropOne, DropLast, DropReceiver, DropHandle, probeVars,
                    rendezvousVars
<1>5. CASE /\ \/ ParkReturns(t, "park", "again") \/ ParkReturns(t, "blocked", "offered")
              \/ Again(t, "pop") \/ Return(t) \/ PushArm(t, "enrol")
              \/ (WakeStep(t) /\ UNCHANGED endVars)
           /\ UNCHANGED rendezvousVars
  BY <1>0, <1>5 DEF ParkReturns, Again, Return, PushArm, endVars, rendezvousVars
<1>6. CASE SelectStep(t) /\ UNCHANGED rendezvousVars
  BY <1>0, <1>6 DEF SelectStep, Decide, WakeUp, AbortLoad, Walk, Judge, localVars, quietVars,
                    probeVars, rendezvousVars
<1>7. CASE /\ \/ SelectCall(t, "select_recv", "recv") \/ DeadlinePasses(t)
              \/ DropSender(t) \/ Spurious(t) \/ \E u \in Threads : CloneHandle(t, u)
           /\ UNCHANGED rendezvousVars
  BY <1>0, <1>7 DEF SelectCall, DeadlinePasses, DropSender, DropHandle, Spurious, CloneHandle,
                    probeVars, rendezvousVars
<1>. QED BY <1>1, <1>2, <1>3, <1>4, <1>5, <1>6, <1>7 DEF RendezvousStep, RendezvousChance

LEMMA TypedInductive ==
  ASSUME StackInv, EndsTyped, Counted, [Next]_vars
  PROVE  EndsTyped' /\ Counted'
<1>0. Handles /\ program.items \in Nat
  BY ProgramAssumption DEF StackInv, EndsTyped, EndTypes
<1>1. CASE UNCHANGED vars
  <2>1. EndTypes'
    BY <1>1 DEF EndsTyped, EndTypes, WaiterTypes, vars, waiterVars, endVars
  <2>2. AbortedExist'
    BY <1>1 DEF EndsTyped, AbortedExist, Allocated, Chains, Drainers, Calling, vars, waiterVars
  <2>3. Orderly(Steps)'
    BY <1>1, OrderlyUnchanged DEF EndsTyped, vars
  <2>4. Turned' /\ Counted'
    BY <1>1 DEF EndsTyped, Turned, Counted, vars, endVars, rendezvousVars
  <2>. QED BY <2>1, <2>2, <2>3, <2>4 DEF EndsTyped
<1>2. CASE Over
  BY <1>1, <1>2 DEF Over
<1>3. ASSUME NEW t \in Threads, RendezvousStep(t) \/ RendezvousChance(t) PROVE EndsTyped'
  <2>1. CASE Local(t) \/ DropLoad(t) \/ Push(t) \/ PopUnpark(t) \/ EnlistAndInvite(t) \/ DropUnpark(t)
    BY <1>0, <2>1, LocalTyped, AnnouncingTyped
  <2>2. CASE UNCHANGED rendezvousVars /\ (\/ ParkReturns(t, "park", "again")
                                         \/ ParkReturns(t, "blocked", "offered")
                                         \/ Again(t, "pop") \/ Return(t))
    BY <1>0, <2>2, AnnouncingTyped
  <2>3. CASE Probe(t) \/ ProbeOtherSide(t)
    BY <2>3, ProbeTyped
  <2>4. CASE \/ PushArm(t, "enrol") \/ SelectStep(t)
             \/ SelectCall(t, "select_recv", "recv") \/ SelectCall(t, "select_send", "send")
    BY <2>4, SelectTyped
  <2>5. CASE WakeStep(t) /\ UNCHANGED endVars
    BY <2>5, WakeTyped
  <2>6. CASE \/ DeadlinePasses(t) \/ Spurious(t) \/ DropSender(t) \/ DropOne(t)
             \/ \E u \in Threads : CloneHandle(t, u)
    BY <2>6, OutsideTyped DEF DropOne
  <2>7. CASE DropLast(t)
    BY <2>7, DropLastTyped
  <2>8. CASE RendezvousStep(t)
    BY <2>1, <2>2, <2>3, <2>4, <2>5, <2>8 DEF RendezvousStep, Local
  <2>9. CASE RendezvousChance(t)
    <3>1. CASE SendCall(t)
      BY <2>1, <2>4, <3>1 DEF SendCall, Local
    <3>2. CASE RecvCall(t)
      BY <2>1, <3>2 DEF Local
    <3>. QED BY <2>4, <2>6, <2>7, <2>9, <3>1, <3>2 DEF RendezvousChance
  <2>. QED BY <1>3, <2>8, <2>9
<1>4. ASSUME NEW t \in Threads, RendezvousStep(t) \/ RendezvousChance(t) PROVE Counted'
  <2>1. CASE SendCall(t)
    <3>1. program' = program /\ sends < program.items /\ sends' = sends + 1 /\ astray' = astray
      BY <2>1 DEF SendCall, Call, SelectCall, localVars, quietVars, probeVars
    <3>. QED BY <1>0, <3>1 DEF Counted
  <2>2. CASE ~SendCall(t)
    BY <1>4, <2>2, SendsStay DEF Counted
  <2>. QED BY <2>1, <2>2
<1>. QED BY <1>1, <1>2, <1>3, <1>4 DEF Next

LEMMA TypedInitial ==
  ASSUME Init
  PROVE  EndsTyped /\ Counted
<1>1. EndTypes /\ AbortedExist
  BY EndpointInitial DEF Init, EndInv
<1>2. {"idle", "unborn"} \subseteq Steps
  BY DEF Steps
<1>3. Orderly(Steps)
  BY <1>2, OrderlyInitial DEF Init
<1>4. \A t \in Threads : pc[t] \in {"idle", "unborn"}
  BY DEF Init, EndpointInit
<1>5. Turned
  BY <1>4 DEF Turned, Turning, SelectSteps
<1>6. program.items \in Nat /\ sends = 0 /\ astray = FALSE
  BY ProgramAssumption DEF Init, EndpointInit, RendezvousInit
<1>7. Counted
  <2>1. 0 \in 0 .. program.items
    BY <1>6
  <2>. QED BY <1>6, <2>1 DEF Counted
<1>. QED BY <1>1, <1>3, <1>5, <1>7 DEF EndsTyped

(* Every variable keeps its type: whatever way a call ends, it gives back   *)
(* what it had taken hold of, and no walk over the stack goes on without a  *)
(* node.                                                                    *)
THEOREM RendezvousTypeCorrect == Spec => []TypeOK
<1>1. Init => EndsTyped /\ Counted
  BY TypedInitial
<1>2. StackInv /\ EndsTyped /\ Counted /\ [Next]_vars => EndsTyped' /\ Counted'
  BY TypedInductive
<1>3. StackInv /\ EndsTyped /\ Counted => TypeOK
  <2>. SUFFICES ASSUME StackInv, EndsTyped, Counted PROVE TypeOK
    OBVIOUS
  <2>1. EndpointTypeOK
    BY EndpointTypes DEF EndsTyped
  <2>2. pc \in [Threads -> Steps]
    BY DEF EndsTyped, Orderly
  <2>3. StackTypes
    BY DEF StackInv, Handles
  <2>4. \A t \in Threads : pc[t] \in Looking => looked[t].node \in Threads
    BY DEF StackInv, Handles, HandlesOf
  <2>. QED BY <2>1, <2>2, <2>3, <2>4 DEF TypeOK, StackTypes, Looks, Counted
<1>. QED BY <1>1, <1>2, <1>3, RendezvousInvariant, PTL DEF Spec

-----------------------------------------------------------------------------
(* A step of t outside the wake calls leaves every other thread where it is *)
(* and takes no permit, no registration and no call from it.                *)
LEMMA AdvanceMild ==
  ASSUME EndsTyped, NEW t \in Threads, Free(t), Advances(t),
         UNCHANGED <<program, arm, spurious, stack, aborted, selected>>,
         \A u \in Threads \ {t} : calls'[u] = calls[u],
         \A u \in Threads \ {t} : Registered(u)' = Registered(u) /\ (permit[u] => permit'[u])
  PROVE  Mild(t)
<1>1. Alone(t)
  BY AdvanceOrderly
<1>2. Growing
  BY DEF Growing
<1>3. \A u \in Threads \ {t} : Steady(u)
  BY DEF Steady
<1>. QED BY <1>1, <1>2, <1>3 DEF Mild, Alone

LEMMA AnnouncingMild ==
  ASSUME EndsTyped, Handles, NEW t \in Threads,
         \/ Push(t) \/ PopUnpark(t) \/ EnlistAndInvite(t) \/ DropLoad(t) \/ DropUnpark(t)
         \/ UNCHANGED rendezvousVars /\ (\/ ParkReturns(t, "park", "again")
                                         \/ ParkReturns(t, "blocked", "offered")
                                         \/ Again(t, "pop") \/ Return(t))
  PROVE  Mild(t)
<1>0. permit \in [Threads -> BOOLEAN] /\ waiting \in [Lists -> Seq(Threads)] /\ DOMAIN calls = Threads
  BY DEF EndsTyped, EndTypes, WaiterTypes
<1>1. waiting["recv"] \in Seq(Threads) /\ "recv" \in Lists
  BY <1>0, EndpointConstants
<1>2. ASSUME NEW wakes, Then(t, wakes) PROVE \A u \in Threads \ {t} : calls'[u] = calls[u]
  BY <1>0, <1>2 DEF Then
<1>3. ASSUME NEW n \in Threads, UnparkSender(n) PROVE \A u \in Threads : permit[u] => permit'[u]
  BY <1>0, <1>3 DEF UnparkSender
<1>4. ASSUME UNCHANGED waiting PROVE \A u \in Threads : Registered(u)' = Registered(u)
  BY <1>4 DEF Registered
<1>5. ASSUME WalkEnds(t) PROVE Advances(t) /\ \A u \in Threads \ {t} : calls'[u] = calls[u]
  BY <1>2, <1>5 DEF WalkEnds, Advances
<1>. USE InnerSteps
<1>6. CASE Push(t)
  <2>1. /\ Free(t) /\ Advances(t) /\ Then(t, <<WakeAll("recv"), SelectOne("recv")>>)
        /\ UNCHANGED <<program, held, arm, spurious, permit, waiting, stack, aborted, selected>>
    BY <1>6 DEF Push, At, quietVars, Advances
  <2>. QED BY <1>2, <1>4, <2>1, AdvanceMild
<1>7. CASE PopUnpark(t) \/ DropUnpark(t)
  <2>1. /\ Free(t) /\ pc[t] \in {"pop_unpark", "drop_unpark"} /\ UnparkSender(looked[t].node)
        /\ UNCHANGED <<program, held, arm, spurious, waiting, stack, aborted, selected>>
        /\ WalkEnds(t) \/ (Advances(t) /\ UNCHANGED calls)
    BY <1>7 DEF PopUnpark, DropUnpark, At, Advances
  <2>2. looked[t].node \in Threads
    BY <2>1 DEF Handles, HandlesOf, Looking
  <2>3. Advances(t) /\ \A u \in Threads \ {t} : calls'[u] = calls[u]
    BY <1>5, <2>1
  <2>. QED BY <1>3, <1>4, <2>1, <2>2, <2>3, AdvanceMild
<1>8. CASE EnlistAndInvite(t)
  <2>1. /\ Free(t) /\ Advances(t) /\ Then(t, <<SelectOne("send")>>)
        /\ waiting' = [waiting EXCEPT !["recv"] = Append(@, t)]
        /\ UNCHANGED <<program, held, arm, spurious, permit, stack, aborted, selected>>
    BY <1>8 DEF EnlistAndInvite, At, Register, Advances
  <2>2. waiting'["recv"] = Append(waiting["recv"], t)
    BY <1>0, <1>1, <2>1
  <2>3. ToSet(waiting'["recv"]) = ToSet(waiting["recv"]) \cup {t}
    BY <1>1, <2>2, ToSetAppend
  <2>4. \A u \in Threads \ {t} : Registered(u)' = Registered(u)
    BY <2>3 DEF Registered
  <2>. QED BY <1>2, <2>1, <2>4, AdvanceMild
<1>9. CASE DropLoad(t)
  <2>1. /\ Free(t) /\ UNCHANGED <<program, held, arm, spurious, permit, waiting, stack, aborted, selected>>
        /\ WalkEnds(t) \/ (Advances(t) /\ UNCHANGED calls)
    BY <1>9 DEF DropLoad, At, quietVars, Advances
  <2>2. Advances(t) /\ \A u \in Threads \ {t} : calls'[u] = calls[u]
    BY <1>5, <2>1
  <2>. QED BY <1>4, <2>1, <2>2, AdvanceMild
<1>10. CASE ParkReturns(t, "park", "again") \/ ParkReturns(t, "blocked", "offered")
  BY <1>10, ParkStep DEF EndsTyped
<1>11. CASE Again(t, "pop") \/ Return(t)
  BY <1>11, LeaveStep DEF EndsTyped
<1>. QED BY <1>6, <1>7, <1>8, <1>9, <1>10, <1>11

LEMMA LocalMild ==
  ASSUME EndsTyped, NEW t \in Threads, Local(t)
  PROVE  Mild(t) /\ Steady(t) /\ UNCHANGED localVars
<1>1. Advances(t) /\ UNCHANGED localVars
  BY LocalAdvances
<1>2. Alone(t)
  BY <1>1, AdvanceOrderly DEF localVars, quietVars
<1>. QED BY <1>1, <1>2, PlainStep DEF EndsTyped

(* The steps of select_impl and of a probe.                                 *)
LEMMA SelectMild ==
  ASSUME EndsTyped, NEW t \in Threads,
         \/ Probe(t) \/ ProbeOtherSide(t) \/ PushArm(t, "enrol") \/ SelectStep(t)
         \/ SelectCall(t, "select_recv", "recv") \/ SelectCall(t, "select_send", "send")
  PROVE  Mild(t)
<1>0. EndTypes /\ AbortedExist /\ (pc[t] \in Turning => arm[t].turn # 0)
  BY DEF EndsTyped, Turned
<1>1. CASE Probe(t) \/ ProbeOtherSide(t)
  <2>1. UNCHANGED probeVars
    BY <1>1 DEF Probe, ProbeOtherSide
  <2>2. CASE ArmReady(t) \/ ArmNotReady(t)
    BY <1>0, <2>1, <2>2, ReadyStep, NotReadyStep
  <2>3. CASE Step(t, "probe_more") /\ UNCHANGED <<arm, selected>>
    <3>1. UNCHANGED localVars /\ Alone(t)
      BY <1>0, <2>1, <2>3 DEF localVars, quietVars, probeVars, Alone, Step, EndTypes
    <3>. QED BY <1>0, <3>1, PlainStep
  <2>. QED BY <1>1, <2>2, <2>3 DEF Probe, ProbeOtherSide
<1>2. CASE PushArm(t, "enrol")
  <2>1. arm[t].turn # 0
    BY <1>0, <1>2 DEF PushArm, At, Turning, SelectSteps
  <2>. QED BY <1>0, <1>2, <2>1, PushStep
<1>3. CASE SelectStep(t)
  BY <1>0, <1>3, DecideStep, WakeUpStep, AbortLoadStep, WalkStep, JudgeStep DEF SelectStep
<1>4. CASE SelectCall(t, "select_recv", "recv") \/ SelectCall(t, "select_send", "send")
  BY <1>0, <1>4, SelectCallStep
<1>. QED BY <1>1, <1>2, <1>3, <1>4

LEMMA OutsideMild ==
  ASSUME EndsTyped, NEW t \in Threads,
         DeadlinePasses(t) \/ Spurious(t) \/ DropSender(t) \/ DropOne(t) \/ DropLast(t)
  PROVE  Mild(t) /\ Steady(t)
<1>0. EndTypes
  BY DEF EndsTyped
<1>1. CASE DeadlinePasses(t) \/ Spurious(t)
  BY <1>0, <1>1, DeadlineStep, SpuriousStep
<1>2. CASE DropSender(t) \/ DropOne(t)
  <2>1. PICK side \in {"send", "recv"}, wakes \in {<<>>, WakeEverybody, <<Drain("recv")>>} :
          DropHandle(t, side, wakes)
    BY <1>2 DEF DropSender, DropOne, DropReceiver
  <2>2. wakes \in Seq(WakeCalls(ArmNodes))
    BY WakeSequences
  <2>. QED BY <1>0, <2>1, <2>2, DropHandleStep
<1>3. CASE DropLast(t)
  <2>1. Step(t, "drop") /\ UNCHANGED <<program, arm, spurious, waiterVars>>
    BY <1>3 DEF DropLast
  <2>2. Growing /\ \A u \in Threads : Steady(u)
    BY <2>1 DEF Growing, Steady, Registered, waiterVars
  <2>. QED BY <1>0, <2>1, <2>2 DEF Mild, Step, EndTypes
<1>. QED BY <1>1, <1>2, <1>3

-----------------------------------------------------------------------------
(* A receiver that looks at the senders, or parks, on the list has a call   *)
(* before it that unparks it if there is a sender.                          *)
Hears(t) ==
  /\ pc[t] = "park" => Registered(t)
  /\ pc[t] = "count_senders" /\ Registered(t) /\ top # Null => Woken(t, "recv")
  /\ pc[t] = "park" /\ SomeSender => Woken(t, "recv")

Unborn == \A t \in Threads : pc[t] = "unborn" => held[t] = {}

HearsInv == Unborn /\ \A t \in Threads : Hears(t)

(* Unless everybody is woken, no sender comes and the last does not go.     *)
Quiet == (top' # Null => top # Null) /\ (Senders' = {} => Senders = {})

LEMMA HearsStays ==
  ASSUME NEW t \in Threads, Hears(t), pc'[t] = pc[t], Registered(t)' = Registered(t),
         Registered(t) /\ Woken(t, "recv") => Woken(t, "recv")', Quiet \/ Woken(t, "recv")'
  PROVE  Hears(t)'
BY DEF Hears, Quiet, SomeSender

LEMMA MildWoken ==
  ASSUME EndTypes, NEW m \in Threads, Mild(m), NEW t \in Threads, Woken(t, "recv"),
         permit[t] => permit'[t]
  PROVE  Woken(t, "recv")'
<1>1. \A v \in Threads : ToSet(calls[v]) \subseteq ToSet(calls'[v])
  <2>. TAKE v \in Threads
  <2>1. CASE calls'[v] = calls[v]
    BY <2>1
  <2>2. CASE calls[v] = <<>>
    BY <2>2 DEF ToSet
  <2>. QED BY <2>1, <2>2 DEF Mild, Growing, Free
<1>. QED BY <1>1, StaysWoken, EndpointConstants

LEMMA MildHears ==
  ASSUME HearsInv, EndTypes, NEW m \in Threads, Mild(m),
         \/ pc'[m] \notin {"count_senders", "park"}
         \/ Hears(m)'
         \/ pc'[m] = pc[m] /\ Steady(m),
         Quiet \/ \A t \in Threads : Woken(t, "recv")'
  PROVE  \A t \in Threads : Hears(t)'
<1>. TAKE t \in Threads
<1>1. Hears(t)
  BY DEF HearsInv
<1>2. CASE t # m \/ (pc'[m] = pc[m] /\ Steady(m))
  <2>1. pc'[t] = pc[t] /\ Steady(t)
    BY <1>2 DEF Mild
  <2>2. Woken(t, "recv") => Woken(t, "recv")'
    BY <2>1, MildWoken DEF Steady
  <2>. QED BY <1>1, <2>1, <2>2, HearsStays DEF Steady
<1>3. CASE pc'[m] \notin {"count_senders", "park"} /\ t = m
  BY <1>3 DEF Hears
<1>. QED BY <1>2, <1>3

(* Only an offer fills the stack, and only the senders' handles matter.     *)
LEMMA SameSenders ==
  ASSUME held' = held
  PROVE  Senders' = Senders
BY DEF Senders

LEMMA LocalQuiet ==
  ASSUME Handles, NEW t \in Threads, Local(t), Call(t, "send", "send", "check") => SendCall(t)
  PROVE  Quiet /\ held' = held
<1>1. held' = held
  BY LocalAdvances DEF localVars, quietVars
<1>2. top' # Null => top # Null
  <2>1. CASE RemoveHead(t) \/ PopCas(t)
    <3>1. t \in Threads /\ (pc[t] = "pop_cas" => looked[t].node \in Threads)
      BY DEF Handles, HandlesOf, Looking
    <3>. QED BY <2>1, <3>1, RendezvousAssumption DEF RemoveHead, PopCas, At
  <2>2. CASE \/ RecvCall(t) \/ Check(t) \/ LoadTaken(t) \/ CountReceivers(t) \/ RemoveLoad(t)
             \/ RemoveNext(t) \/ RemoveWalk(t) \/ RemoveBelow(t) \/ RemoveLink(t)
             \/ Recover(t) \/ PopLoad(t) \/ PopNext(t) \/ PopTake(t) \/ CountSenders(t)
             \/ DropNext(t) \/ Complete(t) \/ SendCall(t)
    BY <2>2 DEF SendCall, RecvCall, Check, LoadTaken, CountReceivers, RemoveLoad, RemoveNext, RemoveWalk,
                RemoveBelow, RemoveLink, Recover, PopLoad, PopNext, PopTake, CountSenders, DropNext,
                Complete, rendezvousVars, stackVars
  <2>. QED BY <2>1, <2>2 DEF Local
<1>. QED BY <1>1, <1>2, SameSenders DEF Quiet

(* What the steps do to what a receiver hears.                              *)
LEMMA LocalHears ==
  ASSUME Handles, EndsTyped, HearsInv, NEW t \in Threads, Local(t),
         Call(t, "send", "send", "check") => SendCall(t)
  PROVE  HearsInv'
<1>0. Mild(t) /\ Steady(t) /\ UNCHANGED localVars /\ EndTypes /\ Hears(t)
  BY LocalMild DEF EndsTyped, HearsInv
<1>1. Quiet /\ held' = held
  BY LocalQuiet
<1>2. Advances(t) /\ Orderly(Steps) /\ DOMAIN pc = Threads
  BY LocalAdvances DEF EndsTyped, EndTypes
<1>3. Hears(t)' \/ pc'[t] \notin {"count_senders", "park"}
  <2>1. CASE PopLoad(t)
    <3>1. top' = top /\ ((pc'[t] = "count_senders" /\ top = Null) \/ pc'[t] = "pop_next")
      BY <1>2, <2>1 DEF PopLoad, Step
    <3>. QED BY <3>1 DEF Hears
  <2>2. CASE CountSenders(t)
    <3>1. /\ pc[t] = "count_senders" /\ top' = top
          /\ \/ pc'[t] \in {"return", "enlist"}
             \/ pc'[t] = "park" /\ Registered(t) /\ Senders # {}
      BY <1>2, <2>2 DEF CountSenders, Answer, Step, Nothing, At, rendezvousVars, stackVars
    <3>2. CASE pc'[t] = "park"
      <4>1. Registered(t)' /\ Senders' # {} /\ Registered(t)
        BY <1>0, <1>1, <3>1, <3>2, SameSenders DEF Steady
      <4>2. Woken(t, "recv") => Woken(t, "recv")'
        BY <1>0, MildWoken DEF Steady
      <4>. QED BY <1>0, <3>1, <3>2, <4>1, <4>2 DEF Hears, SomeSender
    <3>. QED BY <3>1, <3>2
  <2>3. CASE \/ RecvCall(t) \/ Check(t) \/ LoadTaken(t) \/ CountReceivers(t)
             \/ Recover(t) \/ PopNext(t) \/ PopTake(t) \/ DropNext(t) \/ Complete(t) \/ SendCall(t)
    BY <1>2, <2>3 DEF RecvCall, Check, CheckReceivers, LoadTaken, CountReceivers, Recover, PopNext,
       PopTake, DropNext, Complete, CompleteBy, SendCall, SelectCall, Call, Step, Finish
  <2>4. CASE RemoveLoad(t)
    <3>1. \E to \in {"recover", "remove_next", "remove_walk"} : Step(t, to)
      BY <2>4 DEF RemoveLoad
    <3>. QED BY <1>2, <3>1 DEF Step
  <2>5. CASE RemoveWalk(t)
    <3>1. \E to \in {"remove_below", "recover", "remove_walk"} : Step(t, to)
      BY <2>5 DEF RemoveWalk
    <3>. QED BY <1>2, <3>1 DEF Step
  <2>6. CASE RemoveNext(t) \/ RemoveHead(t) \/ RemoveBelow(t) \/ RemoveLink(t) \/ PopCas(t)
    BY <1>2, <2>6 DEF RemoveNext, RemoveHead, RemoveBelow, RemoveLink, PopCas, Step
  <2>. QED BY <2>1, <2>2, <2>3, <2>4, <2>5, <2>6 DEF Local
<1>4. Unborn'
  <2>1. \A u \in Threads : pc'[u] = "unborn" => pc[u] = "unborn"
    <3>1. pc'[t] # "unborn"
      BY <1>2 DEF Advances, Step, Answer, Finish, Inner
    <3>. QED BY <1>0, <3>1 DEF Mild
  <2>. QED BY <1>1, <2>1 DEF HearsInv, Unborn
<1>. QED BY <1>0, <1>1, <1>3, <1>4, MildHears DEF HearsInv

LEMMA UnbornStays ==
  ASSUME Unborn, NEW m \in Threads, \A t \in Threads \ {m} : pc'[t] = pc[t], held' = held,
         pc'[m] # "unborn"
  PROVE  Unborn'
BY DEF Unborn

LEMMA AnnouncingHears ==
  ASSUME Handles, EndsTyped, HearsInv, NEW t \in Threads,
         \/ Push(t) \/ PopUnpark(t) \/ EnlistAndInvite(t) \/ DropLoad(t) \/ DropUnpark(t)
         \/ UNCHANGED rendezvousVars /\ (\/ ParkReturns(t, "park", "again")
                                         \/ ParkReturns(t, "blocked", "offered")
                                         \/ Again(t, "pop") \/ Return(t))
  PROVE  HearsInv'
<1>0. Mild(t) /\ EndTypes /\ DOMAIN pc = Threads
  BY AnnouncingMild DEF EndsTyped, EndTypes
<1>1. held' = held /\ pc'[t] \in {"offered", "return", "pop", "idle", "drop_next", "again"}
  <2>1. CASE Push(t) \/ PopUnpark(t) \/ EnlistAndInvite(t)
    BY <1>0, <2>1 DEF Push, PopUnpark, EnlistAndInvite, Step, Answer, quietVars
  <2>2. CASE DropLoad(t) \/ DropUnpark(t)
    BY <1>0, <2>2 DEF DropLoad, DropUnpark, WalkEnds, Finish, Step, quietVars
  <2>3. CASE \/ ParkReturns(t, "park", "again") \/ ParkReturns(t, "blocked", "offered")
             \/ Again(t, "pop") \/ Return(t)
    BY <1>0, <2>3 DEF ParkReturns, Again, Return, Finish, Step
  <2>. QED BY <2>1, <2>2, <2>3
<1>2. Unborn'
  BY <1>0, <1>1, UnbornStays DEF HearsInv, Mild
<1>3. CASE Push(t)
  <2>1. calls'[t] = <<WakeAll("recv"), SelectOne("recv")>>
    BY <1>3 DEF Push, Then, EndsTyped, EndTypes, WaiterTypes
  <2>2. WakeAll("recv") \in ToSet(calls'[t])
    BY <2>1 DEF ToSet
  <2>3. \A u \in Threads : Woken(u, "recv")'
    BY <2>2 DEF Woken, Wakes, WakeAll
  <2>. QED BY <1>0, <1>1, <1>2, <2>3, MildHears DEF HearsInv
<1>4. CASE ~Push(t)
  <2>1. top' = top
    BY <1>4 DEF PopUnpark, EnlistAndInvite, DropLoad, DropUnpark, rendezvousVars, stackVars
  <2>2. Quiet
    BY <1>1, <2>1, SameSenders DEF Quiet
  <2>. QED BY <1>0, <1>1, <1>2, <2>2, MildHears DEF HearsInv
<1>. QED BY <1>3, <1>4

LEMMA SelectingHears ==
  ASSUME Handles, EndsTyped, HearsInv, NEW t \in Threads,
         \/ Probe(t) \/ ProbeOtherSide(t)
         \/ UNCHANGED rendezvousVars /\ (PushArm(t, "enrol") \/ SelectStep(t))
         \/ UNCHANGED stackVars /\ (\/ SelectCall(t, "select_recv", "recv")
                                    \/ SelectCall(t, "select_send", "send"))
  PROVE  HearsInv'
<1>0. Mild(t) /\ EndTypes /\ DOMAIN pc = Threads
  BY SelectMild DEF EndsTyped, EndTypes
<1>1. UNCHANGED <<top, held>> /\ pc'[t] \in Outer \cup {"idle"}
  <2>1. CASE Probe(t) \/ ProbeOtherSide(t)
    BY <1>0, <2>1, ProbeOuter DEF rendezvousVars, stackVars
  <2>2. CASE UNCHANGED rendezvousVars /\ SelectStep(t)
    BY <1>0, <2>2, SelectOuter DEF rendezvousVars, stackVars
  <2>3. CASE UNCHANGED rendezvousVars /\ PushArm(t, "enrol")
    BY <1>0, <2>3 DEF PushArm, Step, rendezvousVars, stackVars, Outer, SelectSteps
  <2>4. CASE /\ UNCHANGED stackVars
             /\ SelectCall(t, "select_recv", "recv") \/ SelectCall(t, "select_send", "send")
    BY <1>0, <2>4 DEF SelectCall, probeVars, stackVars, Outer, SelectSteps
  <2>. QED BY <2>1, <2>2, <2>3, <2>4
<1>2. pc'[t] \notin {"count_senders", "park", "unborn"}
  BY <1>1 DEF Outer, SelectSteps
<1>3. Unborn'
  BY <1>0, <1>1, <1>2, UnbornStays DEF HearsInv, Mild
<1>4. Quiet
  BY <1>1, SameSenders DEF Quiet
<1>. QED BY <1>0, <1>2, <1>3, <1>4, MildHears DEF HearsInv

LEMMA OutsideHears ==
  ASSUME Handles, EndsTyped, HearsInv, NEW t \in Threads,
         \/ DropOne(t) \/ DropLast(t)
         \/ UNCHANGED rendezvousVars /\ (DeadlinePasses(t) \/ Spurious(t) \/ DropSender(t))
  PROVE  HearsInv'
<1>0. Mild(t) /\ Steady(t) /\ EndTypes /\ DOMAIN pc = Threads /\ DOMAIN held = Threads
  BY OutsideMild DEF EndsTyped, EndTypes
<1>1. top' = top
  BY DEF DropOne, DropLast, rendezvousVars, stackVars
<1>2. CASE DeadlinePasses(t) \/ Spurious(t)
  <2>1. pc' = pc /\ held' = held
    BY <1>2 DEF DeadlinePasses, Spurious
  <2>2. Quiet /\ Unborn'
    BY <1>1, <2>1, SameSenders DEF Quiet, HearsInv, Unborn
  <2>. QED BY <1>0, <2>1, <2>2, MildHears DEF HearsInv
<1>3. CASE DropOne(t) \/ DropLast(t)
  <2>1. held' = [held EXCEPT ![t] = @ \ {"recv"}] /\ pc[t] = "idle" /\ pc'[t] \in {"idle", "drop"}
    BY <1>0, <1>3 DEF DropOne, DropReceiver, DropHandle, DropLast, MayDrop, At, Step
  <2>2. Senders' = Senders
    BY <1>0, <2>1 DEF Senders
  <2>3. Unborn'
    BY <1>0, <2>1 DEF HearsInv, Unborn, Mild
  <2>. QED BY <1>0, <1>1, <2>1, <2>2, <2>3, MildHears DEF Quiet, HearsInv
<1>4. CASE DropSender(t)
  <2>1. /\ held' = [held EXCEPT ![t] = @ \ {"send"}] /\ pc[t] = "idle" /\ pc' = pc
        /\ Then(t, IF Senders = {t} THEN WakeEverybody ELSE <<>>)
    BY <1>4 DEF DropSender, DropHandle, MayDrop, At
  <2>2. Senders' = Senders \ {t}
    BY <1>0, <2>1 DEF Senders
  <2>3. Unborn'
    BY <1>0, <2>1 DEF HearsInv, Unborn
  <2>4. CASE Senders = {t}
    <3>1. calls'[t] = WakeEverybody
      BY <2>1, <2>4 DEF Then, EndsTyped, EndTypes, WaiterTypes
    <3>2. WakeAll("recv") \in ToSet(calls'[t])
      BY <3>1 DEF ToSet, WakeEverybody
    <3>3. \A u \in Threads : Woken(u, "recv")'
      BY <3>2 DEF Woken, Wakes, WakeAll
    <3>. QED BY <1>0, <2>1, <2>3, <3>3, MildHears DEF HearsInv
  <2>5. CASE Senders # {t}
    BY <1>0, <1>1, <2>1, <2>2, <2>3, <2>5, MildHears DEF Quiet, HearsInv
  <2>. QED BY <2>4, <2>5
<1>. QED BY <1>2, <1>3, <1>4

LEMMA CloneHears ==
  ASSUME Handles, EndsTyped, HearsInv, NEW t \in Threads, NEW x \in Threads, CloneHandle(t, x),
         UNCHANGED rendezvousVars
  PROVE  HearsInv'
<1>0. Mild(x) /\ pc'[x] = "idle" /\ EndTypes /\ DOMAIN held = Threads
  BY CloneHandleStep DEF EndsTyped, EndTypes
<1>1. /\ held' = [held EXCEPT ![x] = {program.offspring[x]}] /\ held[x] = {} /\ top' = top
  BY DEF CloneHandle, HearsInv, Unborn, rendezvousVars, stackVars
<1>2. Quiet
  BY <1>0, <1>1 DEF Quiet, Senders
<1>3. Unborn'
  BY <1>0, <1>1 DEF HearsInv, Unborn, Mild
<1>. QED BY <1>0, <1>2, <1>3, MildHears DEF HearsInv

LEMMA WakeHears ==
  ASSUME EndsTyped, HearsInv, NEW u \in Threads, WakeStep(u), UNCHANGED <<endVars, rendezvousVars>>
  PROVE  HearsInv'
<1>0. WaiterTypes(ArmNodes) /\ NodesOK(ArmNodes) /\ "recv" \in Lists
  BY EndpointConstants DEF EndsTyped, EndTypes
<1>1. waiting' = waiting
  BY DEF WakeStep, SnapshotOne, SnapshotAll, UnparkNext, SwapStack, VisitNode, ElectNode
<1>2. Quiet
  BY SameSenders DEF Quiet, endVars, rendezvousVars, stackVars
<1>3. ASSUME NEW t \in Threads PROVE Hears(t)'
  <2>1. Registered(t) /\ Woken(t, "recv") => Woken(t, "recv")'
    BY <1>0, WakeStepWakes DEF Registered
  <2>. QED BY <1>1, <1>2, <2>1, HearsStays DEF HearsInv, endVars, Registered
<1>. QED BY <1>3 DEF HearsInv, Unborn, endVars

LEMMA HearsStep ==
  ASSUME Handles, EndsTyped, HearsInv, [Next]_vars
  PROVE  HearsInv'
<1>1. CASE UNCHANGED vars
  BY <1>1 DEF vars, waiterVars, endVars, rendezvousVars, stackVars, HearsInv, Unborn, Hears, SomeSender,
              Senders, Registered, Woken, Wakes
<1>2. ASSUME NEW t \in Threads, RendezvousStep(t) PROVE HearsInv'
  <2>1. CASE /\ Local(t) /\ (Call(t, "send", "send", "check") => SendCall(t))
    BY <2>1, LocalHears
  <2>2. ~Call(t, "send", "send", "check") \/ pc[t] = "idle"
    BY DEF Call, At
  <2>3. CASE \/ Push(t) \/ PopUnpark(t) \/ EnlistAndInvite(t) \/ DropLoad(t) \/ DropUnpark(t)
             \/ UNCHANGED rendezvousVars /\ (\/ ParkReturns(t, "park", "again")
                                             \/ ParkReturns(t, "blocked", "offered")
                                             \/ Again(t, "pop") \/ Return(t))
    BY <2>3, AnnouncingHears
  <2>4. CASE \/ Probe(t) \/ ProbeOtherSide(t)
             \/ UNCHANGED rendezvousVars /\ (PushArm(t, "enrol") \/ SelectStep(t))
    BY <2>4, SelectingHears
  <2>5. CASE WakeStep(t) /\ UNCHANGED endVars /\ UNCHANGED rendezvousVars
    BY <2>5, WakeHears
  <2>6. CASE \/ Check(t) \/ LoadTaken(t) \/ CountReceivers(t) \/ RemoveLoad(t)
             \/ RemoveNext(t) \/ RemoveHead(t) \/ RemoveWalk(t) \/ RemoveBelow(t) \/ RemoveLink(t)
             \/ Recover(t) \/ PopLoad(t) \/ PopNext(t) \/ PopCas(t) \/ PopTake(t) \/ CountSenders(t)
             \/ DropNext(t) \/ Complete(t)
    <3>1. Local(t) /\ pc[t] # "idle"
      BY <2>6 DEF Local, Check, CheckReceivers, LoadTaken, CountReceivers, RemoveLoad, RemoveNext,
         RemoveHead, RemoveWalk, RemoveBelow, RemoveLink, Recover, PopLoad, PopNext, PopCas, PopTake,
         CountSenders, DropNext, Complete, CompleteBy, At
    <3>. QED BY <2>1, <2>2, <3>1
  <2>. QED BY <1>2, <2>3, <2>4, <2>5, <2>6 DEF RendezvousStep
<1>3. ASSUME NEW t \in Threads, RendezvousChance(t) PROVE HearsInv'
  <2>1. CASE SendCall(t)
    <3>1. CASE Call(t, "send", "send", "check")
      BY <2>1, <3>1, LocalHears DEF Local
    <3>2. CASE SelectCall(t, "select_send", "send")
      BY <2>1, <3>2, SelectingHears DEF SendCall
    <3>. QED BY <2>1, <3>1, <3>2 DEF SendCall
  <2>2. CASE RecvCall(t)
    <3>1. PICK operation \in {"recv", "try_recv"} : Call(t, operation, "recv", "pop")
      BY <2>2 DEF RecvCall
    <3>2. ~Call(t, "send", "send", "check")
      BY <3>1 DEF Call, EndsTyped, EndTypes
    <3>. QED BY <2>2, <3>2, LocalHears DEF Local
  <2>3. CASE SelectCall(t, "select_recv", "recv") /\ UNCHANGED rendezvousVars
    BY <2>3, SelectingHears DEF rendezvousVars
  <2>4. CASE \/ DropOne(t) \/ DropLast(t)
             \/ UNCHANGED rendezvousVars /\ (DeadlinePasses(t) \/ Spurious(t) \/ DropSender(t))
    BY <2>4, OutsideHears
  <2>5. CASE UNCHANGED rendezvousVars /\ \E u \in Threads : CloneHandle(t, u)
    BY <2>5, CloneHears
  <2>. QED BY <1>3, <2>1, <2>2, <2>3, <2>4, <2>5 DEF RendezvousChance
<1>. QED BY <1>1, <1>2, <1>3 DEF Next, Over

LEMMA HearsInitial ==
  ASSUME Init
  PROVE  HearsInv
<1>1. \A t \in Threads : pc[t] = IF program.offspring[t] = NoHandle THEN "idle" ELSE "unborn"
  BY DEF Init, EndpointInit
<1>2. held = program.handles /\ program \in Programs
  BY DEF Init, EndpointInit
<1>3. Unborn
  BY <1>1, <1>2, ProgramAssumption DEF Unborn
<1>. QED BY <1>1, <1>3 DEF HearsInv, Hears

(* A call that wakes a registered receiver is one that unparks it.          *)
LEMMA WokenUnparks ==
  ASSUME NEW t \in Threads, Woken(t, "recv"), ~permit[t]
  PROVE  \E u \in Threads : WillUnpark(u, t)
<1>0. PICK u \in Threads : \E call \in ToSet(calls[u]) : Wakes(call, t, "recv")
  BY DEF Woken
<1>1. PICK call \in ToSet(calls[u]) : Wakes(call, t, "recv")
  BY <1>0
<1>2. PICK i \in DOMAIN calls[u] : calls[u][i] = call
  BY DEF ToSet
<1>. QED BY <1>1, <1>2 DEF WillUnpark, Wakes

(* A receiver that waits is unparked by the sender that comes and by the    *)
(* last that goes, whether or not a walk over the stack has gone astray.    *)
THEOREM RendezvousReceiversHear ==
  Spec => [](\A t \in Threads : ~permit[t] => ReceiverHears(t))
<1>. DEFINE Known == StackInv /\ EndsTyped /\ Counted
            All == \A t \in Threads : ~permit[t] => ReceiverHears(t)
<1>1. Init => EndsTyped /\ Counted /\ HearsInv
  BY TypedInitial, HearsInitial
<1>2. StackInv /\ EndsTyped /\ Counted /\ HearsInv /\ [Next]_vars => EndsTyped' /\ Counted' /\ HearsInv'
  BY TypedInductive, HearsStep DEF StackInv
<1>3. HearsInv => All
  BY WokenUnparks DEF HearsInv, Hears, ReceiverHears
<1>. HIDE DEF All
<1>4. Spec => []All
  BY <1>1, <1>2, <1>3, RendezvousInvariant, PTL DEF Spec
<1>. QED BY <1>4 DEF All

-----------------------------------------------------------------------------
(* A sender whose item has been taken has its permit, or the receiver that  *)
(* took it is about to unpark it.                                           *)
Tells(u, t) == pc[u] = "pop_unpark" /\ looked[u].node = t
Told(t) == taken[t] /\ pc[t] \in {"count", "blocked"} => permit[t] \/ \E u \in Threads : Tells(u, t)

(* And one whose item nobody will take has its permit, or the last          *)
(* receiver's walk over the stack has still to come by.                     *)
Walking == {"drop", "drop_next", "drop_unpark"}
Toward(n, t) == n = t \/ Leads(n, t)
ComesBy(u, t) ==
  \/ pc[u] = "drop"
  \/ pc[u] = "drop_next" /\ Toward(looked[u].node, t)
  \/ pc[u] = "drop_unpark" /\ (looked[u].node = t \/ Toward(looked[u].below, t))

Deserted(t) == ~astray /\ pc[t] = "blocked" /\ ~taken[t] /\ Receivers = {} /\ ~permit[t]
Fetched(t) == Deserted(t) => \E u \in Threads : ComesBy(u, t)

TellsInv == \A t \in Threads : Told(t) /\ Fetched(t)

(* Most steps concern nobody who blocks, nor anybody who comes by.          *)
Aside(m) ==
  /\ \A u \in Threads \ {m} :
       pc'[u] = pc[u] /\ looked'[u] = looked[u] /\ (permit[u] => permit'[u])
  /\ ~astray' => ~astray

Same(m) == pc'[m] = pc[m] /\ looked'[m] = looked[m] /\ (permit[m] => permit'[m])

Plain(m) ==
  /\ Aside(m) /\ UNCHANGED <<next, taken>> /\ (Receivers' = {} => Receivers = {})
  /\ pc'[m] \in FrameSteps => pc[m] \in FrameSteps
  /\ \/ Same(m)
     \/ /\ pc[m] \notin Walking \cup {"pop_unpark"} /\ pc'[m] # "blocked"
        /\ pc'[m] = "count" => ~taken[m]

LEMMA ToldStays ==
  ASSUME NEW t \in Threads, Told(t), NEW m \in Threads, Aside(m), taken'[t] => taken[t],
         \/ Same(m)
         \/ /\ pc[m] # "pop_unpark"
            /\ t = m => \/ pc'[t] \notin {"count", "blocked"} \/ ~taken'[t]
                        \/ pc[t] \in {"count", "blocked"} /\ (permit[t] => permit'[t])
  PROVE  Told(t)'
<1>. SUFFICES ASSUME taken'[t], pc'[t] \in {"count", "blocked"}
              PROVE  permit'[t] \/ \E u \in Threads : Tells(u, t)'
  BY DEF Told
<1>1. taken[t] /\ pc[t] \in {"count", "blocked"} /\ (permit[t] => permit'[t])
  BY DEF Aside, Same
<1>2. ASSUME NEW u \in Threads, Tells(u, t) PROVE Tells(u, t)'
  BY <1>2 DEF Tells, Aside, Same
<1>. QED BY <1>1, <1>2 DEF Told

LEMMA ComesByStays ==
  ASSUME NEW t \in Threads, NEW u \in Threads, ComesBy(u, t), pc'[u] = pc[u], looked'[u] = looked[u],
         \A n \in Threads : Leads(n, t) => Leads(n, t)'
  PROVE  ComesBy(u, t)'
<1>1. \A n : Leads(n, t) => n \in Threads
  BY DEF Leads
<1>2. \A n : Toward(n, t) => Toward(n, t)'
  BY <1>1 DEF Toward
<1>. QED BY <1>2 DEF ComesBy

LEMMA PlainTells ==
  ASSUME TellsInv, NEW m \in Threads, Plain(m)
  PROVE  TellsInv'
<1>1. ASSUME NEW t \in Threads PROVE Told(t)'
  BY ToldStays DEF TellsInv, Plain
<1>2. ASSUME NEW t \in Threads PROVE Fetched(t)'
  <2>. SUFFICES ASSUME Deserted(t)' PROVE \E u \in Threads : ComesBy(u, t)'
    BY DEF Fetched
  <2>1. Deserted(t)
    BY DEF Deserted, Plain, Aside, Same
  <2>2. PICK u \in Threads : ComesBy(u, t)
    BY <2>1 DEF TellsInv, Fetched
  <2>3. pc'[u] = pc[u] /\ looked'[u] = looked[u]
    BY <2>2 DEF ComesBy, Plain, Aside, Same, Walking
  <2>4. \A k \in Threads : Offers(k)' => Offers(k)
    BY DEF Plain, Aside, Offers
  <2>5. \A n \in Threads : Leads(n, t) => Leads(n, t)'
    BY <2>4, LeadsStays DEF Plain
  <2>. QED BY <2>2, <2>3, <2>5, ComesByStays
<1>. QED BY <1>1, <1>2 DEF TellsInv

-----------------------------------------------------------------------------
LEMMA LocalPlain ==
  ASSUME Handles, EndsTyped, NEW t \in Threads,
         \/ RecvCall(t) \/ Check(t) \/ LoadTaken(t) \/ RemoveLoad(t) \/ RemoveNext(t) \/ RemoveHead(t)
         \/ RemoveWalk(t) \/ RemoveBelow(t) \/ Recover(t) \/ PopLoad(t) \/ PopNext(t) \/ PopCas(t)
         \/ CountSenders(t) \/ Complete(t)
         \/ Call(t, "send", "send", "check") /\ SendCall(t)
  PROVE  Plain(t)
<1>0. DOMAIN pc = Threads /\ DOMAIN looked = Threads
  BY DEF Handles, StackTypes
<1>1. UNCHANGED localVars /\ Advances(t)
  BY LocalAdvances DEF Local
<1>2. UNCHANGED <<permit, held>> /\ \A u \in Threads \ {t} : pc'[u] = pc[u]
  BY <1>0, <1>1 DEF localVars, quietVars, Advances, Step, Answer, Finish
<1>3. Receivers' = Receivers
  BY <1>2, SameReceivers
<1>4. ASSUME UNCHANGED <<next, taken>>, \A u \in Threads \ {t} : looked'[u] = looked[u], ~astray' => ~astray,
             pc[t] \notin Walking \cup {"pop_unpark"}, pc'[t] # "blocked",
             pc'[t] = "count" => ~taken[t], pc'[t] \in FrameSteps => pc[t] \in FrameSteps
      PROVE  Plain(t)
  BY <1>2, <1>3, <1>4 DEF Plain, Aside
<1>5. ASSUME NEW n, NEW b, Look(t, n, b) PROVE \A u \in Threads \ {t} : looked'[u] = looked[u]
  BY <1>0, <1>5 DEF Look
<1>6. CASE RecvCall(t) \/ Check(t) \/ CountSenders(t) \/ Complete(t)
  <2>1. /\ UNCHANGED rendezvousVars /\ pc[t] \in {"idle", "check", "count_senders", "complete"}
        /\ pc'[t] \in {"pop", "idle", "push", "return", "enlist", "park", "check"}
    BY <1>0, <1>6 DEF RecvCall, Call, Check, CheckReceivers, CountSenders, Nothing, Complete, CompleteBy,
                      At, Step, Answer, Finish
  <2>. QED BY <1>4, <2>1 DEF rendezvousVars, stackVars, Walking, FrameSteps
<1>7. CASE Call(t, "send", "send", "check") /\ SendCall(t)
  <2>1. UNCHANGED <<stackVars, astray>> /\ pc[t] = "idle" /\ pc'[t] = "check"
    BY <1>0, <1>7 DEF SendCall, Call, At
  <2>. QED BY <1>4, <2>1 DEF stackVars, Walking, FrameSteps
<1>8. CASE LoadTaken(t)
  <2>1. /\ UNCHANGED rendezvousVars /\ pc[t] = "offered"
        /\ pc'[t] = "idle" \/ (pc'[t] = "count" /\ ~taken[t])
    BY <1>0, <1>8 DEF LoadTaken, At, Step, Finish
  <2>. QED BY <1>4, <2>1 DEF rendezvousVars, stackVars, Walking, FrameSteps
<1>9. CASE RemoveLoad(t)
  <2>1. /\ UNCHANGED <<next, taken, astray>> /\ pc[t] = "remove" /\ Look(t, top, Null)
        /\ \E to \in {"recover", "remove_next", "remove_walk"} : Step(t, to)
    BY <1>9 DEF RemoveLoad, At
  <2>2. pc'[t] \in {"recover", "remove_next", "remove_walk"}
    BY <1>0, <2>1 DEF Step
  <2>. QED BY <1>4, <1>5, <2>1, <2>2 DEF Walking, FrameSteps
<1>10. CASE RemoveWalk(t)
  <2>1. PICK n \in Links(looked[t].node) : /\ Look(t, IF n = t THEN looked[t].node ELSE n, Null)
                               /\ \E to \in {"recover", "remove_below", "remove_walk"} : Step(t, to)
    BY <1>10 DEF RemoveWalk
  <2>2. UNCHANGED <<next, taken>> /\ pc[t] = "remove_walk" /\ (~astray' => ~astray)
    BY <1>10 DEF RemoveWalk, At, Stray
  <2>3. pc'[t] \in {"recover", "remove_below", "remove_walk"}
    BY <1>0, <2>1 DEF Step
  <2>. QED BY <1>4, <1>5, <2>1, <2>2, <2>3 DEF Walking, FrameSteps
<1>11. CASE RemoveNext(t) \/ RemoveBelow(t) \/ Recover(t)
  <2>1. /\ UNCHANGED <<next, taken, astray>> /\ pc[t] \in {"remove_next", "remove_below", "recover"}
        /\ \E n, b \in {Null, t, next[t], looked[t].node} : Look(t, n, b)
        /\ pc'[t] \in {"remove_head", "remove_link", "idle"}
    BY <1>0, <1>11 DEF RemoveNext, RemoveBelow, Recover, At, Step, Finish
  <2>. QED BY <1>4, <1>5, <2>1 DEF Walking, FrameSteps
<1>12. CASE RemoveHead(t) \/ PopCas(t)
  <2>1. /\ UNCHANGED <<next, taken, looked>> /\ (~astray' => ~astray)
        /\ \/ pc[t] = "remove_head" /\ pc'[t] \in {"recover", "remove"}
           \/ pc[t] = "pop_cas" /\ pc'[t] \in {"pop_take", "pop"}
    BY <1>0, <1>12 DEF RemoveHead, PopCas, At, Step, Stray
  <2>. QED BY <1>4, <2>1 DEF Walking, FrameSteps
<1>13. CASE PopLoad(t) \/ PopNext(t)
  <2>1. /\ UNCHANGED <<next, taken, astray>> /\ pc[t] \in {"pop", "pop_next"}
        /\ pc'[t] \in {"count_senders", "pop_next", "pop_cas"} /\ \E n, b : Look(t, n, b)
    BY <1>0, <1>13 DEF PopLoad, PopNext, At, Step
  <2>. QED BY <1>4, <1>5, <2>1 DEF Walking, FrameSteps
<1>. QED BY <1>6, <1>7, <1>8, <1>9, <1>10, <1>11, <1>12, <1>13

LEMMA WaitPlain ==
  ASSUME Handles, EndsTyped, NEW t \in Threads,
         \/ EnlistAndInvite(t)
         \/ UNCHANGED rendezvousVars /\ (\/ ParkReturns(t, "park", "again")
                                         \/ ParkReturns(t, "blocked", "offered")
                                         \/ Again(t, "pop") \/ Return(t))
  PROVE  Plain(t)
<1>0. DOMAIN pc = Threads /\ Mild(t)
  BY AnnouncingMild DEF Handles, StackTypes
<1>1. /\ UNCHANGED rendezvousVars /\ held' = held
      /\ \/ pc[t] \in {"park", "again", "return", "enlist"} /\ pc'[t] \in {"again", "pop", "idle"}
         \/ pc[t] = "blocked" /\ pc'[t] = "offered"
  BY <1>0 DEF EnlistAndInvite, ParkReturns, Again, Return, At, Step, Finish
<1>2. Receivers' = Receivers
  BY <1>1, SameReceivers
<1>3. Aside(t)
  BY <1>0, <1>1 DEF Aside, Mild, Steady, rendezvousVars, stackVars
<1>. QED BY <1>1, <1>2, <1>3 DEF Plain, rendezvousVars, stackVars, Walking, FrameSteps

LEMMA SelectPlain ==
  ASSUME Handles, EndsTyped, NEW t \in Threads,
         \/ Probe(t) \/ ProbeOtherSide(t)
         \/ UNCHANGED rendezvousVars /\ (PushArm(t, "enrol") \/ SelectStep(t))
         \/ UNCHANGED <<stackVars, astray>> /\ (\/ SelectCall(t, "select_recv", "recv")
                                                \/ SelectCall(t, "select_send", "send"))
  PROVE  Plain(t)
<1>0. Mild(t) /\ DOMAIN pc = Threads
  BY SelectMild DEF EndsTyped, EndTypes
<1>1. /\ UNCHANGED <<stackVars, astray, held>> /\ pc'[t] \in Outer \cup {"idle"}
      /\ pc[t] \in SelectSteps \cup {"idle"}
  <2>1. CASE Probe(t) \/ ProbeOtherSide(t)
    BY <1>0, <2>1, ProbeOuter DEF rendezvousVars, SelectSteps
  <2>2. CASE UNCHANGED rendezvousVars /\ SelectStep(t)
    BY <1>0, <2>2, SelectOuter DEF rendezvousVars, SelectSteps
  <2>3. CASE UNCHANGED rendezvousVars /\ PushArm(t, "enrol")
    BY <1>0, <2>3 DEF PushArm, At, Step, rendezvousVars, Outer, SelectSteps
  <2>4. CASE /\ UNCHANGED <<stackVars, astray>>
             /\ SelectCall(t, "select_recv", "recv") \/ SelectCall(t, "select_send", "send")
    BY <1>0, <2>4 DEF SelectCall, At, probeVars, Outer, SelectSteps
  <2>. QED BY <2>1, <2>2, <2>3, <2>4
<1>2. Receivers' = Receivers
  BY <1>1, SameReceivers
<1>3. Aside(t)
  BY <1>0, <1>1 DEF Aside, Mild, Steady, stackVars
<1>4. /\ pc'[t] \notin FrameSteps \cup {"blocked", "count"}
      /\ pc[t] \notin Walking \cup {"pop_unpark"}
  BY <1>1 DEF Outer, SelectSteps, FrameSteps, Walking
<1>. QED BY <1>1, <1>2, <1>3, <1>4 DEF Plain, stackVars

LEMMA OutsidePlain ==
  ASSUME Handles, EndsTyped, NEW t \in Threads,
         \/ DropOne(t)
         \/ UNCHANGED rendezvousVars /\ (DeadlinePasses(t) \/ Spurious(t) \/ DropSender(t))
  PROVE  Plain(t)
<1>0. Mild(t) /\ Steady(t) /\ DOMAIN held = Threads
  BY OutsideMild DEF EndsTyped, EndTypes
<1>1. UNCHANGED rendezvousVars /\ pc' = pc
  BY DEF DropOne, DropReceiver, DropHandle, DeadlinePasses, Spurious, DropSender
<1>2. Receivers' = {} => Receivers = {}
  <2>1. CASE DropOne(t)
    BY <1>0, <2>1 DEF DropOne, DropReceiver, DropHandle, MayDrop, Receivers
  <2>2. CASE DropSender(t)
    BY <1>0, <2>2 DEF DropSender, DropHandle, Receivers
  <2>3. CASE DeadlinePasses(t) \/ Spurious(t)
    BY <2>3, SameReceivers DEF DeadlinePasses, Spurious
  <2>. QED BY <2>1, <2>2, <2>3
<1>3. Aside(t) /\ Same(t)
  BY <1>0, <1>1 DEF Aside, Same, Mild, Steady, rendezvousVars, stackVars
<1>. QED BY <1>1, <1>2, <1>3 DEF Plain, Same, rendezvousVars, stackVars

LEMMA ClonePlain ==
  ASSUME EndsTyped, Unborn, NEW t \in Threads, NEW x \in Threads, CloneHandle(t, x),
         UNCHANGED rendezvousVars
  PROVE  Plain(x)
<1>0. Mild(x) /\ pc[x] = "unborn" /\ pc'[x] = "idle" /\ DOMAIN held = Threads
  BY CloneHandleStep DEF EndsTyped, EndTypes
<1>1. held' = [held EXCEPT ![x] = {program.offspring[x]}] /\ held[x] = {}
  BY <1>0 DEF CloneHandle, Unborn
<1>2. Receivers' = {} => Receivers = {}
  BY <1>0, <1>1 DEF Receivers
<1>3. Aside(x)
  BY <1>0 DEF Aside, Mild, Steady, rendezvousVars, stackVars
<1>. QED BY <1>0, <1>2, <1>3 DEF Plain, rendezvousVars, stackVars, Walking, FrameSteps

LEMMA WakePlain ==
  ASSUME EndsTyped, NEW t \in Threads, WakeStep(t), UNCHANGED <<endVars, rendezvousVars>>
  PROVE  Plain(t)
<1>0. permit \in [Threads -> BOOLEAN]
  BY DEF EndsTyped, EndTypes, WaiterTypes
<1>1. \A u \in Threads : permit[u] => permit'[u]
  <2>1. CASE SnapshotOne(t) \/ SnapshotAll(t) \/ SwapStack(t) \/ VisitNode(t)
    BY <2>1 DEF SnapshotOne, SnapshotAll, SwapStack, VisitNode
  <2>2. CASE UnparkNext(t)
    BY <1>0, <2>2 DEF UnparkNext
  <2>3. CASE ElectNode(t)
    <3>1. \E v : permit' \in {permit, [permit EXCEPT ![v] = TRUE]}
      BY <2>3 DEF ElectNode
    <3>. QED BY <1>0, <3>1
  <2>. QED BY <2>1, <2>2, <2>3 DEF WakeStep
<1>2. Receivers' = Receivers
  BY SameReceivers DEF endVars
<1>3. Aside(t) /\ Same(t)
  BY <1>1 DEF Aside, Same, endVars, rendezvousVars, stackVars
<1>. QED BY <1>2, <1>3 DEF Plain, endVars, rendezvousVars, stackVars

-----------------------------------------------------------------------------
(* The steps that do concern a sender that blocks.                          *)
LEMMA OnTheChain ==
  ASSUME StackInv, NEW t \in Threads, Deserted(t)
  PROVE  \E s : Chain(s) /\ Standing(s) /\ t \in ToSet(s)
<1>1. PICK s : Chain(s) /\ Standing(s) /\ Listed(s)
  BY DEF StackInv, Deserted
<1>2. \A u \in Threads : "recv" \notin held[u]
  BY DEF Deserted, Receivers
<1>3. \A u \in Threads : pc[u] \notin Popping
  BY <1>2 DEF StackInv, Handles, HandlesOf
<1>4. \A u \in Threads : ~OnItsWay(u, t)
  BY <1>3 DEF OnItsWay, Popping
<1>5. pc[t] \in Waiting /\ ~taken[t]
  BY DEF Deserted, Waiting
<1>. QED BY <1>1, <1>4, <1>5 DEF Listed

(* One that has no permit yet and whom somebody comes by is not where the   *)
(* stack changes.                                                           *)
LEMMA LinksTells ==
  ASSUME TellsInv, NEW m \in Threads, Aside(m), pc[m] \notin Walking \cup {"pop_unpark"},
         pc'[m] \notin {"count", "blocked"}, UNCHANGED held,
         \A t \in Threads \ {m} : taken'[t] = taken[t],
         \A t \in Threads \ {m} : Deserted(t) /\ Deserted(t)' =>
           \A n \in Threads : Leads(n, t) => Leads(n, t)'
  PROVE  TellsInv'
<1>1. ASSUME NEW t \in Threads PROVE Told(t)'
  <2>1. CASE t = m
    BY <2>1 DEF Told
  <2>2. CASE t # m
    BY <2>2, ToldStays DEF TellsInv
  <2>. QED BY <2>1, <2>2
<1>2. ASSUME NEW t \in Threads PROVE Fetched(t)'
  <2>. SUFFICES ASSUME Deserted(t)' PROVE \E u \in Threads : ComesBy(u, t)'
    BY DEF Fetched
  <2>1. Deserted(t) /\ t # m
    BY SameReceivers DEF Deserted, Aside
  <2>2. PICK u \in Threads : ComesBy(u, t)
    BY <2>1 DEF TellsInv, Fetched
  <2>3. pc'[u] = pc[u] /\ looked'[u] = looked[u]
    BY <2>2 DEF ComesBy, Aside, Walking
  <2>. QED BY <2>1, <2>2, <2>3, ComesByStays
<1>. QED BY <1>1, <1>2 DEF TellsInv

LEMMA PushTells ==
  ASSUME StackInv, EndsTyped, TellsInv, NEW m \in Threads, Push(m)
  PROVE  TellsInv'
<1>0. StackTypes /\ DOMAIN pc = Threads /\ taken \in [Threads -> BOOLEAN]
  BY DEF StackInv, Handles, StackTypes
<1>1. /\ pc[m] = "push" /\ pc'[m] = "offered" /\ UNCHANGED <<held, looked, permit, astray>>
      /\ \A u \in Threads \ {m} : pc'[u] = pc[u] /\ taken'[u] = taken[u]
      /\ next' = [next EXCEPT ![m] = top]
  BY <1>0 DEF Push, At, Step, quietVars
<1>2. ASSUME NEW t \in Threads, Deserted(t), NEW n \in Threads, Leads(n, t) PROVE Leads(n, t)'
  <2>1. PICK s : Chain(s) /\ t \in ToSet(s)
    BY <1>2, OnTheChain
  <2>2. \A k \in Threads \ {m} : Offers(k)' => Offers(k)
    BY <1>1 DEF Offers
  <2>. QED BY <1>0, <1>1, <1>2, <2>1, <2>2, LeadsPush
<1>3. Aside(m)
  BY <1>1 DEF Aside
<1>. QED BY <1>1, <1>2, <1>3, LinksTells DEF Walking

LEMMA RemoveLinkTells ==
  ASSUME StackInv, EndsTyped, TellsInv, NEW m \in Threads, RemoveLink(m)
  PROVE  TellsInv'
<1>0. StackTypes /\ DOMAIN pc = Threads /\ looked[m].node \in Threads
  BY DEF StackInv, Handles, StackTypes, HandlesOf, Looking, RemoveLink, At
<1>1. /\ pc[m] = "remove_link" /\ pc'[m] \in {"remove", "recover"}
      /\ UNCHANGED <<held, looked, permit, taken>> /\ (~astray' => ~astray)
      /\ \A u \in Threads \ {m} : pc'[u] = pc[u]
  BY <1>0 DEF RemoveLink, At, Step, Stray, localVars, quietVars
<1>2. \A k \in Threads : Offers(k)' => Offers(k)
  BY <1>1 DEF Offers, FrameSteps
<1>3. Offers(m)
  BY <1>1 DEF Offers, FrameSteps
<1>4. ASSUME NEW t \in Threads \ {m}, ~astray', NEW n \in Threads, Leads(n, t) PROVE Leads(n, t)'
  <2>1. CASE next' = next
    BY <1>2, <1>4, <2>1, LeadsStays
  <2>2. CASE next' # next
    <3>1. next[looked[m].node] = m /\ next' = [next EXCEPT ![looked[m].node] = next[m]]
      BY <1>4, <2>2 DEF RemoveLink, Stray
    <3>. QED BY <1>0, <1>2, <1>3, <1>4, <3>1, LeadsLink
  <2>. QED BY <2>1, <2>2
<1>5. Aside(m)
  BY <1>1 DEF Aside
<1>. QED BY <1>1, <1>4, <1>5, LinksTells DEF Walking, Deserted

LEMMA CountTells ==
  ASSUME Handles, TellsInv, NEW m \in Threads, CountReceivers(m)
  PROVE  TellsInv'
<1>1. /\ pc[m] = "count" /\ UNCHANGED <<held, permit, rendezvousVars>>
      /\ \A u \in Threads \ {m} : pc'[u] = pc[u]
      /\ pc'[m] = (IF Receivers = {} THEN "remove" ELSE "blocked")
  BY DEF CountReceivers, At, Step, localVars, quietVars, Handles, StackTypes
<1>2. UNCHANGED <<next, taken, looked, astray>> /\ Receivers' = Receivers /\ Aside(m)
  BY <1>1, SameReceivers DEF rendezvousVars, stackVars, Aside
<1>3. \A t \in Threads : Told(t)'
  BY <1>1, <1>2, ToldStays DEF TellsInv
<1>4. ASSUME NEW t \in Threads PROVE Fetched(t)'
  <2>. SUFFICES ASSUME Deserted(t)' PROVE \E u \in Threads : ComesBy(u, t)'
    BY DEF Fetched
  <2>1. Deserted(t)
    BY <1>1, <1>2 DEF Deserted
  <2>2. PICK u \in Threads : ComesBy(u, t)
    BY <2>1 DEF TellsInv, Fetched
  <2>3. pc'[u] = pc[u] /\ looked'[u] = looked[u]
    BY <1>1, <1>2, <2>2 DEF ComesBy
  <2>4. \A k \in Threads : Offers(k)' => Offers(k)
    BY <1>1 DEF Offers, FrameSteps
  <2>5. \A n \in Threads : Leads(n, t) => Leads(n, t)'
    BY <1>2, <2>4, LeadsStays
  <2>. QED BY <2>2, <2>3, <2>5, ComesByStays
<1>. QED BY <1>3, <1>4 DEF TellsInv

(* The receiver that takes an item is about to unpark its sender.           *)
LEMMA TakeTells ==
  ASSUME Handles, TellsInv, NEW m \in Threads, PopTake(m)
  PROVE  TellsInv'
<1>0. DOMAIN pc = Threads /\ taken \in [Threads -> BOOLEAN] /\ "recv" \in held[m]
  BY DEF Handles, StackTypes, HandlesOf, Popping, PopTake, At
<1>1. /\ pc[m] = "pop_take" /\ pc'[m] = "pop_unpark" /\ UNCHANGED <<held, permit, looked, astray>>
      /\ \A u \in Threads \ {m} : pc'[u] = pc[u]
      /\ taken' = [taken EXCEPT ![looked[m].node] = TRUE]
  BY <1>0 DEF PopTake, At, Step, localVars, quietVars
<1>2. Aside(m) /\ Receivers' = Receivers /\ m \in Receivers
  BY <1>0, <1>1, SameReceivers DEF Aside, Receivers
<1>3. ASSUME NEW t \in Threads PROVE Told(t)'
  <2>1. CASE t = looked[m].node
    <3>1. Tells(m, t)'
      BY <1>1, <2>1 DEF Tells
    <3>. QED BY <3>1 DEF Told
  <2>2. CASE t # looked[m].node
    BY <1>0, <1>1, <1>2, <2>2, ToldStays DEF TellsInv
  <2>. QED BY <2>1, <2>2
<1>4. \A t \in Threads : Fetched(t)'
  BY <1>2 DEF Fetched, Deserted
<1>. QED BY <1>3, <1>4 DEF TellsInv

LEMMA PopUnparkTells ==
  ASSUME Handles, EndsTyped, TellsInv, NEW m \in Threads, PopUnpark(m)
  PROVE  TellsInv'
<1>0. /\ DOMAIN pc = Threads /\ DOMAIN looked = Threads /\ permit \in [Threads -> BOOLEAN]
      /\ "recv" \in held[m] /\ Mild(m)
  BY AnnouncingMild DEF Handles, StackTypes, HandlesOf, Popping, PopUnpark, At, EndsTyped, EndTypes,
                        WaiterTypes
<1>1. /\ pc[m] = "pop_unpark" /\ pc'[m] = "return" /\ UNCHANGED <<held, taken, astray>>
      /\ UnparkSender(looked[m].node) /\ looked' = [looked EXCEPT ![m] = NoLook]
  BY <1>0 DEF PopUnpark, At, Answer, Look, NoLook
<1>2. Aside(m) /\ Receivers' = Receivers /\ m \in Receivers
  BY <1>0, <1>1, SameReceivers DEF Aside, Receivers, Mild, Steady
<1>3. ASSUME NEW t \in Threads PROVE Told(t)'
  <2>. SUFFICES ASSUME taken'[t], pc'[t] \in {"count", "blocked"}
                PROVE  permit'[t] \/ \E u \in Threads : Tells(u, t)'
    BY DEF Told
  <2>1. t # m /\ taken[t] /\ pc[t] \in {"count", "blocked"} /\ Offers(t) /\ (permit[t] => permit'[t])
    BY <1>1, <1>2 DEF Aside, Offers, FrameSteps
  <2>2. CASE looked[m].node = t
    BY <1>0, <1>1, <2>1, <2>2 DEF UnparkSender
  <2>3. CASE looked[m].node # t
    <3>1. permit[t] \/ \E u \in Threads : Tells(u, t) /\ u # m
      BY <2>1, <2>3 DEF TellsInv, Told, Tells
    <3>2. \A u \in Threads \ {m} : Tells(u, t) => Tells(u, t)'
      BY <1>2 DEF Tells, Aside
    <3>. QED BY <2>1, <3>1, <3>2
  <2>. QED BY <2>2, <2>3
<1>4. \A t \in Threads : Fetched(t)'
  BY <1>2 DEF Fetched, Deserted
<1>. QED BY <1>3, <1>4 DEF TellsInv

(* From the top of the stack one comes to every node that is linked.        *)
LEMMA LeadsFromTop ==
  ASSUME NEW s, Chain(s), NEW t \in ToSet(s)
  PROVE  top \in Threads /\ Toward(top, t)
<1>1. s \in Seq(Threads) /\ Len(s) \in Nat /\ DOMAIN s = 1 .. Len(s)
  BY DEF Chain
<1>2. PICK k \in 1 .. Len(s) : s[k] = t
  BY <1>1 DEF ToSet
<1>3. s # <<>> /\ 1 \in 1 .. k /\ 1 \in 1 .. Len(s)
  BY <1>1, <1>2
<1>4. top = s[1] /\ s[1] \in Threads
  <2>1. s[1] \in Threads
    BY <1>1, <1>3
  <2>. QED BY <1>3, <2>1 DEF Chain
<1>. DEFINE upper == {s[i] : i \in 1 .. k}
<1>5. upper \in SUBSET Threads /\ top \in upper
  BY <1>1, <1>2, <1>3, <1>4
<1>6. ASSUME NEW i \in 1 .. k, s[i] # t PROVE next[s[i]] \in upper
  <2>1. i # k
    BY <1>2, <1>6
  <2>2. i \in 1 .. Len(s) /\ i # Len(s) /\ i + 1 \in 1 .. k
    <3>1. i \in Int /\ k \in Int /\ 1 <= i /\ i <= k /\ k <= Len(s) /\ Len(s) \in Int
      BY <1>1
    <3>. QED BY <3>1, <2>1
  <2>3. next[s[i]] = s[i + 1]
    BY <2>2 DEF Chain
  <2>. QED BY <2>2, <2>3
<1>7. \A m \in upper \ {t} : Offers(m) => next[m] \in upper
  BY <1>6
<1>. HIDE DEF upper
<1>8. top # t => Leads(top, t)
  BY <1>5, <1>7 DEF Leads
<1>. QED BY <1>4, <1>8 DEF Toward

(* And from a node on the way, whose frame is there, by its link.           *)
LEMMA LeadsDown ==
  ASSUME NEW n \in Threads, NEW t \in Threads, Leads(n, t), Offers(n)
  PROVE  next[n] \in Threads /\ Toward(next[n], t)
<1>1. PICK nodes \in SUBSET Threads : n \in nodes /\ \A m \in nodes \ {t} : Offers(m) => next[m] \in nodes
  BY DEF Leads
<1>2. next[n] \in nodes
  BY <1>1 DEF Leads
<1>. QED BY <1>1, <1>2 DEF Leads, Toward

(* The last receiver's walk, from top to bottom.                            *)
LEMMA WalkTells ==
  ASSUME TellsInv, NEW m \in Threads, Aside(m), UNCHANGED <<next, taken>>,
         pc[m] # "pop_unpark", pc'[m] \notin FrameSteps, Receivers' = {} => Receivers = {},
         \A t \in Threads \ {m} : Deserted(t) /\ Deserted(t)' /\ (pc[m] \in Walking => ComesBy(m, t)) =>
           \E u \in Threads : ComesBy(u, t)' \/ (u # m /\ ComesBy(u, t))
  PROVE  TellsInv'
<1>0. pc'[m] \notin {"count", "blocked"}
  BY DEF FrameSteps
<1>1. \A t \in Threads : Told(t)'
  BY <1>0, ToldStays DEF TellsInv
<1>2. ASSUME NEW t \in Threads PROVE Fetched(t)'
  <2>. SUFFICES ASSUME Deserted(t)' PROVE \E u \in Threads : ComesBy(u, t)'
    BY DEF Fetched
  <2>1. Deserted(t) /\ t # m
    BY <1>0 DEF Deserted, Aside
  <2>2. PICK u \in Threads : ComesBy(u, t)
    BY <2>1 DEF TellsInv, Fetched
  <2>3. PICK v \in Threads : ComesBy(v, t)' \/ (v # m /\ ComesBy(v, t))
    <3>1. CASE u = m
      BY <2>1, <2>2, <3>1
    <3>2. CASE u # m
      BY <2>2, <3>2
    <3>. QED BY <3>1, <3>2
  <2>4. \A k \in Threads : Offers(k)' => Offers(k)
    BY DEF Aside, Offers
  <2>5. \A n \in Threads : Leads(n, t) => Leads(n, t)'
    BY <2>4, LeadsStays
  <2>. QED BY <2>3, <2>5, ComesByStays DEF Aside
<1>. QED BY <1>1, <1>2 DEF TellsInv

LEMMA DropTells ==
  ASSUME StackInv, EndsTyped, TellsInv, NEW m \in Threads,
         DropLoad(m) \/ DropNext(m) \/ DropUnpark(m)
  PROVE  TellsInv'
<1>0. StackTypes /\ HandlesOf(m) /\ DOMAIN pc = Threads /\ permit \in [Threads -> BOOLEAN]
  BY DEF StackInv, Handles, StackTypes, EndsTyped, EndTypes, WaiterTypes
<1>1. Mild(m)
  <2>1. CASE DropLoad(m) \/ DropUnpark(m)
    BY <2>1, AnnouncingMild DEF StackInv
  <2>2. CASE DropNext(m)
    BY <2>2, LocalMild DEF Local
  <2>. QED BY <2>1, <2>2
<1>2. ASSUME NEW n \in Nodes, NEW b \in Nodes, Look(m, n, b)
      PROVE  /\ looked'[m].node = n /\ looked'[m].below = b
             /\ \A u \in Threads \ {m} : looked'[u] = looked[u]
  BY <1>0, <1>2, LookTypes
<1>3. Null \in Nodes /\ Threads \subseteq Nodes /\ Null \notin Threads
  BY RendezvousAssumption DEF Nodes
<1>4. ASSUME NEW t \in Threads, UNCHANGED next, Aside(m), pc'[m] \notin FrameSteps
      PROVE  \A n : Toward(n, t) => n \in Threads /\ Toward(n, t)'
  <2>1. \A k \in Threads : Offers(k)' => Offers(k)
    BY <1>4 DEF Offers, Aside
  <2>2. \A n : Leads(n, t) => n \in Threads
    BY DEF Leads
  <2>. QED BY <1>4, <2>1, <2>2, LeadsStays DEF Toward
<1>5. ASSUME Receivers' = Receivers, Aside(m), UNCHANGED <<next, taken>>, pc[m] \in Walking,
             pc'[m] \in {"idle", "drop_next", "drop_unpark"},
             \A t \in Threads \ {m} : Deserted(t) /\ Deserted(t)' /\ ComesBy(m, t) => ComesBy(m, t)'
      PROVE  TellsInv'
  BY <1>5, WalkTells DEF Walking, FrameSteps
<1>6. CASE DropLoad(m)
  <2>1. /\ pc[m] = "drop" /\ UNCHANGED <<next, taken, held, astray>> /\ Look(m, top, Null)
        /\ \/ top = Null /\ pc'[m] = "idle"
           \/ top # Null /\ pc'[m] = "drop_next"
    BY <1>0, <1>6 DEF DropLoad, At, Step, WalkEnds, Finish, quietVars
  <2>2. top \in Nodes /\ Receivers' = Receivers
    BY <1>0, <2>1, SameReceivers DEF StackTypes
  <2>3. looked'[m].node = top /\ Aside(m) /\ pc'[m] \notin FrameSteps
    BY <1>1, <1>2, <1>3, <2>1, <2>2 DEF Aside, Mild, Steady, FrameSteps
  <2>4. ASSUME NEW t \in Threads, Deserted(t) PROVE ComesBy(m, t)'
    <3>1. top \in Threads /\ Toward(top, t)
      BY <2>4, OnTheChain, LeadsFromTop
    <3>2. \A n : Toward(n, t) => Toward(n, t)'
      BY <1>4, <2>1, <2>3
    <3>3. pc'[m] = "drop_next"
      BY <1>3, <2>1, <3>1
    <3>. QED BY <2>3, <3>1, <3>2, <3>3 DEF ComesBy
  <2>. QED BY <1>5, <2>1, <2>2, <2>3, <2>4 DEF Walking
<1>7. CASE DropNext(m)
  <2>1. /\ pc[m] = "drop_next" /\ pc'[m] = "drop_unpark" /\ UNCHANGED <<next, taken, held>>
        /\ Stray(~Offers(looked[m].node))
    BY <1>0, <1>7 DEF DropNext, At, Step, localVars, quietVars
  <2>2. PICK n \in Links(looked[m].node) : Look(m, looked[m].node, n)
    BY <1>7 DEF DropNext
  <2>3. looked[m].node \in Threads
    BY <1>0, <2>1 DEF HandlesOf, Looking
  <2>4. looked'[m].node = looked[m].node /\ looked'[m].below = n /\ Receivers' = Receivers
    BY <1>0, <1>2, <1>3, <2>1, <2>2, <2>3, LinksTypes, SameReceivers
  <2>5. Aside(m) /\ pc'[m] \notin FrameSteps
    <3>1. \A u \in Threads \ {m} : looked'[u] = looked[u]
      BY <1>0, <1>2, <1>3, <2>2, <2>3, LinksTypes
    <3>. QED BY <1>1, <2>1, <3>1 DEF Aside, Mild, Steady, FrameSteps, Stray
  <2>6. ASSUME NEW t \in Threads, Deserted(t)', ComesBy(m, t) PROVE ComesBy(m, t)'
    <3>1. Offers(looked[m].node) /\ n = next[looked[m].node]
      BY <2>1, <2>2, <2>6 DEF Deserted, Stray, Links
    <3>2. looked[m].node = t \/ Leads(looked[m].node, t)
      BY <2>1, <2>6 DEF ComesBy, Toward
    <3>3. looked[m].node = t \/ Toward(n, t)
      BY <2>3, <3>1, <3>2, LeadsDown
    <3>4. \A x : Toward(x, t) => Toward(x, t)'
      BY <1>4, <2>1, <2>5
    <3>. QED BY <2>1, <2>4, <3>3, <3>4 DEF ComesBy
  <2>. QED BY <1>5, <2>1, <2>4, <2>5, <2>6 DEF Walking
<1>8. CASE DropUnpark(m)
  <2>1. /\ pc[m] = "drop_unpark" /\ UNCHANGED <<next, taken, held, astray>>
        /\ UnparkSender(looked[m].node) /\ Look(m, looked[m].below, Null)
        /\ \/ looked[m].below = Null /\ pc'[m] = "idle"
           \/ looked[m].below # Null /\ pc'[m] = "drop_next"
    BY <1>0, <1>8 DEF DropUnpark, At, Step, WalkEnds, Finish
  <2>2. looked[m].below \in Nodes /\ Receivers' = Receivers
    BY <1>0, <2>1, SameReceivers DEF StackTypes, Looks
  <2>3. looked'[m].node = looked[m].below /\ Aside(m) /\ pc'[m] \notin FrameSteps
    BY <1>1, <1>2, <1>3, <2>1, <2>2 DEF Aside, Mild, Steady, FrameSteps
  <2>4. ASSUME NEW t \in Threads, Deserted(t), Deserted(t)', ComesBy(m, t) PROVE ComesBy(m, t)'
    <3>1. Offers(t) /\ ~permit'[t]
      BY <2>4 DEF Deserted, Offers, FrameSteps
    <3>2. looked[m].node # t
      BY <1>0, <2>1, <3>1 DEF UnparkSender
    <3>3. Toward(looked[m].below, t)
      BY <2>1, <2>4, <3>2 DEF ComesBy
    <3>4. \A n : Toward(n, t) => n \in Threads /\ Toward(n, t)'
      BY <1>4, <2>1, <2>3
    <3>5. pc'[m] = "drop_next"
      BY <1>3, <2>1, <3>3, <3>4
    <3>. QED BY <2>3, <3>3, <3>4, <3>5 DEF ComesBy
  <2>. QED BY <1>5, <2>1, <2>2, <2>3, <2>4 DEF Walking
<1>. QED BY <1>6, <1>7, <1>8

LEMMA DropLastTells ==
  ASSUME EndsTyped, TellsInv, NEW m \in Threads, DropLast(m)
  PROVE  TellsInv'
<1>1. Mild(m) /\ Steady(m) /\ DOMAIN pc = Threads
  BY OutsideMild DEF EndsTyped, EndTypes
<1>2. pc[m] = "idle" /\ pc'[m] = "drop" /\ UNCHANGED rendezvousVars
  BY <1>1 DEF DropLast, MayDrop, At, Step
<1>3. Aside(m) /\ UNCHANGED <<next, taken>>
  BY <1>1, <1>2 DEF Aside, Mild, Steady, rendezvousVars, stackVars
<1>4. \A t \in Threads : Told(t)'
  BY <1>2, <1>3, ToldStays DEF TellsInv
<1>5. \A t : ComesBy(m, t)'
  BY <1>2 DEF ComesBy
<1>. QED BY <1>4, <1>5 DEF TellsInv, Fetched

LEMMA TellsStep ==
  ASSUME StackInv, EndsTyped, Unborn, TellsInv, [Next]_vars
  PROVE  TellsInv'
<1>0. Handles
  BY DEF StackInv
<1>1. CASE UNCHANGED vars
  <2>1. UNCHANGED <<permit, held, pc, rendezvousVars>>
    BY <1>1 DEF vars, waiterVars, endVars
  <2>. QED BY <2>1 DEF TellsInv, Told, Tells, Fetched, Deserted, ComesBy, Toward, Leads, Offers, Receivers,
                       rendezvousVars, stackVars
<1>2. ASSUME NEW t \in Threads, RendezvousStep(t) PROVE TellsInv'
  <2>1. CASE \/ Check(t) \/ LoadTaken(t) \/ RemoveLoad(t) \/ RemoveNext(t) \/ RemoveHead(t)
             \/ RemoveWalk(t) \/ RemoveBelow(t) \/ Recover(t) \/ PopLoad(t) \/ PopNext(t) \/ PopCas(t)
             \/ CountSenders(t) \/ Complete(t)
    BY <1>0, <2>1, LocalPlain, PlainTells
  <2>2. CASE \/ EnlistAndInvite(t)
             \/ UNCHANGED rendezvousVars /\ (\/ ParkReturns(t, "park", "again")
                                             \/ ParkReturns(t, "blocked", "offered")
                                             \/ Again(t, "pop") \/ Return(t))
    BY <1>0, <2>2, WaitPlain, PlainTells
  <2>3. CASE \/ Probe(t) \/ ProbeOtherSide(t)
             \/ UNCHANGED rendezvousVars /\ (PushArm(t, "enrol") \/ SelectStep(t))
    BY <1>0, <2>3, SelectPlain, PlainTells
  <2>4. CASE WakeStep(t) /\ UNCHANGED endVars /\ UNCHANGED rendezvousVars
    BY <2>4, WakePlain, PlainTells
  <2>5. CASE Push(t) \/ RemoveLink(t) \/ CountReceivers(t) \/ PopTake(t) \/ PopUnpark(t)
    BY <1>0, <2>5, PushTells, RemoveLinkTells, CountTells, TakeTells, PopUnparkTells
  <2>6. CASE DropLoad(t) \/ DropNext(t) \/ DropUnpark(t)
    BY <2>6, DropTells
  <2>. QED BY <1>2, <2>1, <2>2, <2>3, <2>4, <2>5, <2>6 DEF RendezvousStep
<1>3. ASSUME NEW t \in Threads, RendezvousChance(t) PROVE TellsInv'
  <2>1. CASE RecvCall(t) \/ (SendCall(t) /\ Call(t, "send", "send", "check"))
    BY <1>0, <2>1, LocalPlain, PlainTells
  <2>2. CASE \/ SendCall(t) /\ SelectCall(t, "select_send", "send")
             \/ SelectCall(t, "select_recv", "recv") /\ UNCHANGED rendezvousVars
    <3>1. UNCHANGED <<stackVars, astray>>
      BY <2>2 DEF SendCall, rendezvousVars
    <3>. QED BY <1>0, <2>2, <3>1, SelectPlain, PlainTells
  <2>3. CASE \/ DropOne(t)
             \/ UNCHANGED rendezvousVars /\ (DeadlinePasses(t) \/ Spurious(t) \/ DropSender(t))
    BY <1>0, <2>3, OutsidePlain, PlainTells
  <2>4. CASE DropLast(t)
    BY <2>4, DropLastTells
  <2>5. CASE UNCHANGED rendezvousVars /\ \E u \in Threads : CloneHandle(t, u)
    BY <2>5, ClonePlain, PlainTells
  <2>6. CASE SendCall(t)
    BY <2>1, <2>2, <2>6 DEF SendCall
  <2>. QED BY <1>3, <2>1, <2>2, <2>3, <2>4, <2>5, <2>6 DEF RendezvousChance
<1>. QED BY <1>1, <1>2, <1>3 DEF Next, Over

LEMMA TellsInitial ==
  ASSUME Init
  PROVE  TellsInv
<1>1. \A t \in Threads : pc[t] \in {"idle", "unborn"}
  BY DEF Init, EndpointInit
<1>. QED BY <1>1 DEF TellsInv, Told, Fetched, Deserted

(* A sender that blocks is unparked when its item has been taken and when   *)
(* the last receiver goes, unless a walk over the stack goes astray.        *)
THEOREM RendezvousSendersHear ==
  Spec => [](~astray => \A t \in Threads : ~permit[t] => SenderHears(t))
<1>. DEFINE All == ~astray => \A t \in Threads : ~permit[t] => SenderHears(t)
<1>1. Init => EndsTyped /\ Counted /\ HearsInv /\ TellsInv
  BY TypedInitial, HearsInitial, TellsInitial
<1>2. /\ StackInv /\ EndsTyped /\ Counted /\ HearsInv /\ TellsInv /\ [Next]_vars
         => EndsTyped' /\ Counted' /\ HearsInv' /\ TellsInv'
  BY TypedInductive, HearsStep, TellsStep DEF StackInv, HearsInv
<1>3. TellsInv => All
  <2>. SUFFICES ASSUME TellsInv, ~astray, NEW t \in Threads, ~permit[t], pc[t] = "blocked", Settled(t)
                PROVE  \E u \in Threads : WillWake(u, t)
    BY DEF SenderHears
  <2>1. CASE taken[t]
    BY <2>1 DEF TellsInv, Told, Tells, WillWake
  <2>2. CASE ~taken[t]
    BY <2>2 DEF TellsInv, Fetched, Deserted, Settled, ComesBy, WillWake, Dropping
  <2>. QED BY <2>1, <2>2
<1>. HIDE DEF All
<1>4. Spec => []All
  BY <1>1, <1>2, <1>3, RendezvousInvariant, PTL DEF Spec
<1>. QED BY <1>4 DEF All

-----------------------------------------------------------------------------
(* The select calls.  Where their nodes are and what comes to their turns   *)
(* does not depend on the senders' stack, and so not on astray.             *)
Engaged == SelectSteps \ {"push"}
Selects == {"select_recv", "select_send"}

AskingOf(t) ==
  /\ op[t] \in Selects => op[t] \in program.uses[t]
  /\ pc[t] \in Engaged => op[t] \in Selects
  /\ pc[t] \notin Engaged => arm[t].turn = 0
Asking == \A t \in Threads : AskingOf(t)

(* The calls a step may make, and what it has to: whoever becomes ready for *)
(* an arm calls the side that waits for it, the last receiver at the end of *)
(* its walk.                                                                *)
Announced == {<<>>, <<WakeAll("recv"), SelectOne("recv")>>, <<SelectOne("send")>>, WakeEverybody,
              <<Drain("recv"), SelectAll("send")>>}
Tidings(m) ==
  /\ \E more \in Announced : calls' = calls \/ (Free(m) /\ calls' = [calls EXCEPT ![m] = more])
  /\ (top' # Null => top # Null) \/ SelectOne("recv") \in ToSet(calls'[m])
  /\ (waiting'["recv"] # <<>> => waiting["recv"] # <<>>) \/ SelectOne("send") \in ToSet(calls'[m])
  /\ (Senders' = {} => Senders = {}) \/ SelectAll("recv") \in ToSet(calls'[m])
  /\ (Receivers' = {} => Receivers = {}) \/ Dropping(m)'
  /\ Dropping(m) => Dropping(m)' \/ SelectAll("send") \in ToSet(calls'[m])

(* Drains are for a channel without receivers.                              *)
Draining(m) ==
  /\ Receivers = {} => Receivers' = {}
  /\ Dropping(m)' => Dropping(m) \/ Receivers' = {}
  /\ \A call \in ToSet(calls'[m]) :
       call.op = "drain" => call \in ToSet(calls[m]) \/ (Dropping(m) /\ call.on = "recv")

(* The two kinds of steps that are not part of a wake call.                 *)
Elsewhere(m) ==
  /\ pc[m] \notin Engaged /\ pc'[m] \notin Engaged
  /\ op'[m] \in Selects => op'[m] = op[m]
  /\ UNCHANGED <<program, arm, stack, aborted, selected>>
  /\ Tidings(m) /\ Draining(m)

Selecting(m) ==
  /\ UNCHANGED <<program, held, waiting, calls, top>>
  /\ \/ DeadlinePasses(m) \/ Spurious(m)
     \/ SelectCall(m, "select_recv", "recv") \/ SelectCall(m, "select_send", "send")
     \/ Probe(m) \/ ProbeOtherSide(m) \/ PushArm(m, "enrol") \/ SelectStep(m)

Waking(t) == WakeStep(t) /\ UNCHANGED <<endVars, rendezvousVars>>

LEMMA NewCalls ==
  /\ \A more \in Announced : /\ more \in Seq(WakeCalls(ArmNodes))
                             /\ \A call \in ToSet(more) : call.op \notin {"visit", "elect"}
  /\ ToSet(<<>>) = {}
  /\ ToSet(<<WakeAll("recv"), SelectOne("recv")>>) = {WakeAll("recv"), SelectOne("recv")}
  /\ ToSet(<<SelectOne("send")>>) = {SelectOne("send")}
  /\ ToSet(WakeEverybody) = {WakeAll("recv"), SelectAll("recv")}
  /\ ToSet(<<Drain("recv"), SelectAll("send")>>) = {Drain("recv"), SelectAll("send")}
<1>1. /\ ToSet(<<>>) = {}
      /\ ToSet(<<WakeAll("recv"), SelectOne("recv")>>) = {WakeAll("recv"), SelectOne("recv")}
      /\ ToSet(<<SelectOne("send")>>) = {SelectOne("send")}
      /\ ToSet(WakeEverybody) = {WakeAll("recv"), SelectAll("recv")}
      /\ ToSet(<<Drain("recv"), SelectAll("send")>>) = {Drain("recv"), SelectAll("send")}
  BY DEF ToSet, WakeEverybody
<1>2. \A more \in Announced : more \in Seq(WakeCalls(ArmNodes))
  BY SendWakes, WakeSequences, Zenon DEF Announced
<1>3. \A more \in Announced : \A call \in ToSet(more) : call.op \notin {"visit", "elect"}
  BY <1>1 DEF Announced, WakeAll, SelectOne, SelectAll, Drain
<1>. QED BY <1>1, <1>2, <1>3

(* A step that neither registers nor announces brings no news.              *)
LEMMA NoTidings ==
  ASSUME NEW m, UNCHANGED calls, top' # Null => top # Null,
         waiting'["recv"] # <<>> => waiting["recv"] # <<>>, UNCHANGED held,
         Dropping(m)' <=> Dropping(m)
  PROVE  Tidings(m) /\ Draining(m)
<1>1. Senders' = Senders /\ Receivers' = Receivers
  BY DEF Senders, Receivers
<1>2. \E more \in Announced : calls' = calls
  BY DEF Announced
<1>. QED BY <1>1, <1>2 DEF Tidings, Draining

LEMMA LocalElsewhere ==
  ASSUME Handles, EndsTyped, NEW t \in Threads, Local(t),
         Call(t, "send", "send", "check") => SendCall(t)
  PROVE  Elsewhere(t)
<1>0. UNCHANGED localVars /\ Quiet
  BY LocalAdvances, LocalQuiet
<1>1. DOMAIN pc = Threads /\ DOMAIN op = Threads
  BY DEF EndsTyped, EndTypes
<1>2. /\ pc[t] \notin Engaged /\ pc'[t] \notin Engaged
      /\ op'[t] \in Selects => op'[t] = op[t]
      /\ Dropping(t)' <=> Dropping(t)
  <2>. USE DEF Engaged, SelectSteps, Selects, Dropping, At
  <2>1. CASE RecvCall(t)
    BY <1>1, <2>1 DEF RecvCall, Call
  <2>2. CASE Check(t) \/ LoadTaken(t) \/ CountReceivers(t) \/ Recover(t)
    BY <1>1, <2>2 DEF Check, CheckReceivers, LoadTaken, CountReceivers, Recover, Finish, Step
  <2>3. CASE RemoveLoad(t) \/ RemoveNext(t) \/ RemoveHead(t) \/ RemoveBelow(t) \/ RemoveLink(t)
    BY <1>1, <2>3 DEF RemoveLoad, RemoveNext, RemoveHead, RemoveBelow, RemoveLink, Step
  <2>4. CASE RemoveWalk(t)
    <3>1. \E to \in {"remove_below", "recover", "remove_walk"} : Step(t, to)
      BY <2>4 DEF RemoveWalk
    <3>. QED BY <1>1, <2>4, <3>1 DEF RemoveWalk, Step
  <2>5. CASE PopLoad(t) \/ PopNext(t) \/ PopCas(t) \/ PopTake(t)
    BY <1>1, <2>5 DEF PopLoad, PopNext, PopCas, PopTake, Step
  <2>6. CASE CountSenders(t)
    BY <1>1, <2>6 DEF CountSenders, Answer, Nothing, Step
  <2>7. CASE DropNext(t)
    BY <1>1, <2>7 DEF DropNext, Step
  <2>8. CASE Complete(t)
    BY <1>1, <2>8 DEF Complete, CompleteBy
  <2>9. CASE Call(t, "send", "send", "check")
    BY <1>1, <2>9 DEF Call
  <2>. QED BY <2>1, <2>2, <2>3, <2>4, <2>5, <2>6, <2>7, <2>8, <2>9 DEF Local
<1>3. Tidings(t) /\ Draining(t)
  <2>1. top' # Null => top # Null
    BY <1>0 DEF Quiet
  <2>. QED BY <1>0, <1>2, <2>1, NoTidings DEF localVars, quietVars
<1>. QED BY <1>0, <1>2, <1>3 DEF Elsewhere, localVars, quietVars

(* Those that announce, unpark, register, or are not asked for.             *)
LEMMA AnnouncingElsewhere ==
  ASSUME EndsTyped, Handles, NEW t \in Threads,
         \/ Push(t) \/ PopUnpark(t) \/ EnlistAndInvite(t) \/ DropLoad(t) \/ DropUnpark(t)
         \/ UNCHANGED rendezvousVars /\ (\/ ParkReturns(t, "park", "again")
                                         \/ ParkReturns(t, "blocked", "offered")
                                         \/ Again(t, "pop") \/ Return(t))
  PROVE  Elsewhere(t)
<1>0. /\ DOMAIN pc = Threads /\ DOMAIN op = Threads /\ DOMAIN calls = Threads
      /\ waiting \in [Lists -> Seq(Threads)] /\ "recv" \in Lists
  BY EndpointConstants DEF EndsTyped, EndTypes, WaiterTypes
<1>. USE DEF Engaged, SelectSteps, Selects, Dropping
<1>1. CASE UNCHANGED held
  <2>1. Senders' = Senders /\ Receivers' = Receivers
    BY <1>1 DEF Senders, Receivers
  <2>2. CASE Push(t)
    <3>1. /\ pc[t] = "push" /\ pc'[t] = "offered" /\ op' = op /\ Free(t)
          /\ calls' = [calls EXCEPT ![t] = <<WakeAll("recv"), SelectOne("recv")>>]
          /\ UNCHANGED <<program, arm, stack, aborted, selected, waiting>>
      BY <1>0, <2>2 DEF Push, At, Step, Then, quietVars
    <3>2. ToSet(calls'[t]) = {WakeAll("recv"), SelectOne("recv")}
      BY <1>0, <3>1, NewCalls
    <3>3. \A call \in ToSet(calls'[t]) : call.op # "drain"
      BY <3>2 DEF WakeAll, SelectOne
    <3>. QED BY <2>1, <3>1, <3>2, <3>3 DEF Elsewhere, Tidings, Draining, Announced
  <2>3. CASE EnlistAndInvite(t)
    <3>1. /\ pc[t] = "enlist" /\ pc'[t] = "pop" /\ op' = op /\ Free(t) /\ top' = top
          /\ calls' = [calls EXCEPT ![t] = <<SelectOne("send")>>]
          /\ UNCHANGED <<program, arm, stack, aborted, selected>>
      BY <1>0, <2>3 DEF EnlistAndInvite, At, Step, Then, rendezvousVars, stackVars
    <3>2. ToSet(calls'[t]) = {SelectOne("send")}
      BY <1>0, <3>1, NewCalls
    <3>3. \A call \in ToSet(calls'[t]) : call.op # "drain"
      BY <3>2 DEF SelectOne
    <3>. QED BY <2>1, <3>1, <3>2, <3>3 DEF Elsewhere, Tidings, Draining, Announced
  <2>4. ASSUME Dropping(t), WalkEnds(t), UNCHANGED <<program, arm, stack, aborted, selected, waiting, top>>,
               Free(t)
        PROVE  Elsewhere(t)
    <3>1. /\ pc'[t] = "idle" /\ op'[t] = "none"
          /\ calls' = [calls EXCEPT ![t] = <<Drain("recv"), SelectAll("send")>>]
      BY <1>0, <2>4 DEF WalkEnds, Finish, Then
    <3>2. ToSet(calls'[t]) = {Drain("recv"), SelectAll("send")}
      BY <1>0, <3>1, NewCalls
    <3>3. \A call \in ToSet(calls'[t]) : call.op = "drain" => call.on = "recv"
      BY <3>2 DEF Drain, SelectAll
    <3>4. Tidings(t)
      BY <2>1, <2>4, <3>1, <3>2 DEF Tidings, Announced
    <3>5. Draining(t)
      BY <2>1, <2>4, <3>1, <3>3 DEF Draining
    <3>. QED BY <2>4, <3>1, <3>4, <3>5 DEF Elsewhere
  <2>5. ASSUME UNCHANGED <<program, arm, stack, aborted, selected, waiting, top, calls>>,
               pc[t] \notin Engaged, pc'[t] \notin Engaged, op' = op \/ op'[t] = "none",
               Dropping(t)' <=> Dropping(t)
        PROVE  Elsewhere(t)
    BY <1>1, <2>5, NoTidings DEF Elsewhere
  <2>6. CASE DropLoad(t)
    <3>1. /\ pc[t] = "drop" /\ Free(t) /\ UNCHANGED <<program, arm, stack, aborted, selected, waiting, top>>
          /\ WalkEnds(t) \/ (pc'[t] = "drop_next" /\ op' = op /\ UNCHANGED calls)
      BY <1>0, <2>6 DEF DropLoad, At, Step, quietVars
    <3>. QED BY <2>4, <2>5, <3>1
  <2>7. CASE DropUnpark(t)
    <3>1. /\ pc[t] = "drop_unpark" /\ Free(t)
          /\ UNCHANGED <<program, arm, stack, aborted, selected, waiting, top>>
          /\ WalkEnds(t) \/ (pc'[t] = "drop_next" /\ op' = op /\ UNCHANGED calls)
      BY <1>0, <2>7 DEF DropUnpark, At, Step
    <3>. QED BY <2>4, <2>5, <3>1
  <2>8. CASE PopUnpark(t)
    <3>1. /\ pc[t] = "pop_unpark" /\ pc'[t] = "return" /\ op' = op
          /\ UNCHANGED <<program, arm, stack, aborted, selected, waiting, top, calls>>
      BY <1>0, <2>8 DEF PopUnpark, At, Answer
    <3>. QED BY <2>5, <3>1
  <2>9. CASE UNCHANGED rendezvousVars /\ (\/ ParkReturns(t, "park", "again")
                                         \/ ParkReturns(t, "blocked", "offered"))
    <3>1. /\ pc[t] \in {"park", "blocked"} /\ pc'[t] \in {"again", "offered"} /\ op' = op
          /\ UNCHANGED <<program, arm, stack, aborted, selected, waiting, top, calls>>
      BY <1>0, <2>9 DEF ParkReturns, At, Step, rendezvousVars, stackVars
    <3>. QED BY <2>5, <3>1
  <2>10. CASE UNCHANGED rendezvousVars /\ (Again(t, "pop") \/ Return(t))
    <3>1. /\ pc[t] \in {"again", "return"} /\ pc'[t] \in {"pop", "idle"} /\ (op' = op \/ op'[t] = "none")
          /\ UNCHANGED <<program, arm, stack, aborted, selected, top, calls>> /\ Unregister(t, "recv")
      BY <1>0, <2>10 DEF Again, Return, At, Step, Finish, rendezvousVars, stackVars
    <3>2. waiting'["recv"] = Without(waiting["recv"], t)
      BY <1>0, <3>1 DEF Unregister
    <3>3. waiting'["recv"] # <<>> => waiting["recv"] # <<>>
      <4>1. waiting["recv"] = <<>> => t \notin ToSet(waiting["recv"])
        BY NewCalls
      <4>. QED BY <3>2, <4>1 DEF Without
    <3>4. Dropping(t)' <=> Dropping(t)
      BY <3>1
    <3>. QED BY <1>1, <3>1, <3>3, <3>4, NoTidings DEF Elsewhere
  <2>. QED BY <2>2, <2>3, <2>6, <2>7, <2>8, <2>9, <2>10
<1>2. UNCHANGED held
  BY DEF Push, PopUnpark, EnlistAndInvite, DropLoad, DropUnpark, ParkReturns, Again, Return, quietVars
<1>. QED BY <1>1, <1>2

LEMMA OutsideElsewhere ==
  ASSUME EndsTyped, Handles, NEW t \in Threads,
         DropOne(t) \/ DropLast(t) \/ (DropSender(t) /\ UNCHANGED rendezvousVars)
  PROVE  Elsewhere(t)
<1>0. /\ DOMAIN pc = Threads /\ DOMAIN calls = Threads /\ held \in [Threads -> SUBSET {"send", "recv"}]
  BY DEF EndsTyped, EndTypes, WaiterTypes
<1>. USE DEF Engaged, SelectSteps, Selects, Dropping
<1>1. pc[t] = "idle" /\ Free(t) /\ UNCHANGED <<program, arm, stack, aborted, selected, waiting, top, op>>
  BY DEF DropOne, DropLast, DropSender, DropReceiver, DropHandle, MayDrop, At, Step, rendezvousVars, stackVars,
         waiterVars
<1>2. CASE DropOne(t)
  <2>1. /\ pc' = pc /\ calls' = [calls EXCEPT ![t] = <<>>] /\ held' = [held EXCEPT ![t] = @ \ {"recv"}]
        /\ Receivers # {t}
    BY <1>2 DEF DropOne, DropReceiver, DropHandle, Then
  <2>2. Senders' = Senders
    BY <1>0, <2>1 DEF Senders
  <2>3. /\ Receivers = {} => Receivers' = {}
        /\ "recv" \in held[t]
    BY <1>0, <1>2, <2>1 DEF Receivers, DropOne, DropReceiver, DropHandle, MayDrop
  <2>4. Receivers' # {}
    <3>1. PICK u \in Receivers : u # t
      BY <2>1, <2>3 DEF Receivers
    <3>2. u \in Receivers'
      BY <1>0, <2>1, <3>1 DEF Receivers
    <3>. QED BY <3>2
  <2>5. ToSet(calls'[t]) = {}
    BY <1>0, <2>1, NewCalls
  <2>. QED BY <1>1, <2>1, <2>2, <2>3, <2>4, <2>5 DEF Elsewhere, Tidings, Draining, Announced
<1>3. CASE DropLast(t)
  <2>1. /\ pc'[t] = "drop" /\ calls' = calls /\ held' = [held EXCEPT ![t] = @ \ {"recv"}] /\ Receivers = {t}
    BY <1>0, <1>3 DEF DropLast, Step, waiterVars
  <2>2. Senders' = Senders /\ Receivers' = {}
    BY <1>0, <2>1 DEF Senders, Receivers
  <2>3. \E more \in Announced : calls' = calls
    BY <2>1 DEF Announced
  <2>. QED BY <1>1, <2>1, <2>2, <2>3 DEF Elsewhere, Tidings, Draining
<1>4. CASE DropSender(t)
  <2>1. PICK more \in {WakeEverybody, <<>>} :
          /\ pc' = pc /\ calls' = [calls EXCEPT ![t] = more] /\ held' = [held EXCEPT ![t] = @ \ {"send"}]
          /\ Senders = {t} => more = WakeEverybody
    BY <1>4 DEF DropSender, DropHandle, Then
  <2>2. Receivers' = Receivers /\ (Senders = {} => Senders' = {})
    BY <1>0, <2>1 DEF Senders, Receivers
  <2>3. (Senders' = {} => Senders = {}) \/ SelectAll("recv") \in ToSet(calls'[t])
    <3>1. CASE Senders = {t}
      BY <1>0, <2>1, <3>1, NewCalls
    <3>2. CASE Senders # {t}
      <4>1. ASSUME NEW u \in Senders, u # t PROVE u \in Senders'
        BY <1>0, <2>1, <4>1 DEF Senders
      <4>2. "send" \in held[t]
        BY <1>4 DEF DropSender, DropHandle, MayDrop
      <4>3. t \in Senders
        BY <4>2 DEF Senders
      <4>. QED BY <3>2, <4>1, <4>3
    <3>. QED BY <3>1, <3>2
  <2>4. \A call \in ToSet(calls'[t]) : call.op # "drain"
    BY <1>0, <2>1, NewCalls DEF WakeAll, SelectAll
  <2>. QED BY <1>1, <2>1, <2>2, <2>3, <2>4 DEF Elsewhere, Tidings, Draining, Announced
<1>. QED BY <1>2, <1>3, <1>4

LEMMA CloneElsewhere ==
  ASSUME EndsTyped, Unborn, NEW t \in Threads, NEW x \in Threads, CloneHandle(t, x), UNCHANGED rendezvousVars
  PROVE  Elsewhere(x)
<1>0. DOMAIN pc = Threads /\ held \in [Threads -> SUBSET {"send", "recv"}]
  BY DEF EndsTyped, EndTypes
<1>1. /\ pc[x] = "unborn" /\ pc'[x] = "idle" /\ UNCHANGED <<program, arm, waiterVars, op, top>>
      /\ held' = [held EXCEPT ![x] = {program.offspring[x]}] /\ program.offspring[x] \in held[t]
      /\ held[x] = {}
  BY <1>0 DEF CloneHandle, Step, Unborn, rendezvousVars, stackVars
<1>2. /\ Senders' = {} => Senders = {}
      /\ Receivers' = {} => Receivers = {}
      /\ Receivers = {} => Receivers' = {}
  BY <1>0, <1>1 DEF Senders, Receivers
<1>3. \E more \in Announced : calls' = calls
  BY <1>1 DEF Announced, waiterVars
<1>4. pc[x] \notin Engaged /\ pc'[x] \notin Engaged /\ ~Dropping(x) /\ ~Dropping(x)'
  BY <1>1 DEF Engaged, SelectSteps, Dropping
<1>5. UNCHANGED <<stack, aborted, selected, waiting, calls>>
  BY <1>1 DEF waiterVars
<1>. QED BY <1>1, <1>2, <1>3, <1>4, <1>5 DEF Elsewhere, Tidings, Draining

(* Every step is of one of three kinds.                                     *)
LEMMA StepKinds ==
  ASSUME EndsTyped, Handles, Unborn, NEW t \in Threads, RendezvousStep(t) \/ RendezvousChance(t)
  PROVE  Waking(t) \/ \E m \in Threads : Mild(m) /\ (Elsewhere(m) \/ Selecting(m))
<1>1. CASE Local(t) /\ (Call(t, "send", "send", "check") => SendCall(t))
  BY <1>1, LocalMild, LocalElsewhere
<1>2. CASE \/ Push(t) \/ PopUnpark(t) \/ EnlistAndInvite(t) \/ DropLoad(t) \/ DropUnpark(t)
           \/ UNCHANGED rendezvousVars /\ (\/ ParkReturns(t, "park", "again")
                                           \/ ParkReturns(t, "blocked", "offered")
                                           \/ Again(t, "pop") \/ Return(t))
  BY <1>2, AnnouncingMild, AnnouncingElsewhere
<1>3. CASE \/ Probe(t) \/ ProbeOtherSide(t)
           \/ UNCHANGED rendezvousVars /\ (PushArm(t, "enrol") \/ SelectStep(t))
           \/ UNCHANGED stackVars /\ (\/ SelectCall(t, "select_recv", "recv")
                                      \/ SelectCall(t, "select_send", "send"))
  <2>1. Mild(t)
    BY <1>3, SelectMild
  <2>2. UNCHANGED <<program, held, waiting, calls, top>>
    <3>1. CASE Probe(t) \/ ProbeOtherSide(t)
      BY <3>1 DEF Probe, ProbeOtherSide, probeVars, rendezvousVars, stackVars
    <3>2. CASE UNCHANGED rendezvousVars /\ (PushArm(t, "enrol") \/ SelectStep(t))
      BY <3>2 DEF PushArm, SelectStep, Decide, WakeUp, AbortLoad, Walk, Judge, localVars, quietVars,
                  probeVars, waiterVars, rendezvousVars, stackVars
    <3>3. CASE UNCHANGED stackVars /\ (\/ SelectCall(t, "select_recv", "recv")
                                       \/ SelectCall(t, "select_send", "send"))
      BY <3>3 DEF SelectCall, probeVars, stackVars
    <3>. QED BY <1>3, <3>1, <3>2, <3>3
  <2>. QED BY <1>3, <2>1, <2>2 DEF Selecting
<1>4. CASE UNCHANGED rendezvousVars /\ (DeadlinePasses(t) \/ Spurious(t))
  <2>1. UNCHANGED <<program, held, waiting, calls, top>>
    BY <1>4 DEF DeadlinePasses, Spurious, waiterVars, rendezvousVars, stackVars
  <2>. QED BY <1>4, <2>1, OutsideMild DEF Selecting
<1>5. CASE DropOne(t) \/ DropLast(t) \/ (DropSender(t) /\ UNCHANGED rendezvousVars)
  BY <1>5, OutsideMild, OutsideElsewhere
<1>6. CASE UNCHANGED rendezvousVars /\ \E x \in Threads : CloneHandle(t, x)
  BY <1>6, CloneHandleStep, CloneElsewhere DEF EndsTyped
<1>7. CASE WakeStep(t) /\ UNCHANGED endVars /\ UNCHANGED rendezvousVars
  BY <1>7 DEF Waking
<1>8. CASE \/ Check(t) \/ LoadTaken(t) \/ CountReceivers(t) \/ RemoveLoad(t)
           \/ RemoveNext(t) \/ RemoveHead(t) \/ RemoveWalk(t) \/ RemoveBelow(t) \/ RemoveLink(t)
           \/ Recover(t) \/ PopLoad(t) \/ PopNext(t) \/ PopCas(t) \/ PopTake(t) \/ CountSenders(t)
           \/ DropNext(t) \/ Complete(t)
  <2>1. Local(t) /\ pc[t] # "idle"
    BY <1>8 DEF Local, Check, CheckReceivers, LoadTaken, CountReceivers, RemoveLoad, RemoveNext,
       RemoveHead, RemoveWalk, RemoveBelow, RemoveLink, Recover, PopLoad, PopNext, PopCas, PopTake,
       CountSenders, DropNext, Complete, CompleteBy, At
  <2>2. ~Call(t, "send", "send", "check")
    BY <2>1 DEF Call, At
  <2>. QED BY <1>1, <2>1, <2>2
<1>9. CASE SendCall(t) \/ RecvCall(t)
  <2>1. CASE RecvCall(t)
    <3>1. PICK operation \in {"recv", "try_recv"} : Call(t, operation, "recv", "pop")
      BY <2>1 DEF RecvCall
    <3>2. ~Call(t, "send", "send", "check")
      BY <3>1 DEF Call, EndsTyped, EndTypes
    <3>. QED BY <1>1, <2>1, <3>2 DEF Local
  <2>2. CASE SendCall(t) /\ Call(t, "send", "send", "check")
    BY <1>1, <2>2 DEF Local
  <2>3. CASE SendCall(t) /\ SelectCall(t, "select_send", "send")
    BY <1>3, <2>3 DEF SendCall
  <2>. QED BY <1>9, <2>1, <2>2, <2>3 DEF SendCall
<1>10. CASE SelectCall(t, "select_recv", "recv") /\ UNCHANGED rendezvousVars
  BY <1>3, <1>10 DEF rendezvousVars
<1>. QED BY <1>1, <1>2, <1>3, <1>4, <1>5, <1>6, <1>7, <1>8, <1>9, <1>10 DEF RendezvousStep, RendezvousChance

LEMMA TurnTyped ==
  ASSUME EndsTyped, Asking, NEW t \in Threads, pc[t] \in Engaged
  PROVE  /\ op[t] \in Selects /\ op[t] \in program.uses[t] /\ ArmSide(t) \in Stacks
         /\ arm[t].turn # 0 => arm[t].turn \in Rounds /\ ArmNode(t) \in ArmNodes
         /\ pc[t] \notin {"probe", "probe_more"} => arm[t].turn # 0
<1>1. arm[t] \in Arms /\ op[t] \in Selects /\ op[t] \in program.uses[t]
  BY DEF EndsTyped, EndTypes, Asking, AskingOf
<1>2. arm[t].turn # 0 => arm[t].turn \in Rounds
  BY <1>1 DEF Arms
<1>3. pc[t] \notin {"probe", "probe_more"} => arm[t].turn # 0
  BY DEF EndsTyped, Turned, Turning, Engaged
<1>. QED BY <1>1, <1>2, <1>3, EndpointConstants DEF ArmSide, ArmNode, ArmNodes

LEMMA AskingStep ==
  ASSUME EndsTyped, Asking, NEW m \in Threads, Mild(m), Elsewhere(m) \/ Selecting(m)
  PROVE  Asking'
<1>0. /\ DOMAIN pc = Threads /\ DOMAIN op = Threads /\ DOMAIN arm = Threads /\ arm[m] \in Arms
      /\ program' = program /\ AskingOf(m)
  BY DEF EndsTyped, EndTypes, Asking, Elsewhere, Selecting
<1>1. \A u \in Threads \ {m} : AskingOf(u)'
  BY <1>0 DEF Asking, AskingOf, Mild
<1>2. AskingOf(m)'
  <2>1. CASE Elsewhere(m)
    BY <1>0, <2>1 DEF Elsewhere, AskingOf
  <2>2. ASSUME pc[m] \in Engaged, pc'[m] \in Engaged, op' = op PROVE AskingOf(m)'
    BY <1>0, <2>2 DEF AskingOf
  <2>3. ASSUME pc'[m] = "complete", op' = op, arm'[m].turn = 0, pc[m] \in Engaged PROVE AskingOf(m)'
    BY <1>0, <2>3 DEF AskingOf, Engaged, SelectSteps
  <2>4. ASSUME pc'[m] = "idle", op'[m] = "none", arm'[m].turn = 0 PROVE AskingOf(m)'
    BY <2>4 DEF AskingOf, Engaged, SelectSteps, Selects
  <2>5. ASSUME CompleteArm(m), pc[m] \in Engaged PROVE AskingOf(m)'
    <3>1. pc'[m] = "complete" /\ op' = op /\ arm'[m] = Leaving(m)
      BY <1>0, <2>5 DEF CompleteArm, Proceed, Step
    <3>2. arm'[m].turn = 0
      BY <1>0, <3>1 DEF Leaving, Arms
    <3>. QED BY <2>3, <2>5, <3>1, <3>2
  <2>6. ASSUME TakeDefault(m) PROVE AskingOf(m)'
    <3>1. pc'[m] = "idle" /\ op'[m] = "none" /\ arm'[m] = Leaving(m)
      BY <1>0, <2>6 DEF TakeDefault, Finish
    <3>2. arm'[m].turn = 0
      BY <1>0, <3>1 DEF Leaving, Arms
    <3>. QED BY <2>4, <3>1, <3>2
  <2>7. CASE DeadlinePasses(m) \/ Spurious(m)
    <3>1. pc' = pc /\ op' = op /\ arm'[m].turn = arm[m].turn
      BY <1>0, <2>7 DEF DeadlinePasses, Spurious, Arms
    <3>. QED BY <1>0, <3>1 DEF AskingOf
  <2>8. CASE SelectCall(m, "select_recv", "recv") \/ SelectCall(m, "select_send", "send")
    <3>1. pc'[m] = "probe" /\ op'[m] \in Selects \cap program.uses[m]
      BY <1>0, <2>8 DEF SelectCall, Selects
    <3>. QED BY <1>0, <3>1 DEF AskingOf, Engaged, SelectSteps
  <2>9. CASE Probe(m) \/ ProbeOtherSide(m)
    <3>1. pc[m] \in Engaged
      BY <2>9 DEF Probe, ProbeOtherSide, At, Engaged, SelectSteps
    <3>2. ASSUME Step(m, "probe_more") \/ Proceed(m, "decide", arm[m]) \/ \E a : Proceed(m, "enrol", a)
          PROVE  AskingOf(m)'
      <4>1. pc'[m] \in Engaged /\ op' = op
        BY <1>0, <3>2 DEF Proceed, Step, Engaged, SelectSteps
      <4>. QED BY <2>2, <3>1, <4>1
    <3>. QED BY <2>5, <2>6, <2>9, <3>1, <3>2 DEF Probe, ProbeOtherSide, ArmReady, ArmNotReady
  <2>10. CASE PushArm(m, "enrol")
    <3>1. pc[m] = "enrol" /\ pc'[m] = "probe" /\ op' = op
      BY <1>0, <2>10 DEF PushArm, At, Step
    <3>. QED BY <2>2, <3>1 DEF Engaged, SelectSteps
  <2>11. CASE Decide(m) \/ WakeUp(m) \/ AbortLoad(m) \/ Walk(m)
    <3>1. /\ pc[m] \in {"decide", "sleep", "abort", "walk"} /\ op' = op
          /\ pc'[m] \in {"sleep", "abort", "walk", "judge"}
      BY <1>0, <2>11 DEF Decide, WakeUp, AbortLoad, Walk, At, Step, Proceed
    <3>. QED BY <2>2, <3>1 DEF Engaged, SelectSteps
  <2>12. CASE Judge(m)
    <3>1. pc[m] = "judge" /\ "judge" \in Engaged
      BY <2>12 DEF Judge, At, Engaged, SelectSteps
    <3>2. ASSUME Proceed(m, "probe", [arm[m] EXCEPT !.turn = 0]) PROVE AskingOf(m)'
      <4>1. pc'[m] = "probe" /\ op' = op
        BY <1>0, <3>2 DEF Proceed, Step
      <4>. QED BY <2>2, <3>1, <4>1 DEF Engaged, SelectSteps
    <3>. QED BY <2>5, <2>6, <2>12, <3>1, <3>2 DEF Judge
  <2>. QED BY <2>1, <2>7, <2>8, <2>9, <2>10, <2>11, <2>12 DEF Selecting, SelectStep
<1>. QED BY <1>1, <1>2 DEF Asking

(* Drains, and the calls of the last receiver.                              *)
Dry ==
  /\ \A t \in Threads : Dropping(t) => Receivers = {}
  /\ \A t \in Threads : \A call \in ToSet(calls[t]) : call.op = "drain" => call.on = "recv" /\ Receivers = {}

LEMMA DryStep ==
  ASSUME Handles, EndsTyped, Dry, NEW m \in Threads, Mild(m), Elsewhere(m) \/ Selecting(m)
  PROVE  Dry'
<1>1. CASE Elsewhere(m)
  <2>1. Draining(m) /\ \A u \in Threads \ {m} : calls'[u] = calls[u] /\ pc'[u] = pc[u]
    <3>1. PICK more \in Announced : calls' = calls \/ (Free(m) /\ calls' = [calls EXCEPT ![m] = more])
      BY <1>1 DEF Elsewhere, Tidings
    <3>. QED BY <1>1, <3>1 DEF Elsewhere, Mild, EndsTyped, EndTypes, WaiterTypes
  <2>2. ASSUME NEW u \in Threads \ {m}, NEW call \in ToSet(calls'[u]), call.op = "drain"
        PROVE  call.on = "recv" /\ Receivers' = {}
    BY <2>1, <2>2 DEF Dry, Draining
  <2>3. ASSUME NEW call \in ToSet(calls'[m]), call.op = "drain"
        PROVE  call.on = "recv" /\ Receivers' = {}
    BY <2>1, <2>3 DEF Dry, Draining
  <2>4. ASSUME NEW u \in Threads, Dropping(u)' PROVE Receivers' = {}
    <3>1. u # m => Dropping(u)
      BY <2>1, <2>4 DEF Dropping
    <3>. QED BY <2>1, <2>4, <3>1 DEF Dry, Draining
  <2>. QED BY <2>2, <2>3, <2>4 DEF Dry, Dropping
<1>2. CASE Selecting(m)
  <2>1. Dropping(m)' => Dropping(m)
    <3>0. DOMAIN pc = Threads
      BY DEF EndsTyped, EndTypes
    <3>1. CASE DeadlinePasses(m) \/ Spurious(m)
      BY <3>1 DEF DeadlinePasses, Spurious, Dropping
    <3>2. CASE \/ SelectCall(m, "select_recv", "recv") \/ SelectCall(m, "select_send", "send")
               \/ PushArm(m, "enrol")
      BY <3>0, <3>2 DEF SelectCall, PushArm, Step, Dropping
    <3>3. CASE SelectStep(m)
      BY <3>0, <3>3, SelectOuter DEF Outer, SelectSteps, Dropping
    <3>4. CASE Probe(m) \/ ProbeOtherSide(m)
      BY <3>0, <3>4, ProbeOuter DEF Outer, SelectSteps, Dropping
    <3>. QED BY <1>2, <3>1, <3>2, <3>3, <3>4 DEF Selecting
  <2>2. Receivers' = Receivers /\ calls' = calls
    BY <1>2 DEF Receivers, Selecting
  <2>3. \A u \in Threads : Dropping(u)' => Dropping(u)
    BY <2>1 DEF Mild, Dropping
  <2>. QED BY <2>2, <2>3 DEF Dry
<1>. QED BY <1>1, <1>2

LEMMA DryWaking ==
  ASSUME EndsTyped, Dry, NEW t \in Threads, Waking(t)
  PROVE  Dry'
<1>1. WaiterTypes(ArmNodes) /\ NodesOK(ArmNodes)
  BY EndpointConstants DEF EndsTyped, EndTypes
<1>2. \A u \in Threads : \A call \in ToSet(calls'[u]) : call.op = "drain" => call \in ToSet(calls[u])
  BY <1>1, NoNewCalls DEF Waking
<1>3. UNCHANGED <<pc, held>>
  BY DEF Waking, endVars
<1>. QED BY <1>2, <1>3 DEF Dry, Dropping, Receivers

(* Every turn has a name of its own.                                        *)
NewNodes == \A t \in Threads : pc[t] = "enrol" => ~Allocated(ArmNode(t))

(* Only a push adds a node, and only a walk marks one.                      *)
LEMMA NodesWritten ==
  ASSUME NEW m \in Threads, Elsewhere(m) \/ Selecting(m)
  PROVE  UNCHANGED <<stack, aborted>> \/ PushArm(m, "enrol") \/ Walk(m)
<1>1. CASE Elsewhere(m)
  BY <1>1 DEF Elsewhere
<1>2. CASE \/ DeadlinePasses(m) \/ Spurious(m)
           \/ SelectCall(m, "select_recv", "recv") \/ SelectCall(m, "select_send", "send")
           \/ Probe(m) \/ ProbeOtherSide(m)
  BY <1>2 DEF DeadlinePasses, Spurious, SelectCall, Probe, ProbeOtherSide, probeVars, waiterVars
<1>3. CASE Decide(m) \/ WakeUp(m) \/ AbortLoad(m) \/ Judge(m)
  BY <1>3 DEF Decide, WakeUp, AbortLoad, Judge, localVars, quietVars, waiterVars, probeVars
<1>. QED BY <1>1, <1>2, <1>3 DEF Selecting, SelectStep

LEMMA PushAdds ==
  ASSUME NEW N, WaiterTypes(N), NEW s \in Stacks, NEW n \in N, PushNode(n, s)
  PROVE  /\ ToSet(stack'[s]) = {n} \cup ToSet(stack[s])
         /\ \A r \in Stacks : r # s => stack'[r] = stack[r]
         /\ \A r \in Stacks : ToSet(stack[r]) \subseteq ToSet(stack'[r])
<1>1. ToSet(stack'[s]) = {n} \cup ToSet(stack[s])
  BY PushMoves
<1>2. \A r \in Stacks : r # s => stack'[r] = stack[r]
  BY PushMoves
<1>. QED BY <1>1, <1>2

(* What a step leaves of the nodes and of the wake calls.                   *)
LEMMA NodesKept ==
  ASSUME EndsTyped, Asking, Separate, NewNodes, NEW m \in Threads, Elsewhere(m) \/ Selecting(m)
  PROVE  /\ Separate'
         /\ \A v \in Threads : /\ Hand(v)' = Hand(v) /\ (Hand(v) # <<>> => calls'[v] = calls[v])
                               /\ ToSet(calls[v]) \subseteq ToSet(calls'[v])
         /\ \A n : Allocated(n)' => Allocated(n) \/ (PushArm(m, "enrol") /\ n = ArmNode(m))
         /\ \A s \in Stacks : ToSet(stack[s]) \subseteq ToSet(stack'[s])
         /\ aborted \subseteq aborted'
         /\ \A n : n \in aborted' => n \in aborted \/ (Thread(n) = m /\ pc[m] = "walk")
<1>0. /\ \A u \in Threads : Hand(u) # <<>> => calls[u] # <<>>
      /\ WaiterTypes(ArmNodes) /\ calls \in [Threads -> Seq(WakeCalls(ArmNodes))]
  BY DEF Hand, Calling, EndsTyped, EndTypes, WaiterTypes
<1>1. CASE PushArm(m, "enrol") /\ UNCHANGED calls
  <2>1. /\ pc[m] = "enrol" /\ PushNode(ArmNode(m), ArmSide(m)) /\ UNCHANGED aborted
    BY <1>1 DEF PushArm, At
  <2>2. ArmSide(m) \in Stacks /\ ArmNode(m) \in ArmNodes /\ ~Allocated(ArmNode(m))
    BY <2>1, TurnTyped DEF NewNodes, Engaged, SelectSteps
  <2>3. Separate' /\ \A n : Allocated(n)' <=> Allocated(n) \/ n = ArmNode(m)
    BY <1>0, <1>1, <2>1, <2>2, PushSeparate
  <2>4. \A s \in Stacks : ToSet(stack[s]) \subseteq ToSet(stack'[s])
    BY <1>0, <2>1, <2>2, PushAdds
  <2>5. \A v \in Threads : Hand(v)' = Hand(v)
    BY <1>1 DEF Hand, Calling
  <2>6. \A v \in Threads : calls'[v] = calls[v]
    BY <1>1
  <2>7. \A n : Allocated(n)' => Allocated(n) \/ (PushArm(m, "enrol") /\ n = ArmNode(m))
    BY <1>1, <2>3
  <2>. QED BY <2>1, <2>3, <2>4, <2>5, <2>6, <2>7
<1>2. CASE Walk(m) /\ UNCHANGED calls
  <2>1. /\ UNCHANGED <<stack, calls>> /\ pc[m] = "walk"
        /\ UNCHANGED aborted \/ Mark(arm[m].node, m, arm[m].turn)
    BY <1>2 DEF Walk, At
  <2>2. Separate' /\ \A n : Allocated(n)' <=> Allocated(n)
    BY <2>1 DEF Separate, Ordered, Hand, Calling, Allocated, Chains, Drainers
  <2>3. \A v \in Threads : Hand(v)' = Hand(v)
    BY <2>1 DEF Hand, Calling
  <2>4. aborted \subseteq aborted' /\ \A n : n \in aborted' => n \in aborted \/ Thread(n) = m
    BY <2>1 DEF Mark
  <2>. QED BY <2>1, <2>2, <2>3, <2>4
<1>3. CASE UNCHANGED <<stack, aborted>>
  <2>1. PICK more \in Announced : calls' = calls \/ (Free(m) /\ calls' = [calls EXCEPT ![m] = more])
    <3>1. CASE Selecting(m)
      BY <3>1 DEF Selecting, Announced
    <3>2. CASE Elsewhere(m)
      BY <3>2 DEF Elsewhere, Tidings
    <3>. QED BY <3>1, <3>2
  <2>2. more \in Seq(WakeCalls(ArmNodes)) /\ \A call \in ToSet(more) : call.op \notin {"visit", "elect"}
    BY NewCalls
  <2>3. /\ Separate' /\ (\A n : Allocated(n)' <=> Allocated(n))
        /\ \A v \in Threads : Hand(v)' = Hand(v)
    BY <1>0, <1>3, <2>1, <2>2, CallsSeparate
  <2>4. \A v \in Threads : calls'[v] = calls[v] \/ calls[v] = <<>>
    BY <1>0, <2>1 DEF Free
  <2>5. \A v \in Threads : ToSet(calls[v]) \subseteq ToSet(calls'[v])
    BY <2>4, NewCalls
  <2>6. \A v \in Threads : Hand(v) # <<>> => calls'[v] = calls[v]
    BY <1>0, <2>4
  <2>. QED BY <1>3, <2>3, <2>5, <2>6
<1>4. PushArm(m, "enrol") \/ Walk(m) => UNCHANGED calls
  BY DEF PushArm, Walk
<1>. QED BY <1>1, <1>2, <1>3, <1>4, NodesWritten

LEMMA NewNodesStep ==
  ASSUME EndsTyped, Asking, Separate, NewNodes, NEW m \in Threads, Mild(m), Elsewhere(m) \/ Selecting(m)
  PROVE  NewNodes'
<1>0. DOMAIN pc = Threads /\ DOMAIN arm = Threads /\ arm \in [Threads -> Arms]
  BY DEF EndsTyped, EndTypes
<1>1. \A n : Allocated(n)' => Allocated(n) \/ (PushArm(m, "enrol") /\ n = ArmNode(m))
  BY NodesKept
<1>2. ASSUME NEW u \in Threads \ {m}, pc'[u] = "enrol"
      PROVE  ~Allocated(ArmNode(u))'
  <2>1. pc[u] = "enrol" /\ ArmNode(u)' = ArmNode(u) /\ ~Allocated(ArmNode(u))
    BY <1>2 DEF ArmNode, NewNodes, Mild
  <2>2. ArmNode(u) # ArmNode(m)
    BY <1>2 DEF ArmNode
  <2>. QED BY <1>1, <2>1, <2>2
<1>3. ASSUME pc'[m] = "enrol"
      PROVE  ~Allocated(ArmNode(m))'
  <2>0. ~PushArm(m, "enrol") /\ ~Elsewhere(m)
    BY <1>0, <1>3 DEF PushArm, Step, Elsewhere, Engaged, SelectSteps
  <2>1. CASE DeadlinePasses(m) \/ Spurious(m)
    <3>1. pc' = pc /\ arm'[m].turn = arm[m].turn
      BY <1>0, <2>1 DEF DeadlinePasses, Spurious, Arms
    <3>2. ArmNode(m)' = ArmNode(m) /\ ~Allocated(ArmNode(m))
      BY <1>3, <3>1 DEF ArmNode, NewNodes
    <3>. QED BY <1>1, <2>0, <3>2
  <2>2. CASE Probe(m) \/ ProbeOtherSide(m)
    <3>1. /\ \E r \in Rounds : Chained(m, r) = {}
          /\ arm'[m] = [arm[m] EXCEPT !.turn = FreshTurn(m)]
      BY <1>0, <1>3, <2>2 DEF Probe, ProbeOtherSide, ArmReady, ArmNotReady, CompleteArm, TakeDefault, Proceed,
                              Step, Finish
    <3>2. Chained(m, FreshTurn(m)) = {}
      BY <3>1 DEF FreshTurn
    <3>3. ArmNode(m)' = <<m, FreshTurn(m), 1>>
      BY <1>0, <3>1 DEF ArmNode, Arms
    <3>4. ~Allocated(<<m, FreshTurn(m), 1>>)
      BY <3>2 DEF Chained, Allocated, Thread, Round
    <3>. QED BY <1>1, <2>0, <3>3, <3>4
  <2>3. CASE SelectCall(m, "select_recv", "recv") \/ SelectCall(m, "select_send", "send")
    BY <1>0, <1>3, <2>3 DEF SelectCall
  <2>4. CASE SelectStep(m)
    BY <1>0, <1>3, <2>4 DEF SelectStep, Decide, WakeUp, AbortLoad, Walk, Judge, CompleteArm, TakeDefault, Proceed,
                            Step, Finish
  <2>. QED BY <2>0, <2>1, <2>2, <2>3, <2>4 DEF Selecting
<1>. QED BY <1>2, <1>3 DEF NewNodes

LEMMA NewNodesWaking ==
  ASSUME EndsTyped, Asking, Separate, NewNodes, NEW t \in Threads, Waking(t)
  PROVE  NewNodes'
<1>0. WaiterTypes(ArmNodes) /\ NodesOK(ArmNodes)
  BY EndpointConstants DEF EndsTyped, EndTypes
<1>1. UNCHANGED <<pc, arm>>
  BY DEF Waking, endVars
<1>2. ASSUME NEW u \in Threads, pc[u] = "enrol"
      PROVE  ~Allocated(ArmNode(u))'
  <2>1. ArmNode(u) \in ArmNodes /\ ~Allocated(ArmNode(u)) /\ ArmNode(u)' = ArmNode(u)
    BY <1>1, <1>2, TurnTyped DEF NewNodes, ArmNode, Engaged, SelectSteps
  <2>2. \A n \in ArmNodes : Allocated(n)' => Allocated(n)
    BY <1>0, WakeSeparate DEF Waking
  <2>. QED BY <2>1, <2>2
<1>. QED BY <1>1, <1>2 DEF NewNodes

-----------------------------------------------------------------------------
(* A select call between its push and its walk; the nodes it has yet to     *)
(* mark.                                                                    *)
Posted(t) ==
  pc[t] \in {"decide", "sleep"} \/ (pc[t] \in {"probe", "probe_more"} /\ arm[t].turn # 0)
Ahead(m, n, chain) == \E i \in DOMAIN chain : \E j \in DOMAIN chain : i <= j /\ chain[i] = m /\ chain[j] = n
Watched(n) ==
  LET t == Thread(n) IN
  /\ arm[t].turn = Round(n)
  /\ \/ Posted(t) \/ pc[t] = "abort"
     \/ pc[t] = "walk" /\ Ahead(arm[t].node, n, stack[ArmSide(t)])
Clean ==
  \A s \in Stacks : \A n \in ToSet(stack[s]) : n \in aborted \/ (ArmSide(Thread(n)) = s /\ Watched(n))

LEMMA WatchedEngaged ==
  ASSUME NEW n \in ArmNodes, Watched(n)
  PROVE  Thread(n) \in Threads /\ pc[Thread(n)] \in Engaged \ {"enrol", "judge"}
BY DEF ArmNodes, Thread, Watched, Posted, Engaged, SelectSteps

(* Two calls do not select on one side.                                     *)
LEMMA SidesApart ==
  ASSUME OneSelects, EndsTyped, Asking, NEW t \in Threads, NEW u \in Threads,
         pc[t] \in Engaged, pc[u] \in Engaged, ArmSide(t) = ArmSide(u)
  PROVE  t = u
<1>1. /\ op[t] \in Selects /\ op[t] \in program.uses[t]
      /\ op[u] \in Selects /\ op[u] \in program.uses[u]
  BY TurnTyped
<1>2. op[t] = op[u]
  BY <1>1 DEF ArmSide, Selects
<1>3. program \in Programs
  BY DEF EndsTyped, EndTypes
<1>. QED BY <1>1, <1>2, <1>3 DEF OneSelects, Selects

(* A select call marks its nodes from the top down.                         *)
LEMMA OwnWatched ==
  ASSUME EndsTyped, Asking, Separate, NEW t \in Threads, Elsewhere(t) \/ Selecting(t), UNCHANGED stack,
         NEW s \in Stacks, ArmSide(t) = s,
         NEW n \in ToSet(stack[s]), Thread(n) = t, Watched(n), n \notin aborted'
  PROVE  Watched(n)' /\ op'[t] = op[t]
<1>0. /\ stack[s] \in Seq(ArmNodes) /\ WaiterTypes(ArmNodes) /\ NodesOK(ArmNodes)
      /\ arm \in [Threads -> Arms] /\ DOMAIN pc = Threads /\ DOMAIN arm = Threads /\ stack'[s] = stack[s]
  BY EndpointConstants DEF EndsTyped, EndTypes, WaiterTypes
<1>1. n \in ArmNodes
  BY <1>0 DEF ToSet
<1>2. pc[t] \in Engaged \ {"enrol", "judge"}
  BY <1>1, WatchedEngaged
<1>3. arm[t].turn = Round(n) /\ arm[t].turn # 0
  <2>1. arm[t].turn = Round(n)
    BY DEF Watched
  <2>2. Round(n) \in Rounds
    BY <1>1 DEF ArmNodes, Round
  <2>. QED BY <2>1, <2>2, EndpointConstants
<1>4. ASSUME arm'[t].turn = arm[t].turn, op'[t] = op[t], Posted(t)' \/ pc'[t] = "abort"
      PROVE  Watched(n)' /\ op'[t] = op[t]
  BY <1>3, <1>4 DEF Watched, Thread, Round, Posted
<1>5. ASSUME arm'[t].turn = arm[t].turn, op'[t] = op[t], pc'[t] = "walk", Ahead(arm'[t].node, n, stack[s])
      PROVE  Watched(n)' /\ op'[t] = op[t]
  <2>1. stack'[ArmSide(t)'] = stack[s]
    BY <1>0, <1>5 DEF ArmSide
  <2>. QED BY <1>3, <1>5, <2>1 DEF Watched, Thread, Round, Ahead
<1>6. CASE Decide(t) \/ WakeUp(t)
  <2>1. pc'[t] \in {"sleep", "abort"} /\ arm' = arm /\ op' = op
    BY <1>0, <1>6 DEF Decide, WakeUp, Step, localVars, quietVars
  <2>. QED BY <1>4, <2>1 DEF Posted
<1>7. CASE Probe(t) \/ ProbeOtherSide(t)
  <2>1. pc'[t] \in {"decide", "probe_more"} /\ arm'[t] = arm[t] /\ op' = op
    BY <1>0, <1>3, <1>7 DEF Probe, ProbeOtherSide, ArmReady, ArmNotReady, Proceed, Step
  <2>. QED BY <1>3, <1>4, <2>1 DEF Posted
<1>8. CASE AbortLoad(t)
  <2>1. pc[t] = "abort"
    BY <1>8 DEF AbortLoad, At
  <2>2. stack[s] # <<>>
    BY DEF ToSet
  <2>3. Top(s) # NoNode
    BY <1>0, <2>2, TopEmpty
  <2>4. Top(s) = stack[s][1]
    BY <1>0, <2>3, TopTyped
  <2>5. pc'[t] = "walk" /\ arm'[t] = [arm[t] EXCEPT !.node = Top(s)] /\ op' = op
    BY <1>0, <1>8, <2>3 DEF AbortLoad, Proceed, Step
  <2>6. arm'[t].turn = arm[t].turn /\ arm'[t].node = stack[s][1]
    BY <1>0, <2>4, <2>5 DEF Arms
  <2>7. PICK j \in DOMAIN stack[s] : stack[s][j] = n
    BY DEF ToSet
  <2>8. 1 \in DOMAIN stack[s] /\ 1 <= j
    BY <1>0, <2>7
  <2>9. Ahead(arm'[t].node, n, stack[s])
    BY <2>6, <2>7, <2>8 DEF Ahead
  <2>. QED BY <1>5, <2>5, <2>6, <2>9
<1>9. CASE Walk(t)
  <2>. DEFINE chain == stack[s]
              m == arm[t].node
  <2>1. pc[t] = "walk"
    BY <1>9 DEF Walk, At
  <2>2. Ahead(m, n, chain)
    BY <2>1 DEF Watched, Posted
  <2>3. PICK i \in DOMAIN chain, j \in DOMAIN chain : i <= j /\ chain[i] = m /\ chain[j] = n
    BY <2>2 DEF Ahead
  <2>4. Allocated(m) /\ NextOf(m) = IF i = Len(chain) THEN NoNode ELSE chain[i + 1]
    BY <1>0, <2>3, NextOfStack
  <2>5. Mark(m, t, arm[t].turn)
    BY <1>9, <2>4 DEF Walk
  <2>6. i # j
    BY <1>3, <2>3, <2>5 DEF Mark
  <2>7. i + 1 \in DOMAIN chain /\ i + 1 <= j /\ i # Len(chain) /\ NextOf(m) = chain[i + 1]
    BY <1>0, <2>3, <2>4, <2>6
  <2>8. NextOf(m) # NoNode
    <3>1. chain[i + 1] \in ArmNodes
      BY <1>0, <2>7
    <3>2. NoNode \notin ArmNodes
      BY DEF ArmNodes, NoNode
    <3>. QED BY <2>7, <3>1, <3>2
  <2>9. pc'[t] = "walk" /\ arm'[t] = [arm[t] EXCEPT !.node = NextOf(m)] /\ op' = op
    BY <1>0, <1>9, <2>4, <2>8 DEF Walk, Beyond, Proceed, Step
  <2>10. arm'[t].turn = arm[t].turn /\ arm'[t].node = chain[i + 1]
    BY <1>0, <2>7, <2>9 DEF Arms
  <2>11. Ahead(arm'[t].node, n, chain)
    BY <2>3, <2>7, <2>10 DEF Ahead
  <2>. QED BY <1>5, <2>9, <2>10, <2>11
<1>10. CASE DeadlinePasses(t) \/ Spurious(t)
  <2>1. /\ pc' = pc /\ op' = op /\ arm'[t].turn = arm[t].turn /\ arm'[t].node = arm[t].node
    BY <1>0, <1>10 DEF DeadlinePasses, Spurious, Arms
  <2>2. Posted(t) \/ pc[t] = "abort" \/ (pc[t] = "walk" /\ Ahead(arm[t].node, n, stack[s]))
    BY DEF Watched
  <2>. QED BY <1>4, <1>5, <2>1, <2>2 DEF Posted
<1>11. CASE \/ Elsewhere(t) \/ PushArm(t, "enrol") \/ Judge(t)
            \/ SelectCall(t, "select_recv", "recv") \/ SelectCall(t, "select_send", "send")
  BY <1>2, <1>11 DEF Elsewhere, PushArm, Judge, SelectCall, At, Engaged, SelectSteps
<1>. QED BY <1>6, <1>7, <1>8, <1>9, <1>10, <1>11 DEF Selecting, SelectStep

LEMMA CleanWaking ==
  ASSUME EndsTyped, Separate, Clean, NEW t \in Threads, Waking(t)
  PROVE  Clean'
<1>0. WaiterTypes(ArmNodes) /\ NodesOK(ArmNodes)
  BY EndpointConstants DEF EndsTyped, EndTypes
<1>1. /\ \A n \in ArmNodes : Allocated(n)' => (n \in aborted <=> n \in aborted')
      /\ \A s \in Stacks : stack'[s] \in {stack[s], <<>>}
  BY <1>0, WakeSeparate DEF Waking
<1>2. UNCHANGED <<pc, arm, op>>
  BY DEF Waking, endVars
<1>. SUFFICES ASSUME NEW s \in Stacks, NEW n \in ToSet(stack'[s])
              PROVE  n \in aborted' \/ (ArmSide(Thread(n))' = s /\ Watched(n)')
  BY DEF Clean
<1>3. stack'[s] = stack[s]
  <2>1. ToSet(<<>>) = {}
    BY DEF ToSet
  <2>. QED BY <1>1, <2>1
<1>4. n \in ToSet(stack[s]) /\ n \in ArmNodes
  BY <1>0, <1>3 DEF ToSet, WaiterTypes
<1>5. n \in aborted <=> n \in aborted'
  <2>1. Allocated(n)'
    BY AllocatedHand
  <2>. QED BY <1>1, <1>4, <2>1
<1>6. ASSUME ArmSide(Thread(n)) = s, Watched(n)
      PROVE  ArmSide(Thread(n))' = s /\ Watched(n)'
  <2>1. ArmSide(Thread(n))' = s
    BY <1>2, <1>6 DEF ArmSide, Thread
  <2>2. stack'[ArmSide(Thread(n))'] = stack[ArmSide(Thread(n))]
    BY <1>3, <1>6, <2>1
  <2>. QED BY <1>2, <1>6, <2>1, <2>2 DEF Watched, Posted, Thread, Round, Ahead
<1>. QED BY <1>4, <1>5, <1>6 DEF Clean

LEMMA CleanStep ==
  ASSUME OneSelects, EndsTyped, Asking, Separate, NewNodes, Clean, NEW m \in Threads, Mild(m),
         Elsewhere(m) \/ Selecting(m)
  PROVE  Clean'
<1>0. /\ WaiterTypes(ArmNodes) /\ DOMAIN pc = Threads /\ stack \in [Stacks -> Seq(ArmNodes)]
      /\ aborted \subseteq aborted'
      /\ \A s \in Stacks : \A n \in ToSet(stack[s]) : n \in ArmNodes
  BY NodesKept DEF EndsTyped, EndTypes, WaiterTypes, ToSet
<1>. SUFFICES ASSUME NEW s \in Stacks, NEW n \in ToSet(stack'[s]), n \notin aborted'
              PROVE  ArmSide(Thread(n))' = s /\ Watched(n)'
  BY DEF Clean
<1>1. ASSUME n \in ToSet(stack[s]), stack'[s] = stack[s]
      PROVE  ArmSide(Thread(n))' = s /\ Watched(n)'
  <2>1. ArmSide(Thread(n)) = s /\ Watched(n) /\ n \in ArmNodes
    BY <1>0, <1>1 DEF Clean
  <2>2. Thread(n) \in Threads /\ pc[Thread(n)] \in Engaged \ {"enrol", "judge"}
    BY <2>1, WatchedEngaged
  <2>3. CASE Thread(n) = m
    <3>1. UNCHANGED stack
      <4>1. pc[m] # "enrol"
        BY <2>2, <2>3
      <4>. QED BY <4>1, NodesWritten DEF PushArm, Walk, At
    <3>2. Watched(n)' /\ op'[m] = op[m]
      BY <1>1, <2>1, <2>3, <3>1, OwnWatched
    <3>. QED BY <2>1, <2>3, <3>2 DEF ArmSide, Thread
  <2>4. CASE Thread(n) # m
    <3>1. PICK u \in Threads : u = Thread(n)
      BY <2>2
    <3>2. arm'[u] = arm[u] /\ pc'[u] = pc[u] /\ op'[u] = op[u]
      BY <2>4, <3>1 DEF Mild
    <3>3. ArmSide(u)' = s /\ ArmSide(u) = s
      BY <2>1, <3>1, <3>2 DEF ArmSide
    <3>4. Thread(n)' = u /\ Round(n)' = Round(n)
      BY <3>1 DEF Thread, Round
    <3>5. Posted(u)' <=> Posted(u)
      BY <3>2 DEF Posted
    <3>6. Watched(n)'
      BY <1>1, <2>1, <3>1, <3>2, <3>3, <3>4, <3>5 DEF Watched, Ahead
    <3>. QED BY <3>1, <3>3, <3>4, <3>6 DEF ArmSide
  <2>. QED BY <2>3, <2>4
<1>2. CASE UNCHANGED stack
  BY <1>1, <1>2
<1>3. CASE PushArm(m, "enrol")
  <2>1. /\ pc[m] = "enrol" /\ PushNode(ArmNode(m), ArmSide(m)) /\ UNCHANGED <<arm, aborted, op>>
        /\ pc'[m] = "probe"
    BY <1>0, <1>3 DEF PushArm, At, Step
  <2>2. ArmSide(m) \in Stacks /\ ArmNode(m) \in ArmNodes /\ arm[m].turn # 0 /\ pc[m] \in Engaged
    BY <2>1, TurnTyped DEF Engaged, SelectSteps
  <2>3. /\ ToSet(stack'[ArmSide(m)]) = {ArmNode(m)} \cup ToSet(stack[ArmSide(m)])
        /\ \A r \in Stacks : r # ArmSide(m) => stack'[r] = stack[r]
    BY <1>0, <2>1, <2>2, PushAdds
  <2>4. CASE s # ArmSide(m)
    BY <1>1, <2>3, <2>4
  <2>5. CASE s = ArmSide(m) /\ n = ArmNode(m)
    <3>1. Thread(n) = m /\ Round(n) = arm[m].turn
      BY <2>5 DEF ArmNode, Thread, Round
    <3>2. Posted(m)' /\ arm'[m].turn = arm[m].turn /\ ArmSide(m)' = s
      BY <2>1, <2>2, <2>5 DEF Posted, ArmSide
    <3>3. Watched(n)'
      BY <3>1, <3>2 DEF Watched, Posted, Thread, Round
    <3>. QED BY <3>1, <3>2, <3>3 DEF ArmSide, Thread
  <2>6. CASE s = ArmSide(m) /\ n # ArmNode(m)
    <3>1. n \in ToSet(stack[s]) /\ n \notin aborted /\ n \in ArmNodes
      BY <1>0, <2>1, <2>3, <2>6
    <3>2. ArmSide(Thread(n)) = s /\ Watched(n)
      BY <3>1 DEF Clean
    <3>3. Thread(n) \in Threads /\ pc[Thread(n)] \in Engaged \ {"enrol", "judge"}
      BY <3>1, <3>2, WatchedEngaged
    <3>4. Thread(n) = m
      BY <2>2, <2>6, <3>2, <3>3, SidesApart
    <3>. QED BY <2>1, <3>3, <3>4
  <2>. QED BY <2>4, <2>5, <2>6
<1>. QED BY <1>2, <1>3, NodesWritten DEF Walk

(* Whoever takes a stack finds the nodes of one turn to choose among.       *)
LEMMA UniformWaking ==
  ASSUME OneSelects, EndsTyped, Asking, Separate, Clean, Uniform, NEW t \in Threads, Waking(t)
  PROVE  Uniform'
<1>0. WaiterTypes(ArmNodes) /\ NodesOK(ArmNodes)
  BY EndpointConstants DEF EndsTyped, EndTypes
<1>1. ASSUME NEW s \in Stacks
      PROVE  SameTurn({n \in ToSet(stack[s]) : n \notin aborted})
  <2>. SUFFICES ASSUME NEW m \in ToSet(stack[s]), m \notin aborted,
                       NEW n \in ToSet(stack[s]), n \notin aborted
                PROVE  Thread(m) = Thread(n) /\ Round(m) = Round(n)
    BY DEF SameTurn
  <2>1. m \in ArmNodes /\ n \in ArmNodes
    BY <1>0 DEF ToSet, WaiterTypes
  <2>2. Watched(m) /\ Watched(n) /\ ArmSide(Thread(m)) = s /\ ArmSide(Thread(n)) = s
    BY DEF Clean
  <2>3. Thread(m) = Thread(n)
    BY <2>1, <2>2, WatchedEngaged, SidesApart
  <2>. QED BY <2>2, <2>3 DEF Watched
<1>. QED BY <1>0, <1>1, UniformWake DEF Waking

(* Where a turn stands: its node is on the stack until it is taken for it,  *)
(* and nothing it waits for has come unnoticed since its second look.       *)
Linger(t) == ArmNode(t) \in ToSet(stack[ArmSide(t)]) \ aborted
AlertOf(t) ==
  /\ Posted(t) => Linger(t) \/ Coming(t, arm[t].turn)
  /\ Posted(t) /\ pc[t] # "probe" /\ Counterpart(t) => Coming(t, arm[t].turn)
  /\ pc[t] \in {"decide", "sleep"} /\ OtherSide(t) = {} =>
       Coming(t, arm[t].turn) \/ \E u \in Threads : Dropping(u)
  /\ pc[t] = "sleep" => Won(t) = Unselected \/ permit[t]
Alert == \A t \in Threads : AlertOf(t)

LEMMA PostedTurn ==
  ASSUME EndsTyped, Asking, Handles, NEW t \in Threads, Posted(t)
  PROVE  /\ op[t] \in Selects /\ arm[t].turn \in Rounds /\ arm[t].turn # 0
         /\ ArmNode(t) \in ArmNodes /\ ArmSide(t) \in Stacks
         /\ pc[t] \in {"probe", "probe_more", "decide", "sleep"}
         /\ op[t] = "select_recv" => Receivers # {}
<1>1. pc[t] \in Engaged /\ pc[t] \in {"probe", "probe_more", "decide", "sleep"}
  BY DEF Posted, Engaged, SelectSteps
<1>2. arm[t].turn # 0
  BY <1>1, TurnTyped DEF Posted
<1>3. op[t] = "select_recv" => "recv" \in held[t]
  BY DEF Handles, HandlesOf
<1>. QED BY <1>1, <1>2, <1>3, TurnTyped DEF Receivers

(* Nobody drains a stack a select call has its node on.                     *)
LEMMA AlertWaking ==
  ASSUME Handles, EndsTyped, Asking, Dry, Separate, Uniform, Clean, NEW t \in Threads, Waking(t),
         NEW u \in Threads, AlertOf(u)
  PROVE  AlertOf(u)'
<1>0. /\ UNCHANGED <<pc, arm, op, held, top, waiting>> /\ WakeStep(t)
      /\ WaiterTypes(ArmNodes) /\ NodesOK(ArmNodes)
  <2>1. WakeStep(t) => UNCHANGED waiting
    BY DEF WakeStep, SnapshotOne, SnapshotAll, UnparkNext, SwapStack, VisitNode, ElectNode
  <2>. QED BY <2>1, EndpointConstants DEF Waking, endVars, rendezvousVars, stackVars, EndsTyped, EndTypes
<1>1. /\ Posted(u)' <=> Posted(u)
      /\ Counterpart(u)' <=> Counterpart(u)
      /\ OtherSide(u)' = OtherSide(u)
      /\ ArmNode(u)' = ArmNode(u) /\ ArmSide(u)' = ArmSide(u)
      /\ \A v \in Threads : Dropping(v)' <=> Dropping(v)
  BY <1>0 DEF Posted, Counterpart, OtherSide, Senders, Receivers, ArmNode, ArmSide, Dropping
<1>. SUFFICES ASSUME Posted(u)
              PROVE  AlertOf(u)'
  BY <1>1 DEF AlertOf, Posted
<1>2. PICK r \in Rounds : r = arm[u].turn
  BY PostedTurn
<1>3. PICK s \in Stacks : s = ArmSide(u)
  BY PostedTurn
<1>4. PICK n \in ArmNodes : n = ArmNode(u)
  BY PostedTurn
<1>5. Head(calls[t]).op = "drain" => \A x \in ToSet(stack[Head(calls[t]).on]) : ~OfTurn(x, u, r)
  <2>. SUFFICES ASSUME Head(calls[t]).op = "drain", NEW x \in ToSet(stack[Head(calls[t]).on]), OfTurn(x, u, r)
                PROVE  FALSE
    OBVIOUS
  <2>1. Head(calls[t]) \in ToSet(calls[t])
    BY <1>0, WakeStepCall
  <2>2. Head(calls[t]).on = "recv" /\ Receivers = {}
    BY <2>1 DEF Dry
  <2>3. ArmSide(u) = "recv"
    BY <2>2, EndpointConstants DEF OfTurn, Clean
  <2>4. op[u] = "select_recv"
    BY <2>3, PostedTurn DEF ArmSide, Selects
  <2>. QED BY <2>2, <2>4, PostedTurn
<1>6. \A x \in ArmNodes : Arm(x) # Unselected
  BY DEF ArmNodes, Arm, Unselected
<1>7. /\ Coming(u, r) => Coming(u, r)'
      /\ \A z \in Stacks : \A x \in ToSet(stack[z]) :
           OfTurn(x, u, r) => (x \in ToSet(stack'[z]) /\ x \notin aborted') \/ Coming(u, r)'
  BY <1>0, <1>5, <1>6, ComingWake
<1>8. Linger(u) => Linger(u)' \/ Coming(u, r)'
  <2>. SUFFICES ASSUME Linger(u) PROVE Linger(u)' \/ Coming(u, r)'
    OBVIOUS
  <2>1. n \in ToSet(stack[s]) /\ n \notin aborted
    BY <1>3, <1>4 DEF Linger
  <2>2. OfTurn(n, u, r)
    BY <1>2, <1>4, <2>1 DEF OfTurn, ArmNode, Thread, Round
  <2>3. (n \in ToSet(stack'[s]) /\ n \notin aborted') \/ Coming(u, r)'
    BY <1>7, <2>1, <2>2
  <2>. QED BY <1>1, <1>3, <1>4, <2>3 DEF Linger
<1>9. pc[u] = "sleep" => Won(u)' = Unselected \/ permit'[u]
  <2>1. /\ permit[u] => permit'[u]
        /\ selected'[u][r] = selected[u][r] \/ permit'[u]
    BY <1>0, WakePermits
  <2>2. Won(u) = selected[u][r] /\ Won(u)' = selected'[u][r]
    BY <1>0, <1>2 DEF Won
  <2>. QED BY <2>1, <2>2 DEF AlertOf
<1>10. arm'[u].turn = r /\ (pc'[u] = pc[u])
  BY <1>0, <1>2
<1>. QED BY <1>1, <1>2, <1>7, <1>8, <1>9, <1>10 DEF AlertOf

LEMMA SelectingTidings ==
  ASSUME Handles, EndsTyped, NEW m \in Threads, Selecting(m)
  PROVE  Tidings(m)
<1>0. DOMAIN pc = Threads
  BY DEF EndsTyped, EndTypes
<1>1. Dropping(m)' <=> Dropping(m)
  <2>1. CASE DeadlinePasses(m) \/ Spurious(m)
    BY <2>1 DEF DeadlinePasses, Spurious, Dropping
  <2>2. CASE \/ SelectCall(m, "select_recv", "recv") \/ SelectCall(m, "select_send", "send")
             \/ PushArm(m, "enrol")
    BY <1>0, <2>2 DEF SelectCall, PushArm, Step, Dropping, At
  <2>3. CASE SelectStep(m)
    BY <1>0, <2>3, SelectOuter DEF Outer, SelectSteps, Dropping
  <2>4. CASE Probe(m) \/ ProbeOtherSide(m)
    BY <1>0, <2>4, ProbeOuter DEF Outer, SelectSteps, Dropping
  <2>. QED BY <2>1, <2>2, <2>3, <2>4 DEF Selecting
<1>. QED BY <1>1, NoTidings DEF Selecting

(* A call to choose among the nodes of a side reaches a turn that has its   *)
(* node there.                                                              *)
LEMMA CallReaches ==
  ASSUME NEW m \in Threads, NEW s \in Stacks,
         SelectOne(s) \in ToSet(calls'[m]) \/ SelectAll(s) \in ToSet(calls'[m]),
         NEW n \in ToSet(stack'[s]), NEW u, NEW r, Thread(n) = u, Round(n) = r, n \notin aborted'
  PROVE  Coming(u, r)'
<1>1. PICK call \in ToSet(calls'[m]) : call.op \in Choice /\ call.on = s
  BY DEF SelectOne, SelectAll, Choice
<1>2. OfTurn(n, u, r)' /\ n \in ToSet(stack'[call.on])
  BY <1>1 DEF OfTurn, Thread, Round
<1>. QED BY <1>1, <1>2 DEF Coming, Called

(* What a step that is not part of a wake call leaves of a turn.            *)
LEMMA TurnLasts ==
  ASSUME Handles, EndsTyped, Asking, Dry, Separate, NewNodes, NEW m \in Threads, Mild(m),
         Elsewhere(m) \/ Selecting(m),
         NEW u \in Threads, Posted(u), AlertOf(u), op'[u] = op[u], arm'[u].turn = arm[u].turn,
         permit[u] => permit'[u],
         selected'[u][arm[u].turn] = selected[u][arm[u].turn]
  PROVE  \A r : r = arm[u].turn =>
           /\ Coming(u, r) => Coming(u, r)'
           /\ Linger(u)' \/ Coming(u, r)'
           /\ Counterpart(u)' => Counterpart(u) \/ Coming(u, r)'
           /\ OtherSide(u)' = {} => \/ OtherSide(u) = {} /\ ~\E v \in Threads : Dropping(v)
                                    \/ Coming(u, r)' \/ \E v \in Threads : Dropping(v)'
<1>0. /\ WaiterTypes(ArmNodes) /\ Tidings(m) /\ pc[u] # "walk"
      /\ \A v \in Threads \ {m} : pc'[v] = pc[v]
  BY SelectingTidings, PostedTurn DEF Elsewhere, EndsTyped, EndTypes, Mild
<1>1. PICK r \in Rounds : r = arm[u].turn
  BY PostedTurn
<1>2. PICK s \in Stacks : s = ArmSide(u)
  BY PostedTurn
<1>3. PICK n \in ArmNodes : n = ArmNode(u)
  BY PostedTurn
<1>4. Thread(n) = u /\ Round(n) = r
  BY <1>1, <1>3 DEF ArmNode, Thread, Round
<1>5. \A x : Thread(x) = u /\ x \notin aborted => x \notin aborted'
  BY <1>0, NodesKept
<1>6. Coming(u, r) => Coming(u, r)'
  <2>1. \A x : OfTurn(x, u, r) => x \notin aborted'
    BY <1>5 DEF OfTurn
  <2>2. selected[u][r] # Unselected => selected'[u][r] # Unselected
    BY <1>1
  <2>. QED BY <1>0, <2>1, <2>2, NodesKept, ComingAside
<1>7. (n \in ToSet(stack'[s]) /\ n \notin aborted') \/ Coming(u, r)'
  <2>1. Linger(u) \/ Coming(u, r)
    BY <1>1 DEF AlertOf
  <2>2. Linger(u) => n \in ToSet(stack[s]) /\ n \notin aborted
    BY <1>2, <1>3 DEF Linger
  <2>. QED BY <1>4, <1>5, <1>6, <2>1, <2>2, NodesKept
<1>8. Linger(u)' \/ Coming(u, r)'
  <2>1. ArmNode(u)' = n /\ ArmSide(u)' = s
    BY <1>2, <1>3 DEF ArmNode, ArmSide
  <2>. QED BY <1>7, <2>1 DEF Linger
<1>9. ASSUME SelectOne(s) \in ToSet(calls'[m]) \/ SelectAll(s) \in ToSet(calls'[m])
      PROVE  Coming(u, r)'
  BY <1>4, <1>7, <1>9, CallReaches
<1>10. op[u] \in Selects /\ (op[u] = "select_recv" => s = "recv") /\ (op[u] = "select_send" => s = "send")
  BY <1>2, PostedTurn DEF ArmSide, Selects
<1>11. Counterpart(u)' => Counterpart(u) \/ Coming(u, r)'
  <2>1. CASE op[u] = "select_recv"
    <3>1. (Counterpart(u)' <=> top' # Null) /\ (Counterpart(u) <=> top # Null)
      BY <2>1 DEF Counterpart
    <3>. QED BY <1>0, <1>9, <1>10, <2>1, <3>1 DEF Tidings
  <2>2. CASE op[u] = "select_send"
    <3>1. (Counterpart(u)' <=> waiting'["recv"] # <<>>) /\ (Counterpart(u) <=> waiting["recv"] # <<>>)
      BY <2>2 DEF Counterpart
    <3>. QED BY <1>0, <1>9, <1>10, <2>2, <3>1 DEF Tidings
  <2>. QED BY <1>10, <2>1, <2>2 DEF Selects
<1>12. OtherSide(u)' = {} => \/ OtherSide(u) = {} /\ ~\E v \in Threads : Dropping(v)
                             \/ Coming(u, r)' \/ \E v \in Threads : Dropping(v)'
  <2>1. CASE op[u] = "select_recv"
    <3>1. OtherSide(u)' = Senders' /\ OtherSide(u) = Senders
      BY <2>1 DEF OtherSide
    <3>2. ~\E v \in Threads : Dropping(v)
      BY <2>1, PostedTurn DEF Dry
    <3>. QED BY <1>0, <1>9, <1>10, <2>1, <3>1, <3>2 DEF Tidings
  <2>2. CASE op[u] = "select_send"
    <3>1. OtherSide(u)' = Receivers' /\ OtherSide(u) = Receivers
      BY <2>2 DEF OtherSide
    <3>2. ASSUME NEW v \in Threads, Dropping(v)
          PROVE  Coming(u, r)' \/ \E w \in Threads : Dropping(w)'
      <4>1. CASE v = m
        BY <1>0, <1>9, <1>10, <2>2, <3>2, <4>1 DEF Tidings
      <4>2. CASE v # m
        BY <1>0, <3>2, <4>2 DEF Dropping
      <4>. QED BY <4>1, <4>2
    <3>3. Receivers' = {} => Receivers = {} \/ Dropping(m)'
      BY <1>0 DEF Tidings
    <3>. QED BY <3>1, <3>2, <3>3
  <2>. QED BY <1>10, <2>1, <2>2 DEF Selects
<1>. QED BY <1>1, <1>6, <1>8, <1>11, <1>12

(* A turn its thread does not move ...                                      *)
LEMMA AlertStays ==
  ASSUME Handles, EndsTyped, Asking, Dry, Separate, NewNodes, NEW m \in Threads, Mild(m),
         Elsewhere(m) \/ Selecting(m),
         NEW u \in Threads, AlertOf(u), pc'[u] = pc[u], op'[u] = op[u], arm'[u].turn = arm[u].turn,
         permit[u] => permit'[u],
         selected'[u][arm[u].turn] = selected[u][arm[u].turn]
  PROVE  AlertOf(u)'
<1>1. Posted(u)' <=> Posted(u)
  BY DEF Posted
<1>. SUFFICES ASSUME Posted(u)
              PROVE  AlertOf(u)'
  BY <1>1 DEF AlertOf, Posted
<1>2. PICK r \in Rounds : r = arm[u].turn
  BY PostedTurn
<1>3. /\ Coming(u, r) => Coming(u, r)'
      /\ Linger(u)' \/ Coming(u, r)'
      /\ Counterpart(u)' => Counterpart(u) \/ Coming(u, r)'
      /\ OtherSide(u)' = {} => \/ OtherSide(u) = {} /\ ~\E v \in Threads : Dropping(v)
                               \/ Coming(u, r)' \/ \E v \in Threads : Dropping(v)'
  BY <1>2, TurnLasts
<1>4. /\ pc[u] # "probe" /\ Counterpart(u) => Coming(u, r)
      /\ pc[u] \in {"decide", "sleep"} /\ OtherSide(u) = {} =>
           Coming(u, r) \/ \E v \in Threads : Dropping(v)
  BY <1>2 DEF AlertOf
<1>5. pc[u] = "sleep" => Won(u)' = Unselected \/ permit'[u]
  <2>1. Won(u)' = Won(u)
    BY DEF Won
  <2>. QED BY <2>1 DEF AlertOf
<1>6. arm'[u].turn = r
  BY <1>2
<1>. QED BY <1>3, <1>4, <1>5, <1>6 DEF AlertOf

LEMMA AlertOther ==
  ASSUME Handles, EndsTyped, Asking, Dry, Separate, NewNodes, NEW m \in Threads, Mild(m),
         Elsewhere(m) \/ Selecting(m), NEW u \in Threads \ {m}, AlertOf(u)
  PROVE  AlertOf(u)'
<1>1. /\ pc'[u] = pc[u] /\ op'[u] = op[u] /\ arm'[u] = arm[u]
      /\ permit[u] => permit'[u]
      /\ selected'[u] = selected[u]
  BY DEF Mild, Steady
<1>. QED BY <1>1, AlertStays

(* ... one its thread goes on with, ...                                     *)
LEMMA AlertGoesOn ==
  ASSUME Handles, EndsTyped, Asking, Dry, Separate, NewNodes, NEW m \in Threads, Mild(m), Selecting(m),
         AlertOf(m), op'[m] = op[m], arm'[m].turn = arm[m].turn, permit[m] => permit'[m], Posted(m),
         \/ /\ pc'[m] = "probe_more" /\ ~Counterpart(m)'
            /\ selected'[m][arm[m].turn] = selected[m][arm[m].turn]
         \/ /\ pc[m] = "probe_more" /\ pc'[m] = "decide" /\ OtherSide(m)' # {}
            /\ selected'[m][arm[m].turn] = selected[m][arm[m].turn]
         \/ /\ pc[m] = "decide" /\ pc'[m] = "sleep" /\ Won(m)' = Unselected
            /\ selected'[m][arm[m].turn] = selected[m][arm[m].turn]
         \/ /\ pc'[m] = "decide" /\ selected'[m][arm[m].turn] # Unselected
  PROVE  AlertOf(m)'
<1>1. PICK r \in Rounds : r = arm[m].turn
  BY PostedTurn
<1>2. arm'[m].turn = r
  BY <1>1
<1>3. ASSUME selected'[m][r] # Unselected, pc'[m] = "decide"
      PROVE  AlertOf(m)'
  <2>1. Coming(m, r)'
    BY <1>3 DEF Coming
  <2>. QED BY <1>2, <1>3, <2>1 DEF AlertOf
<1>4. ASSUME selected'[m][arm[m].turn] = selected[m][arm[m].turn],
             \/ pc'[m] = "probe_more" /\ ~Counterpart(m)'
             \/ pc[m] = "probe_more" /\ pc'[m] = "decide" /\ OtherSide(m)' # {}
             \/ pc[m] = "decide" /\ pc'[m] = "sleep" /\ Won(m)' = Unselected
      PROVE  AlertOf(m)'
  <2>1. /\ Coming(m, r) => Coming(m, r)'
        /\ Linger(m)' \/ Coming(m, r)'
        /\ Counterpart(m)' => Counterpart(m) \/ Coming(m, r)'
        /\ OtherSide(m)' = {} => \/ OtherSide(m) = {} /\ ~\E v \in Threads : Dropping(v)
                                 \/ Coming(m, r)' \/ \E v \in Threads : Dropping(v)'
    BY <1>1, <1>4, TurnLasts
  <2>2. /\ pc[m] # "probe" /\ Counterpart(m) => Coming(m, r)
        /\ pc[m] \in {"decide", "sleep"} /\ OtherSide(m) = {} =>
             Coming(m, r) \/ \E v \in Threads : Dropping(v)
    BY <1>1 DEF AlertOf
  <2>. QED BY <1>2, <1>4, <2>1, <2>2 DEF AlertOf
<1>. QED BY <1>1, <1>3, <1>4

(* ... and one it begins or ends.                                           *)
LEMMA AlertOwn ==
  ASSUME Handles, EndsTyped, Asking, Dry, Separate, NewNodes, NEW m \in Threads, Mild(m),
         Elsewhere(m) \/ Selecting(m), AlertOf(m)
  PROVE  AlertOf(m)'
<1>0. /\ DOMAIN pc = Threads /\ arm \in [Threads -> Arms] /\ WaiterTypes(ArmNodes)
      /\ selected \in [Threads -> [Rounds -> Nat]]
  BY DEF EndsTyped, EndTypes, WaiterTypes
<1>1. ASSUME ~Posted(m)'
      PROVE  AlertOf(m)'
  BY <1>1 DEF AlertOf, Posted
<1>2. CASE Elsewhere(m)
  BY <1>1, <1>2 DEF Elsewhere, Posted, Engaged, SelectSteps
<1>3. ASSUME DeadlinePasses(m) \/ Spurious(m), Selecting(m)
      PROVE  AlertOf(m)'
  <2>1. /\ pc' = pc /\ op' = op /\ arm'[m].turn = arm[m].turn /\ selected' = selected
    BY <1>0, <1>3 DEF DeadlinePasses, Spurious, Arms, waiterVars
  <2>2. permit[m] => permit'[m]
    BY <1>3 DEF DeadlinePasses, Spurious, waiterVars
  <2>. QED BY <1>3, <2>1, <2>2, AlertStays
<1>4. CASE SelectCall(m, "select_recv", "recv") \/ SelectCall(m, "select_send", "send")
  <2>1. pc[m] = "idle" /\ arm'[m].turn = arm[m].turn /\ pc'[m] = "probe"
    BY <1>0, <1>4 DEF SelectCall, At, Arms
  <2>2. arm[m].turn = 0
    BY <2>1 DEF Asking, AskingOf, Engaged, SelectSteps
  <2>. QED BY <1>1, <2>1, <2>2 DEF Posted
<1>5. ASSUME Probe(m) \/ ProbeOtherSide(m), arm[m].turn = 0
      PROVE  AlertOf(m)'
  <2>1. CASE Step(m, "probe_more") /\ UNCHANGED arm
    <3>1. pc'[m] = "probe_more" /\ arm'[m].turn = 0
      BY <1>0, <1>5, <2>1 DEF Step
    <3>. QED BY <1>1, <3>1 DEF Posted
  <2>2. CASE ArmReady(m) \/ ArmNotReady(m)
    <3>1. pc'[m] \in {"complete", "idle", "enrol"}
      BY <1>0, <1>5, <2>2 DEF ArmReady, ArmNotReady, CompleteArm, TakeDefault, Proceed, Step, Finish
    <3>. QED BY <1>1, <3>1 DEF Posted
  <2>. QED BY <1>5, <2>1, <2>2 DEF Probe, ProbeOtherSide
<1>6. ASSUME Probe(m) \/ ProbeOtherSide(m), arm[m].turn # 0, Selecting(m)
      PROVE  AlertOf(m)'
  <2>0. /\ pc[m] \in {"probe", "probe_more"} /\ UNCHANGED <<held, top, waiting, permit>>
        /\ Posted(m) /\ arm[m].turn \in Rounds
    <3>1. /\ pc[m] \in {"probe", "probe_more"} /\ UNCHANGED <<held, top, waiting, permit>>
      BY <1>6 DEF Probe, ProbeOtherSide, At, probeVars, rendezvousVars, stackVars
    <3>2. Posted(m)
      BY <1>6, <3>1 DEF Posted
    <3>. QED BY <3>1, <3>2, PostedTurn
  <2>1. CASE ArmReady(m)
    <3>1. /\ pc'[m] = "decide" /\ op' = op /\ arm'[m] = arm[m]
          /\ selected' = [selected EXCEPT ![m][arm[m].turn] = 1]
      BY <1>0, <1>6, <2>1 DEF ArmReady, Proceed, Step
    <3>2. selected'[m][arm[m].turn] # Unselected
      BY <1>0, <2>0, <3>1 DEF Unselected
    <3>. QED BY <1>6, <2>0, <3>1, <3>2, AlertGoesOn
  <2>2. CASE Probe(m) /\ ~Counterpart(m)
    <3>1. pc'[m] = "probe_more" /\ op' = op /\ UNCHANGED <<arm, selected>>
      BY <1>0, <2>2 DEF Probe, Step
    <3>2. ~Counterpart(m)'
      BY <2>0, <2>2, <3>1 DEF Counterpart
    <3>. QED BY <1>6, <2>0, <3>1, <3>2, AlertGoesOn
  <2>3. CASE ProbeOtherSide(m) /\ OtherSide(m) # {}
    <3>1. pc[m] = "probe_more" /\ pc'[m] = "decide" /\ op' = op /\ arm'[m] = arm[m] /\ selected' = selected
      BY <1>0, <1>6, <2>3 DEF ProbeOtherSide, At, ArmNotReady, Proceed, Step
    <3>2. OtherSide(m)' = OtherSide(m)
      BY <2>0, <3>1 DEF OtherSide, Senders, Receivers
    <3>. QED BY <1>6, <2>0, <2>3, <3>1, <3>2, AlertGoesOn
  <2>. QED BY <1>6, <2>1, <2>2, <2>3 DEF Probe, ProbeOtherSide
<1>7. CASE PushArm(m, "enrol")
  <2>1. /\ pc[m] = "enrol" /\ PushNode(ArmNode(m), ArmSide(m)) /\ UNCHANGED <<arm, op, aborted>>
        /\ pc'[m] = "probe"
    BY <1>0, <1>7 DEF PushArm, At, Step
  <2>2. ArmSide(m) \in Stacks /\ ArmNode(m) \in ArmNodes
    BY <2>1, TurnTyped DEF Engaged, SelectSteps
  <2>3. ArmNode(m) \in ToSet(stack'[ArmSide(m)])
    <3>1. ToSet(stack'[ArmSide(m)]) = {ArmNode(m)} \cup ToSet(stack[ArmSide(m)])
      BY <1>0, <2>1, <2>2, PushAdds
    <3>. QED BY <3>1
  <2>4. ArmNode(m) \notin aborted
    BY <2>1 DEF NewNodes, EndsTyped, AbortedExist
  <2>5. ArmNode(m)' = ArmNode(m) /\ ArmSide(m)' = ArmSide(m)
    BY <2>1 DEF ArmNode, ArmSide
  <2>6. Linger(m)'
    BY <2>1, <2>3, <2>4, <2>5 DEF Linger
  <2>. QED BY <2>1, <2>6 DEF AlertOf
<1>8. ASSUME Decide(m), Selecting(m)
      PROVE  AlertOf(m)'
  <2>1. /\ pc[m] = "decide" /\ UNCHANGED <<permit, selected, arm, op>>
        /\ pc'[m] = IF Won(m) = Unselected THEN "sleep" ELSE "abort"
    BY <1>0, <1>8 DEF Decide, At, Step, localVars, quietVars
  <2>2. CASE Won(m) = Unselected
    <3>1. Won(m)' = Unselected /\ Posted(m)
      BY <2>1, <2>2 DEF Won, Posted
    <3>. QED BY <1>8, <2>1, <2>2, <3>1, AlertGoesOn
  <2>3. CASE Won(m) # Unselected
    BY <1>1, <2>1, <2>3 DEF Posted
  <2>. QED BY <2>2, <2>3
<1>9. CASE WakeUp(m) \/ AbortLoad(m) \/ Walk(m)
  <2>1. pc'[m] \in {"abort", "judge", "walk"}
    BY <1>0, <1>9 DEF WakeUp, AbortLoad, Walk, Proceed, Step
  <2>. QED BY <1>1, <2>1 DEF Posted
<1>10. CASE Judge(m)
  <2>1. pc'[m] \in {"complete", "idle"} \/ (pc'[m] = "probe" /\ arm'[m].turn = 0)
    BY <1>0, <1>10 DEF Judge, CompleteArm, TakeDefault, Proceed, Step, Finish, Arms
  <2>. QED BY <1>1, <2>1 DEF Posted
<1>. QED BY <1>2, <1>3, <1>4, <1>5, <1>6, <1>7, <1>8, <1>9, <1>10 DEF Selecting, SelectStep

-----------------------------------------------------------------------------
Turns == Asking /\ Dry /\ Separate /\ NewNodes /\ Clean /\ Uniform /\ Alert

LEMMA TurnsInitial ==
  ASSUME Init
  PROVE  Turns
<1>1. /\ Stacks = {"recv", "send"} /\ 0 \notin Rounds
      /\ stack["recv"] = <<>> /\ stack["send"] = <<>>
      /\ \A t \in Threads : /\ calls[t] = <<>> /\ op[t] = "none" /\ pc[t] \in {"idle", "unborn"}
                            /\ arm[t] = NoArm
  BY EndpointConstants DEF Init, WaiterInit, EndpointInit
<1>2. ToSet(<<>>) = {} /\ Once(<<>>)
  BY DEF ToSet, Once
<1>3. \A t \in Threads : Hand(t) = <<>>
  BY <1>1 DEF Hand, Calling
<1>4. Asking /\ Dry
  BY <1>1, <1>2 DEF Asking, AskingOf, Dry, Dropping, Selects, Engaged, SelectSteps, NoArm
<1>5. Separate /\ Uniform
  BY <1>1, <1>2, <1>3 DEF Separate, Ordered, Uniform, Choosing
<1>6. Clean /\ NewNodes /\ Alert
  BY <1>1, <1>2 DEF Clean, NewNodes, Alert, AlertOf, Posted
<1>. QED BY <1>4, <1>5, <1>6 DEF Turns

LEMMA TurnsStep ==
  ASSUME OneSelects, Handles, EndsTyped, Unborn, Turns, NEW t \in Threads,
         RendezvousStep(t) \/ RendezvousChance(t)
  PROVE  Turns'
<1>0. Asking /\ Dry /\ Separate /\ NewNodes /\ Clean /\ Uniform /\ Alert
  BY DEF Turns
<1>1. CASE Waking(t)
  <2>1. Asking'
    BY <1>0, <1>1 DEF Asking, AskingOf, Waking, endVars
  <2>2. Separate'
    <3>1. WaiterTypes(ArmNodes) /\ NodesOK(ArmNodes) /\ WakeStep(t)
      BY <1>1, EndpointConstants DEF EndsTyped, EndTypes, Waking
    <3>. QED BY <1>0, <3>1, WakeSeparate
  <2>3. Dry' /\ NewNodes' /\ Clean' /\ Uniform'
    BY <1>0, <1>1, DryWaking, NewNodesWaking, CleanWaking, UniformWaking
  <2>4. Alert'
    BY <1>0, <1>1, AlertWaking DEF Alert
  <2>. QED BY <2>1, <2>2, <2>3, <2>4 DEF Turns
<1>2. ASSUME NEW m \in Threads, Mild(m), Elsewhere(m) \/ Selecting(m)
      PROVE  Turns'
  <2>1. Asking' /\ Dry' /\ NewNodes' /\ Clean'
    BY <1>0, <1>2, AskingStep, DryStep, NewNodesStep, CleanStep
  <2>2. Separate' /\ Uniform'
    BY <1>0, <1>2, NodesKept, UniformAside
  <2>3. Alert'
    BY <1>0, <1>2, AlertOwn, AlertOther DEF Alert
  <2>. QED BY <2>1, <2>2, <2>3 DEF Turns
<1>. QED BY <1>1, <1>2, StepKinds

LEMMA TurnsStutter ==
  ASSUME Turns, UNCHANGED vars
  PROVE  Turns'
<1>1. UNCHANGED <<permit, waiting, stack, aborted, selected, calls, program, held, pc, op, arm, top>>
  BY DEF vars, waiterVars, endVars, rendezvousVars, stackVars
<1>2. Asking' /\ Dry'
  BY <1>1 DEF Turns, Asking, AskingOf, Dry, Dropping, Receivers
<1>3. Separate' /\ Uniform'
  BY <1>1 DEF Turns, Separate, Ordered, Uniform, Choosing, Wanted, Hand, Calling
<1>4. Clean' /\ NewNodes'
  BY <1>1 DEF Turns, Clean, Watched, Posted, Ahead, NewNodes, Allocated, Chains, Drainers, Calling,
              ArmNode, ArmSide, Thread, Round
<1>5. \A t : \A r : Coming(t, r)' = Coming(t, r)
  BY <1>1 DEF Coming, Called, Chosen, Choosing, Hand, Calling, OfTurn, Thread, Round
<1>6. \A t \in Threads : /\ Linger(t)' = Linger(t) /\ Counterpart(t)' = Counterpart(t)
                         /\ OtherSide(t)' = OtherSide(t) /\ Dropping(t)' = Dropping(t)
  BY <1>1 DEF Linger, ArmNode, ArmSide, Counterpart, OtherSide, Senders, Receivers, Dropping
<1>7. Alert'
  BY <1>1, <1>5, <1>6 DEF Turns, Alert, AlertOf, Posted, Won
<1>. QED BY <1>2, <1>3, <1>4, <1>7 DEF Turns

(* Whoever comes for the turn is a waker.                                   *)
LEMMA ComingWakes ==
  ASSUME EndsTyped, NEW t \in Threads, Coming(t, arm[t].turn), Won(t) = Unselected, ~permit[t]
  PROVE  \E u \in Threads : WillSelect(u, t)
<1>. DEFINE r == arm[t].turn
<1>1. \A n : OfTurn(n, t, r) <=> Current(n, t)
  BY DEF OfTurn, Current
<1>2. ASSUME NEW u \in Threads, NEW call \in ToSet(calls[u]), call.op \in Choice,
             NEW n \in ToSet(stack[call.on]), OfTurn(n, t, r)
      PROVE  WillSelect(u, t)
  <2>1. PICK i \in DOMAIN calls[u] : calls[u][i] = call
    BY DEF ToSet
  <2>. QED BY <1>1, <1>2, <2>1 DEF WillSelect, Choice
<1>3. ASSUME NEW u \in Threads, Choosing(u), NEW n \in ToSet(Hand(u)), OfTurn(n, t, r)
      PROVE  WillSelect(u, t)
  <2>1. calls[u] # <<>> /\ Head(calls[u]).op \in {"visit", "elect"} /\ Hand(u) = Head(calls[u]).todo
    BY <1>3 DEF Choosing, Hand, Calling
  <2>2. calls[u] \in Seq(WakeCalls(ArmNodes))
    BY DEF EndsTyped, EndTypes, WaiterTypes
  <2>3. 1 \in DOMAIN calls[u] /\ Head(calls[u]) = calls[u][1]
    BY <2>1, <2>2
  <2>4. Head(calls[u]).mode \in {"select_one", "select_all"}
    BY <1>3 DEF Choosing, Choice
  <2>. QED BY <1>1, <1>3, <2>1, <2>3, <2>4 DEF WillSelect
<1>. QED BY <1>2, <1>3 DEF Coming, Called, Chosen, Won

LEMMA AlertHears ==
  ASSUME EndsTyped, NEW t \in Threads, AlertOf(t), ~permit[t]
  PROVE  SelectHears(t)
<1>. SUFFICES ASSUME pc[t] = "sleep", ArmDue(t)
              PROVE  \E u \in Threads : WillSelect(u, t) \/ Dropping(u)
  BY DEF SelectHears
<1>1. Coming(t, arm[t].turn) \/ \E u \in Threads : Dropping(u)
  BY DEF AlertOf, ArmDue, Posted
<1>2. Won(t) = Unselected
  BY DEF AlertOf
<1>. QED BY <1>1, <1>2, ComingWakes

(* Where one thread at most selects on each side, neither misses its        *)
(* counterpart, nor the last handle of the other side: a waker that takes   *)
(* the stack for one of its nodes chooses among those of that thread's turn *)
(* only.  A receiver, a sender and a select call that wait then miss        *)
(* nothing, as long as no walk over the stack of senders goes astray.       *)
THEOREM RendezvousLosesNoWakeup ==
  ASSUME OneSelects
  PROVE  Spec => []NoLostWakeup
<1>. DEFINE Known == StackInv /\ EndsTyped /\ Counted /\ HearsInv
<1>1. Init => Known /\ Turns
  BY StackInit, TypedInitial, HearsInitial, TurnsInitial
<1>2. Known /\ [Next]_vars => Known'
  BY StackStep, TypedInductive, HearsStep DEF StackInv
<1>3. Known /\ Turns /\ [Next]_vars => Turns'
  BY TurnsStep, TurnsStutter DEF StackInv, HearsInv, Next, Over
<1>4. EndsTyped /\ Turns => \A t \in Threads : ~permit[t] => SelectHears(t)
  BY AlertHears DEF Turns, Alert
<1>5. /\ (\A t \in Threads : ~permit[t] => ReceiverHears(t))
      /\ (~astray => \A t \in Threads : ~permit[t] => SenderHears(t))
      /\ (\A t \in Threads : ~permit[t] => SelectHears(t))
      => NoLostWakeup
  BY DEF NoLostWakeup
<1>6. Spec => []Known
  BY <1>1, <1>2, PTL DEF Spec
<1>7. Spec => []Turns
  BY <1>1, <1>3, <1>6, PTL DEF Spec
<1>. QED BY <1>4, <1>5, <1>6, <1>7, RendezvousReceiversHear, RendezvousSendersHear, PTL
=============================================================================
