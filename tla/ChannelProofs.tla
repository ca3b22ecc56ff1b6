---------------------------- MODULE ChannelProofs ----------------------------
(***************************************************************************)
(* Proofs about QueueChannel for any threads, channels and bounds: its     *)
(* types, with the window of the queue; that the waiter lists hold exactly *)
(* the receives that are registered; and that an mpsc channel of either    *)
(* kind loses no wake-up.  (An mpmc channel does: see MCChannelMpmc.)      *)
(* Then about Select on these channels: the types of select_impl's local   *)
(* variables, that a call leaves no node behind that is not aborted, and,  *)
(* for programs that are Alone, that none sleeps on an arm that is ready.  *)
(***************************************************************************)
EXTENDS Select, WaiterProofs

(* The nodes a thread may push: its own, for the arms it has.               *)
OwnNodes == {n \in Threads \X Rounds \X Nat : n[3] \in DOMAIN Arms[n[1]]}

Steps == {"unborn", "idle"} \cup RecvSteps \cup SendSteps \cup SelectSteps
RegisteredSteps == {"pop2", "release2", "count2", "park", "leave_again", "leave_ok", "leave_gone"}

Placed ==
  /\ pc \in [Threads -> Steps]
  /\ on \in [Threads -> Chans \cup {NoChan}]
  /\ \A t \in Threads : pc[t] \in RecvSteps \cup SendSteps <=> on[t] \in Chans

Rings == [tail : Nat, head : Nat, ready : SUBSET Nat, reading : SUBSET Nat]

Types ==
  /\ flavour \in Flavourings
  /\ q \in [Chans -> Rings]
  /\ held \in [Threads -> SUBSET (Chans \X {"send", "recv"})]
  /\ Placed
  /\ pos \in [Threads -> Nat]
  /\ spurious \in 0 .. MaxSpurious
  /\ WaiterTypes(OwnNodes)

(* The window of a queue, and the places in it that producers have claimed. *)
Window ==
  \A c \in Chans :
    /\ q[c].head <= q[c].tail
    /\ q[c].ready \subseteq q[c].head .. (q[c].tail - 1)
    /\ q[c].reading \subseteq 0 .. (q[c].head - 1)

Room == \A c \in Chans : q[c].tail + Cardinality(Promised(c)) <= MaxItems[c]

Claims ==
  \A t \in Threads : pc[t] = "publish" =>
    /\ pos[t] \in q[on[t]].head .. (q[on[t]].tail - 1) \ q[on[t]].ready
    /\ \A u \in Threads \ {t} : pc[u] = "publish" /\ on[u] = on[t] => pos[u] # pos[t]

(* The waiter lists, without counting.                                      *)
Listed ==
  \A c \in Chans :
    /\ Once(waiting[c])
    /\ \A t \in Threads : t \in ToSet(waiting[c]) <=> on[t] = c /\ pc[t] \in RegisteredSteps

Unborn == \A t \in Threads : pc[t] = "unborn" => held[t] = {}

-----------------------------------------------------------------------------
(* The wake calls an operation makes.                                       *)
Words == {"wake_one", "wake_all", "wake_all_unselected", "select_one", "select_all",
          "drain", "free_one", "free_all"}

LEMMA CallsTyped ==
  ASSUME NEW c \in Chans, NEW w \in Words
  PROVE  CallFor(w, c) \in WakeCalls(OwnNodes)
  BY ChannelAssumption DEF Words, CallFor, WakeCalls, Snapshots, Swaps, WakeOne, WakeAll,
     WakeAllUnselected, SelectOne, SelectAll, Drain

LEMMA FlavourWords ==
  ASSUME Types, NEW c \in Chans
  PROVE  /\ flavour[c].bounded \in BOOLEAN
         /\ flavour[c].sent \in Seq(Words) /\ flavour[c].popped \in Seq(Words)
         /\ flavour[c].orphaned \in Seq(Words) /\ flavour[c].closed \in Seq(Words)
         /\ 1 \in DOMAIN flavour[c].orphaned /\ flavour[c].orphaned[1] = "wake_all"
<1>1. flavour[c] \in Flavours
  BY FlavourAssumption DEF Types
<1>2. \A v, w \in Words : <<v>> \in Seq(Words) /\ <<v, w>> \in Seq(Words)
  OBVIOUS
<1>3. /\ <<"wake_one", "select_one">> \in Seq(Words)
      /\ <<"wake_all_unselected", "select_one">> \in Seq(Words)
      /\ <<"free_one">> \in Seq(Words) /\ <<>> \in Seq(Words)
      /\ <<"wake_all", "select_all">> \in Seq(Words)
      /\ <<"drain", "free_all">> \in Seq(Words) /\ <<"drain">> \in Seq(Words)
  BY <1>2 DEF Words
<1>4. \A f \in Flavours :
        /\ f.bounded \in BOOLEAN
        /\ f.sent \in {<<"wake_one", "select_one">>, <<"wake_all_unselected", "select_one">>}
        /\ f.popped \in {<<"free_one">>, <<>>}
        /\ f.orphaned = <<"wake_all", "select_all">>
        /\ f.closed \in {<<"drain", "free_all">>, <<"drain">>}
  <2>. TAKE f \in Flavours
  <2>1. CASE f = BoundedMpmc    BY <2>1 DEF BoundedMpmc
  <2>2. CASE f = BoundedMpsc    BY <2>2 DEF BoundedMpsc
  <2>3. CASE f = UnboundedMpmc  BY <2>3 DEF UnboundedMpmc
  <2>4. CASE f = UnboundedMpsc  BY <2>4 DEF UnboundedMpsc
  <2>. QED BY <2>1, <2>2, <2>3, <2>4 DEF Flavours
<1>5. /\ 1 \in DOMAIN <<"wake_all", "select_all">>
      /\ <<"wake_all", "select_all">>[1] = "wake_all"
  OBVIOUS
<1>. QED BY <1>1, <1>3, <1>4, <1>5

LEMMA ThenTyped ==
  ASSUME Types, NEW t \in Threads, Free(t), NEW c \in Chans, NEW words \in Seq(Words),
         Then(t, words, c)
  PROVE  /\ calls' \in [Threads -> Seq(WakeCalls(OwnNodes))]
         /\ \A u \in Threads : ToSet(calls[u]) \subseteq ToSet(calls'[u])
         /\ \A i \in DOMAIN words : CallFor(words[i], c) \in ToSet(calls'[t])
<1>. DEFINE S == WakeCalls(OwnNodes)
            more == [i \in DOMAIN words |-> CallFor(words[i], c)]
<1>1. more \in Seq(S)
  <2>1. \A i \in DOMAIN words : CallFor(words[i], c) \in S
    BY CallsTyped
  <2>2. Len(words) \in Nat /\ DOMAIN words = 1 .. Len(words)
    OBVIOUS
  <2>. HIDE DEF S
  <2>. QED BY <2>1, <2>2
<1>2. calls \in [Threads -> Seq(S)] /\ calls' = [calls EXCEPT ![t] = more]
  BY DEF Types, WaiterTypes, Then
<1>3. \A i \in DOMAIN words : CallFor(words[i], c) \in ToSet(more)
  BY DEF ToSet
<1>. HIDE DEF S, more
<1>4. /\ \A u \in Threads : ToSet(calls[u]) \subseteq ToSet(calls'[u])
      /\ ToSet(calls'[t]) = ToSet(more)
  BY <1>2, CallsAdded
<1>5. calls' \in [Threads -> Seq(S)]
  BY <1>1, <1>2
<1>. QED BY <1>3, <1>4, <1>5 DEF S

-----------------------------------------------------------------------------
(* What a thread does to the channels, in a select call's completion or     *)
(* out of one.                                                              *)
Acts(t) == SendStep(t) \/ RecvStep(t) \/ Voluntary(t) \/ \E c \in Chans : RoomFor(c) /\ SendCall(t, c)
Does(t) == Acts(t) \/ (WakeStep(t) /\ UNCHANGED chanVars)

(* Where a thread is.                                                       *)
LEMMA GotoPlaced ==
  ASSUME Placed, NEW t \in Threads, NEW to, {pc[t], to} \subseteq RecvSteps \cup SendSteps,
         Goto(t, to)
  PROVE  Placed'
  BY DEF Placed, Goto, Steps

LEMMA FinishPlaced ==
  ASSUME Placed, NEW t \in Threads, Finish(t)
  PROVE  Placed'
<1>1. NoChan \notin Chans
  BY ChannelAssumption
<1>2. "idle" \in Steps \ (RecvSteps \cup SendSteps)
  BY DEF Steps, RecvSteps, SendSteps
<1>. QED BY <1>1, <1>2 DEF Placed, Finish

LEMMA TypesInit ==
  ASSUME Init
  PROVE  Types /\ Window /\ Room /\ Claims /\ Listed /\ Unborn
<1>1. WaiterTypes(OwnNodes)
  BY InitTypes DEF Init
<1>2. ASSUME NEW c \in Chans
      PROVE  /\ Stock[c] \in Nat /\ MaxItems[c] \in Nat /\ Stock[c] <= MaxItems[c]
             /\ q[c].tail = Stock[c] /\ q[c].head = 0
             /\ q[c].ready = 0 .. (Stock[c] - 1) /\ q[c].reading = {}
             /\ q[c] \in Rings
  <2>1. Stock[c] \in Nat /\ MaxItems[c] \in Nat /\ Stock[c] <= MaxItems[c]
    BY ChannelAssumption
  <2>2. q[c] = [tail |-> Stock[c], head |-> 0, ready |-> 0 .. (Stock[c] - 1), reading |-> {}]
    BY DEF Init, ChannelInit, RingOf, EmptyRing
  <2>3. 0 .. (Stock[c] - 1) \subseteq Nat
    BY <2>1
  <2>4. q[c] \in Rings
    BY <2>1, <2>2, <2>3 DEF Rings
  <2>. QED BY <2>1, <2>2, <2>4
<1>3. Types
  <2>2. q \in [Chans -> Rings]
    BY <1>2 DEF Init, ChannelInit
  <2>3. Placed
    BY ChannelAssumption DEF Init, ChannelInit, Placed, Steps, RecvSteps, SendSteps
  <2>4. /\ flavour \in Flavourings /\ held \in [Threads -> SUBSET (Chans \X {"send", "recv"})]
        /\ pos \in [Threads -> Nat] /\ spurious \in 0 .. MaxSpurious
    BY ChannelAssumption DEF Init, ChannelInit
  <2>. QED BY <1>1, <2>2, <2>3, <2>4 DEF Types
<1>4. Window
  <2>. SUFFICES ASSUME NEW c \in Chans
                PROVE  /\ q[c].head <= q[c].tail
                       /\ q[c].ready \subseteq q[c].head .. (q[c].tail - 1)
                       /\ q[c].reading \subseteq 0 .. (q[c].head - 1)
    BY DEF Window
  <2>. QED BY <1>2
<1>5. \A t \in Threads : pc[t] \in {"idle", "unborn"}
  BY DEF Init, ChannelInit
<1>6. Room
  <2>1. \A c \in Chans : Promised(c) = {}
    BY <1>5 DEF Promised, SendsUnderWay, Selectors
  <2>2. Cardinality({}) = 0
    BY FS_EmptySet
  <2>. SUFFICES ASSUME NEW c \in Chans
                PROVE  q[c].tail + Cardinality(Promised(c)) <= MaxItems[c]
    BY DEF Room
  <2>3. Cardinality(Promised(c)) = 0
    BY <2>1, <2>2
  <2>. QED BY <1>2, <2>3
<1>7. Claims
  BY <1>5 DEF Claims
<1>8. Listed
  <2>1. \A c \in Chans : waiting[c] = <<>>
    BY ChannelAssumption DEF Init, WaiterInit
  <2>2. ToSet(<<>>) = {} /\ Once(<<>>)
    BY DEF ToSet, Once
  <2>. QED BY <1>5, <2>1, <2>2 DEF Listed, RegisteredSteps
<1>9. Unborn
  BY ChannelAssumption DEF Unborn, Init, ChannelInit
<1>. QED BY <1>3, <1>4, <1>6, <1>7, <1>8, <1>9

(* The steps of a thread that change nothing but its own place in the code, *)
(* and perhaps its permit.                                                  *)
Moves(t) == CheckReceivers(t) \/ PopNone(t) \/ CountSenders(t) \/ ParkReturns(t) \/ Spurious(t)
            \/ \E c \in Chans : SendCall(t, c) \/ RecvCall(t, c) \/ TryRecvCall(t, c)

LEMMA TypesMoves ==
  ASSUME Types, NEW t \in Threads, Moves(t)
  PROVE  Types'
<1>1. ASSUME NEW c \in Chans, SendCall(t, c) \/ RecvCall(t, c) \/ TryRecvCall(t, c)
      PROVE  Types'
  <2>1. PICK to \in RecvSteps \cup SendSteps :
          /\ pc' = [pc EXCEPT ![t] = to] /\ on' = [on EXCEPT ![t] = c]
          /\ UNCHANGED <<flavour, q, held, pos, spurious, waiterVars>>
    BY <1>1 DEF SendCall, RecvCall, TryRecvCall, Start, SendSteps, RecvSteps
  <2>2. Placed'
    BY <2>1 DEF Types, Placed, Steps
  <2>. QED BY <2>1, <2>2 DEF Types, WaiterTypes, waiterVars
<1>2. CASE CheckReceivers(t)
  <2>1. Placed'
    BY <1>2, GotoPlaced, FinishPlaced DEF CheckReceivers, At, Types, SendSteps
  <2>. QED BY <1>2, <2>1 DEF CheckReceivers, Types, WaiterTypes, waiterVars
<1>3. CASE PopNone(t)
  <2>1. Placed'
    BY <1>3, GotoPlaced DEF PopNone, Types, RecvSteps
  <2>. QED BY <1>3, <2>1 DEF PopNone, Types, WaiterTypes, waiterVars
<1>4. CASE CountSenders(t)
  <2>1. Placed'
    BY <1>4, GotoPlaced, FinishPlaced DEF CountSenders, Types, RecvSteps
  <2>. QED BY <1>4, <2>1 DEF CountSenders, Types, WaiterTypes, waiterVars
<1>5. CASE ParkReturns(t)
  <2>1. Placed'
    BY <1>5, GotoPlaced DEF ParkReturns, At, Types, RecvSteps
  <2>. QED BY <1>5, <2>1 DEF ParkReturns, Types, WaiterTypes
<1>6. CASE Spurious(t)
  BY <1>6, ChannelAssumption DEF Spurious, Types, Placed, WaiterTypes
<1>. QED BY <1>1, <1>2, <1>3, <1>4, <1>5, <1>6 DEF Moves

LEMMA TypesStep ==
  ASSUME Types, Listed, NEW t \in Threads, Does(t)
  PROVE  Types'
<1>2. CASE Moves(t)
  BY <1>2, TypesMoves
<1>3. CASE PushItem(t)
  <2>. DEFINE c == on[t]
  <2>0. pc[t] = "push" /\ Free(t) /\ c \in Chans /\ q[c].tail \in Nat
    BY <1>3 DEF PushItem, At, Types, Placed, Rings, SendSteps
  <2>1. flavour[c].sent \in Seq(Words)
    BY <2>0, FlavourWords
  <2>2. calls' \in [Threads -> Seq(WakeCalls(OwnNodes))]
    BY <1>3, <2>0, <2>1, ThenTyped DEF PushItem, NothingToWake, Types, WaiterTypes
  <2>3. q' \in [Chans -> Rings]
    <3>1. q[c] \in Rings
      BY <2>0 DEF Types
    <3>2. Claim(q[c]) \in Rings /\ Push(q[c]) \in Rings
      <4>1. q[c].tail \in Nat /\ q[c].ready \subseteq Nat
        BY <3>1 DEF Rings
      <4>2. Claim(q[c]) \in Rings /\ Claim(q[c]).ready = q[c].ready
        BY <3>1, <4>1 DEF Rings, Claim
      <4>3. q[c].ready \cup {q[c].tail} \in SUBSET Nat
        BY <4>1
      <4>. QED BY <4>2, <4>3 DEF Push, Publish, Rings
    <3>3. q' = q \/ q' = [q EXCEPT ![c] = Claim(q[c])] \/ q' = [q EXCEPT ![c] = Push(q[c])]
      BY <1>3 DEF PushItem
    <3>. QED BY <3>2, <3>3, <2>0 DEF Types
  <2>4. pos' \in [Threads -> Nat]
    BY <1>3, <2>0 DEF PushItem, Types
  <2>5. Placed'
    BY <1>3, <2>0, GotoPlaced, FinishPlaced DEF PushItem, Types, SendSteps
  <2>. QED BY <1>3, <2>2, <2>3, <2>4, <2>5 DEF PushItem, Types, WaiterTypes
<1>4. CASE PublishItem(t)
  <2>. DEFINE c == on[t]
  <2>0. pc[t] = "publish" /\ Free(t) /\ c \in Chans /\ pos[t] \in Nat
    BY <1>4 DEF PublishItem, At, Types, Placed, SendSteps
  <2>1. flavour[c].sent \in Seq(Words)
    BY <2>0, FlavourWords
  <2>2. calls' \in [Threads -> Seq(WakeCalls(OwnNodes))]
    BY <1>4, <2>0, <2>1, ThenTyped DEF PublishItem
  <2>3. q' \in [Chans -> Rings]
    BY <1>4, <2>0 DEF PublishItem, Types, Rings, Publish
  <2>5. Placed'
    BY <1>4, FinishPlaced DEF PublishItem, Types
  <2>. QED BY <1>4, <2>2, <2>3, <2>5 DEF PublishItem, Types, WaiterTypes
<1>5. CASE PopItem(t)
  <2>. DEFINE c == on[t]
  <2>0. c \in Chans /\ q[c].head \in Nat /\ pc[t] \in {"pop", "pop2", "trypop"}
    BY <1>5 DEF PopItem, Types, Placed, Rings, RecvSteps
  <2>3. q' \in [Chans -> Rings]
    BY <1>5, <2>0 DEF PopItem, Types, Rings, Take, Pop, Release
  <2>5. Placed'
    BY <1>5, <2>0, GotoPlaced, FinishPlaced DEF PopItem, Types, AfterPop, RecvSteps
  <2>6. pos' \in [Threads -> Nat]
    BY <1>5, <2>0 DEF PopItem, Types
  <2>. QED BY <1>5, <2>3, <2>5, <2>6 DEF PopItem, Types, WaiterTypes, waiterVars
<1>6. CASE ReleaseSlot(t)
  <2>. DEFINE c == on[t]
  <2>0. pc[t] \in {"release", "release2"} /\ Free(t) /\ c \in Chans
    BY <1>6 DEF ReleaseSlot, Types, Placed, RecvSteps
  <2>1. flavour[c].popped \in Seq(Words)
    BY <2>0, FlavourWords
  <2>2. calls' \in [Threads -> Seq(WakeCalls(OwnNodes))]
    BY <1>6, <2>0, <2>1, ThenTyped DEF ReleaseSlot
  <2>3. q' \in [Chans -> Rings]
    BY <1>6, <2>0 DEF ReleaseSlot, Types, Rings, Release
  <2>5. Placed'
    BY <1>6, <2>0, GotoPlaced, FinishPlaced DEF ReleaseSlot, Types, AfterPop, RecvSteps
  <2>. QED BY <1>6, <2>2, <2>3, <2>5 DEF ReleaseSlot, Types, WaiterTypes
<1>7. CASE Enlist(t)
  <2>0. on[t] \in Lists /\ waiting[on[t]] \in Seq(Threads)
    BY <1>7, ChannelAssumption DEF Enlist, At, Types, Placed, RecvSteps, WaiterTypes
  <2>1. waiting' \in [Lists -> Seq(Threads)]
    BY <1>7, <2>0 DEF Enlist, Register, Types, WaiterTypes
  <2>2. Placed'
    BY <1>7, GotoPlaced DEF Enlist, At, Types, RecvSteps
  <2>. QED BY <1>7, <2>1, <2>2 DEF Enlist, Types, WaiterTypes
<1>8. CASE Leave(t)
  <2>0. on[t] \in Lists /\ waiting[on[t]] \in Seq(Threads) /\ Once(waiting[on[t]])
    BY <1>8, ChannelAssumption DEF Leave, Types, Placed, RecvSteps, WaiterTypes, Listed
  <2>1. waiting' \in [Lists -> Seq(Threads)]
    BY <1>8, <2>0, ToSetWithout DEF Leave, Unregister, Types, WaiterTypes
  <2>2. Placed'
    BY <1>8, GotoPlaced, FinishPlaced DEF Leave, Types, RecvSteps
  <2>. QED BY <1>8, <2>1, <2>2 DEF Leave, Types, WaiterTypes
<1>9. CASE WakeStep(t) /\ UNCHANGED chanVars
  <2>1. WaiterTypes(OwnNodes)'
    BY <1>9, WakeStepTypes DEF Types, NodesOK, OwnNodes
  <2>. QED BY <1>9, <2>1 DEF chanVars, Types, Placed
<1>10. ASSUME NEW u \in Threads, CloneHandle(t, u) PROVE Types'
  <2>1. Offspring[u] \in Chans \X {"send", "recv"}
    BY <1>10 DEF CloneHandle, Types
  <2>2. Placed'
    BY <1>10 DEF CloneHandle, Types, Placed, Goto, Steps, SendSteps, RecvSteps
  <2>. QED BY <1>10, <2>1, <2>2 DEF CloneHandle, Types, WaiterTypes, waiterVars
<1>11. ASSUME NEW c \in Chans, DropSender(t, c) PROVE Types'
  <2>1. flavour[c].orphaned \in Seq(Words)
    BY FlavourWords
  <2>2. calls' \in [Threads -> Seq(WakeCalls(OwnNodes))]
    BY <1>11, <2>1, ThenTyped DEF DropSender, At, NothingToWake, Types, WaiterTypes
  <2>. QED BY <1>11, <2>2 DEF DropSender, Types, Placed, WaiterTypes
<1>12. ASSUME NEW c \in Chans, DropReceiver(t, c) PROVE Types'
  <2>1. flavour[c].closed \in Seq(Words)
    BY FlavourWords
  <2>2. calls' \in [Threads -> Seq(WakeCalls(OwnNodes))]
    BY <1>12, <2>1, ThenTyped DEF DropReceiver, At, NothingToWake, Types, WaiterTypes
  <2>. QED BY <1>12, <2>2 DEF DropReceiver, Types, Placed, WaiterTypes
<1>. QED BY <1>2, <1>3, <1>4, <1>5, <1>6, <1>7, <1>8, <1>9, <1>10, <1>11, <1>12
         DEF Does, Acts, ChannelStep, SendStep, RecvStep, Voluntary, Moves

-----------------------------------------------------------------------------
(* The queue.                                                               *)
RingInv == Window /\ Room /\ Claims

(* A step in which no send is involved but for its wake calls.              *)
LEMMA RingAside ==
  ASSUME Types, RingInv, NEW t \in Threads, UNCHANGED <<q, pos>>,
         \A u \in Threads \ {t} : pc'[u] = pc[u] /\ on'[u] = on[u],
         \/ pc'[t] = pc[t] /\ on'[t] = on[t]
         \/ {pc[t], pc'[t]} \cap (SendSteps \cup SelectSteps) = {}
  PROVE  RingInv'
<1>1. \A u \in Threads : pc'[u] \in SendSteps \/ pc[u] \in SendSteps => pc'[u] = pc[u] /\ on'[u] = on[u]
  OBVIOUS
<1>0. \A u \in Threads : pc'[u] \in SelectSteps \/ pc[u] \in SelectSteps => pc'[u] = pc[u]
  OBVIOUS
<1>2. \A c \in Chans : Promised(c)' = Promised(c)
  BY <1>0, <1>1 DEF Promised, SendsUnderWay, SendSteps, Selectors, SelectSteps
<1>3. Room' /\ Window'
  BY <1>2 DEF RingInv, Room, Window
<1>4. Claims'
  BY <1>1 DEF RingInv, Claims, SendSteps
<1>. QED BY <1>3, <1>4 DEF RingInv

LEMMA SendsCounted ==
  ASSUME NEW c
  PROVE  /\ IsFiniteSet(Promised(c)) /\ Cardinality(Promised(c)) \in Nat
<1>1. IsFiniteSet(Threads) /\ Promised(c) \in SUBSET Threads
  BY ChannelAssumption DEF Promised, SendsUnderWay, Selectors
<1>. QED BY <1>1, FS_Subset, FS_CardinalityType

LEMMA RingSendCall ==
  ASSUME Types, RingInv, NEW t \in Threads, NEW c \in Chans, RoomFor(c), SendCall(t, c)
  PROVE  RingInv'
<1>1. /\ pc[t] = "idle" /\ pc' = [pc EXCEPT ![t] = "check"] /\ on' = [on EXCEPT ![t] = c]
      /\ UNCHANGED <<q, pos>>
      /\ q[c].tail + Cardinality(Promised(c)) < MaxItems[c]
  BY DEF SendCall, Start, At, RoomFor
<1>2. /\ Promised(c)' = Promised(c) \cup {t} /\ t \notin Promised(c)
      /\ \A d \in Chans \ {c} : Promised(d)' = Promised(d)
  BY <1>1 DEF Promised, SendsUnderWay, Types, Placed
<1>3. q[c].tail \in Nat /\ MaxItems[c] \in Nat
  BY ChannelAssumption DEF Types, Rings
<1>4. Cardinality(Promised(c))' = Cardinality(Promised(c)) + 1
  BY <1>2, SendsCounted, FS_AddElement
<1>5. Room'
  <2>. SUFFICES ASSUME NEW d \in Chans
                PROVE  q[d].tail + Cardinality(Promised(d))' <= MaxItems[d]
    BY <1>1 DEF Room
  <2>1. CASE d = c
    BY <2>1, <1>1, <1>3, <1>4, SendsCounted
  <2>2. CASE d # c
    BY <2>2, <1>2 DEF RingInv, Room
  <2>. QED BY <2>1, <2>2
<1>6. Window' /\ Claims'
  BY <1>1 DEF RingInv, Window, Claims, Types, Placed
<1>. QED BY <1>5, <1>6 DEF RingInv

(* A send that is not under way any longer, with its item or without it.    *)
LEMMA SendLeaves ==
  ASSUME Types, NEW t \in Threads, NEW c \in Chans, on[t] = c, pc[t] \in {"check", "push"},
         \A u \in Threads \ {t} : pc'[u] = pc[u] /\ on'[u] = on[u],
         pc'[t] \in {"idle", "publish"}
  PROVE  /\ Cardinality(Promised(c))' = Cardinality(Promised(c)) - 1
         /\ \A d \in Chans \ {c} : Promised(d)' = Promised(d)
<1>1. Promised(c)' = Promised(c) \ {t} /\ t \in Promised(c)
  BY DEF Promised, SendsUnderWay, Selectors
<1>2. \A d \in Chans \ {c} : Promised(d)' = Promised(d)
  BY DEF Promised, SendsUnderWay, Selectors
<1>3. IsFiniteSet(Promised(c))
  BY SendsCounted
<1>4. Cardinality(Promised(c) \ {t}) = Cardinality(Promised(c)) - 1
  BY <1>1, <1>3, FS_RemoveElement
<1>. QED BY <1>1, <1>2, <1>4

LEMMA RingCheck ==
  ASSUME Types, RingInv, Types', NEW t \in Threads, CheckReceivers(t)
  PROVE  RingInv'
<1>1. /\ pc[t] = "check" /\ UNCHANGED <<q, pos>>
      /\ \A u \in Threads \ {t} : pc'[u] = pc[u] /\ on'[u] = on[u]
      /\ pc'[t] \in {"idle", "push"} /\ (pc'[t] = "push" => on'[t] = on[t])
  BY DEF CheckReceivers, At, Goto, Finish, Types, Placed
<1>2. Window' /\ Claims'
  BY <1>1 DEF RingInv, Window, Claims
<1>3. Room'
  <2>1. CASE pc'[t] = "push"
    <3>1. \A c \in Chans : Promised(c)' = Promised(c)
      BY <1>1, <2>1 DEF Promised, SendsUnderWay, Selectors
    <3>. QED BY <3>1, <1>1 DEF RingInv, Room
  <2>2. CASE pc'[t] = "idle"
    <3>0. PICK c \in Chans : on[t] = c
      BY <1>1 DEF Types, Placed, SendSteps
    <3>1. /\ Cardinality(Promised(c))' = Cardinality(Promised(c)) - 1
          /\ \A d \in Chans \ {c} : Promised(d)' = Promised(d)
      BY <1>1, <2>2, <3>0, SendLeaves
    <3>. SUFFICES ASSUME NEW d \in Chans
                  PROVE  q[d].tail + Cardinality(Promised(d))' <= MaxItems[d]
      BY <1>1 DEF Room
    <3>2. q[d].tail + Cardinality(Promised(d)) <= MaxItems[d] /\ q[d].tail \in Nat
          /\ MaxItems[d] \in Nat
      BY ChannelAssumption DEF RingInv, Room, Types, Rings
    <3>3. CASE d = c
      <4>1. Cardinality(Promised(d))' = Cardinality(Promised(d)) - 1
        BY <3>1, <3>3
      <4>2. Cardinality(Promised(d)) \in Nat
        BY SendsCounted
      <4>. HIDE <3>1
      <4>. QED BY <3>2, <4>1, <4>2
    <3>4. CASE d # c
      BY <3>1, <3>2, <3>4
    <3>. QED BY <3>3, <3>4
  <2>. QED BY <1>1, <2>1, <2>2
<1>. QED BY <1>2, <1>3 DEF RingInv

LEMMA RingPush ==
  ASSUME Types, RingInv, Types', NEW t \in Threads, PushItem(t)
  PROVE  RingInv'
<1>1. /\ pc[t] = "push" /\ pc'[t] \in {"idle", "publish"}
      /\ \A u \in Threads \ {t} : pc'[u] = pc[u] /\ on'[u] = on[u] /\ pos'[u] = pos[u]
  BY DEF PushItem, At, Goto, Finish, Types, Placed
<1>0. PICK c \in Chans : c = on[t]
  BY <1>1 DEF Types, Placed, SendSteps
<1>2. /\ Cardinality(Promised(c))' = Cardinality(Promised(c)) - 1
      /\ \A d \in Chans \ {c} : Promised(d)' = Promised(d)
  BY <1>0, <1>1, SendLeaves
<1>3. q[c] \in Rings /\ \A d \in Chans : q[d].tail \in Nat /\ MaxItems[d] \in Nat
  BY ChannelAssumption DEF Types, Rings
<1>4. PICK r \in {q[c], Claim(q[c]), Push(q[c])} :
        /\ q' = [q EXCEPT ![c] = r]
        /\ pc'[t] = "publish" => r = Claim(q[c]) /\ on'[t] = c /\ pos'[t] = q[c].tail
  BY <1>0, <1>1 DEF PushItem, Goto, Finish, Types, Placed
<1>5. /\ r.head = q[c].head /\ r.reading = q[c].reading
      /\ r.tail \in {q[c].tail, q[c].tail + 1}
      /\ r.ready \in {q[c].ready, q[c].ready \cup {q[c].tail}}
      /\ (r.ready # q[c].ready => r.tail = q[c].tail + 1)
  BY <1>3 DEF Rings, Claim, Push, Publish
<1>6. q'[c] = r /\ \A d \in Chans \ {c} : q'[d] = q[d]
  BY <1>4 DEF Types
<1>7. Window'
  <2>. SUFFICES ASSUME NEW d \in Chans
                PROVE  /\ q'[d].head <= q'[d].tail
                       /\ q'[d].ready \subseteq q'[d].head .. (q'[d].tail - 1)
                       /\ q'[d].reading \subseteq 0 .. (q'[d].head - 1)
    BY DEF Window
  <2>1. CASE d # c
    BY <2>1, <1>6 DEF RingInv, Window
  <2>2. CASE d = c
    <3>1. /\ q[c].head \in Nat /\ q[c].tail \in Nat /\ q[c].head <= q[c].tail
          /\ q[c].ready \subseteq q[c].head .. (q[c].tail - 1)
          /\ q[c].reading \subseteq 0 .. (q[c].head - 1)
      BY <1>3 DEF RingInv, Window, Rings
    <3>. QED BY <2>2, <3>1, <1>5, <1>6
  <2>. QED BY <2>1, <2>2
<1>8. Room'
  <2>. SUFFICES ASSUME NEW d \in Chans
                PROVE  q'[d].tail + Cardinality(Promised(d))' <= MaxItems[d]
    BY DEF Room
  <2>1. q[d].tail + Cardinality(Promised(d)) <= MaxItems[d]
    BY DEF RingInv, Room
  <2>2. CASE d # c
    BY <2>1, <2>2, <1>2, <1>6
  <2>3. CASE d = c
    <3>1. Cardinality(Promised(d))' = Cardinality(Promised(d)) - 1
      BY <2>3, <1>2
    <3>2. Cardinality(Promised(d)) \in Nat
      BY SendsCounted
    <3>3. q'[d].tail \in {q[d].tail, q[d].tail + 1} /\ q[d].tail \in Nat /\ MaxItems[d] \in Nat
      BY <2>3, <1>3, <1>5, <1>6
    <3>. QED BY <2>1, <3>1, <3>2, <3>3
  <2>. QED BY <2>2, <2>3
<1>9. Claims'
  <2>. SUFFICES ASSUME NEW u \in Threads, pc'[u] = "publish"
                PROVE  /\ pos'[u] \in q'[on'[u]].head .. (q'[on'[u]].tail - 1) \ q'[on'[u]].ready
                       /\ \A v \in Threads \ {u} :
                            pc'[v] = "publish" /\ on'[v] = on'[u] => pos'[v] # pos'[u]
    BY DEF Claims
  <2>1. ASSUME NEW v \in Threads \ {t}, pc[v] = "publish"
        PROVE  /\ on[v] \in Chans /\ pos[v] \in Nat
               /\ pos[v] \in q[on[v]].head .. (q[on[v]].tail - 1) \ q[on[v]].ready
               /\ q[on[v]].head \in Nat /\ q[on[v]].tail \in Nat
    BY <2>1 DEF RingInv, Claims, Types, Placed, SendSteps, Rings
  <2>2. CASE u = t
    <3>1. r = Claim(q[c]) /\ on'[t] = c /\ pos'[t] = q[c].tail
      BY <2>2, <1>4
    <3>2. /\ q[c].head \in Nat /\ q[c].tail \in Nat /\ q[c].head <= q[c].tail
          /\ q[c].tail \notin q[c].ready
      BY <1>3 DEF RingInv, Window, Rings
    <3>3. r.head = q[c].head /\ r.tail = q[c].tail + 1 /\ r.ready = q[c].ready
      BY <3>1, <1>3 DEF Claim, Rings
    <3>4. \A v \in Threads \ {t} : pc'[v] = "publish" /\ on'[v] = c => pos'[v] # q[c].tail
      BY <2>1, <1>1, <3>2
    <3>. QED BY <2>2, <3>1, <3>2, <3>3, <3>4, <1>6
  <2>3. CASE u # t
    <3>1. pc[u] = "publish" /\ on'[u] = on[u] /\ pos'[u] = pos[u]
      BY <2>3, <1>1
    <3>2. pos[u] \in q'[on[u]].head .. (q'[on[u]].tail - 1) \ q'[on[u]].ready
      BY <2>1, <2>3, <3>1, <1>2, <1>3, <1>5, <1>6
    <3>3. ASSUME NEW v \in Threads \ {u}, pc'[v] = "publish", on'[v] = on[u]
          PROVE  pos'[v] # pos[u]
      <4>1. CASE v = t
        BY <4>1, <3>1, <3>3, <2>1, <2>3, <1>4
      <4>2. CASE v # t
        BY <4>2, <3>1, <3>3, <1>1 DEF RingInv, Claims
      <4>. QED BY <4>1, <4>2
    <3>. QED BY <3>1, <3>2, <3>3
  <2>. QED BY <2>2, <2>3
<1>. QED BY <1>7, <1>8, <1>9 DEF RingInv

LEMMA RingPublish ==
  ASSUME Types, RingInv, Types', NEW t \in Threads, PublishItem(t)
  PROVE  RingInv'
<1>. DEFINE c == on[t]
<1>1. /\ pc[t] = "publish" /\ pc'[t] = "idle"
      /\ \A u \in Threads \ {t} : pc'[u] = pc[u] /\ on'[u] = on[u] /\ pos'[u] = pos[u]
      /\ q' = [q EXCEPT ![c] = Publish(@, pos[t])]
  BY DEF PublishItem, At, Finish, Types, Placed
<1>2. c \in Chans /\ q[c] \in Rings
  BY <1>1 DEF Types, Placed, SendSteps
<1>3. /\ q'[c].head = q[c].head /\ q'[c].tail = q[c].tail /\ q'[c].reading = q[c].reading
      /\ q'[c].ready = q[c].ready \cup {pos[t]}
      /\ \A d \in Chans \ {c} : q'[d] = q[d]
  BY <1>1, <1>2 DEF Publish, Rings, Types
<1>4. /\ pos[t] \in q[c].head .. (q[c].tail - 1)
      /\ \A u \in Threads \ {t} : pc[u] = "publish" /\ on[u] = c => pos[u] # pos[t]
  BY <1>1 DEF RingInv, Claims
<1>5. Window'
  BY <1>3, <1>4 DEF RingInv, Window
<1>6. Room'
  <2>1. \A d \in Chans : Promised(d)' = Promised(d)
    BY <1>1 DEF Promised, SendsUnderWay, Selectors
  <2>. QED BY <2>1, <1>3 DEF RingInv, Room
<1>7. Claims'
  BY <1>1, <1>3, <1>4 DEF RingInv, Claims
<1>. QED BY <1>5, <1>6, <1>7 DEF RingInv

LEMMA RingPop ==
  ASSUME Types, RingInv, Types', NEW t \in Threads, PopItem(t)
  PROVE  RingInv'
<1>. DEFINE c == on[t]
<1>1. /\ pc[t] \in RecvSteps /\ pc'[t] \notin SendSteps \cup SelectSteps /\ CanTake(q[c])
      /\ \A u \in Threads \ {t} : pc'[u] = pc[u] /\ on'[u] = on[u] /\ pos'[u] = pos[u]
  BY DEF PopItem, AfterPop, Goto, Finish, Types, Placed, RecvSteps, SendSteps, SelectSteps
<1>2. c \in Chans /\ q[c] \in Rings
  BY <1>1 DEF Types, Placed
<1>3. PICK r \in {Take(q[c]), Pop(q[c])} : q' = [q EXCEPT ![c] = r]
  BY DEF PopItem
<1>4. /\ r.head = q[c].head + 1 /\ r.tail = q[c].tail /\ r.ready = q[c].ready \ {q[c].head}
      /\ r.reading \subseteq q[c].reading \cup {q[c].head}
  BY <1>2 DEF Take, Pop, Release, Rings
<1>5. q'[c] = r /\ \A d \in Chans \ {c} : q'[d] = q[d]
  BY <1>2, <1>3 DEF Types
<1>6. q[c].head \in q[c].ready /\ q[c].head \in Nat /\ q[c].tail \in Nat
  BY <1>1, <1>2 DEF CanTake, Rings
<1>7. Window'
  <2>. SUFFICES ASSUME NEW d \in Chans
                PROVE  /\ q'[d].head <= q'[d].tail
                       /\ q'[d].ready \subseteq q'[d].head .. (q'[d].tail - 1)
                       /\ q'[d].reading \subseteq 0 .. (q'[d].head - 1)
    BY DEF Window
  <2>1. CASE d # c
    BY <2>1, <1>5 DEF RingInv, Window
  <2>2. CASE d = c
    <3>1. /\ q[c].ready \subseteq q[c].head .. (q[c].tail - 1)
          /\ q[c].reading \subseteq 0 .. (q[c].head - 1)
      BY <1>2 DEF RingInv, Window
    <3>. QED BY <2>2, <3>1, <1>4, <1>5, <1>6
  <2>. QED BY <2>1, <2>2
<1>8. Room'
  <2>1. \A d \in Chans : Promised(d)' = Promised(d)
    BY <1>1 DEF Promised, SendsUnderWay, Selectors, SendSteps, RecvSteps, SelectSteps
  <2>2. \A d \in Chans : q'[d].tail = q[d].tail
    BY <1>4, <1>5
  <2>. QED BY <2>1, <2>2 DEF RingInv, Room
<1>9. Claims'
  <2>. SUFFICES ASSUME NEW u \in Threads \ {t}, pc[u] = "publish"
                PROVE  /\ pos[u] \in q'[on[u]].head .. (q'[on[u]].tail - 1) \ q'[on[u]].ready
                       /\ \A v \in Threads \ {u} :
                            pc'[v] = "publish" /\ on'[v] = on[u] => pos'[v] # pos[u]
    BY <1>1 DEF Claims, SendSteps
  <2>1. /\ on[u] \in Chans /\ pos[u] \in q[on[u]].head .. (q[on[u]].tail - 1) \ q[on[u]].ready
        /\ pos[u] \in Nat /\ q[on[u]].head \in Nat /\ q[on[u]].tail \in Nat
    BY DEF RingInv, Claims, Types, Placed, SendSteps, Rings
  <2>2. CASE on[u] = c
    BY <2>1, <2>2, <1>1, <1>4, <1>5, <1>6 DEF RingInv, Claims, SendSteps
  <2>3. CASE on[u] # c
    BY <2>1, <2>3, <1>1, <1>5 DEF RingInv, Claims, SendSteps
  <2>. QED BY <2>2, <2>3
<1>. QED BY <1>7, <1>8, <1>9 DEF RingInv

LEMMA RingRelease ==
  ASSUME Types, RingInv, Types', NEW t \in Threads, ReleaseSlot(t)
  PROVE  RingInv'
<1>. DEFINE c == on[t]
<1>1. /\ pc[t] \in RecvSteps /\ pc'[t] \notin SendSteps \cup SelectSteps
      /\ \A u \in Threads \ {t} : pc'[u] = pc[u] /\ on'[u] = on[u] /\ pos'[u] = pos[u]
      /\ q' = [q EXCEPT ![c] = Release(@, pos[t])]
  BY DEF ReleaseSlot, AfterPop, Goto, Finish, Types, Placed, RecvSteps, SendSteps, SelectSteps
<1>2. c \in Chans /\ q[c] \in Rings
  BY <1>1 DEF Types, Placed
<1>3. \A d \in Chans : /\ q'[d].head = q[d].head /\ q'[d].tail = q[d].tail
                       /\ q'[d].ready = q[d].ready /\ q'[d].reading \subseteq q[d].reading
  BY <1>1, <1>2 DEF Release, Rings, Types
<1>4. Window'
  BY <1>3 DEF RingInv, Window
<1>5. Room'
  <2>1. \A d \in Chans : Promised(d)' = Promised(d)
    BY <1>1 DEF Promised, SendsUnderWay, Selectors, SendSteps, RecvSteps, SelectSteps
  <2>. QED BY <2>1, <1>3 DEF RingInv, Room
<1>6. Claims'
  <2>. SUFFICES ASSUME NEW u \in Threads \ {t}, pc[u] = "publish"
                PROVE  /\ pos[u] \in q'[on[u]].head .. (q'[on[u]].tail - 1) \ q'[on[u]].ready
                       /\ \A v \in Threads \ {u} :
                            pc'[v] = "publish" /\ on'[v] = on[u] => pos'[v] # pos[u]
    BY <1>1 DEF Claims, SendSteps
  <2>1. on[u] \in Chans
    BY DEF Types, Placed, SendSteps
  <2>. QED BY <2>1, <1>1, <1>3 DEF RingInv, Claims, SendSteps
<1>. QED BY <1>4, <1>5, <1>6 DEF RingInv

LEMMA RingStep ==
  ASSUME Types, RingInv, Types', NEW t \in Threads, Does(t)
  PROVE  RingInv'
<1>1. CASE UNCHANGED <<q, pc, on, pos>>
  BY <1>1 DEF RingInv, Window, Room, Claims, Promised, SendsUnderWay
<1>2. CASE \/ PopNone(t) \/ CountSenders(t) \/ Enlist(t) \/ ParkReturns(t) \/ Leave(t)
           \/ \E c \in Chans : RecvCall(t, c) \/ TryRecvCall(t, c)
  <2>1. pc[t] \in {"idle"} \cup RecvSteps /\ UNCHANGED <<q, pos>>
    BY <1>2 DEF PopNone, CountSenders, Enlist, ParkReturns, Leave, RecvCall, TryRecvCall,
       Start, At, RecvSteps
  <2>2. PICK to \in {"idle"} \cup RecvSteps : pc' = [pc EXCEPT ![t] = to]
    BY <1>2 DEF PopNone, CountSenders, Enlist, ParkReturns, Leave, RecvCall, TryRecvCall,
       Start, Goto, Finish, RecvSteps
  <2>3. \A u \in Threads \ {t} : on'[u] = on[u]
    BY <1>2 DEF PopNone, CountSenders, Enlist, ParkReturns, Leave, RecvCall, TryRecvCall,
       Start, Goto, Finish, Types, Placed
  <2>4. pc'[t] = to /\ \A u \in Threads \ {t} : pc'[u] = pc[u] /\ on'[u] = on[u]
    BY <2>2, <2>3 DEF Types, Placed
  <2>5. ({"idle"} \cup RecvSteps) \cap (SendSteps \cup SelectSteps) = {}
    BY DEF RecvSteps, SendSteps, SelectSteps
  <2>. QED BY <2>1, <2>2, <2>4, <2>5, RingAside
<1>3. CASE WakeStep(t) /\ UNCHANGED chanVars
  BY <1>1, <1>3 DEF chanVars
<1>4. CASE \/ Spurious(t) \/ \E c \in Chans : DropSender(t, c) \/ DropReceiver(t, c)
  BY <1>1, <1>4 DEF Spurious, DropSender, DropReceiver
<1>5. ASSUME NEW u \in Threads, CloneHandle(t, u)
      PROVE  RingInv'
  BY <1>5, RingAside DEF CloneHandle, Goto, Types, Placed, SendSteps, SelectSteps
<1>. QED BY <1>2, <1>3, <1>4, <1>5, RingSendCall, RingCheck, RingPush, RingPublish, RingPop, RingRelease
         DEF Does, Acts, ChannelStep, SendStep, RecvStep, Voluntary

-----------------------------------------------------------------------------
(* The waiter lists.                                                        *)
LEMMA ListedAside ==
  ASSUME Types, Listed, NEW t \in Threads, UNCHANGED waiting,
         \A u \in Threads \ {t} : pc'[u] = pc[u] /\ on'[u] = on[u],
         \/ pc'[t] = pc[t] /\ on'[t] = on[t]
         \/ pc[t] \in RegisteredSteps /\ pc'[t] \in RegisteredSteps /\ on'[t] = on[t]
         \/ pc[t] \notin RegisteredSteps /\ pc'[t] \notin RegisteredSteps
  PROVE  Listed'
  BY DEF Listed

LEMMA ListedStep ==
  ASSUME Types, Listed, NEW t \in Threads, Does(t)
  PROVE  Listed'
<1>1. CASE UNCHANGED <<waiting, pc, on>>
  BY <1>1 DEF Listed
<1>2. CASE \E c \in Chans : SendCall(t, c) \/ RecvCall(t, c) \/ TryRecvCall(t, c)
  <2>1. /\ pc[t] \notin RegisteredSteps /\ pc'[t] \notin RegisteredSteps /\ UNCHANGED waiting
        /\ \A u \in Threads \ {t} : pc'[u] = pc[u] /\ on'[u] = on[u]
    BY <1>2 DEF SendCall, RecvCall, TryRecvCall, Start, At, waiterVars, Types, Placed, RegisteredSteps
  <2>. QED BY <2>1, ListedAside
<1>3. CASE CheckReceivers(t) \/ PushItem(t) \/ PublishItem(t)
  <2>1. /\ pc[t] \notin RegisteredSteps /\ pc'[t] \notin RegisteredSteps /\ UNCHANGED waiting
        /\ \A u \in Threads \ {t} : pc'[u] = pc[u] /\ on'[u] = on[u]
    BY <1>3 DEF CheckReceivers, PushItem, PublishItem, At, Goto, Finish, waiterVars, Types, Placed,
                RegisteredSteps
  <2>. QED BY <2>1, ListedAside
<1>4. CASE PopItem(t) \/ ReleaseSlot(t) \/ PopNone(t)
  <2>1. /\ UNCHANGED waiting
        /\ \A u \in Threads \ {t} : pc'[u] = pc[u] /\ on'[u] = on[u]
        /\ \/ pc[t] \in RegisteredSteps /\ pc'[t] \in RegisteredSteps /\ on'[t] = on[t]
           \/ pc[t] \notin RegisteredSteps /\ pc'[t] \notin RegisteredSteps
    BY <1>4 DEF PopItem, ReleaseSlot, PopNone, AfterPop, Goto, Finish, waiterVars, Types, Placed,
                RegisteredSteps
  <2>. QED BY <2>1, ListedAside
<1>5. CASE CountSenders(t) \/ ParkReturns(t)
  <2>1. /\ UNCHANGED waiting
        /\ \A u \in Threads \ {t} : pc'[u] = pc[u] /\ on'[u] = on[u]
        /\ \/ pc[t] \in RegisteredSteps /\ pc'[t] \in RegisteredSteps /\ on'[t] = on[t]
           \/ pc[t] \notin RegisteredSteps /\ pc'[t] \notin RegisteredSteps
    BY <1>5 DEF CountSenders, ParkReturns, At, Goto, Finish, waiterVars, Types, Placed,
                RegisteredSteps
  <2>. QED BY <2>1, ListedAside
<1>6. CASE Enlist(t)
  <2>. DEFINE c == on[t]
  <2>1. /\ pc[t] = "enlist" /\ pc' = [pc EXCEPT ![t] = "pop2"] /\ on' = on
        /\ waiting' = [waiting EXCEPT ![c] = Append(@, t)]
    BY <1>6 DEF Enlist, At, Register, Goto
  <2>2. c \in Chans /\ c \in Lists /\ waiting[c] \in Seq(Threads) /\ t \notin ToSet(waiting[c])
    BY <2>1, ChannelAssumption DEF Types, Placed, RecvSteps, WaiterTypes, Listed, RegisteredSteps
  <2>3. /\ ToSet(waiting'[c]) = ToSet(waiting[c]) \cup {t} /\ Once(waiting'[c])
        /\ \A d \in Chans \ {c} : waiting'[d] = waiting[d]
    BY <2>1, <2>2, ToSetAppend, ChannelAssumption DEF Listed, Types, WaiterTypes
  <2>4. pc'[t] \in RegisteredSteps /\ \A u \in Threads \ {t} : pc'[u] = pc[u]
    BY <2>1 DEF Types, Placed, RegisteredSteps
  <2>. QED BY <2>1, <2>2, <2>3, <2>4 DEF Listed, RegisteredSteps
<1>7. CASE Leave(t)
  <2>. DEFINE c == on[t]
  <2>1. /\ pc[t] \in RegisteredSteps /\ pc'[t] \notin RegisteredSteps
        /\ \A u \in Threads \ {t} : pc'[u] = pc[u] /\ on'[u] = on[u]
        /\ waiting' = [waiting EXCEPT ![c] = Without(@, t)]
    BY <1>7 DEF Leave, Unregister, Goto, Finish, Types, Placed, RegisteredSteps
  <2>2. c \in Chans /\ c \in Lists /\ waiting[c] \in Seq(Threads) /\ Once(waiting[c])
    BY <2>1, ChannelAssumption DEF Types, Placed, RegisteredSteps, RecvSteps, WaiterTypes, Listed
  <2>3. /\ ToSet(waiting'[c]) = ToSet(waiting[c]) \ {t} /\ Once(waiting'[c])
        /\ \A d \in Chans \ {c} : waiting'[d] = waiting[d]
    BY <2>1, <2>2, ToSetWithout, ChannelAssumption DEF Listed, Types, WaiterTypes
  <2>. QED BY <2>1, <2>2, <2>3 DEF Listed
<1>8. CASE WakeStep(t) /\ UNCHANGED chanVars
  BY <1>8, <1>1 DEF WakeStep, SnapshotOne, SnapshotAll, UnparkNext, SwapStack, VisitNode, ElectNode,
                    chanVars
<1>9. CASE \/ Spurious(t) \/ \E c \in Chans : DropSender(t, c) \/ DropReceiver(t, c)
  BY <1>9, <1>1 DEF Spurious, DropSender, DropReceiver
<1>10. ASSUME NEW u \in Threads, CloneHandle(t, u)
       PROVE  Listed'
  <2>1. /\ pc[u] \notin RegisteredSteps /\ pc'[u] \notin RegisteredSteps /\ UNCHANGED waiting
        /\ \A v \in Threads \ {u} : pc'[v] = pc[v] /\ on'[v] = on[v]
    BY <1>10 DEF CloneHandle, Goto, waiterVars, Types, Placed, RegisteredSteps
  <2>. QED BY <2>1, ListedAside
<1>. QED BY <1>2, <1>3, <1>4, <1>5, <1>6, <1>7, <1>8, <1>9, <1>10
         DEF Does, Acts, ChannelStep, SendStep, RecvStep, Voluntary

LEMMA UnbornStep ==
  ASSUME Types, Unborn, NEW t \in Threads, Does(t)
  PROVE  Unborn'
<1>1. CASE UNCHANGED <<pc, held>>
  BY <1>1 DEF Unborn
<1>2. ASSUME NEW to, to # "unborn", pc' = [pc EXCEPT ![t] = to], UNCHANGED held
      PROVE  Unborn'
  BY <1>2 DEF Unborn, Types, Placed
<1>3. CASE \E c \in Chans : SendCall(t, c) \/ RecvCall(t, c) \/ TryRecvCall(t, c)
  BY <1>2, <1>3 DEF SendCall, RecvCall, TryRecvCall, Start
<1>4. CASE SendStep(t)
  BY <1>2, <1>4 DEF SendStep, CheckReceivers, PushItem, PublishItem, Goto, Finish
<1>5. CASE RecvStep(t)
  BY <1>2, <1>5 DEF RecvStep, PopItem, ReleaseSlot, PopNone, CountSenders, Enlist, ParkReturns, Leave,
                    AfterPop, Goto, Finish
<1>6. CASE (WakeStep(t) /\ UNCHANGED chanVars) \/ Spurious(t)
  BY <1>1, <1>6 DEF chanVars, Spurious
<1>7. CASE \E c \in Chans : DropSender(t, c) \/ DropReceiver(t, c)
  BY <1>7 DEF DropSender, DropReceiver, Unborn, At, Types
<1>8. CASE \E u \in Threads : CloneHandle(t, u)
  BY <1>8 DEF CloneHandle, Goto, Unborn, Types, Placed
<1>. QED BY <1>3, <1>4, <1>5, <1>6, <1>7, <1>8 DEF Does, Acts, ChannelStep, Voluntary

-----------------------------------------------------------------------------
(* Wake-ups on the mpsc channels.  From its second look at the queue on, a  *)
(* registered receive that an item is there for is woken or about to be; so *)
(* is a parked one when the last sender has gone.                           *)
Mpsc == {BoundedMpsc, UnboundedMpsc}

Noticed ==
  \A t \in Threads : \A c \in Chans :
    on[t] = c /\ flavour[c] \in Mpsc =>
      /\ pc[t] \in {"count2", "park"} /\ CanTake(q[c]) => Woken(t, c)
      /\ pc[t] = "park" /\ Senders(c) = {} => Woken(t, c)

LEMMA MpscWords ==
  ASSUME NEW f \in Mpsc
  PROVE  1 \in DOMAIN f.sent /\ f.sent[1] = "wake_all_unselected"
<1>1. f.sent = <<"wake_all_unselected", "select_one">>
  BY DEF Mpsc, BoundedMpsc, UnboundedMpsc
<1>. QED BY <1>1

(* A step that takes thread t nowhere, nor gives it a reason to return.     *)
LEMMA NoticedAside ==
  ASSUME Noticed, NEW t \in Threads, NEW c \in Chans, on[t] = c, flavour[c] \in Mpsc,
         \/ pc[t] \in {"count2", "park"} /\ CanTake(q[c])
         \/ pc[t] = "park" /\ Senders(c) = {},
         permit[t] => permit'[t],
         \A u \in Threads : ToSet(calls[u]) \subseteq ToSet(calls'[u])
  PROVE  Woken(t, c)'
<1>1. Woken(t, c)
  BY DEF Noticed
<1>2. c \in Lists
  BY ChannelAssumption
<1>. QED BY <1>1, <1>2, StaysWoken

LEMMA NoticedStep ==
  ASSUME Types, Types', Listed, Unborn, Noticed, [Next]_vars
  PROVE  Noticed'
<1>. SUFFICES ASSUME NEW t \in Threads, NEW c \in Chans, on'[t] = c, flavour'[c] \in Mpsc,
                     \/ pc'[t] \in {"count2", "park"} /\ CanTake(q[c])'
                     \/ pc'[t] = "park" /\ Senders(c)' = {}
              PROVE  Woken(t, c)'
  BY DEF Noticed
<1>0. c \in Lists
  BY ChannelAssumption
<1>1. CASE UNCHANGED <<flavour, q, held, pc, on, permit, calls>>
  BY <1>1, NoticedAside DEF Senders, CanTake
<1>. SUFFICES ASSUME NEW u \in Threads, ChannelStep(u) \/ Voluntary(u) \/ \E d \in Chans : SendCall(u, d)
              PROVE  Woken(t, c)'
  BY <1>1 DEF Next, Over, vars, chanVars, waiterVars
<1>2. CASE \/ \E d \in Chans : SendCall(u, d) \/ RecvCall(u, d) \/ TryRecvCall(u, d)
           \/ CheckReceivers(u) \/ PopNone(u) \/ CountSenders(u) \/ Enlist(u) \/ Leave(u)
  <2>1. UNCHANGED <<flavour, q, held, permit, calls>>
    BY <1>2 DEF SendCall, RecvCall, TryRecvCall, Start, CheckReceivers, PopNone, CountSenders, Enlist,
                Leave, waiterVars
  <2>2. CanTake(q[c])' = CanTake(q[c]) /\ Senders(c)' = Senders(c)
    BY <2>1 DEF CanTake, Senders
  <2>3. CASE u # t
    <3>1. pc'[t] = pc[t] /\ on'[t] = on[t]
      BY <1>2, <2>3 DEF SendCall, RecvCall, TryRecvCall, Start, CheckReceivers, PopNone, CountSenders,
                        Enlist, Leave, Goto, Finish, Types, Placed
    <3>. QED BY <2>1, <2>2, <3>1, NoticedAside
  <2>4. CASE u = t
    <3>1. CASE PopNone(t)
      <4>1. pc'[t] # "park" /\ on'[t] = on[t] /\ ~CanTake(q[on[t]])
        BY <3>1 DEF PopNone, Goto, Types, Placed
      <4>. QED BY <4>1, <2>2
    <3>2. CASE CountSenders(t)
      <4>1. /\ pc[t] = "count2" /\ pc'[t] = "park" /\ on'[t] = on[t]
            /\ Senders(on[t]) # {}
        BY <3>2 DEF CountSenders, Goto, Finish, Types, Placed
      <4>. QED BY <2>1, <2>2, <4>1, NoticedAside
    <3>3. CASE ~PopNone(t) /\ ~CountSenders(t)
      <4>1. pc'[t] \notin {"count2", "park"}
        BY <1>2, <2>4, <3>3 DEF SendCall, RecvCall, TryRecvCall, Start, CheckReceivers,
                  Enlist, Leave, Goto, Finish, Types, Placed
      <4>. QED BY <4>1
    <3>. QED BY <3>1, <3>2, <3>3
  <2>. QED BY <2>3, <2>4
<1>3. CASE ParkReturns(u)
  <2>1. UNCHANGED <<flavour, q, held, calls>>
    BY <1>3 DEF ParkReturns
  <2>2. CanTake(q[c])' = CanTake(q[c]) /\ Senders(c)' = Senders(c)
    BY <2>1 DEF CanTake, Senders
  <2>3. u # t
    BY <1>3 DEF ParkReturns, Goto, Types, Placed
  <2>4. pc'[t] = pc[t] /\ on'[t] = on[t] /\ permit'[t] = permit[t]
    BY <1>3, <2>3 DEF ParkReturns, Goto, Types, Placed, WaiterTypes
  <2>. QED BY <2>1, <2>2, <2>4, NoticedAside
<1>4. CASE Spurious(u)
  <2>1. UNCHANGED <<flavour, q, held, calls, pc, on>> /\ (permit[t] => permit'[t])
    BY <1>4 DEF Spurious, Types, WaiterTypes
  <2>2. CanTake(q[c])' = CanTake(q[c]) /\ Senders(c)' = Senders(c)
    BY <2>1 DEF CanTake, Senders
  <2>. QED BY <2>1, <2>2, NoticedAside
<1>5. CASE PushItem(u) \/ PublishItem(u)
  <2>. DEFINE d == on[u]
  <2>1. /\ UNCHANGED <<flavour, held, permit>> /\ d \in Chans /\ Free(u)
        /\ pc[u] \in {"push", "publish"} /\ pc'[u] \in {"idle", "publish"}
        /\ \A v \in Threads \ {u} : pc'[v] = pc[v] /\ on'[v] = on[v]
    BY <1>5 DEF PushItem, PublishItem, At, Goto, Finish, Types, Placed, SendSteps
  <2>2. u # t /\ pc'[t] = pc[t] /\ on'[t] = on[t]
    BY <2>1
  <2>3. flavour[d].sent \in Seq(Words)
    BY <2>1, FlavourWords
  <2>4. CASE Then(u, flavour[d].sent, d)
    <3>1. /\ \A v \in Threads : ToSet(calls[v]) \subseteq ToSet(calls'[v])
          /\ \A i \in DOMAIN flavour[d].sent : CallFor(flavour[d].sent[i], d) \in ToSet(calls'[u])
      BY <2>1, <2>3, <2>4, ThenTyped
    <3>2. CASE d = c
      <4>1. CallFor("wake_all_unselected", c) \in ToSet(calls'[u])
        BY <2>1, <3>1, <3>2, MpscWords
      <4>2. CallFor("wake_all_unselected", c) = [op |-> "wake_all_unselected", on |-> c]
        BY DEF CallFor, WakeAllUnselected
      <4>. QED BY <4>1, <4>2 DEF Woken, Wakes
    <3>3. CASE d # c
      <4>1. q'[c] = q[c]
        BY <1>5, <2>1, <3>3 DEF PushItem, PublishItem, Types
      <4>2. CanTake(q[c])' = CanTake(q[c]) /\ Senders(c)' = Senders(c)
        BY <4>1, <2>1 DEF CanTake, Senders
      <4>. QED BY <2>1, <2>2, <3>1, <4>2, NoticedAside
    <3>. QED BY <3>2, <3>3
  <2>5. CASE ~Then(u, flavour[d].sent, d)
    <3>1. UNCHANGED calls /\ (q' = q \/ q' = [q EXCEPT ![d] = Claim(@)])
      BY <1>5, <2>5 DEF PushItem, PublishItem, NothingToWake
    <3>2. q'[c].ready = q[c].ready /\ q'[c].head = q[c].head
      BY <3>1 DEF Claim, Types, Rings
    <3>3. CanTake(q[c])' = CanTake(q[c]) /\ Senders(c)' = Senders(c)
      BY <3>2, <2>1 DEF CanTake, Senders
    <3>. QED BY <2>1, <2>2, <3>1, <3>3, NoticedAside
  <2>. QED BY <2>4, <2>5
<1>6. CASE PopItem(u)
  <2>. DEFINE d == on[u]
  <2>1. /\ UNCHANGED <<flavour, held, permit, calls>> /\ d \in Chans /\ CanTake(q[d])
        /\ pc'[u] \notin {"count2", "park"}
        /\ \A v \in Threads \ {u} : pc'[v] = pc[v] /\ on'[v] = on[v]
    BY <1>6 DEF PopItem, AfterPop, Goto, Finish, Types, Placed, RecvSteps, waiterVars
  <2>2. u # t /\ pc'[t] = pc[t] /\ on'[t] = on[t]
    BY <2>1
  <2>3. CanTake(q[c])' => CanTake(q[c])
    <3>1. CASE d = c
      BY <3>1, <2>1
    <3>2. CASE d # c
      BY <1>6, <3>2 DEF PopItem, CanTake, Types
    <3>. QED BY <3>1, <3>2
  <2>4. Senders(c)' = Senders(c)
    BY <2>1 DEF Senders
  <2>. QED BY <2>1, <2>2, <2>3, <2>4, NoticedAside
<1>7. CASE ReleaseSlot(u)
  <2>. DEFINE d == on[u]
  <2>1. /\ UNCHANGED <<flavour, held, permit>> /\ d \in Chans /\ Free(u)
        /\ pc'[u] \notin {"count2", "park"}
        /\ \A v \in Threads \ {u} : pc'[v] = pc[v] /\ on'[v] = on[v]
        /\ Then(u, flavour[d].popped, d)
    BY <1>7 DEF ReleaseSlot, AfterPop, Goto, Finish, Types, Placed, RecvSteps
  <2>2. u # t /\ pc'[t] = pc[t] /\ on'[t] = on[t]
    BY <2>1
  <2>3. q'[c].ready = q[c].ready /\ q'[c].head = q[c].head
    BY <1>7 DEF ReleaseSlot, Release, Types, Rings
  <2>4. CanTake(q[c])' = CanTake(q[c]) /\ Senders(c)' = Senders(c)
    BY <2>1, <2>3 DEF CanTake, Senders
  <2>5. flavour[d].popped \in Seq(Words)
    BY <2>1, FlavourWords
  <2>6. \A v \in Threads : ToSet(calls[v]) \subseteq ToSet(calls'[v])
    BY <2>1, <2>5, ThenTyped
  <2>. QED BY <2>1, <2>2, <2>4, <2>6, NoticedAside
<1>8. CASE WakeStep(u) /\ UNCHANGED chanVars
  <2>1. CanTake(q[c])' = CanTake(q[c]) /\ Senders(c)' = Senders(c) /\ UNCHANGED <<flavour, pc, on>>
    BY <1>8 DEF CanTake, Senders, chanVars
  <2>2. Woken(t, c) /\ t \in ToSet(waiting[c])
    BY <2>1 DEF Noticed, Listed, RegisteredSteps
  <2>. QED BY <1>0, <1>8, <2>2, WakeStepWakes DEF Types, NodesOK, OwnNodes
<1>9. ASSUME NEW d \in Chans, DropSender(u, d)
      PROVE  Woken(t, c)'
  <2>1. /\ UNCHANGED <<flavour, q, pc, on, permit>> /\ Free(u)
        /\ <<d, "send">> \in held[u]
        /\ held' = [held EXCEPT ![u] = @ \ {<<d, "send">>}]
    BY <1>9 DEF DropSender, At
  <2>2. CanTake(q[c])' = CanTake(q[c])
    BY <2>1 DEF CanTake
  <2>3. flavour[d].orphaned \in Seq(Words) /\ 1 \in DOMAIN flavour[d].orphaned
        /\ flavour[d].orphaned[1] = "wake_all"
    BY FlavourWords
  <2>4. CASE d = c /\ Senders(c) = {u}
    <3>1. CallFor("wake_all", c) \in ToSet(calls'[u])
      BY <1>9, <2>1, <2>3, <2>4, ThenTyped DEF DropSender
    <3>2. CallFor("wake_all", c) = [op |-> "wake_all", on |-> c]
      BY DEF CallFor, WakeAll
    <3>. QED BY <3>1, <3>2 DEF Woken, Wakes
  <2>5. CASE ~(d = c /\ Senders(c) = {u})
    <3>1. Senders(c)' = {} => Senders(c) = {}
      BY <2>1, <2>5 DEF Senders, Types
    <3>2. \A v \in Threads : ToSet(calls[v]) \subseteq ToSet(calls'[v])
      BY <1>9, <2>1, <2>3, ThenTyped DEF DropSender, NothingToWake
    <3>. QED BY <2>1, <2>2, <3>1, <3>2, NoticedAside
  <2>. QED BY <2>4, <2>5
<1>10. ASSUME NEW d \in Chans, DropReceiver(u, d)
       PROVE  Woken(t, c)'
  <2>1. /\ UNCHANGED <<flavour, q, pc, on, permit>> /\ Free(u)
        /\ held' = [held EXCEPT ![u] = @ \ {<<d, "recv">>}]
    BY <1>10 DEF DropReceiver, At
  <2>2. CanTake(q[c])' = CanTake(q[c]) /\ Senders(c)' = Senders(c)
    BY <2>1 DEF CanTake, Senders, Types
  <2>3. \A v \in Threads : ToSet(calls[v]) \subseteq ToSet(calls'[v])
    BY <1>10, <2>1, FlavourWords, ThenTyped DEF DropReceiver, NothingToWake
  <2>. QED BY <2>1, <2>2, <2>3, NoticedAside
<1>11. ASSUME NEW v \in Threads, CloneHandle(u, v)
       PROVE  Woken(t, c)'
  <2>1. /\ UNCHANGED <<flavour, q, on, permit, calls>> /\ pc[v] = "unborn"
        /\ held' = [held EXCEPT ![v] = {Offspring[v]}]
        /\ pc' = [pc EXCEPT ![v] = "idle"]
    BY <1>11 DEF CloneHandle, waiterVars, Goto
  <2>2. CanTake(q[c])' = CanTake(q[c])
    BY <2>1 DEF CanTake
  <2>3. Senders(c)' = {} => Senders(c) = {}
    BY <2>1 DEF Senders, Types, Unborn
  <2>4. v # t /\ pc'[t] = pc[t]
    BY <2>1 DEF Types, Placed
  <2>. QED BY <2>1, <2>2, <2>3, <2>4, NoticedAside
<1>. QED BY <1>2, <1>3, <1>4, <1>5, <1>6, <1>7, <1>8, <1>9, <1>10, <1>11
         DEF ChannelStep, SendStep, RecvStep, Voluntary

-----------------------------------------------------------------------------
ChannelInv == Types /\ RingInv /\ Listed /\ Unborn

LEMMA ChannelInvDoes ==
  ASSUME ChannelInv, NEW t \in Threads, Does(t)
  PROVE  ChannelInv'
  BY TypesStep, RingStep, ListedStep, UnbornStep DEF ChannelInv

(* A program without select calls.                                          *)
Plain == \A t \in Threads : pc[t] \notin SelectSteps

(* It neither begins a select call nor ends one, nor takes its handles away. *)
LEMMA SelectorsLeft ==
  ASSUME Types, NEW t \in Threads, Does(t)
  PROVE  \A u \in Threads : pc[u] \in SelectSteps \/ pc'[u] \in SelectSteps =>
           pc'[u] = pc[u] /\ held'[u] = held[u]
<1>1. ASSUME NEW u \in Threads, pc[u] \notin SelectSteps, NEW to, to \notin SelectSteps,
             pc' = [pc EXCEPT ![u] = to], held' = held \/ \E h : held' = [held EXCEPT ![u] = h]
      PROVE  \A v \in Threads : pc[v] \in SelectSteps \/ pc'[v] \in SelectSteps =>
               pc'[v] = pc[v] /\ held'[v] = held[v]
  BY <1>1 DEF Types, Placed
<1>2. CASE UNCHANGED <<pc, held>>
  BY <1>2
<1>3. CASE \E c \in Chans : SendCall(t, c) \/ RecvCall(t, c) \/ TryRecvCall(t, c)
  BY <1>1, <1>3 DEF SendCall, RecvCall, TryRecvCall, Start, At, SelectSteps
<1>4. CASE SendStep(t)
  BY <1>1, <1>4 DEF SendStep, CheckReceivers, PushItem, PublishItem, At, Goto, Finish, SelectSteps
<1>5. CASE RecvStep(t)
  <2>1. pc[t] \notin SelectSteps
    BY <1>5 DEF RecvStep, PopItem, ReleaseSlot, PopNone, CountSenders, Enlist, ParkReturns, Leave, At,
                SelectSteps
  <2>2. held' = held
    BY <1>5 DEF RecvStep, PopItem, ReleaseSlot, PopNone, CountSenders, Enlist, ParkReturns, Leave
  <2>3. \E to : to \notin SelectSteps /\ pc' = [pc EXCEPT ![t] = to]
    BY <1>5 DEF RecvStep, PopItem, ReleaseSlot, PopNone, CountSenders, Enlist, ParkReturns, Leave,
                AfterPop, Goto, Finish, SelectSteps
  <2>. QED BY <1>1, <2>1, <2>2, <2>3
<1>6. CASE (WakeStep(t) /\ UNCHANGED chanVars) \/ Spurious(t)
  BY <1>2, <1>6 DEF chanVars, Spurious
<1>7. CASE \E c \in Chans : DropSender(t, c) \/ DropReceiver(t, c)
  <2>1. /\ pc[t] = "idle" /\ pc' = pc /\ \E h : held' = [held EXCEPT ![t] = h]
    BY <1>7 DEF DropSender, DropReceiver, At
  <2>2. "idle" \notin SelectSteps
    BY DEF SelectSteps
  <2>. QED BY <2>1, <2>2 DEF Types
<1>8. CASE \E u \in Threads : CloneHandle(t, u)
  BY <1>1, <1>8 DEF CloneHandle, Goto, SelectSteps
<1>. QED BY <1>3, <1>4, <1>5, <1>6, <1>7, <1>8 DEF Does, Acts, Voluntary

LEMMA PlainDoes ==
  ASSUME Types, Plain, NEW t \in Threads,
         ChannelStep(t) \/ Voluntary(t) \/ \E c \in Chans : SendCall(t, c)
  PROVE  Does(t) /\ Plain'
<1>1. \A c \in Chans : Promised(c) = SendsUnderWay(c)
  BY DEF Plain, Promised, SelectSteps, Selectors
<1>2. Does(t)
  BY <1>1 DEF Does, Acts, ChannelStep, SendCall, RoomFor
<1>. QED BY <1>2, SelectorsLeft DEF Plain

LEMMA Invariance == Spec => [](ChannelInv /\ Plain)
<1>1. Init => ChannelInv /\ Plain
  BY TypesInit DEF ChannelInv, RingInv, Plain, Init, ChannelInit, SelectSteps
<1>2. ChannelInv /\ Plain /\ [Next]_vars => (ChannelInv /\ Plain)'
  <2>. SUFFICES ASSUME ChannelInv, Plain, [Next]_vars PROVE ChannelInv' /\ Plain'
    OBVIOUS
  <2>1. CASE UNCHANGED vars
    BY <2>1 DEF vars, waiterVars, chanVars, ChannelInv, Types, Placed, WaiterTypes, RingInv, Window,
       Room, Claims, Promised, SendsUnderWay, Listed, Unborn, Plain
  <2>2. ASSUME NEW t \in Threads, ChannelStep(t) \/ Voluntary(t) \/ \E c \in Chans : SendCall(t, c)
        PROVE  ChannelInv' /\ Plain'
    BY <2>2, PlainDoes, ChannelInvDoes DEF ChannelInv
  <2>. QED BY <2>1, <2>2 DEF Next, Over
<1>. QED BY <1>1, <1>2, PTL DEF Spec

LEMMA WindowBounds ==
  ASSUME ChannelInv, NEW c \in Chans
  PROVE  /\ q[c].tail \in 0 .. MaxItems[c]
         /\ q[c].head \in 0 .. q[c].tail
         /\ q[c].ready \subseteq q[c].head .. (q[c].tail - 1)
         /\ q[c].reading \subseteq 0 .. (q[c].head - 1)
<1>1. /\ q[c].tail \in Nat /\ q[c].head \in Nat /\ MaxItems[c] \in Nat
      /\ q[c].tail + Cardinality(Promised(c)) <= MaxItems[c]
      /\ q[c].head <= q[c].tail
  BY ChannelAssumption DEF ChannelInv, Types, Rings, RingInv, Window, Room
<1>2. Cardinality(Promised(c)) \in Nat
  BY SendsCounted
<1>3. q[c].tail \in 0 .. MaxItems[c] /\ q[c].head \in 0 .. q[c].tail
  BY <1>1, <1>2
<1>. QED BY <1>3 DEF ChannelInv, RingInv, Window

(* The types of the state, and the window of every queue: producers are     *)
(* never behind consumers, at most MaxItems items are claimed, and what is  *)
(* published or being read lies where it should.                            *)
THEOREM TypeCorrect == Spec => []TypeOK
<1>1. ChannelInv /\ Plain => TypeOK
  <2>. SUFFICES ASSUME ChannelInv, Plain PROVE TypeOK
    OBVIOUS
  <2>2. \A t \in Threads : pc[t] \in RecvSteps \cup SendSteps => on[t] # NoChan
    BY ChannelAssumption DEF ChannelInv, Types, Placed
  <2>3. \A c \in Chans : ToSet(waiting[c]) \subseteq Threads
    BY ChannelAssumption DEF ChannelInv, Types, WaiterTypes, ToSet
  <2>. QED BY WindowBounds, <2>2, <2>3
           DEF ChannelInv, Types, Placed, WaiterTypes, TypeOK, ChannelTypeOK, Steps, Plain
<1>. QED BY <1>1, Invariance, PTL

(* RecvWaiterGuard: a receive is in the waiter list of its channel from its *)
(* registration to the drop of its guard, once, and nobody else is.         *)
THEOREM ListsExact == Spec => []WaitersRegistered
<1>1. ChannelInv => WaitersRegistered
  <2>. SUFFICES ASSUME ChannelInv, NEW c \in Chans
                PROVE  /\ ToSet(waiting[c]) = {t \in Threads : on[t] = c /\ pc[t] \in RegisteredSteps}
                       /\ Len(waiting[c]) = Cardinality(ToSet(waiting[c]))
    BY DEF WaitersRegistered, RegisteredSteps
  <2>1. waiting[c] \in Seq(Threads) /\ Once(waiting[c])
    BY ChannelAssumption DEF ChannelInv, Types, WaiterTypes, Listed
  <2>2. ToSet(waiting[c]) \subseteq Threads
    BY <2>1 DEF ToSet
  <2>3. Len(waiting[c]) = Cardinality(ToSet(waiting[c]))
    BY <2>1, LenOfOnce
  <2>. QED BY <2>2, <2>3 DEF ChannelInv, Listed
<1>. QED BY <1>1, Invariance, PTL

(* The queue channels with one consumer's wake rule, bounded or not: a      *)
(* receive is not left in park while an item is there or no sender is left. *)
THEOREM MpscLosesNoWakeup ==
  ASSUME \A f \in Flavourings : f \in [Chans -> {BoundedMpsc, UnboundedMpsc}]
  PROVE  Spec => []NoLostWakeup
<1>1. Init => Noticed
  <2>. SUFFICES ASSUME Init PROVE Noticed
    OBVIOUS
  <2>1. \A t \in Threads : pc[t] \notin {"count2", "park"}
    BY DEF Init, ChannelInit
  <2>. QED BY <2>1 DEF Noticed
<1>2. Noticed /\ ChannelInv /\ ChannelInv' /\ [Next]_vars => Noticed'
  BY NoticedStep DEF ChannelInv
<1>3. Noticed /\ ChannelInv => NoLostWakeup
  <2>. SUFFICES ASSUME Noticed, ChannelInv, NEW t \in Threads, pc[t] = "park", Due(on[t])
                PROVE  permit[t] \/ \E u \in Threads : WillWake(u, t, on[t])
    BY DEF NoLostWakeup
  <2>1. on[t] \in Chans /\ flavour[on[t]] \in Mpsc
    BY DEF ChannelInv, Types, Placed, RecvSteps, Mpsc
  <2>2. Woken(t, on[t])
    BY <2>1 DEF Noticed, Due
  <2>. QED BY <2>2 DEF Woken, Wakes, WillWake, ToSet
<1>. QED BY <1>1, <1>2, <1>3, Invariance, PTL DEF Spec

-----------------------------------------------------------------------------
(* Select: the local variables of a call, with the nodes it has pushed.     *)
Probing == {"probe", "probe_second", "probe_count"}

Locals == [phase : {"try", "recheck"}, arm : Nat, left : Int, seen : Nat, round : Nat,
           node : OwnNodes \cup {NoNode}, deadline : {"none", "ahead", "passed"}]

(* Where a call is in its arms: at one of them; in its second sweep and in  *)
(* the loops around it, with as many before it as it has done.              *)
InArms(t, at, s) ==
  /\ at \in SelectSteps => s.arm \in DOMAIN Arms[t]
  /\ at \in SelectSteps \ Probing \/ s.phase = "recheck" => s.round \in Rounds
  /\ \/ at \in SelectSteps \ (Probing \cup {"judge"})
     \/ at \in Probing /\ s.phase = "recheck"
     => s.arm + s.left = Len(Arms[t]) + 1
  /\ at = "walk" => s.node \in OwnNodes
  /\ at \in {"decide", "sleep"} => s.arm = 1

Selecting ==
  /\ sel \in [Threads -> Locals]
  /\ timed \in 0 .. MaxTimed
  /\ \A t \in Threads : InArms(t, pc[t], sel[t])
  /\ \A t \in Threads : pc[t] \in SelectSteps => ToSet(Arms[t]) \subseteq held[t]
  /\ \A t \in Threads, r \in Rounds :
       selected[t][r] # Unselected => selected[t][r] \in DOMAIN Arms[t]

LEMMA ArmsTyped ==
  ASSUME NEW t \in Threads, NEW i \in DOMAIN Arms[t]
  PROVE  /\ Arms[t][i] \in Chans \X {"recv", "send"} /\ Arms[t][i] \in Stacks
         /\ Arms[t][i] \in ToSet(Arms[t])
         /\ i \in Nat \ {0} /\ Len(Arms[t]) \in Nat /\ DOMAIN Arms[t] = 1 .. Len(Arms[t])
         /\ t \in Selectors
<1>1. Arms[t] \in Seq(Chans \X {"recv", "send"})
  BY SelectAssumption
<1>2. Len(Arms[t]) \in Nat /\ DOMAIN Arms[t] = 1 .. Len(Arms[t])
  BY <1>1
<1>3. Arms[t][i] \in Chans \X {"recv", "send"}
  BY <1>1, <1>2
<1>4. t \in Selectors
  BY <1>2 DEF Selectors
<1>. QED BY <1>2, <1>3, <1>4, ChannelAssumption DEF ToSet

(* A step of select_impl goes on to another step of it, or ends the call.   *)
GoesOn(t) ==
  \E to \in SelectSteps, s \in Locals :
    /\ pc' = [pc EXCEPT ![t] = to] /\ on' = on /\ sel' = [sel EXCEPT ![t] = s]
    /\ InArms(t, to, s)
Completes(t) ==
  \E i \in DOMAIN Arms[t] : CompleteArm(t, i)

LEMMA LoopsStart ==
  ASSUME NEW t \in Threads, NEW s \in Locals, NEW i \in DOMAIN Arms[t]
  PROVE  /\ From(s, t, i) \in Locals
         /\ From(s, t, i).arm = i /\ From(s, t, i).left = Len(Arms[t])
         /\ From(s, t, i).phase = s.phase /\ From(s, t, i).round = s.round
         /\ From(s, t, i).node = s.node
<1>. DEFINE n == Len(Arms[t])
<1>1. i \in Nat /\ n \in Nat
  BY ArmsTyped
<1>. HIDE DEF n
<1>2. From(s, t, i) = [[[s EXCEPT !.arm = i] EXCEPT !.left = n] EXCEPT !.seen = 0]
  BY DEF From, Locals, n
<1>. DEFINE s1 == [s EXCEPT !.arm = i]
            s2 == [s1 EXCEPT !.left = n]
<1>3. /\ s1 \in Locals /\ s1.arm = i /\ s1.phase = s.phase /\ s1.round = s.round /\ s1.node = s.node
  BY <1>1 DEF Locals
<1>. HIDE DEF s1
<1>4. /\ s2 \in Locals /\ s2.arm = i /\ s2.left = n
      /\ s2.phase = s.phase /\ s2.round = s.round /\ s2.node = s.node
  BY <1>1, <1>3 DEF Locals
<1>5. From(s, t, i) = [s2 EXCEPT !.seen = 0]
  BY <1>2 DEF s1
<1>. HIDE DEF s2
<1>. QED BY <1>4, <1>5 DEF Locals, n

LEMMA LoopsGoOn ==
  ASSUME NEW t \in Threads, NEW s \in Locals, s.arm \in DOMAIN Arms[t]
  PROVE  /\ Further(s, t) \in Locals
         /\ Further(s, t).arm \in DOMAIN Arms[t] /\ Further(s, t).left = s.left - 1
         /\ s.arm # Len(Arms[t]) => Further(s, t).arm = s.arm + 1
         /\ Further(s, t).phase = s.phase /\ Further(s, t).round = s.round
         /\ Further(s, t).node = s.node
<1>1. s.arm \in 1 .. Len(Arms[t]) /\ Len(Arms[t]) \in Nat /\ DOMAIN Arms[t] = 1 .. Len(Arms[t])
  BY ArmsTyped
<1>. DEFINE n == Len(Arms[t])
            i == s.arm
<1>2. i \in 1 .. n /\ n \in Nat
  BY <1>1
<1>. HIDE DEF n, i
<1>3. 1 + (i % n) \in 1 .. n /\ (i # n => 1 + (i % n) = i + 1)
  BY <1>2
<1>4. Further(s, t) = [[s EXCEPT !.arm = 1 + (i % n)] EXCEPT !.left = s.left - 1]
  BY DEF Further, Locals, i, n
<1>. DEFINE a == 1 + (i % n)
<1>5. a \in 1 .. n /\ (i # n => a = i + 1) /\ Further(s, t) = [[s EXCEPT !.arm = a] EXCEPT !.left = s.left - 1]
  BY <1>3, <1>4
<1>. HIDE DEF a
<1>6. a \in Nat
  BY <1>2, <1>5
<1>7. s.left - 1 \in Int
  BY DEF Locals
<1>. DEFINE b == s.left - 1
<1>8. b \in Int /\ Further(s, t) = [[s EXCEPT !.arm = a] EXCEPT !.left = b]
  BY <1>5, <1>7
<1>. HIDE DEF b
<1>9. /\ Further(s, t) \in Locals /\ Further(s, t).arm = a /\ Further(s, t).left = b
      /\ Further(s, t).phase = s.phase /\ Further(s, t).round = s.round
      /\ Further(s, t).node = s.node
  BY <1>6, <1>8 DEF Locals
<1>. QED BY <1>1, <1>5, <1>9 DEF n, i, b

LEMMA ProceedMoves ==
  ASSUME NEW t \in Threads, NEW to \in SelectSteps, NEW s \in Locals, InArms(t, to, s),
         Proceed(t, to, s)
  PROVE  GoesOn(t)
  BY DEF Proceed, Goto, Local, GoesOn

LEMMA ArmReadyMoves ==
  ASSUME Selecting, NEW t \in Threads, pc[t] \in Probing, ArmReady(t)
  PROVE  GoesOn(t) \/ Completes(t)
<1>1. /\ sel[t] \in Locals /\ sel[t].arm \in DOMAIN Arms[t]
      /\ sel[t].phase = "recheck" => sel[t].round \in Rounds
  BY DEF Selecting, InArms, Probing, SelectSteps
<1>2. 1 \in DOMAIN Arms[t] /\ Len(Arms[t]) \in Nat
  BY <1>1, ArmsTyped
<1>3. CASE sel[t].phase = "try" /\ CompleteArm(t, sel[t].arm)
  BY <1>1, <1>3 DEF Completes
<1>4. CASE sel[t].phase = "recheck" /\ Proceed(t, "decide", From(sel[t], t, 1))
  <2>. DEFINE s == From(sel[t], t, 1)
  <2>1. s \in Locals /\ s.arm = 1 /\ s.left = Len(Arms[t]) /\ s.round \in Rounds
    BY <1>1, <1>2, <1>4, LoopsStart
  <2>. HIDE DEF s
  <2>2. InArms(t, "decide", s)
    BY <2>1, <1>2 DEF InArms
  <2>3. Proceed(t, "decide", s) /\ "decide" \in SelectSteps
    BY <1>4 DEF s, SelectSteps
  <2>. QED BY <2>1, <2>2, <2>3, ProceedMoves
<1>. QED BY <1>3, <1>4 DEF ArmReady

LEMMA ArmNotReadyMoves ==
  ASSUME Selecting, NEW t \in Threads, pc[t] \in Probing, ArmNotReady(t)
  PROVE  GoesOn(t) \/ TakeDefault(t)
<1>1. /\ sel[t] \in Locals /\ sel[t].arm \in DOMAIN Arms[t]
      /\ sel[t].phase = "recheck" => /\ sel[t].round \in Rounds
                                     /\ sel[t].arm + sel[t].left = Len(Arms[t]) + 1
  BY DEF Selecting, InArms, Probing, SelectSteps
<1>2. 1 \in DOMAIN Arms[t] /\ Len(Arms[t]) \in Nat /\ sel[t].arm \in Nat /\ sel[t].left \in Int
  BY <1>1, ArmsTyped DEF Locals
<1>3. CASE ~LastArm(t) /\ Proceed(t, "probe", Further(sel[t], t))
  <2>. DEFINE s == Further(sel[t], t)
  <2>1. /\ s \in Locals /\ s.arm \in DOMAIN Arms[t] /\ s.left = sel[t].left - 1
        /\ sel[t].arm # Len(Arms[t]) => s.arm = sel[t].arm + 1
        /\ s.phase = sel[t].phase /\ s.round = sel[t].round
    BY <1>1, LoopsGoOn
  <2>. HIDE DEF s
  <2>2. s.phase = "recheck" => s.round \in Rounds /\ s.arm + s.left = Len(Arms[t]) + 1
    <3>. SUFFICES ASSUME s.phase = "recheck"
                  PROVE  s.round \in Rounds /\ s.arm + s.left = Len(Arms[t]) + 1
      OBVIOUS
    <3>. DEFINE n == Len(Arms[t])
                i == sel[t].arm
                k == sel[t].left
    <3>1. n \in Nat /\ i \in Nat /\ k \in Int /\ i + k = n + 1 /\ k # 1
      BY <1>1, <1>2, <1>3, <2>1 DEF LastArm
    <3>2. s.left = k - 1 /\ (i # n => s.arm = i + 1)
      BY <2>1
    <3>. HIDE DEF n, i, k
    <3>3. s.arm + s.left = n + 1
      BY <3>1, <3>2
    <3>. QED BY <3>3, <1>1, <2>1 DEF n
  <2>3. InArms(t, "probe", s)
    BY <2>1, <2>2 DEF InArms, Probing
  <2>4. Proceed(t, "probe", s) /\ "probe" \in SelectSteps
    BY <1>3 DEF s, SelectSteps
  <2>. QED BY <2>1, <2>3, <2>4, ProceedMoves
<1>4. CASE sel[t].phase = "recheck" /\ Proceed(t, "decide", From(sel[t], t, 1))
  <2>. DEFINE s == From(sel[t], t, 1)
  <2>1. s \in Locals /\ s.arm = 1 /\ s.left = Len(Arms[t]) /\ s.round \in Rounds
    BY <1>1, <1>2, <1>4, LoopsStart
  <2>. HIDE DEF s
  <2>2. InArms(t, "decide", s)
    BY <2>1, <1>2 DEF InArms
  <2>3. Proceed(t, "decide", s) /\ "decide" \in SelectSteps
    BY <1>4 DEF s, SelectSteps
  <2>. QED BY <2>1, <2>2, <2>3, ProceedMoves
<1>5. ASSUME NEW r, r \in Rounds, Proceed(t, "enrol", From([sel[t] EXCEPT !.round = r], t, 1))
      PROVE  GoesOn(t)
  <2>. DEFINE s0 == [sel[t] EXCEPT !.round = r]
              s == From(s0, t, 1)
  <2>1. s0 \in Locals /\ s0.round = r
    BY <1>1, <1>5, SelectAssumption DEF Locals
  <2>. HIDE DEF s0
  <2>2. s \in Locals /\ s.arm = 1 /\ s.left = Len(Arms[t]) /\ s.round = r
    BY <1>2, <2>1, LoopsStart
  <2>. HIDE DEF s
  <2>3. InArms(t, "enrol", s)
    BY <2>2, <1>2, <1>5 DEF InArms
  <2>4. Proceed(t, "enrol", s) /\ "enrol" \in SelectSteps
    BY <1>5 DEF s, s0, SelectSteps
  <2>. QED BY <2>2, <2>3, <2>4, ProceedMoves
<1>6. (\E r \in Rounds : Chained(t, r) = {}) => FreshRound(t) \in Rounds /\ Chained(t, FreshRound(t)) = {}
  BY DEF FreshRound
<1>. QED BY <1>3, <1>4, <1>5, <1>6 DEF ArmNotReady

LEMMA NextAbortMoves ==
  ASSUME Selecting, NEW t \in Threads, pc[t] \in {"abort", "walk"}, NextAbort(t)
  PROVE  GoesOn(t)
<1>1. /\ sel[t] \in Locals /\ sel[t].arm \in DOMAIN Arms[t] /\ sel[t].round \in Rounds
      /\ sel[t].arm + sel[t].left = Len(Arms[t]) + 1
  BY DEF Selecting, InArms, Probing, SelectSteps
<1>2. Len(Arms[t]) \in Nat /\ sel[t].arm \in Nat /\ sel[t].left \in Int
  BY <1>1, ArmsTyped DEF Locals
<1>3. CASE LastArm(t)
  <2>. DEFINE s == [sel[t] EXCEPT !.node = NoNode]
  <2>1. s \in Locals /\ s.arm = sel[t].arm /\ s.round = sel[t].round
    BY <1>1 DEF Locals
  <2>2. Proceed(t, "judge", s) /\ "judge" \in SelectSteps
    BY <1>3 DEF NextAbort, SelectSteps
  <2>. HIDE DEF s
  <2>3. InArms(t, "judge", s)
    BY <1>1, <2>1 DEF InArms, Probing
  <2>. QED BY <2>1, <2>2, <2>3, ProceedMoves
<1>4. CASE ~LastArm(t)
  <2>. DEFINE s0 == Further(sel[t], t)
              s == [s0 EXCEPT !.node = NoNode]
  <2>0. Proceed(t, "abort", s) /\ "abort" \in SelectSteps
    BY <1>4 DEF NextAbort, SelectSteps
  <2>1. /\ s0 \in Locals /\ s0.arm \in DOMAIN Arms[t] /\ s0.left = sel[t].left - 1
        /\ sel[t].arm # Len(Arms[t]) => s0.arm = sel[t].arm + 1
        /\ s0.round = sel[t].round
    BY <1>1, LoopsGoOn
  <2>. HIDE DEF s0
  <2>2. /\ s \in Locals /\ s.arm \in DOMAIN Arms[t] /\ s.round \in Rounds
        /\ s.arm = s0.arm /\ s.left = s0.left
    BY <1>1, <2>1 DEF Locals
  <2>. HIDE DEF s
  <2>3. s.arm + s.left = Len(Arms[t]) + 1
    <3>. DEFINE n == Len(Arms[t])
                i == sel[t].arm
                k == sel[t].left
    <3>1. n \in Nat /\ i \in Nat /\ k \in Int /\ i + k = n + 1 /\ k # 1
      BY <1>1, <1>2, <1>4 DEF LastArm
    <3>2. s.left = k - 1 /\ (i # n => s.arm = i + 1)
      BY <2>1, <2>2
    <3>. HIDE DEF n, i, k
    <3>3. s.arm + s.left = n + 1
      BY <3>1, <3>2
    <3>. QED BY <3>3 DEF n
  <2>4. InArms(t, "abort", s)
    BY <2>2, <2>3 DEF InArms
  <2>. QED BY <2>0, <2>2, <2>4, ProceedMoves
<1>. QED BY <1>3, <1>4

LEMMA ProbeMoves ==
  ASSUME Types, Selecting, NEW t \in Threads, ProbeFirst(t) \/ ProbeSecond(t) \/ ProbeCount(t)
  PROVE  GoesOn(t) \/ Completes(t) \/ TakeDefault(t)
<1>1. pc[t] \in Probing
  BY DEF ProbeFirst, ProbeSecond, ProbeCount, At, Probing
<1>2. sel[t] \in Locals /\ sel[t].arm \in DOMAIN Arms[t] /\ InArms(t, pc[t], sel[t])
  BY <1>1 DEF Selecting, InArms, Probing, SelectSteps
<1>3. CASE ArmReady(t) \/ ArmNotReady(t)
  BY <1>1, <1>3, ArmReadyMoves, ArmNotReadyMoves
<1>4. ASSUME NEW to \in Probing, NEW n \in Nat, Proceed(t, to, [sel[t] EXCEPT !.seen = n])
      PROVE  GoesOn(t)
  <2>. DEFINE s == [sel[t] EXCEPT !.seen = n]
  <2>1. /\ s \in Locals /\ s.arm = sel[t].arm /\ s.left = sel[t].left /\ s.phase = sel[t].phase
        /\ s.round = sel[t].round /\ s.node = sel[t].node
    BY <1>2 DEF Locals
  <2>2. Proceed(t, to, s) /\ to \in SelectSteps
    BY <1>4 DEF Probing, SelectSteps
  <2>. HIDE DEF s
  <2>3. InArms(t, to, s)
    BY <1>1, <1>2, <2>1 DEF InArms, Probing, SelectSteps
  <2>. QED BY <2>1, <2>2, <2>3, ProceedMoves
<1>5. CASE ProbeRing(t)
  <2>1. q[Chan(t)].tail \in Nat /\ q[Chan(t)].head \in Nat
    BY <1>2, ArmsTyped DEF Types, Rings, Chan, ArmOf
  <2>2. PICK n \in {q[Chan(t)].tail, q[Chan(t)].head} :
          Proceed(t, "probe_second", [sel[t] EXCEPT !.seen = n])
    BY <1>5 DEF ProbeRing
  <2>. QED BY <1>4, <2>1, <2>2 DEF Probing
<1>6. CASE Proceed(t, "probe_count", sel[t])
  <2>1. sel[t] = [sel[t] EXCEPT !.seen = sel[t].seen] /\ sel[t].seen \in Nat
    BY <1>2 DEF Locals
  <2>2. Proceed(t, "probe_count", [sel[t] EXCEPT !.seen = sel[t].seen])
    BY <1>6, <2>1
  <2>. QED BY <1>4, <2>1, <2>2 DEF Probing
<1>7. CASE Proceed(t, "probe_count", [sel[t] EXCEPT !.seen = 0])
  BY <1>4, <1>7 DEF Probing
<1>. QED BY <1>3, <1>5, <1>6, <1>7 DEF ProbeFirst, ProbeQueue, ProbeSecond, ProbeCount

LEMMA RegisterMoves ==
  ASSUME Selecting, NEW t \in Threads, RegisterArm(t)
  PROVE  GoesOn(t)
<1>1. /\ sel[t] \in Locals /\ sel[t].arm \in DOMAIN Arms[t] /\ sel[t].round \in Rounds
      /\ sel[t].arm + sel[t].left = Len(Arms[t]) + 1
  BY DEF RegisterArm, At, Selecting, InArms, Probing, SelectSteps
<1>2. /\ Len(Arms[t]) \in Nat /\ sel[t].arm \in Nat /\ sel[t].left \in Int /\ 1 \in DOMAIN Arms[t]
  BY <1>1, ArmsTyped DEF Locals
<1>3. CASE LastArm(t)
  <2>. DEFINE s0 == [sel[t] EXCEPT !.phase = "recheck"]
              s == From(s0, t, 1)
  <2>0. Proceed(t, "probe", s) /\ "probe" \in SelectSteps
    BY <1>3 DEF RegisterArm, SelectSteps
  <2>1. s0 \in Locals /\ s0.round = sel[t].round
    BY <1>1 DEF Locals
  <2>. HIDE DEF s0
  <2>2. s \in Locals /\ s.arm = 1 /\ s.left = Len(Arms[t]) /\ s.round = sel[t].round
    BY <1>2, <2>1, LoopsStart
  <2>. HIDE DEF s
  <2>3. InArms(t, "probe", s)
    BY <1>1, <1>2, <2>2 DEF InArms
  <2>. QED BY <2>0, <2>2, <2>3, ProceedMoves
<1>4. CASE ~LastArm(t)
  <2>. DEFINE s == Further(sel[t], t)
  <2>0. Proceed(t, "enrol", s) /\ "enrol" \in SelectSteps
    BY <1>4 DEF RegisterArm, SelectSteps
  <2>1. /\ s \in Locals /\ s.arm \in DOMAIN Arms[t] /\ s.left = sel[t].left - 1
        /\ sel[t].arm # Len(Arms[t]) => s.arm = sel[t].arm + 1
        /\ s.round = sel[t].round
    BY <1>1, LoopsGoOn
  <2>. HIDE DEF s
  <2>2. s.arm + s.left = Len(Arms[t]) + 1
    <3>. DEFINE n == Len(Arms[t])
                i == sel[t].arm
                k == sel[t].left
    <3>1. n \in Nat /\ i \in Nat /\ k \in Int /\ i + k = n + 1 /\ k # 1
      BY <1>1, <1>2, <1>4 DEF LastArm
    <3>2. s.left = k - 1 /\ (i # n => s.arm = i + 1)
      BY <2>1
    <3>. HIDE DEF n, i, k
    <3>3. s.arm + s.left = n + 1
      BY <3>1, <3>2
    <3>. QED BY <3>3 DEF n
  <2>3. InArms(t, "enrol", s)
    BY <1>1, <2>1, <2>2 DEF InArms
  <2>. QED BY <2>0, <2>1, <2>3, ProceedMoves
<1>. QED BY <1>3, <1>4

LEMMA SleepMoves ==
  ASSUME Selecting, NEW t \in Threads, Decide(t) \/ WakeUp(t)
  PROVE  GoesOn(t)
<1>1. PICK to \in {"sleep", "abort"} : Proceed(t, to, sel[t])
  BY DEF Decide, WakeUp
<1>2. sel[t] \in Locals /\ InArms(t, pc[t], sel[t]) /\ pc[t] \in {"decide", "sleep"}
  BY DEF Selecting, Decide, WakeUp, At
<1>3. InArms(t, to, sel[t]) /\ to \in SelectSteps
  BY <1>2 DEF InArms, SelectSteps, Probing
<1>. QED BY <1>1, <1>2, <1>3, ProceedMoves

LEMMA WalkMoves ==
  ASSUME Types, Selecting, NEW t \in Threads, AbortLoad(t) \/ Walk(t)
  PROVE  GoesOn(t)
<1>1. /\ pc[t] \in {"abort", "walk"} /\ sel[t] \in Locals /\ InArms(t, pc[t], sel[t])
      /\ sel[t].arm \in DOMAIN Arms[t]
  BY DEF AbortLoad, Walk, At, Selecting, InArms, SelectSteps
<1>2. CASE NextAbort(t)
  BY <1>1, <1>2, NextAbortMoves
<1>3. ASSUME NEW n \in OwnNodes, Proceed(t, "walk", [sel[t] EXCEPT !.node = n])
      PROVE  GoesOn(t)
  <2>. DEFINE s == [sel[t] EXCEPT !.node = n]
  <2>1. /\ s \in Locals /\ s.arm = sel[t].arm /\ s.left = sel[t].left /\ s.phase = sel[t].phase
        /\ s.round = sel[t].round /\ s.node = n
    BY <1>1 DEF Locals
  <2>2. Proceed(t, "walk", s) /\ "walk" \in SelectSteps
    BY <1>3 DEF SelectSteps
  <2>. HIDE DEF s
  <2>3. InArms(t, "walk", s)
    BY <1>1, <2>1 DEF InArms, Probing, SelectSteps
  <2>. QED BY <2>1, <2>2, <2>3, ProceedMoves
<1>4. CASE AbortLoad(t) /\ ~NextAbort(t)
  <2>1. Top(ArmOf(t)) # NoNode /\ Proceed(t, "walk", [sel[t] EXCEPT !.node = Top(ArmOf(t))])
    BY <1>4 DEF AbortLoad
  <2>2. ArmOf(t) \in Stacks
    BY <1>1, ArmsTyped DEF ArmOf
  <2>3. Top(ArmOf(t)) \in OwnNodes
    BY <2>1, <2>2, TopTyped DEF Types
  <2>. QED BY <1>3, <2>1, <2>3
<1>5. CASE Walk(t) /\ ~NextAbort(t)
  <2>1. PICK m \in Beyond(sel[t].node) :
          m # NoNode /\ Proceed(t, "walk", [sel[t] EXCEPT !.node = m])
    BY <1>5 DEF Walk
  <2>2. m \in OwnNodes
    BY <2>1, BeyondTyped DEF Types
  <2>. QED BY <1>3, <2>1, <2>2
<1>. QED BY <1>2, <1>4, <1>5

LEMMA JudgeMoves ==
  ASSUME Selecting, NEW t \in Threads, Judge(t)
  PROVE  GoesOn(t) \/ Completes(t) \/ TakeDefault(t)
<1>1. sel[t] \in Locals /\ sel[t].round \in Rounds /\ pc[t] = "judge"
  BY DEF Judge, At, Selecting, InArms, Probing, SelectSteps
<1>2. CASE Won(t) # Unselected /\ CompleteArm(t, Won(t))
  <2>1. Won(t) \in DOMAIN Arms[t]
    BY <1>1, <1>2 DEF Selecting, Won
  <2>. QED BY <1>2, <2>1 DEF Completes
<1>3. CASE Sweep(t)
  <2>. DEFINE s0 == [sel[t] EXCEPT !.phase = "try"]
  <2>1. PICK i \in DOMAIN Arms[t] : Proceed(t, "probe", From(s0, t, i))
    BY <1>3 DEF Sweep
  <2>. DEFINE s == From(s0, t, i)
  <2>2. s0 \in Locals /\ s0.phase = "try"
    BY <1>1 DEF Locals
  <2>3. Proceed(t, "probe", s) /\ "probe" \in SelectSteps
    BY <2>1 DEF SelectSteps
  <2>. HIDE DEF s0
  <2>4. s \in Locals /\ s.arm = i /\ s.phase = "try"
    BY <2>2, LoopsStart
  <2>. HIDE DEF s
  <2>5. InArms(t, "probe", s)
    BY <2>4 DEF InArms, Probing
  <2>. QED BY <2>3, <2>4, <2>5, ProceedMoves
<1>. QED BY <1>2, <1>3 DEF Judge

LEMMA SelectMoves ==
  ASSUME Types, Selecting, NEW t \in Threads, SelectStep(t)
  PROVE  /\ pc[t] \in SelectSteps /\ Free(t) /\ on[t] = NoChan
         /\ GoesOn(t) \/ Completes(t) \/ TakeDefault(t)
<1>1. pc[t] \in SelectSteps /\ Free(t)
  BY DEF SelectStep, ProbeFirst, ProbeSecond, ProbeCount, Decide, Judge, RegisterArm, WakeUp, AbortLoad,
         Walk, At, SelectSteps
<1>2. on[t] = NoChan
  BY <1>1 DEF Types, Placed, SelectSteps, RecvSteps, SendSteps
<1>. QED BY <1>1, <1>2, ProbeMoves, RegisterMoves, SleepMoves, WalkMoves, JudgeMoves DEF SelectStep

LEMMA NoSelectTyped ==
  /\ NoSelect \in Locals
  /\ NoSelect.phase = "try" /\ NoSelect.deadline = "none" /\ NoSelect.node = NoNode
  /\ NoSelect.arm = 1 /\ NoSelect.left = 0 /\ NoSelect.seen = 0 /\ NoSelect.round = 0
  BY DEF NoSelect, Locals

(* What becomes of the thread, and that it is the only one that moves.      *)
LEMMA SelectEnds ==
  ASSUME Types, Selecting, NEW t \in Threads, SelectStep(t)
  PROVE  /\ \A u \in Threads \ {t} : pc'[u] = pc[u] /\ on'[u] = on[u] /\ sel'[u] = sel[u]
         /\ \/ /\ pc'[t] \in SelectSteps /\ on'[t] = on[t]
               /\ sel'[t] \in Locals /\ InArms(t, pc'[t], sel'[t])
            \/ /\ pc'[t] \in {"pop", "check"} /\ on'[t] \in Chans /\ sel'[t] = NoSelect
               /\ <<on'[t], IF pc'[t] = "pop" THEN "recv" ELSE "send">> \in ToSet(Arms[t])
            \/ pc'[t] = "idle" /\ on'[t] = NoChan /\ sel'[t] = NoSelect
<1>1. pc \in [Threads -> Steps] /\ on \in [Threads -> Chans \cup {NoChan}] /\ sel \in [Threads -> Locals]
  BY DEF Types, Placed, Selecting
<1>2. CASE GoesOn(t)
  BY <1>1, <1>2 DEF GoesOn
<1>3. CASE Completes(t)
  <2>1. PICK i \in DOMAIN Arms[t] : CompleteArm(t, i)
    BY <1>3 DEF Completes
  <2>2. Arms[t][i] \in Chans \X {"recv", "send"} /\ Arms[t][i] \in ToSet(Arms[t])
    BY ArmsTyped
  <2>3. Arms[t][i] = <<Arms[t][i][1], Arms[t][i][2]>> /\ Arms[t][i][1] \in Chans
        /\ Arms[t][i][2] \in {"recv", "send"}
    BY <2>2
  <2>4. /\ pc' = [pc EXCEPT ![t] = IF Arms[t][i][2] = "recv" THEN "pop" ELSE "check"]
        /\ on' = [on EXCEPT ![t] = Arms[t][i][1]] /\ sel' = [sel EXCEPT ![t] = NoSelect]
    BY <2>1 DEF CompleteArm, Local
  <2>. QED BY <1>1, <2>2, <2>3, <2>4
<1>4. CASE TakeDefault(t)
  BY <1>1, <1>4 DEF TakeDefault, Finish, Local
<1>. QED BY <1>2, <1>3, <1>4, SelectMoves

(* What it does to the node lists, its permit and the winners of its turns. *)
LEMMA SelectWaiter ==
  ASSUME Types, Selecting, NEW t \in Threads, SelectStep(t)
  PROVE  /\ UNCHANGED <<flavour, q, held, pos, spurious, waiting, calls, timed>>
         /\ \A u \in Threads \ {t} : permit'[u] = permit[u] /\ selected'[u] = selected[u]
         /\ \A r \in Rounds : selected'[t][r] \in {selected[t][r], Unselected, sel[t].arm}
         /\ WaiterTypes(OwnNodes)'
<1>0. /\ UNCHANGED <<flavour, q, held, pos, spurious, waiting, calls, timed>>
      /\ pc[t] \in SelectSteps /\ WaiterTypes(OwnNodes)
      /\ sel[t] \in Locals /\ sel[t].arm \in DOMAIN Arms[t] /\ sel[t].arm \in Nat
      /\ InArms(t, pc[t], sel[t])
  BY SelectMoves DEF SelectStep, Selecting, InArms, Types, Locals
<1>1. /\ permit' \in [Threads -> BOOLEAN] /\ \A u \in Threads \ {t} : permit'[u] = permit[u]
  <2>1. permit' = permit \/ permit' = [permit EXCEPT ![t] = FALSE]
    BY DEF SelectStep, WakeUp
  <2>. QED BY <1>0, <2>1 DEF WaiterTypes
<1>2. stack' \in [Stacks -> Seq(OwnNodes)]
  <2>1. CASE RegisterArm(t)
    <3>. DEFINE n == <<t, sel[t].round, sel[t].arm>>
                s == ArmOf(t)
    <3>1. n \in OwnNodes
      <4>1. sel[t].round \in Rounds
        BY <1>0, <2>1 DEF RegisterArm, At, InArms, Probing, SelectSteps
      <4>. QED BY <1>0, <4>1 DEF OwnNodes
    <3>2. s \in Stacks
      BY <1>0, ArmsTyped DEF ArmOf
    <3>. HIDE DEF n, s
    <3>3. stack[s] \in Seq(OwnNodes) /\ <<n>> \in Seq(OwnNodes)
      BY <1>0, <3>1, <3>2 DEF WaiterTypes
    <3>4. <<n>> \o stack[s] \in Seq(OwnNodes)
      BY <3>3
    <3>5. stack' = stack \/ stack' = [stack EXCEPT ![s] = <<n>> \o @]
      BY <2>1 DEF RegisterArm, PushNode, n, s
    <3>. QED BY <1>0, <3>4, <3>5 DEF WaiterTypes
  <2>2. CASE ~RegisterArm(t)
    BY <1>0, <2>2 DEF SelectStep, WaiterTypes
  <2>. QED BY <2>1, <2>2
<1>3. aborted' \subseteq OwnNodes
  <2>1. CASE Walk(t)
    <3>1. sel[t].node \in OwnNodes
      BY <1>0, <2>1 DEF Walk, At, InArms
    <3>. QED BY <1>0, <2>1, <3>1 DEF Walk, Mark, WaiterTypes
  <2>2. CASE ~Walk(t)
    BY <1>0, <2>2 DEF SelectStep, AbortLoad, WaiterTypes
  <2>. QED BY <2>1, <2>2
<1>. DEFINE Sets(r, v) == selected' = selected \/ selected' = [selected EXCEPT ![t][r] = v]
<1>4. \E v \in {Unselected, sel[t].arm} : \E r : Sets(r, v)
  <2>1. CASE UNCHANGED selected
    BY <2>1
  <2>2. CASE \E i : CompleteArm(t, i)
    BY <2>2 DEF CompleteArm, Retire
  <2>3. CASE Retire(t)
    BY <2>3 DEF Retire
  <2>4. CASE selected' = [selected EXCEPT ![t][sel[t].round] = IF @ = Unselected THEN sel[t].arm ELSE @]
    <3>1. CASE selected[t][sel[t].round] = Unselected
      BY <2>4, <3>1
    <3>2. CASE selected[t][sel[t].round] # Unselected
      <4>1. selected \in [Threads -> [Rounds -> Nat]]
        BY <1>0 DEF WaiterTypes
      <4>2. selected' = selected
        BY <2>4, <3>2, <4>1
      <4>. QED BY <4>2
    <3>. QED BY <3>1, <3>2
  <2>5. CASE \E r : selected' = [selected EXCEPT ![t][r] = Unselected]
    BY <2>5
  <2>. HIDE DEF Sets
  <2>6. CASE ArmReady(t) \/ ArmNotReady(t)
    BY <2>1, <2>2, <2>3, <2>4, <2>5, <2>6 DEF ArmReady, ArmNotReady, TakeDefault
  <2>. QED BY <2>1, <2>2, <2>3, <2>6 DEF SelectStep, ProbeFirst, ProbeRing, ProbeQueue, ProbeSecond,
          ProbeCount, Decide, Judge, RegisterArm, WakeUp, AbortLoad, Walk, TakeDefault
<1>4a. PICK v \in {Unselected, sel[t].arm} : \E r : Sets(r, v)
  BY <1>4
<1>4b. PICK r : Sets(r, v)
  BY <1>4a
<1>5. /\ selected' \in [Threads -> [Rounds -> Nat]]
      /\ \A u \in Threads \ {t} : selected'[u] = selected[u]
      /\ \A x \in Rounds : selected'[t][x] \in {selected[t][x], v}
  <2>1. selected \in [Threads -> [Rounds -> Nat]] /\ v \in Nat
    BY <1>0 DEF WaiterTypes, Unselected
  <2>. QED BY <1>4b, <2>1
<1>. QED BY <1>0, <1>1, <1>2, <1>3, <1>5 DEF WaiterTypes

LEMMA SelectTypes ==
  ASSUME Types, Selecting, NEW t \in Threads, SelectStep(t)
  PROVE  Types' /\ Selecting'
<1>. DEFINE to == pc'[t]
            s == sel'[t]
<1>1. /\ pc \in [Threads -> Steps] /\ on \in [Threads -> Chans \cup {NoChan}]
      /\ sel \in [Threads -> Locals] /\ NoChan \notin Chans
  BY ChannelAssumption DEF Types, Placed, Selecting
<1>2. /\ \E x : pc' = [pc EXCEPT ![t] = x]
      /\ on' = on \/ \E x : on' = [on EXCEPT ![t] = x]
      /\ \E x : sel' = [sel EXCEPT ![t] = x]
  BY SelectMoves DEF GoesOn, Completes, CompleteArm, TakeDefault, Finish, Local
<1>3. /\ \A u \in Threads \ {t} : pc'[u] = pc[u] /\ on'[u] = on[u] /\ sel'[u] = sel[u]
      /\ s \in Locals /\ InArms(t, to, s) /\ to \in Steps
      /\ to \in RecvSteps \cup SendSteps <=> on'[t] \in Chans
      /\ on'[t] \in Chans \cup {NoChan}
  <2>0. {"pop", "check", "idle"} \cap SelectSteps = {}
    BY DEF SelectSteps
  <2>1. CASE to \in SelectSteps /\ on'[t] = on[t] /\ s \in Locals /\ InArms(t, to, s)
    BY <2>1, <1>1, SelectMoves, SelectEnds DEF Steps, SelectSteps, RecvSteps, SendSteps
  <2>2. CASE to \in {"pop", "check"} /\ on'[t] \in Chans /\ s = NoSelect
    BY <2>0, <2>2, <1>1, SelectEnds, NoSelectTyped DEF Steps, RecvSteps, SendSteps, InArms
  <2>3. CASE to = "idle" /\ on'[t] = NoChan /\ s = NoSelect
    BY <2>0, <2>3, <1>1, SelectEnds, NoSelectTyped DEF Steps, RecvSteps, SendSteps, InArms
  <2>. HIDE DEF to, s
  <2>. QED BY <2>1, <2>2, <2>3, SelectEnds DEF to, s
<1>. HIDE DEF to, s
<1>4. pc' \in [Threads -> Steps] /\ on' \in [Threads -> Chans \cup {NoChan}] /\ sel' \in [Threads -> Locals]
  BY <1>1, <1>2, <1>3 DEF to, s
<1>5. Placed'
  BY <1>3, <1>4 DEF Types, Placed, to
<1>6. Types'
  BY <1>5, SelectWaiter DEF Types
<1>7. \A u \in Threads : InArms(u, pc'[u], sel'[u])
  BY <1>3 DEF Selecting, to, s
<1>8. \A u \in Threads : pc'[u] \in SelectSteps => pc[u] \in SelectSteps
  BY <1>3, SelectMoves
<1>9. sel[t].arm \in DOMAIN Arms[t]
  BY SelectMoves DEF Selecting, InArms
<1>10. \A u \in Threads, r \in Rounds : selected'[u][r] # Unselected => selected'[u][r] \in DOMAIN Arms[u]
  BY <1>9, SelectWaiter DEF Selecting
<1>. QED BY <1>4, <1>6, <1>7, <1>8, <1>10, SelectWaiter DEF Selecting

LEMMA RoomKept ==
  ASSUME Types, Types', Room, \A c \in Chans : q'[c].tail = q[c].tail /\ Promised(c)' \subseteq Promised(c)
  PROVE  Room'
<1>. SUFFICES ASSUME NEW c \in Chans
              PROVE  q'[c].tail + Cardinality(Promised(c))' <= MaxItems[c]
  BY DEF Room
<1>1. /\ q[c].tail + Cardinality(Promised(c)) <= MaxItems[c]
      /\ q[c].tail \in Nat /\ MaxItems[c] \in Nat /\ q'[c].tail = q[c].tail
  BY ChannelAssumption DEF Room, Types, Rings
<1>2. IsFiniteSet(Promised(c)) /\ Cardinality(Promised(c)) \in Nat
  BY SendsCounted
<1>. PICK S : S = Promised(c)'
  OBVIOUS
<1>3. S \subseteq Promised(c)
  OBVIOUS
<1>4. Cardinality(S) \in Nat /\ Cardinality(S) <= Cardinality(Promised(c))
  BY <1>2, <1>3, FS_Subset, FS_CardinalityType
<1>5. Cardinality(Promised(c))' = Cardinality(S)
  OBVIOUS
<1>. QED BY <1>1, <1>2, <1>4, <1>5

LEMMA SelectChannel ==
  ASSUME ChannelInv, Selecting, NEW t \in Threads, SelectStep(t)
  PROVE  ChannelInv' /\ Selecting'
<1>1. Types' /\ Selecting' /\ Types
  BY SelectTypes DEF ChannelInv
<1>2. /\ UNCHANGED <<flavour, q, held, pos, waiting>>
      /\ \A u \in Threads \ {t} : pc'[u] = pc[u] /\ on'[u] = on[u]
      /\ pc[t] \in SelectSteps
      /\ \/ pc'[t] \in SelectSteps
         \/ pc'[t] = "pop" \/ pc'[t] = "idle"
         \/ pc'[t] = "check" /\ <<on'[t], "send">> \in ToSet(Arms[t])
  BY <1>1, SelectWaiter, SelectEnds, SelectMoves
<1>3. Listed'
  BY <1>1, <1>2, ListedAside DEF ChannelInv, SelectSteps, RegisteredSteps
<1>4. Unborn'
  BY <1>2 DEF ChannelInv, Unborn, SelectSteps
<1>5. Window' /\ Claims'
  BY <1>2 DEF ChannelInv, RingInv, Window, Claims, SelectSteps
<1>6. Room'
  <2>1. t \in Selectors
    <3>1. sel[t].arm \in DOMAIN Arms[t]
      BY <1>2 DEF Selecting, InArms
    <3>. QED BY <3>1, ArmsTyped
  <2>2. ASSUME NEW c \in Chans PROVE Promised(c)' \subseteq Promised(c)
    <3>1. t \in Promised(c)' => t \in Promised(c)
      BY <1>2, <2>1 DEF Promised, SendsUnderWay, SelectSteps
    <3>2. \A u \in Threads \ {t} : u \in Promised(c)' => u \in Promised(c)
      BY <1>2 DEF Promised, SendsUnderWay
    <3>. QED BY <3>1, <3>2 DEF Promised, SendsUnderWay, Selectors
  <2>. QED BY <1>1, <1>2, <2>2, RoomKept DEF ChannelInv, RingInv
<1>. QED BY <1>1, <1>3, <1>4, <1>5, <1>6 DEF ChannelInv, RingInv

LEMMA DoesSelected ==
  ASSUME NEW t \in Threads, Acts(t)
  PROVE  UNCHANGED <<stack, aborted, selected>>
  BY DEF Acts, SendStep, CheckReceivers, PushItem, PublishItem, RecvStep, PopItem, ReleaseSlot, PopNone,
         CountSenders, Enlist, ParkReturns, Leave, Voluntary, RecvCall, TryRecvCall, SendCall, Start,
         DropSender, DropReceiver, CloneHandle, Spurious, waiterVars

LEMMA DoesChannel ==
  ASSUME ChannelInv, Selecting, NEW t \in Threads, Does(t), UNCHANGED selVars
  PROVE  ChannelInv' /\ Selecting'
<1>1. ChannelInv' /\ Types
  BY ChannelInvDoes DEF ChannelInv
<1>2. ASSUME NEW u \in Threads, NEW r \in Rounds, selected'[u][r] # Unselected
      PROVE  selected'[u][r] \in DOMAIN Arms[u]
  <2>1. CASE selected'[u][r] = selected[u][r]
    BY <1>2, <2>1 DEF Selecting
  <2>2. CASE selected'[u][r] # selected[u][r]
    <3>1. WakeStep(t)
      BY <2>2, DoesSelected DEF Does
    <3>2. PICK n \in OwnNodes : Thread(n) = u /\ selected'[u][r] = Arm(n)
      BY <1>1, <2>2, <3>1, WakeSelects DEF Types, NodesOK, OwnNodes
    <3>. QED BY <3>2 DEF OwnNodes, Thread, Arm
  <2>. QED BY <2>1, <2>2
<1>3. \A u \in Threads : InArms(u, pc'[u], sel[u])
  <2>. SUFFICES ASSUME NEW u \in Threads PROVE InArms(u, pc'[u], sel[u])
    OBVIOUS
  <2>1. pc'[u] \in SelectSteps => pc'[u] = pc[u]
    BY <1>1, SelectorsLeft
  <2>2. InArms(u, pc[u], sel[u])
    BY DEF Selecting
  <2>3. Probing \subseteq SelectSteps /\ {"walk", "decide", "sleep"} \subseteq SelectSteps
    BY DEF Probing, SelectSteps
  <2>. QED BY <2>1, <2>2, <2>3 DEF InArms
<1>4. \A u \in Threads : pc'[u] \in SelectSteps => ToSet(Arms[u]) \subseteq held'[u]
  BY <1>1, SelectorsLeft DEF Selecting
<1>. QED BY <1>1, <1>2, <1>3, <1>4 DEF Selecting, selVars

LEMMA SelectCallChannel ==
  ASSUME ChannelInv, Selecting, NEW t \in Threads, SelectCall(t)
  PROVE  ChannelInv' /\ Selecting'
<1>0. /\ pc[t] = "idle" /\ pc' = [pc EXCEPT ![t] = "probe"] /\ t \in Selectors
      /\ UNCHANGED <<flavour, q, held, on, pos, spurious, waiterVars>>
      /\ ToSet(Arms[t]) \subseteq held[t]
      /\ \A c \in Chans : <<c, "send">> \in ToSet(Arms[t]) => RoomFor(c)
      /\ timed' <= MaxTimed
  BY DEF SelectCall, At
<1>1. PICK i \in DOMAIN Arms[t] : \E d \in {"none", "ahead"} :
        /\ sel' = [sel EXCEPT ![t] = From([NoSelect EXCEPT !.deadline = d], t, i)]
        /\ timed' = timed + (IF d = "ahead" THEN 1 ELSE 0)
  BY DEF SelectCall, Local
<1>2. PICK d \in {"none", "ahead"} :
        /\ sel' = [sel EXCEPT ![t] = From([NoSelect EXCEPT !.deadline = d], t, i)]
        /\ timed' = timed + (IF d = "ahead" THEN 1 ELSE 0)
  BY <1>1
<1>3. timed' \in 0 .. MaxTimed
  BY <1>0, <1>2, SelectAssumption DEF Selecting
<1>. DEFINE s0 == [NoSelect EXCEPT !.deadline = d]
            s == From(s0, t, i)
<1>4. s0 \in Locals /\ s0.phase = "try"
  BY NoSelectTyped DEF Locals
<1>5. sel' = [sel EXCEPT ![t] = s]
  BY <1>2
<1>. HIDE DEF s0
<1>6. s \in Locals /\ s.arm = i /\ s.phase = "try"
  BY <1>4, LoopsStart
<1>. HIDE DEF s
<1>7. InArms(t, "probe", s)
  BY <1>6 DEF InArms, Probing
<1>8. pc'[t] = "probe" /\ \A u \in Threads \ {t} : pc'[u] = pc[u] /\ on'[u] = on[u]
  BY <1>0 DEF ChannelInv, Types, Placed
<1>9. Types'
  <2>1. Placed'
    BY <1>0, <1>8 DEF ChannelInv, Types, Placed, Steps, SelectSteps, RecvSteps, SendSteps
  <2>. QED BY <1>0, <2>1 DEF ChannelInv, Types, WaiterTypes, waiterVars
<1>10. sel'[t] = s /\ (\A u \in Threads \ {t} : sel'[u] = sel[u]) /\ sel' \in [Threads -> Locals]
  BY <1>5, <1>6 DEF Selecting
<1>11. Selecting'
  <2>1. \A u \in Threads : InArms(u, pc'[u], sel'[u])
    BY <1>7, <1>8, <1>10 DEF Selecting
  <2>2. \A u \in Threads : pc'[u] \in SelectSteps => ToSet(Arms[u]) \subseteq held'[u]
    BY <1>0, <1>8 DEF Selecting
  <2>3. UNCHANGED selected
    BY <1>0 DEF waiterVars
  <2>. QED BY <1>3, <1>10, <2>1, <2>2, <2>3 DEF Selecting
<1>12. Listed' /\ Unborn'
  <2>1. "idle" \notin RegisteredSteps /\ "probe" \notin RegisteredSteps
    BY DEF RegisteredSteps
  <2>. QED BY <1>0, <1>8, <2>1, ListedAside DEF ChannelInv, Unborn, waiterVars
<1>13. Window' /\ Claims'
  BY <1>0, <1>8 DEF ChannelInv, RingInv, Window, Claims
<1>14. Room'
  <2>. SUFFICES ASSUME NEW c \in Chans
                PROVE  q[c].tail + Cardinality(Promised(c))' <= MaxItems[c]
    BY <1>0 DEF Room
  <2>1. /\ q[c].tail + Cardinality(Promised(c)) <= MaxItems[c]
        /\ q[c].tail \in Nat /\ MaxItems[c] \in Nat
        /\ IsFiniteSet(Promised(c)) /\ Cardinality(Promised(c)) \in Nat
    BY ChannelAssumption, SendsCounted DEF ChannelInv, RingInv, Room, Types, Rings
  <2>2. \A u \in Threads \ {t} : u \in Promised(c)' <=> u \in Promised(c)
    BY <1>8 DEF Promised, SendsUnderWay
  <2>3. t \in Promised(c)' <=> <<c, "send">> \in ToSet(Arms[t])
    BY <1>0, <1>8 DEF Promised, SendsUnderWay, Selectors
  <2>4. t \notin Promised(c)
    BY <1>0 DEF Promised, SendsUnderWay
  <2>5. Promised(c) \subseteq Threads /\ Promised(c)' \subseteq Threads
    BY DEF Promised, SendsUnderWay, Selectors
  <2>6. CASE <<c, "send">> \in ToSet(Arms[t])
    <3>1. Promised(c)' = Promised(c) \cup {t}
      BY <2>2, <2>3, <2>5, <2>6
    <3>2. Cardinality(Promised(c) \cup {t}) = Cardinality(Promised(c)) + 1
      BY <2>1, <2>4, FS_AddElement
    <3>3. q[c].tail + Cardinality(Promised(c)) < MaxItems[c]
      BY <1>0, <2>6 DEF RoomFor
    <3>. QED BY <2>1, <3>1, <3>2, <3>3
  <2>7. CASE <<c, "send">> \notin ToSet(Arms[t])
    <3>1. Promised(c)' = Promised(c)
      BY <2>2, <2>3, <2>4, <2>5, <2>7
    <3>. QED BY <2>1, <3>1
  <2>. QED BY <2>6, <2>7
<1>. QED BY <1>9, <1>11, <1>12, <1>13, <1>14 DEF ChannelInv, RingInv

LEMMA DeadlineChannel ==
  ASSUME ChannelInv, Selecting, NEW t \in Threads, DeadlinePasses(t)
  PROVE  ChannelInv' /\ Selecting'
<1>1. /\ sel' = [sel EXCEPT ![t] = [sel[t] EXCEPT !.deadline = "passed"]]
      /\ UNCHANGED <<timed, flavour, q, held, pc, on, pos, spurious>>
      /\ UNCHANGED <<permit, waiting, stack, aborted, selected, calls>>
  BY DEF DeadlinePasses, Local, chanVars, waiterVars
<1>2. ChannelInv'
  BY <1>1 DEF ChannelInv, Types, Placed, WaiterTypes, RingInv, Window, Room, Claims, Promised,
              SendsUnderWay, Listed, Unborn
<1>. DEFINE s == [sel[t] EXCEPT !.deadline = "passed"]
<1>3. sel[t] \in Locals /\ InArms(t, pc[t], sel[t])
  BY DEF Selecting
<1>4. /\ s \in Locals /\ s.arm = sel[t].arm /\ s.left = sel[t].left /\ s.phase = sel[t].phase
      /\ s.round = sel[t].round /\ s.node = sel[t].node
  BY <1>3 DEF Locals
<1>5. sel' = [sel EXCEPT ![t] = s]
  BY <1>1
<1>. HIDE DEF s
<1>6. sel'[t] = s /\ (\A u \in Threads \ {t} : sel'[u] = sel[u]) /\ sel' \in [Threads -> Locals]
  BY <1>4, <1>5 DEF Selecting
<1>7. InArms(t, pc[t], s)
  BY <1>3, <1>4 DEF InArms
<1>. QED BY <1>1, <1>2, <1>6, <1>7 DEF Selecting

LEMMA SelectingInitial ==
  ASSUME SelectingInit
  PROVE  ChannelInv /\ Selecting
<1>1. ChannelInv
  BY TypesInit DEF SelectingInit, ChannelInv, RingInv
<1>2. sel = [t \in Threads |-> NoSelect] /\ timed = 0
  BY DEF SelectingInit, SelectInit
<1>3. \A t \in Threads : pc[t] \notin SelectSteps
  BY DEF SelectingInit, Init, ChannelInit, SelectSteps
<1>4. \A t \in Threads, r \in Rounds : selected[t][r] = Unselected
  BY DEF SelectingInit, Init, WaiterInit
<1>5. Probing \subseteq SelectSteps /\ "walk" \in SelectSteps
  BY DEF Probing, SelectSteps
<1>6. \A t \in Threads : InArms(t, pc[t], sel[t])
  BY <1>2, <1>3, <1>5, NoSelectTyped DEF InArms
<1>7. sel \in [Threads -> Locals] /\ timed \in 0 .. MaxTimed
  <2>1. NoSelect \in Locals
    BY NoSelectTyped
  <2>2. sel \in [Threads -> Locals]
    BY <1>2, <2>1
  <2>. QED BY <1>2, <2>2, SelectAssumption
<1>8. \A t \in Threads : pc[t] \in SelectSteps => ToSet(Arms[t]) \subseteq held[t]
  BY <1>3
<1>9. \A t \in Threads, r \in Rounds :
        selected[t][r] # Unselected => selected[t][r] \in DOMAIN Arms[t]
  BY <1>4
<1>. QED BY <1>1, <1>6, <1>7, <1>8, <1>9 DEF Selecting

(* A step of a program with select calls is one of four kinds.              *)
LEMMA SelectingSteps ==
  ASSUME SelectingNext
  PROVE  \/ \E t \in Threads : \/ SelectStep(t)
                               \/ Does(t) /\ UNCHANGED selVars
                               \/ SelectCall(t)
                               \/ DeadlinePasses(t)
         \/ UNCHANGED selectVars
<1>1. CASE Over /\ UNCHANGED selVars
  BY <1>1 DEF Over, vars, selectVars
<1>2. ASSUME NEW t \in Threads, Step(t) \/ Chance(t)
      PROVE  SelectStep(t) \/ (Does(t) /\ UNCHANGED selVars) \/ SelectCall(t) \/ DeadlinePasses(t)
  BY <1>2 DEF Step, Chance, Does, Acts, ChannelStep
<1>. QED BY <1>1, <1>2 DEF SelectingNext

LEMMA SelectingAside ==
  ASSUME ChannelInv, Selecting, UNCHANGED selectVars
  PROVE  ChannelInv' /\ Selecting'
<1>1. /\ UNCHANGED <<permit, waiting, stack, aborted, selected, calls>>
      /\ UNCHANGED <<flavour, q, held, pc, on, pos, spurious, sel, timed>>
  BY DEF selectVars, waiterVars, chanVars, selVars
<1>2. ChannelInv'
  <2>1. Types'
    BY <1>1 DEF ChannelInv, Types, Placed, WaiterTypes
  <2>2. RingInv'
    BY <1>1 DEF ChannelInv, RingInv, Window, Room, Claims, Promised, SendsUnderWay
  <2>3. Listed' /\ Unborn'
    BY <1>1 DEF ChannelInv, Listed, Unborn
  <2>. QED BY <2>1, <2>2, <2>3 DEF ChannelInv
<1>3. Selecting'
  BY <1>1 DEF Selecting
<1>. QED BY <1>2, <1>3

LEMMA SelectingInvariance == SelectingSpec => [](ChannelInv /\ Selecting)
<1>1. ChannelInv /\ Selecting /\ [SelectingNext]_selectVars => (ChannelInv /\ Selecting)'
  <2>. SUFFICES ASSUME ChannelInv, Selecting, [SelectingNext]_selectVars PROVE (ChannelInv /\ Selecting)'
    OBVIOUS
  <2>1. CASE UNCHANGED selectVars
    BY <2>1, SelectingAside
  <2>2. CASE SelectingNext
    BY <2>2, SelectingSteps, SelectingAside, SelectChannel, DoesChannel, SelectCallChannel, DeadlineChannel
  <2>. QED BY <2>1, <2>2
<1>. QED BY <1>1, SelectingInitial, PTL DEF SelectingSpec

(* The types of the state of a program with select calls: the window of     *)
(* every queue again, and every node on a stack is one some call may push.  *)
THEOREM SelectTypeCorrect == SelectingSpec => []SelectingTypeOK
<1>1. ChannelInv /\ Selecting => SelectingTypeOK
  <2>. SUFFICES ASSUME ChannelInv, Selecting PROVE SelectingTypeOK
    OBVIOUS
  <2>1. ASSUME NEW c \in Chans
        PROVE  /\ q[c].tail \in 0 .. MaxItems[c]
               /\ q[c].head \in 0 .. q[c].tail
               /\ q[c].ready \subseteq q[c].head .. (q[c].tail - 1)
               /\ q[c].reading \subseteq 0 .. (q[c].head - 1)
    BY WindowBounds
  <2>2. \A t \in Threads : pc[t] \in RecvSteps \cup SendSteps => on[t] # NoChan
    BY ChannelAssumption DEF ChannelInv, Types, Placed
  <2>3. \A c \in Chans : ToSet(waiting[c]) \subseteq Threads
    BY ChannelAssumption DEF ChannelInv, Types, WaiterTypes, ToSet
  <2>4. ChannelTypeOK
    BY <2>1, <2>2, <2>3 DEF ChannelInv, Types, Placed, WaiterTypes, ChannelTypeOK
  <2>5. OwnNodes \subseteq Nodes
    <3>. SUFFICES ASSUME NEW n \in OwnNodes PROVE n \in Nodes
      OBVIOUS
    <3>1. n[1] \in Threads /\ n[2] \in Rounds /\ n[3] \in DOMAIN Arms[n[1]] /\ n = <<n[1], n[2], n[3]>>
      BY DEF OwnNodes
    <3>2. n[1] \in Selectors
      BY <3>1, ArmsTyped
    <3>3. n[3] \in UNION {DOMAIN Arms[u] : u \in Selectors}
      BY <3>1, <3>2
    <3>. QED BY <3>1, <3>2, <3>3 DEF Nodes
  <2>6. aborted \subseteq Nodes /\ \A s \in Stacks : ToSet(stack[s]) \subseteq Nodes
    BY <2>5 DEF ChannelInv, Types, WaiterTypes, ToSet
  <2>7. \A t \in Threads :
       /\ sel[t].phase \in {"try", "recheck"}
       /\ sel[t].deadline \in {"none", "ahead", "passed"}
       /\ sel[t].node \in Nodes \cup {NoNode}
       /\ pc[t] \in {"decide", "sleep", "abort", "walk", "judge"} => sel[t].round \in Rounds
    BY <2>5 DEF Selecting, Locals, InArms, Probing, SelectSteps
  <2>. QED BY <2>4, <2>6, <2>7
           DEF ChannelInv, Types, Placed, SelectingTypeOK, Steps, Selecting
<1>. QED BY <1>1, SelectingInvariance, PTL

LEMMA OwnNodesOK == NodesOK(OwnNodes)
  BY DEF NodesOK, OwnNodes

-----------------------------------------------------------------------------
(* Step by step, what a select call does with its local variables.          *)
LEMMA ProceedTo ==
  ASSUME Types, Selecting, NEW t \in Threads, NEW to, NEW s, Proceed(t, to, s)
  PROVE  pc'[t] = to /\ sel'[t] = s
  BY DEF Types, Placed, Selecting, Proceed, Goto, Local

(* The first sweep, and what comes after a call's last sleep.               *)
LEMMA TrySteps ==
  ASSUME Types, Selecting, NEW t \in Threads, SelectStep(t),
         (pc[t] \in Probing /\ sel[t].phase = "try") \/ pc[t] = "judge"
  PROVE  /\ UNCHANGED <<permit, stack, aborted>>
         /\ \/ pc'[t] \notin SelectSteps
            \/ pc'[t] \in Probing /\ sel'[t].phase = "try"
            \/ /\ pc'[t] = "enrol" /\ sel'[t].arm = 1
               /\ Chained(t, sel'[t].round) = {} /\ sel'[t].round \in Rounds
<1>. DEFINE Goal == \/ pc'[t] \notin SelectSteps
                    \/ pc'[t] \in Probing /\ sel'[t].phase = "try"
                    \/ /\ pc'[t] = "enrol" /\ sel'[t].arm = 1
                       /\ Chained(t, sel'[t].round) = {} /\ sel'[t].round \in Rounds
<1>0. /\ sel[t] \in Locals /\ sel[t].arm \in DOMAIN Arms[t] /\ pc[t] \in SelectSteps
      /\ InArms(t, pc[t], sel[t])
  BY SelectMoves DEF Selecting, InArms
<1>1. /\ ProbeFirst(t) \/ ProbeSecond(t) \/ ProbeCount(t) \/ Judge(t)
      /\ UNCHANGED <<permit, stack, aborted>>
  BY DEF SelectStep, Decide, RegisterArm, WakeUp, AbortLoad, Walk, At, Probing
<1>. SUFFICES Goal
  BY <1>1
<1>2. ASSUME NEW i, CompleteArm(t, i) PROVE Goal
  BY <1>2 DEF CompleteArm, Types, Placed, SelectSteps
<1>3. CASE TakeDefault(t)
  BY <1>3 DEF TakeDefault, Finish, Types, Placed, SelectSteps
<1>4. ASSUME NEW to \in Probing, NEW s, Proceed(t, to, s), s.phase = "try" PROVE Goal
  BY <1>4, ProceedTo
<1>5. ASSUME NEW r \in Rounds, Chained(t, r) = {},
             Proceed(t, "enrol", From([sel[t] EXCEPT !.round = r], t, 1))
      PROVE  Goal
  <2>. DEFINE s0 == [sel[t] EXCEPT !.round = r]
              s == From(s0, t, 1)
  <2>1. s0 \in Locals /\ s0.round = r
    BY <1>0, SelectAssumption DEF Locals
  <2>2. pc'[t] = "enrol" /\ sel'[t] = s
    BY <1>5, ProceedTo
  <2>. HIDE DEF s0
  <2>3. s.arm = 1 /\ s.round = r
    BY <1>0, <2>1, LoopsStart, ArmsTyped
  <2>. HIDE DEF s
  <2>. QED BY <1>5, <2>2, <2>3
<1>. HIDE DEF Goal
<1>6. CASE pc[t] = "judge"
  <2>1. Judge(t)
    BY <1>1, <1>6 DEF ProbeFirst, ProbeSecond, ProbeCount, At
  <2>2. CASE Sweep(t)
    <3>. DEFINE s0 == [sel[t] EXCEPT !.phase = "try"]
    <3>1. PICK i \in DOMAIN Arms[t] : Proceed(t, "probe", From(s0, t, i))
      BY <2>2 DEF Sweep
    <3>2. s0 \in Locals /\ s0.phase = "try"
      BY <1>0 DEF Locals
    <3>. HIDE DEF s0
    <3>3. From(s0, t, i).phase = "try"
      BY <3>2, LoopsStart
    <3>. QED BY <3>1, <3>3, <1>4 DEF Probing
  <2>. QED BY <2>1, <2>2, <1>2, <1>3 DEF Judge
<1>7. CASE pc[t] \in Probing /\ sel[t].phase = "try"
  <2>1. ProbeFirst(t) \/ ProbeSecond(t) \/ ProbeCount(t)
    BY <1>1, <1>7 DEF Judge, At, Probing
  <2>2. CASE ArmReady(t)
    BY <1>2, <1>7, <2>2 DEF ArmReady
  <2>3. CASE ArmNotReady(t)
    <3>1. CASE Proceed(t, "probe", Further(sel[t], t))
      BY <3>1, <1>0, <1>4, <1>7, LoopsGoOn DEF Probing
    <3>2. (\E r \in Rounds : Chained(t, r) = {}) => FreshRound(t) \in Rounds /\ Chained(t, FreshRound(t)) = {}
      BY DEF FreshRound
    <3>. QED BY <2>3, <3>1, <3>2, <1>3, <1>5, <1>7 DEF ArmNotReady
  <2>4. ASSUME NEW to \in {"probe_second", "probe_count"}, NEW x, Proceed(t, to, [sel[t] EXCEPT !.seen = x])
        PROVE  Goal
    <3>1. [sel[t] EXCEPT !.seen = x].phase = "try"
      BY <1>0, <1>7 DEF Locals
    <3>. QED BY <3>1, <2>4, <1>4 DEF Probing
  <2>5. CASE Proceed(t, "probe_count", sel[t])
    BY <2>5, <1>4, <1>7 DEF Probing
  <2>. QED BY <2>1, <2>2, <2>3, <2>4, <2>5 DEF ProbeFirst, ProbeRing, ProbeQueue, ProbeSecond, ProbeCount
<1>. QED BY <1>6, <1>7

(* Its loops over the arms take one after the other, from the first to the  *)
(* last.                                                                    *)
LEMMA NextInLoop ==
  ASSUME Selecting, NEW t \in Threads, sel[t].arm \in DOMAIN Arms[t],
         sel[t].arm + sel[t].left = Len(Arms[t]) + 1
  PROVE  /\ LastArm(t) => sel[t].arm = Len(Arms[t])
         /\ ~LastArm(t) => Further(sel[t], t).arm = sel[t].arm + 1
         /\ sel[t].arm \in Nat /\ Len(Arms[t]) \in Nat /\ 1 \in DOMAIN Arms[t]
<1>1. sel[t] \in Locals /\ sel[t].left \in Int
  BY DEF Selecting, Locals
<1>2. sel[t].arm \in Nat /\ Len(Arms[t]) \in Nat /\ 1 \in DOMAIN Arms[t]
  BY ArmsTyped
<1>3. sel[t].arm # Len(Arms[t]) => Further(sel[t], t).arm = sel[t].arm + 1
  BY <1>1, LoopsGoOn
<1>. DEFINE n == Len(Arms[t])
            i == sel[t].arm
            k == sel[t].left
<1>4. n \in Nat /\ i \in Nat /\ k \in Int /\ i + k = n + 1
  BY <1>1, <1>2
<1>5. (k = 1) <=> (i = n)
  <2>. HIDE DEF n, i, k
  <2>. QED BY <1>4
<1>. QED BY <1>2, <1>3, <1>5 DEF LastArm

LEMMA EnrolSteps ==
  ASSUME Types, Selecting, NEW t \in Threads, SelectStep(t), pc[t] = "enrol"
  PROVE  /\ UNCHANGED <<permit, aborted, selected>> /\ sel'[t].round = sel[t].round
         /\ sel[t].arm \in DOMAIN Arms[t] /\ sel[t].round \in Rounds
         /\ IF AlwaysReady(t) THEN UNCHANGED stack
            ELSE PushNode(<<t, sel[t].round, sel[t].arm>>, ArmOf(t))
         /\ \/ /\ sel[t].arm = Len(Arms[t]) /\ pc'[t] = "probe"
               /\ sel'[t].phase = "recheck" /\ sel'[t].arm = 1
            \/ pc'[t] = "enrol" /\ sel'[t].arm = sel[t].arm + 1
<1>0. /\ sel[t] \in Locals /\ sel[t].arm \in DOMAIN Arms[t] /\ sel[t].round \in Rounds
      /\ sel[t].arm + sel[t].left = Len(Arms[t]) + 1
  BY DEF Selecting, InArms, Probing, SelectSteps
<1>1. RegisterArm(t) /\ UNCHANGED <<permit, aborted, selected>>
  BY DEF SelectStep, ProbeFirst, ProbeSecond, ProbeCount, Decide, Judge, RegisterArm, WakeUp,
         AbortLoad, Walk, At
<1>2. CASE LastArm(t)
  <2>. DEFINE s0 == [sel[t] EXCEPT !.phase = "recheck"]
              s == From(s0, t, 1)
  <2>1. s0 \in Locals /\ s0.round = sel[t].round /\ s0.phase = "recheck"
    BY <1>0 DEF Locals
  <2>2. pc'[t] = "probe" /\ sel'[t] = s
    BY <1>1, <1>2, ProceedTo DEF RegisterArm
  <2>. HIDE DEF s0
  <2>3. s.arm = 1 /\ s.phase = "recheck" /\ s.round = sel[t].round
    BY <1>0, <2>1, NextInLoop, LoopsStart
  <2>. HIDE DEF s
  <2>. QED BY <1>0, <1>1, <1>2, <2>2, <2>3, NextInLoop DEF RegisterArm
<1>3. CASE ~LastArm(t)
  <2>1. pc'[t] = "enrol" /\ sel'[t] = Further(sel[t], t)
    BY <1>1, <1>3, ProceedTo DEF RegisterArm
  <2>2. sel'[t].arm = sel[t].arm + 1 /\ sel'[t].round = sel[t].round
    BY <1>0, <1>3, <2>1, NextInLoop, LoopsGoOn
  <2>. QED BY <1>0, <1>1, <2>1, <2>2 DEF RegisterArm
<1>. QED BY <1>2, <1>3

(* The second sweep.                                                        *)
LEMMA RecheckSteps ==
  ASSUME Types, Selecting, NEW t \in Threads, SelectStep(t), pc[t] \in Probing,
         sel[t].phase = "recheck"
  PROVE  /\ UNCHANGED <<permit, stack, aborted>> /\ sel'[t].round = sel[t].round
         /\ sel[t].arm \in DOMAIN Arms[t] /\ sel[t].round \in Rounds
         /\ \/ /\ pc'[t] = "decide"
               /\ selected'[t][sel[t].round] # Unselected
            \/ /\ pc[t] = "probe" /\ pc'[t] = "probe_second"
               /\ flavour[Chan(t)].bounded
               /\ sel'[t].seen = IF Side(t) = "send" THEN q[Chan(t)].tail ELSE q[Chan(t)].head
               /\ sel'[t].phase = "recheck" /\ sel'[t].arm = sel[t].arm /\ UNCHANGED selected
            \/ /\ pc'[t] = "probe_count"
               /\ \/ /\ pc[t] = "probe" /\ Side(t) = "recv" /\ ~flavour[Chan(t)].bounded
                     /\ ~CanTake(q[Chan(t)])
                  \/ /\ pc[t] = "probe_second" /\ Side(t) = "send"
                     /\ IsFull(q[Chan(t)], Cap, sel[t].seen)
                  \/ /\ pc[t] = "probe_second" /\ Side(t) # "send"
                     /\ IsEmpty(q[Chan(t)], sel[t].seen)
               /\ sel'[t].phase = "recheck" /\ sel'[t].arm = sel[t].arm /\ UNCHANGED selected
            \/ /\ pc[t] = "probe_count"
               /\ (IF Side(t) = "send" THEN Receivers(Chan(t)) ELSE Senders(Chan(t))) # {}
               /\ \/ pc'[t] = "decide" /\ sel[t].arm = Len(Arms[t])
                  \/ /\ pc'[t] = "probe" /\ sel'[t].arm = sel[t].arm + 1
                     /\ sel'[t].phase = "recheck"
               /\ UNCHANGED selected
<1>0. /\ sel[t] \in Locals /\ sel[t].arm \in DOMAIN Arms[t] /\ sel[t].round \in Rounds
      /\ sel[t].arm + sel[t].left = Len(Arms[t]) + 1
      /\ selected \in [Threads -> [Rounds -> Nat]] /\ sel[t].arm \in Nat \ {0}
  BY ArmsTyped DEF Selecting, InArms, Probing, SelectSteps, Types, WaiterTypes
<1>1. /\ ProbeFirst(t) \/ ProbeSecond(t) \/ ProbeCount(t)
      /\ UNCHANGED <<permit, stack, aborted>>
  BY DEF SelectStep, Decide, RegisterArm, WakeUp, AbortLoad, Walk, At, Probing, Judge
<1>2. CASE ArmReady(t)
  <2>. DEFINE s == From(sel[t], t, 1)
  <2>1. /\ selected' = [selected EXCEPT ![t][sel[t].round] = IF @ = Unselected THEN sel[t].arm ELSE @]
        /\ pc'[t] = "decide" /\ sel'[t] = s
    BY <1>2, ProceedTo DEF ArmReady
  <2>2. selected'[t][sel[t].round] # Unselected
    BY <1>0, <2>1 DEF Unselected
  <2>3. s.round = sel[t].round
    BY <1>0, NextInLoop, LoopsStart
  <2>. HIDE DEF s
  <2>. QED BY <1>0, <1>1, <2>1, <2>2, <2>3
<1>3. CASE pc[t] = "probe_count" /\ ~ArmReady(t)
  <2>1. /\ (IF Side(t) = "send" THEN Receivers(Chan(t)) ELSE Senders(Chan(t))) # {}
        /\ ArmNotReady(t)
    BY <1>1, <1>3 DEF ProbeFirst, ProbeSecond, ProbeCount, At
  <2>2. CASE ~LastArm(t)
    <3>1. pc'[t] = "probe" /\ sel'[t] = Further(sel[t], t) /\ UNCHANGED selected
      BY <2>1, <2>2, ProceedTo DEF ArmNotReady
    <3>2. sel'[t].arm = sel[t].arm + 1 /\ sel'[t].round = sel[t].round /\ sel'[t].phase = "recheck"
      <4>1. Further(sel[t], t).arm = sel[t].arm + 1
        BY <1>0, <2>2, NextInLoop
      <4>2. Further(sel[t], t).phase = sel[t].phase /\ Further(sel[t], t).round = sel[t].round
        BY <1>0, LoopsGoOn
      <4>. QED BY <3>1, <4>1, <4>2
    <3>. QED BY <1>0, <1>1, <1>3, <2>1, <3>1, <3>2
  <2>3. CASE LastArm(t)
    <3>. DEFINE s == From(sel[t], t, 1)
    <3>1. pc'[t] = "decide" /\ sel'[t] = s /\ UNCHANGED selected
      BY <2>1, <2>3, ProceedTo DEF ArmNotReady
    <3>2. s.round = sel[t].round /\ sel[t].arm = Len(Arms[t])
      BY <1>0, <2>3, NextInLoop, LoopsStart
    <3>. HIDE DEF s
    <3>. QED BY <1>0, <1>1, <1>3, <2>1, <3>1, <3>2
  <2>. QED BY <2>2, <2>3
<1>4. CASE pc[t] = "probe" /\ ~ArmReady(t)
  <2>1. ProbeRing(t) \/ ProbeQueue(t)
    BY <1>1, <1>4 DEF ProbeFirst, ProbeSecond, ProbeCount, At
  <2>2. CASE ProbeRing(t)
    <3>. DEFINE x == IF Side(t) = "send" THEN q[Chan(t)].tail ELSE q[Chan(t)].head
                s == [sel[t] EXCEPT !.seen = x]
    <3>1. /\ flavour[Chan(t)].bounded /\ UNCHANGED selected
          /\ Proceed(t, "probe_second", s)
      BY <2>2 DEF ProbeRing
    <3>2. s.seen = x /\ s.arm = sel[t].arm /\ s.phase = "recheck" /\ s.round = sel[t].round
      <4>. HIDE DEF x
      <4>. QED BY <1>0 DEF Locals
    <3>3. pc'[t] = "probe_second" /\ sel'[t] = s
      BY <3>1, ProceedTo
    <3>. HIDE DEF s
    <3>. QED BY <1>0, <1>1, <1>4, <3>1, <3>2, <3>3
  <2>3. CASE ProbeQueue(t)
    <3>1. /\ Side(t) = "recv" /\ ~flavour[Chan(t)].bounded /\ ~CanTake(q[Chan(t)])
          /\ Proceed(t, "probe_count", sel[t]) /\ UNCHANGED selected
      BY <2>3, <1>4 DEF ProbeQueue
    <3>2. pc'[t] = "probe_count" /\ sel'[t] = sel[t]
      BY <3>1, ProceedTo
    <3>. QED BY <1>0, <1>1, <1>4, <3>1, <3>2
  <2>. QED BY <2>1, <2>2, <2>3
<1>5. CASE pc[t] = "probe_second" /\ ~ArmReady(t)
  <2>. DEFINE s == [sel[t] EXCEPT !.seen = 0]
  <2>1. /\ Proceed(t, "probe_count", s) /\ UNCHANGED selected
        /\ IF Side(t) = "send" THEN IsFull(q[Chan(t)], Cap, sel[t].seen)
           ELSE IsEmpty(q[Chan(t)], sel[t].seen)
    BY <1>1, <1>5 DEF ProbeFirst, ProbeSecond, ProbeCount, At
  <2>2. s.arm = sel[t].arm /\ s.phase = "recheck" /\ s.round = sel[t].round
    BY <1>0 DEF Locals
  <2>3. pc'[t] = "probe_count" /\ sel'[t] = s
    BY <2>1, ProceedTo
  <2>. HIDE DEF s
  <2>. QED BY <1>0, <1>1, <1>5, <2>1, <2>2, <2>3
<1>. QED BY <1>2, <1>3, <1>4, <1>5 DEF Probing

LEMMA SleepSteps ==
  ASSUME Types, Selecting, NEW t \in Threads, SelectStep(t), pc[t] \in {"decide", "sleep"}
  PROVE  /\ UNCHANGED <<stack, aborted, selected>> /\ sel'[t] = sel[t] /\ sel[t].arm = 1
         /\ \/ pc'[t] = "abort"
            \/ /\ pc[t] = "decide" /\ pc'[t] = "sleep" /\ UNCHANGED permit
               /\ selected[t][sel[t].round] = Unselected
<1>1. sel[t].arm = 1
  BY DEF Selecting, InArms
<1>2. CASE pc[t] = "decide"
  <2>1. Decide(t) /\ UNCHANGED <<permit, stack, aborted, selected>>
    BY <1>2 DEF SelectStep, ProbeFirst, ProbeSecond, ProbeCount, Decide, Judge, RegisterArm, WakeUp,
                AbortLoad, Walk, At
  <2>2. CASE Won(t) = Unselected
    <3>1. Proceed(t, "sleep", sel[t])
      BY <2>1, <2>2 DEF Decide
    <3>. QED BY <1>1, <1>2, <2>1, <2>2, <3>1, ProceedTo DEF Won
  <2>3. CASE Won(t) # Unselected
    <3>1. Proceed(t, "abort", sel[t])
      BY <2>1, <2>3 DEF Decide
    <3>. QED BY <1>1, <2>1, <3>1, ProceedTo
  <2>. QED BY <2>2, <2>3
<1>3. CASE pc[t] = "sleep"
  <2>1. WakeUp(t) /\ UNCHANGED <<stack, aborted, selected>>
    BY <1>3 DEF SelectStep, ProbeFirst, ProbeSecond, ProbeCount, Decide, Judge, RegisterArm, WakeUp,
                AbortLoad, Walk, At
  <2>2. Proceed(t, "abort", sel[t])
    BY <2>1 DEF WakeUp
  <2>. QED BY <1>1, <2>1, <2>2, ProceedTo
<1>. QED BY <1>2, <1>3

LEMMA NextAbortSteps ==
  ASSUME Types, Selecting, NEW t \in Threads, pc[t] \in {"abort", "walk"}, NextAbort(t)
  PROVE  /\ sel'[t].round = sel[t].round
         /\ \/ pc'[t] = "judge" /\ sel[t].arm = Len(Arms[t])
            \/ pc'[t] = "abort" /\ sel'[t].arm = sel[t].arm + 1
<1>0. /\ sel[t] \in Locals /\ sel[t].arm \in DOMAIN Arms[t]
      /\ sel[t].arm + sel[t].left = Len(Arms[t]) + 1
  BY DEF Selecting, InArms, Probing, SelectSteps
<1>1. CASE LastArm(t)
  <2>. DEFINE s == [sel[t] EXCEPT !.node = NoNode]
  <2>1. s.round = sel[t].round /\ pc'[t] = "judge" /\ sel'[t] = s
    BY <1>0, <1>1, ProceedTo DEF NextAbort, Locals
  <2>. HIDE DEF s
  <2>. QED BY <1>0, <1>1, <2>1, NextInLoop
<1>2. CASE ~LastArm(t)
  <2>. DEFINE s0 == Further(sel[t], t)
              s == [s0 EXCEPT !.node = NoNode]
  <2>1. s0 \in Locals /\ s0.arm = sel[t].arm + 1 /\ s0.round = sel[t].round
    BY <1>0, <1>2, NextInLoop, LoopsGoOn
  <2>2. pc'[t] = "abort" /\ sel'[t] = s
    BY <1>2, ProceedTo DEF NextAbort
  <2>. HIDE DEF s0
  <2>3. s.arm = s0.arm /\ s.round = s0.round
    BY <2>1 DEF Locals
  <2>. HIDE DEF s
  <2>. QED BY <2>1, <2>2, <2>3
<1>. QED BY <1>1, <1>2

(* Its walks over the stacks of the arms: the next arm's, or the next node. *)
LEMMA AbortSteps ==
  ASSUME Types, Selecting, NEW t \in Threads, SelectStep(t), pc[t] \in {"abort", "walk"}
  PROVE  /\ UNCHANGED <<permit, stack, selected>> /\ sel'[t].round = sel[t].round
         /\ sel[t].arm \in DOMAIN Arms[t]
         /\ \/ /\ pc[t] = "abort" /\ UNCHANGED aborted
               /\ AlwaysReady(t) \/ stack[ArmOf(t)] = <<>>
               /\ NextAbort(t)
            \/ /\ pc[t] = "abort" /\ UNCHANGED aborted /\ stack[ArmOf(t)] # <<>>
               /\ pc'[t] = "walk" /\ sel'[t].arm = sel[t].arm /\ sel'[t].node = stack[ArmOf(t)][1]
            \/ /\ pc[t] = "walk"
               /\ IF Allocated(sel[t].node) THEN Mark(sel[t].node, t, sel[t].round) ELSE UNCHANGED aborted
               /\ \E m \in Beyond(sel[t].node) :
                    IF m = NoNode THEN NextAbort(t)
                    ELSE pc'[t] = "walk" /\ sel'[t].arm = sel[t].arm /\ sel'[t].node = m
<1>0. sel[t] \in Locals /\ sel[t].arm \in DOMAIN Arms[t] /\ ArmOf(t) \in Stacks
  BY ArmsTyped DEF Selecting, InArms, SelectSteps, ArmOf
<1>1. ASSUME NEW m PROVE LET s == [sel[t] EXCEPT !.node = m] IN
                         s.arm = sel[t].arm /\ s.round = sel[t].round /\ s.node = m
  BY <1>0 DEF Locals
<1>2. CASE pc[t] = "abort"
  <2>1. AbortLoad(t) /\ UNCHANGED <<permit, stack, selected, aborted>>
    BY <1>2 DEF SelectStep, ProbeFirst, ProbeSecond, ProbeCount, Decide, Judge, RegisterArm, WakeUp,
                AbortLoad, Walk, At
  <2>2. CASE AlwaysReady(t) \/ Top(ArmOf(t)) = NoNode
    <3>1. AlwaysReady(t) \/ stack[ArmOf(t)] = <<>>
      BY <1>0, <2>2, TopEmpty, OwnNodesOK DEF Types
    <3>2. NextAbort(t)
      BY <2>1, <2>2 DEF AbortLoad
    <3>. QED BY <1>0, <1>2, <2>1, <3>1, <3>2, NextAbortSteps
  <2>3. CASE ~(AlwaysReady(t) \/ Top(ArmOf(t)) = NoNode)
    <3>. DEFINE m == Top(ArmOf(t))
                s == [sel[t] EXCEPT !.node = m]
    <3>1. stack[ArmOf(t)] # <<>> /\ m = stack[ArmOf(t)][1]
      BY <1>0, <2>3, TopTyped DEF Types
    <3>2. Proceed(t, "walk", s)
      BY <2>1, <2>3 DEF AbortLoad
    <3>3. pc'[t] = "walk" /\ sel'[t] = s
      BY <3>2, ProceedTo
    <3>4. s.arm = sel[t].arm /\ s.round = sel[t].round /\ s.node = m
      BY <1>1
    <3>. HIDE DEF s, m
    <3>. QED BY <1>0, <1>2, <2>1, <3>1, <3>3, <3>4
  <2>. QED BY <2>2, <2>3
<1>3. CASE pc[t] = "walk"
  <2>1. Walk(t) /\ UNCHANGED <<permit, stack, selected>>
    BY <1>3 DEF SelectStep, ProbeFirst, ProbeSecond, ProbeCount, Decide, Judge, RegisterArm, WakeUp,
                AbortLoad, Walk, At
  <2>2. PICK m \in Beyond(sel[t].node) : IF m = NoNode THEN NextAbort(t)
                             ELSE Proceed(t, "walk", [sel[t] EXCEPT !.node = m])
    BY <2>1 DEF Walk
  <2>3. IF Allocated(sel[t].node) THEN Mark(sel[t].node, t, sel[t].round) ELSE UNCHANGED aborted
    BY <2>1 DEF Walk
  <2>4. CASE m = NoNode
    BY <1>0, <1>3, <2>1, <2>2, <2>3, <2>4, NextAbortSteps
  <2>5. CASE m # NoNode
    <3>. DEFINE s == [sel[t] EXCEPT !.node = m]
    <3>3. pc'[t] = "walk" /\ sel'[t] = s
      BY <2>2, <2>5, ProceedTo
    <3>4. s.arm = sel[t].arm /\ s.round = sel[t].round /\ s.node = m
      BY <1>1
    <3>. HIDE DEF s
    <3>5. pc'[t] = "walk" /\ sel'[t].arm = sel[t].arm /\ sel'[t].node = m /\ sel'[t].round = sel[t].round
      BY <3>3, <3>4
    <3>. QED BY <1>0, <1>3, <2>1, <2>3, <2>5, <3>5
  <2>. QED BY <2>4, <2>5
<1>. QED BY <1>2, <1>3

-----------------------------------------------------------------------------
(* The nodes a call leaves behind.  A node lies on the stack of its arm.    *)
AtHome ==
  \A s \in Stacks : \A n \in ToSet(stack[s]) :
    /\ s = Arms[Thread(n)][Arm(n)]
    /\ s[2] = "send" => flavour[s[1]].bounded

Ahead(m, n, chain) ==
  \E i \in DOMAIN chain : \E j \in DOMAIN chain : i <= j /\ chain[i] = m /\ chain[j] = n

(* Node n on stack s has yet to be marked by the call that pushed it: the   *)
(* walk has not come to its arm, or not down to the node.                   *)
Posted(t) == pc[t] \in {"decide", "sleep"} \/ (pc[t] \in Probing /\ sel[t].phase = "recheck")
Watched(n, s) ==
  LET t == Thread(n) IN
  /\ sel[t].round = Round(n)
  /\ \/ pc[t] = "enrol" \/ Posted(t)
     \/ pc[t] \in {"abort", "walk"} /\ Arm(n) > sel[t].arm
     \/ pc[t] = "abort" /\ Arm(n) = sel[t].arm
     \/ pc[t] = "walk" /\ Arm(n) = sel[t].arm /\ Ahead(sel[t].node, n, stack[s])
CleanUp == \A s \in Stacks : \A n \in ToSet(stack[s]) : n \in aborted \/ Watched(n, s)

(* The nodes a call is still to push are new.                               *)
NewNodes ==
  \A n \in OwnNodes : LET t == Thread(n) IN
    pc[t] = "enrol" /\ Round(n) = sel[t].round /\ Allocated(n) => Arm(n) < sel[t].arm

Tidy == Separate /\ AbortedExist /\ AtHome /\ CleanUp /\ NewNodes

LEMMA StackNodes ==
  ASSUME Types, NEW s \in Stacks, NEW n \in ToSet(stack[s])
  PROVE  /\ n \in OwnNodes /\ Thread(n) \in Threads /\ Round(n) \in Rounds
         /\ Arm(n) \in DOMAIN Arms[Thread(n)] /\ Arm(n) \in Nat
         /\ n = <<Thread(n), Round(n), Arm(n)>> /\ n # NoNode
         /\ Allocated(n)
<1>1. stack[s] \in Seq(OwnNodes)
  BY DEF Types, WaiterTypes
<1>2. n \in OwnNodes
  BY <1>1 DEF ToSet
<1>3. n = <<n[1], n[2], n[3]>>
  BY <1>2 DEF OwnNodes
<1>4. n # <<>>
  BY <1>3
<1>. QED BY <1>2, <1>3, <1>4, AllocatedHand DEF OwnNodes, Thread, Round, Arm, NoNode

LEMMA WatchedKept ==
  ASSUME NEW n, NEW s, Watched(n, s),
         pc'[Thread(n)] = pc[Thread(n)], sel'[Thread(n)].round = sel[Thread(n)].round,
         sel'[Thread(n)].arm = sel[Thread(n)].arm, sel'[Thread(n)].phase = sel[Thread(n)].phase,
         sel'[Thread(n)].node = sel[Thread(n)].node,
         \A m : Ahead(m, n, stack[s]) => Ahead(m, n, stack'[s])
  PROVE  Watched(n, s)'
<1>. DEFINE t == Thread(n)
            r == Round(n)
            i == Arm(n)
            above == Ahead(sel[t].node, n, stack[s])
<1>1. Thread(n)' = t /\ Round(n)' = r /\ Arm(n)' = i /\ (Ahead(sel[t].node, n, stack[s])' => TRUE)
  BY DEF Thread, Round, Arm
<1>2. /\ sel[t].round = r
      /\ \/ pc[t] = "enrol" \/ Posted(t)
         \/ pc[t] \in {"abort", "walk"} /\ i > sel[t].arm
         \/ pc[t] = "abort" /\ i = sel[t].arm
         \/ pc[t] = "walk" /\ i = sel[t].arm /\ above
  BY DEF Watched
<1>3. /\ pc'[t] = pc[t] /\ sel'[t].round = sel[t].round /\ sel'[t].arm = sel[t].arm
      /\ sel'[t].phase = sel[t].phase /\ sel'[t].node = sel[t].node
  OBVIOUS
<1>4. above => Ahead(sel'[t].node, n, stack'[s])
  BY <1>3
<1>. HIDE DEF t, r, i, above
<1>5. /\ sel'[t].round = r
      /\ \/ pc'[t] = "enrol" \/ pc'[t] \in {"decide", "sleep"} \/ (pc'[t] \in Probing /\ sel'[t].phase = "recheck")
         \/ pc'[t] \in {"abort", "walk"} /\ i > sel'[t].arm
         \/ pc'[t] = "abort" /\ i = sel'[t].arm
         \/ pc'[t] = "walk" /\ i = sel'[t].arm /\ Ahead(sel'[t].node, n, stack'[s])
  BY <1>2, <1>3, <1>4 DEF Posted
<1>. QED BY <1>5 DEF t, r, i, Thread, Round, Arm, Watched, Posted, Ahead

LEMMA WatchedSelects ==
  ASSUME NEW n, NEW s, Watched(n, s)
  PROVE  pc[Thread(n)] \in SelectSteps
  BY DEF Watched, Posted, Probing, SelectSteps

(* Steps that take no part in it.                                           *)
LEMMA TidyAside ==
  ASSUME Types, Types', Tidy, UNCHANGED flavour, Separate', AbortedExist',
         \A s \in Stacks : stack'[s] \in {stack[s], <<>>},
         \A n \in OwnNodes : Allocated(n)' => Allocated(n) /\ (n \in aborted <=> n \in aborted'),
         \A u \in Threads : pc[u] \in SelectSteps \/ pc'[u] = "enrol" =>
           /\ pc'[u] = pc[u] /\ sel'[u].round = sel[u].round /\ sel'[u].arm = sel[u].arm
           /\ sel'[u].phase = sel[u].phase /\ sel'[u].node = sel[u].node
  PROVE  Tidy'
<1>1. \A s \in Stacks : \A n \in ToSet(stack'[s]) :
        stack'[s] = stack[s] /\ n \in ToSet(stack[s]) /\ Allocated(n)'
  <2>1. ToSet(<<>>) = {}
    BY DEF ToSet
  <2>. QED BY <2>1, AllocatedHand
<1>2. AtHome'
  BY <1>1 DEF Tidy, AtHome, Thread, Arm
<1>3. CleanUp'
  <2>. SUFFICES ASSUME NEW s \in Stacks, NEW n \in ToSet(stack'[s]), n \notin aborted'
                PROVE  Watched(n, s)'
    BY DEF CleanUp
  <2>1. n \in ToSet(stack[s]) /\ stack'[s] = stack[s] /\ Allocated(n)' /\ n \in OwnNodes /\ Thread(n) \in Threads
    BY <1>1, StackNodes
  <2>2. Watched(n, s)
    BY <2>1 DEF Tidy, CleanUp
  <2>. QED BY <2>1, <2>2, WatchedSelects, WatchedKept
<1>4. NewNodes'
  <2>. SUFFICES ASSUME NEW n \in OwnNodes, pc'[n[1]] = "enrol", n[2] = sel'[n[1]].round, Allocated(n)'
                PROVE  n[3] < sel'[n[1]].arm
    BY DEF NewNodes, Thread, Round, Arm
  <2>1. n[1] \in Threads
    BY DEF OwnNodes
  <2>. QED BY <2>1 DEF Tidy, NewNodes, Thread, Round, Arm
<1>. QED BY <1>2, <1>3, <1>4 DEF Tidy

LEMMA ActsCalls ==
  ASSUME Types, NEW t \in Threads, Acts(t)
  PROVE  \/ UNCHANGED calls
         \/ Free(t) /\ \E c \in Chans : \E words \in Seq(Words) : Then(t, words, c)
<1>0. pc[t] \in {"push", "publish", "release", "release2"} => on[t] \in Chans
  BY DEF Types, Placed, SendSteps, RecvSteps
<1>1. CASE PushItem(t)
  <2>1. flavour[on[t]].sent \in Seq(Words) /\ on[t] \in Chans
    BY <1>0, <1>1, FlavourWords DEF PushItem, At
  <2>. QED BY <1>1, <2>1 DEF PushItem, At, NothingToWake
<1>2. CASE PublishItem(t)
  <2>1. flavour[on[t]].sent \in Seq(Words) /\ on[t] \in Chans
    BY <1>0, <1>2, FlavourWords DEF PublishItem, At
  <2>. QED BY <1>2, <2>1 DEF PublishItem, At
<1>3. CASE ReleaseSlot(t)
  <2>1. flavour[on[t]].popped \in Seq(Words) /\ on[t] \in Chans
    BY <1>0, <1>3, FlavourWords DEF ReleaseSlot
  <2>. QED BY <1>3, <2>1 DEF ReleaseSlot
<1>4. ASSUME NEW c \in Chans, DropSender(t, c) \/ DropReceiver(t, c)
      PROVE  \/ UNCHANGED calls
             \/ Free(t) /\ \E words \in Seq(Words) : Then(t, words, c)
  BY <1>4, FlavourWords DEF DropSender, DropReceiver, NothingToWake, At
<1>5. CASE \/ CheckReceivers(t) \/ PopItem(t) \/ PopNone(t) \/ CountSenders(t) \/ Enlist(t)
           \/ ParkReturns(t) \/ Leave(t) \/ Spurious(t)
           \/ \E c \in Chans : RecvCall(t, c) \/ TryRecvCall(t, c) \/ SendCall(t, c)
           \/ \E u \in Threads : CloneHandle(t, u)
  BY <1>5 DEF CheckReceivers, PopItem, PopNone, CountSenders, Enlist, ParkReturns, Leave, Spurious,
              RecvCall, TryRecvCall, SendCall, Start, CloneHandle, waiterVars
<1>. QED BY <1>1, <1>2, <1>3, <1>4, <1>5 DEF Acts, SendStep, RecvStep, Voluntary

LEMMA ActsNodes ==
  ASSUME Types, Separate, NEW t \in Threads, Acts(t)
  PROVE  /\ Separate' /\ \A m : Allocated(m)' <=> Allocated(m)
         /\ \A v \in Threads : Hand(v)' = Hand(v)
<1>. DEFINE S == WakeCalls(OwnNodes)
<1>1. calls \in [Threads -> Seq(S)] /\ UNCHANGED <<stack, aborted>>
  BY DoesSelected DEF Types, WaiterTypes
<1>2. CASE UNCHANGED calls
  <2>1. <<>> \in Seq(S) /\ \A call \in ToSet(<<>>) : call.op \notin {"visit", "elect"}
    BY DEF ToSet
  <2>. HIDE DEF S
  <2>. QED BY <1>1, <1>2, <2>1, CallsSeparate
<1>3. ASSUME Free(t), NEW c \in Chans, NEW words \in Seq(Words), Then(t, words, c)
      PROVE  /\ Separate' /\ \A m : Allocated(m)' <=> Allocated(m)
             /\ \A v \in Threads : Hand(v)' = Hand(v)
  <2>. DEFINE more == [i \in DOMAIN words |-> CallFor(words[i], c)]
  <2>1. \A i \in DOMAIN words : words[i] \in Words /\ CallFor(words[i], c) \in S
    BY CallsTyped
  <2>2. Len(words) \in Nat /\ DOMAIN words = 1 .. Len(words)
    OBVIOUS
  <2>3. more \in Seq(S)
    <3>. HIDE DEF S
    <3>. QED BY <2>1, <2>2
  <2>4. \A w \in Words : CallFor(w, c).op \notin {"visit", "elect"}
    BY DEF Words, CallFor, WakeOne, WakeAll, WakeAllUnselected, SelectOne, SelectAll, Drain
  <2>5. \A call \in ToSet(more) : call.op \notin {"visit", "elect"}
    BY <2>1, <2>4 DEF ToSet
  <2>6. calls' = [calls EXCEPT ![t] = more]
    BY <1>3 DEF Then
  <2>. HIDE DEF S, more
  <2>. QED BY <1>1, <1>3, <2>3, <2>5, <2>6, CallsSeparate
<1>. QED BY <1>2, <1>3, ActsCalls

LEMMA TidyDoes ==
  ASSUME Types, Types', Tidy, NEW t \in Threads, Does(t), UNCHANGED selVars
  PROVE  Tidy'
<1>1. /\ UNCHANGED flavour
      /\ \A u \in Threads : pc[u] \in SelectSteps \/ pc'[u] = "enrol" => pc'[u] = pc[u] /\ sel' = sel
  <2>1. UNCHANGED flavour
    BY DEF Does, Acts, SendStep, CheckReceivers, PushItem, PublishItem, RecvStep, PopItem, ReleaseSlot,
           PopNone, CountSenders, Enlist, ParkReturns, Leave, Voluntary, RecvCall, TryRecvCall, SendCall,
           Start, DropSender, DropReceiver, CloneHandle, Spurious, chanVars
  <2>2. "enrol" \in SelectSteps
    BY DEF SelectSteps
  <2>. QED BY <2>1, <2>2, SelectorsLeft DEF selVars
<1>2. CASE Acts(t)
  <2>1. UNCHANGED <<stack, aborted>> /\ Separate' /\ \A m : Allocated(m)' <=> Allocated(m)
    BY <1>2, DoesSelected, ActsNodes DEF Tidy
  <2>2. AbortedExist'
    BY <2>1 DEF Tidy, AbortedExist
  <2>. QED BY <1>1, <2>1, <2>2, TidyAside
<1>3. CASE WakeStep(t)
  <2>1. /\ Separate' /\ AbortedExist'
        /\ \A n \in OwnNodes : Allocated(n)' => Allocated(n) /\ (n \in aborted <=> n \in aborted')
        /\ \A s \in Stacks : stack'[s] \in {stack[s], <<>>}
    BY <1>3, OwnNodesOK, WakeSeparate, WakeStepAborted DEF Tidy, Types
  <2>. QED BY <1>1, <2>1, TidyAside
<1>. QED BY <1>2, <1>3 DEF Does

LEMMA TidySame ==
  ASSUME Types, Types', Tidy, NEW t \in Threads, SelectCall(t) \/ DeadlinePasses(t), Selecting
  PROVE  Tidy'
<1>1. UNCHANGED <<flavour, stack, aborted, calls>>
  BY DEF SelectCall, DeadlinePasses, waiterVars, chanVars
<1>2. \A m : Allocated(m)' <=> Allocated(m)
  BY <1>1 DEF Allocated, Chains, Drainers, Calling
<1>3. Separate' /\ AbortedExist'
  BY <1>1, <1>2 DEF Tidy, Separate, AbortedExist, Ordered, Hand, Calling
<1>4. ASSUME NEW u \in Threads, pc[u] \in SelectSteps \/ pc'[u] = "enrol"
      PROVE  /\ pc'[u] = pc[u] /\ sel'[u].round = sel[u].round /\ sel'[u].arm = sel[u].arm
             /\ sel'[u].phase = sel[u].phase /\ sel'[u].node = sel[u].node
  <2>1. CASE SelectCall(t)
    <3>1. /\ pc[t] = "idle" /\ pc' = [pc EXCEPT ![t] = "probe"] /\ \E s : sel' = [sel EXCEPT ![t] = s]
          /\ pc[t] \notin SelectSteps
      BY <2>1 DEF SelectCall, At, Local, SelectSteps
    <3>. QED BY <1>4, <3>1 DEF Types, Placed, Selecting
  <2>2. CASE DeadlinePasses(t)
    <3>. DEFINE s == [sel[t] EXCEPT !.deadline = "passed"]
    <3>1. /\ s.arm = sel[t].arm /\ s.phase = sel[t].phase /\ s.round = sel[t].round
          /\ s.node = sel[t].node
      BY DEF Selecting, Locals
    <3>2. sel' = [sel EXCEPT ![t] = s] /\ pc' = pc
      BY <2>2 DEF DeadlinePasses, Local, chanVars
    <3>. HIDE DEF s
    <3>. QED BY <3>1, <3>2 DEF Selecting
  <2>. QED BY <2>1, <2>2
<1>. QED BY <1>1, <1>2, <1>3, <1>4, TidyAside

(* A step of the call that pushes no node.                                  *)
LEMMA TidyOwn ==
  ASSUME Types, Types', Selecting, Tidy, NEW t \in Threads, SelectStep(t),
         UNCHANGED stack, aborted \subseteq aborted', AbortedExist',
         \A s \in Stacks : \A n \in ToSet(stack[s]) :
           Thread(n) = t /\ n \notin aborted' => Watched(n, s)',
         pc'[t] = "enrol" => \A n \in OwnNodes :
           Thread(n) = t /\ Round(n) = sel'[t].round => ~Allocated(n)
  PROVE  Tidy'
<1>1. /\ UNCHANGED <<flavour, calls>>
      /\ \A u \in Threads \ {t} : pc'[u] = pc[u] /\ sel'[u] = sel[u]
  BY SelectWaiter, SelectEnds
<1>2. \A m : Allocated(m)' <=> Allocated(m)
  BY <1>1 DEF Allocated, Chains, Drainers, Calling
<1>3. Separate'
  BY <1>1 DEF Tidy, Separate, Ordered, Hand, Calling
<1>4. AtHome'
  BY <1>1 DEF Tidy, AtHome, Thread, Arm
<1>5. CleanUp'
  <2>. SUFFICES ASSUME NEW s \in Stacks, NEW n \in ToSet(stack[s]), n \notin aborted'
                PROVE  Watched(n, s)'
    BY DEF CleanUp
  <2>1. Thread(n) \in Threads
    BY StackNodes
  <2>2. CASE Thread(n) = t
    BY <2>2
  <2>3. CASE Thread(n) # t
    <3>1. Watched(n, s)
      BY DEF Tidy, CleanUp
    <3>. QED BY <1>1, <2>1, <2>3, <3>1, WatchedKept
  <2>. QED BY <2>2, <2>3
<1>6. NewNodes'
  <2>. SUFFICES ASSUME NEW n \in OwnNodes, pc'[n[1]] = "enrol", n[2] = sel'[n[1]].round, Allocated(n)'
                PROVE  n[3] < sel'[n[1]].arm
    BY DEF NewNodes, Thread, Round, Arm
  <2>1. n[1] \in Threads /\ Allocated(n)
    BY <1>2 DEF OwnNodes
  <2>2. n[1] # t
    BY <2>1 DEF Thread, Round
  <2>3. pc[n[1]] = "enrol" /\ n[2] = sel[n[1]].round /\ sel'[n[1]] = sel[n[1]]
    BY <1>1, <2>1, <2>2
  <2>. QED BY <2>1, <2>3 DEF Tidy, NewNodes, Thread, Round, Arm
<1>. QED BY <1>3, <1>4, <1>5, <1>6 DEF Tidy

(* A step before which none of the call's nodes is left to mark, and one     *)
(* after which it still has them all before it.                             *)
LEMMA TidyTry ==
  ASSUME Types, Types', Selecting, Tidy, NEW t \in Threads, SelectStep(t),
         (pc[t] \in Probing /\ sel[t].phase = "try") \/ pc[t] = "judge"
  PROVE  Tidy'
<1>1. UNCHANGED <<stack, aborted>>
  BY TrySteps
<1>2. calls' = calls
  BY SelectWaiter
<1>3. AbortedExist'
  BY <1>1, <1>2 DEF Tidy, AbortedExist, Allocated, Chains, Drainers, Calling
<1>4. ASSUME NEW s \in Stacks, NEW n \in ToSet(stack[s]), Thread(n) = t PROVE n \in aborted
  BY <1>4 DEF Tidy, CleanUp, Watched, Posted, Probing
<1>5. pc'[t] = "enrol" => Chained(t, sel'[t].round) = {}
  BY TrySteps DEF SelectSteps, Probing
<1>6. pc'[t] = "enrol" => \A n \in OwnNodes :
           Thread(n) = t /\ Round(n) = sel'[t].round => ~Allocated(n)
  <2>. SUFFICES ASSUME pc'[t] = "enrol", NEW n \in OwnNodes, Thread(n) = t, Round(n) = sel'[t].round,
                       Allocated(n)
                PROVE  FALSE
    OBVIOUS
  <2>1. n \in Chained(t, sel'[t].round)
    BY DEF Chained, Allocated
  <2>. QED BY <1>5, <2>1
<1>. QED BY <1>1, <1>3, <1>4, <1>6, TidyOwn

LEMMA TidyPosted ==
  ASSUME Types, Types', Selecting, Tidy, NEW t \in Threads, SelectStep(t), Posted(t)
  PROVE  Tidy'
<1>1. /\ UNCHANGED <<stack, aborted>> /\ sel'[t].round = sel[t].round
      /\ Posted(t)' \/ (pc'[t] = "abort" /\ sel'[t].arm = 1)
      /\ pc'[t] # "enrol"
  BY SleepSteps, RecheckSteps DEF Posted, Probing
<1>2. calls' = calls
  BY SelectWaiter
<1>3. AbortedExist'
  BY <1>1, <1>2 DEF Tidy, AbortedExist, Allocated, Chains, Drainers, Calling
<1>4. ASSUME NEW s \in Stacks, NEW n \in ToSet(stack[s]), Thread(n) = t, n \notin aborted'
      PROVE  Watched(n, s)'
  <2>1. Round(n) = sel[t].round
    BY <1>1, <1>4 DEF Tidy, CleanUp, Watched
  <2>2. Arm(n) \in DOMAIN Arms[t] /\ Arm(n) >= 1
    <3>1. Arm(n) \in DOMAIN Arms[t]
      BY <1>4, StackNodes
    <3>. QED BY <3>1, ArmsTyped
  <2>3. Arm(n) > 1 \/ Arm(n) = 1
    BY <1>4, <2>2, StackNodes
  <2>. QED BY <1>1, <1>4, <2>1, <2>3 DEF Watched, Posted, Thread, Round, Arm
<1>. QED BY <1>1, <1>3, <1>4, TidyOwn

LEMMA OwnPush ==
  ASSUME Types, NEW s \in Stacks, NEW n \in OwnNodes, PushNode(n, s)
  PROVE  /\ stack'[s] \in Seq(OwnNodes) /\ ToSet(stack'[s]) = {n} \cup ToSet(stack[s])
         /\ \A r \in Stacks : r # s => stack'[r] = stack[r]
         /\ \A i \in DOMAIN stack[s] : i + 1 \in DOMAIN stack'[s] /\ stack'[s][i + 1] = stack[s][i]
<1>1. WaiterTypes(OwnNodes)
  BY DEF Types
<1>2. stack'[s] \in Seq(OwnNodes) /\ ToSet(stack'[s]) = {n} \cup ToSet(stack[s])
  BY <1>1, PushMoves
<1>3. \A r \in Stacks : r # s => stack'[r] = stack[r]
  BY <1>1, PushMoves
<1>4. \A i \in DOMAIN stack[s] : i + 1 \in DOMAIN stack'[s] /\ stack'[s][i + 1] = stack[s][i]
  BY <1>1, PushMoves
<1>. QED BY <1>2, <1>3, <1>4

LEMMA TidyEnrol ==
  ASSUME Types, Types', Selecting, Tidy, NEW t \in Threads, SelectStep(t), pc[t] = "enrol"
  PROVE  Tidy'
<1>. DEFINE n0 == <<t, sel[t].round, sel[t].arm>>
            s0 == Arms[t][sel[t].arm]
<1>1. /\ UNCHANGED <<flavour, calls, aborted>>
      /\ \A u \in Threads \ {t} : pc'[u] = pc[u] /\ sel'[u] = sel[u]
      /\ WaiterTypes(OwnNodes)
  BY SelectWaiter, SelectEnds, EnrolSteps DEF Types
<1>2. /\ sel'[t].round = sel[t].round /\ sel[t].arm \in DOMAIN Arms[t] /\ sel[t].round \in Rounds
      /\ IF AlwaysReady(t) THEN UNCHANGED stack ELSE PushNode(n0, s0)
      /\ Posted(t)' \/ (pc'[t] = "enrol" /\ sel'[t].arm = sel[t].arm + 1)
  BY EnrolSteps DEF Posted, Probing, ArmOf
<1>3. /\ n0 \in OwnNodes /\ s0 \in Stacks /\ sel[t].arm \in Nat
      /\ s0 \in Chans \X {"recv", "send"}
      /\ Thread(n0) = t /\ Round(n0) = sel[t].round /\ Arm(n0) = sel[t].arm
  BY <1>2, ArmsTyped DEF OwnNodes, Thread, Round, Arm
<1>4. ~AlwaysReady(t) => (s0[2] = "send" => flavour[s0[1]].bounded)
  BY DEF AlwaysReady, Side, Chan, ArmOf
<1>5. ~Allocated(n0)
  BY <1>3 DEF Tidy, NewNodes
<1>. HIDE DEF n0, s0
<1>. DEFINE Pushed(s, n) == ~AlwaysReady(t) /\ s = s0 /\ n = n0
<1>6. /\ Separate'
      /\ \A m : Allocated(m)' <=> Allocated(m) \/ (~AlwaysReady(t) /\ m = n0)
      /\ \A s \in Stacks : \A n \in ToSet(stack'[s]) : n \in ToSet(stack[s]) \/ Pushed(s, n)
      /\ \A s \in Stacks : \A n : \A m : Ahead(m, n, stack[s]) => Ahead(m, n, stack'[s])
  <2>1. CASE AlwaysReady(t)
    <3>1. UNCHANGED stack
      BY <1>2, <2>1
    <3>2. Separate' /\ \A m : Allocated(m)' <=> Allocated(m)
      <4>1. \A u : Hand(u)' = Hand(u)
        BY <1>1 DEF Hand, Calling
      <4>2. Ordered'
        BY <1>1 DEF Tidy, Separate, Ordered
      <4>3. Separate'
        BY <3>1, <4>1, <4>2 DEF Tidy, Separate
      <4>4. Chains' = Chains
        BY <1>1, <3>1 DEF Chains, Drainers, Calling
      <4>. QED BY <4>3, <4>4 DEF Allocated
    <3>. QED BY <2>1, <3>1, <3>2
  <2>2. CASE ~AlwaysReady(t)
    <3>1. PushNode(n0, s0)
      BY <1>2, <2>2
    <3>2. Separate' /\ \A m : Allocated(m)' <=> Allocated(m) \/ m = n0
      BY <1>1, <1>3, <1>5, <3>1, PushSeparate DEF Tidy
    <3>3. /\ stack'[s0] \in Seq(OwnNodes) /\ ToSet(stack'[s0]) = {n0} \cup ToSet(stack[s0])
          /\ \A r \in Stacks : r # s0 => stack'[r] = stack[r]
          /\ \A i \in DOMAIN stack[s0] : i + 1 \in DOMAIN stack'[s0] /\ stack'[s0][i + 1] = stack[s0][i]
      BY <1>3, <3>1, OwnPush
    <3>4. ASSUME NEW n, NEW m, Ahead(m, n, stack[s0]) PROVE Ahead(m, n, stack'[s0])
      <4>1. PICK i \in DOMAIN stack[s0] : \E j \in DOMAIN stack[s0] :
              i <= j /\ stack[s0][i] = m /\ stack[s0][j] = n
        BY <3>4 DEF Ahead
      <4>2. PICK j \in DOMAIN stack[s0] : i <= j /\ stack[s0][i] = m /\ stack[s0][j] = n
        BY <4>1
      <4>3. stack[s0] \in Seq(OwnNodes)
        BY <1>1, <1>3 DEF WaiterTypes
      <4>4. i + 1 <= j + 1
        BY <4>2, <4>3
      <4>. QED BY <3>3, <4>2, <4>4 DEF Ahead
    <3>. QED BY <2>2, <3>2, <3>3, <3>4
  <2>. QED BY <2>1, <2>2
<1>7. AtHome'
  <2>. SUFFICES ASSUME NEW s \in Stacks, NEW n \in ToSet(stack'[s])
                PROVE  /\ s = Arms[Thread(n)][Arm(n)]
                       /\ s[2] = "send" => flavour[s[1]].bounded
    BY <1>1 DEF AtHome, Thread, Arm
  <2>. QED BY <1>3, <1>4, <1>6 DEF Tidy, AtHome, s0
<1>8. AbortedExist'
  BY <1>1, <1>6 DEF Tidy, AbortedExist
<1>9. CleanUp'
  <2>. SUFFICES ASSUME NEW s \in Stacks, NEW n \in ToSet(stack'[s]), n \notin aborted'
                PROVE  Watched(n, s)'
    BY DEF CleanUp
  <2>1. CASE Thread(n) = t
    <3>1. Round(n) = sel[t].round
      <4>1. CASE n \in ToSet(stack[s])
        BY <1>1, <2>1, <4>1 DEF Tidy, CleanUp, Watched
      <4>. QED BY <1>3, <1>6, <4>1
    <3>. QED BY <1>2, <2>1, <3>1 DEF Watched, Posted, Thread, Round, Arm
  <2>2. CASE Thread(n) # t
    <3>1. n \in ToSet(stack[s])
      BY <1>3, <1>6, <2>2
    <3>2. Thread(n) \in Threads /\ Watched(n, s)
      BY <1>1, <3>1, StackNodes DEF Tidy, CleanUp
    <3>. QED BY <1>1, <1>6, <2>2, <3>2, WatchedKept
  <2>. QED BY <2>1, <2>2
<1>10. NewNodes'
  <2>. SUFFICES ASSUME NEW n \in OwnNodes, pc'[n[1]] = "enrol", n[2] = sel'[n[1]].round, Allocated(n)'
                PROVE  n[3] < sel'[n[1]].arm
    BY DEF NewNodes, Thread, Round, Arm
  <2>1. n[1] \in Threads
    BY DEF OwnNodes
  <2>2. CASE n[1] # t
    <3>1. n # n0
      BY <1>3, <2>2 DEF Thread
    <3>. QED BY <1>1, <1>6, <2>1, <2>2, <3>1 DEF Tidy, NewNodes, Thread, Round, Arm
  <2>3. CASE n[1] = t
    <3>1. sel'[t].arm = sel[t].arm + 1
      BY <1>2, <2>3 DEF Posted, Probing
    <3>2. n = n0 => n[3] = sel[t].arm
      BY DEF n0
    <3>3. Allocated(n) => n[3] < sel[t].arm
      BY <1>2, <2>3 DEF Tidy, NewNodes, Thread, Round, Arm
    <3>4. n[3] \in Nat
      BY DEF OwnNodes
    <3>. QED BY <1>3, <1>6, <2>3, <3>1, <3>2, <3>3, <3>4
  <2>. QED BY <2>2, <2>3
<1>. QED BY <1>6, <1>7, <1>8, <1>9, <1>10 DEF Tidy

(* The walks: what is not marked is further down, or on the stack of an arm *)
(* that comes later.                                                        *)
LEMMA TidyWalk ==
  ASSUME Types, Types', Selecting, Tidy, NEW t \in Threads, SelectStep(t), pc[t] \in {"abort", "walk"}
  PROVE  Tidy'
<1>. DEFINE i == sel[t].arm
            s0 == ArmOf(t)
            m == sel[t].node
<1>1. /\ UNCHANGED <<stack, calls>> /\ sel'[t].round = sel[t].round
      /\ i \in DOMAIN Arms[t] /\ Len(Arms[t]) \in Nat
      /\ DOMAIN Arms[t] = 1 .. Len(Arms[t]) /\ i \in Nat /\ s0 \in Stacks
      /\ pc'[t] # "enrol"
  BY AbortSteps, NextAbortSteps, SelectWaiter, ArmsTyped DEF ArmOf
<1>2. pc[t] = "walk" => m \in OwnNodes /\ m # NoNode
  <2>. SUFFICES ASSUME pc[t] = "walk" PROVE m \in OwnNodes /\ m # NoNode
    OBVIOUS
  <2>1. m \in OwnNodes
    BY DEF Selecting, InArms
  <2>2. m = <<m[1], m[2], m[3]>>
    BY <2>1 DEF OwnNodes
  <2>. QED BY <2>1, <2>2 DEF NoNode
<1>3. /\ aborted \subseteq aborted'
      /\ \A n \in aborted' \ aborted : n = m /\ Allocated(m)
      /\ pc[t] = "walk" /\ Allocated(m) /\ Thread(m) = t /\ Round(m) = sel[t].round => m \in aborted'
  BY AbortSteps DEF Mark
<1>4. AbortedExist'
  <2>1. \A n : Allocated(n)' <=> Allocated(n)
    BY <1>1 DEF Allocated, Chains, Drainers, Calling
  <2>. QED BY <1>3, <2>1 DEF Tidy, AbortedExist
<1>5. ASSUME NEW s \in Stacks, NEW n \in ToSet(stack[s]), Thread(n) = t, n \notin aborted'
      PROVE  Watched(n, s)'
  <2>. DEFINE k == Arm(n)
  <2>1. /\ Round(n) = sel[t].round /\ k \in DOMAIN Arms[t] /\ k \in Nat /\ n # NoNode
        /\ s = Arms[t][k] /\ (s[2] = "send" => flavour[s[1]].bounded)
        /\ n \in OwnNodes
    BY <1>3, <1>5, StackNodes DEF Tidy, AtHome, CleanUp, Watched
  <2>2. \/ k > i \/ (pc[t] = "abort" /\ k = i)
        \/ pc[t] = "walk" /\ k = i /\ Ahead(m, n, stack[s])
    <3>1. Watched(n, s)
      BY <1>3, <1>5 DEF Tidy, CleanUp
    <3>. QED BY <1>5, <3>1 DEF Watched, Posted, Probing
  <2>3. Thread(n)' = t /\ Round(n)' = sel[t].round /\ Arm(n)' = k /\ stack'[s] = stack[s]
    BY <1>1, <1>5, <2>1 DEF Thread, Round, Arm
  <2>. HIDE DEF k
  <2>4. k = i => s = s0 /\ ~AlwaysReady(t) /\ stack[s] # <<>>
    <3>1. k = i => s = s0
      BY <2>1 DEF ArmOf
    <3>2. k = i => ~AlwaysReady(t)
      BY <2>1, <3>1 DEF AlwaysReady, Side, Chan
    <3>3. stack[s] # <<>>
      BY <1>5 DEF ToSet
    <3>. QED BY <3>1, <3>2, <3>3
  <2>5. ASSUME k > i, NextAbort(t) PROVE Watched(n, s)'
    <3>1. \/ pc'[t] = "judge" /\ i = Len(Arms[t])
          \/ pc'[t] = "abort" /\ sel'[t].arm = i + 1
      BY <2>5, NextAbortSteps
    <3>2. pc'[t] = "abort" /\ sel'[t].arm = i + 1
      BY <3>1, <1>1, <2>1, <2>5
    <3>3. k > sel'[t].arm \/ k = sel'[t].arm
      BY <3>2, <1>1, <2>1, <2>5
    <3>. QED BY <1>1, <1>5, <2>3, <3>2, <3>3 DEF Watched
  <2>6. ASSUME k > i, pc'[t] = "walk", sel'[t].arm = i PROVE Watched(n, s)'
    BY <1>1, <1>5, <2>3, <2>6 DEF Watched
  <2>7. ASSUME k = i, pc'[t] = "walk", sel'[t].arm = i, Ahead(sel'[t].node, n, stack[s])
        PROVE  Watched(n, s)'
    <3>1. Ahead(sel[t].node, n, stack[s])'
      BY <2>3, <1>5, <2>7 DEF Ahead
    <3>. QED BY <1>1, <1>5, <2>3, <2>7, <3>1 DEF Watched
  <2>8. CASE pc[t] = "abort"
    <3>1. \/ (AlwaysReady(t) \/ stack[s0] = <<>>) /\ NextAbort(t)
          \/ pc'[t] = "walk" /\ sel'[t].arm = i /\ sel'[t].node = stack[s0][1]
      BY <2>8, AbortSteps
    <3>2. CASE k = i
      <4>1. pc'[t] = "walk" /\ sel'[t].arm = i /\ sel'[t].node = stack[s][1]
        BY <3>1, <3>2, <2>4
      <4>2. Ahead(stack[s][1], n, stack[s])
        <5>1. PICK j \in DOMAIN stack[s] : stack[s][j] = n
          BY <1>5 DEF ToSet
        <5>2. stack[s] \in Seq(OwnNodes)
          BY DEF Types, WaiterTypes
        <5>3. 1 \in DOMAIN stack[s] /\ 1 <= j
          BY <5>1, <5>2
        <5>. QED BY <5>1, <5>3 DEF Ahead
      <4>. QED BY <2>7, <3>2, <4>1, <4>2
    <3>. QED BY <2>2, <2>5, <2>6, <2>8, <3>1, <3>2
  <2>9. CASE pc[t] = "walk"
    <3>1. PICK x \in Beyond(m) :
            IF x = NoNode THEN NextAbort(t)
            ELSE pc'[t] = "walk" /\ sel'[t].arm = i /\ sel'[t].node = x
      BY <2>9, AbortSteps
    <3>2. CASE k = i
      <4>1. Ahead(m, n, stack[s])
        BY <1>1, <2>2, <2>9, <3>2
      <4>2. PICK a \in DOMAIN stack[s] : \E b \in DOMAIN stack[s] :
              a <= b /\ stack[s][a] = m /\ stack[s][b] = n
        BY <4>1 DEF Ahead
      <4>3. PICK b \in DOMAIN stack[s] : a <= b /\ stack[s][a] = m /\ stack[s][b] = n
        BY <4>2
      <4>4. stack[s] \in Seq(OwnNodes) /\ WaiterTypes(OwnNodes)
        BY DEF Types, WaiterTypes
      <4>5. /\ Allocated(m)
            /\ NextOf(m) = IF a = Len(stack[s]) THEN NoNode ELSE stack[s][a + 1]
        BY <4>2, <4>4, NextOfStack DEF Tidy
      <4>6. x = NextOf(m)
        BY <4>5 DEF Beyond
      <4>7. n # m
        BY <1>3, <1>5, <2>1, <2>9, <4>5
      <4>8. a # b /\ a \in Nat /\ b \in Nat /\ a + 1 <= b /\ a + 1 \in DOMAIN stack[s] /\ a # Len(stack[s])
        BY <4>3, <4>4, <4>7
      <4>9. x = stack[s][a + 1] /\ x # NoNode
        <5>1. x = stack[s][a + 1] /\ x \in ToSet(stack[s])
          BY <4>5, <4>6, <4>8 DEF ToSet
        <5>. QED BY <5>1, StackNodes
      <4>10. Ahead(x, n, stack[s])
        BY <4>3, <4>8, <4>9 DEF Ahead
      <4>. QED BY <2>7, <3>1, <3>2, <4>9, <4>10
    <3>. QED BY <2>2, <2>5, <2>6, <2>9, <3>1, <3>2
  <2>. QED BY <2>8, <2>9
<1>. QED BY <1>1, <1>3, <1>4, <1>5, TidyOwn

LEMMA TidySelect ==
  ASSUME Types, Types', Selecting, Tidy, NEW t \in Threads, SelectStep(t)
  PROVE  Tidy'
<1>1. pc[t] \in SelectSteps /\ sel[t].phase \in {"try", "recheck"}
  BY SelectMoves DEF Selecting, Locals
<1>. QED BY <1>1, TidyTry, TidyPosted, TidyEnrol, TidyWalk DEF SelectSteps, Probing, Posted

LEMMA TidyInit ==
  ASSUME SelectingInit
  PROVE  Tidy
<1>1. /\ \A s \in Stacks : stack[s] = <<>> /\ \A u \in Threads : calls[u] = <<>>
      /\ aborted = {} /\ ToSet(<<>>) = {} /\ Once(<<>>)
      /\ \A u \in Threads : pc[u] # "enrol"
  BY DEF SelectingInit, Init, WaiterInit, ToSet, Once, ChannelInit
<1>2. \A u \in Threads : Hand(u) = <<>>
  BY DEF SelectingInit, Init, WaiterInit, Hand, Calling
<1>3. Separate
  BY <1>1, <1>2 DEF SelectingInit, Init, WaiterInit, Separate, Ordered
<1>4. NewNodes
  BY <1>1 DEF NewNodes, OwnNodes, Thread
<1>. QED BY <1>1, <1>3, <1>4 DEF Tidy, AbortedExist, AtHome, CleanUp

LEMMA SelectingTidy == SelectingSpec => [](ChannelInv /\ Selecting /\ Tidy)
<1>1. SelectingInit => Tidy
  BY TidyInit
<1>2. /\ ChannelInv /\ Selecting /\ (ChannelInv /\ Selecting)' /\ Tidy
      /\ [SelectingNext]_selectVars
      => Tidy'
  <2>. SUFFICES ASSUME Types, Types', Selecting, Tidy, [SelectingNext]_selectVars PROVE Tidy'
    BY DEF ChannelInv
  <2>1. CASE UNCHANGED selectVars
    <3>1. /\ UNCHANGED <<permit, waiting, stack, aborted, selected, calls>>
          /\ UNCHANGED <<flavour, q, held, pc, on, pos, spurious, sel, timed>>
      BY <2>1 DEF selectVars, waiterVars, chanVars, selVars
    <3>2. (\A m : Allocated(m)' <=> Allocated(m)) /\ Separate'
      BY <3>1 DEF Tidy, Separate, Ordered, Hand, Calling, Allocated, Chains, Drainers
    <3>3. AbortedExist'
      BY <3>1, <3>2 DEF Tidy, AbortedExist
    <3>. QED BY <3>1, <3>2, <3>3, TidyAside
  <2>2. ASSUME NEW t \in Threads, SelectStep(t) \/ (Does(t) /\ UNCHANGED selVars) \/ SelectCall(t) \/ DeadlinePasses(t)
        PROVE  Tidy'
    BY <2>2, TidySelect, TidyDoes, TidySame
  <2>. QED BY <2>1, <2>2, SelectingSteps
<1>. QED BY <1>1, <1>2, SelectingInvariance, PTL DEF SelectingSpec

(* abort_select_waiters: a select call does not end before every node it    *)
(* has pushed is marked or freed, whatever the wakers take from the stacks  *)
(* under its walks, so no later wake-up is spent on it.                     *)
THEOREM NoNodeLeftBehind == SelectingSpec => []FinishedCallsAborted
<1>1. Tidy => FinishedCallsAborted
  BY WatchedSelects DEF Tidy, CleanUp, FinishedCallsAborted, Watched
<1>. QED BY <1>1, SelectingTidy, PTL

-----------------------------------------------------------------------------
(* NotStranded.  The wake calls for select calls that each flavour makes.   *)
LEMMA SelectWords ==
  ASSUME Types, NEW c \in Chans
  PROVE  /\ \E i \in DOMAIN flavour[c].sent : flavour[c].sent[i] = "select_one"
         /\ flavour[c].bounded => \E i \in DOMAIN flavour[c].popped : flavour[c].popped[i] = "free_one"
         /\ \E i \in DOMAIN flavour[c].orphaned : flavour[c].orphaned[i] = "select_all"
         /\ flavour[c].bounded => \E i \in DOMAIN flavour[c].closed : flavour[c].closed[i] = "free_all"
         /\ \A i \in DOMAIN flavour[c].sent : flavour[c].sent[i] # "drain"
         /\ \A i \in DOMAIN flavour[c].popped : flavour[c].popped[i] # "drain"
         /\ \A i \in DOMAIN flavour[c].orphaned : flavour[c].orphaned[i] # "drain"
<1>1. flavour[c] \in Flavours
  BY FlavourAssumption DEF Types
<1>2. /\ DOMAIN <<"wake_one", "select_one">> = {1, 2} /\ <<"wake_one", "select_one">>[2] = "select_one"
      /\ <<"wake_one", "select_one">>[1] = "wake_one"
      /\ DOMAIN <<"wake_all_unselected", "select_one">> = {1, 2}
      /\ <<"wake_all_unselected", "select_one">>[2] = "select_one"
      /\ <<"wake_all_unselected", "select_one">>[1] = "wake_all_unselected"
      /\ DOMAIN <<"free_one">> = {1} /\ <<"free_one">>[1] = "free_one" /\ DOMAIN <<>> = {}
      /\ DOMAIN <<"wake_all", "select_all">> = {1, 2} /\ <<"wake_all", "select_all">>[2] = "select_all"
      /\ <<"wake_all", "select_all">>[1] = "wake_all"
      /\ DOMAIN <<"drain", "free_all">> = {1, 2} /\ <<"drain", "free_all">>[2] = "free_all"
  OBVIOUS
<1>3. \A f \in Flavours :
        /\ f.sent \in {<<"wake_one", "select_one">>, <<"wake_all_unselected", "select_one">>}
        /\ f.popped \in {<<"free_one">>, <<>>} /\ (f.bounded => f.popped = <<"free_one">>)
        /\ f.orphaned = <<"wake_all", "select_all">>
        /\ f.bounded => f.closed = <<"drain", "free_all">>
  <2>. TAKE f \in Flavours
  <2>1. CASE f = BoundedMpmc    BY <2>1 DEF BoundedMpmc
  <2>2. CASE f = BoundedMpsc    BY <2>2 DEF BoundedMpsc
  <2>3. CASE f = UnboundedMpmc  BY <2>3 DEF UnboundedMpmc
  <2>4. CASE f = UnboundedMpsc  BY <2>4 DEF UnboundedMpsc
  <2>. QED BY <2>1, <2>2, <2>3, <2>4 DEF Flavours
<1>. DEFINE f == flavour[c]
<1>. HIDE DEF f
<1>4. f \in Flavours
  BY <1>1 DEF f
<1>5. /\ \E i \in DOMAIN f.sent : f.sent[i] = "select_one"
      /\ \A i \in DOMAIN f.sent : f.sent[i] # "drain"
  BY <1>2, <1>3, <1>4
<1>6. /\ f.bounded => \E i \in DOMAIN f.popped : f.popped[i] = "free_one"
      /\ \A i \in DOMAIN f.popped : f.popped[i] # "drain"
  BY <1>2, <1>3, <1>4
<1>7. /\ \E i \in DOMAIN f.orphaned : f.orphaned[i] = "select_all"
      /\ \A i \in DOMAIN f.orphaned : f.orphaned[i] # "drain"
  BY <1>2, <1>3, <1>4
<1>8. f.bounded => \E i \in DOMAIN f.closed : f.closed[i] = "free_all"
  BY <1>2, <1>3, <1>4
<1>. QED BY <1>5, <1>6, <1>7, <1>8 DEF f

(* What an arm waits for, but for the end of the other side.                *)
Unbidden(c, side) == IF side = "recv" THEN CanTake(q[c]) ELSE ~flavour[c].bounded \/ SlotFree(q[c], Cap)

(* A select call on arm s is to be woken by a call of u.                    *)
Heralded(u, s) == \E call \in ToSet(calls'[u]) : call.op \in Choice /\ call.on = s

LEMMA Heralds ==
  ASSUME Types, NEW u \in Threads, Free(u), NEW c \in Chans, NEW words \in Seq(Words), Then(u, words, c)
  PROVE  /\ (\E i \in DOMAIN words : words[i] \in {"select_one", "select_all"}) => Heralded(u, <<c, "recv">>)
         /\ (\E i \in DOMAIN words : words[i] \in {"free_one", "free_all"}) => Heralded(u, <<c, "send">>)
<1>1. \A i \in DOMAIN words : CallFor(words[i], c) \in ToSet(calls'[u])
  BY ThenTyped
<1>2. /\ CallFor("select_one", c) = [op |-> "select_one", on |-> <<c, "recv">>]
      /\ CallFor("select_all", c) = [op |-> "select_all", on |-> <<c, "recv">>]
      /\ CallFor("free_one", c) = [op |-> "select_one", on |-> <<c, "send">>]
      /\ CallFor("free_all", c) = [op |-> "select_all", on |-> <<c, "send">>]
  BY DEF CallFor, SelectOne, SelectAll
<1>3. ASSUME NEW i \in DOMAIN words, NEW op \in Choice, NEW s, CallFor(words[i], c) = [op |-> op, on |-> s]
      PROVE  Heralded(u, s)
  <2>. DEFINE call == [op |-> op, on |-> s]
  <2>1. call \in ToSet(calls'[u]) /\ call.op \in Choice /\ call.on = s
    BY <1>1, <1>3
  <2>. HIDE DEF call
  <2>. QED BY <2>1 DEF Heralded
<1>4. "select_one" \in Choice /\ "select_all" \in Choice
  BY DEF Choice
<1>5. ASSUME NEW i \in DOMAIN words, words[i] \in {"select_one", "select_all"}
      PROVE  Heralded(u, <<c, "recv">>)
  BY <1>2, <1>3, <1>4, <1>5
<1>6. ASSUME NEW i \in DOMAIN words, words[i] \in {"free_one", "free_all"}
      PROVE  Heralded(u, <<c, "send">>)
  BY <1>2, <1>3, <1>4, <1>6
<1>. QED BY <1>5, <1>6

(* Whatever makes an arm ready is followed by a wake call for that arm.     *)
LEMMA QueueNews ==
  ASSUME Types, NEW u \in Threads, Acts(u), NEW c \in Chans, NEW side \in {"recv", "send"},
         Unbidden(c, side)'
  PROVE  Unbidden(c, side) \/ Heralded(u, <<c, side>>)
<1>. DEFINE d == on[u]
<1>0. q[c] \in Rings /\ Cap \in Nat
  BY ChannelAssumption DEF Types
<1>1. CASE UNCHANGED <<q, flavour>>
  BY <1>1 DEF Unbidden, CanTake, SlotFree
<1>2. CASE PushItem(u) \/ PublishItem(u)
  <2>1. d \in Chans /\ Free(u) /\ UNCHANGED flavour
    BY <1>2 DEF PushItem, PublishItem, At, Types, Placed, SendSteps
  <2>2. CASE d # c
    <3>1. q'[c] = q[c]
      BY <1>2, <2>2 DEF PushItem, PublishItem, Types
    <3>. QED BY <2>1, <3>1 DEF Unbidden, CanTake, SlotFree
  <2>3. CASE d = c /\ (PublishItem(u) \/ ~flavour[c].bounded)
    <3>1. Heralded(u, <<c, "recv">>)
      <4>1. flavour[c].sent \in Seq(Words) /\ \E i \in DOMAIN flavour[c].sent : flavour[c].sent[i] = "select_one"
        BY FlavourWords, SelectWords
      <4>2. Then(u, flavour[c].sent, c)
        BY <1>2, <2>3 DEF PushItem, PublishItem
      <4>. QED BY <4>1, <4>2, <2>1, Heralds
    <3>2. CASE side = "send" /\ flavour[c].bounded
      <4>1. q'[c] = Publish(q[c], pos[u])
        BY <2>3, <3>2 DEF PublishItem, Types
      <4>2. q'[c].tail = q[c].tail /\ q'[c].head = q[c].head /\ q'[c].reading = q[c].reading
        BY <4>1, <1>0 DEF Publish, Rings
      <4>. QED BY <2>1, <3>2, <4>2 DEF Unbidden, SlotFree
    <3>. QED BY <2>1, <3>1, <3>2 DEF Unbidden
  <2>4. CASE d = c /\ PushItem(u) /\ flavour[c].bounded
    <3>1. q' = q \/ (q' = [q EXCEPT ![c] = Claim(@)] /\ SlotFree(q[c], Cap))
      BY <2>4 DEF PushItem
    <3>2. q'[c].ready = q[c].ready /\ q'[c].head = q[c].head
      BY <3>1 DEF Claim, Types, Rings
    <3>. QED BY <2>1, <2>4, <3>1, <3>2, <1>1 DEF Unbidden, CanTake
  <2>. QED BY <1>2, <2>2, <2>3, <2>4
<1>3. CASE PopItem(u)
  <2>1. d \in Chans /\ UNCHANGED flavour /\ CanTake(q[d])
    BY <1>3 DEF PopItem, Types, Placed, RecvSteps
  <2>2. CASE d # c
    <3>1. q'[c] = q[c]
      BY <1>3, <2>2 DEF PopItem, Types
    <3>. QED BY <2>1, <3>1 DEF Unbidden, CanTake, SlotFree
  <2>3. CASE d = c /\ side = "send" /\ flavour[c].bounded
    <3>1. q'[c] = Take(q[c])
      BY <1>3, <2>3 DEF PopItem, Types
    <3>2. /\ q'[c].tail = q[c].tail /\ q'[c].head = q[c].head + 1
          /\ q'[c].reading = q[c].reading \cup {q[c].head}
      BY <3>1 DEF Take
    <3>. DEFINE h == q[c].head
                tl == q[c].tail
    <3>3. h \in Int /\ tl \in Int
      BY <1>0 DEF Rings
    <3>4. SlotFree(q[c], Cap)'
      BY <2>1, <2>3 DEF Unbidden
    <3>5. tl - Cap < h + 1 /\ tl - Cap # h /\ tl - Cap \notin q[c].reading
      BY <3>2, <3>4 DEF SlotFree
    <3>6. tl - Cap < h
      <4>. HIDE DEF h, tl
      <4>. QED BY <3>3, <3>5, <1>0
    <3>7. SlotFree(q[c], Cap)
      BY <3>5, <3>6 DEF SlotFree
    <3>. QED BY <2>3, <3>7 DEF Unbidden
  <2>. QED BY <2>1, <2>2, <2>3 DEF Unbidden
<1>4. CASE ReleaseSlot(u)
  <2>1. d \in Chans /\ Free(u) /\ UNCHANGED flavour /\ Then(u, flavour[d].popped, d)
    BY <1>4 DEF ReleaseSlot, Types, Placed, RecvSteps
  <2>2. CASE d # c
    <3>1. q'[c] = q[c]
      BY <1>4, <2>2 DEF ReleaseSlot, Types
    <3>. QED BY <2>1, <3>1 DEF Unbidden, CanTake, SlotFree
  <2>3. CASE d = c /\ side = "send" /\ flavour[c].bounded
    <3>1. flavour[c].popped \in Seq(Words) /\ \E i \in DOMAIN flavour[c].popped : flavour[c].popped[i] = "free_one"
      BY <2>3, FlavourWords, SelectWords
    <3>. QED BY <3>1, <2>1, <2>3, Heralds
  <2>4. CASE side = "recv"
    <3>1. q'[c].ready = q[c].ready /\ q'[c].head = q[c].head
      BY <1>4 DEF ReleaseSlot, Release, Types, Rings
    <3>. QED BY <2>4, <3>1 DEF Unbidden, CanTake
  <2>. QED BY <2>2, <2>3, <2>4 DEF Unbidden
<1>5. UNCHANGED <<q, flavour>> \/ PushItem(u) \/ PublishItem(u) \/ PopItem(u) \/ ReleaseSlot(u)
  BY DEF Acts, SendStep, CheckReceivers, RecvStep, PopNone, CountSenders, Enlist, ParkReturns, Leave,
         Voluntary, RecvCall, TryRecvCall, SendCall, Start, DropSender, DropReceiver, CloneHandle, Spurious
<1>. QED BY <1>1, <1>2, <1>3, <1>4, <1>5

(* Handles are dropped and cloned by nothing else.                          *)
LEMMA HandlesMove ==
  ASSUME NEW u \in Threads, Acts(u)
  PROVE  \/ UNCHANGED held \/ \E v \in Threads : CloneHandle(u, v)
         \/ \E d \in Chans : DropSender(u, d) \/ DropReceiver(u, d)
<1>1. CASE SendStep(u) \/ RecvStep(u)
  BY <1>1 DEF SendStep, CheckReceivers, PushItem, PublishItem, RecvStep, PopItem, ReleaseSlot, PopNone,
              CountSenders, Enlist, ParkReturns, Leave
<1>2. CASE Voluntary(u) \/ \E c \in Chans : SendCall(u, c)
  BY <1>2 DEF Voluntary, RecvCall, TryRecvCall, SendCall, Start, Spurious
<1>. QED BY <1>1, <1>2 DEF Acts

LEMMA HandleNews ==
  ASSUME Types, Unborn, NEW u \in Threads, Acts(u), NEW c \in Chans, NEW side \in {"recv", "send"},
         PeersGone(c, side)'
  PROVE  ArmDue(c, side) \/ Heralded(u, <<c, side>>)
<1>. SUFFICES ASSUME ~ArmDue(c, side) PROVE Heralded(u, <<c, side>>)
  OBVIOUS
<1>0. ~PeersGone(c, side) /\ (side = "send" => flavour[c].bounded)
  BY DEF ArmDue, Due, PeersGone
<1>1. \/ UNCHANGED held \/ \E v \in Threads : CloneHandle(u, v)
      \/ \E d \in Chans : DropSender(u, d) \/ DropReceiver(u, d)
  BY HandlesMove
<1>2. CASE UNCHANGED held
  BY <1>0, <1>2 DEF PeersGone, Senders, Receivers
<1>3. ASSUME NEW d \in Chans, DropSender(u, d)
      PROVE  Heralded(u, <<c, side>>)
  <2>1. held' = [held EXCEPT ![u] = @ \ {<<d, "send">>}] /\ Free(u) /\ <<d, "send">> \in held[u]
    BY <1>3 DEF DropSender, At
  <2>2. Receivers(c)' = Receivers(c)
    BY <2>1 DEF Receivers, Types
  <2>3. side = "recv"
    BY <2>2, <1>0 DEF PeersGone
  <2>4. Senders(c) # {} /\ Senders(c)' = {}
    BY <2>3, <1>0 DEF PeersGone
  <2>5. d = c /\ Senders(c) = {u}
    BY <2>1, <2>4 DEF Senders, Types
  <2>6. Then(u, flavour[c].orphaned, c)
    BY <2>5, <1>3 DEF DropSender
  <2>7. /\ flavour[c].orphaned \in Seq(Words)
        /\ \E i \in DOMAIN flavour[c].orphaned : flavour[c].orphaned[i] = "select_all"
    BY FlavourWords, SelectWords
  <2>. QED BY <2>1, <2>3, <2>6, <2>7, Heralds
<1>4. ASSUME NEW d \in Chans, DropReceiver(u, d)
      PROVE  Heralded(u, <<c, side>>)
  <2>1. held' = [held EXCEPT ![u] = @ \ {<<d, "recv">>}] /\ Free(u) /\ <<d, "recv">> \in held[u]
    BY <1>4 DEF DropReceiver, At
  <2>2. Senders(c)' = Senders(c)
    BY <2>1 DEF Senders, Types
  <2>3. side = "send"
    BY <2>2, <1>0 DEF PeersGone
  <2>4. Receivers(c) # {} /\ Receivers(c)' = {}
    BY <2>3, <1>0 DEF PeersGone
  <2>5. d = c /\ Receivers(c) = {u}
    BY <2>1, <2>4 DEF Receivers, Types
  <2>6. Then(u, flavour[c].closed, c)
    BY <2>5, <1>4 DEF DropReceiver
  <2>7. /\ flavour[c].closed \in Seq(Words)
        /\ \E i \in DOMAIN flavour[c].closed : flavour[c].closed[i] = "free_all"
    BY <1>0, <2>3, FlavourWords, SelectWords
  <2>. QED BY <2>1, <2>3, <2>6, <2>7, Heralds
<1>5. ASSUME NEW v \in Threads, CloneHandle(u, v)
      PROVE  Heralded(u, <<c, side>>)
  <2>1. held' = [held EXCEPT ![v] = {Offspring[v]}] /\ held[v] = {}
    BY <1>5 DEF CloneHandle, Unborn
  <2>2. Senders(c) \subseteq Senders(c)' /\ Receivers(c) \subseteq Receivers(c)'
    BY <2>1 DEF Senders, Receivers, Types
  <2>. QED BY <2>2, <1>0 DEF PeersGone
<1>. QED BY <1>1, <1>2, <1>3, <1>4, <1>5

LEMMA ArmNews ==
  ASSUME Types, Unborn, NEW u \in Threads, Acts(u), NEW c \in Chans, NEW side \in {"recv", "send"}
  PROVE  /\ Unbidden(c, side)' => Unbidden(c, side) \/ Heralded(u, <<c, side>>)
         /\ ArmDue(c, side)' => ArmDue(c, side) \/ Heralded(u, <<c, side>>)
<1>1. Unbidden(c, side) => ArmDue(c, side)
  BY DEF Unbidden, ArmDue, Due
<1>2. ArmDue(c, side)' => Unbidden(c, side)' \/ PeersGone(c, side)'
  BY DEF Unbidden, ArmDue, Due, PeersGone
<1>. QED BY <1>1, <1>2, QueueNews, HandleNews

-----------------------------------------------------------------------------
(* Who owns what.  An operation has a handle of its side; handles are those *)
(* of the start and of the clones; the stack of a receiving side is drained *)
(* only when no receiver is left.                                           *)
Entitled ==
  \A u \in Threads : /\ pc[u] \in SendSteps => <<on[u], "send">> \in held[u]
                     /\ pc[u] \in RecvSteps => <<on[u], "recv">> \in held[u]
Owns == \A u \in Threads : held[u] \subseteq Handles[u] \cup {Offspring[u]}
Drains ==
  \A u \in Threads : \A call \in ToSet(calls[u]) :
    call.op = "drain" => call.on[2] = "recv" /\ Receivers(call.on[1]) = {}

LEMMA EntitledMoves ==
  ASSUME Types, Entitled, NEW u \in Threads, UNCHANGED held,
         NEW to, pc' = [pc EXCEPT ![u] = to], \A v \in Threads \ {u} : on'[v] = on[v],
         to \in SendSteps => <<on'[u], "send">> \in held[u],
         to \in RecvSteps => <<on'[u], "recv">> \in held[u]
  PROVE  Entitled'
<1>1. pc'[u] = to /\ \A v \in Threads \ {u} : pc'[v] = pc[v]
  BY DEF Types, Placed
<1>. QED BY <1>1 DEF Entitled

LEMMA EntitledActs ==
  ASSUME Types, Unborn, Entitled, NEW u \in Threads, Acts(u)
  PROVE  Entitled'
<1>0. "idle" \notin SendSteps \cup RecvSteps
  BY DEF SendSteps, RecvSteps
<1>00. SendSteps \cap RecvSteps = {}
  BY DEF SendSteps, RecvSteps
<1>1. ASSUME NEW d \in Chans, SendCall(u, d) \/ RecvCall(u, d) \/ TryRecvCall(u, d)
      PROVE  Entitled'
  <2>1. PICK step \in {"check", "pop", "trypop"} :
          /\ pc' = [pc EXCEPT ![u] = step] /\ on' = [on EXCEPT ![u] = d] /\ UNCHANGED held
          /\ IF step = "check" THEN <<d, "send">> \in held[u] ELSE <<d, "recv">> \in held[u]
    BY <1>1 DEF SendCall, RecvCall, TryRecvCall, Start
  <2>2. on'[u] = d /\ \A v \in Threads \ {u} : on'[v] = on[v]
    BY <2>1 DEF Types, Placed
  <2>3. (step \in SendSteps => step = "check") /\ (step \in RecvSteps => step # "check")
    BY DEF SendSteps, RecvSteps
  <2>. QED BY <2>1, <2>2, <2>3, EntitledMoves
<1>2. CASE SendStep(u)
  <2>1. PICK to \in {"idle", "push", "publish"} :
          /\ pc' = [pc EXCEPT ![u] = to] /\ UNCHANGED held /\ pc[u] \in SendSteps
          /\ to # "idle" => on' = on
          /\ \A v \in Threads \ {u} : on'[v] = on[v]
    BY <1>2 DEF SendStep, CheckReceivers, PushItem, PublishItem, At, Goto, Finish, SendSteps, Types, Placed
  <2>2. <<on[u], "send">> \in held[u]
    BY <2>1 DEF Entitled
  <2>3. to \notin RecvSteps
    BY DEF RecvSteps
  <2>. QED BY <1>0, <2>1, <2>2, <2>3, EntitledMoves
<1>3. CASE RecvStep(u)
  <2>1. PICK to \in {"idle"} \cup RecvSteps :
          /\ pc' = [pc EXCEPT ![u] = to] /\ UNCHANGED held /\ pc[u] \in RecvSteps
          /\ to # "idle" => on' = on
          /\ \A v \in Threads \ {u} : on'[v] = on[v]
    BY <1>3 DEF RecvStep, PopItem, ReleaseSlot, PopNone, CountSenders, Enlist, ParkReturns, Leave,
                AfterPop, At, Goto, Finish, RecvSteps, Types, Placed
  <2>2. <<on[u], "recv">> \in held[u]
    BY <2>1 DEF Entitled
  <2>. QED BY <1>0, <1>00, <2>1, <2>2, EntitledMoves
<1>4. CASE Spurious(u)
  BY <1>4 DEF Spurious, Entitled
<1>5. ASSUME NEW d \in Chans, DropSender(u, d) \/ DropReceiver(u, d)
      PROVE  Entitled'
  <2>1. /\ pc[u] = "idle" /\ pc' = pc /\ on' = on /\ \A v \in Threads \ {u} : held'[v] = held[v]
    BY <1>5 DEF DropSender, DropReceiver, At, Types
  <2>. QED BY <1>0, <2>1 DEF Entitled
<1>6. ASSUME NEW v \in Threads, CloneHandle(u, v)
      PROVE  Entitled'
  <2>1. /\ pc'[v] = "idle" /\ on' = on
        /\ \A w \in Threads \ {v} : pc'[w] = pc[w] /\ held'[w] = held[w]
    BY <1>6 DEF CloneHandle, Goto, Types, Placed
  <2>. QED BY <1>0, <2>1 DEF Entitled
<1>. QED BY <1>1, <1>2, <1>3, <1>4, <1>5, <1>6 DEF Acts, Voluntary

LEMMA HandlesActs ==
  ASSUME Types, Unborn, Owns, NEW u \in Threads, Acts(u)
  PROVE  Owns' /\ \A c \in Chans : Receivers(c) = {} => Receivers(c)' = {}
<1>1. \/ UNCHANGED held \/ \E v \in Threads : CloneHandle(u, v)
      \/ \E d \in Chans : DropSender(u, d) \/ DropReceiver(u, d)
  BY HandlesMove
<1>2. CASE UNCHANGED held
  BY <1>2 DEF Owns, Receivers
<1>3. ASSUME NEW d \in Chans, DropSender(u, d) \/ DropReceiver(u, d)
      PROVE  Owns' /\ \A c \in Chans : Receivers(c) = {} => Receivers(c)' = {}
  <2>1. \A v \in Threads : held'[v] \subseteq held[v]
    BY <1>3 DEF DropSender, DropReceiver, Types
  <2>. QED BY <2>1 DEF Owns, Receivers
<1>4. ASSUME NEW v \in Threads, CloneHandle(u, v)
      PROVE  Owns' /\ \A c \in Chans : Receivers(c) = {} => Receivers(c)' = {}
  <2>1. /\ held'[v] = {Offspring[v]} /\ Offspring[v] \in held[u]
        /\ \A w \in Threads \ {v} : held'[w] = held[w]
    BY <1>4 DEF CloneHandle, Types
  <2>. QED BY <2>1 DEF Owns, Receivers
<1>. QED BY <1>1, <1>2, <1>3, <1>4

LEMMA NewCalls ==
  ASSUME Types, NEW u \in Threads, NEW c \in Chans, NEW words \in Seq(Words), Then(u, words, c)
  PROVE  \A v \in Threads : \A call \in ToSet(calls'[v]) :
           call \in ToSet(calls[v]) \/ \E i \in DOMAIN words : call = CallFor(words[i], c)
<1>. DEFINE more == [i \in DOMAIN words |-> CallFor(words[i], c)]
<1>1. calls'[u] = more /\ \A v \in Threads \ {u} : calls'[v] = calls[v]
  BY DEF Then, Types, WaiterTypes
<1>2. \A call \in ToSet(more) : \E i \in DOMAIN words : call = CallFor(words[i], c)
  BY DEF ToSet
<1>. QED BY <1>1, <1>2

LEMMA DrainsActs ==
  ASSUME Types, Unborn, Owns, Drains, NEW u \in Threads, Acts(u)
  PROVE  Drains'
<1>1. \A c \in Chans : Receivers(c) = {} => Receivers(c)' = {}
  BY HandlesActs
<1>2. \A v \in Threads : \A call \in ToSet(calls[v]) :
        call.op = "drain" => call.on[2] = "recv" /\ Receivers(call.on[1])' = {}
  <2>. SUFFICES ASSUME NEW v \in Threads, NEW call \in ToSet(calls[v]), call.op = "drain"
                PROVE  call.on[2] = "recv" /\ Receivers(call.on[1])' = {}
    OBVIOUS
  <2>1. calls[v] \in Seq(WakeCalls(OwnNodes))
    BY DEF Types, WaiterTypes
  <2>2. call \in WakeCalls(OwnNodes)
    BY <2>1 DEF ToSet
  <2>3. call.on \in Stacks
    BY <2>2 DEF WakeCalls, Snapshots, Swaps, Unparks, Visits
  <2>4. call.on[1] \in Chans
    BY <2>3, ChannelAssumption
  <2>5. call.on[2] = "recv" /\ Receivers(call.on[1]) = {}
    BY DEF Drains
  <2>. QED BY <1>1, <2>4, <2>5
<1>3. \A w \in Words : \A c \in Chans :
        CallFor(w, c).op = "drain" => w = "drain" /\ CallFor(w, c).on = <<c, "recv">>
  BY DEF Words, CallFor, WakeOne, WakeAll, WakeAllUnselected, SelectOne, SelectAll, Drain
<1>4. ASSUME NEW c \in Chans, NEW words \in Seq(Words), Then(u, words, c),
             (\A i \in DOMAIN words : words[i] # "drain") \/ Receivers(c)' = {}
      PROVE  Drains'
  <2>1. \A i \in DOMAIN words : words[i] \in Words
    OBVIOUS
  <2>2. ASSUME NEW i \in DOMAIN words, CallFor(words[i], c).op = "drain"
        PROVE  CallFor(words[i], c).on[2] = "recv" /\ Receivers(CallFor(words[i], c).on[1])' = {}
    <3>1. CallFor(words[i], c).on = <<c, "recv">> /\ words[i] = "drain"
      BY <1>3, <2>1, <2>2
    <3>. DEFINE s == CallFor(words[i], c).on
    <3>. HIDE DEF s
    <3>2. s = <<c, "recv">>
      BY <3>1 DEF s
    <3>3. s[2] = "recv" /\ s[1] = c
      BY <3>2
    <3>4. Receivers(c)' = {}
      BY <1>4, <3>1
    <3>. QED BY <3>3, <3>4 DEF s, Receivers
  <2>3. ASSUME NEW v \in Threads, NEW call \in ToSet(calls'[v]), call.op = "drain"
        PROVE  call.on[2] = "recv" /\ Receivers(call.on[1])' = {}
    <3>1. call \in ToSet(calls[v]) \/ \E i \in DOMAIN words : call = CallFor(words[i], c)
      BY <1>4, NewCalls
    <3>2. CASE call \in ToSet(calls[v])
      BY <3>2, <2>3, <1>2
    <3>3. ASSUME NEW i \in DOMAIN words, call = CallFor(words[i], c)
          PROVE  call.on[2] = "recv" /\ Receivers(call.on[1])' = {}
      BY <3>3, <2>2, <2>3 DEF Receivers
    <3>. QED BY <3>1, <3>2, <3>3
  <2>. QED BY <2>3 DEF Drains
<1>5. CASE UNCHANGED calls
  BY <1>2, <1>5 DEF Drains
<1>6. pc[u] \in {"push", "publish", "release", "release2"} => on[u] \in Chans
  BY DEF Types, Placed, SendSteps, RecvSteps
<1>7. CASE PushItem(u) \/ PublishItem(u) \/ ReleaseSlot(u)
  <2>1. /\ on[u] \in Chans
        /\ \/ UNCHANGED calls \/ Then(u, flavour[on[u]].sent, on[u])
           \/ Then(u, flavour[on[u]].popped, on[u])
    BY <1>6, <1>7 DEF PushItem, PublishItem, ReleaseSlot, At, NothingToWake
  <2>. QED BY <2>1, <1>4, <1>5, SelectWords, FlavourWords
<1>8. ASSUME NEW c \in Chans, DropSender(u, c)
      PROVE  Drains'
  BY <1>4, <1>5, <1>8, SelectWords, FlavourWords DEF DropSender, NothingToWake
<1>9. ASSUME NEW c \in Chans, DropReceiver(u, c)
      PROVE  Drains'
  <2>1. CASE Receivers(c) = {u}
    <3>1. Receivers(c)' = {}
      BY <1>9, <2>1 DEF DropReceiver, Receivers, Types
    <3>. QED BY <1>4, <1>9, <2>1, <3>1, FlavourWords DEF DropReceiver
  <2>. QED BY <1>5, <1>9, <2>1 DEF DropReceiver, NothingToWake
<1>10. CASE \/ CheckReceivers(u) \/ PopItem(u) \/ PopNone(u) \/ CountSenders(u) \/ Enlist(u)
            \/ ParkReturns(u) \/ Leave(u) \/ Spurious(u)
            \/ \E c \in Chans : RecvCall(u, c) \/ TryRecvCall(u, c) \/ SendCall(u, c)
            \/ \E v \in Threads : CloneHandle(u, v)
  BY <1>5, <1>10 DEF CheckReceivers, PopItem, PopNone, CountSenders, Enlist, ParkReturns, Leave, Spurious,
              RecvCall, TryRecvCall, SendCall, Start, CloneHandle, waiterVars
<1>11. CASE SendStep(u) \/ RecvStep(u)
  BY <1>7, <1>10, <1>11 DEF SendStep, RecvStep
<1>12. CASE Voluntary(u)
  <2>1. ASSUME NEW c \in Chans, RecvCall(u, c) \/ TryRecvCall(u, c)
        PROVE  Drains'
    BY <2>1, <1>10
  <2>2. CASE Spurious(u) \/ \E v \in Threads : CloneHandle(u, v)
    BY <2>2, <1>10
  <2>. QED BY <2>1, <2>2, <1>8, <1>9, <1>12 DEF Voluntary
<1>. QED BY <1>10, <1>11, <1>12 DEF Acts

Owned == Entitled /\ Owns /\ Drains

LEMMA OwnedSame ==
  ASSUME Owned, UNCHANGED <<held, calls>>
  PROVE  Owns' /\ Drains'
  BY DEF Owned, Owns, Drains, Receivers

LEMMA OwnedWake ==
  ASSUME Types, Owned, NEW u \in Threads, WakeStep(u), UNCHANGED chanVars
  PROVE  Owned'
<1>1. UNCHANGED <<pc, on, held>>
  BY DEF chanVars
<1>2. \A v \in Threads : \A call \in ToSet(calls'[v]) : call.op = "drain" => call \in ToSet(calls[v])
  BY OwnNodesOK, NoNewCalls DEF Types
<1>. QED BY <1>1, <1>2 DEF Owned, Entitled, Owns, Drains, Receivers

LEMMA OwnedSelect ==
  ASSUME Types, Selecting, Owned, NEW t \in Threads, SelectStep(t)
  PROVE  Owned'
<1>1. UNCHANGED <<held, calls>> /\ pc[t] \in SelectSteps /\ ToSet(Arms[t]) \subseteq held[t]
  BY SelectWaiter, SelectMoves DEF Selecting
<1>2. /\ \A u \in Threads \ {t} : pc'[u] = pc[u] /\ on'[u] = on[u]
      /\ \/ pc'[t] \in SelectSteps \cup {"idle"}
         \/ pc'[t] = "pop" /\ <<on'[t], "recv">> \in ToSet(Arms[t])
         \/ pc'[t] = "check" /\ <<on'[t], "send">> \in ToSet(Arms[t])
  BY SelectEnds
<1>3. /\ (SelectSteps \cup {"idle"}) \cap (SendSteps \cup RecvSteps) = {}
      /\ "pop" \notin SendSteps /\ "check" \notin RecvSteps
  BY DEF SelectSteps, SendSteps, RecvSteps
<1>4. Entitled'
  BY <1>1, <1>2, <1>3 DEF Owned, Entitled
<1>. QED BY <1>1, <1>4, OwnedSame DEF Owned

LEMMA OwnedCalls ==
  ASSUME Types, Owned, NEW t \in Threads, SelectCall(t) \/ DeadlinePasses(t)
  PROVE  Owned'
<1>1. /\ UNCHANGED <<held, calls, on>>
      /\ \A u \in Threads : pc'[u] = pc[u] \/ pc'[u] = "probe"
  BY DEF SelectCall, DeadlinePasses, chanVars, waiterVars, Types, Placed
<1>2. "probe" \notin SendSteps \cup RecvSteps
  BY DEF SendSteps, RecvSteps
<1>3. Entitled'
  BY <1>1, <1>2 DEF Owned, Entitled
<1>. QED BY <1>1, <1>3, OwnedSame DEF Owned

LEMMA OwnedInit ==
  ASSUME SelectingInit
  PROVE  Owned
<1>1. /\ \A u \in Threads : pc[u] \in {"idle", "unborn"} /\ calls[u] = <<>> /\ held[u] = Handles[u]
      /\ ToSet(<<>>) = {}
  BY ChannelAssumption DEF SelectingInit, Init, ChannelInit, WaiterInit, ToSet
<1>2. "idle" \notin SendSteps \cup RecvSteps /\ "unborn" \notin SendSteps \cup RecvSteps
  BY DEF SendSteps, RecvSteps
<1>. QED BY <1>1, <1>2 DEF Owned, Entitled, Owns, Drains

-----------------------------------------------------------------------------
(* The nodes on a stack that are not marked are of one turn.                *)
LEMMA StackTurn ==
  ASSUME Alone, Types, Tidy, NEW s \in Stacks
  PROVE  SameTurn({n \in ToSet(stack[s]) : n \notin aborted})
<1>. SUFFICES ASSUME NEW m \in ToSet(stack[s]), m \notin aborted,
                     NEW n \in ToSet(stack[s]), n \notin aborted
              PROVE  Thread(m) = Thread(n) /\ Round(m) = Round(n)
  BY DEF SameTurn
<1>1. sel[Thread(m)].round = Round(m) /\ sel[Thread(n)].round = Round(n)
  BY DEF Tidy, CleanUp, Watched
<1>2. s = Arms[Thread(m)][Arm(m)] /\ s = Arms[Thread(n)][Arm(n)]
  BY DEF Tidy, AtHome
<1>3. /\ Thread(m) \in Threads /\ Arm(m) \in DOMAIN Arms[Thread(m)]
      /\ Thread(n) \in Threads /\ Arm(n) \in DOMAIN Arms[Thread(n)]
  BY StackNodes
<1>4. s \in ToSet(Arms[Thread(m)]) /\ s \in ToSet(Arms[Thread(n)]) /\ Thread(m) \in Selectors
  <2>1. \A u \in Threads : \A i \in DOMAIN Arms[u] : Arms[u][i] \in ToSet(Arms[u]) /\ u \in Selectors
    BY ArmsTyped
  <2>. QED BY <1>2, <1>3, <2>1
<1>. QED BY <1>1, <1>3, <1>4 DEF Alone

(* What the steps do to the nodes and to the calls of wakers.               *)
LEMMA ActsKeep ==
  ASSUME Types, Separate, NEW u \in Threads, Acts(u)
  PROVE  /\ UNCHANGED <<stack, aborted, selected>>
         /\ \A v \in Threads : /\ Hand(v)' = Hand(v) /\ (Hand(v) # <<>> => calls'[v] = calls[v])
                               /\ ToSet(calls[v]) \subseteq ToSet(calls'[v])
         /\ \A v \in Threads : pc[v] \in SelectSteps /\ permit[v] => permit'[v]
<1>1. UNCHANGED <<stack, aborted, selected>> /\ \A v \in Threads : Hand(v)' = Hand(v)
  BY DoesSelected, ActsNodes
<1>2. \A v \in Threads : Hand(v) # <<>> => ~Free(v)
  BY DEF Hand, Calling, Free
<1>3. /\ \A v \in Threads : Hand(v) # <<>> => calls'[v] = calls[v]
      /\ \A v \in Threads : ToSet(calls[v]) \subseteq ToSet(calls'[v])
  <2>1. CASE UNCHANGED calls
    BY <2>1
  <2>2. ASSUME Free(u), NEW c \in Chans, NEW words \in Seq(Words), Then(u, words, c)
        PROVE  /\ \A v \in Threads : Hand(v) # <<>> => calls'[v] = calls[v]
               /\ \A v \in Threads : ToSet(calls[v]) \subseteq ToSet(calls'[v])
    <3>1. \A v \in Threads : ToSet(calls[v]) \subseteq ToSet(calls'[v])
      BY <2>2, ThenTyped
    <3>2. \A v \in Threads \ {u} : calls'[v] = calls[v]
      BY <2>2 DEF Then, Types, WaiterTypes
    <3>. QED BY <3>1, <3>2, <2>2, <1>2
  <2>. QED BY <2>1, <2>2, ActsCalls
<1>4. \A v \in Threads : pc[v] \in SelectSteps /\ permit[v] => permit'[v]
  <2>1. UNCHANGED permit \/ ParkReturns(u) \/ Spurious(u)
    BY DEF Acts, SendStep, CheckReceivers, PushItem, PublishItem, RecvStep, PopItem, ReleaseSlot, PopNone,
           CountSenders, Enlist, Leave, Voluntary, RecvCall, TryRecvCall, SendCall, Start,
           DropSender, DropReceiver, CloneHandle, waiterVars
  <2>2. "park" \notin SelectSteps
    BY DEF SelectSteps
  <2>. QED BY <2>1, <2>2 DEF ParkReturns, Spurious, At, Types, WaiterTypes
<1>. QED BY <1>1, <1>3, <1>4

LEMMA SelectKeeps ==
  ASSUME Types, Selecting, NEW t \in Threads, SelectStep(t)
  PROVE  /\ UNCHANGED <<flavour, q, held, calls>> /\ aborted \subseteq aborted'
         /\ \A v \in Threads : Hand(v)' = Hand(v)
         /\ \A s \in Stacks : ToSet(stack[s]) \subseteq ToSet(stack'[s])
         /\ \A n : n \in aborted' => n \in aborted \/ Thread(n) = t
<1>1. UNCHANGED <<flavour, q, held, calls>>
  BY SelectWaiter
<1>2. \A v \in Threads : Hand(v)' = Hand(v)
  BY <1>1 DEF Hand, Calling
<1>3. /\ aborted \subseteq aborted' /\ \A n : n \in aborted' => n \in aborted \/ Thread(n) = t
  BY DEF SelectStep, AbortLoad, Walk, Mark
<1>4. \A s \in Stacks : ToSet(stack[s]) \subseteq ToSet(stack'[s])
  <2>1. CASE UNCHANGED stack
    BY <2>1
  <2>2. CASE ~UNCHANGED stack
    <3>1. pc[t] = "enrol"
      BY <2>2 DEF SelectStep, RegisterArm, At
    <3>. DEFINE n == <<t, sel[t].round, sel[t].arm>>
    <3>2. PushNode(n, ArmOf(t)) /\ sel[t].arm \in DOMAIN Arms[t] /\ sel[t].round \in Rounds
      BY <2>2, <3>1, EnrolSteps
    <3>3. n \in OwnNodes /\ ArmOf(t) \in Stacks
      BY <3>2, ArmsTyped DEF OwnNodes, ArmOf
    <3>. HIDE DEF n
    <3>4. /\ ToSet(stack'[ArmOf(t)]) = {n} \cup ToSet(stack[ArmOf(t)])
          /\ \A r \in Stacks : r # ArmOf(t) => stack'[r] = stack[r]
      <4>. DEFINE s == ArmOf(t)
      <4>1. s \in Stacks /\ PushNode(n, s)
        BY <3>2, <3>3
      <4>. HIDE DEF s
      <4>2. /\ ToSet(stack'[s]) = {n} \cup ToSet(stack[s])
            /\ \A r \in Stacks : r # s => stack'[r] = stack[r]
        BY <4>1, <3>3, OwnPush
      <4>. QED BY <4>2 DEF s
    <3>. QED BY <3>4
  <2>. QED BY <2>1, <2>2
<1>. QED BY <1>1, <1>2, <1>3, <1>4

LEMMA UniformStep ==
  ASSUME Alone, Types, Selecting, Tidy, Uniform, NEW t \in Threads,
         \/ SelectStep(t) \/ Does(t) \/ SelectCall(t) \/ DeadlinePasses(t)
  PROVE  Uniform'
<1>1. CASE SelectStep(t)
  BY <1>1, SelectKeeps, UniformAside
<1>2. CASE Acts(t)
  BY <1>2, ActsKeep, UniformAside DEF Tidy
<1>3. CASE WakeStep(t)
  BY <1>3, StackTurn, OwnNodesOK, UniformWake DEF Tidy, Types
<1>4. CASE SelectCall(t) \/ DeadlinePasses(t)
  <2>1. UNCHANGED <<calls, aborted>>
    BY <1>4 DEF SelectCall, DeadlinePasses, waiterVars
  <2>2. \A v \in Threads : Hand(v)' = Hand(v)
    BY <2>1 DEF Hand, Calling
  <2>. QED BY <2>1, <2>2, UniformAside
<1>. QED BY <1>1, <1>2, <1>3, <1>4 DEF Does

(* What a call in turn r knows about its arm i from the step on that puts   *)
(* its node there.  The node is there, or the turn is coming to its end. An *)
(* arm that has been looked at again is not ready, or the turn is coming to *)
(* its end; the same after the first of the two looks at this arm.          *)
Alerted(t, i, r) ==
  LET c == Arms[t][i][1]
      side == Arms[t][i][2]
      again == pc[t] \in Probing /\ sel[t].phase = "recheck"
  IN
  /\ Posted(t) \/ (pc[t] = "enrol" /\ i < sel[t].arm) =>
       \/ side = "send" /\ ~flavour[c].bounded
       \/ <<t, r, i>> \in ToSet(stack[<<c, side>>]) \ aborted
       \/ Coming(t, r)
  /\ pc[t] \in {"decide", "sleep"} \/ (again /\ i < sel[t].arm) => (ArmDue(c, side) => Coming(t, r))
  /\ pc[t] = "probe_count" /\ again /\ i = sel[t].arm => (Unbidden(c, side) => Coming(t, r))
  /\ pc[t] = "probe_second" /\ again /\ i = sel[t].arm =>
       flavour[c].bounded /\ sel[t].seen = IF side = "send" THEN q[c].tail ELSE q[c].head

Alert ==
  \A t \in Selectors : \A r \in Rounds : sel[t].round = r =>
    /\ \A i \in DOMAIN Arms[t] : Alerted(t, i, r)
    /\ pc[t] = "sleep" => selected[t][r] = Unselected \/ permit[t]

(* Steps of others.                                                         *)
LEMMA AlertedAside ==
  ASSUME NEW t \in Threads, NEW i \in DOMAIN Arms[t], NEW r, Alerted(t, i, r),
         NEW c, NEW side, c = Arms[t][i][1], side = Arms[t][i][2],
         pc'[t] = pc[t], UNCHANGED flavour, sel'[t].phase = sel[t].phase,
         sel'[t].arm = sel[t].arm, sel'[t].seen = sel[t].seen,
         Coming(t, r) => Coming(t, r)',
         NEW H, ArmDue(c, side)' => ArmDue(c, side) \/ H,
         Unbidden(c, side)' => Unbidden(c, side) \/ H,
         <<t, r, i>> \in ToSet(stack[<<c, side>>]) \ aborted =>
           <<t, r, i>> \in ToSet(stack'[<<c, side>>]) \ aborted' \/ Coming(t, r)',
         H /\ <<t, r, i>> \in ToSet(stack'[<<c, side>>]) \ aborted' => Coming(t, r)',
         pc[t] = "probe_second" /\ flavour[c].bounded =>
           IF side = "send" THEN q'[c].tail = q[c].tail ELSE q'[c].head = q[c].head
  PROVE  Alerted(t, i, r)'
<1>. DEFINE again == pc[t] \in Probing /\ sel[t].phase = "recheck"
            on_stack == <<t, r, i>> \in ToSet(stack'[<<c, side>>]) \ aborted'
<1>1. Posted(t)' <=> Posted(t)
  BY DEF Posted
<1>2. /\ Posted(t) \/ (pc[t] = "enrol" /\ i < sel[t].arm) =>
           \/ side = "send" /\ ~flavour[c].bounded
           \/ on_stack
           \/ Coming(t, r)'
      /\ pc[t] \in {"decide", "sleep"} \/ (again /\ i < sel[t].arm) => (ArmDue(c, side) => Coming(t, r)')
      /\ pc[t] = "probe_count" /\ again /\ i = sel[t].arm => (Unbidden(c, side) => Coming(t, r)')
      /\ pc[t] = "probe_second" /\ again /\ i = sel[t].arm =>
           flavour[c].bounded /\ sel'[t].seen = IF side = "send" THEN q'[c].tail ELSE q'[c].head
  BY DEF Alerted
<1>3. again \/ pc[t] \in {"decide", "sleep"} => Posted(t)
  BY DEF Posted
<1>4. side = "send" /\ ~flavour[c].bounded => ArmDue(c, side) /\ Unbidden(c, side)
  BY DEF ArmDue, Unbidden
<1>5. /\ H /\ on_stack => Coming(t, r)'
      /\ ArmDue(c, side)' => ArmDue(c, side) \/ H
      /\ Unbidden(c, side)' => Unbidden(c, side) \/ H
  OBVIOUS
<1>7. pc[t] \in {"decide", "sleep"} \/ (again /\ i < sel[t].arm) => (ArmDue(c, side)' => Coming(t, r)')
  <2>. HIDE DEF on_stack, again
  <2>. QED BY <1>2, <1>3, <1>4, <1>5
<1>8. pc[t] = "probe_count" /\ again /\ i = sel[t].arm => (Unbidden(c, side)' => Coming(t, r)')
  <2>. HIDE DEF on_stack, again
  <2>. QED BY <1>2, <1>3, <1>4, <1>5
<1>. QED BY <1>1, <1>2, <1>7, <1>8 DEF Alerted

(* A call that is not between its registration and its wake-up.             *)
LEMMA NothingToKnow ==
  ASSUME NEW t \in Threads, NEW i, NEW r,
         \/ pc'[t] \notin SelectSteps \/ pc'[t] \in {"abort", "walk", "judge"}
         \/ pc'[t] \in Probing /\ sel'[t].phase = "try"
  PROVE  Alerted(t, i, r)' /\ pc'[t] # "sleep"
<1>1. ~Posted(t)' /\ pc'[t] \notin {"enrol", "decide", "sleep"}
      /\ ~(pc'[t] \in Probing /\ sel'[t].phase = "recheck")
  BY DEF Posted, Probing, SelectSteps
<1>2. {"probe_count", "probe_second"} \subseteq Probing
  BY DEF Probing
<1>. QED BY <1>1, <1>2 DEF Alerted

(* A sole user of a side of a bounded channel finds the cursor of that side *)
(* where it was.                                                            *)
LEMMA CursorStays ==
  ASSUME Alone, Types, Owned, NEW u \in Threads, Acts(u), NEW t \in Selectors, pc[t] \in SelectSteps,
         NEW c \in Chans, NEW side \in {"recv", "send"}, <<c, side>> \in ToSet(Arms[t]),
         flavour[c].bounded
  PROVE  IF side = "send" THEN q'[c].tail = q[c].tail ELSE q'[c].head = q[c].head
<1>0. q[c] \in Rings /\ t \in Threads
  BY DEF Types, Selectors
<1>1. u # t => <<c, side>> \notin held[u]
  <2>1. \E f \in Flavourings : f[c].bounded
    BY DEF Types
  <2>2. u # t => <<c, side>> \notin Handles[u] /\ <<c, side>> # Offspring[u]
    <3>. DEFINE a == <<c, side>>
    <3>1. a \in ToSet(Arms[t]) /\ \E f \in Flavourings : f[a[1]].bounded
      BY <2>1
    <3>. HIDE DEF a
    <3>2. u # t => a \notin Handles[u] /\ a # Offspring[u]
      BY <3>1, <1>0 DEF Alone
    <3>. QED BY <3>2 DEF a
  <2>. QED BY <2>2 DEF Owned, Owns
<1>2. SelectSteps \cap (SendSteps \cup RecvSteps) = {}
  BY DEF SelectSteps, SendSteps, RecvSteps
<1>3. CASE PushItem(u) \/ PublishItem(u)
  <2>1. pc[u] \in SendSteps /\ on[u] \in Chans
    BY <1>3 DEF PushItem, PublishItem, At, SendSteps, Types, Placed
  <2>2. <<on[u], "send">> \in held[u] /\ u # t
    BY <2>1, <1>2 DEF Owned, Entitled
  <2>3. on[u] # c => q'[c] = q[c]
    BY <1>3 DEF PushItem, PublishItem, Types
  <2>4. q'[c].head = q[c].head
    <3>1. \/ q' = [q EXCEPT ![on[u]] = Claim(@)] \/ q' = [q EXCEPT ![on[u]] = Push(@)]
          \/ q' = [q EXCEPT ![on[u]] = Publish(@, pos[u])] \/ q' = q
      BY <1>3 DEF PushItem, PublishItem
    <3>2. \A r \in Rings : /\ Claim(r).head = r.head /\ Push(r).head = r.head
                           /\ \A i : Publish(r, i).head = r.head
      BY DEF Claim, Publish, Push, Rings
    <3>3. q \in [Chans -> Rings]
      BY DEF Types
    <3>. QED BY <1>0, <3>1, <3>2, <3>3
  <2>. QED BY <1>1, <2>2, <2>3, <2>4
<1>4. CASE PopItem(u) \/ ReleaseSlot(u)
  <2>1. pc[u] \in RecvSteps /\ on[u] \in Chans
    BY <1>4 DEF PopItem, ReleaseSlot, RecvSteps, Types, Placed
  <2>2. <<on[u], "recv">> \in held[u] /\ u # t
    BY <2>1, <1>2 DEF Owned, Entitled
  <2>3. on[u] # c => q'[c] = q[c]
    BY <1>4 DEF PopItem, ReleaseSlot, Types
  <2>4. q'[c].tail = q[c].tail
    <3>1. \/ q' = [q EXCEPT ![on[u]] = Take(@)] \/ q' = [q EXCEPT ![on[u]] = Pop(@)]
          \/ q' = [q EXCEPT ![on[u]] = Release(@, pos[u])]
      BY <1>4 DEF PopItem, ReleaseSlot
    <3>2. \A r \in Rings : /\ Take(r).tail = r.tail /\ Pop(r).tail = r.tail
                           /\ \A i : Release(r, i).tail = r.tail
      BY DEF Take, Release, Pop, Rings
    <3>3. q \in [Chans -> Rings]
      BY DEF Types
    <3>. QED BY <1>0, <3>1, <3>2, <3>3
  <2>. QED BY <1>1, <2>2, <2>3, <2>4
<1>5. CASE UNCHANGED q
  BY <1>5
<1>6. UNCHANGED q \/ PushItem(u) \/ PublishItem(u) \/ PopItem(u) \/ ReleaseSlot(u)
  BY DEF Acts, SendStep, CheckReceivers, RecvStep, PopNone, CountSenders, Enlist, ParkReturns, Leave,
         Voluntary, RecvCall, TryRecvCall, SendCall, Start, DropSender, DropReceiver, CloneHandle, Spurious
<1>. QED BY <1>3, <1>4, <1>5, <1>6

LEMMA ArmSplit ==
  ASSUME NEW t \in Threads, NEW i \in DOMAIN Arms[t], NEW c, NEW side,
         c = Arms[t][i][1], side = Arms[t][i][2]
  PROVE  /\ c \in Chans /\ side \in {"recv", "send"} /\ Arms[t][i] = <<c, side>>
         /\ <<c, side>> \in Stacks /\ <<c, side>> \in ToSet(Arms[t]) /\ t \in Selectors
<1>1. Arms[t][i] \in Chans \X {"recv", "send"} /\ Arms[t][i] \in Stacks /\ Arms[t][i] \in ToSet(Arms[t])
      /\ t \in Selectors
  BY ArmsTyped
<1>. QED BY <1>1

LEMMA AlertActs ==
  ASSUME Alone, Types, Unborn, Selecting, Tidy, Owned, Alert, NEW u \in Threads, Acts(u), UNCHANGED selVars
  PROVE  Alert'
<1>. SUFFICES ASSUME NEW t \in Selectors, NEW r \in Rounds, sel'[t].round = r
              PROVE  /\ \A i \in DOMAIN Arms[t] : Alerted(t, i, r)'
                     /\ pc'[t] = "sleep" => selected'[t][r] = Unselected \/ permit'[t]
  BY DEF Alert
<1>0. t \in Threads /\ sel'[t] = sel[t] /\ sel[t].round = r
  BY DEF Selectors, selVars
<1>1. CASE pc[t] \notin SelectSteps
  <2>1. pc'[t] \notin SelectSteps
    BY <1>0, <1>1, SelectorsLeft DEF Does
  <2>. QED BY <2>1, <1>0, NothingToKnow
<1>2. CASE pc[t] \in SelectSteps
  <2>1. pc'[t] = pc[t]
    BY <1>0, <1>2, SelectorsLeft DEF Does
  <2>2. UNCHANGED flavour
    BY DEF Acts, SendStep, CheckReceivers, PushItem, PublishItem, RecvStep, PopItem, ReleaseSlot,
           PopNone, CountSenders, Enlist, ParkReturns, Leave, Voluntary, RecvCall, TryRecvCall, SendCall,
           Start, DropSender, DropReceiver, CloneHandle, Spurious, chanVars
  <2>3. /\ UNCHANGED <<stack, aborted, selected>>
        /\ \A v \in Threads : /\ Hand(v)' = Hand(v) /\ (Hand(v) # <<>> => calls'[v] = calls[v])
                              /\ ToSet(calls[v]) \subseteq ToSet(calls'[v])
        /\ permit[t] => permit'[t]
    BY <1>0, <1>2, ActsKeep DEF Tidy
  <2>4. Coming(t, r) => Coming(t, r)'
    <3>1. WaiterTypes(OwnNodes) /\ \A n : OfTurn(n, t, r) => n \notin aborted'
      BY <2>3 DEF Types, OfTurn
    <3>. QED BY <3>1, <2>3, ComingAside
  <2>5. ASSUME NEW i \in DOMAIN Arms[t]
        PROVE  Alerted(t, i, r)'
    <3>1. PICK c, side : c = Arms[t][i][1] /\ side = Arms[t][i][2]
      OBVIOUS
    <3>2. c \in Chans /\ side \in {"recv", "send"} /\ <<c, side>> \in Stacks /\ <<c, side>> \in ToSet(Arms[t])
      BY <1>0, <3>1, ArmSplit
    <3>. DEFINE H == Heralded(u, <<c, side>>)
    <3>3. /\ Unbidden(c, side)' => Unbidden(c, side) \/ H
          /\ ArmDue(c, side)' => ArmDue(c, side) \/ H
      BY <3>2, ArmNews
    <3>4. H /\ <<t, r, i>> \in ToSet(stack'[<<c, side>>]) \ aborted' => Coming(t, r)'
      <4>. DEFINE n == <<t, r, i>>
      <4>1. OfTurn(n, t, r)' <=> n \notin aborted'
        BY DEF OfTurn, Thread, Round
      <4>. HIDE DEF n
      <4>2. H /\ n \in ToSet(stack'[<<c, side>>]) \ aborted' => Called(t, r)'
        BY <4>1 DEF Heralded, Called
      <4>. QED BY <4>2 DEF Coming, n
    <3>5. Alerted(t, i, r)
      BY <1>0 DEF Alert
    <3>6. flavour[c].bounded => IF side = "send" THEN q'[c].tail = q[c].tail ELSE q'[c].head = q[c].head
      BY <1>2, <3>2, CursorStays
    <3>. HIDE DEF H
    <3>. QED BY <1>0, <2>1, <2>2, <2>3, <2>4, <3>1, <3>3, <3>4, <3>5, <3>6, AlertedAside
  <2>6. pc'[t] = "sleep" => selected'[t][r] = Unselected \/ permit'[t]
    BY <1>0, <2>1, <2>3 DEF Alert
  <2>. QED BY <2>5, <2>6
<1>. QED BY <1>1, <1>2

LEMMA OwnedActs ==
  ASSUME Types, Unborn, Owned, NEW u \in Threads, Acts(u)
  PROVE  Owned'
<1>1. Entitled'
  BY EntitledActs DEF Owned
<1>2. Owns'
  BY HandlesActs DEF Owned
<1>3. Drains'
  BY DrainsActs DEF Owned
<1>. QED BY <1>1, <1>2, <1>3 DEF Owned

(* Nobody throws the nodes of a call away: a stack is drained only when no  *)
(* receiver is left, and the call owns one.                                 *)
LEMMA DrainHarmless ==
  ASSUME Types, Selecting, Tidy, Owned, NEW u \in Threads, ~Free(u), Head(calls[u]).op = "drain",
         ToSet(calls[u]) = {Head(calls[u])} \cup ToSet(Tail(calls[u]))
  PROVE  \A n \in ToSet(stack[Head(calls[u]).on]) : n \in aborted
<1>. DEFINE call == Head(calls[u])
<1>1. call \in ToSet(calls[u]) /\ calls[u] \in Seq(WakeCalls(OwnNodes))
  BY DEF Types, WaiterTypes
<1>2. call \in WakeCalls(OwnNodes)
  BY <1>1 DEF ToSet
<1>3. call.on \in Stacks
  BY <1>2 DEF WakeCalls, Snapshots, Swaps, Unparks, Visits
<1>4. call.on[2] = "recv" /\ Receivers(call.on[1]) = {}
  BY <1>1 DEF Owned, Drains
<1>. DEFINE s == call.on
<1>5. s \in Stacks /\ s[2] = "recv" /\ Receivers(s[1]) = {} /\ s = <<s[1], "recv">>
  BY <1>3, <1>4, ChannelAssumption
<1>. HIDE DEF s
<1>6. ASSUME NEW n \in ToSet(stack[s]), n \notin aborted PROVE FALSE
  <2>1. Watched(n, s) /\ s = Arms[Thread(n)][Arm(n)]
    BY <1>5, <1>6 DEF Tidy, CleanUp, AtHome
  <2>2. Thread(n) \in Threads /\ Arm(n) \in DOMAIN Arms[Thread(n)]
    BY <1>5, <1>6, StackNodes
  <2>3. \A v \in Threads : \A i \in DOMAIN Arms[v] : Arms[v][i] \in ToSet(Arms[v])
    BY ArmsTyped
  <2>4. s \in held[Thread(n)]
    BY <2>1, <2>2, <2>3, WatchedSelects DEF Selecting
  <2>. QED BY <1>5, <2>2, <2>4 DEF Receivers
<1>. QED BY <1>6 DEF s

LEMMA AlertWake ==
  ASSUME Alone, Types, Selecting, Tidy, Owned, Uniform, Alert, NEW u \in Threads, WakeStep(u),
         UNCHANGED chanVars, UNCHANGED selVars
  PROVE  Alert'
<1>. SUFFICES ASSUME NEW t \in Selectors, NEW r \in Rounds, sel'[t].round = r
              PROVE  /\ \A i \in DOMAIN Arms[t] : Alerted(t, i, r)'
                     /\ pc'[t] = "sleep" => selected'[t][r] = Unselected \/ permit'[t]
  BY DEF Alert
<1>0. /\ t \in Threads /\ sel' = sel /\ sel[t].round = r /\ UNCHANGED <<flavour, q, held, pc>>
      /\ WaiterTypes(OwnNodes) /\ NodesOK(OwnNodes) /\ Separate
  BY OwnNodesOK DEF Selectors, selVars, chanVars, Types, Tidy
<1>1. /\ Coming(t, r) => Coming(t, r)'
      /\ \A s \in Stacks : \A n \in ToSet(stack[s]) :
           OfTurn(n, t, r) => (n \in ToSet(stack'[s]) /\ n \notin aborted') \/ Coming(t, r)'
  <2>1. \A n \in OwnNodes : Arm(n) # Unselected
    <3>1. \A v \in Threads : \A i \in DOMAIN Arms[v] : i # 0
      BY ArmsTyped
    <3>. QED BY <3>1 DEF OwnNodes, Arm, Unselected
  <2>2. Head(calls[u]).op = "drain" => \A n \in ToSet(stack[Head(calls[u]).on]) : ~OfTurn(n, t, r)
    BY <1>0, WakeStepCall, DrainHarmless DEF OfTurn
  <2>. QED BY <1>0, <2>1, <2>2, ComingWake
<1>2. ASSUME NEW i \in DOMAIN Arms[t]
      PROVE  Alerted(t, i, r)'
  <2>1. PICK c, side : c = Arms[t][i][1] /\ side = Arms[t][i][2]
    OBVIOUS
  <2>2. c \in Chans /\ side \in {"recv", "send"} /\ <<c, side>> \in Stacks
    BY <1>0, <2>1, ArmSplit
  <2>3. Alerted(t, i, r)
    BY <1>0 DEF Alert
  <2>4. ArmDue(c, side)' = ArmDue(c, side) /\ Unbidden(c, side)' = Unbidden(c, side)
    BY <1>0 DEF ArmDue, Unbidden, Due, Senders, Receivers, CanTake, SlotFree
  <2>5. <<t, r, i>> \in ToSet(stack[<<c, side>>]) \ aborted =>
           <<t, r, i>> \in ToSet(stack'[<<c, side>>]) \ aborted' \/ Coming(t, r)'
    <3>. DEFINE n == <<t, r, i>>
                s == <<c, side>>
    <3>1. n \notin aborted => OfTurn(n, t, r)
      BY DEF OfTurn, Thread, Round
    <3>2. s \in Stacks
      BY <2>2
    <3>. HIDE DEF n, s
    <3>3. n \in ToSet(stack[s]) /\ n \notin aborted =>
            (n \in ToSet(stack'[s]) /\ n \notin aborted') \/ Coming(t, r)'
      BY <1>1, <3>1, <3>2
    <3>. QED BY <3>3 DEF n, s
  <2>. QED BY <1>0, <1>1, <2>1, <2>3, <2>4, <2>5, AlertedAside
<1>3. pc'[t] = "sleep" => selected'[t][r] = Unselected \/ permit'[t]
  BY <1>0, WakePermits DEF Alert
<1>. QED BY <1>2, <1>3

(* A step of a select call makes no arm ready, and takes nothing from the   *)
(* turn of a thread whose nodes it does not mark.                           *)
LEMMA SelectComing ==
  ASSUME Types, Selecting, Tidy, NEW u \in Threads, SelectStep(u), NEW t \in Threads, NEW r \in Rounds,
         permit[t] => permit'[t], selected[t][r] # Unselected => selected'[t][r] # Unselected,
         u # t \/ UNCHANGED aborted
  PROVE  /\ Coming(t, r) => Coming(t, r)'
         /\ \A s \in Stacks : \A n \in ToSet(stack[s]) \ aborted :
              Thread(n) = t => n \in ToSet(stack'[s]) \ aborted'
         /\ \A c \in Chans : \A side \in {"recv", "send"} :
              ArmDue(c, side)' = ArmDue(c, side) /\ Unbidden(c, side)' = Unbidden(c, side)
<1>1. /\ UNCHANGED <<flavour, q, held, calls>> /\ aborted \subseteq aborted'
      /\ \A v \in Threads : Hand(v)' = Hand(v)
      /\ \A s \in Stacks : ToSet(stack[s]) \subseteq ToSet(stack'[s])
      /\ \A n : n \in aborted' => n \in aborted \/ Thread(n) = u
      /\ WaiterTypes(OwnNodes)
  BY SelectKeeps DEF Types
<1>2. \A n : OfTurn(n, t, r) => n \notin aborted'
  BY <1>1 DEF OfTurn
<1>3. \A v \in Threads : /\ Hand(v)' = Hand(v) /\ (Hand(v) # <<>> => calls'[v] = calls[v])
                         /\ ToSet(calls[v]) \subseteq ToSet(calls'[v])
  BY <1>1
<1>4. Coming(t, r) => Coming(t, r)'
  BY <1>1, <1>2, <1>3, ComingAside
<1>5. \A c \in Chans : \A side \in {"recv", "send"} :
        ArmDue(c, side)' = ArmDue(c, side) /\ Unbidden(c, side)' = Unbidden(c, side)
  BY <1>1 DEF ArmDue, Unbidden, Due, Senders, Receivers, CanTake, SlotFree
<1>6. \A s \in Stacks : \A n \in ToSet(stack[s]) \ aborted :
        Thread(n) = t => n \in ToSet(stack'[s]) \ aborted'
  BY <1>1
<1>. QED BY <1>4, <1>5, <1>6

LEMMA AlertOther ==
  ASSUME Types, Selecting, Tidy, Alert, NEW u \in Threads, SelectStep(u),
         NEW t \in Selectors \ {u}, NEW r \in Rounds, sel'[t].round = r
  PROVE  /\ \A i \in DOMAIN Arms[t] : Alerted(t, i, r)'
         /\ pc'[t] = "sleep" => selected'[t][r] = Unselected \/ permit'[t]
<1>1. /\ pc'[t] = pc[t] /\ sel'[t] = sel[t] /\ permit'[t] = permit[t] /\ selected'[t] = selected[t]
      /\ t \in Threads /\ UNCHANGED <<flavour, q>> /\ sel[t].round = r
  BY SelectEnds, SelectWaiter DEF Selectors
<1>2. /\ Coming(t, r) => Coming(t, r)'
      /\ \A s \in Stacks : \A n \in ToSet(stack[s]) \ aborted :
              Thread(n) = t => n \in ToSet(stack'[s]) \ aborted'
      /\ \A c \in Chans : \A side \in {"recv", "send"} :
              ArmDue(c, side)' = ArmDue(c, side) /\ Unbidden(c, side)' = Unbidden(c, side)
  BY <1>1, SelectComing
<1>3. ASSUME NEW i \in DOMAIN Arms[t]
      PROVE  Alerted(t, i, r)'
  <2>1. PICK c, side : c = Arms[t][i][1] /\ side = Arms[t][i][2]
    OBVIOUS
  <2>2. c \in Chans /\ side \in {"recv", "send"} /\ <<c, side>> \in Stacks
    BY <1>1, <2>1, ArmSplit
  <2>3. Alerted(t, i, r)
    BY <1>1 DEF Alert
  <2>4. ArmDue(c, side)' = ArmDue(c, side) /\ Unbidden(c, side)' = Unbidden(c, side)
    BY <1>2, <2>2
  <2>5. <<t, r, i>> \in ToSet(stack[<<c, side>>]) \ aborted =>
           <<t, r, i>> \in ToSet(stack'[<<c, side>>]) \ aborted'
    BY <1>2, <2>2 DEF Thread
  <2>. QED BY <1>1, <1>2, <2>1, <2>3, <2>4, <2>5, AlertedAside
<1>. QED BY <1>1, <1>3 DEF Alert

(* The steps of the call itself.                                            *)
LEMMA AlertEnrol ==
  ASSUME Types, Selecting, Tidy, Alert, NEW t \in Selectors, SelectStep(t), pc[t] = "enrol",
         NEW r \in Rounds, sel'[t].round = r, NEW i \in DOMAIN Arms[t]
  PROVE  Alerted(t, i, r)'
<1>0. t \in Threads
  BY DEF Selectors
<1>1. /\ UNCHANGED <<permit, aborted, selected>> /\ sel[t].round = r
      /\ sel[t].arm \in DOMAIN Arms[t]
      /\ IF AlwaysReady(t) THEN UNCHANGED stack ELSE PushNode(<<t, r, sel[t].arm>>, ArmOf(t))
      /\ \/ /\ sel[t].arm = Len(Arms[t]) /\ pc'[t] = "probe"
            /\ sel'[t].phase = "recheck" /\ sel'[t].arm = 1
         \/ pc'[t] = "enrol" /\ sel'[t].arm = sel[t].arm + 1
  BY <1>0, EnrolSteps
<1>2. UNCHANGED flavour
  BY <1>0, SelectWaiter
<1>3. /\ Coming(t, r) => Coming(t, r)'
      /\ \A s \in Stacks : \A n \in ToSet(stack[s]) \ aborted :
              Thread(n) = t => n \in ToSet(stack'[s]) \ aborted'
  BY <1>0, <1>1, SelectComing
<1>4. PICK c, side : c = Arms[t][i][1] /\ side = Arms[t][i][2]
  OBVIOUS
<1>5. /\ c \in Chans /\ side \in {"recv", "send"} /\ <<c, side>> \in Stacks
      /\ Arms[t][i] = <<c, side>>
  BY <1>0, <1>4, ArmSplit
<1>6. i \in Nat \ {0} /\ DOMAIN Arms[t] = 1 .. Len(Arms[t]) /\ Len(Arms[t]) \in Nat /\ sel[t].arm \in Nat
  BY <1>0, <1>1, ArmsTyped
<1>. DEFINE there == \/ side = "send" /\ ~flavour[c].bounded
                     \/ <<t, r, i>> \in ToSet(stack'[<<c, side>>]) \ aborted'
                     \/ Coming(t, r)'
<1>7. i < sel[t].arm => there
  <2>1. i < sel[t].arm =>
          \/ side = "send" /\ ~flavour[c].bounded
          \/ <<t, r, i>> \in ToSet(stack[<<c, side>>]) \ aborted
          \/ Coming(t, r)
    BY <1>1, <1>4 DEF Alert, Alerted
  <2>2. <<t, r, i>> \in ToSet(stack[<<c, side>>]) \ aborted =>
           <<t, r, i>> \in ToSet(stack'[<<c, side>>]) \ aborted'
    BY <1>3, <1>5 DEF Thread
  <2>. QED BY <1>3, <2>1, <2>2
<1>8. i = sel[t].arm => there
  <2>. SUFFICES ASSUME i = sel[t].arm PROVE there
    OBVIOUS
  <2>1. CASE AlwaysReady(t)
    BY <1>4, <2>1 DEF AlwaysReady, Side, Chan, ArmOf
  <2>2. CASE ~AlwaysReady(t)
    <3>. DEFINE n == <<t, r, i>>
                s == <<c, side>>
    <3>1. PushNode(n, s) /\ s \in Stacks
      BY <1>1, <1>5, <2>2 DEF ArmOf
    <3>2. n \in OwnNodes /\ Thread(n) = t /\ Round(n) = r /\ Arm(n) = i
      BY <1>0, <1>6 DEF OwnNodes, Thread, Round, Arm
    <3>. HIDE DEF n, s
    <3>3. ~Allocated(n)
      BY <1>1, <1>6, <3>2 DEF Tidy, NewNodes
    <3>4. n \notin aborted'
      BY <1>1, <3>3 DEF Tidy, AbortedExist
    <3>5. n \in ToSet(stack'[s])
      BY <3>1, <3>2, OwnPush
    <3>. QED BY <3>4, <3>5 DEF n, s
  <2>. QED BY <2>1, <2>2
<1>9. Posted(t)' \/ (pc'[t] = "enrol" /\ i < sel'[t].arm) => i < sel[t].arm \/ i = sel[t].arm
  <2>. DEFINE k == sel[t].arm
              n == Len(Arms[t])
  <2>1. Posted(t)' => k = n
    BY <1>1 DEF Posted, Probing
  <2>2. pc'[t] = "enrol" => sel'[t].arm = k + 1
    BY <1>1
  <2>3. k \in Nat /\ n \in Nat /\ i \in 1 .. n
    BY <1>6
  <2>4. i < n \/ i = n
    <3>. HIDE DEF n
    <3>. QED BY <2>3
  <2>5. i < k + 1 => i < k \/ i = k
    <3>. HIDE DEF k
    <3>. QED BY <1>6, <2>3
  <2>. QED BY <2>1, <2>2, <2>4, <2>5
<1>10. /\ pc'[t] \notin {"decide", "sleep", "probe_count", "probe_second"}
       /\ ~(pc'[t] \in Probing /\ i < sel'[t].arm)
  BY <1>1, <1>6 DEF Probing
<1>. QED BY <1>2, <1>4, <1>7, <1>8, <1>9, <1>10 DEF Alerted

(* The second sweep: an arm it has passed without success was not ready.    *)
LEMMA LooksTell ==
  ASSUME Types, Window, NEW c \in Chans, NEW side \in {"recv", "send"}, NEW seen,
         \/ side = "recv" /\ ~CanTake(q[c])
         \/ side = "send" /\ flavour[c].bounded /\ seen = q[c].tail /\ IsFull(q[c], Cap, seen)
         \/ side = "recv" /\ seen = q[c].head /\ IsEmpty(q[c], seen)
  PROVE  ~Unbidden(c, side)
<1>1. CASE side = "recv"
  BY <1>1 DEF Unbidden, IsEmpty, CanTake
<1>2. CASE side = "send"
  <2>. DEFINE h == q[c].head
              k == q[c].tail
  <2>1. h \in Nat /\ k \in Nat /\ h <= k /\ Cap \in Nat
    BY ChannelAssumption DEF Types, Rings, Window
  <2>2. k - h >= Cap \/ k - h < 0
    BY <1>2 DEF IsFull
  <2>3. ~(k - Cap < h)
    <3>. HIDE DEF h, k
    <3>. QED BY <2>1, <2>2
  <2>. QED BY <1>2, <2>3 DEF Unbidden, SlotFree
<1>. QED BY <1>1, <1>2

LEMMA AlertRecheck ==
  ASSUME Types, Window, Selecting, Tidy, Alert, NEW t \in Selectors, SelectStep(t),
         pc[t] \in Probing, sel[t].phase = "recheck",
         NEW r \in Rounds, sel'[t].round = r, NEW i \in DOMAIN Arms[t]
  PROVE  Alerted(t, i, r)'
<1>0. t \in Threads
  BY DEF Selectors
<1>1. /\ UNCHANGED <<permit, stack, aborted>> /\ sel[t].round = r
      /\ sel[t].arm \in DOMAIN Arms[t]
      /\ selected'[t][r] # Unselected \/ UNCHANGED selected
  BY <1>0, RecheckSteps
<1>2. UNCHANGED <<flavour, q>>
  BY <1>0, SelectWaiter
<1>3. /\ Coming(t, r) => Coming(t, r)'
      /\ \A c \in Chans : \A side \in {"recv", "send"} :
              ArmDue(c, side)' = ArmDue(c, side) /\ Unbidden(c, side)' = Unbidden(c, side)
  BY <1>0, <1>1, SelectComing
<1>4. PICK c, side : c = Arms[t][i][1] /\ side = Arms[t][i][2]
  OBVIOUS
<1>5. /\ c \in Chans /\ side \in {"recv", "send"} /\ <<c, side>> \in Stacks
      /\ Arms[t][i] = <<c, side>>
  BY <1>0, <1>4, ArmSplit
<1>6. i \in Nat \ {0} /\ DOMAIN Arms[t] = 1 .. Len(Arms[t]) /\ Len(Arms[t]) \in Nat /\ sel[t].arm \in Nat
  BY <1>0, <1>1, ArmsTyped
<1>. DEFINE C == Coming(t, r)'
            due == ArmDue(c, side)
            un == Unbidden(c, side)
            k == sel[t].arm
<1>7. /\ (side = "send" /\ ~flavour[c].bounded) \/ <<t, r, i>> \in ToSet(stack[<<c, side>>]) \ aborted \/ C
      /\ i < k => (due => C)
      /\ pc[t] = "probe_count" /\ i = k => (un => C)
      /\ pc[t] = "probe_second" /\ i = k =>
           flavour[c].bounded /\ sel[t].seen = IF side = "send" THEN q[c].tail ELSE q[c].head
  <2>1. Alerted(t, i, r)
    BY <1>1 DEF Alert
  <2>. QED BY <2>1, <1>3, <1>4 DEF Alerted, Posted
<1>8. i = k => Chan(t) = c /\ Side(t) = side
  BY <1>4 DEF Chan, Side, ArmOf
<1>9. ArmDue(c, side)' = due /\ Unbidden(c, side)' = un
  BY <1>3, <1>5
<1>10. CASE pc'[t] = "decide" /\ selected'[t][r] # Unselected
  <2>1. C
    BY <1>10 DEF Coming
  <2>. QED BY <1>4, <1>10, <2>1 DEF Alerted, Posted, Probing
<1>11. CASE /\ pc[t] = "probe" /\ pc'[t] = "probe_second"
            /\ flavour[Chan(t)].bounded
            /\ sel'[t].seen = IF Side(t) = "send" THEN q[Chan(t)].tail ELSE q[Chan(t)].head
            /\ sel'[t].phase = "recheck" /\ sel'[t].arm = k
  <2>. HIDE DEF C, due, un
  <2>1. i = k => flavour'[c].bounded /\ sel'[t].seen = IF side = "send" THEN q'[c].tail ELSE q'[c].head
    BY <1>2, <1>8, <1>11
  <2>. QED BY <1>1, <1>2, <1>4, <1>7, <1>9, <1>11, <2>1 DEF Alerted, C
<1>12. CASE /\ pc'[t] = "probe_count"
            /\ \/ /\ pc[t] = "probe" /\ Side(t) = "recv" /\ ~flavour[Chan(t)].bounded
                  /\ ~CanTake(q[Chan(t)])
               \/ /\ pc[t] = "probe_second" /\ Side(t) = "send"
                  /\ IsFull(q[Chan(t)], Cap, sel[t].seen)
               \/ /\ pc[t] = "probe_second" /\ Side(t) # "send"
                  /\ IsEmpty(q[Chan(t)], sel[t].seen)
            /\ sel'[t].phase = "recheck" /\ sel'[t].arm = k
  <2>1. i = k => ~un
    BY <1>5, <1>7, <1>8, <1>12, LooksTell
  <2>. HIDE DEF C, due, un
  <2>. QED BY <1>1, <1>2, <1>4, <1>7, <1>9, <1>12, <2>1 DEF Alerted, C
<1>13. CASE /\ pc[t] = "probe_count"
            /\ (IF Side(t) = "send" THEN Receivers(Chan(t)) ELSE Senders(Chan(t))) # {}
            /\ \/ pc'[t] = "decide" /\ k = Len(Arms[t])
               \/ /\ pc'[t] = "probe" /\ sel'[t].arm = k + 1
                  /\ sel'[t].phase = "recheck"
  <2>1. i = k => (due => un)
    BY <1>5, <1>8, <1>13 DEF ArmDue, Due, Unbidden
  <2>2. pc'[t] = "decide" \/ i < sel'[t].arm => i < k \/ i = k
    <3>. DEFINE n == Len(Arms[t])
    <3>1. pc'[t] = "decide" => k = n
      BY <1>13
    <3>2. pc'[t] # "decide" => sel'[t].arm = k + 1
      BY <1>13
    <3>3. k \in Nat /\ n \in Nat /\ i \in 1 .. n /\ i \in Nat
      BY <1>6
    <3>4. (i < n \/ i = n) /\ (i < k + 1 => i < k \/ i = k)
      <4>. HIDE DEF n, k
      <4>. QED BY <3>3
    <3>. HIDE DEF n, k
    <3>. QED BY <3>1, <3>2, <3>4
  <2>3. pc'[t] = "decide" \/ i < sel'[t].arm => (due => C)
    <3>. HIDE DEF C, due, un
    <3>. QED BY <1>7, <1>13, <2>1, <2>2
  <2>. HIDE DEF C, due, un
  <2>. QED BY <1>1, <1>2, <1>4, <1>7, <1>9, <1>13, <2>3 DEF Alerted, C
<1>14. SelectStep(t) => \/ pc'[t] = "decide" /\ selected'[t][r] # Unselected
      \/ /\ pc[t] = "probe" /\ pc'[t] = "probe_second"
         /\ flavour[Chan(t)].bounded
         /\ sel'[t].seen = IF Side(t) = "send" THEN q[Chan(t)].tail ELSE q[Chan(t)].head
         /\ sel'[t].phase = "recheck" /\ sel'[t].arm = k
      \/ /\ pc'[t] = "probe_count"
         /\ \/ /\ pc[t] = "probe" /\ Side(t) = "recv" /\ ~flavour[Chan(t)].bounded
               /\ ~CanTake(q[Chan(t)])
            \/ /\ pc[t] = "probe_second" /\ Side(t) = "send"
               /\ IsFull(q[Chan(t)], Cap, sel[t].seen)
            \/ /\ pc[t] = "probe_second" /\ Side(t) # "send"
               /\ IsEmpty(q[Chan(t)], sel[t].seen)
         /\ sel'[t].phase = "recheck" /\ sel'[t].arm = k
      \/ /\ pc[t] = "probe_count"
         /\ (IF Side(t) = "send" THEN Receivers(Chan(t)) ELSE Senders(Chan(t))) # {}
         /\ \/ pc'[t] = "decide" /\ k = Len(Arms[t])
            \/ /\ pc'[t] = "probe" /\ sel'[t].arm = k + 1
               /\ sel'[t].phase = "recheck"
  BY <1>0, <1>1, RecheckSteps
<1>. QED BY <1>10, <1>11, <1>12, <1>13, <1>14

LEMMA AlertOwn ==
  ASSUME Types, Window, Selecting, Tidy, Alert, NEW t \in Selectors, SelectStep(t),
         NEW r \in Rounds, sel'[t].round = r
  PROVE  /\ \A i \in DOMAIN Arms[t] : Alerted(t, i, r)'
         /\ pc'[t] = "sleep" => selected'[t][r] = Unselected \/ permit'[t]
<1>0. t \in Threads /\ pc[t] \in SelectSteps /\ sel[t].phase \in {"try", "recheck"}
  BY SelectMoves DEF Selectors, Selecting, Locals
<1>1. CASE \/ pc'[t] \notin SelectSteps \/ pc'[t] \in {"abort", "walk", "judge"}
           \/ pc'[t] \in Probing /\ sel'[t].phase = "try"
  BY <1>0, <1>1, NothingToKnow
<1>2. CASE (pc[t] \in Probing /\ sel[t].phase = "try") \/ pc[t] = "judge"
  <2>1. \/ pc'[t] \notin SelectSteps
        \/ pc'[t] \in Probing /\ sel'[t].phase = "try"
        \/ pc'[t] = "enrol" /\ sel'[t].arm = 1
    BY <1>0, <1>2, TrySteps
  <2>2. CASE pc'[t] = "enrol" /\ sel'[t].arm = 1
    <3>1. \A i \in DOMAIN Arms[t] : ~(i < 1)
      <4>1. \A i \in DOMAIN Arms[t] : i \in Nat \ {0}
        BY <1>0, ArmsTyped
      <4>. QED BY <4>1
    <3>. QED BY <2>2, <3>1 DEF Alerted, Posted, Probing
  <2>. QED BY <2>1, <2>2, <1>1
<1>3. CASE pc[t] = "enrol"
  <2>1. pc'[t] # "sleep"
    BY <1>0, <1>3, EnrolSteps
  <2>. QED BY <1>3, <2>1, AlertEnrol
<1>4. CASE pc[t] \in Probing /\ sel[t].phase = "recheck"
  <2>1. pc'[t] # "sleep"
    BY <1>0, <1>4, RecheckSteps
  <2>. QED BY <1>4, <2>1, AlertRecheck
<1>5. CASE pc[t] \in {"decide", "sleep"}
  <2>1. /\ UNCHANGED <<stack, aborted, selected>> /\ sel'[t] = sel[t] /\ sel[t].arm = 1
        /\ \/ pc'[t] = "abort"
           \/ /\ pc[t] = "decide" /\ pc'[t] = "sleep" /\ UNCHANGED permit
              /\ selected[t][sel[t].round] = Unselected
    BY <1>0, <1>5, SleepSteps
  <2>2. CASE pc[t] = "decide" /\ pc'[t] = "sleep" /\ UNCHANGED permit
    <3>1. /\ Coming(t, r) => Coming(t, r)'
          /\ \A c \in Chans : \A side \in {"recv", "send"} :
               ArmDue(c, side)' = ArmDue(c, side) /\ Unbidden(c, side)' = Unbidden(c, side)
      BY <1>0, <2>1, <2>2, SelectComing
    <3>2. UNCHANGED flavour
      BY <1>0, SelectWaiter
    <3>3. ASSUME NEW i \in DOMAIN Arms[t]
          PROVE  Alerted(t, i, r)'
      <4>1. PICK c, side : c = Arms[t][i][1] /\ side = Arms[t][i][2]
        OBVIOUS
      <4>2. c \in Chans /\ side \in {"recv", "send"}
        BY <1>0, <4>1, ArmSplit
      <4>3. ArmDue(c, side)' = ArmDue(c, side)
        BY <3>1, <4>2
      <4>4. Alerted(t, i, r)
        BY <2>1 DEF Alert
      <4>5. /\ (side = "send" /\ ~flavour[c].bounded)
               \/ <<t, r, i>> \in ToSet(stack[<<c, side>>]) \ aborted
               \/ Coming(t, r)
            /\ ArmDue(c, side) => Coming(t, r)
        BY <2>2, <4>1, <4>4 DEF Alerted, Posted
      <4>. HIDE DEF Coming
      <4>6. /\ (side = "send" /\ ~flavour'[c].bounded)
               \/ <<t, r, i>> \in ToSet(stack'[<<c, side>>]) \ aborted'
               \/ Coming(t, r)'
            /\ ArmDue(c, side)' => Coming(t, r)'
        BY <2>1, <3>1, <3>2, <4>3, <4>5
      <4>. QED BY <2>2, <4>1, <4>6 DEF Alerted, Probing
    <3>. QED BY <2>1, <3>3
  <2>. QED BY <2>1, <2>2, <1>1
<1>6. CASE pc[t] \in {"abort", "walk"}
  <2>1. pc'[t] \in {"judge", "abort", "walk"}
    BY <1>0, <1>6, AbortSteps, NextAbortSteps
  <2>. QED BY <2>1, <1>1
<1>. QED BY <1>0, <1>2, <1>3, <1>4, <1>5, <1>6 DEF SelectSteps, Probing

LEMMA AlertSelect ==
  ASSUME Types, Window, Selecting, Tidy, Alert, NEW u \in Threads, SelectStep(u)
  PROVE  Alert'
<1>. SUFFICES ASSUME NEW t \in Selectors, NEW r \in Rounds, sel'[t].round = r
              PROVE  /\ \A i \in DOMAIN Arms[t] : Alerted(t, i, r)'
                     /\ pc'[t] = "sleep" => selected'[t][r] = Unselected \/ permit'[t]
  BY DEF Alert
<1>1. CASE t = u
  BY <1>1, AlertOwn
<1>2. CASE t # u
  BY <1>2, AlertOther
<1>. QED BY <1>1, <1>2

(* The start of a call, and the end of its time.                            *)
LEMMA AlertCalls ==
  ASSUME Types, Selecting, Alert, NEW u \in Threads, SelectCall(u) \/ DeadlinePasses(u)
  PROVE  Alert'
<1>. SUFFICES ASSUME NEW t \in Selectors, NEW r \in Rounds, sel'[t].round = r
              PROVE  /\ \A i \in DOMAIN Arms[t] : Alerted(t, i, r)'
                     /\ pc'[t] = "sleep" => selected'[t][r] = Unselected \/ permit'[t]
  BY DEF Alert
<1>0. /\ UNCHANGED <<permit, waiting, stack, aborted, selected, calls>> /\ UNCHANGED <<flavour, q, held>>
      /\ t \in Threads
  BY DEF SelectCall, DeadlinePasses, waiterVars, chanVars, Selectors
<1>1. CASE SelectCall(u) /\ t = u
  <2>1. PICK i \in DOMAIN Arms[t], d \in {"none", "ahead"} :
          Local(t, From([NoSelect EXCEPT !.deadline = d], t, i))
    BY <1>1 DEF SelectCall
  <2>. DEFINE s0 == [NoSelect EXCEPT !.deadline = d]
              s == From(s0, t, i)
  <2>2. s0 \in Locals /\ s0.phase = "try"
    BY NoSelectTyped DEF Locals
  <2>3. sel'[t] = s
    BY <1>0, <2>1 DEF Local, Selecting
  <2>. HIDE DEF s0
  <2>4. s.phase = "try"
    BY <1>0, <2>2, LoopsStart
  <2>. HIDE DEF s
  <2>5. pc'[t] = "probe"
    BY <1>0, <1>1 DEF SelectCall, Types, Placed
  <2>. QED BY <2>3, <2>4, <2>5, NothingToKnow, <1>0 DEF Probing
<1>2. CASE DeadlinePasses(u) \/ t # u
  <2>1. /\ pc'[t] = pc[t] /\ sel'[t].phase = sel[t].phase /\ sel'[t].arm = sel[t].arm
        /\ sel'[t].seen = sel[t].seen /\ sel'[t].round = sel[t].round
    <3>1. CASE t # u
      BY <1>0, <3>1 DEF SelectCall, DeadlinePasses, Local, chanVars, Types, Placed, Selecting
    <3>2. CASE DeadlinePasses(u) /\ t = u
      <4>. DEFINE s == [sel[t] EXCEPT !.deadline = "passed"]
      <4>1. /\ s.arm = sel[t].arm /\ s.phase = sel[t].phase /\ s.round = sel[t].round
            /\ s.seen = sel[t].seen
        BY <1>0 DEF Selecting, Locals
      <4>2. sel' = [sel EXCEPT ![t] = s] /\ pc' = pc
        BY <3>2 DEF DeadlinePasses, Local, chanVars
      <4>. HIDE DEF s
      <4>. QED BY <1>0, <4>1, <4>2 DEF Selecting
    <3>. QED BY <1>2, <3>1, <3>2
  <2>2. Coming(t, r)' = Coming(t, r)
    BY <1>0 DEF Coming, Called, Chosen, Choosing, Hand, Calling, OfTurn, Thread, Round
  <2>3. ASSUME NEW i \in DOMAIN Arms[t]
        PROVE  Alerted(t, i, r)'
    <3>1. PICK c, side : c = Arms[t][i][1] /\ side = Arms[t][i][2]
      OBVIOUS
    <3>2. Alerted(t, i, r)
      BY <2>1 DEF Alert
    <3>3. ArmDue(c, side)' = ArmDue(c, side) /\ Unbidden(c, side)' = Unbidden(c, side)
      BY <1>0 DEF ArmDue, Unbidden, Due, Senders, Receivers, CanTake, SlotFree
    <3>. QED BY <1>0, <2>1, <2>2, <3>1, <3>2, <3>3, AlertedAside
  <2>. QED BY <1>0, <2>1, <2>3 DEF Alert
<1>. QED BY <1>1, <1>2

LEMMA AlertInit ==
  ASSUME SelectingInit
  PROVE  Alert /\ Uniform
<1>1. /\ \A u \in Threads : calls[u] = <<>> /\ pc[u] \notin SelectSteps
      /\ sel = [t \in Threads |-> NoSelect]
  BY DEF SelectingInit, Init, WaiterInit, ChannelInit, SelectInit, SelectSteps
<1>2. Uniform
  BY <1>1 DEF Uniform, Choosing, Hand, Calling
<1>3. Alert
  <2>1. ASSUME NEW t \in Selectors PROVE sel[t].round = 0
    BY <1>1, NoSelectTyped DEF Selectors
  <2>2. 0 \notin Rounds
    BY SelectAssumption
  <2>. QED BY <2>1, <2>2 DEF Alert
<1>. QED BY <1>2, <1>3

LEMMA SelectingAlert ==
  ASSUME Alone
  PROVE  SelectingSpec => [](ChannelInv /\ Selecting /\ Tidy /\ Owned /\ Uniform /\ Alert)
<1>. DEFINE Inv == ChannelInv /\ Selecting /\ Tidy
            More == Owned /\ Uniform /\ Alert
<1>1. SelectingInit => More
  BY OwnedInit, AlertInit
<1>2. Inv /\ Inv' /\ More /\ [SelectingNext]_selectVars => More'
  <2>. SUFFICES ASSUME Types, Unborn, Window, Selecting, Tidy, Owned, Uniform, Alert,
                       [SelectingNext]_selectVars
                PROVE  Owned' /\ Uniform' /\ Alert'
    BY DEF ChannelInv, RingInv
  <2>1. CASE UNCHANGED selectVars
    <3>1. /\ UNCHANGED <<permit, waiting, stack, aborted, selected, calls>>
          /\ UNCHANGED <<flavour, q, held, pc, on, pos, spurious, sel, timed>>
      BY <2>1 DEF selectVars, waiterVars, chanVars, selVars
    <3>2. Owned'
      BY <3>1, OwnedSame DEF Owned, Entitled
    <3>3. Uniform'
      BY <3>1, UniformAside DEF Hand, Calling
    <3>4. Alert'
      <4>1. \A t : \A r : Coming(t, r)' = Coming(t, r)
        BY <3>1 DEF Coming, Called, Chosen, Choosing, Hand, Calling, OfTurn, Thread, Round
      <4>2. \A c : \A side : ArmDue(c, side)' = ArmDue(c, side) /\ Unbidden(c, side)' = Unbidden(c, side)
        BY <3>1 DEF ArmDue, Unbidden, Due, Senders, Receivers, CanTake, SlotFree
      <4>3. \A t : \A i : \A r : Alerted(t, i, r) => Alerted(t, i, r)'
        BY <3>1, <4>1, <4>2 DEF Alerted, Posted
      <4>. QED BY <3>1, <4>3 DEF Alert
    <3>. QED BY <3>2, <3>3, <3>4
  <2>2. ASSUME NEW t \in Threads, SelectStep(t)
        PROVE  Owned' /\ Uniform' /\ Alert'
    BY <2>2, OwnedSelect, UniformStep, AlertSelect
  <2>3. ASSUME NEW t \in Threads, Acts(t), UNCHANGED selVars
        PROVE  Owned' /\ Uniform' /\ Alert'
    BY <2>3, OwnedActs, UniformStep, AlertActs DEF Does
  <2>4. ASSUME NEW t \in Threads, WakeStep(t), UNCHANGED chanVars, UNCHANGED selVars
        PROVE  Owned' /\ Uniform' /\ Alert'
    BY <2>4, OwnedWake, UniformStep, AlertWake DEF Does
  <2>5. ASSUME NEW t \in Threads, SelectCall(t) \/ DeadlinePasses(t)
        PROVE  Owned' /\ Uniform' /\ Alert'
    BY <2>5, OwnedCalls, UniformStep, AlertCalls
  <2>. QED BY <2>1, <2>2, <2>3, <2>4, <2>5, SelectingSteps DEF Does
<1>. HIDE DEF Inv, More
<1>3. SelectingSpec => []Inv
  BY SelectingTidy DEF Inv
<1>4. SelectingSpec => []More
  BY <1>1, <1>2, <1>3, PTL DEF SelectingSpec
<1>5. Inv /\ More => ChannelInv /\ Selecting /\ Tidy /\ Owned /\ Uniform /\ Alert
  BY DEF Inv, More
<1>. QED BY <1>3, <1>4, <1>5, PTL

(* What is coming to a sleeping turn is its waker.                          *)
LEMMA ComingWakes ==
  ASSUME Types, NEW t \in Threads, Coming(t, sel[t].round),
         selected[t][sel[t].round] = Unselected \/ permit[t]
  PROVE  permit[t] \/ \E u \in Threads : WillSelect(u, t)
<1>. DEFINE r == sel[t].round
<1>1. \A n : OfTurn(n, t, r) <=> Current(n, t)
  BY DEF OfTurn, Current
<1>2. ASSUME NEW u \in Threads, NEW call \in ToSet(calls[u]), call.op \in Choice,
             NEW n \in ToSet(stack[call.on]), OfTurn(n, t, r)
      PROVE  WillSelect(u, t)
  <2>1. PICK i \in DOMAIN calls[u] : calls[u][i] = call
    BY DEF ToSet
  <2>. QED BY <1>1, <1>2, <2>1 DEF WillSelect, Choice
<1>3. ASSUME NEW u \in Threads, Choosing(u), NEW n \in ToSet(Hand(u)), OfTurn(n, t, r)
      PROVE  WillSelect(u, t)
  <2>1. calls[u] # <<>> /\ Head(calls[u]).op \in {"visit", "elect"} /\ Hand(u) = Head(calls[u]).todo
    BY <1>3 DEF Choosing, Hand, Calling
  <2>2. calls[u] \in Seq(WakeCalls(OwnNodes))
    BY DEF Types, WaiterTypes
  <2>3. 1 \in DOMAIN calls[u] /\ Head(calls[u]) = calls[u][1]
    BY <2>1, <2>2
  <2>4. Head(calls[u]).mode \in {"select_one", "select_all"}
    BY <1>3 DEF Choosing, Choice
  <2>. QED BY <1>1, <1>3, <2>1, <2>3, <2>4 DEF WillSelect
<1>. QED BY <1>2, <1>3 DEF Coming, Called, Chosen

(* "Block until one arm is ready": a select call does not sleep on an arm   *)
(* that can be completed, whoever sends, receives, drops handles or walks   *)
(* over the stacks at the same time: it holds a permit, or a waker has a    *)
(* node of its present turn before it.                                      *)
THEOREM NobodyStranded ==
  ASSUME Alone
  PROVE  SelectingSpec => []NotStranded
<1>1. Types /\ Selecting /\ Alert => NotStranded
  <2>. SUFFICES ASSUME Types, Selecting, Alert, NEW t \in Selectors, pc[t] = "sleep", SomeArmDue(t)
                PROVE  permit[t] \/ \E u \in Threads : WillSelect(u, t)
    BY DEF NotStranded
  <2>1. PICK i \in DOMAIN Arms[t] : ArmDue(Arms[t][i][1], Arms[t][i][2])
    BY DEF SomeArmDue
  <2>2. t \in Threads /\ sel[t].round \in Rounds
    BY DEF Selectors, Selecting, InArms, SelectSteps, Probing
  <2>3. /\ Alerted(t, i, sel[t].round)
        /\ selected[t][sel[t].round] = Unselected \/ permit[t]
    BY <2>2 DEF Alert
  <2>4. Coming(t, sel[t].round)
    BY <2>1, <2>3 DEF Alerted
  <2>. QED BY <2>2, <2>3, <2>4, ComingWakes
<1>2. ChannelInv /\ Selecting /\ Tidy /\ Owned /\ Uniform /\ Alert => NotStranded
  BY <1>1 DEF ChannelInv
<1>. QED BY <1>2, SelectingAlert, PTL
=============================================================================
