--------------------------- MODULE BroadcastProofs ---------------------------
(***************************************************************************)
(* Proofs about Broadcast for any threads, programs, capacity and limit of *)
(* spins: that it is a Feed, that a lag is counted exactly, that a message *)
(* stays until the next lap unless a sender was overtaken, that a receive  *)
(* returns the message it says, that no wake-up is lost, and types.        *)
(***************************************************************************)
EXTENDS Broadcast, EndpointProofs

-----------------------------------------------------------------------------
(* Arithmetic of the slots.                                                 *)
LEMMA SlotDivision ==
  ASSUME NEW n \in Nat
  PROVE  /\ SlotOf(n) \in 0 .. Cap - 1
         /\ n \div Cap \in Int
         /\ n = Cap * (n \div Cap) + SlotOf(n)
  BY BroadcastAssumption, SMTT(30) DEF SlotOf

(* Two numbers of one slot are a lap apart, at least.                       *)
LEMMA LapApart ==
  ASSUME NEW n \in Nat, NEW m \in Nat, n < m, SlotOf(n) = SlotOf(m)
  PROVE  m >= n + Cap
<1>. DEFINE a == n \div Cap
            b == m \div Cap
            r == SlotOf(n)
<1>1. a \in Int /\ b \in Int /\ r \in Int /\ n = Cap * a + r /\ m = Cap * b + r
  BY SlotDivision
<1>. HIDE DEF a, b, r
<1>2. Cap \in Nat /\ Cap > 0
  BY BroadcastAssumption
<1>3. Cap * (b - a) = m - n
  BY <1>1, <1>2, SMTT(30)
<1>4. CASE b - a >= 1
  <2>1. Cap * (b - a) >= Cap
    BY <1>1, <1>2, <1>4, SMTT(30)
  <2>. QED  BY <1>1, <1>2, <1>3, <2>1
<1>5. CASE b - a <= 0
  <2>1. Cap * (b - a) <= 0
    BY <1>1, <1>2, <1>5, SMTT(30)
  <2>. QED  BY <1>1, <1>2, <1>3, <2>1
<1>. QED  BY <1>1, <1>4, <1>5

LEMMA NextLap ==
  ASSUME NEW n \in Nat, n >= Cap
  PROVE  n - Cap \in Nat /\ SlotOf(n - Cap) = SlotOf(n)
<1>. DEFINE k == n - Cap
            a == k \div Cap
            b == n \div Cap
            r == SlotOf(k)
            s == SlotOf(n)
<1>1. Cap \in Nat /\ Cap > 0 /\ k \in Nat /\ k + Cap = n
  BY BroadcastAssumption
<1>2. /\ a \in Int /\ r \in 0 .. Cap - 1 /\ k = Cap * a + r
      /\ b \in Int /\ s \in 0 .. Cap - 1 /\ n = Cap * b + s
  BY <1>1, SlotDivision
<1>. HIDE DEF k, a, b, r, s
<1>3. Cap * (b - a) = Cap + r - s
  BY <1>1, <1>2, SMTT(30)
<1>4. CASE b - a <= 0
  <2>1. Cap * (b - a) <= 0
    BY <1>1, <1>2, <1>4, SMTT(30)
  <2>. QED  BY <1>1, <1>2, <1>3, <2>1
<1>5. CASE b - a = 1
  BY <1>1, <1>2, <1>3, <1>5 DEF k, r, s
<1>6. CASE b - a >= 2
  <2>1. Cap * (b - a) >= Cap + Cap
    BY <1>1, <1>2, <1>6, SMTT(30)
  <2>. QED  BY <1>1, <1>2, <1>3, <2>1
<1>. QED  BY <1>2, <1>4, <1>5, <1>6

-----------------------------------------------------------------------------
(* The state that matters here, and its types.                              *)
channelVars == <<writeSeq, seq, value, lapped>>
coreVars == <<program, held, pc, answer, cursor, local, channelVars>>

Replies == {"none", "ok", "empty", "lagged", "disconnected"}
Locals == [claimed : Int, snapshot : Int, spins : Nat, skipped : Int]

Types ==
  /\ program \in Programs
  /\ held \in [Threads -> SUBSET {"send", "recv"}]
  /\ pc \in [Threads -> Steps] /\ answer \in [Threads -> Replies]
  /\ writeSeq \in Nat
  /\ seq \in [0 .. Cap - 1 -> Nat] /\ value \in [0 .. Cap - 1 -> Int]
  /\ cursor \in [Threads -> Int] /\ local \in [Threads -> Locals]

(* Who has a receiver has a place in the log.                               *)
Outside == {"unborn", "idle", "check", "claim", "fill", "stamp"}
Subscribed ==
  \A t \in Threads :
    /\ "recv" \in held[t] \/ pc[t] \notin Outside => cursor[t] >= 0
    /\ pc[t] = "unborn" => cursor[t] = Away

(* The numbers that senders hold are theirs alone; those in the slots are   *)
(* published, and in the slot where they belong.                            *)
Filling == {"fill", "stamp"}
Claims ==
  /\ \A t \in Threads : pc[t] \in Filling => local[t].claimed \in 0 .. writeSeq - 1
  /\ \A t, u \in Threads :
       pc[t] \in Filling /\ pc[u] \in Filling /\ local[t].claimed = local[u].claimed => t = u

Published(n) == n \in 0 .. writeSeq - 1 /\ n \notin Pending
Numbers ==
  \A s \in 0 .. Cap - 1 :
    seq[s] # 0 => Published(seq[s] - 1) /\ SlotOf(seq[s] - 1) = s

(* As long as nobody is overtaken at a slot, its numbers come one lap after *)
(* the other.                                                               *)
Laps ==
  /\ \A c \in Pending, n \in Nat :
       c < n /\ n < writeSeq /\ SlotOf(n) = SlotOf(c) => SlotOf(c) \in lapped
  /\ \A c \in Pending :
       SlotOf(c) \in lapped \/ seq[SlotOf(c)] = IF c < Cap THEN 0 ELSE c - Cap + 1

(* A slot's value is the one of its number, or the one that comes next.     *)
Stamping(c) == \E t \in Threads : pc[t] = "stamp" /\ local[t].claimed = c
Values ==
  /\ \A t \in Threads : pc[t] = "stamp" =>
       LET c == local[t].claimed IN SlotOf(c) \in lapped \/ value[SlotOf(c)] = c
  /\ \A s \in 0 .. Cap - 1 :
       \/ s \in lapped \/ value[s] = seq[s] - 1
       \/ Stamping(value[s]) /\ SlotOf(value[s]) = s

(* What a receive knows of the message at its cursor n, and of the slot.    *)
Passed(n) == Published(n) /\ seq[SlotOf(n)] # n + 1
ReadsOf(t) ==
  LET n == cursor[t]  spins == local[t].spins  snapshot == local[t].snapshot IN
  /\ pc[t] \in {"read", "after"} => spins = 0 /\ Published(n)
  /\ spins # 0 => pc[t] \in {"look", "before", "count", "lap"}
  /\ spins # 0 /\ pc[t] \in {"look", "before"} => Passed(n)
  /\ pc[t] = "lap" => n + Cap < writeSeq
  /\ pc[t] = "after" =>
       \/ SlotOf(n) \in lapped \/ Passed(n) \/ snapshot = n
       \/ snapshot = n + Cap /\ Stamping(n + Cap)
Reads == \A t \in Threads : ReadsOf(t)

BroadcastInv ==
  Types /\ Subscribed /\ Claims /\ Numbers /\ Laps /\ PublishedStays /\ Values /\ Reads

SlotInv == Claims /\ Numbers /\ Laps /\ PublishedStays /\ Values

LEMMA PendingNumbers ==
  ASSUME Types, Claims
  PROVE  /\ Pending \subseteq 0 .. writeSeq - 1
         /\ \A n : n \in Pending <=> \E t \in Threads : pc[t] \in Filling /\ local[t].claimed = n
BY DEF Types, Claims, Pending, Filling

-----------------------------------------------------------------------------
(* A step of a thread that does not send leaves the slots alone.            *)
Elsewhere(t) ==
  /\ pc[t] \notin Filling /\ pc'[t] \notin Filling
  /\ \A u \in Threads \ {t} : pc'[u] = pc[u] /\ local'[u] = local[u] /\ cursor'[u] = cursor[u]
  /\ UNCHANGED channelVars

LEMMA ElsewhereKeeps ==
  ASSUME BroadcastInv, NEW t \in Threads, Elsewhere(t)
  PROVE  /\ Pending' = Pending /\ SlotInv'
         /\ \A n : Published(n)' = Published(n) /\ Passed(n)' = Passed(n)
                   /\ Stamping(n)' = Stamping(n)
<1>. USE DEF Elsewhere, channelVars
<1>1. Pending' = Pending
  BY DEF Pending, Filling
<1>2. \A n : Stamping(n)' = Stamping(n)
  BY DEF Stamping, Filling
<1>3. \A n : SlotOf(n)' = SlotOf(n)
  BY DEF SlotOf
<1>4. \A n : Published(n)' = Published(n) /\ Passed(n)' = Passed(n)
  BY <1>1, <1>3 DEF Published, Passed
<1>5. Claims'
  BY DEF BroadcastInv, Claims, Filling
<1>6. Numbers'
  BY <1>3, <1>4 DEF BroadcastInv, Numbers
<1>7. Laps'
  BY <1>1, <1>3 DEF BroadcastInv, Laps
<1>8. PublishedStays'
  BY <1>1, <1>3 DEF BroadcastInv, PublishedStays, Oldest
<1>9. Values'
  <2>1. ASSUME NEW u \in Threads, pc'[u] = "stamp"
        PROVE  u # t /\ pc[u] = "stamp" /\ local'[u] = local[u]
    BY <2>1 DEF Filling
  <2>2. \A s \in 0 .. Cap - 1 :
          \/ s \in lapped \/ value[s] = seq[s] - 1
          \/ Stamping(value[s])' /\ SlotOf(value[s]) = s
    BY <1>2 DEF BroadcastInv, Values
  <2>. QED  BY <1>3, <2>1, <2>2 DEF BroadcastInv, Values, Stamping
<1>. QED  BY <1>1, <1>2, <1>4, <1>5, <1>6, <1>7, <1>8, <1>9 DEF SlotInv

-----------------------------------------------------------------------------
(* What most steps of a thread t come to: between steps at which nothing is *)
(* at stake, or to the beginning of a receive.                              *)
Critical == {"unborn", "fill", "stamp", "before", "lap", "read", "after", "count", "look",
             "return"}
Quiet(t) ==
  /\ pc[t] \notin Critical
  /\ pc' \in [Threads -> Steps] /\ answer' \in [Threads -> Replies]
  /\ pc'[t] \notin Critical \ {"look"}
  /\ pc'[t] \in Outside \/ pc[t] \notin Outside \/ "recv" \in held[t]
  /\ \A u \in Threads \ {t} : pc'[u] = pc[u] /\ answer'[u] = answer[u]
  /\ UNCHANGED <<program, held, cursor, local, channelVars>>

QuietCall(t) ==
  \/ SendCall(t) \/ Check(t) \/ RecvCall(t) \/ SelectBegins(t) \/ Complete(t)
  \/ Probe(t) \/ ProbeSenders(t) \/ RegisterSelect(t)

(* The calls and the hooks for select!.                                     *)
LEMMA CallsAreQuiet ==
  ASSUME Types, NEW t \in Threads, QuietCall(t)
  PROVE  Quiet(t)
<1>. USE DEF Types, Quiet, Critical, Replies, Outside, Steps, SelectSteps, At, Step, Finish,
             broadcastVars, channelVars
<1>1. CASE SendCall(t)
  BY <1>1 DEF SendCall, Call, localVars, quietVars
<1>2. CASE Check(t)
  <2>1. pc[t] = "check" /\ UNCHANGED <<program, held, broadcastVars>>
    BY <1>2 DEF Check, CheckReceivers, localVars, quietVars
  <2>2. Finish(t) \/ Step(t, "claim")
    BY <1>2 DEF Check, CheckReceivers
  <2>3. CASE Finish(t)
    BY <2>1, <2>3
  <2>4. CASE Step(t, "claim")
    BY <2>1, <2>4
  <2>. QED  BY <2>2, <2>3, <2>4
<1>3. CASE RecvCall(t)
  BY <1>3 DEF RecvCall, Call, localVars, quietVars
<1>4. CASE SelectBegins(t)
  BY <1>4 DEF SelectBegins, SelectCall, probeVars
<1>5. CASE Complete(t)
  BY <1>5 DEF Complete, CompleteBy, localVars, quietVars
<1>6. CASE Probe(t)
  BY <1>6 DEF Probe, ArmReady, CompleteArm, Proceed, probeVars
<1>7. CASE ProbeSenders(t)
  <2>1. CASE ArmReady(t)
    BY <1>7, <2>1 DEF ProbeSenders, ArmReady, CompleteArm, Proceed, probeVars
  <2>2. CASE ArmNotReady(t)
    <3>1. pc[t] = "probe_more" /\ UNCHANGED <<program, held, broadcastVars>>
      BY <1>7 DEF ProbeSenders, probeVars
    <3>2. \/ Finish(t)
          \/ \E to \in {"decide", "enrol"} : Step(t, to)
      BY <2>2 DEF ArmNotReady, TakeDefault, Proceed
    <3>3. CASE Finish(t)
      BY <3>1, <3>3
    <3>4. ASSUME NEW to \in {"decide", "enrol"}, Step(t, to) PROVE Quiet(t)
      BY <3>1, <3>4
    <3>. QED  BY <3>2, <3>3, <3>4
  <2>. QED  BY <1>7, <2>1, <2>2 DEF ProbeSenders
<1>8. CASE RegisterSelect(t)
  BY <1>8 DEF RegisterSelect, localVars, quietVars
<1>. QED  BY <1>1, <1>2, <1>3, <1>4, <1>5, <1>6, <1>7, <1>8 DEF QuietCall

QuietWait(t) ==
  /\ \/ Enlist(t, "look") \/ ParkReturns(t, "park", "again") \/ Again(t, "look")
     \/ PushArm(t, "push") \/ SelectStep(t)
  /\ UNCHANGED broadcastVars

(* The registration, the park and the turns of select!.                     *)
LEMMA WaitsAreQuiet ==
  ASSUME Types, NEW t \in Threads, QuietWait(t)
  PROVE  Quiet(t)
<1>. USE DEF Types, Quiet, Critical, Replies, Outside, Steps, SelectSteps, At, Step, Finish,
             broadcastVars, channelVars, QuietWait
<1>1. CASE Enlist(t, "look")
  BY <1>1 DEF Enlist
<1>2. CASE ParkReturns(t, "park", "again")
  BY <1>2 DEF ParkReturns
<1>3. CASE Again(t, "look")
  BY <1>3 DEF Again
<1>4. CASE PushArm(t, "push")
  BY <1>4 DEF PushArm
<1>5. CASE Decide(t)
  BY <1>5 DEF Decide, localVars, quietVars
<1>6. CASE WakeUp(t)
  BY <1>6 DEF WakeUp
<1>7. CASE AbortLoad(t)
  BY <1>7 DEF AbortLoad, Proceed
<1>8. CASE Walk(t)
  BY <1>8 DEF Walk, Proceed
<1>9. CASE Judge(t)
  <2>1. pc[t] = "judge" /\ UNCHANGED <<program, held, broadcastVars>>
    BY <1>9 DEF Judge, probeVars
  <2>2. \/ Finish(t)
        \/ \E to \in {"complete", "probe"} : Step(t, to)
    BY <1>9 DEF Judge, CompleteArm, TakeDefault, Proceed
  <2>3. CASE Finish(t)
    BY <2>1, <2>3
  <2>4. ASSUME NEW to \in {"complete", "probe"}, Step(t, to) PROVE Quiet(t)
    BY <2>1, <2>4
  <2>. QED  BY <2>2, <2>3, <2>4
<1>. QED  BY <1>1, <1>2, <1>3, <1>4, <1>5, <1>6, <1>7, <1>8, <1>9 DEF SelectStep

(* What a step shows besides the invariant: it is one of a feed, what it    *)
(* says of a lag is true and what it returns is what it says.               *)
FeedStep == Log!Next \/ UNCHANGED <<writeSeq, Pending, cursor>>
Lags(t) == pc[t] # "return" /\ pc'[t] = "return" /\ answer'[t] = "lagged"
LagHolds(t) == local'[t].skipped = cursor'[t] - cursor[t] /\ cursor'[t] < writeSeq
DeliveryHolds(t) ==
  \/ local[t].snapshot = cursor[t]
  \/ local[t].snapshot = cursor[t] + Cap /\ Overwriting(cursor[t] + Cap)
  \/ SlotOf(cursor[t]) \in lapped
StepShows ==
  /\ FeedStep
  /\ \A t \in Threads : Lags(t) => LagHolds(t)
  /\ \A t \in Threads : Returns(t) => DeliveryHolds(t)

LEMMA QuietStep ==
  ASSUME BroadcastInv, NEW t \in Threads, Quiet(t)
  PROVE  BroadcastInv' /\ StepShows
<1>. USE DEF Quiet, Critical
<1>1. Elsewhere(t)
  BY DEF Elsewhere, Filling
<1>2. Types'
  BY DEF BroadcastInv, Types, channelVars
<1>3. Subscribed'
  BY DEF BroadcastInv, Types, Subscribed, Outside
<1>4. Reads'
  <2>1. ASSUME NEW u \in Threads, u # t
        PROVE  pc'[u] = pc[u] /\ local'[u] = local[u] /\ cursor'[u] = cursor[u]
    BY <2>1
  <2>2. local[t].spins = 0 /\ local'[t] = local[t] /\ pc'[t] \notin {"read", "after", "lap"}
    BY DEF BroadcastInv, Reads, ReadsOf
  <2>3. writeSeq' = writeSeq /\ lapped' = lapped
    BY DEF channelVars
  <2>. QED  BY <1>1, <2>1, <2>2, <2>3, ElsewhereKeeps DEF BroadcastInv, Reads, ReadsOf
<1>5. FeedStep
  BY <1>1, ElsewhereKeeps DEF FeedStep, channelVars
<1>6. \A u \in Threads : ~Lags(u) /\ ~Returns(u)
  BY DEF Lags, Returns
<1>. QED  BY <1>1, <1>2, <1>3, <1>4, <1>5, <1>6, ElsewhereKeeps
          DEF BroadcastInv, SlotInv, StepShows

-----------------------------------------------------------------------------
(* The steps of try_recv.  Each of them changes the receiver's own state    *)
(* only, so what is left to show is about that.                             *)
ReaderMoves(t) ==
  /\ pc[t] \notin Outside /\ pc'[t] \notin Filling \cup {"unborn"}
  /\ pc' \in [Threads -> Steps] /\ answer' \in [Threads -> Replies]
  /\ cursor' \in [Threads -> Int] /\ local' \in [Threads -> Locals]
  /\ \A u \in Threads \ {t} : /\ pc'[u] = pc[u] /\ local'[u] = local[u] /\ cursor'[u] = cursor[u]
                              /\ answer'[u] = answer[u]
  /\ UNCHANGED <<program, held, channelVars>>

LEMMA ReaderKeeps ==
  ASSUME BroadcastInv, NEW t \in Threads, ReaderMoves(t), ReadsOf(t)', cursor'[t] >= 0
  PROVE  /\ BroadcastInv' /\ Pending' = Pending
         /\ \A u \in Threads \ {t} : ~Lags(u) /\ ~Returns(u)
<1>. USE DEF ReaderMoves
<1>1. Elsewhere(t)
  BY DEF Elsewhere, Outside, Filling
<1>2. Types'
  BY DEF BroadcastInv, Types, channelVars
<1>3. Subscribed'
  BY DEF BroadcastInv, Types, Subscribed, Outside
<1>4. ASSUME NEW u \in Threads, u # t
      PROVE  ReadsOf(u)'
  <2>1. pc'[u] = pc[u] /\ local'[u] = local[u] /\ cursor'[u] = cursor[u]
    BY <1>4
  <2>2. writeSeq' = writeSeq /\ lapped' = lapped
    BY DEF channelVars
  <2>. QED  BY <1>1, <2>1, <2>2, ElsewhereKeeps DEF BroadcastInv, Reads, ReadsOf
<1>5. \A u \in Threads \ {t} : ~Lags(u) /\ ~Returns(u)
  BY DEF Lags, Returns
<1>. QED  BY <1>1, <1>2, <1>3, <1>4, <1>5, ElsewhereKeeps DEF BroadcastInv, SlotInv, Reads

(* A receive that finds nothing returns or waits.                           *)
LEMMA NothingFound ==
  ASSUME Types, NEW t \in Threads, Disconnected(t) \/ NothingYet(t)
  PROVE  /\ pc' \in [Threads -> Steps] /\ pc'[t] \in {"return", "enlist", "park"}
         /\ answer' \in [Threads -> Replies]
         /\ answer'[t] \notin {"ok", "lagged"} \/ pc'[t] # "return"
         /\ local' \in [Threads -> Locals] /\ local'[t] = NoLocals
         /\ \A u \in Threads \ {t} : pc'[u] = pc[u] /\ answer'[u] = answer[u] /\ local'[u] = local[u]
<1>. USE DEF Types, Local, Step, Answer
<1>1. NoLocals \in Locals
  BY DEF NoLocals, Locals, Empty
<1>2. CASE Disconnected(t)
  BY <1>1, <1>2 DEF Disconnected, Steps, Replies
<1>3. CASE NothingYet(t)
  <2>1. local' = [local EXCEPT ![t] = NoLocals]
    BY <1>3 DEF NothingYet
  <2>2. \/ Answer(t, "empty")
        \/ \E to \in {"enlist", "park"} : Step(t, to)
    BY <1>3 DEF NothingYet, Nothing
  <2>3. CASE Answer(t, "empty")
    BY <1>1, <2>1, <2>3 DEF Steps, Replies
  <2>4. CASE \E to \in {"enlist", "park"} : Step(t, to)
    BY <1>1, <2>1, <2>4 DEF Steps, Replies
  <2>. QED  BY <2>2, <2>3, <2>4
<1>. QED  BY <1>2, <1>3

(* A receive that looks, finds nothing, or goes on with what it found.      *)
LEMMA LookStep ==
  ASSUME BroadcastInv, NEW t \in Threads,
         CountSenders(t) \/ LoadSeqBefore(t) \/ LoadValue(t) \/ ReturnMessage(t)
  PROVE  BroadcastInv' /\ StepShows
<1>. USE DEF BroadcastInv, Types, Locals, NoLocals, At, Step, Local, Finish,
             localVars, quietVars, channelVars, Empty
<1>1. cursor[t] >= 0
  BY DEF Subscribed, CountSenders, LoadSeqBefore, LoadValue, ReturnMessage, Return, Outside
<1>2. cursor[t] \in Nat /\ SlotOf(cursor[t]) \in 0 .. Cap - 1
  BY <1>1, SlotDivision
<1>3. UNCHANGED <<writeSeq, seq, value, lapped, cursor>>
  BY DEF CountSenders, LoadSeqBefore, LoadValue, ReturnMessage
<1>4. ReaderMoves(t)
  <2>. USE DEF ReaderMoves, Outside, Filling, Steps, Replies
  <2>1. CASE CountSenders(t)
    BY <2>1, NothingFound DEF CountSenders
  <2>2. CASE LoadSeqBefore(t)
    BY <2>2, NothingFound DEF LoadSeqBefore
  <2>3. CASE LoadValue(t)
    BY <1>2, <2>3 DEF LoadValue
  <2>4. CASE ReturnMessage(t)
    BY <2>4 DEF ReturnMessage, Return
  <2>. QED  BY <2>1, <2>2, <2>3, <2>4
<1>5. Elsewhere(t)
  BY <1>4 DEF ReaderMoves, Elsewhere, Outside, Filling
<1>6. ReadsOf(t)'
  <2>1. CASE CountSenders(t)
    <3>1. pc'[t] \in {"return", "enlist", "park"} /\ local'[t].spins = 0
      BY <2>1, NothingFound DEF CountSenders
    <3>. QED  BY <3>1 DEF ReadsOf
  <2>2. CASE LoadSeqBefore(t)
    <3>. DEFINE n == cursor[t]
                found == seq[SlotOf(n)]
    <3>1. local[t].spins # 0 => Passed(n)
      BY <2>2 DEF LoadSeqBefore, Reads, ReadsOf
    <3>2. CASE found < n + 1
      <4>1. pc'[t] \in {"return", "enlist", "park"} /\ local'[t].spins = 0
        <5>1. Disconnected(t) \/ NothingYet(t)
          BY <1>2, <2>2, <3>2 DEF LoadSeqBefore
        <5>. QED  BY <5>1, NothingFound
      <4>. QED  BY <4>1 DEF ReadsOf
    <3>3. CASE found > n + 1
      <4>1. found - 1 < writeSeq /\ SlotOf(found - 1) = SlotOf(n) /\ found - 1 \in Nat
        BY <1>2, <3>3 DEF Numbers, Published
      <4>2. n + Cap < writeSeq
        <5>1. n \in Nat /\ found \in Nat /\ n < found - 1
          BY <1>2, <3>3
        <5>2. found - 1 >= n + Cap
          BY <4>1, <5>1, LapApart
        <5>. HIDE DEF n, found
        <5>. QED  BY <4>1, <5>1, <5>2, BroadcastAssumption
      <4>3. pc'[t] = "lap" /\ local' = local /\ cursor' = cursor /\ writeSeq' = writeSeq
        BY <1>2, <1>3, <2>2, <3>3 DEF LoadSeqBefore
      <4>. QED  BY <4>2, <4>3 DEF ReadsOf
    <3>4. CASE found = n + 1
      <4>1. Published(n)
        <5>1. found # 0 /\ found - 1 = n
          BY <1>2, <3>4
        <5>. QED  BY <1>2, <5>1 DEF Numbers
      <4>2. local[t].spins = 0
        BY <3>1, <3>4 DEF Passed
      <4>3. pc'[t] = "read" /\ local' = local /\ cursor' = cursor
        BY <1>2, <1>3, <2>2, <3>4 DEF LoadSeqBefore
      <4>. QED  BY <1>5, <4>1, <4>2, <4>3, ElsewhereKeeps DEF ReadsOf
    <3>. QED  BY <1>2, <3>2, <3>3, <3>4
  <2>3. CASE LoadValue(t)
    <3>. DEFINE n == cursor[t]
                v == value[SlotOf(n)]
    <3>1. /\ pc'[t] = "after" /\ local'[t].snapshot = v /\ local'[t].spins = local[t].spins
          /\ cursor'[t] = n /\ lapped' = lapped
      BY <1>3, <2>3 DEF LoadValue
    <3>2. local[t].spins = 0 /\ Published(n)
      BY <2>3 DEF LoadValue, Reads, ReadsOf
    <3>3. SlotOf(n) \in lapped \/ Passed(n) \/ v = n \/ (v = n + Cap /\ Stamping(n + Cap))
      <4>1. CASE v = seq[SlotOf(n)] - 1
        BY <1>2, <3>2, <4>1 DEF Passed
      <4>2. CASE SlotOf(n) \notin lapped /\ Stamping(v) /\ SlotOf(v) = SlotOf(n)
        <5>1. v \in Pending
          BY <4>2 DEF Stamping, Pending
        <5>2. v \in Nat
          BY <5>1, PendingNumbers
        <5>3. seq[SlotOf(n)] = IF v < Cap THEN 0 ELSE v - Cap + 1
          BY <4>2, <5>1 DEF Laps
        <5>4. seq[SlotOf(n)] # n + 1 \/ v = n + Cap
          <6>. HIDE DEF v, n
          <6>1. n \in Nat
            BY <1>2 DEF n
          <6>. QED  BY ONLY <5>2, <5>3, <6>1, BroadcastAssumption
        <5>. QED  BY <3>2, <4>2, <5>4 DEF Passed
      <4>. QED  BY <1>2, <4>1, <4>2 DEF Values
    <3>. QED  BY <1>5, <3>1, <3>2, <3>3, ElsewhereKeeps DEF ReadsOf
  <2>4. CASE ReturnMessage(t)
    BY <2>4 DEF ReadsOf, ReturnMessage, Return
  <2>. QED  BY <2>1, <2>2, <2>3, <2>4
<1>7. ~Lags(t) /\ ~Returns(t)
  BY NothingFound DEF Lags, Returns, CountSenders, LoadSeqBefore, LoadValue, ReturnMessage, Return
<1>8. BroadcastInv' /\ Pending' = Pending /\ \A u \in Threads \ {t} : ~Lags(u) /\ ~Returns(u)
  BY <1>1, <1>3, <1>4, <1>6, ReaderKeeps
<1>. QED  BY <1>3, <1>7, <1>8 DEF StepShows, FeedStep

(* A receive that finds that it was overtaken moves its cursor to the       *)
(* oldest message, which is ahead.                                          *)
LEMMA LagStep ==
  ASSUME BroadcastInv, NEW t \in Threads, UNCHANGED channelVars,
         At(t, "look") \/ At(t, "lap"), UNCHANGED <<program, held>>,
         Lag(t, Oldest, Oldest - cursor[t]), cursor[t] < Oldest
  PROVE  BroadcastInv' /\ StepShows
<1>. DEFINE k == Oldest - cursor[t]
<1>. USE DEF BroadcastInv, Types
<1>0. pc[t] \in {"look", "lap"}
  BY DEF At
<1>1. cursor[t] \in Nat
  <2>1. pc[t] \notin Outside
    BY <1>0 DEF Outside
  <2>. QED  BY <2>1 DEF Subscribed
<1>2. Oldest \in Nat /\ Oldest = writeSeq - Cap /\ Oldest < writeSeq /\ k \in Int
  BY <1>1, BroadcastAssumption DEF Oldest
<1>3. /\ cursor' = [cursor EXCEPT ![t] = Oldest] /\ pc' = [pc EXCEPT ![t] = "return"]
      /\ answer' = [answer EXCEPT ![t] = "lagged"]
      /\ local' = [local EXCEPT ![t] = [NoLocals EXCEPT !.skipped = k]]
  BY DEF Lag, Answer, Local
<1>4. local'[t].spins = 0 /\ local'[t].skipped = k /\ local' \in [Threads -> Locals]
  <2>. DEFINE new == [NoLocals EXCEPT !.skipped = k]
  <2>1. new \in Locals /\ new.spins = 0 /\ new.skipped = k
    <3>. HIDE DEF k
    <3>. QED  BY ONLY <1>2 DEF NoLocals, Locals, Empty
  <2>2. local' = [local EXCEPT ![t] = new]
    BY <1>3
  <2>. HIDE DEF new
  <2>. QED  BY <2>1, <2>2
<1>5. ReaderMoves(t)
  BY <1>0, <1>1, <1>2, <1>3, <1>4 DEF ReaderMoves, At, Outside, Filling, Steps, Replies
<1>6. ReadsOf(t)'
  BY <1>3, <1>4 DEF ReadsOf
<1>7. BroadcastInv' /\ Pending' = Pending /\ \A u \in Threads \ {t} : ~Lags(u) /\ ~Returns(u)
  <2>1. cursor'[t] >= 0
    BY <1>2, <1>3
  <2>. QED  BY <1>5, <1>6, <2>1, ReaderKeeps
<1>8. Log!Skip(t)
  <2>1. Oldest \in cursor[t] + 1 .. writeSeq - Cap
    BY <1>1, <1>2, BroadcastAssumption
  <2>2. cursor[t] # -1 /\ UNCHANGED <<writeSeq, Pending>>
    BY <1>1, <1>7 DEF channelVars
  <2>. QED  BY <1>3, <2>1, <2>2 DEF Log!Skip, Log!Move, Log!Away
<1>9. LagHolds(t) /\ ~Returns(t)
  BY <1>0, <1>1, <1>2, <1>3, <1>4 DEF LagHolds, Returns, At
<1>. QED  BY <1>7, <1>8, <1>9 DEF StepShows, FeedStep, Log!Next

LEMMA LoadWriteSeqStep ==
  ASSUME BroadcastInv, NEW t \in Threads, LoadWriteSeq(t)
  PROVE  BroadcastInv' /\ StepShows
<1>. USE DEF BroadcastInv, Types, LoadWriteSeq
<1>1. cursor[t] \in Nat
  BY DEF Subscribed, At, Outside
<1>2. UNCHANGED <<program, held, channelVars>>
  BY DEF localVars, quietVars, channelVars
<1>3. CASE cursor[t] < Oldest /\ Lag(t, Oldest, Oldest - cursor[t])
  BY <1>2, <1>3, LagStep
<1>4. CASE \/ cursor[t] = writeSeq /\ Step(t, "count")
           \/ cursor[t] # writeSeq /\ cursor[t] >= Oldest /\ Step(t, "before")
  <2>1. /\ pc[t] = "look" /\ pc'[t] \in {"count", "before"} /\ UNCHANGED <<cursor, local, answer>>
        /\ pc' \in [Threads -> Steps] /\ \A u \in Threads \ {t} : pc'[u] = pc[u]
    BY <1>4 DEF Step, At, Steps, Lag, Answer, Oldest
  <2>2. ReaderMoves(t)
    BY <1>2, <2>1 DEF ReaderMoves, Outside, Filling
  <2>3. Elsewhere(t)
    BY <2>2 DEF ReaderMoves, Elsewhere, Outside, Filling
  <2>4. ReadsOf(t)'
    BY <2>1, <2>3, ElsewhereKeeps DEF Reads, ReadsOf
  <2>5. BroadcastInv' /\ Pending' = Pending /\ \A u \in Threads \ {t} : ~Lags(u) /\ ~Returns(u)
    BY <1>1, <2>1, <2>2, <2>4, ReaderKeeps
  <2>6. ~Lags(t) /\ ~Returns(t)
    BY <2>1 DEF Lags, Returns
  <2>. QED  BY <1>2, <2>1, <2>5, <2>6 DEF StepShows, FeedStep, channelVars
<1>. QED  BY <1>3, <1>4

LEMMA CatchUpStep ==
  ASSUME BroadcastInv, NEW t \in Threads, CatchUp(t)
  PROVE  BroadcastInv' /\ StepShows
<1>. USE DEF BroadcastInv, Types, CatchUp
<1>1. cursor[t] \in Nat
  BY DEF Subscribed, At, Outside
<1>2. UNCHANGED <<program, held, channelVars>>
  BY DEF localVars, quietVars, channelVars
<1>3. cursor[t] + Cap < writeSeq
  BY DEF Reads, ReadsOf, At
<1>4. cursor[t] < Oldest
  BY <1>1, <1>3, BroadcastAssumption DEF Oldest
<1>5. Lag(t, Oldest, Oldest - cursor[t])
  BY <1>1, <1>4, BroadcastAssumption DEF Oldest
<1>. QED  BY <1>2, <1>4, <1>5, LagStep

(* The second look at the slot's number: the receive has its message, or    *)
(* was overtaken since the first one and begins anew.  It never runs out of *)
(* spins: a slot does not come back to a number.                            *)
LEMMA LoadSeqAfterStep ==
  ASSUME BroadcastInv, NEW t \in Threads, LoadSeqAfter(t)
  PROVE  BroadcastInv' /\ StepShows
<1>. USE DEF BroadcastInv, Types
<1>. DEFINE n == cursor[t]
            found == seq[SlotOf(n)]
<1>1. /\ n \in Nat /\ local[t].spins = 0 /\ Published(n) /\ pc[t] = "after"
      /\ SlotOf(n) \in 0 .. Cap - 1
  <2>1. pc[t] = "after"
    BY DEF LoadSeqAfter, At
  <2>2. n \in Nat
    <3>1. pc[t] \notin Outside
      BY <2>1 DEF Outside
    <3>. QED  BY <3>1 DEF Subscribed
  <2>. QED  BY <2>1, <2>2, SlotDivision DEF Reads, ReadsOf
<1>2. UNCHANGED <<program, held, channelVars>>
  BY DEF LoadSeqAfter, localVars, quietVars, channelVars
<1>3. CASE cursor' = cursor /\ pc'[t] = "look"
  <2>1. /\ pc' = [pc EXCEPT ![t] = "look"] /\ answer' = answer
        /\ local' \in [Threads -> Locals] /\ \A u \in Threads \ {t} : local'[u] = local[u]
    <3>. DEFINE new == [NoLocals EXCEPT !.spins = local[t].spins + 1]
    <3>1. new \in Locals
      BY <1>1 DEF NoLocals, Locals, Empty
    <3>2. local' = local \/ local' = [local EXCEPT ![t] = new]
      BY <1>3 DEF LoadSeqAfter, Local, Answer
    <3>3. pc' = [pc EXCEPT ![t] = "look"] /\ answer' = answer
      BY <1>1, <1>3 DEF LoadSeqAfter, Step, Answer
    <3>. HIDE DEF new
    <3>. QED  BY <3>1, <3>2, <3>3
  <2>2. ReaderMoves(t)
    BY <1>1, <1>2, <1>3, <2>1 DEF ReaderMoves, Outside, Filling, Steps
  <2>3. Elsewhere(t)
    BY <2>2 DEF ReaderMoves, Elsewhere, Outside, Filling
  <2>4. local'[t].spins = 0 \/ Passed(n)
    BY <1>1, <1>3 DEF LoadSeqAfter, Passed, Answer, Step
  <2>5. ReadsOf(t)'
    BY <1>3, <2>3, <2>4, ElsewhereKeeps DEF ReadsOf
  <2>6. BroadcastInv' /\ Pending' = Pending /\ \A u \in Threads \ {t} : ~Lags(u) /\ ~Returns(u)
    BY <1>1, <1>3, <2>2, <2>5, ReaderKeeps
  <2>7. ~Lags(t) /\ ~Returns(t)
    BY <1>3 DEF Lags, Returns
  <2>. QED  BY <1>2, <1>3, <2>6, <2>7 DEF StepShows, FeedStep, channelVars
<1>4. CASE /\ found = n + 1 /\ cursor' = [cursor EXCEPT ![t] = n + 1] /\ Answer(t, "ok")
           /\ Local(t, NoLocals)
  <2>1. /\ pc' = [pc EXCEPT ![t] = "return"] /\ answer' = [answer EXCEPT ![t] = "ok"]
        /\ local' = [local EXCEPT ![t] = NoLocals] /\ local'[t].spins = 0
        /\ local' \in [Threads -> Locals]
    BY <1>4 DEF Answer, Local, NoLocals, Locals, Empty
  <2>2. ReaderMoves(t)
    BY <1>1, <1>2, <1>4, <2>1 DEF ReaderMoves, Outside, Filling, Steps, Replies
  <2>3. ReadsOf(t)'
    BY <2>1 DEF ReadsOf
  <2>4. BroadcastInv' /\ Pending' = Pending /\ \A u \in Threads \ {t} : ~Lags(u) /\ ~Returns(u)
    BY <1>1, <1>4, <2>2, <2>3, ReaderKeeps
  <2>5. Log!Read(t)
    BY <1>1, <1>2, <1>4, <2>4 DEF Log!Read, Log!Move, Published, channelVars
  <2>6. DeliveryHolds(t) /\ ~Lags(t)
    BY <1>1, <1>4, <2>1 DEF Reads, ReadsOf, Passed, Stamping, Overwriting, DeliveryHolds, Lags
  <2>. QED  BY <2>4, <2>5, <2>6 DEF StepShows, FeedStep, Log!Next
<1>5. \/ cursor' = cursor /\ pc'[t] = "look"
      \/ /\ found = n + 1 /\ cursor' = [cursor EXCEPT ![t] = n + 1] /\ Answer(t, "ok")
         /\ Local(t, NoLocals)
  BY <1>1, BroadcastAssumption DEF LoadSeqAfter, Step
<1>. QED  BY <1>3, <1>4, <1>5

-----------------------------------------------------------------------------
(* The steps of send, which change the slots but nobody's cursor.           *)
SenderMoves(t) ==
  /\ pc[t] \in {"claim"} \cup Filling /\ pc'[t] \in {"idle"} \cup Filling
  /\ pc' \in [Threads -> Steps] /\ answer' \in [Threads -> Replies]
  /\ local' \in [Threads -> Locals] /\ local'[t].spins = 0
  /\ \A u \in Threads \ {t} : pc'[u] = pc[u] /\ local'[u] = local[u] /\ answer'[u] = answer[u]
  /\ UNCHANGED <<program, held, cursor>>

LEMMA SenderKeeps ==
  ASSUME BroadcastInv, NEW t \in Threads, SenderMoves(t),
         writeSeq' \in Nat, seq' \in [0 .. Cap - 1 -> Nat], value' \in [0 .. Cap - 1 -> Int],
         writeSeq' >= writeSeq, lapped \subseteq lapped',
         \A n \in Nat : Published(n) => Published(n)',
         \A n \in Nat : Passed(n) => Passed(n)',
         \A n \in Nat : Published(n) /\ Stamping(n + Cap) => Stamping(n + Cap)' \/ Passed(n)'
  PROVE  /\ Types' /\ Subscribed' /\ Reads'
         /\ \A u \in Threads : ~Lags(u) /\ ~Returns(u)
<1>. USE DEF BroadcastInv, Types, SenderMoves, Filling
<1>1. Types'
  OBVIOUS
<1>2. Subscribed'
  BY DEF Subscribed, Outside
<1>3. ASSUME NEW u \in Threads
      PROVE  ReadsOf(u)'
  <2>1. CASE u = t
    BY <2>1 DEF ReadsOf
  <2>2. CASE u # t
    <3>1. pc'[u] = pc[u] /\ local'[u] = local[u] /\ cursor'[u] = cursor[u] /\ ReadsOf(u)
      BY <2>2 DEF Reads
    <3>2. pc[u] \in {"look", "before", "lap", "read", "after"} => cursor[u] \in Nat
      <4>1. pc[u] \in {"look", "before", "lap", "read", "after"} => pc[u] \notin Outside
        BY DEF Outside
      <4>. QED  BY <4>1 DEF Subscribed
    <3>3. SlotOf(cursor[u]) \in lapped => SlotOf(cursor'[u]) \in lapped'
      BY <3>1
    <3>7. writeSeq \in Nat /\ writeSeq' \in Nat /\ cursor[u] \in Int /\ Cap \in Nat
      BY BroadcastAssumption
    <3>. HIDE DEF BroadcastInv, SenderMoves
    <3>4. pc[u] = "lap" => cursor[u] + Cap < writeSeq'
      BY <3>1, <3>7 DEF ReadsOf
    <3>5. pc[u] = "after" => \/ SlotOf(cursor[u]) \in lapped' \/ Passed(cursor[u])'
                             \/ local[u].snapshot = cursor[u]
                             \/ /\ local[u].snapshot = cursor[u] + Cap
                                /\ Stamping(cursor[u] + Cap)'
      BY <3>1, <3>2, <3>3 DEF ReadsOf
    <3>6. /\ pc[u] \in {"read", "after"} => local[u].spins = 0 /\ Published(cursor[u])'
          /\ local[u].spins # 0 => pc[u] \in {"look", "before", "count", "lap"}
          /\ local[u].spins # 0 /\ pc[u] \in {"look", "before"} => Passed(cursor[u])'
      BY <3>1, <3>2 DEF ReadsOf
    <3>. QED  BY <3>1, <3>4, <3>5, <3>6 DEF ReadsOf, Passed, Published, Stamping
  <2>. QED  BY <2>1, <2>2
<1>4. \A u \in Threads : ~Lags(u) /\ ~Returns(u)
  BY DEF Lags, Returns
<1>. QED  BY <1>1, <1>2, <1>3, <1>4 DEF Reads

LEMMA ClaimSeqStep ==
  ASSUME BroadcastInv, NEW t \in Threads, ClaimSeq(t)
  PROVE  BroadcastInv' /\ StepShows
<1>. DEFINE w == writeSeq
<1>1. /\ Types /\ Claims /\ Numbers /\ Laps /\ PublishedStays /\ Values
      /\ w \in Nat /\ Cap \in Nat /\ Cap > 0
  BY BroadcastAssumption DEF BroadcastInv, Types
<1>2. /\ pc[t] = "claim" /\ pc' = [pc EXCEPT ![t] = "fill"] /\ writeSeq' = w + 1
      /\ lapped' = lapped \cup ({SlotOf(w)} \cap {SlotOf(n) : n \in Pending})
      /\ local' = [local EXCEPT ![t] = [NoLocals EXCEPT !.claimed = w]]
      /\ UNCHANGED <<program, held, answer, seq, value, cursor>>
  BY DEF ClaimSeq, At, Step, Local, localVars, quietVars
<1>3. local'[t].claimed = w /\ local'[t].spins = 0 /\ local' \in [Threads -> Locals]
  <2>. DEFINE new == [NoLocals EXCEPT !.claimed = w]
  <2>1. new \in Locals /\ new.claimed = w /\ new.spins = 0
    <3>. HIDE DEF w
    <3>. QED  BY ONLY <1>1 DEF NoLocals, Locals, Empty
  <2>2. local' = [local EXCEPT ![t] = new] /\ local \in [Threads -> Locals]
    BY <1>1, <1>2 DEF Types
  <2>. HIDE DEF new
  <2>. QED  BY <2>1, <2>2
<1>4. /\ pc' \in [Threads -> Steps] /\ pc'[t] = "fill"
      /\ \A u \in Threads \ {t} : pc'[u] = pc[u] /\ local'[u] = local[u]
  BY <1>1, <1>2 DEF Types, Steps
<1>5. Pending \subseteq 0 .. w - 1
  BY <1>1, PendingNumbers
<1>6. Pending' = Pending \cup {w}
  BY <1>2, <1>3, <1>4 DEF Pending
<1>7. \A n : Stamping(n)' = Stamping(n)
  BY <1>2, <1>4 DEF Stamping
<1>8. \A n \in Nat : Published(n) => Published(n)'
  BY <1>1, <1>2, <1>6 DEF Published
<1>9. \A n \in Nat : Passed(n) => Passed(n)'
  BY <1>2, <1>8 DEF Passed
<1>10. SenderMoves(t)
  BY <1>1, <1>2, <1>3, <1>4 DEF SenderMoves, Filling, Types
<1>11. /\ Types' /\ Subscribed' /\ Reads' /\ \A u \in Threads : ~Lags(u) /\ ~Returns(u)
  <2>1. /\ writeSeq' \in Nat /\ writeSeq' >= writeSeq /\ lapped \subseteq lapped'
        /\ seq' \in [0 .. Cap - 1 -> Nat] /\ value' \in [0 .. Cap - 1 -> Int]
    BY <1>1, <1>2 DEF Types
  <2>. QED  BY <1>7, <1>8, <1>9, <1>10, <2>1, SenderKeeps
<1>12. Claims'
  BY <1>1, <1>2, <1>3, <1>4 DEF Claims, Filling
<1>13. Numbers'
  <2>1. ASSUME NEW s \in 0 .. Cap - 1, seq[s] # 0
        PROVE  Published(seq[s] - 1)' /\ SlotOf(seq[s] - 1) = s
    <3>1. seq[s] - 1 \in Nat
      BY <1>1, <2>1 DEF Types
    <3>. QED  BY <1>1, <1>2, <1>8, <2>1, <3>1 DEF Numbers, Published
  <2>. QED  BY <1>2, <2>1 DEF Numbers, Published
<1>14. Laps'
  <2>1. ASSUME NEW c \in Pending', NEW n \in Nat, c < n, n < writeSeq', SlotOf(n) = SlotOf(c)
        PROVE  SlotOf(c) \in lapped'
    <3>1. c \in Pending
      BY <1>1, <1>2, <1>6, <2>1
    <3>2. CASE n < w
      BY <1>1, <1>2, <2>1, <3>1, <3>2 DEF Laps
    <3>3. CASE n = w
      BY <1>2, <2>1, <3>1, <3>3
    <3>. QED  BY <1>1, <1>2, <2>1, <3>2, <3>3
  <2>2. ASSUME NEW c \in Pending', SlotOf(c) \notin lapped'
        PROVE  seq[SlotOf(c)] = IF c < Cap THEN 0 ELSE c - Cap + 1
    <3>1. CASE c \in Pending
      BY <1>1, <1>2, <2>2, <3>1 DEF Laps
    <3>2. CASE c = w
      <4>1. SlotOf(w) \notin lapped /\ \A n \in Pending : SlotOf(n) # SlotOf(w)
        BY <1>2, <2>2, <3>2
      <4>2. SlotOf(w) \in 0 .. Cap - 1
        BY <1>1, SlotDivision
      <4>3. CASE w < Cap
        <5>1. ASSUME seq[SlotOf(w)] # 0
              PROVE  FALSE
          <6>. DEFINE n == seq[SlotOf(w)] - 1
          <6>1. n \in Nat /\ n < w /\ SlotOf(n) = SlotOf(w)
            BY <1>1, <4>2, <5>1 DEF Numbers, Published, Types
          <6>. QED  BY <1>1, <4>3, <6>1, LapApart
        <5>. QED  BY <3>2, <4>3, <5>1
      <4>4. CASE w >= Cap
        <5>. DEFINE n == w - Cap
        <5>1. n \in Nat /\ SlotOf(n) = SlotOf(w)
          BY <1>1, <4>4, NextLap
        <5>2. n \in Oldest .. w - 1
          BY <1>1, <4>4 DEF Oldest
        <5>3. n \in Pending \/ seq[SlotOf(n)] = n + 1 \/ SlotOf(n) \in lapped
          BY <1>1, <5>2 DEF PublishedStays
        <5>. QED  BY <1>1, <3>2, <4>1, <4>4, <5>1, <5>3
      <4>. QED  BY <1>1, <4>3, <4>4
    <3>. QED  BY <1>6, <3>1, <3>2
  <2>. QED  BY <1>2, <2>1, <2>2 DEF Laps
<1>15. PublishedStays'
  <2>1. ASSUME NEW n \in (Oldest .. writeSeq - 1)'
        PROVE  n \in Pending' \/ seq'[SlotOf(n)] = n + 1 \/ SlotOf(n) \in lapped'
    <3>1. n = w \/ n \in Oldest .. w - 1
      BY <1>1, <1>2, <2>1 DEF Oldest
    <3>. QED  BY <1>1, <1>2, <1>6, <3>1 DEF PublishedStays
  <2>. QED  BY <2>1 DEF PublishedStays
<1>16. Values'
  <2>1. \A u \in Threads : pc'[u] = "stamp" => pc[u] = "stamp" /\ local'[u] = local[u]
    BY <1>4
  <2>. QED  BY <1>1, <1>2, <1>7, <2>1 DEF Values
<1>17. Log!Claim
  BY <1>2, <1>6 DEF Log!Claim
<1>. QED  BY <1>11, <1>12, <1>13, <1>14, <1>15, <1>16, <1>17
          DEF BroadcastInv, StepShows, FeedStep, Log!Next

LEMMA StoreValueStep ==
  ASSUME BroadcastInv, NEW t \in Threads, StoreValue(t)
  PROVE  BroadcastInv' /\ StepShows
<1>. DEFINE c == local[t].claimed
<1>1. /\ Types /\ Claims /\ Numbers /\ Laps /\ PublishedStays /\ Values
      /\ Cap \in Nat /\ Cap > 0
  BY BroadcastAssumption DEF BroadcastInv, Types
<1>2. /\ pc[t] = "fill" /\ pc' = [pc EXCEPT ![t] = "stamp"]
      /\ value' = [value EXCEPT ![SlotOf(c)] = c]
      /\ UNCHANGED <<program, held, answer, writeSeq, seq, cursor, local, lapped>>
  BY DEF StoreValue, At, Step, localVars, quietVars
<1>3. c \in Pending /\ c \in Nat /\ c < writeSeq /\ SlotOf(c) \in 0 .. Cap - 1
  <2>1. c \in 0 .. writeSeq - 1
    BY <1>1, <1>2 DEF Claims, Filling
  <2>2. c \in Pending
    BY <1>2 DEF Pending
  <2>3. c \in Nat /\ c < writeSeq
    BY <1>1, <2>1 DEF Types
  <2>4. SlotOf(c) \in 0 .. Cap - 1
    BY <2>3, SlotDivision
  <2>. QED  BY <2>2, <2>3, <2>4
<1>4. /\ pc' \in [Threads -> Steps] /\ pc'[t] = "stamp"
      /\ \A u \in Threads \ {t} : pc'[u] = pc[u]
  BY <1>1, <1>2 DEF Types, Steps
<1>5. Pending' = Pending
  BY <1>2, <1>4 DEF Pending
<1>6. /\ \A n : Stamping(n) => Stamping(n)'
      /\ Stamping(c)'
  BY <1>2, <1>4 DEF Stamping
<1>7. \A n : Published(n)' = Published(n) /\ Passed(n)' = Passed(n)
  BY <1>2, <1>5 DEF Published, Passed
<1>8. SenderMoves(t)
  <2>1. local[t].spins = 0
    BY <1>2 DEF BroadcastInv, Reads, ReadsOf
  <2>. QED  BY <1>1, <1>2, <1>4, <2>1 DEF SenderMoves, Filling, Types
<1>9. /\ Types' /\ Subscribed' /\ Reads' /\ \A u \in Threads : ~Lags(u) /\ ~Returns(u)
  <2>1. /\ writeSeq' \in Nat /\ writeSeq' >= writeSeq /\ lapped \subseteq lapped'
        /\ seq' \in [0 .. Cap - 1 -> Nat] /\ value' \in [0 .. Cap - 1 -> Int]
    BY <1>1, <1>2, <1>3 DEF Types
  <2>. QED  BY <1>6, <1>7, <1>8, <2>1, SenderKeeps
<1>10. Claims'
  BY <1>1, <1>2, <1>4 DEF Claims, Filling
<1>11. Numbers' /\ Laps' /\ PublishedStays'
  BY <1>1, <1>2, <1>5, <1>7 DEF Numbers, Laps, PublishedStays, Oldest
<1>12. Values'
  <2>1. ASSUME NEW u \in Threads, pc'[u] = "stamp", SlotOf(local[u].claimed) \notin lapped
        PROVE  value'[SlotOf(local[u].claimed)] = local[u].claimed
    <3>. DEFINE d == local[u].claimed
    <3>1. CASE u = t
      BY <1>1, <1>2, <1>3, <3>1 DEF Types
    <3>2. CASE u # t
      <4>1. pc[u] = "stamp" /\ d \in Pending
        BY <1>4, <2>1, <3>2 DEF Pending
      <4>2. d # c /\ d \in Nat /\ d < writeSeq
        BY <1>1, <1>2, <3>2, <4>1 DEF Claims, Filling, Types
      <4>3. SlotOf(d) # SlotOf(c)
        BY <1>1, <1>3, <2>1, <4>1, <4>2 DEF Laps
      <4>4. value[SlotOf(d)] = d
        BY <1>1, <2>1, <4>1 DEF Values
      <4>5. SlotOf(d) \in 0 .. Cap - 1
        BY <4>2, SlotDivision
      <4>. QED  BY <1>1, <1>2, <4>3, <4>4, <4>5 DEF Types
    <3>. QED  BY <3>1, <3>2
  <2>2. ASSUME NEW s \in 0 .. Cap - 1
        PROVE  \/ s \in lapped \/ value'[s] = seq[s] - 1
               \/ /\ \E u \in Threads : pc'[u] = "stamp" /\ local[u].claimed = value'[s]
                  /\ SlotOf(value'[s]) = s
    <3>1. CASE s = SlotOf(c)
      <4>1. value'[s] = c
        BY <1>1, <1>2, <1>3, <3>1 DEF Types
      <4>. QED  BY <1>4, <3>1, <4>1
    <3>2. CASE s # SlotOf(c)
      <4>1. value'[s] = value[s]
        BY <1>1, <1>2, <3>2 DEF Types
      <4>2. \A u \in Threads : pc[u] = "stamp" => pc'[u] = "stamp"
        BY <1>4
      <4>. QED  BY <1>1, <4>1, <4>2 DEF Values, Stamping
    <3>. QED  BY <3>1, <3>2
  <2>. QED  BY <1>2, <2>1, <2>2 DEF Values, Stamping
<1>. QED  BY <1>2, <1>5, <1>9, <1>10, <1>11, <1>12 DEF BroadcastInv, StepShows, FeedStep

LEMMA StoreSeqStep ==
  ASSUME BroadcastInv, NEW t \in Threads, StoreSeq(t)
  PROVE  BroadcastInv' /\ StepShows
<1>. DEFINE c == local[t].claimed
<1>1. /\ Types /\ Claims /\ Numbers /\ Laps /\ PublishedStays /\ Values
      /\ Cap \in Nat /\ Cap > 0 /\ writeSeq \in Nat
  BY BroadcastAssumption DEF BroadcastInv, Types
<1>2. /\ pc[t] = "stamp" /\ pc' = [pc EXCEPT ![t] = "idle"]
      /\ answer' = [answer EXCEPT ![t] = "none"]
      /\ seq' = [seq EXCEPT ![SlotOf(c)] = c + 1]
      /\ local' = [local EXCEPT ![t] = NoLocals]
      /\ UNCHANGED <<program, held, writeSeq, value, cursor, lapped>>
  BY DEF StoreSeq, At, Finish, Local, quietVars
<1>3. c \in Pending /\ c \in Nat /\ c < writeSeq /\ SlotOf(c) \in 0 .. Cap - 1
  <2>1. c \in 0 .. writeSeq - 1
    BY <1>1, <1>2 DEF Claims, Filling
  <2>2. c \in Pending
    BY <1>2 DEF Pending
  <2>3. c \in Nat /\ c < writeSeq
    BY <1>1, <2>1 DEF Types
  <2>4. SlotOf(c) \in 0 .. Cap - 1
    BY <2>3, SlotDivision
  <2>. QED  BY <2>2, <2>3, <2>4
<1>4. /\ pc' \in [Threads -> Steps] /\ pc'[t] = "idle"
      /\ \A u \in Threads \ {t} : pc'[u] = pc[u] /\ local'[u] = local[u]
  BY <1>1, <1>2 DEF Types, Steps
<1>5. Pending' = Pending \ {c}
  BY <1>1, <1>2, <1>4 DEF Pending, Claims, Filling
<1>6. /\ seq' \in [0 .. Cap - 1 -> Nat] /\ seq'[SlotOf(c)] = c + 1
      /\ \A s \in 0 .. Cap - 1 : s # SlotOf(c) => seq'[s] = seq[s]
  BY <1>1, <1>2, <1>3 DEF Types
<1>7. \A n \in Nat : Published(n) => Published(n)'
  BY <1>2, <1>5 DEF Published
<1>8. \A n \in Nat : Passed(n) => Passed(n)'
  <2>1. ASSUME NEW n \in Nat, Passed(n)
        PROVE  seq'[SlotOf(n)] # n + 1
    <3>1. n # c /\ SlotOf(n) \in 0 .. Cap - 1
      BY <1>3, <2>1, SlotDivision DEF Passed, Published
    <3>. QED  BY <1>3, <1>6, <2>1, <3>1 DEF Passed
  <2>. QED  BY <1>7, <2>1 DEF Passed
<1>9. ASSUME NEW n \in Nat, Published(n), Stamping(n + Cap)
      PROVE  Stamping(n + Cap)' \/ Passed(n)'
  <2>1. CASE n + Cap = c
    <3>1. SlotOf(n) = SlotOf(c)
      BY <1>1, <1>3, <2>1, NextLap
    <3>2. seq'[SlotOf(n)] # n + 1
      BY <1>1, <1>6, <2>1, <3>1
    <3>. QED  BY <1>7, <1>9, <3>2 DEF Passed
  <2>2. CASE n + Cap # c
    <3>1. PICK u \in Threads : pc[u] = "stamp" /\ local[u].claimed = n + Cap
      BY <1>9 DEF Stamping
    <3>. QED  BY <1>4, <2>2, <3>1 DEF Stamping
  <2>. QED  BY <2>1, <2>2
<1>10. SenderMoves(t)
  <2>1. NoLocals \in Locals /\ NoLocals.spins = 0
    BY DEF NoLocals, Locals, Empty
  <2>. QED  BY <1>1, <1>2, <1>4, <2>1 DEF SenderMoves, Filling, Types, Replies
<1>11. /\ Types' /\ Subscribed' /\ Reads' /\ \A u \in Threads : ~Lags(u) /\ ~Returns(u)
  <2>1. /\ writeSeq' \in Nat /\ writeSeq' >= writeSeq /\ lapped \subseteq lapped'
        /\ value' \in [0 .. Cap - 1 -> Int]
    BY <1>1, <1>2 DEF Types
  <2>. QED  BY <1>6, <1>7, <1>8, <1>9, <1>10, <2>1, SenderKeeps
<1>12. Claims'
  BY <1>1, <1>2, <1>4 DEF Claims, Filling
<1>13. Numbers'
  <2>1. ASSUME NEW s \in 0 .. Cap - 1, seq'[s] # 0
        PROVE  /\ seq'[s] - 1 \in 0 .. writeSeq - 1 /\ seq'[s] - 1 \notin Pending'
               /\ SlotOf(seq'[s] - 1) = s
    <3>1. CASE s = SlotOf(c)
      <4>1. seq'[s] - 1 = c
        BY <1>3, <1>6, <3>1
      <4>2. c \in 0 .. writeSeq - 1 /\ c \notin Pending'
        BY <1>1, <1>3, <1>5
      <4>. QED  BY <3>1, <4>1, <4>2
    <3>2. CASE s # SlotOf(c)
      <4>1. seq'[s] = seq[s] /\ seq[s] - 1 \in Nat
        BY <1>1, <1>6, <2>1, <3>2 DEF Types
      <4>. QED  BY <1>1, <1>5, <2>1, <4>1 DEF Numbers, Published
    <3>. QED  BY <3>1, <3>2
  <2>. QED  BY <1>2, <2>1 DEF Numbers, Published
<1>14. Laps'
  <2>1. ASSUME NEW d \in Pending', SlotOf(d) \notin lapped
        PROVE  seq'[SlotOf(d)] = IF d < Cap THEN 0 ELSE d - Cap + 1
    <3>1. d \in Pending /\ d # c /\ d \in Nat /\ d < writeSeq
      BY <1>1, <1>5, PendingNumbers
    <3>2. SlotOf(d) # SlotOf(c)
      BY <1>1, <1>3, <2>1, <3>1 DEF Laps
    <3>3. SlotOf(d) \in 0 .. Cap - 1
      BY <3>1, SlotDivision
    <3>. QED  BY <1>1, <1>6, <2>1, <3>1, <3>2, <3>3 DEF Laps
  <2>. QED  BY <1>1, <1>2, <1>5, <2>1 DEF Laps
<1>15. PublishedStays'
  <2>1. ASSUME NEW n \in Oldest .. writeSeq - 1
        PROVE  n \in Pending' \/ seq'[SlotOf(n)] = n + 1 \/ SlotOf(n) \in lapped
    <3>1. n \in Nat /\ n < writeSeq /\ SlotOf(n) \in 0 .. Cap - 1
      <4>1. n \in Nat /\ n < writeSeq
        BY <1>1 DEF Oldest
      <4>. QED  BY <4>1, SlotDivision
    <3>2. CASE SlotOf(n) # SlotOf(c)
      BY <1>1, <1>5, <1>6, <3>1, <3>2 DEF PublishedStays
    <3>3. CASE n = c
      BY <1>6, <3>3
    <3>4. CASE SlotOf(n) = SlotOf(c) /\ n > c
      BY <1>1, <1>3, <3>1, <3>4 DEF Laps
    <3>5. CASE SlotOf(n) = SlotOf(c) /\ n < c
      <4>1. c >= n + Cap
        BY <1>3, <3>1, <3>5, LapApart
      <4>. QED  BY <1>1, <1>3, <3>1, <4>1 DEF Oldest
    <3>. QED  BY <1>3, <3>1, <3>2, <3>3, <3>4, <3>5
  <2>. QED  BY <1>2, <2>1 DEF PublishedStays, Oldest
<1>16. Values'
  <2>1. ASSUME NEW s \in 0 .. Cap - 1
        PROVE  \/ s \in lapped \/ value[s] = seq'[s] - 1
               \/ Stamping(value[s])' /\ SlotOf(value[s]) = s
    <3>1. CASE s = SlotOf(c)
      BY <1>1, <1>2, <1>3, <1>6, <3>1 DEF Values
    <3>2. CASE s # SlotOf(c) /\ Stamping(value[s]) /\ SlotOf(value[s]) = s
      <4>1. PICK u \in Threads : pc[u] = "stamp" /\ local[u].claimed = value[s]
        BY <3>2 DEF Stamping
      <4>. QED  BY <1>2, <1>4, <3>2, <4>1 DEF Stamping
    <3>3. CASE s # SlotOf(c) /\ value[s] = seq[s] - 1
      BY <1>6, <3>3
    <3>. QED  BY <1>1, <3>1, <3>2, <3>3 DEF Values
  <2>2. \A u \in Threads : pc'[u] = "stamp" => pc[u] = "stamp" /\ local'[u] = local[u]
    BY <1>4
  <2>. QED  BY <1>1, <1>2, <2>1, <2>2 DEF Values, Stamping
<1>17. Log!Publish(c)
  BY <1>2, <1>3, <1>5 DEF Log!Publish
<1>. QED  BY <1>3, <1>11, <1>12, <1>13, <1>14, <1>15, <1>16, <1>17
          DEF BroadcastInv, StepShows, FeedStep, Log!Next

-----------------------------------------------------------------------------
(* Handles: a drop gives one up, a clone begins a thread, with a cursor at  *)
(* the end of the log if it has a receiver.                                 *)
LEMMA DropStep ==
  ASSUME BroadcastInv, NEW t \in Threads, DropSender(t) \/ DropReceiver(t),
         UNCHANGED broadcastVars
  PROVE  BroadcastInv' /\ StepShows
<1>1. /\ held' \in [Threads -> SUBSET {"send", "recv"}]
      /\ \A u \in Threads : held'[u] \subseteq held[u]
      /\ UNCHANGED <<program, pc, answer, cursor, local, channelVars>>
  BY DEF BroadcastInv, Types, DropSender, DropReceiver, DropHandle, MayDrop, broadcastVars,
         channelVars
<1>2. Types' /\ Subscribed'
  BY <1>1 DEF BroadcastInv, Types, Subscribed, channelVars
<1>3. pc[t] = "idle"
  BY DEF DropSender, DropReceiver, DropHandle, MayDrop, At
<1>4. Elsewhere(t)
  BY <1>1, <1>3 DEF Elsewhere, Filling
<1>5. Reads'
  BY <1>1, <1>4, ElsewhereKeeps DEF BroadcastInv, Reads, ReadsOf, channelVars
<1>6. \A u \in Threads : ~Lags(u) /\ ~Returns(u)
  BY <1>1 DEF Lags, Returns
<1>. QED  BY <1>1, <1>2, <1>4, <1>5, <1>6, ElsewhereKeeps
          DEF BroadcastInv, SlotInv, StepShows, FeedStep, channelVars

LEMMA SubscribeStep ==
  ASSUME BroadcastInv, NEW t \in Threads, NEW u \in Threads, Subscribe(t, u)
  PROVE  BroadcastInv' /\ StepShows
<1>. DEFINE side == program.offspring[u]
            place == IF side = "recv" THEN writeSeq ELSE Away
<1>1. /\ pc[u] = "unborn" /\ pc' = [pc EXCEPT ![u] = "idle"]
      /\ held' = [held EXCEPT ![u] = {side}] /\ cursor' = [cursor EXCEPT ![u] = place]
      /\ side \in held[t]
      /\ UNCHANGED <<program, answer, local, channelVars>>
  BY DEF Subscribe, CloneHandle, Step, At, channelVars
<1>2. Types /\ Subscribed /\ Reads /\ writeSeq \in Nat /\ side \in {"send", "recv"}
  BY <1>1 DEF BroadcastInv, Types
<1>3. Types'
  <2>1. place \in Int
    BY <1>2 DEF Away
  <2>. QED  BY <1>1, <1>2, <2>1 DEF Types, Steps, channelVars
<1>4. /\ pc'[u] = "idle" /\ cursor'[u] = place /\ held'[u] = {side}
      /\ \A v \in Threads \ {u} : pc'[v] = pc[v] /\ cursor'[v] = cursor[v] /\ held'[v] = held[v]
  BY <1>1, <1>2 DEF Types
<1>5. Subscribed'
  <2>1. "recv" \in held'[u] => cursor'[u] >= 0
    BY <1>2, <1>4
  <2>. QED  BY <1>2, <1>4, <2>1 DEF Subscribed, Outside
<1>6. Elsewhere(u)
  BY <1>1, <1>4 DEF Elsewhere, Filling
<1>7. local[u].spins = 0
  BY <1>1, <1>2 DEF Reads, ReadsOf
<1>8. ASSUME NEW v \in Threads
      PROVE  ReadsOf(v)'
  <2>1. CASE v = u
    BY <1>1, <1>4, <1>7, <2>1 DEF ReadsOf
  <2>2. CASE v # u
    <3>1. pc'[v] = pc[v] /\ cursor'[v] = cursor[v] /\ local' = local /\ ReadsOf(v)
      BY <1>1, <1>2, <1>4, <2>2 DEF Reads
    <3>. QED  BY <1>1, <1>6, <3>1, ElsewhereKeeps DEF ReadsOf, channelVars
  <2>. QED  BY <2>1, <2>2
<1>9. \A v \in Threads : ~Lags(v) /\ ~Returns(v)
  BY <1>1, <1>2 DEF Lags, Returns, Types
<1>10. Pending' = Pending /\ SlotInv'
  BY <1>6, ElsewhereKeeps
<1>11. FeedStep
  <2>1. CASE side = "recv"
    <3>1. cursor[u] = -1
      BY <1>1, <1>2 DEF Subscribed, Away
    <3>2. Log!Join(u)
      BY <1>1, <1>10, <2>1, <3>1 DEF Log!Join, Log!Move, Log!Away, channelVars
    <3>. QED  BY <3>2 DEF FeedStep, Log!Next
  <2>2. CASE side = "send"
    <3>1. cursor' = cursor
      BY <1>1, <1>2, <2>2 DEF Subscribed, Types
    <3>. QED  BY <1>1, <1>10, <3>1 DEF FeedStep, channelVars
  <2>. QED  BY <1>2, <2>1, <2>2
<1>. QED  BY <1>3, <1>5, <1>8, <1>9, <1>10, <1>11 DEF BroadcastInv, SlotInv, Reads, StepShows

LEMMA UnchangedStep ==
  ASSUME BroadcastInv, UNCHANGED coreVars
  PROVE  BroadcastInv' /\ StepShows
<1>1. Pending' = Pending
  BY DEF Pending, coreVars
<1>2. Types' /\ Subscribed' /\ Claims'
  BY DEF BroadcastInv, Types, Subscribed, Claims, coreVars, channelVars
<1>3. Numbers' /\ Laps' /\ PublishedStays'
  BY <1>1 DEF BroadcastInv, Numbers, Published, Laps, PublishedStays, Oldest, coreVars, channelVars
<1>4. Values' /\ Reads'
  BY <1>1 DEF BroadcastInv, Values, Stamping, Reads, ReadsOf, Passed, Published, coreVars,
              channelVars
<1>5. StepShows
  BY <1>1 DEF StepShows, FeedStep, Lags, Returns, coreVars, channelVars
<1>. QED  BY <1>2, <1>3, <1>4, <1>5 DEF BroadcastInv

LEMMA BroadcastInitial == ASSUME Init PROVE BroadcastInv /\ Log!Init
<1>. USE DEF Init, EndpointInit, BroadcastInit
<1>1. /\ program.handles \in [Threads -> SUBSET {"send", "recv"}]
      /\ \A t \in Threads : program.offspring[t] # NoHandle => program.handles[t] = {}
  BY ProgramAssumption
<1>2. \A t \in Threads : pc[t] \in {"idle", "unborn"}
  OBVIOUS
<1>3. \A t \in Threads : local[t] = NoLocals /\ NoLocals \in Locals /\ NoLocals.spins = 0
  BY DEF NoLocals, Locals, Empty
<1>4. Pending = {}
  BY <1>2 DEF Pending
<1>5. Types
  BY <1>1, <1>2, <1>3 DEF Types, Steps, Replies, Empty, Away
<1>6. Subscribed
  BY <1>1, <1>2 DEF Subscribed, Outside, Away
<1>7. Claims
  BY <1>2 DEF Claims, Filling
<1>8. Numbers /\ Laps
  BY <1>4 DEF Numbers, Laps
<1>9. PublishedStays
  BY BroadcastAssumption DEF PublishedStays, Oldest
<1>10. Values
  BY <1>2 DEF Values, Empty
<1>11. Reads
  BY <1>2, <1>3 DEF Reads, ReadsOf
<1>12. Log!Init
  BY <1>4 DEF Log!Init, Log!Away, Away
<1>. QED  BY <1>5, <1>6, <1>7, <1>8, <1>9, <1>10, <1>11, <1>12 DEF BroadcastInv

LEMMA BroadcastInductive ==
  ASSUME BroadcastInv, [Next]_vars
  PROVE  BroadcastInv' /\ StepShows
<1>1. CASE UNCHANGED vars
  BY <1>1, UnchangedStep DEF vars, endVars, broadcastVars, coreVars, channelVars
<1>2. ASSUME NEW t \in Threads, QuietCall(t) \/ QuietWait(t)
      PROVE  BroadcastInv' /\ StepShows
  BY <1>2, CallsAreQuiet, WaitsAreQuiet, QuietStep DEF BroadcastInv
<1>3. ASSUME NEW t \in Threads, BroadcastStep(t)
      PROVE  BroadcastInv' /\ StepShows
  <2>1. CASE WakeStep(t) /\ UNCHANGED endVars /\ UNCHANGED broadcastVars
    BY <2>1, UnchangedStep DEF endVars, broadcastVars, coreVars, channelVars
  <2>2. CASE QuietCall(t) \/ QuietWait(t)
    BY <1>2, <2>2
  <2>3. CASE ClaimSeq(t) \/ StoreValue(t) \/ StoreSeq(t)
    BY <2>3, ClaimSeqStep, StoreValueStep, StoreSeqStep
  <2>4. CASE LoadWriteSeq(t) \/ CatchUp(t) \/ LoadSeqAfter(t)
    BY <2>4, LoadWriteSeqStep, CatchUpStep, LoadSeqAfterStep
  <2>5. CASE CountSenders(t) \/ LoadSeqBefore(t) \/ LoadValue(t) \/ ReturnMessage(t)
    BY <2>5, LookStep
  <2>. QED  BY <1>3, <2>1, <2>2, <2>3, <2>4, <2>5 DEF BroadcastStep, QuietCall, QuietWait
<1>4. ASSUME NEW t \in Threads, BroadcastChance(t)
      PROVE  BroadcastInv' /\ StepShows
  <2>1. CASE SendCall(t) \/ RecvCall(t) \/ SelectBegins(t)
    BY <1>2, <2>1 DEF QuietCall
  <2>2. CASE \E u \in Threads : Subscribe(t, u)
    BY <2>2, SubscribeStep
  <2>3. CASE (DropSender(t) \/ DropReceiver(t)) /\ UNCHANGED broadcastVars
    BY <2>3, DropStep
  <2>4. CASE (DeadlinePasses(t) \/ Spurious(t)) /\ UNCHANGED broadcastVars
    BY <2>4, UnchangedStep DEF DeadlinePasses, Spurious, broadcastVars, coreVars, channelVars
  <2>. QED  BY <1>4, <2>1, <2>2, <2>3, <2>4 DEF BroadcastChance
<1>5. CASE Over
  BY <1>5, <1>1 DEF Over
<1>. QED  BY <1>1, <1>3, <1>4, <1>5 DEF Next

-----------------------------------------------------------------------------
(* What the theorems rest on, in every reachable state.                     *)
THEOREM BroadcastInvariant == Spec => []BroadcastInv
BY BroadcastInitial, BroadcastInductive, PTL DEF Spec

(* A published message can be found until the next lap, unless a sender was *)
(* overtaken at its slot.                                                   *)
THEOREM BroadcastPublishedStays == Spec => []PublishedStays
<1>1. BroadcastInv => PublishedStays
  BY DEF BroadcastInv
<1>. QED  BY <1>1, BroadcastInvariant, PTL

(* Every receiver reads the log in order, from where it joined, and leaves  *)
(* out only what has fallen out of the window.                              *)
THEOREM BroadcastIsFeed == Spec => IsFeed
<1>1. Init => Log!Init
  BY BroadcastInitial
<1>2. BroadcastInv /\ [Next]_vars => [Log!Next]_<<writeSeq, Pending, cursor>>
  BY BroadcastInductive DEF StepShows, FeedStep
<1>. QED  BY <1>1, <1>2, BroadcastInvariant, PTL DEF Spec, IsFeed, Log!Spec

(* A receive returns the message at its cursor, except where the value of   *)
(* the next lap is being stored over it or a sender was overtaken.          *)
THEOREM BroadcastDelivers == Spec => DeliversItsMessage
<1>1. BroadcastInv /\ [Next]_vars =>
        [\A t \in Threads : Returns(t) =>
           \/ local[t].snapshot = cursor[t]
           \/ local[t].snapshot = cursor[t] + Cap /\ Overwriting(cursor[t] + Cap)
           \/ SlotOf(cursor[t]) \in lapped]_vars
  BY BroadcastInductive DEF StepShows, DeliveryHolds
<1>. QED  BY <1>1, BroadcastInvariant, PTL DEF Spec, DeliversItsMessage

(* The number in Lagged is how far the cursor jumps, and it jumps to a      *)
(* message that has been claimed.                                           *)
THEOREM BroadcastLagIsExact == Spec => LagIsExact
<1>1. BroadcastInv /\ [Next]_vars =>
        [\A t \in Threads : pc[t] # "return" /\ pc'[t] = "return" /\ answer'[t] = "lagged" =>
           local'[t].skipped = cursor'[t] - cursor[t] /\ cursor'[t] < writeSeq]_vars
  BY BroadcastInductive DEF StepShows, Lags, LagHolds
<1>. QED  BY <1>1, BroadcastInvariant, PTL DEF Spec, LagIsExact

-----------------------------------------------------------------------------
(* Wake-ups.  A receive that finds nothing is told of a message published   *)
(* since, from the look at write_seq after its registration on, and of the  *)
(* drop of the last sender, unless its message is buried.  A select call    *)
(* goes to sleep with its node where the next waker finds it.               *)
Sending == {"check", "claim", "fill", "stamp"}

Attends(u) ==
  /\ cursor[u] <= writeSeq
  /\ pc[u] \in Sending => "send" \in held[u]
  /\ pc[u] = "park" => Registered(u)
  /\ Registered(u) /\ pc[u] \in {"count", "park"} /\ seq[SlotOf(cursor[u])] > cursor[u]
       => Woken(u, "recv")
  /\ pc[u] = "park" /\ Senders = {} => Woken(u, "recv") \/ Buried(cursor[u])

Watches(u) ==
  /\ pc[u] = "probe" => op[u] = "select_recv"
  /\ Armed(u) /\ pc[u] = "probe" => Live(ArmNode(u), "recv") \/ Ready(u) \/ Senders = {}
  /\ Armed(u) /\ pc[u] = "probe_more" =>
       \/ Senders = {}
       \/ Live(ArmNode(u), "recv") /\ (Published(tail[u]) => Roused(ArmNode(u), "recv"))
  /\ pc[u] = "sleep" \/ (pc[u] = "decide" /\ Won(u) = Unselected) =>
       /\ Live(ArmNode(u), "recv")
       /\ Published(tail[u]) \/ Senders = {} => Roused(ArmNode(u), "recv")

WakeInvariant ==
  /\ EndInv /\ Drained /\ tail \in [Threads -> Int]
  /\ \A u \in Threads : Attends(u) /\ Watches(u)

(* What a step of a thread other than u does to u's obligations.            *)
Same ==
  /\ seq' = seq /\ (Senders' = {} => Senders = {})
  /\ \A n \in Int : Published(n)' => Published(n)

Forward ==
  /\ writeSeq' \in Nat /\ writeSeq <= writeSeq'
  /\ \A n \in Int : Published(n) => Published(n)'
  /\ Senders = {} => Senders' = {} /\ Pending' = Pending /\ UNCHANGED <<writeSeq, seq>>

LEMMA Onlooker ==
  ASSUME Types, tail \in [Threads -> Int], Forward, Same \/ News, NEW u \in Threads,
         Attends(u), Watches(u), Keeps(u),
         pc'[u] = pc[u], arm'[u].turn = arm[u].turn, cursor'[u] = cursor[u], tail'[u] = tail[u],
         held'[u] = held[u], op'[u] = op[u]
  PROVE  Attends(u)' /\ Watches(u)'
<1>1. Armed(u)' = Armed(u)
  BY DEF Armed
<1>2. Attends(u)'
  <2>1. /\ cursor'[u] <= writeSeq'
        /\ pc'[u] \in Sending => "send" \in held'[u]
        /\ pc'[u] = "park" => Registered(u)'
    BY DEF Attends, Keeps, Forward, Types
  <2>2. CASE News
    BY <2>1, <2>2, NewsReaches DEF Attends
  <2>3. CASE Same
    <3>1. SlotOf(cursor[u])' = SlotOf(cursor[u])
      BY DEF SlotOf
    <3>2. Senders = {} => Buried(cursor[u])' = Buried(cursor[u])
      BY <3>1 DEF Forward, Buried
    <3>. QED BY <2>1, <2>3, <3>1, <3>2 DEF Attends, Keeps, Same
  <2>. QED BY <2>2, <2>3
<1>. DEFINE live == Live(ArmNode(u), "recv")
            rous == Roused(ArmNode(u), "recv")
            pubd == Published(tail[u])
<1>3. Armed(u) => /\ live => live'
                  /\ live /\ (rous \/ News) => rous'
                  /\ Won(u)' = Unselected => Won(u) = Unselected
  <2>1. News => rous'
    <3>. SUFFICES ASSUME News PROVE rous'
      OBVIOUS
    <3>1. PICK m : m = ArmNode(u)'
      OBVIOUS
    <3>2. Roused(m, "recv")'
      BY NewsReaches
    <3>. QED BY <3>1, <3>2
  <2>. QED BY <2>1 DEF Keeps
<1>4. /\ Senders = {} => Senders' = {}
      /\ Ready(u) => Ready(u)'
      /\ Same => (pubd' => pubd) /\ (Senders' = {} => Senders = {})
  <2>1. pubd' = Published(tail[u])'
    OBVIOUS
  <2>2. PICK n \in Int : n = tail[u] /\ n = tail'[u]
    OBVIOUS
  <2>3. pubd = Published(n) /\ pubd' = Published(n)'
    BY <2>2 DEF Published
  <2>. QED BY <2>2, <2>3 DEF Forward, Same, Ready, Types
<1>5. pc[u] \in {"sleep", "decide"} => Armed(u)
  BY DEF Armed
<1>. HIDE DEF live, rous, pubd
<1>6. /\ Armed(u) /\ pc[u] = "probe" => live \/ Ready(u) \/ Senders = {}
      /\ Armed(u) /\ pc[u] = "probe_more" => Senders = {} \/ (live /\ (pubd => rous))
      /\ pc[u] = "sleep" \/ (pc[u] = "decide" /\ Won(u) = Unselected) =>
           live /\ (pubd \/ Senders = {} => rous)
  BY DEF Watches, live, rous, pubd
<1>7. /\ Armed(u)' /\ pc'[u] = "probe" => live' \/ Ready(u)' \/ Senders' = {}
      /\ Armed(u)' /\ pc'[u] = "probe_more" => Senders' = {} \/ (live' /\ (pubd' => rous'))
      /\ pc'[u] = "sleep" \/ (pc'[u] = "decide" /\ Won(u)' = Unselected) =>
           live' /\ (pubd' \/ Senders' = {} => rous')
  BY <1>1, <1>3, <1>4, <1>5, <1>6
<1>. QED BY <1>2, <1>7 DEF Watches, live, rous, pubd

(* What is shown of every step of a thread t that is not one of a wake call *)
(* and leaves the handles alone.                                            *)
Frame(t) ==
  /\ tail' \in [Threads -> Int]
  /\ \A u \in Threads \ {t} : cursor'[u] = cursor[u] /\ tail'[u] = tail[u]
  /\ Forward /\ (Same \/ News)

Moves(t) == Harmless(t) /\ Attends(t)' /\ Watches(t)' /\ Frame(t)

LEMMA Uninvolved ==
  ASSUME NEW t, pc'[t] \notin Sending \cup {"count", "park", "probe"}, ~Armed(t)', cursor'[t] <= writeSeq'
  PROVE  Attends(t)' /\ Watches(t)'
BY DEF Attends, Watches, Armed

LEMMA FrameStays ==
  ASSUME Types, NEW t \in Threads, UNCHANGED <<writeSeq, seq, held>>, Pending' = Pending,
         tail' \in [Threads -> Int],
         \A u \in Threads \ {t} : cursor'[u] = cursor[u] /\ tail'[u] = tail[u]
  PROVE  Frame(t)
<1>1. \A n \in Int : Published(n)' = Published(n)
  BY DEF Published
<1>2. Senders' = Senders
  BY DEF Senders
<1>. QED BY <1>1, <1>2 DEF Frame, Forward, Same, Types

(* Outside select_impl.                                                     *)
LEMMA ApartStep ==
  ASSUME WakeInvariant, NEW t \in Threads, EndTypes', Mild(t), UNCHANGED <<held, arm>>,
         pc[t] \notin SelectSteps, pc'[t] \notin SelectSteps \cup {"unborn"},
         op'[t] = op[t] \/ op'[t] # "select_recv", pc'[t] = "idle" => op'[t] = "none",
         \A u \in Threads : calls'[u] = calls[u] \/ calls'[u] \in Announcements
  PROVE  Harmless(t) /\ ~Armed(t)'
BY ApartArm DEF WakeInvariant, Harmless

(* The steps that leave the lists, the stacks and the calls alone.          *)
Looks(t) ==
  \/ LoadWriteSeq(t) \/ CountSenders(t) \/ LoadSeqBefore(t) \/ CatchUp(t)
  \/ LoadValue(t) \/ LoadSeqAfter(t)

Plainly(t) == Looks(t) \/ SendCall(t) \/ Check(t) \/ StoreValue(t) \/ RecvCall(t) \/ Complete(t)

LEMMA PlainlyHarmless ==
  ASSUME WakeInvariant, Types, NEW t \in Threads, Plainly(t)
  PROVE  /\ Harmless(t) /\ ~Armed(t)' /\ Keeps(t) /\ pc'[t] \notin SelectSteps
         /\ tail' \in [Threads -> Int] /\ UNCHANGED <<writeSeq, seq, held>>
         /\ \A u \in Threads \ {t} : cursor'[u] = cursor[u] /\ tail'[u] = tail[u]
<1>1. /\ EndTypes /\ ArmOf(t) /\ DOMAIN pc = Threads /\ DOMAIN op = Threads
      /\ cursor \in [Threads -> Int] /\ tail \in [Threads -> Int] /\ writeSeq \in Nat
  BY DEF WakeInvariant, EndInv, EndTypes, Types
<1>2. Cap \in Nat \ {0} /\ Oldest \in Int /\ Away \in Int
  BY <1>1, BroadcastAssumption DEF Oldest, Away
<1>. DEFINE Done == /\ Alone(t) /\ UNCHANGED localVars /\ UNCHANGED <<writeSeq, seq>>
                    /\ pc[t] \notin SelectSteps /\ pc'[t] \notin SelectSteps \cup {"unborn"}
                    /\ op'[t] = op[t] \/ op'[t] # "select_recv"
                    /\ pc'[t] = "idle" => op'[t] = "none"
                    /\ tail' \in [Threads -> Int]
                    /\ \A u \in Threads \ {t} : cursor'[u] = cursor[u] /\ tail'[u] = tail[u]
<1>. USE <1>1, <1>2 DEF Alone, SelectSteps, At, Step, Answer, Finish, Lag, Nothing, NothingYet,
                        Disconnected
<1>3. Done
  <2>1. CASE LoadWriteSeq(t)
    BY <2>1 DEF LoadWriteSeq
  <2>2. CASE CountSenders(t)
    BY <2>2 DEF CountSenders
  <2>3. CASE LoadSeqBefore(t)
    BY <2>3 DEF LoadSeqBefore
  <2>4. CASE CatchUp(t)
    BY <2>4 DEF CatchUp
  <2>5. CASE LoadValue(t)
    BY <2>5 DEF LoadValue
  <2>6. CASE LoadSeqAfter(t)
    BY <2>6 DEF LoadSeqAfter
  <2>7. CASE SendCall(t)
    BY <2>7 DEF SendCall, Call, broadcastVars
  <2>8. CASE Check(t)
    BY <2>8 DEF Check, CheckReceivers, broadcastVars
  <2>9. CASE StoreValue(t)
    BY <2>9 DEF StoreValue
  <2>10. CASE RecvCall(t)
    BY <2>10 DEF RecvCall, Call, broadcastVars
  <2>11. CASE Complete(t)
    BY <2>11 DEF Complete, CompleteBy
  <2>. QED BY <2>1, <2>2, <2>3, <2>4, <2>5, <2>6, <2>7, <2>8, <2>9, <2>10, <2>11
           DEF Plainly, Looks
<1>4. EndTypes' /\ Mild(t) /\ Steady(t)
  BY <1>3, PlainStep
<1>5. UNCHANGED <<held, calls, arm>>
  BY <1>3 DEF localVars, quietVars
<1>6. Harmless(t) /\ ~Armed(t)'
  BY <1>3, <1>4, <1>5, ApartStep
<1>7. Keeps(t)
  BY <1>1, <1>4, SteadyKeeps DEF Mild
<1>. QED BY <1>3, <1>5, <1>6, <1>7

LEMMA LookCursor ==
  ASSUME BroadcastInv, WakeInvariant, NEW t \in Threads, Looks(t)
  PROVE  cursor'[t] <= writeSeq' /\ Pending' = Pending /\ UNCHANGED channelVars
<1>1. /\ Types /\ ReadsOf(t) /\ cursor[t] <= writeSeq /\ DOMAIN cursor = Threads
      /\ cursor[t] \in Int /\ writeSeq \in Nat /\ Cap \in Nat \ {0} /\ pc \in [Threads -> Steps]
  BY BroadcastAssumption DEF BroadcastInv, Types, Reads, WakeInvariant, Attends
<1>2. Oldest \in Int /\ Oldest <= writeSeq
  BY <1>1 DEF Oldest
<1>3. pc[t] \notin Filling /\ pc'[t] \notin Filling /\ \A u \in Threads \ {t} : pc'[u] = pc[u]
  BY <1>1 DEF Looks, LoadWriteSeq, CountSenders, LoadSeqBefore, CatchUp, LoadValue, LoadSeqAfter,
              At, Step, Answer, Lag, Nothing, NothingYet, Disconnected, Filling
<1>4. \A u \in Threads \ {t} : local'[u] = local[u]
  BY <1>1 DEF Types, Looks, LoadWriteSeq, CountSenders, LoadSeqBefore, CatchUp, LoadValue,
              LoadSeqAfter, Local, Lag, NothingYet, Disconnected
<1>5. Pending' = Pending
  BY <1>3, <1>4 DEF Pending, Filling
<1>6. UNCHANGED channelVars
  BY DEF Looks, LoadWriteSeq, CountSenders, LoadSeqBefore, CatchUp, LoadValue, LoadSeqAfter,
         channelVars
<1>7. cursor'[t] \in {cursor[t], Oldest} \/ (cursor'[t] = cursor[t] + 1 /\ pc[t] = "after")
  BY <1>1 DEF Looks, LoadWriteSeq, CountSenders, LoadSeqBefore, CatchUp, LoadValue, LoadSeqAfter,
              Lag, At
<1>8. pc[t] = "after" => cursor[t] < writeSeq
  BY <1>1 DEF ReadsOf, Published
<1>. QED BY <1>1, <1>2, <1>5, <1>6, <1>7, <1>8 DEF channelVars

(* What a slot holds when the channel has nothing more for a receiver.      *)
LEMMA EndOfLog ==
  ASSUME BroadcastInv
  PROVE  seq[SlotOf(writeSeq)] <= writeSeq
<1>1. SlotOf(writeSeq) \in 0 .. Cap - 1 /\ writeSeq \in Nat
  BY SlotDivision DEF BroadcastInv, Types
<1>2. seq[SlotOf(writeSeq)] \in Nat
  BY <1>1 DEF BroadcastInv, Types
<1>3. seq[SlotOf(writeSeq)] # 0 => seq[SlotOf(writeSeq)] - 1 \in 0 .. writeSeq - 1
  BY <1>1 DEF BroadcastInv, Numbers, Published
<1>. QED BY <1>1, <1>2, <1>3

LEMMA LooksMove ==
  ASSUME BroadcastInv, WakeInvariant, NEW t \in Threads, Looks(t)
  PROVE  Moves(t)
<1>1. /\ Types /\ Attends(t) /\ pc \in [Threads -> Steps] /\ cursor \in [Threads -> Int]
      /\ writeSeq \in Nat /\ Pending \subseteq 0 .. writeSeq - 1
  BY PendingNumbers DEF BroadcastInv, WakeInvariant, Types
<1>2. /\ Harmless(t) /\ ~Armed(t)' /\ Keeps(t) /\ pc'[t] \notin SelectSteps
      /\ tail' \in [Threads -> Int] /\ UNCHANGED <<writeSeq, seq, held>>
      /\ \A u \in Threads \ {t} : cursor'[u] = cursor[u] /\ tail'[u] = tail[u]
  BY <1>1, PlainlyHarmless DEF Plainly
<1>3. cursor'[t] <= writeSeq' /\ Pending' = Pending
  BY LookCursor
<1>4. Frame(t)
  BY <1>1, <1>2, <1>3, FrameStays
<1>5. pc'[t] \notin Sending
  BY <1>1 DEF Looks, LoadWriteSeq, CountSenders, LoadSeqBefore, CatchUp, LoadValue, LoadSeqAfter,
              At, Step, Answer, Lag, Nothing, NothingYet, Disconnected, Sending
<1>6. CASE pc'[t] \notin {"count", "park"}
  BY <1>2, <1>3, <1>4, <1>5, <1>6, Uninvolved DEF Moves, SelectSteps
<1>7. Watches(t)'
  BY <1>2 DEF Watches, Armed, SelectSteps
<1>8. CASE pc'[t] = "count"
  <2>1. cursor'[t] = writeSeq' /\ UNCHANGED cursor
    BY <1>1, <1>8 DEF Looks, LoadWriteSeq, CountSenders, LoadSeqBefore, CatchUp, LoadValue,
              LoadSeqAfter, At, Step, Answer, Lag, Nothing, NothingYet, Disconnected
  <2>2. seq[SlotOf(cursor[t])] <= cursor[t]
    BY <1>2, <2>1, EndOfLog
  <2>3. seq'[SlotOf(cursor[t])'] <= cursor'[t]
    BY <1>2, <2>1, <2>2 DEF SlotOf
  <2>4. seq[SlotOf(cursor[t])] \in Nat /\ cursor[t] \in Int
    <3>1. cursor[t] \in Nat
      BY <1>1, <1>2, <2>1
    <3>. QED BY <1>1, <3>1, SlotDivision DEF Types
  <2>5. ~(seq'[SlotOf(cursor[t])'] > cursor'[t])
    BY <1>2, <2>1, <2>2, <2>4 DEF SlotOf
  <2>6. Attends(t)'
    BY <1>3, <1>5, <1>8, <2>5 DEF Attends
  <2>. QED BY <1>2, <1>4, <1>7, <2>6 DEF Moves
<1>9. CASE pc'[t] = "park"
  <2>1. Registered(t) /\ UNCHANGED cursor
    BY <1>1, <1>9 DEF Looks, LoadWriteSeq, CountSenders, LoadSeqBefore, CatchUp, LoadValue,
              LoadSeqAfter, At, Step, Answer, Lag, Nothing, NothingYet, Disconnected
  <2>2. Registered(t)' /\ (Woken(t, "recv") => Woken(t, "recv")')
    BY <1>2, <2>1 DEF Keeps
  <2>3. /\ Senders' = Senders /\ SlotOf(cursor[t])' = SlotOf(cursor[t])
        /\ Buried(cursor[t])' = Buried(cursor[t])
    BY <1>2, <1>3, <2>1 DEF Senders, SlotOf, Buried
  <2>4. \/ pc[t] = "count" /\ Senders # {}
        \/ /\ pc[t] = "before" /\ seq[SlotOf(cursor[t])] < cursor[t] + 1
           /\ Senders = {} => writeSeq # cursor[t]
    BY <1>1, <1>9 DEF Looks, LoadWriteSeq, CountSenders, LoadSeqBefore, CatchUp, LoadValue,
              LoadSeqAfter, At, Step, Answer, Lag, Nothing, NothingYet, Disconnected
  <2>5. CASE pc[t] = "count" /\ Senders # {}
    <3>1. Attends(t)'
      BY <1>1, <1>2, <1>3, <1>5, <2>1, <2>2, <2>3, <2>5 DEF Attends
    <3>. QED BY <1>2, <1>4, <1>7, <3>1 DEF Moves
  <2>6. CASE /\ pc[t] = "before" /\ seq[SlotOf(cursor[t])] < cursor[t] + 1
             /\ Senders = {} => writeSeq # cursor[t]
    <3>1. cursor[t] \in Nat
      BY <1>1, <2>6 DEF BroadcastInv, Subscribed, Outside
    <3>2. seq[SlotOf(cursor[t])] \in Nat
      BY <1>1, <3>1, SlotDivision DEF Types
    <3>3. seq[SlotOf(cursor[t])] <= cursor[t]
      BY <2>6, <3>1, <3>2
    <3>4. ASSUME Senders = {} PROVE Buried(cursor[t])
      <4>1. Pending = {}
        <5>1. \A u \in Threads : pc[u] \notin {"fill", "stamp"}
          BY <3>4 DEF WakeInvariant, Attends, Sending, Senders
        <5>. QED BY <5>1 DEF Pending
      <4>2. cursor[t] < writeSeq
        BY <1>1, <2>6, <3>1, <3>4 DEF Attends
      <4>. QED BY <3>3, <4>1, <4>2 DEF Buried
    <3>5. ~(seq'[SlotOf(cursor[t])'] > cursor'[t])
      BY <1>2, <2>1, <2>3, <3>1, <3>2, <3>3
    <3>6. Attends(t)'
      BY <1>3, <1>5, <1>9, <2>2, <2>3, <3>4, <3>5 DEF Attends
    <3>. QED BY <1>2, <1>4, <1>7, <3>6 DEF Moves
  <2>. QED BY <2>4, <2>5, <2>6
<1>. QED BY <1>6, <1>8, <1>9

(* The calls, and the steps of send that wake nobody.                       *)
LEMMA SendMoves ==
  ASSUME BroadcastInv, WakeInvariant, NEW t \in Threads,
         SendCall(t) \/ Check(t) \/ StoreValue(t) \/ RecvCall(t) \/ Complete(t)
  PROVE  Moves(t)
<1>1. /\ Types /\ Attends(t) /\ pc \in [Threads -> Steps] /\ cursor \in [Threads -> Int]
  BY DEF BroadcastInv, WakeInvariant, Types
<1>2. /\ Harmless(t) /\ ~Armed(t)' /\ Keeps(t) /\ pc'[t] \notin SelectSteps
      /\ tail' \in [Threads -> Int] /\ UNCHANGED <<writeSeq, seq, held>>
      /\ \A u \in Threads \ {t} : cursor'[u] = cursor[u] /\ tail'[u] = tail[u]
  BY <1>1, PlainlyHarmless DEF Plainly
<1>3. /\ UNCHANGED <<local, cursor>>
      /\ pc[t] \in Filling <=> pc'[t] \in Filling
      /\ \A u \in Threads \ {t} : pc'[u] = pc[u]
      /\ \/ pc'[t] \in {"idle", "look"}
         \/ pc'[t] \in Sending /\ (pc[t] \in Sending \/ "send" \in held[t])
  BY <1>1 DEF SendCall, Check, CheckReceivers, StoreValue, RecvCall, Complete, CompleteBy, Call, At,
              Step, Finish, broadcastVars, Filling, Sending
<1>4. Pending' = Pending
  BY <1>3 DEF Pending, Filling
<1>5. Frame(t)
  BY <1>1, <1>2, <1>4, FrameStays
<1>6. Watches(t)'
  BY <1>2 DEF Watches, Armed, SelectSteps
<1>7. Attends(t)'
  BY <1>1, <1>2, <1>3 DEF Attends, Sending
<1>. QED BY <1>2, <1>5, <1>6, <1>7 DEF Moves


LEMMA ClaimMoves ==
  ASSUME BroadcastInv, WakeInvariant, NEW t \in Threads, ClaimSeq(t)
  PROVE  Moves(t)
<1>1. /\ EndInv /\ EndTypes /\ Types /\ Attends(t) /\ pc \in [Threads -> Steps]
      /\ cursor \in [Threads -> Int] /\ cursor[t] \in Int
      /\ tail \in [Threads -> Int] /\ writeSeq \in Nat /\ Pending \subseteq 0 .. writeSeq - 1
      /\ DOMAIN local = Threads /\ DOMAIN op = Threads
  BY PendingNumbers DEF BroadcastInv, WakeInvariant, Types, EndInv, EndTypes
<1>2. /\ pc[t] = "claim" /\ pc' = [pc EXCEPT ![t] = "fill"] /\ op' = op
      /\ writeSeq' = writeSeq + 1 /\ UNCHANGED <<localVars, seq, cursor, tail>>
      /\ local' = [local EXCEPT ![t] = [NoLocals EXCEPT !.claimed = writeSeq]]
  BY DEF ClaimSeq, At, Step, Local
<1>3. UNCHANGED <<held, calls, arm>>
  BY <1>2 DEF localVars, quietVars
<1>4. EndTypes' /\ Mild(t)
  BY <1>1, <1>2, PlainStep DEF Alone
<1>5. Harmless(t) /\ ~Armed(t)'
  BY <1>1, <1>2, <1>3, <1>4, ApartStep DEF SelectSteps
<1>6. Pending' = Pending \cup {writeSeq}
  <2>1. /\ pc'[t] = "fill" /\ local'[t].claimed = writeSeq
        /\ \A u \in Threads \ {t} : pc'[u] = pc[u] /\ local'[u] = local[u]
    BY <1>1, <1>2 DEF NoLocals
  <2>. QED BY <1>2, <2>1 DEF Pending
<1>7. \A n \in Int : Published(n)' = Published(n)
  BY <1>1, <1>2, <1>6 DEF Published
<1>8. Senders # {} /\ Senders' = Senders
  BY <1>1, <1>2, <1>3 DEF Senders, Attends, Sending
<1>9. Frame(t)
  BY <1>1, <1>2, <1>7, <1>8 DEF Frame, Forward, Same
<1>10. Attends(t)'
  BY <1>1, <1>2, <1>3 DEF Attends, Sending
<1>. QED BY <1>1, <1>2, <1>5, <1>9, <1>10 DEF Moves, Watches, Armed

LEMMA StampMoves ==
  ASSUME BroadcastInv, WakeInvariant, NEW t \in Threads, StoreSeq(t)
  PROVE  Moves(t)
<1>1. /\ EndInv /\ EndTypes /\ Types /\ Attends(t) /\ pc \in [Threads -> Steps]
      /\ cursor[t] \in Int /\ tail \in [Threads -> Int] /\ writeSeq \in Nat
      /\ DOMAIN local = Threads /\ DOMAIN op = Threads
  BY DEF BroadcastInv, WakeInvariant, Types, EndInv, EndTypes
<1>. DEFINE wakes == <<WakeAllUnselected("recv"), SelectAll("recv")>>
<1>2. /\ pc[t] = "stamp" /\ pc' = [pc EXCEPT ![t] = "idle"] /\ op' = [op EXCEPT ![t] = "none"]
      /\ UNCHANGED <<quietVars, writeSeq, cursor, tail>> /\ Free(t)
      /\ Then(t, wakes) /\ local' = [local EXCEPT ![t] = NoLocals]
  BY DEF StoreSeq, At, Finish, Local
<1>3. UNCHANGED <<held, arm>>
  BY <1>2 DEF quietVars
<1>4. EndTypes' /\ Mild(t) /\ calls'[t] = wakes
  <2>1. Alone(t)
    BY <1>1, <1>2 DEF Alone
  <2>2. wakes \in Seq(WakeCalls(ArmNodes))
    BY WakeSequences
  <2>. HIDE DEF wakes
  <2>. QED BY <1>1, <1>2, <2>1, <2>2, WakingStep
<1>5. News /\ \A u \in Threads : calls'[u] = calls[u] \/ calls'[u] \in Announcements
  <2>1. wakes \in Announcements
    BY DEF Announcements
  <2>. HIDE DEF wakes
  <2>. QED BY <1>2, <1>4, <2>1 DEF News, Then
<1>. HIDE DEF wakes
<1>6. Harmless(t) /\ ~Armed(t)'
  BY <1>1, <1>2, <1>3, <1>4, <1>5, ApartStep DEF SelectSteps
<1>7. Pending' \subseteq Pending
  <2>1. /\ pc'[t] = "idle"
        /\ \A u \in Threads \ {t} : pc'[u] = pc[u] /\ local'[u] = local[u]
    BY <1>1, <1>2
  <2>. QED BY <2>1 DEF Pending
<1>8. \A n \in Int : Published(n) => Published(n)'
  BY <1>2, <1>7 DEF Published
<1>9. Senders # {} /\ Senders' = Senders
  BY <1>1, <1>2, <1>3 DEF Senders, Attends, Sending
<1>10. Frame(t)
  BY <1>1, <1>2, <1>5, <1>8, <1>9 DEF Frame, Forward
<1>. QED BY <1>1, <1>2, <1>6, <1>10, Uninvolved DEF Moves, Sending, Attends

(* Registration, park, and the drop of the guard.                           *)
LEMMA ListMoves ==
  ASSUME BroadcastInv, WakeInvariant, NEW t \in Threads,
         \/ /\ Enlist(t, "look") \/ ParkReturns(t, "park", "again") \/ Again(t, "look")
            /\ UNCHANGED broadcastVars
         \/ ReturnMessage(t)
  PROVE  Moves(t)
<1>1. /\ EndInv /\ EndTypes /\ Types /\ Attends(t) /\ pc \in [Threads -> Steps]
      /\ tail \in [Threads -> Int] /\ DOMAIN op = Threads /\ DOMAIN local = Threads
  BY DEF BroadcastInv, WakeInvariant, Types, EndInv, EndTypes
<1>2. EndTypes' /\ Mild(t)
  BY <1>1, EnlistStep, ParkStep, LeaveStep DEF ReturnMessage
<1>3. /\ pc[t] \in {"enlist", "park", "again", "return"} /\ pc'[t] \in {"look", "again", "idle"}
      /\ op'[t] = op[t] \/ op'[t] = "none"
      /\ pc'[t] = "idle" => op'[t] = "none"
      /\ \A u \in Threads \ {t} : pc'[u] = pc[u] /\ local'[u] = local[u]
      /\ UNCHANGED <<writeSeq, seq, cursor, tail, held, calls, arm>>
  BY <1>1 DEF Enlist, ParkReturns, Again, ReturnMessage, Return, Finish, At, Step, Local, broadcastVars
<1>4. Harmless(t) /\ ~Armed(t)'
  BY <1>1, <1>2, <1>3, ApartStep DEF SelectSteps
<1>5. Pending' = Pending
  BY <1>3 DEF Pending
<1>6. Frame(t)
  BY <1>1, <1>3, <1>5, FrameStays
<1>. QED BY <1>1, <1>3, <1>4, <1>6, Uninvolved DEF Moves, Sending, Attends

(* The steps of select!.                                                    *)
LEMMA SelectPlain ==
  ASSUME BroadcastInv, WakeInvariant, NEW t \in Threads, Harmless(t),
         pc[t] \notin Sending, pc'[t] \notin Sending \cup {"count", "park"},
         UNCHANGED <<writeSeq, seq, cursor, local>>, tail' \in [Threads -> Int],
         \A u \in Threads \ {t} : tail'[u] = tail[u]
  PROVE  Frame(t) /\ Attends(t)' /\ Pending' = Pending /\ Senders' = Senders
<1>1. Types /\ Attends(t)
  BY DEF BroadcastInv, WakeInvariant
<1>2. \A u \in Threads \ {t} : pc'[u] = pc[u]
  BY DEF Harmless, Mild
<1>3. Pending' = Pending
  BY <1>2 DEF Pending, Sending
<1>4. UNCHANGED held
  BY DEF Harmless
<1>5. Frame(t)
  BY <1>1, <1>3, <1>4, FrameStays
<1>. QED BY <1>1, <1>3, <1>4, <1>5 DEF Attends, Senders

LEMMA SelectCallMoves ==
  ASSUME BroadcastInv, WakeInvariant, NEW t \in Threads, SelectBegins(t)
  PROVE  Moves(t)
<1>1. EndInv /\ tail \in [Threads -> Int] /\ writeSeq \in Nat
  BY DEF WakeInvariant, BroadcastInv, Types
<1>2. /\ SelectCall(t, "select_recv", "recv") /\ UNCHANGED <<writeSeq, seq, cursor, local>>
      /\ tail' = [tail EXCEPT ![t] = writeSeq]
  BY DEF SelectBegins
<1>3. Harmless(t) /\ ~Armed(t)' /\ pc[t] = "idle" /\ pc'[t] = "probe" /\ op'[t] = "select_recv"
  BY <1>1, <1>2, SelectCallEffect
<1>4. Frame(t) /\ Attends(t)'
  BY <1>1, <1>2, <1>3, SelectPlain DEF Sending
<1>. QED BY <1>3, <1>4 DEF Moves, Watches, Armed

LEMMA ReadyMoves ==
  ASSUME BroadcastInv, WakeInvariant, NEW t \in Threads, pc[t] \in {"probe", "probe_more"},
         ArmReady(t), UNCHANGED probeVars, UNCHANGED broadcastVars
  PROVE  Moves(t)
<1>1. EndInv /\ tail \in [Threads -> Int]
  BY DEF WakeInvariant
<1>2. /\ Harmless(t) /\ \/ pc'[t] = "complete" /\ ~Armed(t)'
                        \/ pc'[t] = "decide" /\ Won(t)' # Unselected
  BY <1>1, ReadyEffect
<1>3. Frame(t) /\ Attends(t)'
  BY <1>1, <1>2, SelectPlain DEF Sending, broadcastVars
<1>. QED BY <1>2, <1>3 DEF Moves, Watches

LEMMA ProbeMoves ==
  ASSUME BroadcastInv, WakeInvariant, NEW t \in Threads, Probe(t)
  PROVE  Moves(t)
<1>1. /\ EndInv /\ ArmOf(t) /\ Watches(t) /\ DOMAIN pc = Threads /\ DOMAIN op = Threads
      /\ tail \in [Threads -> Int] /\ writeSeq \in Nat
  BY DEF WakeInvariant, EndInv, EndTypes, BroadcastInv, Types
<1>2. pc[t] = "probe" /\ UNCHANGED probeVars /\ UNCHANGED broadcastVars
  BY DEF Probe, At
<1>3. CASE ArmReady(t)
  BY <1>2, <1>3, ReadyMoves
<1>4. CASE ~ArmReady(t)
  <2>1. /\ ~Ready(t) /\ pc' = [pc EXCEPT ![t] = "probe_more"] /\ op' = op
        /\ UNCHANGED <<arm, selected>>
    BY <1>4 DEF Probe, Step
  <2>2. Alone(t) /\ UNCHANGED localVars /\ pc'[t] = "probe_more"
    BY <1>1, <1>2, <2>1 DEF Alone, localVars, quietVars, probeVars
  <2>3. Harmless(t) /\ Keeps(t) /\ Armed(t)' = Armed(t)
    BY <1>1, <1>2, <2>1, <2>2, LookEffect DEF Watches
  <2>4. Frame(t) /\ Attends(t)' /\ Senders' = Senders /\ Pending' = Pending
    BY <1>1, <1>2, <2>2, <2>3, SelectPlain DEF Sending, broadcastVars
  <2>5. ~Published(tail[t])'
    BY <1>1, <1>2, <2>1 DEF Published, Ready, broadcastVars
  <2>6. Watches(t)'
    BY <1>1, <1>2, <2>1, <2>2, <2>3, <2>4, <2>5 DEF Watches, Keeps
  <2>. QED BY <2>3, <2>4, <2>6 DEF Moves
<1>. QED BY <1>3, <1>4


LEMMA ProbeSendersMoves ==
  ASSUME BroadcastInv, WakeInvariant, NEW t \in Threads, ProbeSenders(t)
  PROVE  Moves(t)
<1>1. /\ EndInv /\ ArmOf(t) /\ Watches(t) /\ tail \in [Threads -> Int]
  BY DEF WakeInvariant, EndInv
<1>2. pc[t] = "probe_more" /\ UNCHANGED probeVars /\ UNCHANGED broadcastVars
  BY DEF ProbeSenders, At
<1>3. CASE ArmReady(t)
  BY <1>2, <1>3, ReadyMoves
<1>4. CASE ~ArmReady(t)
  <2>1. ArmNotReady(t) /\ Senders # {} /\ op[t] = "select_recv"
    BY <1>1, <1>2, <1>4 DEF ProbeSenders, ArmOf, SelectSteps
  <2>2. /\ Harmless(t)
        /\ \/ pc'[t] = "decide" /\ Armed(t) /\ Keeps(t)
           \/ pc'[t] = "idle" /\ ~Armed(t)'
           \/ pc'[t] = "enrol"
    BY <1>1, <1>2, <2>1, NotReadyEffect
  <2>3. Frame(t) /\ Attends(t)' /\ Senders' = Senders /\ Pending' = Pending
    BY <1>1, <1>2, <2>2, SelectPlain DEF Sending, broadcastVars
  <2>4. CASE pc'[t] # "decide"
    BY <2>2, <2>3, <2>4 DEF Moves, Watches
  <2>5. CASE pc'[t] = "decide"
    <3>1. Published(tail[t])' = Published(tail[t])
      BY <1>2, <2>3 DEF Published, broadcastVars
    <3>2. Watches(t)'
      BY <1>1, <1>2, <2>1, <2>2, <2>3, <2>5, <3>1 DEF Watches, Keeps
    <3>. QED BY <2>2, <2>3, <3>2 DEF Moves
  <2>. QED BY <2>4, <2>5
<1>. QED BY <1>3, <1>4

LEMMA RegisterMoves ==
  ASSUME BroadcastInv, WakeInvariant, NEW t \in Threads,
         RegisterSelect(t) \/ (PushArm(t, "push") /\ UNCHANGED broadcastVars)
  PROVE  Moves(t)
<1>1. /\ EndInv /\ EndTypes /\ ArmOf(t) /\ Watches(t) /\ tail \in [Threads -> Int]
      /\ DOMAIN pc = Threads /\ DOMAIN op = Threads
  BY DEF WakeInvariant, EndInv, EndTypes
<1>2. pc[t] \in {"enrol", "enrol_more", "push"} /\ UNCHANGED <<op, held>> /\ UNCHANGED broadcastVars
  BY DEF RegisterSelect, PushArm, At, Step, localVars, quietVars
<1>3. Armed(t) /\ op[t] = "select_recv"
  BY <1>1, <1>2 DEF Armed, ArmOf, SelectSteps
<1>4. CASE RegisterSelect(t)
  <2>1. /\ Alone(t) /\ UNCHANGED localVars /\ pc[t] \in {"enrol", "enrol_more"}
        /\ \/ pc'[t] = "probe" /\ (Ready(t) \/ Senders = {})
           \/ pc'[t] \in {"enrol_more", "push"}
    BY <1>1, <1>4 DEF RegisterSelect, Alone, Step, At
  <2>2. Harmless(t)
    BY <1>1, <1>2, <1>3, <2>1, LookEffect
  <2>3. Frame(t) /\ Attends(t)' /\ Senders' = Senders
    BY <1>1, <1>2, <2>1, <2>2, SelectPlain DEF Sending, broadcastVars
  <2>4. Ready(t)' = Ready(t)
    BY <1>2 DEF Ready, broadcastVars
  <2>5. Watches(t)'
    BY <1>2, <1>3, <2>1, <2>3, <2>4 DEF Watches
  <2>. QED BY <2>2, <2>3, <2>5 DEF Moves
<1>5. CASE PushArm(t, "push")
  <2>1. Harmless(t) /\ pc'[t] = "probe" /\ Live(ArmNode(t), "recv")'
    BY <1>1, <1>5, PushEffect
  <2>2. Frame(t) /\ Attends(t)'
    BY <1>1, <1>2, <2>1, SelectPlain DEF Sending, broadcastVars
  <2>3. Watches(t)'
    BY <1>2, <1>3, <2>1 DEF Watches
  <2>. QED BY <2>1, <2>2, <2>3 DEF Moves
<1>. QED BY <1>4, <1>5

LEMMA SelectMoves ==
  ASSUME BroadcastInv, WakeInvariant, NEW t \in Threads, SelectStep(t), UNCHANGED broadcastVars
  PROVE  Moves(t)
<1>1. /\ EndInv /\ Watches(t) /\ tail \in [Threads -> Int]
  BY DEF WakeInvariant
<1>2. /\ Harmless(t)
      /\ pc[t] \in {"decide", "sleep", "abort", "walk", "judge"}
      /\ pc'[t] \in {"sleep", "abort", "walk", "judge", "probe", "idle", "complete"}
      /\ pc'[t] = "probe" => op'[t] = "select_recv"
      /\ \/ pc[t] = "decide" /\ pc'[t] = "sleep" /\ Won(t) = Unselected /\ Keeps(t)
         \/ ~Armed(t)' /\ pc'[t] # "sleep"
  BY <1>1, SelectEffect
<1>3. Frame(t) /\ Attends(t)' /\ Senders' = Senders /\ Pending' = Pending
  BY <1>1, <1>2, SelectPlain DEF Sending, broadcastVars
<1>4. CASE ~Armed(t)' /\ pc'[t] # "sleep"
  BY <1>2, <1>3, <1>4 DEF Watches, Moves
<1>5. CASE pc'[t] = "sleep"
  <2>1. Published(tail[t])' = Published(tail[t])
    BY <1>3 DEF Published, broadcastVars
  <2>2. Armed(t)
    BY <1>2, <1>5 DEF Armed
  <2>3. Watches(t)'
    BY <1>1, <1>2, <1>3, <1>5, <2>1, <2>2 DEF Watches, Keeps
  <2>. QED BY <1>2, <1>3, <2>3 DEF Moves
<1>. QED BY <1>2, <1>4, <1>5

LEMMA OutsideMoves ==
  ASSUME BroadcastInv, WakeInvariant, NEW t \in Threads, DeadlinePasses(t) \/ Spurious(t),
         UNCHANGED broadcastVars
  PROVE  Moves(t)
<1>1. EndInv /\ Watches(t) /\ Attends(t) /\ tail \in [Threads -> Int] /\ Types
  BY DEF WakeInvariant, BroadcastInv
<1>2. /\ Harmless(t) /\ Keeps(t) /\ arm'[t].turn = arm[t].turn
      /\ UNCHANGED <<pc, op, held, writeSeq, seq, cursor, tail, local>>
  BY <1>1, OutsideEffect DEF broadcastVars
<1>3. Frame(t)
  BY <1>1, <1>2, FrameStays DEF Pending
<1>4. Attends(t)' /\ Watches(t)'
  BY <1>1, <1>2, <1>3, Onlooker DEF Frame
<1>. QED BY <1>2, <1>3, <1>4 DEF Moves

(* The steps put together.                                                  *)
LEMMA MovesInv ==
  ASSUME BroadcastInv, WakeInvariant, NEW t \in Threads, Moves(t)
  PROVE  WakeInvariant'
<1>1. EndInv' /\ Drained'
  BY HarmlessInv DEF WakeInvariant, Moves
<1>2. ASSUME NEW u \in Threads \ {t} PROVE Attends(u)' /\ Watches(u)'
  <2>1. /\ EndTypes /\ ArmOf(u) /\ Attends(u) /\ Watches(u) /\ Steady(u) /\ Growing
        /\ pc'[u] = pc[u] /\ op'[u] = op[u] /\ arm'[u].turn = arm[u].turn /\ cursor'[u] = cursor[u]
        /\ tail'[u] = tail[u] /\ held'[u] = held[u] /\ Forward /\ (Same \/ News) /\ Types
        /\ tail \in [Threads -> Int]
    BY DEF WakeInvariant, EndInv, Moves, Harmless, Mild, Frame, BroadcastInv
  <2>. QED BY <2>1, SteadyKeeps, Onlooker
<1>. QED BY <1>1, <1>2 DEF WakeInvariant, Moves, Frame

LEMMA OthersMove ==
  ASSUME BroadcastInv, WakeInvariant, UNCHANGED <<writeSeq, seq, tail>>, Pending' = Pending,
         EndInv', Drained', Senders = {} => Senders' = {}, News \/ (Senders' = {} => Senders = {}),
         \A u \in Threads :
           \/ /\ Keeps(u) /\ pc'[u] = pc[u] /\ op'[u] = op[u] /\ arm'[u].turn = arm[u].turn
              /\ held'[u] = held[u] \/ pc[u] = "idle"
              /\ cursor'[u] = cursor[u]
           \/ ~Armed(u)' /\ pc'[u] = "idle" /\ cursor'[u] <= writeSeq'
  PROVE  WakeInvariant'
<1>1. Types /\ tail \in [Threads -> Int]
  BY DEF BroadcastInv, WakeInvariant
<1>2. \A n \in Int : Published(n)' = Published(n)
  BY DEF Published
<1>3. Forward /\ (Same \/ News)
  BY <1>1, <1>2 DEF Forward, Same, Types
<1>4. ASSUME NEW u \in Threads PROVE Attends(u)' /\ Watches(u)'
  <2>1. Attends(u) /\ Watches(u) /\ ArmOf(u)
    BY DEF WakeInvariant, EndInv
  <2>2. CASE ~Armed(u)' /\ pc'[u] = "idle" /\ cursor'[u] <= writeSeq'
    BY <2>2, Uninvolved DEF Sending
  <2>3. CASE pc[u] = "idle" /\ pc'[u] = "idle" /\ arm'[u].turn = arm[u].turn /\ cursor'[u] = cursor[u]
    <3>1. ~Armed(u)' /\ cursor'[u] <= writeSeq'
      BY <2>1, <2>3 DEF Armed, ArmOf, SelectSteps, Attends
    <3>. QED BY <2>3, <3>1, Uninvolved DEF Sending
  <2>4. CASE /\ Keeps(u) /\ pc'[u] = pc[u] /\ op'[u] = op[u] /\ arm'[u].turn = arm[u].turn
             /\ held'[u] = held[u] /\ cursor'[u] = cursor[u]
    BY <1>1, <1>3, <2>1, <2>4, Onlooker
  <2>. QED BY <2>2, <2>3, <2>4
<1>. QED BY <1>1, <1>4 DEF WakeInvariant

LEMMA WakeInductive ==
  ASSUME BroadcastInv, WakeInvariant, [Next]_vars
  PROVE  WakeInvariant'
<1>0. EndInv /\ Drained
  BY DEF WakeInvariant
<1>1. CASE UNCHANGED vars
  <2>1. UNCHANGED <<waiterVars, endVars, writeSeq, seq, tail, cursor, local>>
    BY <1>1 DEF vars, broadcastVars
  <2>2. EndInv' /\ Drained' /\ \A u \in Threads : Keeps(u)
    BY <1>0, <2>1, StutterEffect
  <2>3. Senders' = Senders /\ Pending' = Pending
    BY <2>1 DEF Senders, Pending, endVars
  <2>. QED BY <2>1, <2>2, <2>3, OthersMove DEF endVars
<1>2. CASE Over
  BY <1>1, <1>2 DEF Over
<1>. SUFFICES ASSUME NEW t \in Threads, BroadcastStep(t) \/ BroadcastChance(t)
              PROVE  WakeInvariant'
  BY <1>1, <1>2 DEF Next
<1>3. CASE Looks(t)
  BY <1>3, LooksMove, MovesInv
<1>4. CASE SendCall(t) \/ Check(t) \/ StoreValue(t) \/ RecvCall(t) \/ Complete(t)
  BY <1>4, SendMoves, MovesInv
<1>5. CASE ClaimSeq(t) \/ StoreSeq(t)
  BY <1>5, ClaimMoves, StampMoves, MovesInv
<1>6. CASE \/ /\ Enlist(t, "look") \/ ParkReturns(t, "park", "again") \/ Again(t, "look")
              /\ UNCHANGED broadcastVars
           \/ ReturnMessage(t)
  BY <1>6, ListMoves, MovesInv
<1>7. CASE SelectBegins(t) \/ Probe(t) \/ ProbeSenders(t)
  BY <1>7, SelectCallMoves, ProbeMoves, ProbeSendersMoves, MovesInv
<1>8. CASE RegisterSelect(t) \/ (PushArm(t, "push") /\ UNCHANGED broadcastVars)
  BY <1>8, RegisterMoves, MovesInv
<1>9. CASE SelectStep(t) /\ UNCHANGED broadcastVars
  BY <1>9, SelectMoves, MovesInv
<1>10. CASE (DeadlinePasses(t) \/ Spurious(t)) /\ UNCHANGED broadcastVars
  BY <1>10, OutsideMoves, MovesInv
<1>11. CASE (DropSender(t) \/ DropReceiver(t)) /\ UNCHANGED broadcastVars
  <2>1. /\ EndInv' /\ Drained' /\ \A u \in Threads : Keeps(u)
        /\ UNCHANGED <<pc, op, arm>> /\ pc[t] = "idle"
        /\ \A u \in Threads \ {t} : held'[u] = held[u]
        /\ Senders = {} => Senders' = {}
        /\ News \/ (Senders' = {} => Senders = {})
    BY <1>0, <1>11, DropEffect
  <2>2. Pending' = Pending /\ UNCHANGED <<writeSeq, seq, tail, cursor>>
    BY <1>11, <2>1 DEF Pending, broadcastVars
  <2>3. \A u \in Threads : held'[u] = held[u] \/ pc[u] = "idle"
    BY <2>1
  <2>. QED BY <2>1, <2>2, <2>3, OthersMove
<1>12. CASE \E u \in Threads : Subscribe(t, u)
  <2>1. PICK x \in Threads : Subscribe(t, x)
    BY <1>12
  <2>2. CloneHandle(t, x) /\ UNCHANGED <<writeSeq, seq, tail, local>>
    BY <2>1 DEF Subscribe
  <2>3. /\ EndInv' /\ Drained' /\ UNCHANGED <<op, arm>>
        /\ pc[x] = "unborn" /\ pc'[x] = "idle" /\ ~Armed(x)'
        /\ (Senders' = {}) = (Senders = {})
        /\ \A u \in Threads \ {x} : Keeps(u) /\ pc'[u] = pc[u] /\ held'[u] = held[u]
    BY <1>0, <2>2, CloneEffect
  <2>4. Pending' = Pending
    BY <2>2, <2>3 DEF Pending
  <2>5. \A u \in Threads \ {x} : cursor'[u] = cursor[u]
    BY <2>1 DEF Subscribe, BroadcastInv, Types
  <2>6. cursor'[x] <= writeSeq'
    BY <2>1 DEF Subscribe, BroadcastInv, Types, Away
  <2>. QED BY <2>2, <2>3, <2>4, <2>5, <2>6, OthersMove
<1>13. CASE WakeStep(t) /\ UNCHANGED endVars /\ UNCHANGED broadcastVars
  <2>1. EndInv' /\ Drained' /\ \A u \in Threads : Keeps(u)
    BY <1>0, <1>13, WakeEffect
  <2>2. Senders' = Senders /\ Pending' = Pending /\ UNCHANGED <<writeSeq, seq, tail, cursor>>
    BY <1>13 DEF Senders, Pending, endVars, broadcastVars
  <2>. QED BY <1>13, <2>1, <2>2, OthersMove DEF endVars
<1>. QED BY <1>3, <1>4, <1>5, <1>6, <1>7, <1>8, <1>9, <1>10, <1>11, <1>12, <1>13
         DEF BroadcastStep, BroadcastChance, Looks

LEMMA BroadcastWakes == Spec => []WakeInvariant
<1>1. Init => WakeInvariant
  <2>. SUFFICES ASSUME Init PROVE WakeInvariant
    OBVIOUS
  <2>1. EndInv /\ \A t \in Threads : pc[t] \in {"idle", "unborn"} /\ ToSet(calls[t]) = {}
    BY EndpointInitial DEF Init
  <2>2. \A t \in Threads : ~Armed(t)
    BY <2>1 DEF EndInv, ArmOf, Armed, SelectSteps
  <2>3. tail \in [Threads -> Int] /\ \A t \in Threads : cursor[t] <= writeSeq
    BY DEF Init, BroadcastInit, Away
  <2>4. \A t \in Threads : Attends(t) /\ Watches(t)
    BY <2>1, <2>2, <2>3 DEF Attends, Watches, Sending
  <2>. QED BY <2>1, <2>3, <2>4 DEF WakeInvariant, Drained, AllOrNone
<1>2. WakeInvariant /\ BroadcastInv /\ [Next]_vars => WakeInvariant'
  BY WakeInductive
<1>. QED BY <1>1, <1>2, BroadcastInvariant, PTL DEF Spec

(* A parked receive and a sleeping select call learn of every message that  *)
(* they wait for, and of the drop of the last sender.                       *)
THEOREM BroadcastLosesNoWakeup == Spec => []NoLostWakeup
<1>1. WakeInvariant /\ BroadcastInv => NoLostWakeup
  <2>. SUFFICES ASSUME WakeInvariant, BroadcastInv, NEW t \in Threads
                PROVE  /\ pc[t] = "park" /\ Due(t) => permit[t] \/ \E u \in Threads : WillUnpark(u, t)
                       /\ pc[t] = "sleep" /\ ArmDue(t)
                            => permit[t] \/ \E u \in Threads : WillSelect(u, t)
    BY DEF NoLostWakeup
  <2>1. Attends(t) /\ Watches(t) /\ ArmOf(t) /\ EndTypes
    BY DEF WakeInvariant, EndInv
  <2>2. Woken(t, "recv") => permit[t] \/ \E u \in Threads : WillUnpark(u, t)
    BY DEF Woken, Wakes, WillUnpark, ToSet
  <2>3. ArmDue(t) => Published(tail[t]) \/ Senders = {}
    BY DEF ArmDue, Published
  <2>. QED BY <2>1, <2>2, <2>3, WillBeSelected DEF Attends, Watches, Due
<1>. QED BY <1>1, BroadcastWakes, BroadcastInvariant, PTL

-----------------------------------------------------------------------------
(* The bounds: every number is that of a send, of which there are no more   *)
(* than the program has, and what is stored or taken hold of is a number.   *)
Position(t) ==
  /\ Away <= cursor[t] /\ Away <= tail[t] /\ tail[t] <= writeSeq
  /\ Empty <= local[t].claimed /\ local[t].claimed < writeSeq
  /\ Empty <= local[t].snapshot /\ local[t].snapshot < writeSeq
  /\ local[t].spins <= MaxSpins /\ 0 <= local[t].skipped

Bounded ==
  /\ writeSeq + Cardinality(SendsUnderWay) <= program.items
  /\ \A i \in 0 .. Cap - 1 : Empty <= value[i] /\ value[i] < writeSeq
  /\ lapped \subseteq 0 .. Cap - 1
  /\ tail \in [Threads -> Int]
  /\ \A t \in Threads : Position(t)

Within == BroadcastInv /\ Bounded /\ EndTypes /\ Orderly(Steps)

(* A step that claims no number and begins no send.                         *)
Paces(t) ==
  /\ UNCHANGED <<program, writeSeq, lapped>> /\ tail' \in [Threads -> Int]
  /\ \A u \in Threads \ {t} :
       pc'[u] = pc[u] /\ cursor'[u] = cursor[u] /\ tail'[u] = tail[u] /\ local'[u] = local[u]
  /\ \A i \in 0 .. Cap - 1 : value'[i] = value[i] \/ value'[i] \in 0 .. writeSeq - 1
  /\ pc'[t] \in {"check", "claim"} => pc[t] \in {"check", "claim"}
  /\ Position(t)'

LEMMA PacesBounded ==
  ASSUME Types, Bounded, NEW t \in Threads, Paces(t)
  PROVE  Bounded'
<1>1. SendsUnderWay' \subseteq SendsUnderWay /\ SendsUnderWay \subseteq Threads
  BY DEF Paces, SendsUnderWay
<1>2. /\ Cardinality(SendsUnderWay') <= Cardinality(SendsUnderWay)
      /\ Cardinality(SendsUnderWay) \in Nat /\ Cardinality(SendsUnderWay') \in Nat
  BY <1>1, FewThreads
<1>3. writeSeq \in Nat /\ program.items \in Nat
  BY ProgramAssumption DEF Types
<1>4. writeSeq' + Cardinality(SendsUnderWay') <= program'.items
  BY <1>2, <1>3 DEF Bounded, Paces
<1>5. \A u \in Threads : Position(u)'
  BY DEF Bounded, Paces, Position
<1>6. \A i \in 0 .. Cap - 1 : Empty <= value'[i] /\ value'[i] < writeSeq'
  BY <1>3 DEF Bounded, Paces, Empty
<1>. QED BY <1>4, <1>5, <1>6 DEF Bounded, Paces

LEMMA StepsOfBroadcast ==
  /\ SelectSteps \cup {"complete", "idle"} \subseteq Steps /\ "idle" \in Steps /\ "probe" \in Steps
  /\ "return" \in Steps
  /\ {"check", "claim", "fill", "stamp", "look", "count", "before", "lap", "read", "after",
      "enlist", "park", "again"} \subseteq Steps \ {"idle", "unborn"}
  /\ {"probe", "probe_more", "enrol_more", "push"} \subseteq Steps \ {"idle", "unborn"}
<1>1. "probe" \in SelectSteps
  BY DEF SelectSteps
<1>2. {"check", "claim", "fill", "stamp", "look", "count"} \subseteq Steps \ {"idle", "unborn"}
  BY DEF Steps
<1>3. {"before", "lap", "read", "after", "enlist", "park", "again"} \subseteq Steps \ {"idle", "unborn"}
  BY DEF Steps
<1>4. {"probe", "probe_more", "enrol_more", "push"} \subseteq Steps \ {"idle", "unborn"}
  BY DEF Steps, SelectSteps
<1>. QED BY <1>1, <1>2, <1>3, <1>4 DEF Steps

LEMMA Replied == {"ok", "empty", "lagged", "disconnected"} \subseteq Verdicts
BY DEF Verdicts

(* The local variables of a receive.                                        *)
LEMMA Slates ==
  ASSUME NEW n \in Int, NEW k \in Nat
  PROVE  /\ NoLocals \in Locals /\ NoLocals.claimed = Empty /\ NoLocals.snapshot = Empty
         /\ NoLocals.spins = 0 /\ NoLocals.skipped = 0
         /\ \A l \in {[NoLocals EXCEPT !.skipped = n], [NoLocals EXCEPT !.spins = k]} :
              l.claimed = Empty /\ l.snapshot = Empty
         /\ [NoLocals EXCEPT !.skipped = n].skipped = n /\ [NoLocals EXCEPT !.skipped = n].spins = 0
         /\ [NoLocals EXCEPT !.spins = k].spins = k /\ [NoLocals EXCEPT !.spins = k].skipped = 0
<1>1. NoLocals \in Locals
  BY DEF NoLocals, Locals, Empty
<1>. QED BY <1>1 DEF NoLocals, Locals

(* The steps of a receive.                                                  *)
LEMMA ReceivePaces ==
  ASSUME Within, NEW t \in Threads,
         \/ CountSenders(t) \/ LoadWriteSeq(t) \/ LoadSeqBefore(t) \/ CatchUp(t) \/ LoadValue(t)
         \/ LoadSeqAfter(t)
  PROVE  Paces(t) /\ Orderly(Steps)'
<1>0. /\ Orderly(Steps) /\ DOMAIN pc = Threads /\ DOMAIN local = Threads /\ DOMAIN cursor = Threads
      /\ Position(t) /\ writeSeq \in Nat /\ cursor[t] \in Int /\ tail \in [Threads -> Int]
      /\ local[t] \in Locals /\ Cap \in Nat /\ MaxSpins \in Nat /\ MaxSpins >= 1
      /\ Subscribed /\ Reads /\ BroadcastInv
  BY BroadcastAssumption DEF Within, Orderly, Bounded, BroadcastInv, Types
<1>1. pc[t] \notin Outside /\ cursor[t] >= 0
  <2>1. pc[t] \in {"count", "look", "before", "lap", "read", "after"}
    BY DEF CountSenders, LoadWriteSeq, LoadSeqBefore, CatchUp, LoadValue, LoadSeqAfter, At
  <2>. QED BY <1>0, <2>1 DEF Subscribed, Outside
<1>2. UNCHANGED <<program, writeSeq, lapped, tail, value>> /\ Timed
  BY DEF CountSenders, LoadWriteSeq, LoadSeqBefore, CatchUp, LoadValue, LoadSeqAfter, localVars,
         quietVars, Timed
<1>3. /\ \E a \in {"ok", "empty", "lagged", "disconnected"} : Answer(t, a)
      \/ \E to \in {"look", "count", "before", "lap", "read", "after", "enlist", "park"} : Step(t, to)
  <2>1. ASSUME NEW a \in {"enlist"}, NEW b \in {"park"}, Nothing(t, a, b)
        PROVE  Answer(t, "empty") \/ \E to \in {"enlist", "park"} : Step(t, to)
    BY <2>1 DEF Nothing
  <2>2. CASE CountSenders(t) \/ LoadSeqBefore(t)
    BY <2>1, <2>2 DEF CountSenders, LoadSeqBefore, NothingYet, Disconnected
  <2>3. CASE LoadWriteSeq(t) \/ CatchUp(t) \/ LoadValue(t) \/ LoadSeqAfter(t)
    BY <2>3 DEF LoadWriteSeq, CatchUp, LoadValue, LoadSeqAfter, Lag
  <2>. QED BY <2>2, <2>3
<1>4. Orderly(Steps)'
  <2>1. CASE \E a \in {"ok", "empty", "lagged", "disconnected"} : Answer(t, a)
    <3>1. PICK a \in {"ok", "empty", "lagged", "disconnected"} : Answer(t, a)
      BY <2>1
    <3>2. a \in Verdicts
      BY Replied
    <3>. QED BY <1>0, <1>2, <3>1, <3>2, StepsOfBroadcast, OrderlyAnswer
  <2>2. CASE \E to \in {"look", "count", "before", "lap", "read", "after", "enlist", "park"} :
               Step(t, to)
    <3>1. PICK to \in {"look", "count", "before", "lap", "read", "after", "enlist", "park"} :
            Step(t, to)
      BY <2>2
    <3>2. to \in Steps \ {"idle", "unborn"}
      BY StepsOfBroadcast
    <3>. QED BY <1>0, <1>2, <3>1, <3>2, OrderlyStep
  <2>. QED BY <1>3, <2>1, <2>2
<1>5. pc'[t] \notin {"check", "claim"} /\ \A u \in Threads \ {t} : pc'[u] = pc[u]
  BY <1>0, <1>3 DEF Answer, Step
<1>6. ASSUME /\ \A u \in Threads \ {t} : cursor'[u] = cursor[u] /\ local'[u] = local[u]
             /\ Away <= cursor'[t]
             /\ Empty <= local'[t].claimed /\ local'[t].claimed < writeSeq
             /\ Empty <= local'[t].snapshot /\ local'[t].snapshot < writeSeq
             /\ local'[t].spins <= MaxSpins /\ 0 <= local'[t].skipped
      PROVE  Paces(t)
  BY <1>0, <1>2, <1>5, <1>6 DEF Paces, Position
<1>7. CASE UNCHANGED <<cursor, local>>
  BY <1>0, <1>4, <1>6, <1>7 DEF Position
<1>8. CASE /\ Local(t, NoLocals)
           /\ UNCHANGED cursor \/ cursor' = [cursor EXCEPT ![t] = @ + 1]
  <2>1. local'[t] = NoLocals /\ \A u \in Threads \ {t} : local'[u] = local[u]
    BY <1>0, <1>8 DEF Local
  <2>2. Away <= cursor'[t] /\ \A u \in Threads \ {t} : cursor'[u] = cursor[u]
    BY <1>0, <1>1, <1>8 DEF Away
  <2>. QED BY <1>0, <1>4, <1>6, <2>1, <2>2, Slates DEF Empty
<1>9. ASSUME NEW skipped \in Nat, Lag(t, Oldest, skipped) PROVE Paces(t)
  <2>1. /\ local'[t] = [NoLocals EXCEPT !.skipped = skipped] /\ cursor'[t] = Oldest
        /\ \A u \in Threads \ {t} : local'[u] = local[u] /\ cursor'[u] = cursor[u]
    BY <1>0, <1>9 DEF Lag, Local
  <2>2. Away <= Oldest
    BY <1>0 DEF Oldest, Away
  <2>. QED BY <1>0, <1>6, <2>1, <2>2, Slates DEF Empty
<1>10. Oldest \in Nat
  BY <1>0 DEF Oldest
<1>11. CASE CountSenders(t) \/ LoadSeqBefore(t)
  BY <1>7, <1>8, <1>11 DEF CountSenders, LoadSeqBefore, NothingYet, Disconnected
<1>12. CASE LoadWriteSeq(t)
  <2>1. CASE cursor[t] < Oldest /\ Lag(t, Oldest, Oldest - cursor[t])
    <3>1. Oldest - cursor[t] \in Nat
      BY <1>0, <1>10, <2>1
    <3>. QED BY <1>4, <1>9, <2>1, <3>1
  <2>. QED BY <1>7, <1>12, <2>1 DEF LoadWriteSeq
<1>13. CASE CatchUp(t)
  <2>. DEFINE skipped == IF Oldest > cursor[t] THEN Oldest - cursor[t] ELSE 1
  <2>1. skipped \in Nat /\ Lag(t, Oldest, skipped)
    BY <1>0, <1>10, <1>13 DEF CatchUp
  <2>. HIDE DEF skipped
  <2>. QED BY <1>4, <1>9, <2>1
<1>14. CASE LoadValue(t)
  <2>. DEFINE n == value[SlotOf(cursor[t])]
              l == [local[t] EXCEPT !.snapshot = n]
  <2>1. SlotOf(cursor[t]) \in 0 .. Cap - 1
    BY <1>0, <1>1, SlotDivision
  <2>2. Empty <= n /\ n < writeSeq /\ n \in Int
    BY <2>1 DEF Within, Bounded, BroadcastInv, Types
  <2>3. /\ l.claimed = local[t].claimed /\ l.snapshot = n /\ l.spins = local[t].spins
        /\ l.skipped = local[t].skipped
    BY <1>0, <2>2 DEF Locals
  <2>4. local' = [local EXCEPT ![t] = l] /\ cursor' = cursor
    BY <1>14 DEF LoadValue, Local
  <2>. HIDE DEF l, n
  <2>5. local'[t] = l /\ \A u \in Threads \ {t} : local'[u] = local[u]
    BY <1>0, <2>4
  <2>. QED BY <1>0, <1>4, <1>6, <2>2, <2>3, <2>4, <2>5 DEF Position
<1>15. CASE LoadSeqAfter(t)
  <2>1. local[t].spins + 1 = 1
    <3>1. pc[t] = "after" /\ ReadsOf(t)
      BY <1>0, <1>15 DEF LoadSeqAfter, At, Reads
    <3>. QED BY <3>1 DEF ReadsOf
  <2>2. CASE Local(t, [NoLocals EXCEPT !.spins = local[t].spins + 1]) /\ UNCHANGED cursor
    <3>1. local'[t] = [NoLocals EXCEPT !.spins = 1] /\ \A u \in Threads \ {t} : local'[u] = local[u]
      BY <1>0, <2>1, <2>2 DEF Local
    <3>. QED BY <1>0, <1>4, <1>6, <2>2, <3>1, Slates DEF Empty, Position
  <2>. QED BY <1>7, <1>8, <1>15, <2>2 DEF LoadSeqAfter
<1>. QED BY <1>11, <1>12, <1>13, <1>14, <1>15

(* Calls, the value of a send, and its publication.                         *)
LEMMA CallPaces ==
  ASSUME Within, NEW t \in Threads,
         Check(t) \/ RecvCall(t) \/ RegisterSelect(t) \/ Complete(t) \/ StoreValue(t) \/ StoreSeq(t)
  PROVE  Paces(t) /\ Orderly(Steps)'
<1>0. /\ Orderly(Steps) /\ DOMAIN pc = Threads /\ DOMAIN local = Threads /\ DOMAIN cursor = Threads
      /\ Position(t) /\ writeSeq \in Nat /\ tail \in [Threads -> Int]
      /\ DOMAIN value = 0 .. Cap - 1 /\ Claims /\ MaxSpins \in Nat
  BY BroadcastAssumption DEF Within, Orderly, Bounded, BroadcastInv, Types
<1>. USE DEF At, Step, Answer, Finish, Paces, Position, broadcastVars, localVars, quietVars
<1>1. CASE Check(t)
  <2>1. Paces(t) /\ Timed
    BY <1>0, <1>1 DEF Check, CheckReceivers, Timed
  <2>2. Finish(t) \/ Step(t, "claim")
    BY <1>1 DEF Check, CheckReceivers
  <2>. QED BY <1>0, <2>1, <2>2, StepsOfBroadcast, OrderlyStep, OrderlyFinish
<1>2. CASE RecvCall(t)
  <2>1. PICK operation \in {"recv", "try_recv"} : Call(t, operation, "recv", "look")
    BY <1>2 DEF RecvCall
  <2>2. Paces(t)
    BY <1>0, <1>2, <2>1 DEF RecvCall, Call
  <2>. QED BY <1>0, <2>1, <2>2, StepsOfBroadcast, OrderlyCall
<1>3. CASE RegisterSelect(t)
  <2>1. Paces(t) /\ Timed
    BY <1>0, <1>3 DEF RegisterSelect, Timed
  <2>2. PICK to \in {"probe", "enrol_more", "push"} : Step(t, to)
    BY <1>3 DEF RegisterSelect
  <2>3. to \in Steps \ {"idle", "unborn"}
    BY StepsOfBroadcast
  <2>. QED BY <1>0, <2>1, <2>2, <2>3, OrderlyStep
<1>4. CASE Complete(t)
  <2>1. CompleteBy(t, "recv", "look")
    BY <1>4 DEF Complete
  <2>2. tail' \in [Threads -> Int] /\ tail'[t] = Away /\ \A u \in Threads \ {t} : tail'[u] = tail[u]
    BY <1>0, <1>4 DEF Complete, Away
  <2>3. Paces(t)
    BY <1>0, <1>4, <2>2 DEF Complete, CompleteBy, Away
  <2>. QED BY <1>0, <2>1, <2>3, StepsOfBroadcast, OrderlyCall
<1>5. CASE StoreValue(t)
  <2>1. local[t].claimed \in 0 .. writeSeq - 1
    BY <1>0, <1>5 DEF StoreValue, Claims, Filling
  <2>2. \A i \in 0 .. Cap - 1 : value'[i] = value[i] \/ value'[i] \in 0 .. writeSeq - 1
    BY <1>0, <1>5, <2>1 DEF StoreValue
  <2>3. Paces(t) /\ Timed /\ Step(t, "stamp")
    BY <1>0, <1>5, <2>2 DEF StoreValue, Timed
  <2>. QED BY <1>0, <2>3, StepsOfBroadcast, OrderlyStep
<1>6. CASE StoreSeq(t)
  <2>1. local'[t] = NoLocals /\ \A u \in Threads \ {t} : local'[u] = local[u]
    BY <1>0, <1>6 DEF StoreSeq, Local
  <2>2. Finish(t) /\ Timed
    BY <1>6 DEF StoreSeq, Timed
  <2>3. /\ \A u \in Threads \ {t} : pc'[u] = pc[u]
        /\ pc'[t] = "idle" /\ UNCHANGED <<program, writeSeq, lapped, value, cursor, tail>>
    BY <1>0, <1>6 DEF StoreSeq
  <2>4. Position(t)'
    BY <1>0, <2>1, <2>3, Slates DEF Empty
  <2>5. Paces(t)
    BY <1>0, <2>1, <2>3, <2>4
  <2>. QED BY <1>0, <2>2, <2>5, StepsOfBroadcast, OrderlyFinish
<1>. QED BY <1>1, <1>2, <1>3, <1>4, <1>5, <1>6

(* The probes of select!, the registration, the park, the end of a call,    *)
(* and what happens outside any call.                                       *)
LEMMA WaitPaces ==
  ASSUME Within, NEW t \in Threads,
         \/ SelectBegins(t) \/ Probe(t) \/ ProbeSenders(t) \/ ReturnMessage(t)
         \/ /\ \/ Enlist(t, "look") \/ ParkReturns(t, "park", "again") \/ Again(t, "look")
               \/ PushArm(t, "push") \/ SelectStep(t) \/ (WakeStep(t) /\ UNCHANGED endVars)
               \/ DeadlinePasses(t) \/ DropSender(t) \/ DropReceiver(t) \/ Spurious(t)
            /\ UNCHANGED broadcastVars
  PROVE  Paces(t) /\ Orderly(Steps)'
<1>0. /\ Orderly(Steps) /\ EndTypes /\ DOMAIN pc = Threads /\ DOMAIN local = Threads
      /\ Position(t) /\ writeSeq \in Nat /\ tail \in [Threads -> Int] /\ MaxSpins \in Nat
  BY BroadcastAssumption DEF Within, Orderly, Bounded, BroadcastInv, Types
<1>. USE DEF At, Step, Answer, Finish, Paces, Position, broadcastVars, localVars, quietVars
<1>1. CASE SelectBegins(t)
  <2>1. /\ tail' \in [Threads -> Int] /\ tail'[t] = writeSeq
        /\ \A u \in Threads \ {t} : tail'[u] = tail[u]
    BY <1>0, <1>1 DEF SelectBegins
  <2>2. Paces(t)
    BY <1>0, <1>1, <2>1 DEF SelectBegins, SelectCall, probeVars, Away
  <2>. QED BY <1>0, <1>1, <2>2, StepsOfBroadcast, OrderlySelectCall DEF SelectBegins
<1>2. CASE Probe(t)
  <2>1. CASE ArmReady(t)
    <3>1. Paces(t)
      BY <1>0, <1>2, <2>1 DEF Probe, ArmReady, CompleteArm, Proceed, probeVars
    <3>. QED BY <1>0, <1>2, <2>1, <3>1, StepsOfBroadcast, OrderlyProbe DEF Probe, probeVars
  <2>2. CASE Step(t, "probe_more") /\ UNCHANGED <<arm, selected>>
    <3>1. Paces(t) /\ Timed
      BY <1>0, <1>2, <2>2 DEF Probe, probeVars, Timed
    <3>. QED BY <1>0, <2>2, <3>1, StepsOfBroadcast, OrderlyStep
  <2>. QED BY <1>2, <2>1, <2>2 DEF Probe
<1>3. CASE ProbeSenders(t)
  <2>1. CASE ArmReady(t)
    <3>1. Paces(t)
      BY <1>0, <1>3, <2>1 DEF ProbeSenders, ArmReady, CompleteArm, Proceed, probeVars
    <3>. QED BY <1>0, <1>3, <2>1, <3>1, StepsOfBroadcast, OrderlyProbe DEF ProbeSenders, probeVars
  <2>2. CASE ArmNotReady(t)
    <3>1. Paces(t)
      BY <1>0, <1>3, <2>2 DEF ProbeSenders, ArmNotReady, TakeDefault, Proceed, probeVars
    <3>. QED BY <1>0, <1>3, <2>2, <3>1, StepsOfBroadcast, OrderlyProbe DEF ProbeSenders, probeVars
  <2>. QED BY <1>3, <2>1, <2>2 DEF ProbeSenders
<1>4. CASE ReturnMessage(t)
  <2>1. local'[t] = NoLocals /\ \A u \in Threads \ {t} : local'[u] = local[u]
    BY <1>0, <1>4 DEF ReturnMessage, Local
  <2>2. Position(t)'
    BY <1>0, <1>4, <2>1, Slates DEF ReturnMessage, Empty
  <2>3. Paces(t)
    BY <1>0, <1>4, <2>1, <2>2 DEF ReturnMessage, Return
  <2>. QED BY <1>0, <1>4, <2>3, StepsOfBroadcast, OrderlyWait DEF ReturnMessage
<1>5. CASE /\ Enlist(t, "look") \/ ParkReturns(t, "park", "again") \/ Again(t, "look")
           /\ UNCHANGED broadcastVars
  <2>1. Paces(t)
    BY <1>0, <1>5 DEF Enlist, ParkReturns, Again
  <2>. QED BY <1>0, <1>5, <2>1, StepsOfBroadcast, OrderlyWait
<1>6. CASE PushArm(t, "push") /\ UNCHANGED broadcastVars
  <2>1. Paces(t)
    BY <1>0, <1>6 DEF PushArm
  <2>. QED BY <1>0, <1>6, <2>1, StepsOfBroadcast, OrderlyPush
<1>7. CASE SelectStep(t) /\ UNCHANGED broadcastVars
  <2>1. ASSUME Decide(t) \/ WakeUp(t) PROVE Paces(t)
    BY <1>0, <1>7, <2>1 DEF Decide, WakeUp
  <2>2. ASSUME AbortLoad(t) \/ Walk(t) PROVE Paces(t)
    BY <1>0, <1>7, <2>2 DEF AbortLoad, Walk, Proceed
  <2>3. ASSUME Judge(t) PROVE Paces(t)
    BY <1>0, <1>7, <2>3 DEF Judge, CompleteArm, TakeDefault, Proceed, probeVars
  <2>4. Paces(t)
    BY <1>7, <2>1, <2>2, <2>3 DEF SelectStep
  <2>. QED BY <1>0, <1>7, <2>4, StepsOfBroadcast, OrderlySelect
<1>8. CASE WakeStep(t) /\ UNCHANGED endVars /\ UNCHANGED broadcastVars
  <2>1. Paces(t)
    BY <1>0, <1>8 DEF endVars
  <2>. QED BY <1>0, <1>8, <2>1, OrderlyUnchanged
<1>9. CASE /\ DeadlinePasses(t) \/ DropSender(t) \/ DropReceiver(t) \/ Spurious(t)
           /\ UNCHANGED broadcastVars
  <2>1. Paces(t)
    BY <1>0, <1>9 DEF DeadlinePasses, DropSender, DropReceiver, DropHandle, Spurious
  <2>. QED BY <1>0, <1>9, <2>1, StepsOfBroadcast, OrderlyChance
<1>. QED BY <1>1, <1>2, <1>3, <1>4, <1>5, <1>6, <1>7, <1>8, <1>9

(* A clone; and the two steps of a send that count.                         *)
LEMMA SubscribePaces ==
  ASSUME Within, NEW t \in Threads, NEW x \in Threads, Subscribe(t, x)
  PROVE  Paces(x) /\ Orderly(Steps)'
<1>0. /\ Orderly(Steps) /\ EndTypes /\ DOMAIN pc = Threads /\ DOMAIN cursor = Threads
      /\ Position(x) /\ writeSeq \in Nat /\ tail \in [Threads -> Int]
  BY DEF Within, Orderly, Bounded, BroadcastInv, Types
<1>1. CloneHandle(t, x) /\ UNCHANGED <<writeSeq, value, lapped, tail, local>>
  BY DEF Subscribe
<1>2. Away <= cursor'[x] /\ \A u \in Threads \ {x} : cursor'[u] = cursor[u]
  BY <1>0 DEF Subscribe, Away
<1>3. Paces(x)
  BY <1>0, <1>1, <1>2 DEF CloneHandle, Step, Paces, Position
<1>. QED BY <1>0, <1>1, <1>3, StepsOfBroadcast, OrderlyChance

LEMMA ClaimBounded ==
  ASSUME Within, NEW t \in Threads, ClaimSeq(t)
  PROVE  Bounded' /\ Orderly(Steps)'
<1>1. /\ pc[t] = "claim" /\ Step(t, "fill") /\ writeSeq' = writeSeq + 1
      /\ Local(t, [NoLocals EXCEPT !.claimed = writeSeq])
      /\ UNCHANGED <<program, value, cursor, tail, localVars>>
  BY DEF ClaimSeq, At, localVars, quietVars
<1>2. /\ Orderly(Steps) /\ DOMAIN pc = Threads /\ DOMAIN local = Threads /\ Bounded
      /\ writeSeq \in Nat /\ program.items \in Nat /\ local \in [Threads -> Locals]
      /\ value \in [0 .. Cap - 1 -> Int] /\ Types /\ Claims
  BY ProgramAssumption DEF Within, Orderly, BroadcastInv, Types
<1>3. pc'[t] = "fill" /\ \A u \in Threads \ {t} : pc'[u] = pc[u]
  BY <1>1, <1>2 DEF Step
<1>4. /\ t \in SendsUnderWay /\ t \notin SendsUnderWay' /\ SendsUnderWay' \subseteq SendsUnderWay
      /\ SendsUnderWay \subseteq Threads
  BY <1>1, <1>3 DEF SendsUnderWay
<1>5. /\ Cardinality(SendsUnderWay') + 1 <= Cardinality(SendsUnderWay)
      /\ Cardinality(SendsUnderWay) \in Nat /\ Cardinality(SendsUnderWay') \in Nat
  BY <1>4, FewThreads
<1>6. writeSeq' + Cardinality(SendsUnderWay') <= program'.items
  BY <1>1, <1>2, <1>5 DEF Bounded
<1>7. lapped' \subseteq 0 .. Cap - 1
  <2>1. SlotOf(writeSeq) \in 0 .. Cap - 1
    BY <1>2, SlotDivision
  <2>2. lapped' \subseteq lapped \cup {SlotOf(writeSeq)}
    BY DEF ClaimSeq
  <2>. QED BY <1>2, <2>1, <2>2 DEF Bounded
<1>8. /\ local'[t].claimed = writeSeq /\ local'[t].snapshot = Empty
      /\ local'[t].spins = 0 /\ local'[t].skipped = 0
      /\ \A u \in Threads \ {t} : local'[u] = local[u]
  BY <1>1, <1>2 DEF Local, NoLocals
<1>9. ASSUME NEW u \in Threads PROVE Position(u)'
  <2>1. Position(u) /\ local[u] \in Locals /\ tail[u] \in Int /\ MaxSpins \in Nat
    BY <1>2, BroadcastAssumption DEF Bounded
  <2>2. Away <= cursor'[u] /\ Away <= tail'[u] /\ tail'[u] <= writeSeq'
    BY <1>1, <1>2, <2>1 DEF Position
  <2>3. CASE u = t
    BY <1>1, <1>2, <1>8, <2>1, <2>2, <2>3 DEF Position, Empty
  <2>4. CASE u # t
    <3>1. local'[u] = local[u]
      BY <1>8, <2>4
    <3>. QED BY <1>1, <1>2, <2>1, <2>2, <3>1 DEF Position, Locals
  <2>. QED BY <2>3, <2>4
<1>10. \A i \in 0 .. Cap - 1 : Empty <= value'[i] /\ value'[i] < writeSeq'
  BY <1>1, <1>2 DEF Bounded
<1>11. Bounded'
  BY <1>1, <1>2, <1>6, <1>7, <1>9, <1>10 DEF Bounded
<1>12. Timed
  BY <1>1 DEF localVars, quietVars, Timed
<1>. QED BY <1>1, <1>2, <1>11, <1>12, StepsOfBroadcast, OrderlyStep

LEMMA SendBounded ==
  ASSUME Within, NEW t \in Threads, SendCall(t)
  PROVE  Bounded' /\ Orderly(Steps)'
<1>1. /\ writeSeq + Cardinality(SendsUnderWay) < program.items
      /\ Call(t, "send", "send", "check") /\ UNCHANGED broadcastVars
  BY DEF SendCall
<1>2. /\ Orderly(Steps) /\ DOMAIN pc = Threads /\ Bounded
      /\ writeSeq \in Nat /\ program.items \in Nat
  BY ProgramAssumption DEF Within, Orderly, BroadcastInv, Types
<1>3. program' = program /\ pc' = [pc EXCEPT ![t] = "check"]
  BY <1>1 DEF Call, localVars, quietVars
<1>4. /\ SendsUnderWay' \subseteq SendsUnderWay \cup {t} /\ SendsUnderWay \subseteq Threads
      /\ SendsUnderWay \cup {t} \subseteq Threads
  BY <1>2, <1>3 DEF SendsUnderWay
<1>5. /\ Cardinality(SendsUnderWay') <= Cardinality(SendsUnderWay) + 1
      /\ Cardinality(SendsUnderWay) \in Nat /\ Cardinality(SendsUnderWay') \in Nat
  <2>1. Cardinality(SendsUnderWay') <= Cardinality(SendsUnderWay \cup {t})
    BY <1>4, FewThreads
  <2>2. IsFiniteSet(SendsUnderWay)
    BY <1>4, EndpointAssumption, FS_Subset
  <2>3. Cardinality(SendsUnderWay \cup {t}) \in {Cardinality(SendsUnderWay), Cardinality(SendsUnderWay) + 1}
    BY <2>2, FS_AddElement
  <2>4. SendsUnderWay' \subseteq Threads
    BY <1>4
  <2>5. Cardinality(SendsUnderWay) \in Nat /\ Cardinality(SendsUnderWay') \in Nat
    BY <1>4, <2>4, FewThreads
  <2>. QED BY <2>1, <2>3, <2>5
<1>6. writeSeq' + Cardinality(SendsUnderWay') <= program'.items
  BY <1>1, <1>2, <1>3, <1>5 DEF broadcastVars
<1>7. \A u \in Threads : Position(u)'
  BY <1>1, <1>2 DEF Bounded, Position, broadcastVars
<1>8. Bounded'
  BY <1>1, <1>2, <1>6, <1>7 DEF Bounded, broadcastVars
<1>. QED BY <1>1, <1>2, <1>8, StepsOfBroadcast, OrderlyCall

LEMMA BoundedInductive ==
  ASSUME Within, [Next]_vars
  PROVE  Bounded' /\ Orderly(Steps)'
<1>0. Types /\ Bounded /\ Orderly(Steps)
  BY DEF Within, BroadcastInv
<1>1. CASE UNCHANGED vars
  <2>1. Orderly(Steps)'
    BY <1>0, <1>1, OrderlyUnchanged DEF vars
  <2>2. SendsUnderWay' = SendsUnderWay
    BY <1>1 DEF SendsUnderWay, vars, endVars
  <2>3. \A u \in Threads : Position(u)'
    BY <1>0, <1>1 DEF Bounded, Position, vars, broadcastVars
  <2>. QED BY <1>0, <1>1, <2>1, <2>2, <2>3 DEF Bounded, vars, endVars, broadcastVars
<1>2. CASE Over
  BY <1>1, <1>2 DEF Over
<1>3. ASSUME NEW t \in Threads, Paces(t) /\ Orderly(Steps)' PROVE Bounded' /\ Orderly(Steps)'
  BY <1>0, <1>3, PacesBounded
<1>. SUFFICES ASSUME NEW t \in Threads, BroadcastStep(t) \/ BroadcastChance(t)
              PROVE  Bounded' /\ Orderly(Steps)'
  BY <1>1, <1>2 DEF Next
<1>4. CASE \/ CountSenders(t) \/ LoadWriteSeq(t) \/ LoadSeqBefore(t) \/ CatchUp(t) \/ LoadValue(t)
           \/ LoadSeqAfter(t)
  BY <1>3, <1>4, ReceivePaces
<1>5. CASE \/ Check(t) \/ RecvCall(t) \/ RegisterSelect(t) \/ Complete(t) \/ StoreValue(t)
           \/ StoreSeq(t)
  BY <1>3, <1>5, CallPaces
<1>6. CASE \/ SelectBegins(t) \/ Probe(t) \/ ProbeSenders(t) \/ ReturnMessage(t)
           \/ /\ \/ Enlist(t, "look") \/ ParkReturns(t, "park", "again") \/ Again(t, "look")
                 \/ PushArm(t, "push") \/ SelectStep(t) \/ (WakeStep(t) /\ UNCHANGED endVars)
                 \/ DeadlinePasses(t) \/ DropSender(t) \/ DropReceiver(t) \/ Spurious(t)
              /\ UNCHANGED broadcastVars
  BY <1>3, <1>6, WaitPaces
<1>7. CASE ClaimSeq(t) \/ SendCall(t)
  BY <1>7, ClaimBounded, SendBounded
<1>8. CASE \E x \in Threads : Subscribe(t, x)
  BY <1>3, <1>8, SubscribePaces
<1>. QED BY <1>4, <1>5, <1>6, <1>7, <1>8 DEF BroadcastStep, BroadcastChance

LEMMA BoundedInitial ==
  ASSUME Init
  PROVE  Bounded /\ Orderly(Steps)
<1>1. {"idle", "unborn"} \subseteq Steps
  BY DEF Steps
<1>2. Orderly(Steps)
  BY <1>1, OrderlyInitial DEF Init
<1>3. /\ \A t \in Threads : pc[t] \in {"idle", "unborn"}
      /\ program \in Programs /\ writeSeq = 0 /\ lapped = {} /\ tail \in [Threads -> Int]
      /\ \A i \in 0 .. Cap - 1 : value[i] = Empty
      /\ \A t \in Threads : cursor[t] \in {0, Away} /\ tail[t] = Away /\ local[t] = NoLocals
  BY DEF Init, EndpointInit, BroadcastInit, Away
<1>4. SendsUnderWay = {}
  BY <1>3 DEF SendsUnderWay
<1>5. Cardinality(SendsUnderWay) = 0 /\ program.items \in Nat
  BY <1>3, <1>4, FS_EmptySet, ProgramAssumption
<1>6. \A t \in Threads : Position(t)
  BY <1>3, Slates, BroadcastAssumption DEF Position, Away, Empty
<1>7. Bounded
  BY <1>3, <1>5, <1>6 DEF Bounded, Empty
<1>. QED BY <1>2, <1>7

LEMMA WithinTypes ==
  ASSUME Within, WakeInvariant
  PROVE  TypeOK
<1>1. /\ Types /\ Bounded /\ Numbers /\ EndpointTypeOK /\ program.items \in Nat
      /\ writeSeq \in Nat /\ MaxSpins \in Nat
  BY EndpointTypes, ProgramAssumption, BroadcastAssumption DEF Within, EndTypes, BroadcastInv, Types
<1>2. writeSeq \in 0 .. program.items
  <2>1. SendsUnderWay \in SUBSET Threads
    BY DEF SendsUnderWay
  <2>2. Cardinality(SendsUnderWay) \in Nat
    BY <2>1, FewThreads
  <2>. QED BY <1>1, <2>2 DEF Bounded
<1>3. seq \in [0 .. Cap - 1 -> 0 .. writeSeq]
  <2>1. ASSUME NEW i \in 0 .. Cap - 1 PROVE seq[i] \in 0 .. writeSeq
    <3>1. seq[i] \in Nat /\ (seq[i] # 0 => seq[i] - 1 \in 0 .. writeSeq - 1)
      BY <1>1 DEF Types, Numbers, Published
    <3>. QED BY <1>1, <3>1
  <2>. QED BY <1>1, <2>1 DEF Types
<1>4. \A n \in Int : Empty <= n /\ n < writeSeq => n \in Messages \cup {Empty}
  BY <1>1, <1>2 DEF Messages, Empty
<1>5. value \in [0 .. Cap - 1 -> Messages \cup {Empty}]
  <2>1. ASSUME NEW i \in 0 .. Cap - 1 PROVE value[i] \in Messages \cup {Empty}
    BY <1>1, <1>4 DEF Types, Bounded
  <2>. QED BY <1>1, <2>1 DEF Types
<1>6. ASSUME NEW t \in Threads
      PROVE  /\ cursor[t] \in 0 .. writeSeq \cup {Away} /\ tail[t] \in 0 .. writeSeq \cup {Away}
             /\ local[t].claimed \in Messages \cup {Empty}
             /\ local[t].snapshot \in Messages \cup {Empty}
             /\ local[t].spins \in 0 .. MaxSpins + 1 /\ local[t].skipped \in Nat
  <2>1. /\ cursor[t] \in Int /\ tail[t] \in Int /\ local[t].claimed \in Int
        /\ local[t].snapshot \in Int /\ local[t].spins \in Nat /\ local[t].skipped \in Int
    BY <1>1 DEF Types, Bounded, Locals
  <2>2. Position(t) /\ cursor[t] <= writeSeq
    BY <1>1 DEF Bounded, WakeInvariant, Attends
  <2>3. cursor[t] \in 0 .. writeSeq \cup {Away} /\ tail[t] \in 0 .. writeSeq \cup {Away}
    BY <1>1, <2>1, <2>2 DEF Position, Away
  <2>4. /\ local[t].claimed \in Messages \cup {Empty} /\ local[t].snapshot \in Messages \cup {Empty}
    BY <1>4, <2>1, <2>2 DEF Position
  <2>5. local[t].spins \in 0 .. MaxSpins + 1 /\ local[t].skipped \in Nat
    BY <1>1, <2>1, <2>2 DEF Position
  <2>. QED BY <2>3, <2>4, <2>5
<1>. QED BY <1>1, <1>2, <1>3, <1>5, <1>6 DEF TypeOK, Types, Bounded

(* Every variable keeps its type and its bound: no number is ahead of the   *)
(* sends, no cursor ahead of the log, and a receive spins no more often     *)
(* than MAX_SPIN_RETRIES.                                                   *)
THEOREM BroadcastTypeCorrect == Spec => []TypeOK
<1>1. Init => Bounded /\ Orderly(Steps)
  BY BoundedInitial
<1>2. WakeInvariant => EndTypes
  BY DEF WakeInvariant, EndInv
<1>3. BroadcastInv /\ WakeInvariant /\ Bounded /\ Orderly(Steps) /\ [Next]_vars
        => Bounded' /\ Orderly(Steps)'
  BY <1>2, BoundedInductive DEF Within
<1>4. BroadcastInv /\ WakeInvariant /\ Bounded /\ Orderly(Steps) => TypeOK
  BY <1>2, WithinTypes DEF Within
<1>. QED BY <1>1, <1>3, <1>4, BroadcastInvariant, BroadcastWakes, PTL DEF Spec
=============================================================================
