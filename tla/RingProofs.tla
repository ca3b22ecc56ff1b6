----------------------------- MODULE RingProofs -----------------------------
(***************************************************************************)
(* Proofs about Ring for any number of threads and any capacity of at      *)
(* least two.  Lemmas on the slot arithmetic come first, then one lemma    *)
(* per action for the inductive invariant, then the theorems.              *)
(***************************************************************************)
EXTENDS Ring, TLAPS

-----------------------------------------------------------------------------
(* Arithmetic of positions modulo the capacity.                            *)

(* The slot of a position is its remainder: a slot number, and what is left *)
(* of the position once the full rounds are taken away.                     *)
LEMMA SlotDivision ==
  ASSUME Cap \in Nat, Cap >= 2, NEW i \in Nat
  PROVE  /\ Slot(i) \in Slots
         /\ i \div Cap \in Int
         /\ i = Cap * (i \div Cap) + Slot(i)
  BY CapAssumption, SMTT(30) DEF Slot, Slots

(* Two decompositions of positions d apart have different remainders when   *)
(* d is less than a round and the same one when it is exactly a round.      *)
LEMMA Remainders ==
  ASSUME Cap \in Nat, Cap >= 2, NEW a \in Int, NEW b \in Int, NEW d \in Nat,
         NEW r \in Slots, NEW s \in Slots, Cap * a + r + d = Cap * b + s
  PROVE  /\ 0 < d /\ d < Cap => r # s
         /\ d = Cap => r = s
<1>1. CASE b - a <= 0
  <2>1. Cap * (b - a) <= 0
    BY <1>1, SMTT(30)
  <2>2. Cap * (b - a) = r + d - s
    BY SMTT(30) DEF Slots
  <2>. QED  BY <2>1, <2>2 DEF Slots
<1>2. CASE b - a = 1
  <2>1. Cap * (b - a) = Cap
    BY <1>2, SMTT(30)
  <2>2. Cap * (b - a) = r + d - s
    BY SMTT(30) DEF Slots
  <2>. QED  BY <2>1, <2>2 DEF Slots
<1>3. CASE b - a >= 2
  <2>1. Cap * (b - a) >= Cap + Cap
    BY <1>3, SMTT(30)
  <2>2. Cap * (b - a) = r + d - s
    BY SMTT(30) DEF Slots
  <2>. QED  BY <2>1, <2>2 DEF Slots
<1>. QED  BY <1>1, <1>2, <1>3

(* Positions less than cap apart lie in different slots; positions exactly  *)
(* cap apart share one (the "pos % self.cap" of try_push and try_pop).      *)
LEMMA SlotStep ==
  ASSUME Cap \in Nat, Cap >= 2, NEW i \in Nat, NEW d \in Nat
  PROVE  /\ 0 < d /\ d < Cap => Slot(i) # Slot(i + d)
         /\ d = Cap => Slot(i) = Slot(i + d)
<1>. DEFINE a == i \div Cap
            b == (i + d) \div Cap
<1>1. a \in Int /\ i = Cap * a + Slot(i) /\ Slot(i) \in Slots
  BY SlotDivision
<1>2. b \in Int /\ i + d = Cap * b + Slot(i + d) /\ Slot(i + d) \in Slots
  <2>1. i + d \in Nat
    OBVIOUS
  <2>2. /\ Slot(i + d) \in Slots
        /\ i + d = Cap * ((i + d) \div Cap) + Slot(i + d)
        /\ (i + d) \div Cap \in Int
    BY ONLY <2>1, SlotDivision, Cap \in Nat, Cap >= 2
  <2>. QED  BY <2>2
<1>3. Cap * a + Slot(i) + d = Cap * b + Slot(i + d)
  <2>. HIDE DEF a, b
  <2>. QED  BY <1>1, <1>2 DEF Slots
<1>. DEFINE r == Slot(i)
            s == Slot(i + d)
<1>4. a \in Int /\ b \in Int /\ r \in Slots /\ s \in Slots /\ Cap * a + r + d = Cap * b + s
  BY <1>1, <1>2, <1>3
<1>. HIDE DEF a, b, r, s
<1>5. /\ 0 < d /\ d < Cap => r # s
      /\ d = Cap => r = s
  BY <1>4, Remainders DEF Slots
<1>. QED  BY <1>5 DEF r, s

(* The same for two positions given in either order.                        *)
LEMMA SlotsDiffer ==
  ASSUME Cap \in Nat, Cap >= 2, NEW i \in Nat, NEW j \in Nat,
         i # j, i < j + Cap, j < i + Cap
  PROVE  Slot(i) # Slot(j)
<1>1. CASE i < j
  <2>1. j - i \in Nat /\ 0 < j - i /\ j - i < Cap /\ j = i + (j - i)
    BY <1>1
  <2>. QED  BY <2>1, SlotStep
<1>2. CASE j < i
  <2>1. i - j \in Nat /\ 0 < i - j /\ i - j < Cap /\ i = j + (i - j)
    BY <1>2
  <2>. QED  BY <2>1, SlotStep
<1>. QED  BY <1>1, <1>2

LEMMA SlotRound ==
  ASSUME Cap \in Nat, Cap >= 2, NEW i \in Nat
  PROVE  Slot(i + Cap) = Slot(i) /\ Slot(i) \in Slots
  BY SlotStep, SlotDivision

-----------------------------------------------------------------------------
(* What a step on the way to a claim does to the invariant.                 *)

(* A step that leaves the shared words and the claims alone keeps the       *)
(* protocol of the slots and their contents.                                *)
LEMMA SharedUnchanged ==
  ASSUME SequenceProtocol, PublishedItems, UNCHANGED <<tail, head, seq, val>>,
         Writing' = Writing, Reading' = Reading
  PROVE  SequenceProtocol' /\ PublishedItems'
  BY DEF SequenceProtocol, PublishedItems

(* A thread that moves between steps without holding a slot before or after *)
(* changes no claim.                                                        *)
LEMMA ClaimsUnchanged ==
  ASSUME TypeOK, ClaimsDistinct, NEW t \in Threads, pc[t] \notin Holding,
         pc' = [pc EXCEPT ![t] = pc'[t]], pc'[t] \notin Holding,
         pos' = [pos EXCEPT ![t] = pos'[t]]
  PROVE  Writing' = Writing /\ Reading' = Reading /\ ClaimsDistinct'
<1>1. \A u \in Threads : pc'[u] \in Holding <=> pc[u] \in Holding
  BY DEF TypeOK
<1>2. \A u \in Threads : pc[u] \in Holding => pos'[u] = pos[u]
  BY DEF TypeOK
<1>3. Writing' = Writing /\ Reading' = Reading
  BY <1>1, <1>2 DEF Writing, Reading, Threads
<1>4. ClaimsDistinct'
  BY <1>1, <1>2 DEF ClaimsDistinct
<1>. QED  BY <1>3, <1>4

LEMMA PushLoadTailInv ==
  ASSUME IndInv, NEW p \in Producers, PushLoadTail(p)
  PROVE  IndInv'
<1>1. p \in Threads /\ p \notin Consumers
  BY ThreadsAssumption DEF Threads
<1>2. TypeOK'
  BY <1>1 DEF IndInv, TypeOK, PushLoadTail, Trying
<1>3. Writing' = Writing /\ Reading' = Reading /\ ClaimsDistinct'
  BY <1>1, ClaimsUnchanged DEF IndInv, TypeOK, PushLoadTail, Holding, Resting
<1>4. SequenceProtocol' /\ PublishedItems'
  BY <1>3, SharedUnchanged DEF IndInv, PushLoadTail
<1>5. ASSUME NEW x \in Producers PROVE ProducerOK(x)'
  BY <1>1, <1>3 DEF IndInv, TypeOK, PushLoadTail, ProducerOK, Holding, Threads
<1>6. ASSUME NEW c \in Consumers PROVE ConsumerOK(c)'
  BY <1>1, <1>3 DEF IndInv, TypeOK, PushLoadTail, ConsumerOK, Threads
<1>. QED  BY <1>2, <1>3, <1>4, <1>5, <1>6 DEF IndInv

LEMMA PushLoadSeqInv ==
  ASSUME Cap \in Nat, Cap >= 2, IndInv, NEW p \in Producers, PushLoadSeq(p)
  PROVE  IndInv'
<1>1. p \in Threads /\ p \notin Consumers
  BY ThreadsAssumption DEF Threads
<1>2. TypeOK'
  BY <1>1 DEF IndInv, TypeOK, PushLoadSeq, Goto, Trying, Resting
<1>3. Writing' = Writing /\ Reading' = Reading /\ ClaimsDistinct'
  BY <1>1, ClaimsUnchanged DEF IndInv, TypeOK, PushLoadSeq, Goto, Holding
<1>4. SequenceProtocol' /\ PublishedItems'
  BY <1>3, SharedUnchanged DEF IndInv, PushLoadSeq
<1>5. ASSUME pc'[p] = "cas", pos[p] = tail
      PROVE  tail < head + Cap /\ tail - Cap \notin Reading
  <2>1. seq[Slot(tail)] = tail
    BY <1>1, <1>5 DEF IndInv, TypeOK, PushLoadSeq, Goto
  <2>2. tail < head + Cap
    <3>1. SUFFICES ASSUME tail = head + Cap PROVE FALSE
      BY DEF IndInv, TypeOK, SequenceProtocol
    <3>2. Slot(tail) = Slot(head)
      BY <3>1, SlotRound DEF IndInv, TypeOK
    <3>3. seq[Slot(head)] \in {head, head + 1}
      BY <3>1 DEF IndInv, TypeOK, SequenceProtocol
    <3>. QED  BY <2>1, <3>1, <3>2, <3>3 DEF IndInv, TypeOK
  <2>3. seq[Slot(tail)] = IF tail - Cap \in Reading THEN tail - Cap + 1 ELSE tail
    BY <2>2 DEF IndInv, TypeOK, SequenceProtocol
  <2>. QED  BY <2>1, <2>2, <2>3 DEF IndInv, TypeOK
<1>6. ASSUME NEW x \in Producers PROVE ProducerOK(x)'
  BY <1>1, <1>3, <1>5 DEF IndInv, TypeOK, PushLoadSeq, Goto, ProducerOK, Holding, Threads
<1>7. ASSUME NEW c \in Consumers PROVE ConsumerOK(c)'
  BY <1>1, <1>3 DEF IndInv, TypeOK, PushLoadSeq, Goto, ConsumerOK, Threads
<1>. QED  BY <1>2, <1>3, <1>4, <1>6, <1>7 DEF IndInv

LEMMA PushCasFailsInv ==
  ASSUME IndInv, NEW p \in Producers, PushCasFails(p)
  PROVE  IndInv'
<1>1. p \in Threads /\ p \notin Consumers
  BY ThreadsAssumption DEF Threads
<1>2. TypeOK'
  BY <1>1 DEF IndInv, TypeOK, PushCasFails, Goto, Trying
<1>3. Writing' = Writing /\ Reading' = Reading /\ ClaimsDistinct'
  BY <1>1, ClaimsUnchanged DEF IndInv, TypeOK, PushCasFails, Goto, Holding
<1>4. SequenceProtocol' /\ PublishedItems'
  BY <1>3, SharedUnchanged DEF IndInv, PushCasFails
<1>5. ASSUME NEW x \in Producers PROVE ProducerOK(x)'
  BY <1>1, <1>3 DEF IndInv, TypeOK, PushCasFails, Goto, ProducerOK, Holding, Threads
<1>6. ASSUME NEW c \in Consumers PROVE ConsumerOK(c)'
  BY <1>1, <1>3 DEF IndInv, TypeOK, PushCasFails, Goto, ConsumerOK, Threads
<1>. QED  BY <1>2, <1>3, <1>4, <1>5, <1>6 DEF IndInv

-----------------------------------------------------------------------------
(* Claiming, filling and publishing a slot.                                 *)

LEMMA PushCasInv ==
  ASSUME Cap \in Nat, Cap >= 2, IndInv, NEW p \in Producers, PushCas(p)
  PROVE  IndInv'
<1>1. p \in Threads /\ p \notin Consumers
  BY ThreadsAssumption DEF Threads
<1>2. TypeOK'
  BY <1>1 DEF IndInv, TypeOK, PushCas, Goto, Holding
<1>3. /\ pos[p] = tail /\ tail' = tail + 1
      /\ tail < head + Cap /\ tail - Cap \notin Reading
  BY DEF IndInv, ProducerOK, PushCas, Goto
<1>4. Writing' = Writing \cup {tail} /\ Reading' = Reading
  BY <1>1, <1>3 DEF IndInv, TypeOK, PushCas, Goto, Writing, Reading, Threads, Holding
<1>5. tail \notin Writing
  BY DEF IndInv, TypeOK, ProducerOK, Writing
<1>6. SequenceProtocol'
  <2>1. head' <= tail' /\ tail' <= head' + Cap
    BY <1>3 DEF IndInv, TypeOK, SequenceProtocol, PushCas
  <2>2. ASSUME NEW i \in head .. tail
        PROVE  seq[Slot(i)] = IF i \in Writing' THEN i ELSE i + 1
    <3>1. CASE i = tail
      BY <3>1, <1>3, <1>4 DEF IndInv, TypeOK, SequenceProtocol
    <3>2. CASE i # tail
      BY <3>2, <1>4 DEF IndInv, TypeOK, SequenceProtocol
    <3>. QED  BY <3>1, <3>2
  <2>3. ASSUME NEW i \in (tail + 1) .. (head + Cap - 1)
        PROVE  seq[Slot(i)] = IF i - Cap \in Reading' THEN i - Cap + 1 ELSE i
    BY <1>4 DEF IndInv, TypeOK, SequenceProtocol
  <2>. QED  BY <2>1, <2>2, <2>3, <1>3 DEF SequenceProtocol, PushCas, IndInv, TypeOK
<1>7. ASSUME NEW x \in Producers PROVE ProducerOK(x)'
  <2>1. pos' = pos /\ head' = head /\ val' = val /\ seq' = seq
    BY DEF PushCas
  <2>2. CASE x = p
    BY <2>1, <2>2, <1>1, <1>3 DEF IndInv, TypeOK, SequenceProtocol, PushCas, Goto, ProducerOK, Holding
  <2>3. CASE x # p
    <3>1. pc'[x] = pc[x]
      BY <2>3, <1>1 DEF IndInv, TypeOK, PushCas, Goto, Threads
    <3>2. seq[Slot(tail)] = tail
      BY <1>3 DEF IndInv, TypeOK, SequenceProtocol
    <3>. QED  BY <2>1, <3>1, <3>2, <1>3, <1>4 DEF IndInv, TypeOK, ProducerOK, Threads
  <2>. QED  BY <2>2, <2>3
<1>8. ASSUME NEW c \in Consumers PROVE ConsumerOK(c)'
  <2>1. pos' = pos /\ head' = head /\ val' = val /\ got' = got /\ seq' = seq
    BY DEF PushCas
  <2>2. pc'[c] = pc[c]
    BY <1>1 DEF IndInv, TypeOK, PushCas, Goto, Threads
  <2>3. pc[c] \in Holding => tail' - Cap <= pos[c]
    <3>1. pc[c] \in Holding => pos[c] \in Reading
      BY DEF Reading
    <3>. QED  BY <3>1, <1>3 DEF IndInv, TypeOK, ConsumerOK, Threads
  <2>4. head < tail => (head \notin Writing => head \notin Writing')
    BY <1>4 DEF IndInv, TypeOK
  <2>. QED  BY <2>1, <2>2, <2>3, <2>4, <1>3 DEF IndInv, TypeOK, ConsumerOK, Threads
<1>9. ClaimsDistinct'
  <2>1. \A x \in Producers : pc[x] \in Holding => pos[x] # tail
    BY <1>5 DEF Writing
  <2>2. \A t \in Threads \ {p} : pc'[t] = pc[t]
    BY DEF IndInv, TypeOK, PushCas, Goto
  <2>3. pos' = pos /\ pos[p] = tail
    BY <1>3 DEF PushCas
  <2>. QED  BY <2>1, <2>2, <2>3, <1>1 DEF IndInv, ClaimsDistinct
<1>10. PublishedItems'
  BY <1>3, <1>4 DEF IndInv, TypeOK, PublishedItems, PushCas
<1>. QED  BY <1>2, <1>6, <1>7, <1>8, <1>9, <1>10 DEF IndInv

LEMMA PushWriteInv ==
  ASSUME Cap \in Nat, Cap >= 2, IndInv, NEW p \in Producers, PushWrite(p)
  PROVE  IndInv'
<1>1. p \in Threads /\ p \notin Consumers
  BY ThreadsAssumption DEF Threads
<1>2. /\ pos[p] \in head .. (tail - 1) /\ pc[p] \in Holding
      /\ UNCHANGED <<tail, head, seq, pos, got>>
  BY DEF IndInv, ProducerOK, PushWrite, Goto, Holding
<1>3. TypeOK'
  BY <1>1 DEF IndInv, TypeOK, PushWrite, Goto, Holding
<1>4. /\ \A t \in Threads : pc'[t] \in Holding <=> pc[t] \in Holding
      /\ \A t \in Threads \ {p} : pc'[t] = pc[t]
      /\ pc'[p] = "store"
  BY <1>1 DEF IndInv, TypeOK, PushWrite, Goto, Holding
<1>5. Writing' = Writing /\ Reading' = Reading /\ pos[p] \in Writing
  BY <1>2, <1>4 DEF Writing, Reading, Threads
<1>6. \A s \in Slots : val'[s] = IF s = Slot(pos[p]) THEN pos[p] ELSE val[s]
  BY DEF IndInv, TypeOK, PushWrite
<1>7. SequenceProtocol'
  BY <1>2, <1>5 DEF IndInv, SequenceProtocol
<1>8. ASSUME NEW x \in Producers PROVE ProducerOK(x)'
  <2>1. CASE x = p
    BY <2>1, <1>1, <1>2, <1>4, <1>6, SlotRound DEF IndInv, TypeOK, ProducerOK, Holding
  <2>2. CASE x # p
    <3>1. pc[x] = "store" => Slot(pos[x]) # Slot(pos[p])
      BY <2>2, <1>1, <1>2, SlotsDiffer
         DEF IndInv, TypeOK, SequenceProtocol, ProducerOK, ClaimsDistinct, Holding, Threads
    <3>2. pc[x] = "store" => val'[Slot(pos[x])] = val[Slot(pos[x])]
      BY <3>1, <1>6, SlotRound DEF IndInv, TypeOK, Threads
    <3>. QED  BY <2>2, <3>2, <1>2, <1>4, <1>5 DEF IndInv, ProducerOK, Threads
  <2>. QED  BY <2>1, <2>2
<1>9. ASSUME NEW c \in Consumers PROVE ConsumerOK(c)'
  <2>1. pc[c] = "access" => Slot(pos[c]) # Slot(pos[p])
    <3>. SUFFICES ASSUME pc[c] = "access" PROVE Slot(pos[c]) # Slot(pos[p])
      OBVIOUS
    <3>1. pos[c] < head /\ tail - Cap <= pos[c] /\ pos[c] \in Nat
      BY DEF IndInv, TypeOK, ConsumerOK, Holding, Threads
    <3>. QED  BY <3>1, <1>2, SlotsDiffer DEF IndInv, TypeOK
  <2>2. pc[c] = "access" => val'[Slot(pos[c])] = val[Slot(pos[c])]
    BY <2>1, <1>6, SlotRound DEF IndInv, TypeOK, Threads
  <2>3. pc'[c] = pc[c]
    BY <1>1, <1>4 DEF Threads
  <2>. QED  BY <2>2, <2>3, <1>2, <1>5 DEF IndInv, ConsumerOK
<1>10. ClaimsDistinct'
  BY <1>2, <1>4 DEF IndInv, ClaimsDistinct
<1>11. PublishedItems'
  <2>. SUFFICES ASSUME NEW i \in (head .. (tail - 1)) \ Writing
                PROVE  val'[Slot(i)] = i
    BY <1>2, <1>5 DEF PublishedItems
  <2>1. Slot(i) # Slot(pos[p])
    BY <1>2, <1>5, SlotsDiffer DEF IndInv, TypeOK, SequenceProtocol
  <2>2. Slot(i) \in Slots
    BY SlotRound DEF IndInv, TypeOK
  <2>. QED  BY <2>1, <2>2, <1>6 DEF IndInv, PublishedItems
<1>. QED  BY <1>3, <1>7, <1>8, <1>9, <1>10, <1>11 DEF IndInv

LEMMA PushStoreInv ==
  ASSUME Cap \in Nat, Cap >= 2, IndInv, NEW p \in Producers, PushStore(p)
  PROVE  IndInv'
<1>1. p \in Threads /\ p \notin Consumers
  BY ThreadsAssumption DEF Threads
<1>2. /\ pos[p] \in head .. (tail - 1) /\ pc[p] \in Holding
      /\ UNCHANGED <<tail, head, val, pos, got>>
  BY DEF IndInv, ProducerOK, PushStore, Goto, Holding
<1>3. TypeOK'
  <2>1. seq' \in [Slots -> Nat]
    <3>1. pos[p] + 1 \in Nat
      BY <1>1 DEF IndInv, TypeOK
    <3>2. seq \in [Slots -> Nat] /\ seq' = [seq EXCEPT ![Slot(pos[p])] = pos[p] + 1]
      BY DEF IndInv, TypeOK, PushStore
    <3>. QED  BY ONLY <3>1, <3>2
  <2>2. pc' \in [Threads -> Resting \cup Trying \cup Holding]
    BY DEF IndInv, TypeOK, PushStore, Goto, Resting
  <2>. QED  BY <2>1, <2>2, <1>2 DEF IndInv, TypeOK, PushStore
<1>4. /\ \A t \in Threads \ {p} : pc'[t] = pc[t]
      /\ pc'[p] = "ok"
  BY <1>1 DEF IndInv, TypeOK, PushStore, Goto
<1>5. Writing' = Writing \ {pos[p]} /\ Reading' = Reading /\ pos[p] \in Writing
  <2>1. \A x \in Producers : x # p /\ pc[x] \in Holding => pos[x] # pos[p]
    BY <1>1, <1>2 DEF IndInv, ClaimsDistinct, Threads
  <2>. QED  BY <2>1, <1>1, <1>2, <1>4 DEF Writing, Reading, Threads, Holding
<1>6. \A s \in Slots : seq'[s] = IF s = Slot(pos[p]) THEN pos[p] + 1 ELSE seq[s]
  BY DEF IndInv, TypeOK, PushStore
<1>7. SequenceProtocol'
  <2>1. \A i \in head .. (head + Cap - 1) : i # pos[p] =>
          Slot(i) # Slot(pos[p]) /\ Slot(i) \in Slots
    BY <1>2, SlotsDiffer, SlotRound DEF IndInv, TypeOK, SequenceProtocol
  <2>2. ASSUME NEW i \in head .. (tail - 1)
        PROVE  seq'[Slot(i)] = IF i \in Writing' THEN i ELSE i + 1
    <3>1. CASE i = pos[p]
      BY <3>1, <1>2, <1>5, <1>6, SlotRound DEF IndInv, TypeOK
    <3>2. CASE i # pos[p]
      BY <3>2, <2>1, <1>5, <1>6 DEF IndInv, TypeOK, SequenceProtocol
    <3>. QED  BY <3>1, <3>2
  <2>3. ASSUME NEW i \in tail .. (head + Cap - 1)
        PROVE  seq'[Slot(i)] = IF i - Cap \in Reading' THEN i - Cap + 1 ELSE i
    BY <2>1, <1>2, <1>5, <1>6 DEF IndInv, TypeOK, SequenceProtocol
  <2>. QED  BY <2>2, <2>3, <1>2 DEF IndInv, SequenceProtocol
<1>12. \A s \in Slots : seq'[s] >= seq[s]
  BY <1>2, <1>5, <1>6, SlotRound DEF IndInv, TypeOK, SequenceProtocol
<1>13. /\ Writing' \subseteq Writing /\ Reading' \subseteq Reading
       /\ \A t \in Threads : Slot(pos[t]) \in Slots /\ pos[t] \in Nat
       /\ seq \in [Slots -> Nat] /\ seq' \in [Slots -> Nat]
  BY <1>3, <1>5, SlotRound DEF IndInv, TypeOK
<1>8. ASSUME NEW x \in Producers PROVE ProducerOK(x)'
  BY <1>1, <1>2, <1>4, <1>12, <1>13 DEF IndInv, ProducerOK, Threads, Holding
<1>9. ASSUME NEW c \in Consumers PROVE ConsumerOK(c)'
  BY <1>1, <1>2, <1>4, <1>12, <1>13 DEF IndInv, ConsumerOK, Threads
<1>10. ClaimsDistinct'
  BY <1>2, <1>4 DEF IndInv, ClaimsDistinct, Holding
<1>11. PublishedItems'
  BY <1>2, <1>5 DEF IndInv, PublishedItems, ProducerOK, PushStore, Goto
<1>. QED  BY <1>3, <1>7, <1>8, <1>9, <1>10, <1>11 DEF IndInv

-----------------------------------------------------------------------------
(* The consumers' steps.                                                    *)

LEMMA PopLoadHeadInv ==
  ASSUME IndInv, NEW c \in Consumers, PopLoadHead(c)
  PROVE  IndInv'
<1>1. c \in Threads /\ c \notin Producers
  BY ThreadsAssumption DEF Threads
<1>2. TypeOK'
  BY <1>1 DEF IndInv, TypeOK, PopLoadHead, Trying
<1>3. Writing' = Writing /\ Reading' = Reading /\ ClaimsDistinct'
  BY <1>1, ClaimsUnchanged DEF IndInv, TypeOK, PopLoadHead, Holding, Resting
<1>4. SequenceProtocol' /\ PublishedItems'
  BY <1>3, SharedUnchanged DEF IndInv, PopLoadHead
<1>5. ASSUME NEW x \in Producers PROVE ProducerOK(x)'
  BY <1>1, <1>3 DEF IndInv, TypeOK, PopLoadHead, ProducerOK, Threads
<1>6. ASSUME NEW x \in Consumers PROVE ConsumerOK(x)'
  BY <1>1, <1>3 DEF IndInv, TypeOK, PopLoadHead, ConsumerOK, Holding, Threads
<1>. QED  BY <1>2, <1>3, <1>4, <1>5, <1>6 DEF IndInv

LEMMA PopLoadSeqInv ==
  ASSUME Cap \in Nat, Cap >= 2, IndInv, NEW c \in Consumers, PopLoadSeq(c)
  PROVE  IndInv'
<1>1. c \in Threads /\ c \notin Producers
  BY ThreadsAssumption DEF Threads
<1>2. TypeOK'
  BY <1>1 DEF IndInv, TypeOK, PopLoadSeq, Goto, Trying, Resting
<1>3. Writing' = Writing /\ Reading' = Reading /\ ClaimsDistinct'
  BY <1>1, ClaimsUnchanged DEF IndInv, TypeOK, PopLoadSeq, Goto, Holding
<1>4. SequenceProtocol' /\ PublishedItems'
  BY <1>3, SharedUnchanged DEF IndInv, PopLoadSeq
<1>5. ASSUME pc'[c] = "cas", pos[c] = head
      PROVE  head < tail /\ head \notin Writing
  <2>1. seq[Slot(head)] = head + 1
    BY <1>1, <1>5 DEF IndInv, TypeOK, PopLoadSeq, Goto
  <2>2. head < tail
    <3>1. SUFFICES ASSUME head = tail PROVE FALSE
      BY DEF IndInv, TypeOK, SequenceProtocol
    <3>2. seq[Slot(head)] = IF head - Cap \in Reading THEN head - Cap + 1 ELSE head
      BY <3>1 DEF IndInv, TypeOK, SequenceProtocol
    <3>. QED  BY <2>1, <3>2 DEF IndInv, TypeOK
  <2>3. seq[Slot(head)] = IF head \in Writing THEN head ELSE head + 1
    BY <2>2 DEF IndInv, TypeOK, SequenceProtocol
  <2>. QED  BY <2>1, <2>2, <2>3 DEF IndInv, TypeOK
<1>6. ASSUME NEW x \in Producers PROVE ProducerOK(x)'
  BY <1>1, <1>3 DEF IndInv, TypeOK, PopLoadSeq, Goto, ProducerOK, Threads
<1>7. ASSUME NEW x \in Consumers PROVE ConsumerOK(x)'
  BY <1>1, <1>3, <1>5 DEF IndInv, TypeOK, PopLoadSeq, Goto, ConsumerOK, Holding, Threads
<1>. QED  BY <1>2, <1>3, <1>4, <1>6, <1>7 DEF IndInv

LEMMA PopCasFailsInv ==
  ASSUME IndInv, NEW c \in Consumers, PopCasFails(c)
  PROVE  IndInv'
<1>1. c \in Threads /\ c \notin Producers
  BY ThreadsAssumption DEF Threads
<1>2. TypeOK'
  BY <1>1 DEF IndInv, TypeOK, PopCasFails, Goto, Trying
<1>3. Writing' = Writing /\ Reading' = Reading /\ ClaimsDistinct'
  BY <1>1, ClaimsUnchanged DEF IndInv, TypeOK, PopCasFails, Goto, Holding
<1>4. SequenceProtocol' /\ PublishedItems'
  BY <1>3, SharedUnchanged DEF IndInv, PopCasFails
<1>5. ASSUME NEW x \in Producers PROVE ProducerOK(x)'
  BY <1>1, <1>3 DEF IndInv, TypeOK, PopCasFails, Goto, ProducerOK, Threads
<1>6. ASSUME NEW x \in Consumers PROVE ConsumerOK(x)'
  BY <1>1, <1>3 DEF IndInv, TypeOK, PopCasFails, Goto, ConsumerOK, Holding, Threads
<1>. QED  BY <1>2, <1>3, <1>4, <1>5, <1>6 DEF IndInv

LEMMA PopCasInv ==
  ASSUME Cap \in Nat, Cap >= 2, IndInv, NEW c \in Consumers, PopCas(c)
  PROVE  IndInv'
<1>1. c \in Threads /\ c \notin Producers
  BY ThreadsAssumption DEF Threads
<1>2. TypeOK'
  BY <1>1 DEF IndInv, TypeOK, PopCas, Goto, Holding
<1>3. /\ pos[c] = head /\ head' = head + 1 /\ head < tail /\ head \notin Writing
      /\ UNCHANGED <<tail, seq, val, pos, got>>
  BY DEF IndInv, ConsumerOK, PopCas, Goto
<1>4. /\ \A t \in Threads \ {c} : pc'[t] = pc[t]
      /\ pc'[c] = "access" /\ pc[c] \notin Holding
  BY <1>1 DEF IndInv, TypeOK, PopCas, Goto, Holding
<1>5. Writing' = Writing /\ Reading' = Reading \cup {head}
  BY <1>1, <1>3, <1>4 DEF Writing, Reading, Threads, Holding
<1>6. head \notin Reading
  BY DEF IndInv, TypeOK, ConsumerOK, Reading, Threads
<1>7. seq[Slot(head)] = head + 1 /\ val[Slot(head)] = head
  BY <1>3 DEF IndInv, TypeOK, SequenceProtocol, PublishedItems
<1>8. SequenceProtocol'
  <2>1. ASSUME NEW i \in (head + 1) .. (tail - 1)
        PROVE  seq[Slot(i)] = IF i \in Writing' THEN i ELSE i + 1
    BY <1>5 DEF IndInv, TypeOK, SequenceProtocol
  <2>2. ASSUME NEW i \in tail .. (head + Cap)
        PROVE  seq[Slot(i)] = IF i - Cap \in Reading' THEN i - Cap + 1 ELSE i
    <3>1. CASE i = head + Cap
      BY <3>1, <1>5, <1>7, SlotRound DEF IndInv, TypeOK
    <3>2. CASE i # head + Cap
      BY <3>2, <1>5 DEF IndInv, TypeOK, SequenceProtocol
    <3>. QED  BY <3>1, <3>2
  <2>. QED  BY <2>1, <2>2, <1>3 DEF IndInv, TypeOK, SequenceProtocol
<1>9. ASSUME NEW x \in Producers PROVE ProducerOK(x)'
  <2>1. pc[x] \in Holding => pos[x] \in Writing
    BY DEF Writing
  <2>2. pc'[x] = pc[x]
    BY <1>1, <1>4 DEF Threads
  <2>3. tail < head + Cap => (tail - Cap \in Reading' <=> tail - Cap \in Reading)
    BY <1>5 DEF IndInv, TypeOK
  <2>. QED  BY <2>1, <2>2, <2>3, <1>3 DEF IndInv, TypeOK, ProducerOK, Threads
<1>10. ASSUME NEW x \in Consumers PROVE ConsumerOK(x)'
  <2>1. CASE x = c
    BY <2>1, <1>1, <1>3, <1>4, <1>7 DEF IndInv, TypeOK, SequenceProtocol, ConsumerOK, Holding
  <2>2. CASE x # c
    <3>1. pc'[x] = pc[x]
      BY <2>2, <1>4 DEF Threads
    <3>. QED  BY <3>1, <1>3, <1>5, <1>7 DEF IndInv, TypeOK, ConsumerOK, Threads
  <2>. QED  BY <2>1, <2>2
<1>11. ClaimsDistinct'
  <2>1. \A x \in Consumers : pc[x] \in Holding => pos[x] # head
    BY <1>6 DEF Reading
  <2>. QED  BY <2>1, <1>1, <1>3, <1>4 DEF IndInv, ClaimsDistinct
<1>12. PublishedItems'
  BY <1>3, <1>5 DEF IndInv, TypeOK, PublishedItems
<1>. QED  BY <1>2, <1>8, <1>9, <1>10, <1>11, <1>12 DEF IndInv

LEMMA PopReadInv ==
  ASSUME Cap \in Nat, Cap >= 2, IndInv, NEW c \in Consumers, PopRead(c)
  PROVE  IndInv'
<1>1. c \in Threads /\ c \notin Producers
  BY ThreadsAssumption DEF Threads
<1>2. /\ val[Slot(pos[c])] = pos[c] /\ pos[c] \in Nat
      /\ UNCHANGED <<tail, head, seq, val, pos>>
  BY <1>1 DEF IndInv, TypeOK, ConsumerOK, PopRead, Goto
<1>3. TypeOK'
  BY <1>1, <1>2 DEF IndInv, TypeOK, PopRead, Goto, Holding
<1>4. /\ \A t \in Threads : pc'[t] \in Holding <=> pc[t] \in Holding
      /\ \A t \in Threads \ {c} : pc'[t] = pc[t]
      /\ pc'[c] = "store" /\ pc[c] \in Holding
  BY <1>1 DEF IndInv, TypeOK, PopRead, Goto, Holding
<1>5. Writing' = Writing /\ Reading' = Reading
  BY <1>2, <1>4 DEF Writing, Reading, Threads
<1>6. SequenceProtocol' /\ PublishedItems'
  BY <1>2, <1>5, SharedUnchanged DEF IndInv
<1>7. ASSUME NEW x \in Producers PROVE ProducerOK(x)'
  BY <1>1, <1>2, <1>4, <1>5 DEF IndInv, ProducerOK, Threads
<1>8. ASSUME NEW x \in Consumers PROVE ConsumerOK(x)'
  BY <1>1, <1>2, <1>4, <1>5 DEF IndInv, TypeOK, ConsumerOK, PopRead, Threads
<1>9. ClaimsDistinct'
  BY <1>2, <1>4 DEF IndInv, ClaimsDistinct
<1>. QED  BY <1>3, <1>6, <1>7, <1>8, <1>9 DEF IndInv

LEMMA PopStoreInv ==
  ASSUME Cap \in Nat, Cap >= 2, IndInv, NEW c \in Consumers, PopStore(c)
  PROVE  IndInv'
<1>1. c \in Threads /\ c \notin Producers
  BY ThreadsAssumption DEF Threads
<1>2. /\ pos[c] < head /\ tail - Cap <= pos[c] /\ pos[c] \in Nat /\ pc[c] \in Holding
      /\ UNCHANGED <<tail, head, val, pos, got>>
  BY <1>1 DEF IndInv, TypeOK, ConsumerOK, PopStore, Goto, Holding
<1>3. TypeOK'
  <2>1. seq' \in [Slots -> Nat]
    <3>1. pos[c] + Cap \in Nat
      BY <1>1 DEF IndInv, TypeOK
    <3>2. seq \in [Slots -> Nat] /\ seq' = [seq EXCEPT ![Slot(pos[c])] = pos[c] + Cap]
      BY DEF IndInv, TypeOK, PopStore
    <3>. QED  BY ONLY <3>1, <3>2
  <2>2. pc' \in [Threads -> Resting \cup Trying \cup Holding]
    BY DEF IndInv, TypeOK, PopStore, Goto, Resting
  <2>. QED  BY <2>1, <2>2, <1>2 DEF IndInv, TypeOK, PopStore
<1>4. /\ \A t \in Threads \ {c} : pc'[t] = pc[t]
      /\ pc'[c] = "ok" /\ pc[c] = "store"
  BY <1>1 DEF IndInv, TypeOK, PopStore, Goto
<1>5. Writing' = Writing /\ Reading' = Reading \ {pos[c]} /\ pos[c] \in Reading
  <2>1. \A x \in Consumers : x # c /\ pc[x] \in Holding => pos[x] # pos[c]
    BY <1>1, <1>2 DEF IndInv, ClaimsDistinct, Threads
  <2>. QED  BY <2>1, <1>1, <1>2, <1>4 DEF Writing, Reading, Threads, Holding
<1>6. /\ Slot(pos[c] + Cap) = Slot(pos[c])
      /\ \A s \in Slots : seq'[s] = IF s = Slot(pos[c] + Cap) THEN pos[c] + Cap ELSE seq[s]
  BY <1>2, SlotRound DEF IndInv, TypeOK, PopStore
<1>7. SequenceProtocol'
  <2>1. pos[c] + Cap \in tail .. (head + Cap - 1)
    BY <1>2 DEF IndInv, TypeOK
  <2>2. ASSUME NEW i \in head .. (head + Cap - 1), i # pos[c] + Cap
        PROVE  Slot(i) # Slot(pos[c] + Cap) /\ Slot(i) \in Slots
    <3>. DEFINE p == pos[c] + Cap
    <3>1. i \in Nat /\ p \in Nat /\ i # p /\ i < p + Cap /\ p < i + Cap
      BY <2>1, <2>2, <1>2 DEF IndInv, TypeOK, SequenceProtocol
    <3>. HIDE DEF p
    <3>2. Slot(i) # Slot(p)
      BY <3>1, SlotsDiffer
    <3>3. Slot(i) \in Slots
      BY <3>1, SlotRound
    <3>. QED  BY <3>2, <3>3 DEF p
  <2>3. ASSUME NEW i \in head .. (tail - 1)
        PROVE  seq'[Slot(i)] = IF i \in Writing' THEN i ELSE i + 1
    BY <2>1, <2>2, <1>2, <1>5, <1>6 DEF IndInv, TypeOK, SequenceProtocol
  <2>4. ASSUME NEW i \in tail .. (head + Cap - 1)
        PROVE  seq'[Slot(i)] = IF i - Cap \in Reading' THEN i - Cap + 1 ELSE i
    <3>1. CASE i = pos[c] + Cap
      BY <3>1, <1>2, <1>5, <1>6, SlotRound DEF IndInv, TypeOK
    <3>2. CASE i # pos[c] + Cap
      BY <3>2, <2>2, <1>2, <1>5, <1>6 DEF IndInv, TypeOK, SequenceProtocol
    <3>. QED  BY <3>1, <3>2
  <2>. QED  BY <2>3, <2>4, <1>2 DEF IndInv, SequenceProtocol
<1>12. \A s \in Slots : seq'[s] >= seq[s]
  BY <1>2, <1>5, <1>6, SlotRound DEF IndInv, TypeOK, SequenceProtocol
<1>13. /\ Writing' \subseteq Writing /\ Reading' \subseteq Reading
       /\ \A t \in Threads : Slot(pos[t]) \in Slots /\ pos[t] \in Nat
       /\ seq \in [Slots -> Nat] /\ seq' \in [Slots -> Nat]
  BY <1>3, <1>5, SlotRound DEF IndInv, TypeOK
<1>8. ASSUME NEW x \in Producers PROVE ProducerOK(x)'
  BY <1>1, <1>2, <1>4, <1>12, <1>13 DEF IndInv, ProducerOK, Threads
<1>9. ASSUME NEW x \in Consumers PROVE ConsumerOK(x)'
  BY <1>1, <1>2, <1>4, <1>12, <1>13 DEF IndInv, ConsumerOK, Threads, Holding
<1>10. ClaimsDistinct'
  BY <1>2, <1>4 DEF IndInv, ClaimsDistinct, Holding
<1>11. PublishedItems'
  BY <1>2, <1>5 DEF IndInv, PublishedItems
<1>. QED  BY <1>3, <1>7, <1>8, <1>9, <1>10, <1>11 DEF IndInv

-----------------------------------------------------------------------------
(* The destructor and the whole specification.                              *)

LEMMA DropRingInv ==
  ASSUME IndInv, DropRing
  PROVE  IndInv'
<1>1. UNCHANGED <<tail, head, seq, val, pc, pos, got>>
  BY DEF DropRing
<1>2. Writing = {} /\ Reading = {} /\ Writing' = {} /\ Reading' = {}
  BY <1>1 DEF DropRing, Writing, Reading, Resting, Holding, Threads
<1>3. dropped' \subseteq Nat
  BY <1>2 DEF DropRing, IndInv, TypeOK, PublishedItems
<1>4. TypeOK'
  BY <1>1, <1>3 DEF IndInv, TypeOK, DropRing
<1>5. SequenceProtocol' /\ PublishedItems'
  BY <1>1, <1>2, SharedUnchanged DEF IndInv
<1>6. (\A p \in Producers : ProducerOK(p)') /\ (\A c \in Consumers : ConsumerOK(c)')
  BY <1>1, <1>2 DEF IndInv, ProducerOK, ConsumerOK
<1>7. ClaimsDistinct'
  BY <1>1 DEF IndInv, ClaimsDistinct
<1>. QED  BY <1>4, <1>5, <1>6, <1>7 DEF IndInv

LEMMA InitInv ==
  ASSUME Cap \in Nat, Cap >= 2, Init
  PROVE  IndInv
<1>1. TypeOK
  BY DEF Init, TypeOK, Slots, Resting
<1>2. Writing = {} /\ Reading = {}
  BY DEF Init, Writing, Reading, Holding, Threads
<1>3. SequenceProtocol
  <2>1. \A i \in 0 .. (Cap - 1) : Slot(i) = i
    BY SMTT(30) DEF Slot
  <2>. QED  BY <2>1, <1>2 DEF Init, SequenceProtocol, Slots
<1>4. (\A p \in Producers : ProducerOK(p)) /\ (\A c \in Consumers : ConsumerOK(c))
  BY DEF Init, ProducerOK, ConsumerOK, Holding, Threads
<1>5. ClaimsDistinct /\ PublishedItems
  BY DEF Init, ClaimsDistinct, PublishedItems, Holding
<1>. QED  BY <1>1, <1>3, <1>4, <1>5 DEF IndInv

LEMMA NextInv ==
  ASSUME Cap \in Nat, Cap >= 2, IndInv, [Next]_vars
  PROVE  IndInv'
<1>1. ASSUME NEW p \in Producers, PushStep(p) PROVE IndInv'
  BY <1>1, PushLoadTailInv, PushLoadSeqInv, PushCasInv, PushCasFailsInv, PushWriteInv,
     PushStoreInv DEF PushStep
<1>2. ASSUME NEW c \in Consumers, PopStep(c) PROVE IndInv'
  BY <1>2, PopLoadHeadInv, PopLoadSeqInv, PopCasInv, PopCasFailsInv, PopReadInv,
     PopStoreInv DEF PopStep
<1>3. CASE DropRing
  BY <1>3, DropRingInv
<1>4. CASE UNCHANGED vars
  BY <1>4 DEF vars, IndInv, TypeOK, SequenceProtocol, ProducerOK, ConsumerOK,
     ClaimsDistinct, PublishedItems, Writing, Reading
<1>. QED  BY <1>1, <1>2, <1>3, <1>4 DEF Next, Gone

-----------------------------------------------------------------------------
(* The sequence protocol is an invariant of the ring for every capacity of  *)
(* at least two and any number of threads: the comment on RingSlot.         *)
THEOREM RingInvariant ==
  ASSUME Cap \in Nat, Cap >= 2
  PROVE  Spec => []IndInv
<1>1. Init => IndInv
  BY InitInv
<1>2. IndInv /\ [Next]_vars => IndInv'
  BY NextInv
<1>. QED  BY <1>1, <1>2, PTL DEF Spec

(* The types: the cursors, the numbers of the slots and what each thread    *)
(* keeps in try_push and try_pop.                                           *)
THEOREM RingTypeCorrect ==
  ASSUME Cap \in Nat, Cap >= 2
  PROVE  Spec => []TypeOK
<1>1. IndInv => TypeOK
  BY DEF IndInv
<1>. QED  BY <1>1, RingInvariant, PTL

(* Between its compare_exchange and its store a thread has its slot to      *)
(* itself: the SAFETY comments of try_push, try_pop and RingSlot.           *)
THEOREM RingExclusive ==
  ASSUME Cap \in Nat, Cap >= 2
  PROVE  Spec => []Exclusive
<1>1. ASSUME IndInv PROVE Exclusive
  <2>. SUFFICES ASSUME NEW t \in Threads, NEW u \in Threads, t # u,
                       pc[t] \in Holding, pc[u] \in Holding
                PROVE  Slot(pos[t]) # Slot(pos[u])
    BY DEF Exclusive
  <2>. USE <1>1
  <2>1. \A p \in Producers : pc[p] \in Holding => pos[p] \in head .. (tail - 1)
    BY DEF IndInv, ProducerOK
  <2>2. \A c \in Consumers : pc[c] \in Holding => pos[c] < head /\ tail - Cap <= pos[c]
    BY DEF IndInv, ConsumerOK
  <2>3. {t, u} \subseteq Producers \/ {t, u} \subseteq Consumers => pos[t] # pos[u]
    BY DEF IndInv, ClaimsDistinct
  <2>4. pos[t] \in Nat /\ pos[u] \in Nat
    BY DEF IndInv, TypeOK
  <2>5. pos[t] # pos[u] /\ pos[t] < pos[u] + Cap /\ pos[u] < pos[t] + Cap
    BY <2>1, <2>2, <2>3, <2>4 DEF IndInv, TypeOK, SequenceProtocol, Threads
  <2>. QED  BY <2>4, <2>5, SlotsDiffer
<1>. QED  BY <1>1, RingInvariant, PTL

(* try_push refuses once cap items are in the ring: the producers' cursor   *)
(* never runs more than cap ahead of the consumers'.                        *)
THEOREM RingCapacity ==
  ASSUME Cap \in Nat, Cap >= 2
  PROVE  Spec => []CapacityRespected
<1>1. IndInv => CapacityRespected
  BY DEF IndInv, TypeOK, SequenceProtocol, CapacityRespected
<1>. QED  BY <1>1, RingInvariant, PTL

(* try_pop returns the item pushed at the position it claimed, initialised  *)
(* and not yet overwritten: its "assume_init_read" is justified.            *)
THEOREM RingPopsItsItem ==
  ASSUME Cap \in Nat, Cap >= 2
  PROVE  Spec => []PopsItsItem
<1>1. IndInv => PopsItsItem
  BY DEF IndInv, ConsumerOK, PopsItsItem
<1>. QED  BY <1>1, RingInvariant, PTL

(* What a round of try_push or try_pop finds out at a slot's number: the    *)
(* slot of the position at the cursor never has a number past it, so a      *)
(* number that is too large shows that the cursor has moved.                *)
LEMMA SlotAtCursor ==
  ASSUME IndInv, Cap \in Nat, Cap >= 2
  PROVE  seq[Slot(tail)] <= tail /\ seq[Slot(head)] <= head + 1
<1>. USE DEF IndInv, TypeOK, SequenceProtocol
<1>1. CASE head = tail
  BY <1>1
<1>2. CASE head < tail /\ tail < head + Cap
  BY <1>2
<1>3. CASE tail = head + Cap
  <2>1. Slot(tail) = Slot(head) /\ head \in head .. (tail - 1)
    BY <1>3, SlotRound
  <2>. QED  BY <1>3, <2>1
<1>. QED  BY <1>1, <1>2, <1>3

(* A round of try_push or try_pop is repeated because of the slot's number  *)
(* only if another call of the same side has succeeded since the cursor was *)
(* loaded: "diff > 0 means stale snapshot; retry".  The rest of the         *)
(* argument for lock-freedom is fairness, which LockFree states.            *)
THEOREM RingRetriesWhenOvertaken ==
  ASSUME Cap \in Nat, Cap >= 2
  PROVE  Spec => RetriesWhenOvertaken
<1>. DEFINE Claimed == /\ \A p \in Producers : pc[p] = "seq" /\ pc'[p] = "load" => tail > pos[p]
                       /\ \A c \in Consumers : pc[c] = "seq" /\ pc'[c] = "load" => head > pos[c]
<1>1. ASSUME IndInv, Next PROVE Claimed
  <2>. USE <1>1
  <2>0. /\ tail \in Nat /\ head \in Nat /\ \A t \in Threads : pos[t] \in Nat
        /\ ~ seq[Slot(tail)] > tail /\ ~ seq[Slot(head)] > head + 1
    <3>1. tail \in Nat /\ head \in Nat /\ seq \in [Slots -> Nat] /\ pos \in [Threads -> Nat]
      BY DEF IndInv, TypeOK
    <3>2. Slot(tail) \in Slots /\ Slot(head) \in Slots
      BY <3>1, SlotRound
    <3>. QED  BY <3>1, <3>2, SlotAtCursor
  <2>1. \A t, u \in Threads : (PushStep(u) \/ PopStep(u)) /\ pc'[t] # pc[t] => t = u
    BY DEF IndInv, TypeOK, PushStep, PopStep, Goto, PushLoadTail, PushLoadSeq, PushCas,
       PushCasFails, PushWrite, PushStore, PopLoadHead, PopLoadSeq, PopCas, PopCasFails,
       PopRead, PopStore
  <2>2. ASSUME NEW p \in Producers, pc[p] = "seq", pc'[p] = "load" PROVE tail > pos[p]
    <3>1. PushStep(p)
      BY <2>1, <2>2, ThreadsAssumption DEF Next, DropRing, Gone, vars, Threads
    <3>2. PushLoadSeq(p)
      BY <2>2, <3>1 DEF PushStep, PushLoadTail, PushCas, PushCasFails, PushWrite, PushStore,
         Goto, Resting
    <3>3. seq[Slot(pos[p])] > pos[p]
      <4>1. pos[p] \in Nat /\ Slot(pos[p]) \in Slots /\ seq[Slot(pos[p])] \in Nat
        BY SlotRound DEF IndInv, TypeOK, Threads
      <4>2. pc'[p] = IF seq[Slot(pos[p])] = pos[p] THEN "cas"
                     ELSE IF seq[Slot(pos[p])] < pos[p] THEN "full" ELSE "load"
        BY <3>2 DEF PushLoadSeq, Goto, IndInv, TypeOK, Threads
      <4>. QED  BY <2>2, <4>1, <4>2
    <3>4. pos[p] <= tail
      BY <2>2 DEF IndInv, ProducerOK
    <3>5. tail # pos[p]
      BY <2>0, <3>3
    <3>. QED  BY <2>0, <3>4, <3>5 DEF IndInv, TypeOK, Threads
  <2>3. ASSUME NEW c \in Consumers, pc[c] = "seq", pc'[c] = "load" PROVE head > pos[c]
    <3>1. PopStep(c)
      BY <2>1, <2>3, ThreadsAssumption DEF Next, DropRing, Gone, vars, Threads
    <3>2. PopLoadSeq(c)
      BY <2>3, <3>1 DEF PopStep, PopLoadHead, PopCas, PopCasFails, PopRead, PopStore,
         Goto, Resting
    <3>3. seq[Slot(pos[c])] > pos[c] + 1
      <4>1. pos[c] \in Nat /\ Slot(pos[c]) \in Slots /\ seq[Slot(pos[c])] \in Nat
        BY SlotRound DEF IndInv, TypeOK, Threads
      <4>2. pc'[c] = IF seq[Slot(pos[c])] = pos[c] + 1 THEN "cas"
                     ELSE IF seq[Slot(pos[c])] < pos[c] + 1 THEN "empty" ELSE "load"
        BY <3>2 DEF PopLoadSeq, Goto, IndInv, TypeOK, Threads
      <4>. QED  BY <2>3, <4>1, <4>2
    <3>4. pos[c] <= head
      BY <2>3 DEF IndInv, ConsumerOK
    <3>5. head # pos[c]
      BY <2>0, <3>3
    <3>. QED  BY <2>0, <3>4, <3>5 DEF IndInv, TypeOK, Threads
  <2>. QED  BY <2>2, <2>3
<1>2. IndInv /\ [Next]_vars => [Claimed]_vars
  BY <1>1
<1>. QED  BY <1>2, RingInvariant, PTL DEF Spec, RetriesWhenOvertaken

-----------------------------------------------------------------------------
(* Every step of the ring is a step of RingQueue or leaves it unchanged.    *)

(* The refinement mapping, named for the proofs.                            *)
AbsQ == [tail |-> tail, head |-> head,
         ready |-> (head .. (tail - 1)) \ Writing, reading |-> Reading]
AbsSt == [t \in Threads |-> IF pc[t] \in Trying THEN "trying"
                           ELSE IF pc[t] \in Holding THEN "claimed" ELSE pc[t]]
AbsAt == [t \in Threads |-> IF pc[t] \in Holding THEN pos[t] ELSE 0]
AbsGot == [c \in Consumers |-> IF pc[c] = "access" THEN val[Slot(pos[c])] ELSE got[c]]

(* A call that starts, or starts another round.                             *)
LEMMA StartSim ==
  ASSUME IndInv, NEW t \in Threads, alive \/ pc[t] = "load", pc[t] \in Resting \cup {"load"},
         pc' = [pc EXCEPT ![t] = "seq"], pos' = [pos EXCEPT ![t] = pos'[t]],
         UNCHANGED <<tail, head, seq, val, alive, dropped>>,
         Writing' = Writing, Reading' = Reading,
         \A c \in Consumers : got'[c] = IF c = t /\ pc[t] \in Resting THEN NoItem ELSE got[c],
         got' \in [Consumers -> Nat \cup {NoItem}]
  PROVE  Queue!Next \/ UNCHANGED Queue!vars
<1>1. AbsQ' = AbsQ /\ AbsAt' = AbsAt
  BY DEF AbsQ, AbsAt, IndInv, TypeOK, Holding, Resting
<1>2. CASE pc[t] = "load"
  <2>1. AbsSt' = AbsSt
    BY <1>2 DEF AbsSt, IndInv, TypeOK, Trying, Holding, Resting
  <2>2. AbsGot' = AbsGot
    BY <1>2 DEF AbsGot, IndInv, TypeOK, Resting, Threads
  <2>. QED  BY <1>1, <2>1, <2>2 DEF Queue!vars, AbsQ, AbsSt, AbsAt, AbsGot
<1>3. CASE pc[t] \in Resting
  <2>1. AbsSt[t] \in Queue!Outcomes /\ AbsSt' = [AbsSt EXCEPT ![t] = "trying"]
    BY <1>3 DEF AbsSt, IndInv, TypeOK, Trying, Holding, Resting, Queue!Outcomes
  <2>2. AbsGot' = [c \in Consumers |-> IF c = t THEN Queue!NoItem ELSE AbsGot[c]]
    BY <1>3 DEF AbsGot, IndInv, TypeOK, Resting, Threads, NoItem, Queue!NoItem
  <2>3. alive
    BY <1>3 DEF Resting
  <2>4. Queue!Call(t)
    BY <1>1, <2>1, <2>2, <2>3 DEF Queue!Call, AbsQ, AbsSt, AbsAt, AbsGot
  <2>. QED  BY <2>4 DEF Queue!Next, Queue!Threads, Threads
<1>. QED  BY <1>2, <1>3

LEMMA PushSim ==
  ASSUME Cap \in Nat, Cap >= 2, IndInv, NEW p \in Producers, PushStep(p)
  PROVE  Queue!Next \/ UNCHANGED Queue!vars
<1>1. p \in Threads /\ p \notin Consumers
  BY ThreadsAssumption DEF Threads
<1>2. CASE PushLoadTail(p)
  <2>1. Writing' = Writing /\ Reading' = Reading
    BY <1>1, <1>2, ClaimsUnchanged DEF IndInv, TypeOK, PushLoadTail, Holding, Resting
  <2>. QED  BY <2>1, <1>1, <1>2, StartSim DEF PushLoadTail, Resting, IndInv, TypeOK
<1>3. CASE PushLoadSeq(p)
  <2>1. /\ Writing' = Writing /\ Reading' = Reading
        /\ UNCHANGED <<tail, head, seq, val, pos, got, alive, dropped>>
        /\ pc[p] = "seq" /\ pc'[p] \in {"cas", "load", "full"}
        /\ pc' = [pc EXCEPT ![p] = pc'[p]]
    BY <1>1, <1>3, ClaimsUnchanged DEF IndInv, TypeOK, PushLoadSeq, Goto, Holding
  <2>2. AbsQ' = AbsQ /\ AbsAt' = AbsAt /\ AbsGot' = AbsGot
    BY <2>1, <1>1 DEF AbsQ, AbsAt, AbsGot, IndInv, TypeOK, Holding, Threads
  <2>3. CASE pc'[p] # "full"
    <3>1. AbsSt' = AbsSt
      BY <2>1, <2>3 DEF AbsSt, IndInv, TypeOK, Trying
    <3>. QED  BY <2>1, <2>2, <3>1 DEF Queue!vars, AbsQ, AbsSt, AbsAt, AbsGot
  <2>4. CASE pc'[p] = "full"
    <3>1. seq[Slot(pos[p])] < pos[p]
      BY <1>1, <1>3, <2>4 DEF IndInv, TypeOK, PushLoadSeq, Goto
    <3>2. pos[p] = tail
      <4>1. pos[p] <= tail /\ (pos[p] < tail => seq[Slot(pos[p])] >= pos[p])
        BY <2>1 DEF IndInv, ProducerOK
      <4>2. pos[p] \in Nat /\ tail \in Nat /\ seq[Slot(pos[p])] \in Nat
        BY <1>1, SlotRound DEF IndInv, TypeOK
      <4>. QED  BY ONLY <3>1, <4>1, <4>2
    <3>3. tail < head + Cap => tail - Cap \in Reading
      BY <3>1, <3>2 DEF IndInv, TypeOK, SequenceProtocol
    <3>4. ~Queue!SlotFree(AbsQ, Cap)
      BY <3>3 DEF Queue!SlotFree, AbsQ, IndInv, TypeOK
    <3>5. AbsSt[p] = "trying" /\ AbsSt' = [AbsSt EXCEPT ![p] = "full"]
      BY <1>1, <2>1, <2>4 DEF AbsSt, IndInv, TypeOK, Trying, Holding
    <3>6. Queue!PushFull(p)
      BY <2>1, <2>2, <3>4, <3>5 DEF Queue!PushFull, Queue!Answer, AbsQ, AbsSt, AbsAt, AbsGot
    <3>. QED  BY <3>6 DEF Queue!Next
  <2>. QED  BY <2>3, <2>4
<1>4. CASE PushCas(p)
  <2>1. /\ pos[p] = tail /\ tail' = tail + 1
        /\ tail < head + Cap /\ tail - Cap \notin Reading
        /\ pc[p] = "cas" /\ pc' = [pc EXCEPT ![p] = "access"]
        /\ UNCHANGED <<head, seq, val, pos, got, alive, dropped>>
    BY <1>4 DEF IndInv, ProducerOK, PushCas, Goto
  <2>2. Writing' = Writing \cup {tail} /\ Reading' = Reading
    BY <1>1, <2>1 DEF IndInv, TypeOK, Writing, Reading, Threads, Holding
  <2>3. AbsQ' = Queue!Claim(AbsQ)
    <3>1. (head .. tail) \ (Writing \cup {tail}) = (head .. (tail - 1)) \ Writing
      BY DEF IndInv, TypeOK
    <3>2. tail' - 1 = tail
      BY <2>1 DEF IndInv, TypeOK
    <3>. QED  BY <2>1, <2>2, <3>1, <3>2 DEF AbsQ, Queue!Claim
  <2>4. /\ AbsSt[p] = "trying" /\ AbsSt' = [AbsSt EXCEPT ![p] = "claimed"]
        /\ AbsAt' = [AbsAt EXCEPT ![p] = AbsQ.tail]
        /\ AbsGot' = AbsGot
    BY <1>1, <2>1 DEF AbsSt, AbsAt, AbsGot, AbsQ, IndInv, TypeOK, Trying, Holding, Threads
  <2>5. Queue!SlotFree(AbsQ, Cap)
    BY <2>1 DEF Queue!SlotFree, AbsQ, IndInv, TypeOK
  <2>6. Queue!PushClaim(p)
    BY <2>1, <2>3, <2>4, <2>5 DEF Queue!PushClaim, AbsQ, AbsSt, AbsAt, AbsGot
  <2>. QED  BY <2>6 DEF Queue!Next
<1>5. CASE PushCasFails(p)
  <2>1. /\ Writing' = Writing /\ Reading' = Reading
        /\ UNCHANGED <<tail, head, seq, val, pos, got, alive, dropped>>
        /\ pc[p] = "cas" /\ pc' = [pc EXCEPT ![p] = "load"]
    BY <1>1, <1>5, ClaimsUnchanged DEF IndInv, TypeOK, PushCasFails, Goto, Holding
  <2>2. AbsQ' = AbsQ /\ AbsAt' = AbsAt /\ AbsGot' = AbsGot /\ AbsSt' = AbsSt
    BY <2>1, <1>1 DEF AbsQ, AbsAt, AbsGot, AbsSt, IndInv, TypeOK, Trying, Holding, Threads
  <2>. QED  BY <2>1, <2>2 DEF Queue!vars, AbsQ, AbsSt, AbsAt, AbsGot
<1>6. CASE PushWrite(p)
  <2>1. /\ UNCHANGED <<tail, head, seq, pos, got, alive, dropped>>
        /\ pc[p] = "access" /\ pc' = [pc EXCEPT ![p] = "store"]
        /\ pos[p] \in head .. (tail - 1)
    BY <1>6 DEF PushWrite, Goto, IndInv, ProducerOK, Holding
  <2>2. \A s \in Slots : s # Slot(pos[p]) => val'[s] = val[s]
    BY <1>6 DEF PushWrite, IndInv, TypeOK
  <2>3. AbsQ' = AbsQ /\ AbsAt' = AbsAt /\ AbsSt' = AbsSt
    <3>1. \A t \in Threads : /\ pc'[t] \in Holding <=> pc[t] \in Holding
                             /\ pc'[t] \in Trying <=> pc[t] \in Trying
                             /\ pc'[t] \notin Holding => pc'[t] = pc[t]
      BY <1>1, <2>1 DEF IndInv, TypeOK, Holding, Trying
    <3>2. Writing' = Writing /\ Reading' = Reading
      BY <2>1, <3>1 DEF Writing, Reading, Threads
    <3>3. AbsSt' = AbsSt
      BY <3>1 DEF AbsSt
    <3>4. AbsAt' = AbsAt
      BY <2>1, <3>1 DEF AbsAt
    <3>. QED  BY <2>1, <3>2, <3>3, <3>4 DEF AbsQ
  <2>4. ASSUME NEW c \in Consumers, pc[c] = "access"
        PROVE  val'[Slot(pos[c])] = val[Slot(pos[c])]
    <3>1. pos[c] < head /\ tail - Cap <= pos[c] /\ pos[c] \in Nat
      BY <2>4 DEF IndInv, TypeOK, ConsumerOK, Holding, Threads
    <3>2. Slot(pos[c]) # Slot(pos[p]) /\ Slot(pos[c]) \in Slots
      BY <3>1, <2>1, SlotsDiffer, SlotRound DEF IndInv, TypeOK
    <3>. QED  BY <3>2, <2>2
  <2>5. AbsGot' = AbsGot
    BY <1>1, <2>1, <2>4 DEF AbsGot, IndInv, TypeOK, Threads
  <2>. QED  BY <2>1, <2>3, <2>5 DEF Queue!vars, AbsQ, AbsSt, AbsAt, AbsGot
<1>7. CASE PushStore(p)
  <2>1. /\ UNCHANGED <<tail, head, val, pos, got, alive, dropped>>
        /\ pc[p] = "store" /\ pc' = [pc EXCEPT ![p] = "ok"]
        /\ pos[p] \in head .. (tail - 1)
    BY <1>7 DEF PushStore, Goto, IndInv, ProducerOK, Holding
  <2>2. Writing' = Writing \ {pos[p]} /\ Reading' = Reading
    <3>1. \A x \in Producers : x # p /\ pc[x] \in Holding => pos[x] # pos[p]
      BY <1>1, <2>1 DEF IndInv, ClaimsDistinct, Threads, Holding
    <3>. QED  BY <3>1, <1>1, <2>1 DEF Writing, Reading, Threads, Holding, IndInv, TypeOK
  <2>3. AbsSt[p] = "claimed" /\ AbsSt' = [AbsSt EXCEPT ![p] = "ok"]
    BY <1>1, <2>1 DEF AbsSt, IndInv, TypeOK, Trying, Holding
  <2>4. AbsAt[p] = pos[p] /\ AbsAt' = [AbsAt EXCEPT ![p] = 0] /\ AbsGot' = AbsGot
    BY <1>1, <2>1 DEF AbsAt, AbsGot, IndInv, TypeOK, Holding, Threads
  <2>5. AbsQ' = Queue!Publish(AbsQ, AbsAt[p])
    <3>1. (head .. (tail - 1)) \ (Writing \ {pos[p]})
             = ((head .. (tail - 1)) \ Writing) \cup {pos[p]}
      BY <2>1
    <3>. QED  BY <2>1, <2>2, <2>4, <3>1 DEF AbsQ, Queue!Publish
  <2>6. Queue!PushDone(p)
    BY <2>1, <2>3, <2>4, <2>5 DEF Queue!PushDone, AbsQ, AbsSt, AbsAt, AbsGot
  <2>. QED  BY <2>6 DEF Queue!Next
<1>. QED  BY <1>2, <1>3, <1>4, <1>5, <1>6, <1>7 DEF PushStep

LEMMA PopSim ==
  ASSUME Cap \in Nat, Cap >= 2, IndInv, NEW c \in Consumers, PopStep(c)
  PROVE  Queue!Next \/ UNCHANGED Queue!vars
<1>1. c \in Threads /\ c \notin Producers
  BY ThreadsAssumption DEF Threads
<1>2. CASE PopLoadHead(c)
  <2>1. Writing' = Writing /\ Reading' = Reading
    BY <1>1, <1>2, ClaimsUnchanged DEF IndInv, TypeOK, PopLoadHead, Holding, Resting
  <2>2. \A x \in Consumers : got'[x] = IF x = c /\ pc[c] \in Resting THEN NoItem ELSE got[x]
    BY <1>2 DEF PopLoadHead, IndInv, TypeOK, Resting
  <2>3. got' \in [Consumers -> Nat \cup {NoItem}]
    BY <1>2 DEF PopLoadHead, IndInv, TypeOK
  <2>. QED  BY <2>1, <2>2, <2>3, <1>1, <1>2, StartSim DEF PopLoadHead, Resting, IndInv, TypeOK
<1>3. CASE PopLoadSeq(c)
  <2>1. /\ Writing' = Writing /\ Reading' = Reading
        /\ UNCHANGED <<tail, head, seq, val, pos, got, alive, dropped>>
        /\ pc[c] = "seq" /\ pc'[c] \in {"cas", "load", "empty"}
        /\ pc' = [pc EXCEPT ![c] = pc'[c]]
    BY <1>1, <1>3, ClaimsUnchanged DEF IndInv, TypeOK, PopLoadSeq, Goto, Holding
  <2>2. AbsQ' = AbsQ /\ AbsAt' = AbsAt /\ AbsGot' = AbsGot
    BY <2>1, <1>1 DEF AbsQ, AbsAt, AbsGot, IndInv, TypeOK, Holding, Threads
  <2>3. CASE pc'[c] # "empty"
    <3>1. AbsSt' = AbsSt
      BY <2>1, <2>3 DEF AbsSt, IndInv, TypeOK, Trying
    <3>. QED  BY <2>1, <2>2, <3>1 DEF Queue!vars, AbsQ, AbsSt, AbsAt, AbsGot
  <2>4. CASE pc'[c] = "empty"
    <3>1. seq[Slot(pos[c])] < pos[c] + 1
      BY <1>1, <1>3, <2>4 DEF IndInv, TypeOK, PopLoadSeq, Goto
    <3>2. pos[c] = head
      <4>1. pos[c] <= head /\ (pos[c] < head => seq[Slot(pos[c])] >= pos[c] + 1)
        BY <2>1 DEF IndInv, ConsumerOK
      <4>2. pos[c] \in Nat /\ head \in Nat /\ seq[Slot(pos[c])] \in Nat
        BY <1>1, SlotRound DEF IndInv, TypeOK
      <4>. QED  BY ONLY <3>1, <4>1, <4>2
    <3>3. head < tail => head \in Writing
      BY <3>1, <3>2 DEF IndInv, TypeOK, SequenceProtocol
    <3>4. ~Queue!CanTake(AbsQ)
      BY <3>3 DEF Queue!CanTake, AbsQ, IndInv, TypeOK
    <3>5. AbsSt[c] = "trying" /\ AbsSt' = [AbsSt EXCEPT ![c] = "empty"]
      BY <1>1, <2>1, <2>4 DEF AbsSt, IndInv, TypeOK, Trying, Holding
    <3>6. Queue!PopEmpty(c)
      BY <2>1, <2>2, <3>4, <3>5 DEF Queue!PopEmpty, Queue!Answer, AbsQ, AbsSt, AbsAt, AbsGot
    <3>. QED  BY <3>6 DEF Queue!Next
  <2>. QED  BY <2>3, <2>4
<1>4. CASE PopCas(c)
  <2>1. /\ pos[c] = head /\ head' = head + 1 /\ head < tail /\ head \notin Writing
        /\ pc[c] = "cas" /\ pc' = [pc EXCEPT ![c] = "access"]
        /\ UNCHANGED <<tail, seq, val, pos, got, alive, dropped>>
    BY <1>4 DEF IndInv, ConsumerOK, PopCas, Goto
  <2>2. Writing' = Writing /\ Reading' = Reading \cup {head}
    BY <1>1, <2>1 DEF IndInv, TypeOK, Writing, Reading, Threads, Holding
  <2>3. AbsQ' = Queue!Take(AbsQ)
    <3>1. ((head + 1) .. (tail - 1)) \ Writing = ((head .. (tail - 1)) \ Writing) \ {head}
      BY DEF IndInv, TypeOK
    <3>2. Queue!Take(AbsQ) =
            [tail |-> tail, head |-> head + 1,
             ready |-> ((head .. (tail - 1)) \ Writing) \ {head},
             reading |-> Reading \cup {head}]
      BY DEF AbsQ, Queue!Take
    <3>3. AbsQ' = [tail |-> tail, head |-> head + 1,
                   ready |-> ((head + 1) .. (tail - 1)) \ Writing,
                   reading |-> Reading \cup {head}]
      BY <2>1, <2>2 DEF AbsQ
    <3>. QED  BY <3>1, <3>2, <3>3
  <2>4. /\ AbsSt[c] = "trying" /\ AbsSt' = [AbsSt EXCEPT ![c] = "claimed"]
        /\ AbsAt' = [AbsAt EXCEPT ![c] = AbsQ.head]
    BY <1>1, <2>1 DEF AbsSt, AbsAt, AbsQ, IndInv, TypeOK, Trying, Holding, Threads
  <2>5. AbsGot' = [AbsGot EXCEPT ![c] = AbsQ.head]
    <3>1. val[Slot(head)] = head
      BY <2>1 DEF IndInv, TypeOK, PublishedItems
    <3>. QED  BY <3>1, <1>1, <2>1 DEF AbsGot, AbsQ, IndInv, TypeOK, Threads
  <2>6. Queue!CanTake(AbsQ)
    BY <2>1 DEF Queue!CanTake, AbsQ, IndInv, TypeOK
  <2>7. Queue!PopTake(c)
    BY <2>1, <2>3, <2>4, <2>5, <2>6 DEF Queue!PopTake, AbsQ, AbsSt, AbsAt, AbsGot
  <2>. QED  BY <2>7 DEF Queue!Next
<1>5. CASE PopCasFails(c)
  <2>1. /\ Writing' = Writing /\ Reading' = Reading
        /\ UNCHANGED <<tail, head, seq, val, pos, got, alive, dropped>>
        /\ pc[c] = "cas" /\ pc' = [pc EXCEPT ![c] = "load"]
    BY <1>1, <1>5, ClaimsUnchanged DEF IndInv, TypeOK, PopCasFails, Goto, Holding
  <2>2. AbsQ' = AbsQ /\ AbsAt' = AbsAt /\ AbsGot' = AbsGot /\ AbsSt' = AbsSt
    BY <2>1, <1>1 DEF AbsQ, AbsAt, AbsGot, AbsSt, IndInv, TypeOK, Trying, Holding, Threads
  <2>. QED  BY <2>1, <2>2 DEF Queue!vars, AbsQ, AbsSt, AbsAt, AbsGot
<1>6. CASE PopRead(c)
  <2>1. /\ UNCHANGED <<tail, head, seq, val, pos, alive, dropped>>
        /\ pc[c] = "access" /\ pc' = [pc EXCEPT ![c] = "store"]
        /\ got' = [got EXCEPT ![c] = val[Slot(pos[c])]]
    BY <1>6 DEF PopRead, Goto
  <2>2. \A t \in Threads : /\ pc'[t] \in Holding <=> pc[t] \in Holding
                           /\ pc'[t] \in Trying <=> pc[t] \in Trying
                           /\ pc'[t] \notin Holding => pc'[t] = pc[t]
    BY <1>1, <2>1 DEF IndInv, TypeOK, Holding, Trying
  <2>3. Writing' = Writing /\ Reading' = Reading
    BY <2>1, <2>2 DEF Writing, Reading, Threads
  <2>4. AbsSt' = AbsSt
    BY <2>2 DEF AbsSt
  <2>5. AbsAt' = AbsAt
    BY <2>1, <2>2 DEF AbsAt
  <2>6. AbsGot' = AbsGot
    BY <1>1, <2>1 DEF AbsGot, IndInv, TypeOK, Threads
  <2>. QED  BY <2>1, <2>3, <2>4, <2>5, <2>6 DEF Queue!vars, AbsQ, AbsSt, AbsAt, AbsGot
<1>7. CASE PopStore(c)
  <2>1. /\ UNCHANGED <<tail, head, val, pos, got, alive, dropped>>
        /\ pc[c] = "store" /\ pc' = [pc EXCEPT ![c] = "ok"]
    BY <1>7 DEF PopStore, Goto
  <2>2. Writing' = Writing /\ Reading' = Reading \ {pos[c]}
    <3>1. \A x \in Consumers : x # c /\ pc[x] \in Holding => pos[x] # pos[c]
      BY <1>1, <2>1 DEF IndInv, ClaimsDistinct, Threads, Holding
    <3>. QED  BY <3>1, <1>1, <2>1 DEF Writing, Reading, Threads, Holding, IndInv, TypeOK
  <2>3. AbsSt[c] = "claimed" /\ AbsSt' = [AbsSt EXCEPT ![c] = "ok"]
    BY <1>1, <2>1 DEF AbsSt, IndInv, TypeOK, Trying, Holding
  <2>4. AbsAt[c] = pos[c] /\ AbsAt' = [AbsAt EXCEPT ![c] = 0]
    BY <1>1, <2>1 DEF AbsAt, IndInv, TypeOK, Holding, Threads
  <2>5. AbsGot' = AbsGot
    BY <1>1, <2>1 DEF AbsGot, IndInv, TypeOK, Threads
  <2>6. AbsQ' = Queue!Release(AbsQ, AbsAt[c])
    <3>1. Queue!Release(AbsQ, pos[c]) =
            [tail |-> tail, head |-> head,
             ready |-> (head .. (tail - 1)) \ Writing, reading |-> Reading \ {pos[c]}]
      BY DEF AbsQ, Queue!Release
    <3>. QED  BY <2>1, <2>2, <2>4, <3>1 DEF AbsQ
  <2>7. Queue!PopDone(c)
    BY <2>1, <2>3, <2>4, <2>5, <2>6 DEF Queue!PopDone, AbsQ, AbsSt, AbsAt, AbsGot
  <2>. QED  BY <2>7 DEF Queue!Next
<1>. QED  BY <1>2, <1>3, <1>4, <1>5, <1>6, <1>7 DEF PopStep

LEMMA DropSim ==
  ASSUME IndInv, DropRing
  PROVE  Queue!Drop
<1>1. Writing = {} /\ Writing' = {} /\ Reading' = Reading
  BY DEF DropRing, Writing, Reading, Resting, Holding, Threads
<1>2. dropped' = AbsQ.head .. (AbsQ.tail - 1)
  <2>1. \A i \in head .. (tail - 1) : seq[Slot(i)] = i + 1 /\ val[Slot(i)] = i
    BY <1>1 DEF IndInv, TypeOK, SequenceProtocol, PublishedItems
  <2>. QED  BY <2>1 DEF DropRing, AbsQ
<1>3. \A t \in Threads : AbsSt[t] \in Queue!Outcomes
  BY DEF DropRing, AbsSt, Resting, Trying, Holding, Queue!Outcomes
<1>4. AbsQ' = AbsQ /\ AbsSt' = AbsSt /\ AbsAt' = AbsAt /\ AbsGot' = AbsGot
  BY <1>1 DEF DropRing, AbsQ, AbsSt, AbsAt, AbsGot
<1>. QED  BY <1>2, <1>3, <1>4
          DEF DropRing, Queue!Drop, Queue!Threads, Threads, AbsQ, AbsSt, AbsAt, AbsGot

(* The lock-free ring is a bounded FIFO queue: pushes and pops take effect  *)
(* at their compare_exchange in the order of their positions, "full" and    *)
(* "empty" are answered only when they are so, and the destructor drops     *)
(* exactly what is left.                                                    *)
THEOREM RingImplementsQueue ==
  ASSUME Cap \in Nat, Cap >= 2
  PROVE  Spec => ImplementsQueue
<1>1. Init => Queue!Init
  <2>. SUFFICES ASSUME Init PROVE Queue!Init
    OBVIOUS
  <2>1. Writing = {} /\ Reading = {}
    BY DEF Init, Writing, Reading, Holding, Threads
  <2>2. AbsQ = Queue!EmptyRing
    BY <2>1 DEF Init, AbsQ, Queue!EmptyRing
  <2>3. /\ AbsSt = [t \in Threads |-> "none"]
        /\ AbsAt = [t \in Threads |-> 0]
        /\ AbsGot = [c \in Consumers |-> Queue!NoItem]
    BY DEF Init, AbsSt, AbsAt, AbsGot, Trying, Holding, Threads, NoItem, Queue!NoItem
  <2>. QED  BY <2>2, <2>3
            DEF Init, Queue!Init, Queue!Threads, Threads, AbsQ, AbsSt, AbsAt, AbsGot
<1>2. IndInv /\ [Next]_vars => [Queue!Next]_(Queue!vars)
  <2>. SUFFICES ASSUME IndInv, [Next]_vars PROVE Queue!Next \/ UNCHANGED Queue!vars
    OBVIOUS
  <2>1. CASE UNCHANGED vars
    BY <2>1 DEF vars, Queue!vars, Writing, Reading
  <2>2. CASE DropRing
    BY <2>2, DropSim DEF Queue!Next
  <2>. QED  BY <2>1, <2>2, PushSim, PopSim DEF Next, Gone
<1>3. Spec => []IndInv
  BY RingInvariant
<1>. QED  BY <1>1, <1>2, <1>3, PTL DEF Spec, ImplementsQueue, Queue!Spec
=============================================================================
