---- MODULE BufferPoolProofs ----
(***************************************************************************)
(* Theorems about BufferPool for every pool size, every set of producers   *)
(* and every set of values: single ownership, no leak, no failing push,    *)
(* and the refinement of BoundedFifo.                                      *)
(***************************************************************************)
EXTENDS BufferPool, FiniteSetTheorems, SequenceTheorems, TLAPS

Holders == {p \in Producer : claimed[p] # NoBuf}

InHand == IF taken = NoBuf THEN 0 ELSE 1

\* Every buffer outside the free queue holds a value.
Filled ==
    /\ \A i \in 1 .. Len(work) : pool[work[i]] \in Value
    /\ \A p \in Producer : claimed[p] # NoBuf => pool[claimed[p]] \in Value
    /\ taken # NoBuf => pool[taken] \in Value

\* The buffers are conserved in number: this alone bounds both queues.
Conserved == Len(free) + Len(work) + Cardinality(Holders) + InHand = PoolSize

IInv == PoolTypeOK /\ SingleOwner /\ NoLeak /\ Filled /\ Conserved

----

\* What a push and a pop do to the set of queued buffers.
LEMMA QueuedAppend ==
    ASSUME NEW q \in Seq(Buf), NEW b \in Buf
    PROVE  /\ Append(q, b) \in Seq(Buf)
           /\ Len(Append(q, b)) = Len(q) + 1
           /\ Queued(Append(q, b)) = Queued(q) \cup {b}
           /\ NoQueueTwice(q) /\ b \notin Queued(q) => NoQueueTwice(Append(q, b))
<1>1. /\ Append(q, b) \in Seq(Buf) /\ Len(Append(q, b)) = Len(q) + 1
      /\ \A i \in 1 .. Len(q) : Append(q, b)[i] = q[i]
      /\ Append(q, b)[Len(q) + 1] = b /\ Len(q) \in Nat
  BY AppendProperties, LenProperties
<1> QED
  BY <1>1 DEF Queued, NoQueueTwice

LEMMA QueuedTail ==
    ASSUME NEW q \in Seq(Buf), q # <<>>
    PROVE  /\ Head(q) \in Buf
           /\ Head(q) \in Queued(q)
           /\ Tail(q) \in Seq(Buf)
           /\ Len(Tail(q)) = Len(q) - 1 /\ Len(q) \in Nat \ {0}
           /\ \A i \in 1 .. Len(Tail(q)) : Tail(q)[i] = q[i + 1]
           /\ NoQueueTwice(q) => /\ NoQueueTwice(Tail(q))
                                 /\ Queued(Tail(q)) = Queued(q) \ {Head(q)}
<1>1. /\ Head(q) \in Buf /\ Head(q) = q[1]
      /\ Tail(q) \in Seq(Buf)
      /\ Len(Tail(q)) = Len(q) - 1 /\ Len(q) \in Nat \ {0}
      /\ \A i \in 1 .. Len(Tail(q)) : Tail(q)[i] = q[i + 1]
  BY HeadTailProperties, EmptySeq
<1>2. Queued(q) = {q[1]} \cup Queued(Tail(q))
  <2>1. ASSUME NEW i \in 1 .. Len(q) PROVE q[i] \in {q[1]} \cup Queued(Tail(q))
    <3>1. i # 1 => i - 1 \in 1 .. Len(Tail(q)) /\ Tail(q)[i - 1] = q[i]
      BY <1>1
    <3> QED
      BY <3>1 DEF Queued
  <2>2. ASSUME NEW i \in 1 .. Len(Tail(q)) PROVE Tail(q)[i] \in Queued(q)
    BY <1>1 DEF Queued
  <2>3. q[1] \in Queued(q)
    BY <1>1 DEF Queued
  <2> QED
    BY <2>1, <2>2, <2>3 DEF Queued
<1>3. ASSUME NoQueueTwice(q)
      PROVE  NoQueueTwice(Tail(q)) /\ q[1] \notin Queued(Tail(q))
  BY <1>1, <1>3 DEF NoQueueTwice, Queued
<1> QED
  BY <1>1, <1>2, <1>3

\* The set of producers that hold a buffer, when one of them takes one or
\* gives it up.
LEMMA HoldersChange ==
    ASSUME PoolTypeOK, NEW p \in Producer
    PROVE  /\ IsFiniteSet(Holders) /\ Cardinality(Holders) \in Nat
           /\ p \notin Holders => Cardinality(Holders \cup {p}) = Cardinality(Holders) + 1
           /\ p \in Holders => /\ Cardinality(Holders \ {p}) = Cardinality(Holders) - 1
                               /\ Cardinality(Holders) >= 1
<1>1. IsFiniteSet(Holders)
  BY PoolAssumption, FS_Subset DEF Holders
<1>2. Cardinality(Holders) \in Nat
  BY <1>1, FS_CardinalityType
<1>3. p \notin Holders => Cardinality(Holders \cup {p}) = Cardinality(Holders) + 1
  BY <1>1, FS_AddElement
<1>4. p \in Holders => Cardinality(Holders \ {p}) = Cardinality(Holders) - 1
  BY <1>1, FS_RemoveElement
<1>5. Cardinality(Holders \ {p}) \in Nat
  BY <1>1, FS_CardinalityType, FS_Subset
<1> QED
  BY <1>1, <1>2, <1>3, <1>4, <1>5

\* From the number of buffers: somebody who holds a buffer finds room in both queues.
LEMMA Room ==
    ASSUME IInv
    PROVE  PushesSucceed
<1>1. /\ Len(free) \in Nat /\ Len(work) \in Nat /\ PoolSize \in Nat
  BY PoolAssumption, LenProperties DEF IInv, PoolTypeOK
<1>2. CASE taken # NoBuf
  <2>1. Cardinality(Holders) \in Nat
    BY PoolAssumption, FS_Subset, FS_CardinalityType DEF Holders
  <2> QED
    BY <1>1, <1>2, <2>1 DEF IInv, Conserved, InHand, PushesSucceed
<1>3. ASSUME NEW p \in Producer, claimed[p] # NoBuf
      PROVE  Len(work) < PoolSize /\ Len(free) < PoolSize
  <2>1. p \in Holders
    BY <1>3 DEF Holders
  <2>2. Cardinality(Holders) \in Nat /\ Cardinality(Holders) >= 1
    BY <2>1, HoldersChange DEF IInv
  <2> QED
    BY <1>1, <2>2 DEF IInv, Conserved, InHand
<1> QED
  BY <1>2, <1>3 DEF PushesSucceed, Held

----

LEMMA InitIInv == PoolInit => IInv
<1> SUFFICES ASSUME PoolInit PROVE IInv
  OBVIOUS
<1>1. PoolSize \in Nat \ {0}
  BY PoolAssumption
<1>2. free \in Seq(Buf) /\ Len(free) = PoolSize /\ Queued(free) = Buf /\ NoQueueTwice(free)
  <2>1. free \in [1 .. PoolSize -> Buf] /\ \A b \in Buf : free[b] = b
    BY DEF PoolInit, Buf
  <2>2. free \in Seq(Buf)
    BY <1>1, <2>1, SeqDef
  <2>3. Len(free) = PoolSize
    BY <1>1, <2>1, <2>2, LenProperties
  <2> QED
    BY <2>1, <2>2, <2>3 DEF Queued, NoQueueTwice, Buf
<1>3. work \in Seq(Buf) /\ Len(work) = 0 /\ Queued(work) = {} /\ NoQueueTwice(work)
  <2>1. work \in Seq(Buf) /\ Len(work) = 0
    BY EmptySeq DEF PoolInit
  <2> QED
    BY <2>1 DEF Queued, NoQueueTwice
<1>4. Held = {} /\ Holders = {} /\ taken = NoBuf
  BY DEF PoolInit, Held, Holders
<1>5. PoolTypeOK
  BY <1>1, <1>2, <1>3 DEF PoolInit, PoolTypeOK
<1>6. SingleOwner /\ NoLeak
  BY <1>2, <1>3, <1>4 DEF PoolInit, SingleOwner, NoLeak
<1>7. Filled
  BY <1>3 DEF PoolInit, Filled
<1>8. Conserved
  BY <1>1, <1>2, <1>3, <1>4, FS_EmptySet DEF Conserved, InHand
<1> QED
  BY <1>5, <1>6, <1>7, <1>8 DEF IInv

LEMMA ClaimIInv ==
    ASSUME IInv, NEW p \in Producer, NEW v \in Value, Claim(p, v)
    PROVE  IInv'
<1> DEFINE b == Head(free)
<1>0. PoolTypeOK /\ SingleOwner /\ NoLeak /\ Filled /\ Conserved
  BY DEF IInv
<1>1. /\ free \in Seq(Buf) /\ free # <<>> /\ NoQueueTwice(free)
      /\ free' = Tail(free) /\ work' = work /\ taken' = taken
      /\ claimed' = [claimed EXCEPT ![p] = b] /\ claimed[p] = NoBuf
      /\ pool' = [pool EXCEPT ![b] = v]
  BY <1>0 DEF Claim, PoolTypeOK, SingleOwner
<1>2. /\ b \in Buf /\ b \in Queued(free)
      /\ free' \in Seq(Buf) /\ Len(free') = Len(free) - 1
      /\ NoQueueTwice(free') /\ Queued(free') = Queued(free) \ {b}
      /\ Len(free) \in Nat \ {0}
  BY <1>1, QueuedTail
<1>3. b # NoBuf
  BY <1>2, PoolAssumption DEF Buf, NoBuf
<1>4. Queued(work)' = Queued(work) /\ NoQueueTwice(work)' = NoQueueTwice(work)
  BY <1>1 DEF Queued, NoQueueTwice
<1>5. Held' = Held \cup {b}
  BY <1>0, <1>1, <1>3 DEF Held, PoolTypeOK
<1>6. Holders' = Holders \cup {p} /\ p \notin Holders
  BY <1>0, <1>1, <1>3 DEF Holders, PoolTypeOK
<1>7. PoolTypeOK'
  BY <1>0, <1>1, <1>2, PoolAssumption DEF PoolTypeOK, Claim
<1>8. SingleOwner' /\ NoLeak'
  <2>1. b \notin Held /\ b # taken /\ b \notin Queued(work)
    BY <1>0, <1>2, <1>3 DEF SingleOwner
  <2>2. \A q \in Producer : claimed[q] # b
    BY <1>3, <2>1 DEF Held
  <2>3. \A q \in Producer : claimed'[q] = IF q = p THEN b ELSE claimed[q]
    BY <1>0, <1>1 DEF PoolTypeOK
  <2>4. \A q, r \in Producer : q # r /\ claimed'[q] = claimed'[r] => claimed'[q] = NoBuf
    BY <1>0, <2>2, <2>3 DEF SingleOwner
  <2>5. Queued(free)' = Queued(free) \ {b} /\ NoQueueTwice(free)'
    BY <1>2 DEF Queued, NoQueueTwice
  <2> QED
    BY <1>0, <1>1, <1>2, <1>3, <1>4, <1>5, <2>1, <2>4, <2>5 DEF SingleOwner, NoLeak
<1>9. Filled'
  <2>1. \A c \in Buf : pool'[c] = IF c = b THEN v ELSE pool[c]
    BY <1>0, <1>1, <1>2 DEF PoolTypeOK
  <2>2. \A i \in 1 .. Len(work) : work[i] \in Buf
    BY <1>0, ElementOfSeq DEF PoolTypeOK
  <2> QED
    BY <1>0, <1>1, <1>2, <2>1, <2>2 DEF Filled, PoolTypeOK
<1>10. Conserved'
  <2>1. Cardinality(Holders') = Cardinality(Holders) + 1 /\ Cardinality(Holders) \in Nat
    BY <1>0, <1>6, HoldersChange
  <2>2. Len(work) \in Nat
    BY <1>0, LenProperties DEF PoolTypeOK
  <2> QED
    BY <1>0, <1>1, <1>2, <2>1, <2>2, PoolAssumption DEF Conserved, InHand
<1> QED
  BY <1>7, <1>8, <1>9, <1>10 DEF IInv

LEMMA PublishIInv ==
    ASSUME IInv, NEW p \in Producer, Publish(p)
    PROVE  IInv'
<1> DEFINE b == claimed[p]
<1>0. PoolTypeOK /\ SingleOwner /\ NoLeak /\ Filled /\ Conserved
  BY DEF IInv
<1>1. b \in Buf /\ b # NoBuf /\ b \in Held /\ p \in Holders
  BY <1>0 DEF Publish, PoolTypeOK, Held, Holders
<1>2. Len(work) < PoolSize
  BY <1>1, Room DEF PushesSucceed
<1>3. /\ work' = Append(work, b) /\ free' = free /\ taken' = taken /\ pool' = pool
      /\ claimed' = [claimed EXCEPT ![p] = NoBuf] /\ refused' = refused
      /\ work \in Seq(Buf) /\ NoQueueTwice(work) /\ b \notin Queued(work)
  BY <1>0, <1>1, <1>2 DEF Publish, PoolTypeOK, SingleOwner
<1>4. /\ work' \in Seq(Buf) /\ Len(work') = Len(work) + 1
      /\ Queued(work') = Queued(work) \cup {b} /\ NoQueueTwice(work')
      /\ Len(work) \in Nat /\ \A i \in 1 .. Len(work) : work'[i] = work[i]
      /\ work'[Len(work) + 1] = b
  BY <1>1, <1>3, QueuedAppend, AppendProperties, LenProperties
<1>5. \A q \in Producer : claimed'[q] = IF q = p THEN NoBuf ELSE claimed[q]
  BY <1>0, <1>3 DEF PoolTypeOK
<1>6. Held' = Held \ {b}
  <2>1. \A q \in Producer : q # p => claimed[q] # b
    BY <1>0, <1>1 DEF SingleOwner
  <2> QED
    BY <1>1, <1>5, <2>1 DEF Held
<1>7. Holders' = Holders \ {p}
  BY <1>5 DEF Holders
<1>8. PoolTypeOK'
  <2>1. claimed' \in [Producer -> Buf \cup {NoBuf}]
    BY <1>0, <1>3 DEF PoolTypeOK
  <2> QED
    BY <1>0, <1>2, <1>3, <1>4, <2>1, PoolAssumption DEF PoolTypeOK
<1>9. SingleOwner' /\ NoLeak'
  <2>1. b \notin Queued(free) /\ b # taken
    BY <1>0, <1>1 DEF SingleOwner
  <2>2. \A q, r \in Producer : q # r /\ claimed'[q] = claimed'[r] => claimed'[q] = NoBuf
    BY <1>0, <1>5 DEF SingleOwner
  <2>3. Queued(free)' = Queued(free) /\ NoQueueTwice(free)' = NoQueueTwice(free)
    BY <1>3 DEF Queued, NoQueueTwice
  <2>4. Queued(work)' = Queued(work) \cup {b} /\ NoQueueTwice(work)'
    BY <1>4 DEF Queued, NoQueueTwice
  <2> QED
    BY <1>0, <1>1, <1>3, <1>6, <2>1, <2>2, <2>3, <2>4 DEF SingleOwner, NoLeak
<1>10. Filled'
  BY <1>0, <1>1, <1>3, <1>4, <1>5 DEF Filled
<1>11. Conserved'
  <2>1. Cardinality(Holders') = Cardinality(Holders) - 1 /\ Cardinality(Holders) \in Nat
    BY <1>0, <1>1, <1>7, HoldersChange
  <2>2. Len(free) \in Nat
    BY <1>0, LenProperties DEF PoolTypeOK
  <2> QED
    BY <1>0, <1>3, <1>4, <2>1, <2>2, PoolAssumption DEF Conserved, InHand
<1> QED
  BY <1>8, <1>9, <1>10, <1>11 DEF IInv

LEMMA ConsumeIInv ==
    ASSUME IInv, Consume
    PROVE  IInv'
<1> DEFINE b == Head(work)
<1>0. PoolTypeOK /\ SingleOwner /\ NoLeak /\ Filled /\ Conserved
  BY DEF IInv
<1>1. /\ work \in Seq(Buf) /\ work # <<>> /\ NoQueueTwice(work)
      /\ work' = Tail(work) /\ free' = free /\ taken' = b /\ taken = NoBuf
      /\ claimed' = claimed /\ pool' = pool /\ refused' = refused
  BY <1>0 DEF Consume, PoolTypeOK, SingleOwner
<1>2. /\ b \in Buf /\ b \in Queued(work)
      /\ work' \in Seq(Buf) /\ Len(work') = Len(work) - 1 /\ Len(work) \in Nat \ {0}
      /\ NoQueueTwice(work') /\ Queued(work') = Queued(work) \ {b}
      /\ \A i \in 1 .. Len(work') : work'[i] = work[i + 1]
  BY <1>1, QueuedTail
<1>3. b # NoBuf
  BY <1>2, PoolAssumption DEF Buf, NoBuf
<1>4. Held' = Held /\ Holders' = Holders
  BY <1>1 DEF Held, Holders
<1>5. PoolTypeOK'
  BY <1>0, <1>1, <1>2, PoolAssumption DEF PoolTypeOK
<1>6. SingleOwner' /\ NoLeak'
  <2>1. Queued(free)' = Queued(free) /\ NoQueueTwice(free)' = NoQueueTwice(free)
    BY <1>1 DEF Queued, NoQueueTwice
  <2>2. Queued(work)' = Queued(work) \ {b} /\ NoQueueTwice(work)'
    BY <1>2 DEF Queued, NoQueueTwice
  <2>3. b \notin Held /\ b \notin Queued(free)
    BY <1>0, <1>2 DEF SingleOwner
  <2> QED
    BY <1>0, <1>1, <1>2, <1>3, <1>4, <2>1, <2>2, <2>3 DEF SingleOwner, NoLeak
<1>7. Filled'
  <2>1. pool[b] \in Value
    <3>1. b = work[1] /\ 1 \in 1 .. Len(work)
      BY <1>1, <1>2, HeadTailProperties
    <3> QED
      BY <1>0, <3>1 DEF Filled
  <2> QED
    BY <1>0, <1>1, <1>2, <2>1 DEF Filled
<1>8. Conserved'
  <2>1. Cardinality(Holders) \in Nat
    BY PoolAssumption, FS_Subset, FS_CardinalityType DEF Holders
  <2>2. Len(free) \in Nat
    BY <1>0, LenProperties DEF PoolTypeOK
  <2> QED
    BY <1>0, <1>1, <1>2, <1>3, <1>4, <2>1, <2>2, PoolAssumption DEF Conserved, InHand
<1> QED
  BY <1>5, <1>6, <1>7, <1>8 DEF IInv

LEMMA ReleaseIInv ==
    ASSUME IInv, Release
    PROVE  IInv'
<1> DEFINE b == taken
<1>0. PoolTypeOK /\ SingleOwner /\ NoLeak /\ Filled /\ Conserved
  BY DEF IInv
<1>1. b \in Buf /\ b # NoBuf
  BY <1>0 DEF Release, PoolTypeOK
<1>2. Len(free) < PoolSize
  BY <1>1, Room DEF PushesSucceed
<1>3. /\ free' = Append(free, b) /\ work' = work /\ taken' = NoBuf /\ pool' = pool
      /\ claimed' = claimed /\ refused' = refused
      /\ free \in Seq(Buf) /\ NoQueueTwice(free) /\ b \notin Queued(free)
  BY <1>0, <1>1, <1>2 DEF Release, Push, PoolTypeOK, SingleOwner
<1>4. /\ free' \in Seq(Buf) /\ Len(free') = Len(free) + 1 /\ Len(free) \in Nat
      /\ Queued(free') = Queued(free) \cup {b} /\ NoQueueTwice(free')
  BY <1>1, <1>3, QueuedAppend, LenProperties
<1>5. Held' = Held /\ Holders' = Holders
  BY <1>3 DEF Held, Holders
<1>6. PoolTypeOK'
  BY <1>0, <1>2, <1>3, <1>4, PoolAssumption DEF PoolTypeOK
<1>7. SingleOwner' /\ NoLeak'
  <2>1. Queued(work)' = Queued(work) /\ NoQueueTwice(work)' = NoQueueTwice(work)
    BY <1>3 DEF Queued, NoQueueTwice
  <2>2. Queued(free)' = Queued(free) \cup {b} /\ NoQueueTwice(free)'
    BY <1>4 DEF Queued, NoQueueTwice
  <2>3. NoBuf \notin Held
    BY DEF Held
  <2> QED
    BY <1>0, <1>1, <1>3, <1>5, <2>1, <2>2, <2>3 DEF SingleOwner, NoLeak
<1>8. Filled'
  BY <1>0, <1>3 DEF Filled
<1>9. Conserved'
  <2>1. Cardinality(Holders) \in Nat
    BY PoolAssumption, FS_Subset, FS_CardinalityType DEF Holders
  <2>2. Len(work) \in Nat
    BY <1>0, LenProperties DEF PoolTypeOK
  <2> QED
    BY <1>0, <1>1, <1>3, <1>4, <1>5, <2>1, <2>2, PoolAssumption DEF Conserved, InHand
<1> QED
  BY <1>6, <1>7, <1>8, <1>9 DEF IInv

\* A step that moves no buffer: stuttering and Exhausted.
LEMMA NothingMovesIInv ==
    ASSUME IInv, UNCHANGED <<free, work, pool, claimed, taken>>,
           refused' \in [Producer -> BOOLEAN]
    PROVE  IInv'
<1>1. PoolTypeOK'
  BY DEF IInv, PoolTypeOK
<1>2. /\ Queued(free)' = Queued(free) /\ Queued(work)' = Queued(work)
      /\ NoQueueTwice(free)' = NoQueueTwice(free)
      /\ NoQueueTwice(work)' = NoQueueTwice(work)
      /\ Held' = Held /\ Holders' = Holders
  BY DEF Queued, NoQueueTwice, Held, Holders
<1>3. SingleOwner' /\ NoLeak'
  BY <1>2 DEF IInv, SingleOwner, NoLeak
<1>4. Filled'
  BY DEF IInv, Filled
<1>5. Conserved'
  BY <1>2 DEF IInv, Conserved, InHand
<1> QED
  BY <1>1, <1>3, <1>4, <1>5 DEF IInv

LEMMA NextIInv == IInv /\ [PoolNext]_poolVars => IInv'
<1> SUFFICES ASSUME IInv, [PoolNext]_poolVars PROVE IInv'
  OBVIOUS
<1>1. CASE UNCHANGED poolVars
  BY <1>1, NothingMovesIInv DEF poolVars, IInv, PoolTypeOK
<1>2. ASSUME NEW p \in Producer, Exhausted(p)
      PROVE  IInv'
  BY <1>2, NothingMovesIInv DEF Exhausted, IInv, PoolTypeOK
<1> QED
  BY <1>1, <1>2, ClaimIInv, PublishIInv, ConsumeIInv, ReleaseIInv DEF PoolNext

LEMMA IInvHolds == PoolSpec => []IInv
BY InitIInv, NextIInv, PTL DEF PoolSpec

\* The queues hold buffer indices only and never exceed their length.
THEOREM TypeCorrect == PoolSpec => []PoolTypeOK
BY IInvHolds, PTL DEF IInv

\* No buffer is ever in two places: the task that fills or reads a buffer is
\* the only one that has its pointer.
THEOREM Ownership == PoolSpec => []SingleOwner
BY IInvHolds, PTL DEF IInv

\* No sequence of sends, drops and deliveries loses a buffer.
THEOREM NothingLost == PoolSpec => []NoLeak
BY IInvHolds, PTL DEF IInv

\* The unchecked queue pushes of on_data_recv, crypto_task and network_task
\* succeed, and the give-back branches are dead code.
THEOREM QueuesHaveRoom == PoolSpec => []PushesSucceed
BY IInvHolds, Room, PTL

----

FifoWriting == [p \in Producer |-> ContentOf(claimed[p])]
FifoQueue == [i \in 1 .. Len(work) |-> pool[work[i]]]
FifoCurrent == ContentOf(taken)

\* The values a task holds are never blank, so the abstract and the concrete
\* FIFO agree on who holds one, and on how many values are in use.
LEMMA SameUse ==
    ASSUME IInv
    PROVE  /\ \A p \in Producer : FifoWriting[p] = Blank <=> claimed[p] = NoBuf
           /\ FifoCurrent = Blank <=> taken = NoBuf
           /\ Fifo!InUse = PoolSize - Len(free)
<1>1. \A p \in Producer : FifoWriting[p] = Blank <=> claimed[p] = NoBuf
  BY PoolAssumption DEF FifoWriting, ContentOf, IInv, Filled
<1>2. FifoCurrent = Blank <=> taken = NoBuf
  BY PoolAssumption DEF FifoCurrent, ContentOf, IInv, Filled
<1>3. {p \in Producer : FifoWriting[p] # Blank} = Holders
  BY <1>1 DEF Holders
<1>4. Len(work) \in Nat /\ Len(free) \in Nat /\ Len(FifoQueue) = Len(work)
  BY LenProperties DEF IInv, PoolTypeOK, FifoQueue
<1>5. Cardinality(Holders) \in Nat
  BY PoolAssumption, FS_Subset, FS_CardinalityType DEF Holders
<1>6. Fifo!InUse = Cardinality(Holders) + Len(work) + InHand
  <2>1. Fifo!Cardinality(Holders) = Cardinality(Holders)
    BY DEF Fifo!Cardinality, Cardinality
  <2> QED
    BY <1>2, <1>3, <1>4, <2>1 DEF Fifo!InUse, InHand, FifoWriting, FifoQueue, FifoCurrent
<1>7. Fifo!InUse = PoolSize - Len(free)
  BY <1>4, <1>5, <1>6, PoolAssumption DEF IInv, Conserved, InHand
<1> QED
  BY <1>1, <1>2, <1>7

LEMMA InitRefines == PoolInit => Fifo!Init
<1> SUFFICES ASSUME PoolInit PROVE Fifo!Init
  OBVIOUS
<1>1. FifoQueue = <<>>
  BY DEF PoolInit, FifoQueue
<1> QED
  BY <1>1 DEF PoolInit, Fifo!Init, FifoQueue, ContentOf

LEMMA ClaimRefines ==
    ASSUME IInv, NEW p \in Producer, NEW v \in Value, Claim(p, v)
    PROVE  Fifo!Begin(p)
<1> DEFINE b == Head(free)
<1>0. PoolTypeOK /\ SingleOwner /\ Filled
  BY DEF IInv
<1>1. /\ free \in Seq(Buf) /\ free # <<>> /\ work' = work /\ taken' = taken
      /\ claimed' = [claimed EXCEPT ![p] = b] /\ claimed[p] = NoBuf
      /\ pool' = [pool EXCEPT ![b] = v] /\ refused' = [refused EXCEPT ![p] = FALSE]
  BY <1>0 DEF Claim, PoolTypeOK
<1>2. b \in Buf /\ b \in Queued(free) /\ b # NoBuf /\ Len(free) \in Nat \ {0}
  BY <1>1, QueuedTail, PoolAssumption DEF Buf, NoBuf
<1>3. \A c \in Buf : pool'[c] = IF c = b THEN v ELSE pool[c]
  BY <1>0, <1>1, <1>2 DEF PoolTypeOK
<1>4. b \notin Held /\ b # taken /\ b \notin Queued(work)
  BY <1>0, <1>2 DEF SingleOwner
<1>5. FifoWriting' = [FifoWriting EXCEPT ![p] = v]
  <2>1. ASSUME NEW q \in Producer
        PROVE  FifoWriting'[q] = IF q = p THEN v ELSE FifoWriting[q]
    <3>1. claimed'[q] = IF q = p THEN b ELSE claimed[q]
      BY <1>0, <1>1 DEF PoolTypeOK
    <3>2. claimed[q] # b
      BY <1>2, <1>4 DEF Held
    <3> QED
      BY <1>0, <1>2, <1>3, <3>1, <3>2 DEF FifoWriting, ContentOf, PoolTypeOK
  <2> QED
    BY <2>1 DEF FifoWriting
<1>6. FifoQueue' = FifoQueue
  <2>1. \A i \in 1 .. Len(work) : work[i] \in Buf /\ work[i] # b
    BY <1>0, <1>4, ElementOfSeq DEF PoolTypeOK, Queued
  <2> QED
    BY <1>1, <1>3, <2>1 DEF FifoQueue
<1>7. FifoCurrent' = FifoCurrent
  BY <1>0, <1>1, <1>3, <1>4 DEF FifoCurrent, ContentOf, PoolTypeOK
<1>8. FifoWriting[p] = Blank /\ Fifo!InUse < PoolSize
  BY <1>1, <1>2, SameUse, PoolAssumption
<1> QED
  BY <1>1, <1>5, <1>6, <1>7, <1>8 DEF Fifo!Begin, FifoWriting, FifoQueue, FifoCurrent

LEMMA ExhaustedRefines ==
    ASSUME IInv, NEW p \in Producer, Exhausted(p)
    PROVE  Fifo!Refuse(p)
<1>1. /\ free = <<>> /\ claimed[p] = NoBuf /\ refused' = [refused EXCEPT ![p] = TRUE]
      /\ UNCHANGED <<work, pool, claimed, taken>>
  BY DEF Exhausted
<1>2. FifoWriting' = FifoWriting /\ FifoQueue' = FifoQueue /\ FifoCurrent' = FifoCurrent
  BY <1>1 DEF FifoWriting, FifoQueue, FifoCurrent, ContentOf
<1>3. FifoWriting[p] = Blank /\ Fifo!InUse = PoolSize
  BY <1>1, SameUse, PoolAssumption
<1> QED
  BY <1>1, <1>2, <1>3 DEF Fifo!Refuse, FifoWriting, FifoQueue, FifoCurrent

LEMMA PublishRefines ==
    ASSUME IInv, NEW p \in Producer, Publish(p)
    PROVE  Fifo!Commit(p)
<1> DEFINE b == claimed[p]
<1>0. PoolTypeOK /\ Filled
  BY DEF IInv
<1>1. b \in Buf /\ b # NoBuf /\ b \in Held
  BY <1>0 DEF Publish, PoolTypeOK, Held
<1>2. Len(work) < PoolSize
  BY <1>1, Room DEF PushesSucceed
<1>3. /\ work' = Append(work, b) /\ taken' = taken /\ pool' = pool
      /\ claimed' = [claimed EXCEPT ![p] = NoBuf] /\ refused' = refused
      /\ work \in Seq(Buf)
  BY <1>0, <1>1, <1>2 DEF Publish, PoolTypeOK
<1>4. /\ Len(work') = Len(work) + 1 /\ Len(work) \in Nat
      /\ \A i \in 1 .. Len(work) : work'[i] = work[i]
      /\ work'[Len(work) + 1] = b
  BY <1>1, <1>3, AppendProperties, LenProperties
<1>5. FifoWriting' = [FifoWriting EXCEPT ![p] = Blank]
  BY <1>0, <1>3 DEF FifoWriting, ContentOf, PoolTypeOK
<1>6. FifoQueue' = Append(FifoQueue, FifoWriting[p])
  <2>1. FifoWriting[p] = pool[b]
    BY <1>1 DEF FifoWriting, ContentOf
  <2>2. FifoQueue' = [i \in 1 .. Len(work) + 1 |-> pool[IF i = Len(work) + 1 THEN b ELSE work[i]]]
    BY <1>3, <1>4 DEF FifoQueue
  <2> QED
    BY <1>4, <2>1, <2>2 DEF FifoQueue
<1>7. FifoCurrent' = FifoCurrent
  BY <1>3 DEF FifoCurrent, ContentOf
<1>8. FifoWriting[p] # Blank
  BY <1>1, SameUse
<1> QED
  BY <1>3, <1>5, <1>6, <1>7, <1>8 DEF Fifo!Commit, FifoWriting, FifoQueue, FifoCurrent

LEMMA ConsumeRefines ==
    ASSUME IInv, Consume
    PROVE  Fifo!Take
<1>0. PoolTypeOK
  BY DEF IInv
<1>1. /\ work \in Seq(Buf) /\ work # <<>> /\ work' = Tail(work)
      /\ taken' = Head(work) /\ taken = NoBuf
      /\ claimed' = claimed /\ pool' = pool /\ refused' = refused
  BY <1>0 DEF Consume, PoolTypeOK
<1>2. /\ Head(work) \in Buf /\ Head(work) = work[1]
      /\ Len(Tail(work)) = Len(work) - 1 /\ Len(work) \in Nat \ {0}
      /\ \A i \in 1 .. Len(Tail(work)) : Tail(work)[i] = work[i + 1]
  BY <1>1, HeadTailProperties, EmptySeq
<1>3. Head(work) # NoBuf
  BY <1>2, PoolAssumption DEF Buf, NoBuf
<1>4. /\ FifoQueue # <<>> /\ Head(FifoQueue) = pool[work[1]]
      /\ Tail(FifoQueue) = [i \in 1 .. Len(work) - 1 |-> pool[work[i + 1]]]
  <2>1. FifoQueue \in Seq({pool[work[i]] : i \in 1 .. Len(work)})
    BY <1>2, SeqDef DEF FifoQueue
  <2>2. Len(FifoQueue) = Len(work)
    BY <1>2 DEF FifoQueue
  <2> QED
    BY <1>2, <2>1, <2>2 DEF FifoQueue
<1>5. FifoQueue' = [i \in 1 .. Len(work) - 1 |-> pool[work[i + 1]]]
  BY <1>1, <1>2 DEF FifoQueue
<1>6. FifoCurrent' = pool[work[1]]
  BY <1>1, <1>2, <1>3 DEF FifoCurrent, ContentOf
<1>7. FifoWriting' = FifoWriting
  BY <1>1 DEF FifoWriting, ContentOf
<1>8. FifoCurrent = Blank
  BY <1>1, SameUse
<1> QED
  BY <1>1, <1>4, <1>5, <1>6, <1>7, <1>8 DEF Fifo!Take, FifoWriting, FifoQueue, FifoCurrent

LEMMA ReleaseRefines ==
    ASSUME IInv, Release
    PROVE  Fifo!Done
<1>1. /\ taken # NoBuf /\ taken' = NoBuf
      /\ UNCHANGED <<work, pool, claimed, refused>>
  BY DEF Release
<1>2. FifoWriting' = FifoWriting /\ FifoQueue' = FifoQueue /\ FifoCurrent' = Blank
  BY <1>1 DEF FifoWriting, FifoQueue, FifoCurrent, ContentOf
<1>3. FifoCurrent # Blank
  BY <1>1, SameUse
<1> QED
  BY <1>1, <1>2, <1>3 DEF Fifo!Done, FifoWriting, FifoQueue, FifoCurrent

LEMMA NextRefines ==
    IInv /\ [PoolNext]_poolVars => [Fifo!Next]_<<FifoWriting, FifoQueue, FifoCurrent, refused>>
<1> SUFFICES ASSUME IInv, [PoolNext]_poolVars
             PROVE  [Fifo!Next]_<<FifoWriting, FifoQueue, FifoCurrent, refused>>
  OBVIOUS
<1>1. CASE UNCHANGED poolVars
  BY <1>1 DEF poolVars, FifoWriting, FifoQueue, FifoCurrent, ContentOf
<1>2. CASE PoolNext
  BY <1>2, ClaimRefines, ExhaustedRefines, PublishRefines, ConsumeRefines, ReleaseRefines
     DEF PoolNext, Fifo!Next
<1> QED
  BY <1>1, <1>2

\* The pool of buffers and the two pointer queues implement a FIFO of values
\* with PoolSize places.
THEOREM Refinement == PoolSpec => ImplementsFifo
BY InitRefines, NextRefines, IInvHolds, PTL
   DEF PoolSpec, ImplementsFifo, Fifo!Spec, Fifo!fifoVars, FifoWriting, FifoQueue, FifoCurrent
====
