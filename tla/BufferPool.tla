---- MODULE BufferPool ----
(***************************************************************************)
(* The static buffer pools of src/source/network.cpp.  A pool of PoolSize  *)
(* buffers is handed around by pointer through two queues of PoolSize      *)
(* entries: producers pop a buffer from the free queue, fill it and push   *)
(* it to the work queue; one consumer pops it, uses it and pushes it back. *)
(* The code has two such pools:                                            *)
(*   receive: on_data_recv (the WiFi task) -> recv_queue -> crypto_task    *)
(*   send:    callers of send_reliable -> network_queue -> network_task    *)
(* Each queue operation is a step of its own: producers run in other tasks *)
(* and on another core than the consumer.                                  *)
(***************************************************************************)
EXTENDS Integers, Sequences, FiniteSets

CONSTANTS
    PoolSize,  \* RECV_POOL_SIZE (10) or SEND_POOL_SIZE (5)
    Producer,  \* the tasks that fill buffers
    Value,     \* packets or messages
    Blank      \* content of a buffer never filled

ASSUME PoolAssumption ==
    /\ PoolSize \in Nat \ {0}
    /\ IsFiniteSet(Producer)
    /\ Blank \notin Value

VARIABLES
    free,      \* free_recv_queue, free_send_queue: indices of unused buffers
    work,      \* recv_queue, network_queue: indices of filled buffers
    pool,      \* recv_pool, send_pool: the content of every buffer
    claimed,   \* the buffer each producer is filling (raw_ptr, next_buf), or NoBuf
    taken,     \* the buffer the consumer is using (raw_ptr, m_buf), or NoBuf
    refused    \* refused[p]: p's last call dropped its packet or returned false

poolVars == <<free, work, pool, claimed, taken, refused>>

Buf == 1 .. PoolSize
NoBuf == 0

\* xQueueSend with no waiting: a full queue loses the pointer.
Push(queue, b) == IF Len(queue) < PoolSize THEN Append(queue, b) ELSE queue

----

\* Mutant of PoolInit: the buffers are numbered from 0.
InitFromZero ==
    /\ free = [b \in 1 .. PoolSize |-> b - 1]
    /\ work = <<>>
    /\ pool = [b \in Buf |-> Blank]
    /\ claimed = [p \in Producer |-> NoBuf]
    /\ taken = NoBuf
    /\ refused = [p \in Producer |-> FALSE]

\* Messenger::init pushes every buffer to the free queue, in index order.
PoolInit ==
    /\ free = [b \in 1 .. PoolSize |-> b]
    /\ work = <<>>
    /\ pool = [b \in Buf |-> Blank]
    /\ claimed = [p \in Producer |-> NoBuf]
    /\ taken = NoBuf
    /\ refused = [p \in Producer |-> FALSE]

\* Mutant of Claim: the buffer is looked at but not taken out of the queue.
ClaimPeek(p, v) ==
    /\ claimed[p] = NoBuf
    /\ free # <<>>
    /\ claimed' = [claimed EXCEPT ![p] = Head(free)]
    /\ pool' = [pool EXCEPT ![Head(free)] = v]
    /\ refused' = [refused EXCEPT ![p] = FALSE]
    /\ UNCHANGED <<free, work, taken>>

\* A producer pops a free buffer and copies its value in.
Claim(p, v) ==
    /\ claimed[p] = NoBuf
    /\ free # <<>>
    /\ claimed' = [claimed EXCEPT ![p] = Head(free)]
    /\ free' = Tail(free)
    /\ pool' = [pool EXCEPT ![Head(free)] = v]
    /\ refused' = [refused EXCEPT ![p] = FALSE]
    /\ UNCHANGED <<work, taken>>

\* No free buffer: the packet is dropped, send_reliable returns false.
Exhausted(p) ==
    /\ claimed[p] = NoBuf
    /\ free = <<>>
    /\ refused' = [refused EXCEPT ![p] = TRUE]
    /\ UNCHANGED <<free, work, pool, claimed, taken>>

\* Mutant of Publish: send_reliable without the "return true" of line 253, so
\* that it goes on to give the buffer back.
PublishAndFree(p) ==
    /\ claimed[p] # NoBuf
    /\ work' = Push(work, claimed[p])
    /\ free' = Push(free, claimed[p])
    /\ claimed' = [claimed EXCEPT ![p] = NoBuf]
    /\ UNCHANGED <<pool, taken, refused>>

\* The producer pushes the filled buffer to the work queue; when that queue is
\* full it gives the buffer back and drops the value.
Publish(p) ==
    /\ claimed[p] # NoBuf
    /\ IF Len(work) < PoolSize
       THEN /\ work' = Append(work, claimed[p])
            /\ UNCHANGED <<free, refused>>
       ELSE /\ free' = Push(free, claimed[p])
            /\ refused' = [refused EXCEPT ![p] = TRUE]
            /\ UNCHANGED work
    /\ claimed' = [claimed EXCEPT ![p] = NoBuf]
    /\ UNCHANGED <<pool, taken>>

\* Mutant of Consume: the newest buffer first.
ConsumeNewest ==
    /\ taken = NoBuf
    /\ work # <<>>
    /\ taken' = work[Len(work)]
    /\ work' = SubSeq(work, 1, Len(work) - 1)
    /\ UNCHANGED <<free, pool, claimed, refused>>

\* The consumer pops the oldest filled buffer.
Consume ==
    /\ taken = NoBuf
    /\ work # <<>>
    /\ taken' = Head(work)
    /\ work' = Tail(work)
    /\ UNCHANGED <<free, pool, claimed, refused>>

\* Mutant of Release: an early "continue" before line 315 or 360.
ReleaseForgotten ==
    /\ taken # NoBuf
    /\ taken' = NoBuf
    /\ UNCHANGED <<free, work, pool, claimed, refused>>

\* The consumer is done with its buffer and pushes it to the free queue; the
\* result of that push is not looked at.
Release ==
    /\ taken # NoBuf
    /\ free' = Push(free, taken)
    /\ taken' = NoBuf
    /\ UNCHANGED <<work, pool, claimed, refused>>

PoolNext ==
    \/ \E p \in Producer : Publish(p) \/ Exhausted(p) \/ \E v \in Value : Claim(p, v)
    \/ Consume
    \/ Release

\* The tasks run on: a producer finishes the call it is in, the consumer's
\* loop never stops.  Nobody has to start a call.
PoolFairness ==
    /\ \A p \in Producer : WF_poolVars(Publish(p))
    /\ WF_poolVars(Consume)
    /\ WF_poolVars(Release)

PoolSpec == PoolInit /\ [][PoolNext]_poolVars
FairPoolSpec == PoolSpec /\ PoolFairness

----

\* The buffers in a queue, and those a producer is filling.
Queued(queue) == {queue[i] : i \in 1 .. Len(queue)}
Held == {claimed[p] : p \in Producer} \ {NoBuf}

\* Type correctness.
PoolTypeOK ==
    /\ free \in Seq(Buf) /\ Len(free) <= PoolSize
    /\ work \in Seq(Buf) /\ Len(work) <= PoolSize
    /\ pool \in [Buf -> Value \cup {Blank}]
    /\ claimed \in [Producer -> Buf \cup {NoBuf}]
    /\ taken \in Buf \cup {NoBuf}
    /\ refused \in [Producer -> BOOLEAN]

\* Single ownership: at any time a buffer is in one place of one queue or in
\* the hands of one task, so no task writes a buffer another one reads.
NoQueueTwice(queue) ==
    \A i, j \in 1 .. Len(queue) : i # j => queue[i] # queue[j]

SingleOwner ==
    /\ NoQueueTwice(free) /\ NoQueueTwice(work)
    /\ Queued(free) \cap Queued(work) = {}
    /\ (Held \cup ({taken} \ {NoBuf})) \cap (Queued(free) \cup Queued(work)) = {}
    /\ taken \notin Held
    /\ \A p, q \in Producer : p # q /\ claimed[p] = claimed[q] => claimed[p] = NoBuf

\* No buffer is ever lost: none of the queue operations whose result the code
\* ignores fails, and dropping a packet gives its buffer back.
NoLeak == Buf = Queued(free) \cup Queued(work) \cup Held \cup ({taken} \ {NoBuf})

\* Whatever a task holds, both queues have room for it: the "queue full"
\* branches of send_reliable (line 255) and on_data_recv (line 237) are never
\* taken, and the unchecked pushes to the free queues always succeed.
PushesSucceed ==
    (taken # NoBuf \/ Held # {}) => Len(work) < PoolSize /\ Len(free) < PoolSize

ContentOf(b) == IF b = NoBuf THEN Blank ELSE pool[b]

Fifo == INSTANCE BoundedFifo WITH
    writing <- [p \in Producer |-> ContentOf(claimed[p])],
    fifo    <- [i \in 1 .. Len(work) |-> pool[work[i]]],
    current <- ContentOf(taken)

\* Pointers and buffers implement a FIFO of values: what the consumer works on
\* is what a producer put in, in order, and a producer is refused only when
\* PoolSize values are in use.
ImplementsFifo == Fifo!Spec

\* Every buffer in use comes back to the free queue.
BuffersReturn == \A b \in Buf : b \notin Queued(free) ~> b \in Queued(free)
====
