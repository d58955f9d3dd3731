---- MODULE BoundedFifo ----
(***************************************************************************)
(* What a buffer pool and its two queues promise the tasks of Messenger: a *)
(* FIFO of values with room for PoolSize values, counting those a producer *)
(* is still writing and the one the consumer is working on.  A producer is *)
(* refused exactly when that room is used up, and nobody ever sees a value *)
(* other than the one that was put in.                                     *)
(***************************************************************************)
EXTENDS Integers, Sequences, FiniteSets

CONSTANTS
    PoolSize,  \* values in the FIFO at a time
    Producer,  \* tasks that put values in
    Value,     \* the values
    Blank      \* no value

VARIABLES
    writing,   \* the value each producer is putting in, or Blank
    fifo,      \* the values put in and not taken yet
    current,   \* the value the consumer works on, or Blank
    refused    \* refused[p]: the last attempt of p found no room

fifoVars == <<writing, fifo, current, refused>>

InUse ==
    Cardinality({p \in Producer : writing[p] # Blank}) + Len(fifo)
        + (IF current = Blank THEN 0 ELSE 1)

Init ==
    /\ writing = [p \in Producer |-> Blank]
    /\ fifo = <<>>
    /\ current = Blank
    /\ refused = [p \in Producer |-> FALSE]

Begin(p) ==
    /\ writing[p] = Blank
    /\ InUse < PoolSize
    /\ \E v \in Value : writing' = [writing EXCEPT ![p] = v]
    /\ refused' = [refused EXCEPT ![p] = FALSE]
    /\ UNCHANGED <<fifo, current>>

Refuse(p) ==
    /\ writing[p] = Blank
    /\ InUse = PoolSize
    /\ refused' = [refused EXCEPT ![p] = TRUE]
    /\ UNCHANGED <<writing, fifo, current>>

Commit(p) ==
    /\ writing[p] # Blank
    /\ fifo' = Append(fifo, writing[p])
    /\ writing' = [writing EXCEPT ![p] = Blank]
    /\ UNCHANGED <<current, refused>>

\* Begin and Commit of a producer that nobody sees between the two.
Put(p) ==
    /\ writing[p] = Blank
    /\ InUse < PoolSize
    /\ \E v \in Value : fifo' = Append(fifo, v)
    /\ refused' = [refused EXCEPT ![p] = FALSE]
    /\ UNCHANGED <<writing, current>>

Take ==
    /\ current = Blank
    /\ fifo # <<>>
    /\ current' = Head(fifo)
    /\ fifo' = Tail(fifo)
    /\ UNCHANGED <<writing, refused>>

Done ==
    /\ current # Blank
    /\ current' = Blank
    /\ UNCHANGED <<writing, fifo, refused>>

Next ==
    \/ \E p \in Producer : Begin(p) \/ Refuse(p) \/ Commit(p) \/ Put(p)
    \/ Take
    \/ Done

Spec == Init /\ [][Next]_fifoVars
====
