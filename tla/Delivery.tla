------------------------------ MODULE Delivery ------------------------------
(***************************************************************************)
(* What send_reliable and crypto_task promise their applications, without   *)
(* frames, ids, acknowledgements or retries: fragments of messages that     *)
(* were given to send get to the node they were meant for, each at most     *)
(* once in a life of that node, in any order or not at all.                 *)
(***************************************************************************)
EXTENDS Integers

CONSTANTS
    Node,
    Calls,          \* how many messages can be given to send
    MaxFragments,   \* fragments of a message
    NotSent         \* no message

VARIABLES
    given,          \* the message of each call: sender, receiver, fragments
    stored          \* how often each node has stored each fragment since it started

Fragments == (1 .. Calls) \X (0 .. MaxFragments - 1)
NothingStored == [p \in Fragments |-> 0]

Init ==
    /\ given = [t \in 1 .. Calls |-> NotSent]
    /\ stored = [n \in Node |-> NothingStored]

Send(t) ==
    /\ given[t] = NotSent
    /\ \E from \in Node : \E to \in Node \ {from}, total \in 0 .. MaxFragments :
           given' = [given EXCEPT ![t] = [from |-> from, to |-> to, total |-> total]]
    /\ UNCHANGED stored

Deliver(t, seq) ==
    /\ given[t] # NotSent
    /\ seq < given[t].total
    /\ stored[given[t].to][<<t, seq>>] = 0
    /\ stored' = [stored EXCEPT ![given[t].to][<<t, seq>>] = 1]
    /\ UNCHANGED given

Restart(n) ==
    /\ stored' = [stored EXCEPT ![n] = NothingStored]
    /\ UNCHANGED given

Next ==
    \/ \E t \in 1 .. Calls : Send(t) \/ \E seq \in 0 .. MaxFragments - 1 : Deliver(t, seq)
    \/ \E n \in Node : Restart(n)

Spec == Init /\ [][Next]_<<given, stored>>
=============================================================================
