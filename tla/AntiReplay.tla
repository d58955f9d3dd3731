---- MODULE AntiReplay ----
(***************************************************************************)
(* What Messenger::check_replay promises its caller, without the registry  *)
(* and its bit masks.  For every peer the receiver remembers the ids it    *)
(* accepted that lie less than WindowSize below the newest one; a call is  *)
(* accepted exactly when its id is neither remembered nor older than that. *)
(* Peers whose addresses hash to one slot displace each other.             *)
(***************************************************************************)
EXTENDS Integers

CONSTANTS
    Mac,         \* peer addresses
    Slots,       \* slots of peer_registry
    SlotOf,      \* the hash: the slot of every address
    WindowSize,  \* width of the window in bits
    MaxMsgId,    \* largest message id (2^32 - 1 in the code)
    None         \* no call answered yet

VARIABLES
    recent,      \* recent[m]: the remembered ids of m, {} for an unknown peer
    verdict      \* the last call and its answer

MsgId == 0 .. MaxMsgId

\* An id is stale next to S when some id of S is WindowSize or more above it.
Stale(S, id) == \E x \in S : id + WindowSize <= x

Fresh(S, id) == id \notin S /\ ~ Stale(S, id)

Slide(S) == {x \in S : ~ Stale(S, x)}

\* The other addresses of m's slot.
Rivals(m) == {x \in Mac \ {m} : SlotOf[x] = SlotOf[m]}

Init ==
    /\ recent = [m \in Mac |-> {}]
    /\ verdict = None

Receive(m, id) ==
    /\ verdict' = [mac |-> m, msg_id |-> id, accepted |-> Fresh(recent[m], id)]
    /\ recent' = IF Fresh(recent[m], id)
                 THEN [x \in Mac |-> IF x = m THEN Slide(recent[m] \cup {id})
                                     ELSE IF x \in Rivals(m) THEN {}
                                     ELSE recent[x]]
                 ELSE recent

\* A restart of the receiver forgets every peer.
Restart ==
    /\ recent' = [m \in Mac |-> {}]
    /\ verdict' = None

Next ==
    \/ \E m \in Mac, id \in MsgId : Receive(m, id)
    \/ Restart

Spec == Init /\ [][Next]_<<recent, verdict>>
====
