---- MODULE ReplayRecord ----
(***************************************************************************)
(* One record of peer_registry (peer_record_t, network.h:56-61) and what   *)
(* Messenger::check_replay makes of it.  A bit mask is the set of its bits *)
(* that are 1, so "<< d" moves every bit up by d and drops those past the  *)
(* top.  The record's last_seen is written and never read: it is left out. *)
(***************************************************************************)
EXTENDS Integers, PeerTable

CONSTANTS
    WindowSize,  \* WINDOW_SIZE (64 in the code)
    MaxMsgId     \* largest uint32_t

ASSUME RecordAssumption ==
    /\ NoMac \notin Mac
    /\ SlotOf \in [Mac -> Slots]
    /\ WindowSize \in Nat \ {0}
    /\ MaxMsgId \in Nat

MsgId == 0 .. MaxMsgId
Bits == 0 .. WindowSize - 1
PeerRecord == [mac : Mac \cup {NoMac}, last_msg_id : MsgId, window : SUBSET Bits]

----

\* Mutant of ShiftLeft: the mask is wider than its word.
ShiftLeftWide(window, diff) == {b + diff : b \in window}

\* peer->window << diff on a WindowSize-bit word.
ShiftLeft(window, diff) == {b \in Bits : b - diff \in window}

\* A new peer, or one that collides with the slot's owner, takes the record over.
TakeOver(m, id) == [mac |-> m, last_msg_id |-> id, window |-> {0}]

\* Mutant of Advance: the "| 1" of line 211 is missing.
AdvanceUnmarked(peer, id) ==
    [peer EXCEPT !.window = ShiftLeft(peer.window, id - peer.last_msg_id), !.last_msg_id = id]

\* An id above the newest one moves the window up to it.
Advance(peer, id) ==
    LET diff == id - peer.last_msg_id
    IN  [peer EXCEPT !.window = IF diff < WindowSize
                                THEN ShiftLeft(peer.window, diff) \cup {0}
                                ELSE {0},
                     !.last_msg_id = id]

\* An id inside the window sets its bit.
Mark(peer, id) == [peer EXCEPT !.window = @ \cup {peer.last_msg_id - id}]

\* Mutant of Unmarked: "diff > WINDOW_SIZE" for "diff >= WINDOW_SIZE" (line 217).
UnmarkedPastEdge(peer, id) ==
    LET diff == peer.last_msg_id - id
    IN  diff <= WindowSize /\ diff \notin peer.window

\* The id lies inside the window and its bit is clear.
Unmarked(peer, id) ==
    LET diff == peer.last_msg_id - id
    IN  diff < WindowSize /\ diff \notin peer.window

\* What check_replay returns for a record, and the record it leaves behind.
Accepts(peer, m, id) ==
    \/ peer.mac # m
    \/ id > peer.last_msg_id
    \/ Unmarked(peer, id)

Updated(peer, m, id) ==
    IF peer.mac # m THEN TakeOver(m, id)
    ELSE IF id > peer.last_msg_id THEN Advance(peer, id)
    ELSE Mark(peer, id)

\* memset(peer_registry, 0, ...) in Messenger::init.
ZeroRecord == [mac |-> NoMac, last_msg_id |-> 0, window |-> {}]
====
