---- MODULE ReplayWindow ----
(***************************************************************************)
(* The anti-replay filter of src/source/network.cpp: check_replay over the *)
(* direct-mapped peer_registry, with a bit mask of the last WindowSize ids *)
(* of the peer that owns the slot (module ReplayRecord).                   *)
(***************************************************************************)
EXTENDS ReplayRecord

CONSTANT
    None         \* no call answered yet

ASSUME NoneAssumption ==
    \A m \in Mac : \A id \in MsgId : \A b \in BOOLEAN :
        None # [mac |-> m, msg_id |-> id, accepted |-> b]

VARIABLES
    peer_registry,  \* slot -> peer_record_t
    verdict,        \* the last call of check_replay and what it returned
    grants          \* history: how often (0, 1, more) each id was accepted
                    \* since its peer last took its slot

vars == <<peer_registry, verdict, grants>>

----

NoGrants == [m \in Mac |-> [id \in MsgId |-> 0]]

Init ==
    /\ peer_registry = [s \in Slots |-> ZeroRecord]
    /\ verdict = None
    /\ grants = NoGrants

\* The history of an accepted call: a take-over starts a new count for both
\* the peer that leaves the slot and the one that enters it.
Count(m, id, tookOver) ==
    [x \in Mac |->
        IF x # m
        THEN IF tookOver /\ SlotOf[x] = SlotOf[m] THEN [i \in MsgId |-> 0] ELSE grants[x]
        ELSE [i \in MsgId |->
                IF i = id
                THEN IF tookOver \/ grants[m][id] = 0 THEN 1 ELSE 2
                ELSE IF tookOver THEN 0 ELSE grants[m][i]]]

check_replay(m, id) ==
    LET peer == peer_registry[SlotOf[m]]
        ok == Accepts(peer, m, id)
    IN  /\ verdict' = [mac |-> m, msg_id |-> id, accepted |-> ok]
        /\ IF ok
           THEN /\ peer_registry' = [peer_registry EXCEPT ![SlotOf[m]] = Updated(peer, m, id)]
                /\ grants' = Count(m, id, peer.mac # m)
           ELSE UNCHANGED <<peer_registry, grants>>

\* Messenger::init after a restart clears the registry, which lives in RAM only.
Restart ==
    /\ peer_registry' = [s \in Slots |-> ZeroRecord]
    /\ verdict' = None
    /\ grants' = NoGrants

Next ==
    \/ \E m \in Mac, id \in MsgId : check_replay(m, id)
    \/ Restart

Spec == Init /\ [][Next]_vars

----

\* Type correctness; in particular no bit beyond the word is ever kept.
TypeOK ==
    /\ peer_registry \in [Slots -> PeerRecord]
    /\ verdict \in {None} \cup [mac : Mac, msg_id : MsgId, accepted : BOOLEAN]
    /\ grants \in [Mac -> [MsgId -> 0 .. 2]]

\* Replay protection (network.h:35): as long as a peer keeps its slot, no
\* message id of it is accepted twice, however ids are reordered, skipped or
\* repeated and however often the window slides over them.
AcceptedAtMostOnce == \A m \in Mac : \A id \in MsgId : grants[m][id] <= 1

\* The ids the window of m's record stands for.
Remembered(m) ==
    LET peer == peer_registry[SlotOf[m]]
    IN  IF peer.mac = m
        THEN {id \in MsgId : peer.last_msg_id - id \in peer.window}
        ELSE {}

AR == INSTANCE AntiReplay WITH recent <- [m \in Mac |-> Remembered(m)]

\* The bit masks implement the abstract filter: same answers, same memory.  In
\* particular an id is refused only when it was accepted before or is
\* WindowSize or more below the newest id of its peer.
ImplementsAntiReplay == AR!Spec
====
