---- MODULE Messenger ----
(***************************************************************************)
(* src/source/network.cpp: nodes that send each other messages over        *)
(* ESP-NOW.  Every node runs                                               *)
(*   its application, which calls send_reliable,                           *)
(*   network_task (core 0), stop-and-wait over the fragments of a message, *)
(*   the receive callback on_data_recv of the WiFi task, and               *)
(*   crypto_task (core 1), which checks, stores and acknowledges frames.   *)
(* They share global_msg_id, the expected ACK, a task notification and the *)
(* two buffer pools, whose queues are FIFOs of values (module BufferPool   *)
(* shows that they are).  A frame on the air may be lost, delayed,         *)
(* reordered and received any number of times: air only grows.             *)
(*                                                                         *)
(* Left out: is_blacklisted and handle_blacklist, which let every frame    *)
(* through (module Firewall); messenger_busy, which is net.pc # "idle";    *)
(* last_send_ok, which nobody reads.  All nodes hold the same HMAC secret  *)
(* and, once they have set it, the same network master key.  A frame's tag *)
(* is the message the fragment was built for; which bytes wrap really puts *)
(* into it, and under which epoch key, is the subject of NetworkPrivacy,   *)
(* where the two tasks share a buffer.  A frame hurt that way fails at the *)
(* receiver, and CryptoDrop is always possible.                            *)
(***************************************************************************)
EXTENDS ReplayRecord, Sequences, FiniteSets

CONSTANTS
    FirstId,       \* global_msg_id at boot (1000)
    RecvPoolSize,  \* RECV_POOL_SIZE (10)
    SendPoolSize,  \* SEND_POOL_SIZE (5)
    RingSize,      \* fragments that fit in network_msg_buffer
    MaxTries,      \* transmissions of a fragment (3)
    FragmentSize,  \* sizeof(fragment_packet_t): 250 bytes of members, 252 with
                   \* the aligned(4) of its declaration
    MaxTotal,      \* bound: fragments per message (24 in the code)
    MaxSends,      \* bound: calls of send_reliable that get a buffer
    MaxReboots     \* bound: reboots

ASSUME MessengerAssumption ==
    /\ FirstId \in Nat /\ FirstId + MaxSends <= MaxMsgId
    /\ {RecvPoolSize, SendPoolSize, RingSize, MaxTries} \subseteq Nat \ {0}
    /\ {FragmentSize, MaxTotal, MaxSends, MaxReboots} \subseteq Nat
    /\ \A m, x \in Mac : SlotOf[m] = SlotOf[x] => m = x

VARIABLES
    key_set,         \* NetworkPrivacy::key_set of every node
    global_msg_id,   \* the counter of every node
    caller,          \* the message send_reliable holds before it queues it
    network_queue,   \* messages queued for network_task
    net,             \* network_task: control point and locals
    expected_ack,    \* expected_ack_id and expected_ack_seq
    notified,        \* the notification of network_task is pending
    recv_queue,      \* frames queued for crypto_task
    crypto,          \* crypto_task: control point and the frame in raw_ptr
    peer_registry,   \* the anti-replay records of every node
    ring,            \* network_msg_buffer: fragments for the application
    air,             \* every frame transmitted so far
    sends,           \* history: calls of send_reliable that got a buffer
    reboots,         \* history: reboots so far
    drawn,           \* history: the id send_reliable drew for each message
    given,           \* history: sender, receiver and fragments of each message
    passed,          \* history: how often (0, 1, more) this boot let through
                     \* each id of each peer
    inbox,           \* history: the data frames every node ever stored
    stored           \* history: how often (0, 1, more) this boot of a node has
                     \* stored each fragment

appVars == <<key_set, global_msg_id, caller, sends, drawn, given>>
netVars == <<net, expected_ack>>
cryptoVars == <<crypto, peer_registry, ring, passed, inbox, stored>>
vars == <<appVars, network_queue, netVars, notified, recv_queue, cryptoVars,
          air, reboots>>

\* A message in a send buffer; its tag stands for its content.
Message == [target : Mac, total : 0 .. MaxTotal, tag : 1 .. MaxSends]
NoMsg == [total |-> 0, tag |-> 0]

\* What is on record of a message that was given to send_reliable.
Given == [from : Mac, to : Mac, total : 0 .. MaxTotal]

\* A frame: header and, for data, the message its payload comes from.  A
\* fragment that wrap left untouched is "NOISE": its bytes are whatever the
\* stack of network_task held.
Frame == [src : Mac, dst : Mac, type : {"DATA", "ACK", "NOISE"}, id : MsgId,
          seq : 0 .. MaxTotal - 1, tag : 0 .. MaxSends]
NoFrame == [type |-> "NONE"]

\* Control point and locals of network_task: message, fragment, try and frame.
NetState == [pc : {"idle", "prepare", "expect_id", "expect_seq", "transmit", "wait", "return"},
             msg : Message \cup {NoMsg}, i : 0 .. MaxTotal, r : 0 .. MaxTries - 1,
             pkt : Frame \cup {NoFrame}]
Ack == [id : MsgId, seq : 0 .. MaxTotal]
CryptoState == [pc : {"idle", "compare_id", "compare_seq", "notify", "finish"},
                frame : Frame \cup {NoFrame}]

IdleNet == [pc |-> "idle", msg |-> NoMsg, i |-> 0, r |-> 0, pkt |-> NoFrame]
IdleCrypto == [pc |-> "idle", frame |-> NoFrame]
NothingPassed == [m \in Mac |-> [id \in MsgId |-> 0]]

\* A fragment is known by the tag of its message and its number.
Fragments == (1 .. MaxSends) \X (0 .. MaxTotal - 1)
NothingStored == [p \in Fragments |-> 0]

Init ==
    /\ key_set = [n \in Mac |-> FALSE]
    /\ global_msg_id = [n \in Mac |-> FirstId]
    /\ caller = [n \in Mac |-> NoMsg]
    /\ network_queue = [n \in Mac |-> <<>>]
    /\ net = [n \in Mac |-> IdleNet]
    /\ expected_ack = [n \in Mac |-> [id |-> 0, seq |-> 0]]
    /\ notified = [n \in Mac |-> FALSE]
    /\ recv_queue = [n \in Mac |-> <<>>]
    /\ crypto = [n \in Mac |-> IdleCrypto]
    /\ peer_registry = [n \in Mac |-> [s \in Slots |-> ZeroRecord]]
    /\ ring = [n \in Mac |-> <<>>]
    /\ air = {}
    /\ sends = 0
    /\ reboots = 0
    /\ drawn = [t \in 1 .. MaxSends |-> 0]
    /\ given = [t \in 1 .. MaxSends |-> NoMsg]
    /\ passed = [n \in Mac |-> NothingPassed]
    /\ inbox = [n \in Mac |-> {}]
    /\ stored = [n \in Mac |-> NothingStored]

----
(* The application *)

set_network_master_key(n) ==
    /\ ~ key_set[n]
    /\ key_set' = [key_set EXCEPT ![n] = TRUE]
    /\ UNCHANGED <<global_msg_id, caller, sends, drawn, given, network_queue, netVars, notified,
                   recv_queue, cryptoVars, air, reboots>>

\* Send buffers in use.
SendBuffers(n) ==
    Len(network_queue[n]) + (IF net[n].pc = "idle" THEN 0 ELSE 1)
                          + (IF caller[n] = NoMsg THEN 0 ELSE 1)

\* Mutant of send_reliable: "global_msg_id++" (line 251) is missing.
send_reliable_same_id(n) ==
    /\ caller[n] = NoMsg
    /\ sends < MaxSends
    /\ SendBuffers(n) < SendPoolSize
    /\ \E target \in Mac \ {n}, total \in 0 .. MaxTotal :
           /\ caller' = [caller EXCEPT ![n] =
                            [target |-> target, total |-> total, tag |-> sends + 1]]
           /\ given' = [given EXCEPT ![sends + 1] =
                           [from |-> n, to |-> target, total |-> total]]
    /\ sends' = sends + 1
    /\ drawn' = [drawn EXCEPT ![sends + 1] = global_msg_id[n] + 1]
    /\ UNCHANGED <<key_set, global_msg_id, network_queue, netVars, notified,
                   recv_queue, cryptoVars, air, reboots>>

\* send_reliable takes a buffer, fills it and draws an id.  With no buffer
\* left it returns false and changes nothing.  "global_msg_id++" reads and
\* writes the word in one step here: all calls of the program are in setup()
\* and loop() (kyber_dilithium.ino), one task of a node, and no other task
\* writes it.  Two calling tasks could lose an increment; that is not modelled.
send_reliable(n) ==
    /\ caller[n] = NoMsg
    /\ sends < MaxSends
    /\ SendBuffers(n) < SendPoolSize
    /\ \E target \in Mac \ {n}, total \in 0 .. MaxTotal :
           /\ caller' = [caller EXCEPT ![n] =
                            [target |-> target, total |-> total, tag |-> sends + 1]]
           /\ given' = [given EXCEPT ![sends + 1] =
                           [from |-> n, to |-> target, total |-> total]]
    /\ sends' = sends + 1
    /\ global_msg_id' = [global_msg_id EXCEPT ![n] = @ + 1]
    /\ drawn' = [drawn EXCEPT ![sends + 1] = global_msg_id[n] + 1]
    /\ UNCHANGED <<key_set, network_queue, netVars, notified,
                   recv_queue, cryptoVars, air, reboots>>

\* It then queues the buffer, which carries no id.
send_reliable_queue(n) ==
    /\ caller[n] # NoMsg
    /\ network_queue' = [network_queue EXCEPT ![n] = Append(@, caller[n])]
    /\ caller' = [caller EXCEPT ![n] = NoMsg]
    /\ UNCHANGED <<key_set, global_msg_id, sends, drawn, given, netVars, notified,
                   recv_queue, cryptoVars, air, reboots>>

----
(* network_task *)

NetTake(n) ==
    /\ net[n].pc = "idle"
    /\ network_queue[n] # <<>>
    /\ LET m == Head(network_queue[n])
       IN  net' = [net EXCEPT ![n] = [IdleNet EXCEPT
                      !.pc = IF m.total = 0 THEN "return" ELSE "prepare", !.msg = m]]
    /\ network_queue' = [network_queue EXCEPT ![n] = Tail(@)]
    /\ UNCHANGED <<appVars, expected_ack, notified, recv_queue, cryptoVars, air, reboots>>

\* Mutant of NextFragment: "i <= total" in the loop of line 286.
NextFragmentPastEnd(w) ==
    [w EXCEPT !.i = @ + 1, !.r = 0, !.pkt = NoFrame,
              !.pc = IF w.i < w.msg.total THEN "prepare" ELSE "return"]

\* The loop over the fragments goes on, or is left after the last one.
NextFragment(w) ==
    [w EXCEPT !.i = @ + 1, !.r = 0, !.pkt = NoFrame,
              !.pc = IF w.i + 1 < w.msg.total THEN "prepare" ELSE "return"]

\* A try is over without an ACK: the next one, or on to the next fragment all the same.
NextTry(w) ==
    IF w.r + 1 < MaxTries THEN [w EXCEPT !.r = @ + 1, !.pc = "transmit"] ELSE NextFragment(w)

\* The fragment gets the id global_msg_id has now, not the one of its message.
Fragment(n) ==
    LET w == net[n]
    IN  [src |-> n, dst |-> w.msg.target, type |-> IF key_set[n] THEN "DATA" ELSE "NOISE",
         id |-> global_msg_id[n], seq |-> w.i, tag |-> w.msg.tag]

\* compute_hmac succeeds, or gives up on its mutex and the fragment is skipped.
NetPrepare(n) ==
    /\ net[n].pc = "prepare"
    /\ \/ net' = [net EXCEPT ![n].pkt = Fragment(n), ![n].pc = "expect_id"]
       \/ net' = [net EXCEPT ![n] = NextFragment(@)]
    /\ UNCHANGED <<appVars, network_queue, expected_ack, notified, recv_queue, cryptoVars,
                   air, reboots>>

NetExpectId(n) ==
    /\ net[n].pc = "expect_id"
    /\ expected_ack' = [expected_ack EXCEPT ![n].id = net[n].pkt.id]
    /\ net' = [net EXCEPT ![n].pc = "expect_seq"]
    /\ UNCHANGED <<appVars, network_queue, notified, recv_queue, cryptoVars, air, reboots>>

NetExpectSeq(n) ==
    /\ net[n].pc = "expect_seq"
    /\ expected_ack' = [expected_ack EXCEPT ![n].seq = net[n].pkt.seq]
    /\ net' = [net EXCEPT ![n].pc = "transmit"]
    /\ UNCHANGED <<appVars, network_queue, notified, recv_queue, cryptoVars, air, reboots>>

\* xTaskNotifyStateClear, then esp_now_send.
NetTransmit(n) ==
    /\ net[n].pc = "transmit"
    /\ notified' = [notified EXCEPT ![n] = FALSE]
    /\ air' = air \cup {net[n].pkt}
    /\ net' = [net EXCEPT ![n].pc = "wait"]
    /\ UNCHANGED <<appVars, network_queue, expected_ack, recv_queue, cryptoVars, reboots>>

\* xTaskNotifyWait returns pdTRUE.
NetNotified(n) ==
    /\ net[n].pc = "wait"
    /\ notified[n]
    /\ notified' = [notified EXCEPT ![n] = FALSE]
    /\ net' = [net EXCEPT ![n] = NextFragment(@)]
    /\ UNCHANGED <<appVars, network_queue, expected_ack, recv_queue, cryptoVars,
                   air, reboots>>

\* Mutant of NetTimeout: tries are not counted.
NetTimeoutForever(n) ==
    /\ net[n].pc = "wait"
    /\ ~ notified[n]
    /\ net' = [net EXCEPT ![n].pc = "transmit"]
    /\ UNCHANGED <<appVars, network_queue, expected_ack, notified, recv_queue, cryptoVars,
                   air, reboots>>

\* It times out.
NetTimeout(n) ==
    /\ net[n].pc = "wait"
    /\ ~ notified[n]
    /\ net' = [net EXCEPT ![n] = NextTry(@)]
    /\ UNCHANGED <<appVars, network_queue, expected_ack, notified, recv_queue, cryptoVars,
                   air, reboots>>

\* The send buffer goes back to its pool, sent or not.
NetReturn(n) ==
    /\ net[n].pc = "return"
    /\ net' = [net EXCEPT ![n] = IdleNet]
    /\ UNCHANGED <<appVars, network_queue, expected_ack, notified, recv_queue, cryptoVars,
                   air, reboots>>

----
(* The radio and the receive callback *)

\* Mutant of RecvBuffers: crypto_task gives its buffer back before it works on it.
RecvBuffersQueued(n) == Len(recv_queue[n])

\* Receive buffers in use.
RecvBuffers(n) == Len(recv_queue[n]) + (IF crypto[n].pc = "idle" THEN 0 ELSE 1)

\* A frame of the code's own has sizeof(fragment_packet_t) bytes.
LengthRefused == FragmentSize > 250

on_data_recv(f) ==
    /\ f \in air
    /\ ~ LengthRefused
    /\ RecvBuffers(f.dst) < RecvPoolSize
    /\ recv_queue' = [recv_queue EXCEPT ![f.dst] = Append(@, f)]
    /\ UNCHANGED <<appVars, network_queue, netVars, notified, cryptoVars, air, reboots>>

----
(* crypto_task *)

\* compute_hmac may give up on its mutex; unwrap fails without the key and on
\* noise.  check_replay comes last and is the only one of them with an effect.
Authentic(n, f) == key_set[n] /\ f.type # "NOISE"

Known(n, f) == peer_registry[n][SlotOf[f.src]]

\* Mutant of Passes: check_replay is left out.
PassesAgain(n, f) == Authentic(n, f)

Passes(n, f) == Authentic(n, f) /\ Accepts(Known(n, f), f.src, f.id)

\* Mutant of Register: ACKs do not enter the anti-replay window.
RegisterDataOnly(n, f) ==
    /\ peer_registry' = IF f.type = "DATA"
                        THEN [peer_registry EXCEPT ![n][SlotOf[f.src]] = Updated(@, f.src, f.id)]
                        ELSE peer_registry
    /\ passed' = [passed EXCEPT ![n][f.src][f.id] = IF @ = 0 THEN 1 ELSE 2]

\* check_replay accepts the frame: its record and the history of the boot.
Register(n, f) ==
    /\ peer_registry' = [peer_registry EXCEPT ![n][SlotOf[f.src]] = Updated(@, f.src, f.id)]
    /\ passed' = [passed EXCEPT ![n][f.src][f.id] = IF @ = 0 THEN 1 ELSE 2]

AckFor(f) ==
    [src |-> f.dst, dst |-> f.src, type |-> "ACK", id |-> f.id, seq |-> f.seq, tag |-> 0]

\* Mutant of CryptoDrop: a refused data frame is acknowledged all the same.
CryptoDropAcks(n) ==
    /\ crypto[n].pc = "idle"
    /\ recv_queue[n] # <<>>
    /\ LET f == Head(recv_queue[n])
       IN  /\ air' = IF f.type = "DATA" THEN air \cup {AckFor(f)} ELSE air
           /\ crypto' = [crypto EXCEPT ![n] = [pc |-> "finish", frame |-> f]]
    /\ recv_queue' = [recv_queue EXCEPT ![n] = Tail(@)]
    /\ UNCHANGED <<appVars, network_queue, netVars, notified, peer_registry, ring, passed, inbox,
                   stored, reboots>>

\* The frame fails a check.
CryptoDrop(n) ==
    /\ crypto[n].pc = "idle"
    /\ recv_queue[n] # <<>>
    /\ recv_queue' = [recv_queue EXCEPT ![n] = Tail(@)]
    /\ crypto' = [crypto EXCEPT ![n] = [pc |-> "finish", frame |-> Head(recv_queue[n])]]
    /\ UNCHANGED <<appVars, network_queue, netVars, notified, peer_registry, ring, passed, inbox,
                   stored, air, reboots>>

CryptoAck(n) ==
    /\ crypto[n].pc = "idle"
    /\ recv_queue[n] # <<>>
    /\ LET f == Head(recv_queue[n])
       IN  /\ Passes(n, f) /\ f.type = "ACK"
           /\ Register(n, f)
           /\ crypto' = [crypto EXCEPT ![n] = [pc |-> "compare_id", frame |-> f]]
    /\ recv_queue' = [recv_queue EXCEPT ![n] = Tail(@)]
    /\ UNCHANGED <<appVars, network_queue, netVars, notified, ring, inbox, stored, air, reboots>>

\* The two comparisons with the expected ACK and the notification are three
\* steps: network_task may move on between them.
CryptoCompareId(n) ==
    /\ crypto[n].pc = "compare_id"
    /\ crypto' = [crypto EXCEPT ![n].pc =
                     IF crypto[n].frame.id = expected_ack[n].id THEN "compare_seq" ELSE "finish"]
    /\ UNCHANGED <<appVars, network_queue, netVars, notified, recv_queue, peer_registry, ring,
                   passed, inbox, stored, air, reboots>>

CryptoCompareSeq(n) ==
    /\ crypto[n].pc = "compare_seq"
    /\ crypto' = [crypto EXCEPT ![n].pc =
                     IF crypto[n].frame.seq = expected_ack[n].seq THEN "notify" ELSE "finish"]
    /\ UNCHANGED <<appVars, network_queue, netVars, notified, recv_queue, peer_registry, ring,
                   passed, inbox, stored, air, reboots>>

CryptoNotify(n) ==
    /\ crypto[n].pc = "notify"
    /\ notified' = [notified EXCEPT ![n] = TRUE]
    /\ crypto' = [crypto EXCEPT ![n].pc = "finish"]
    /\ UNCHANGED <<appVars, network_queue, netVars, recv_queue, peer_registry, ring,
                   passed, inbox, stored, air, reboots>>

\* Data is stored and then acknowledged; a full ring or an HMAC mutex that
\* cannot be had leaves it without an ACK.
CryptoData(n) ==
    /\ crypto[n].pc = "idle"
    /\ recv_queue[n] # <<>>
    /\ LET f == Head(recv_queue[n])
       IN  /\ Passes(n, f) /\ f.type = "DATA"
           /\ Register(n, f)
           /\ crypto' = [crypto EXCEPT ![n] = [pc |-> "finish", frame |-> f]]
           /\ IF Len(ring[n]) < RingSize
              THEN /\ ring' = [ring EXCEPT ![n] = Append(@, f)]
                   /\ inbox' = [inbox EXCEPT ![n] = @ \cup {f}]
                   /\ stored' = [stored EXCEPT ![n][<<f.tag, f.seq>>] = IF @ = 0 THEN 1 ELSE 2]
                   /\ air' \in {air, air \cup {AckFor(f)}}
              ELSE UNCHANGED <<ring, inbox, stored, air>>
    /\ recv_queue' = [recv_queue EXCEPT ![n] = Tail(@)]
    /\ UNCHANGED <<appVars, network_queue, netVars, notified, reboots>>

\* Mutant of CryptoFinish: the ring is not read.
CryptoFinishKeeps(n) ==
    /\ crypto[n].pc = "finish"
    /\ crypto' = [crypto EXCEPT ![n] = IdleCrypto]
    /\ UNCHANGED <<appVars, network_queue, netVars, notified, recv_queue, peer_registry, ring,
                   passed, inbox, stored, air, reboots>>

\* The receive buffer goes back to its pool; then one fragment of the ring is
\* read and wiped.  (An iteration without a frame would do the latter too, but
\* finds the ring empty: RingDrained.)
CryptoFinish(n) ==
    /\ crypto[n].pc = "finish"
    /\ crypto' = [crypto EXCEPT ![n] = IdleCrypto]
    /\ ring' = [ring EXCEPT ![n] = IF @ = <<>> THEN @ ELSE Tail(@)]
    /\ UNCHANGED <<appVars, network_queue, netVars, notified, recv_queue, peer_registry,
                   passed, inbox, stored, air, reboots>>

----

\* A reset loses all RAM.  "tx_msg_id" is read at boot and nobody writes it, so
\* the counter starts at FirstId again.
Reboot(n) ==
    /\ reboots < MaxReboots
    /\ reboots' = reboots + 1
    /\ key_set' = [key_set EXCEPT ![n] = FALSE]
    /\ global_msg_id' = [global_msg_id EXCEPT ![n] = FirstId]
    /\ caller' = [caller EXCEPT ![n] = NoMsg]
    /\ network_queue' = [network_queue EXCEPT ![n] = <<>>]
    /\ net' = [net EXCEPT ![n] = IdleNet]
    /\ expected_ack' = [expected_ack EXCEPT ![n] = [id |-> 0, seq |-> 0]]
    /\ notified' = [notified EXCEPT ![n] = FALSE]
    /\ recv_queue' = [recv_queue EXCEPT ![n] = <<>>]
    /\ crypto' = [crypto EXCEPT ![n] = IdleCrypto]
    /\ peer_registry' = [peer_registry EXCEPT ![n] = [s \in Slots |-> ZeroRecord]]
    /\ ring' = [ring EXCEPT ![n] = <<>>]
    /\ passed' = [passed EXCEPT ![n] = NothingPassed]
    /\ stored' = [stored EXCEPT ![n] = NothingStored]
    /\ UNCHANGED <<sends, drawn, given, inbox, air>>

Application(n) == set_network_master_key(n) \/ send_reliable(n) \/ send_reliable_queue(n)

network_task(n) ==
    \/ NetTake(n) \/ NetPrepare(n) \/ NetExpectId(n) \/ NetExpectSeq(n)
    \/ NetTransmit(n) \/ NetNotified(n) \/ NetTimeout(n) \/ NetReturn(n)

crypto_task(n) ==
    \/ CryptoDrop(n) \/ CryptoAck(n) \/ CryptoData(n)
    \/ CryptoCompareId(n) \/ CryptoCompareSeq(n) \/ CryptoNotify(n) \/ CryptoFinish(n)

Next ==
    \/ \E n \in Mac : Application(n) \/ network_task(n) \/ crypto_task(n) \/ Reboot(n)
    \/ \E f \in air : on_data_recv(f)

\* A call of send_reliable comes back, and the scheduler runs network_task, its
\* waits end after 250 ms at the latest.
Fairness == \A n \in Mac : WF_vars(send_reliable_queue(n)) /\ WF_vars(network_task(n))

Spec == Init /\ [][Next]_vars
FairSpec == Spec /\ Fairness

----

\* Type correctness.
TypeOK ==
    /\ key_set \in [Mac -> BOOLEAN]
    /\ global_msg_id \in [Mac -> MsgId]
    /\ caller \in [Mac -> Message \cup {NoMsg}]
    /\ network_queue \in [Mac -> Seq(Message)]
    /\ net \in [Mac -> NetState]
    /\ expected_ack \in [Mac -> Ack]
    /\ notified \in [Mac -> BOOLEAN]
    /\ recv_queue \in [Mac -> Seq(Frame)]
    /\ crypto \in [Mac -> CryptoState]
    /\ peer_registry \in [Mac -> [Slots -> PeerRecord]]
    /\ ring \in [Mac -> Seq(Frame)]
    /\ air \subseteq Frame
    /\ sends \in 0 .. MaxSends
    /\ reboots \in 0 .. MaxReboots
    /\ drawn \in [1 .. MaxSends -> MsgId]
    /\ passed \in [Mac -> [Mac -> [MsgId -> 0 .. 2]]]
    /\ inbox \in [Mac -> SUBSET Frame]
    /\ given \in [1 .. MaxSends -> Given \cup {NoMsg}]
    /\ stored \in [Mac -> [Fragments -> 0 .. 2]]

\* Between two boots a node lets at most one frame through for every peer and
\* message id, data or ACK, however often frames are retransmitted, delayed or
\* reordered.  So no fragment is stored twice; and of the fragments of a
\* message, which all carry the id global_msg_id has when they are built, a
\* second one gets through only when other calls of send_reliable moved the
\* counter in between.
OneFramePerId == \A n, m \in Mac : \A id \in MsgId : passed[n][m][id] <= 1

\* An ACK is never on the air without the data it acknowledges having been
\* stored by the node that sent it.
AckMeansStored ==
    \A a \in air : a.type = "ACK" =>
        \E f \in inbox[a.src] : f.src = a.dst /\ f.id = a.id /\ f.seq = a.seq

\* No data frame carries an id older than the one send_reliable drew for its
\* message: the counter is moved before the message is queued (network.cpp:251
\* and 253), and read when the fragment is built (290).
IdsNeverOlder == \A f \in air : f.type = "DATA" => f.id >= drawn[f.tag]

\* crypto_task drains what it stores before it takes the next frame, so the
\* ring always has room: no data frame whose id check_replay has already used
\* up is lost to a full ring (network.cpp:351).
RingDrained == \A n \in Mac : crypto[n].pc = "idle" => ring[n] = <<>>

\* Message t is in the hands of some node's send_reliable or network_task.
Sending(t) ==
    \E n \in Mac :
        \/ caller[n].tag = t
        \/ net[n].msg.tag = t
        \/ \E i \in 1 .. Len(network_queue[n]) : network_queue[n][i].tag = t

\* Every message send_reliable takes is done with in the end, acknowledged or
\* not: its buffer returns to the pool even when no frame ever arrives.
SendsFinish == \A t \in 1 .. MaxSends : Sending(t) ~> ~ Sending(t)

\* Over a medium that loses, repeats and reorders frames, with retries and reboots, nodes
\* store what Delivery allows: fragments of messages that were given to send_reliable, at
\* the node they were given for, and each at most once between its reboots.
D == INSTANCE Delivery WITH Node <- Mac, Calls <- MaxSends, MaxFragments <- MaxTotal,
                            NotSent <- NoMsg
ImplementsDelivery == D!Spec

\* A pool and its queues as module BufferPool implements them.
SendPool(n) == INSTANCE BoundedFifo WITH
    PoolSize <- SendPoolSize, Producer <- {n}, Value <- Message, Blank <- NoMsg,
    writing <- [p \in {n} |-> caller[n]], fifo <- network_queue[n], current <- net[n].msg,
    refused <- [p \in {n} |-> FALSE]
RecvPool(n) == INSTANCE BoundedFifo WITH
    PoolSize <- RecvPoolSize, Producer <- {n}, Value <- Frame, Blank <- NoFrame,
    writing <- [p \in {n} |-> NoFrame], fifo <- recv_queue[n], current <- crypto[n].frame,
    refused <- [p \in {n} |-> FALSE]

\* From boot to boot each node uses both of its pools as FIFOs of values with so many
\* places: a buffer is taken only while one is left, also counting the ones in the hands of
\* a task; a task gets what was put in, oldest first, and gives it back before it takes the
\* next. So the queues of this module may carry values where the code's carry pointers.
PoolsAsPromised ==
    /\ \A n \in Mac : SendPool(n)!Init /\ RecvPool(n)!Init
    /\ [][\A n \in Mac :
            \/ /\ UNCHANGED SendPool(n)!fifoVars \/ SendPool(n)!Next
               /\ UNCHANGED RecvPool(n)!fifoVars \/ RecvPool(n)!Next
            \/ reboots' > reboots /\ SendPool(n)!Init' /\ RecvPool(n)!Init']_vars

\* network.h:35 calls msg_id the "Unique Message ID for Replay Protection": no
\* two messages of a node would carry the same one.
UniqueMessageIds ==
    \A f, g \in air :
        f.type = "DATA" /\ g.type = "DATA" /\ f.src = g.src /\ f.id = g.id => f.tag = g.tag
====
