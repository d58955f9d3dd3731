---- MODULE MessengerProofs ----
(***************************************************************************)
(* Theorems about Messenger: type correctness and its safety properties,   *)
(* for every number of nodes, pool and ring sizes, windows, messages,      *)
(* tries and reboots.                                                      *)
(***************************************************************************)
EXTENDS Messenger, FiniteSetTheorems, TLAPS

\* What network_task holds at its control points: inside the loop a fragment
\* of a message, and from NetPrepare on the frame made of it.
Holding ==
    \A n \in Mac :
        /\ net[n].pc # "idle" => net[n].msg \in Message
        /\ net[n].pc \in {"prepare", "expect_id", "expect_seq", "transmit", "wait"} =>
               net[n].i < net[n].msg.total
        /\ net[n].pc \in {"expect_id", "expect_seq", "transmit", "wait"} =>
               /\ net[n].pkt \in Frame
               /\ net[n].pkt.type # "ACK"

\* The counters have not gone further than the calls.
Counted == \A n \in Mac : global_msg_id[n] <= FirstId + sends

TypeInv == TypeOK /\ Holding /\ Counted

Constants ==
    /\ FirstId \in Nat /\ MaxSends \in Nat /\ MaxMsgId \in Nat /\ FirstId + MaxSends <= MaxMsgId
    /\ RingSize \in Nat \ {0} /\ MaxTries \in Nat \ {0}
    /\ MaxTotal \in Nat /\ MaxReboots \in Nat
    /\ WindowSize \in Nat \ {0}
    /\ NoMac \notin Mac
    /\ SlotOf \in [Mac -> Slots]
    /\ \A m, x \in Mac : SlotOf[m] = SlotOf[x] => m = x

LEMMA ConstantsLemma == Constants
BY RecordAssumption, MessengerAssumption DEF Constants

----
(* Types *)

\* An action that changes the application's variables alone.
LEMMA ApplicationTypes ==
    ASSUME TypeInv, NEW n \in Mac, Application(n)
    PROVE  TypeInv'
<1> USE ConstantsLemma
<1>1. CASE set_network_master_key(n)
  BY <1>1 DEF TypeInv, TypeOK, Holding, Counted, set_network_master_key, netVars, cryptoVars
<1>2. CASE send_reliable(n)
  <2>1. PICK target \in Mac \ {n}, total \in 0 .. MaxTotal :
            /\ caller' = [caller EXCEPT ![n] =
                             [target |-> target, total |-> total, tag |-> sends + 1]]
            /\ given' = [given EXCEPT ![sends + 1] =
                            [from |-> n, to |-> target, total |-> total]]
    BY <1>2 DEF send_reliable
  <2>2. sends + 1 \in 1 .. MaxSends /\ sends' = sends + 1 /\ sends \in Nat
    BY <1>2 DEF TypeInv, TypeOK, send_reliable, Constants
  <2>3. caller' \in [Mac -> Message \cup {NoMsg}]
    BY <2>1, <2>2 DEF TypeInv, TypeOK, Message
  <2>i. global_msg_id[n] \in Nat /\ global_msg_id[n] + 1 \in MsgId
    <3>1. global_msg_id[n] \in MsgId /\ global_msg_id[n] <= FirstId + sends
      BY DEF TypeInv, TypeOK, Counted
    <3> QED
      BY <2>2, <3>1 DEF MsgId, Constants
  <2>4. global_msg_id' \in [Mac -> MsgId] /\ Counted'
    <3>1. global_msg_id \in [Mac -> MsgId] /\ Counted
      BY DEF TypeInv, TypeOK
    <3>2. global_msg_id' = [global_msg_id EXCEPT ![n] = @ + 1]
      BY <1>2 DEF send_reliable
    <3>3. global_msg_id' \in [Mac -> MsgId]
      BY <2>i, <3>1, <3>2
    <3>4. ASSUME NEW x \in Mac PROVE global_msg_id'[x] <= FirstId + sends'
      <4>1. global_msg_id[x] \in Nat /\ global_msg_id[x] <= FirstId + sends
        BY <3>1 DEF MsgId, Counted, Constants
      <4>2. global_msg_id'[x] = IF x = n THEN global_msg_id[n] + 1 ELSE global_msg_id[x]
        BY <3>1, <3>2
      <4> QED
        BY <2>2, <4>1, <4>2 DEF Constants
    <3> QED
      BY <3>3, <3>4 DEF Counted
  <2>5. drawn' \in [1 .. MaxSends -> MsgId]
    <3>1. drawn \in [1 .. MaxSends -> MsgId]
      BY DEF TypeInv, TypeOK
    <3>2. drawn' = [drawn EXCEPT ![sends + 1] = global_msg_id[n] + 1]
      BY <1>2 DEF send_reliable
    <3> QED
      BY <2>2, <2>i, <3>1, <3>2
  <2>6. given' \in [1 .. MaxSends -> Given \cup {NoMsg}]
    <3>1. given' = [given EXCEPT ![sends + 1] = [from |-> n, to |-> target, total |-> total]]
      BY <2>1
    <3>2. [from |-> n, to |-> target, total |-> total] \in Given
      BY DEF Given
    <3>3. given \in [1 .. MaxSends -> Given \cup {NoMsg}]
      BY DEF TypeInv, TypeOK
    <3> QED
      BY <3>1, <3>2, <3>3
  <2>7. UNCHANGED <<key_set, network_queue, netVars, notified, recv_queue, cryptoVars, air, reboots>>
    BY <1>2 DEF send_reliable
  <2>8. sends' \in 0 .. MaxSends /\ Holding'
    BY <2>2, <2>7 DEF TypeInv, Holding, netVars
  <2>9. TypeOK'
    BY <2>3, <2>4, <2>5, <2>6, <2>7, <2>8 DEF TypeInv, TypeOK, netVars, cryptoVars
  <2> QED
    BY <2>4, <2>8, <2>9 DEF TypeInv
<1>3. CASE send_reliable_queue(n)
  <2>1. caller[n] \in Message
    BY <1>3 DEF TypeInv, TypeOK, send_reliable_queue
  <2>2. network_queue' \in [Mac -> Seq(Message)]
    BY <1>3, <2>1 DEF TypeInv, TypeOK, send_reliable_queue
  <2>3. caller' \in [Mac -> Message \cup {NoMsg}]
    BY <1>3 DEF TypeInv, TypeOK, send_reliable_queue
  <2> QED
    BY <1>3, <2>2, <2>3 DEF TypeInv, TypeOK, Holding, Counted, send_reliable_queue, netVars, cryptoVars
<1> QED
  BY <1>1, <1>2, <1>3 DEF Application

\* What the loop over the fragments leaves.
LEMMA NextFragmentLemma ==
    ASSUME NEW w \in NetState, w.msg \in Message, w.i < w.msg.total
    PROVE  LET next == NextFragment(w)
           IN  /\ next \in NetState
               /\ next.msg = w.msg
               /\ next.i = w.i + 1
               /\ next.pc \in {"prepare", "return"}
               /\ next.pc = "prepare" => next.i < next.msg.total
<1>1. /\ w.i \in Nat /\ w.msg.total \in Nat /\ w.msg.total <= MaxTotal /\ w.i + 1 <= MaxTotal
      /\ MaxTries \in Nat \ {0}
  BY ConstantsLemma DEF NetState, Message, Constants
<1> DEFINE pc == IF w.i + 1 < w.msg.total THEN "prepare" ELSE "return"
<1>p. pc \in {"prepare", "return"} /\ (pc = "prepare" => w.i + 1 < w.msg.total)
  OBVIOUS
<1>2. NextFragment(w) = [w EXCEPT !.i = @ + 1, !.r = 0, !.pkt = NoFrame, !.pc = pc]
  BY DEF NextFragment
<1> HIDE DEF pc
<1>3. NextFragment(w) = [pc |-> pc, msg |-> w.msg, i |-> w.i + 1, r |-> 0, pkt |-> NoFrame]
  BY <1>2 DEF NetState
<1> QED
  BY <1>1, <1>p, <1>3 DEF NetState

LEMMA IdleLemma ==
    /\ IdleNet \in NetState
    /\ IdleNet.pc = "idle" /\ IdleNet.msg = NoMsg /\ IdleNet.i = 0
BY ConstantsLemma DEF IdleNet, NetState, Constants

LEMMA TakenLemma ==
    ASSUME NEW m \in Message, NEW pc \in {"prepare", "return"}
    PROVE  LET x == [IdleNet EXCEPT !.pc = pc, !.msg = m]
           IN  x \in NetState /\ x.pc = pc /\ x.msg = m /\ x.i = 0
<1> DEFINE x == [IdleNet EXCEPT !.pc = pc, !.msg = m]
<1>1. x \in NetState /\ x.pc = pc /\ x.msg = m
  BY IdleLemma DEF NetState
<1>2. x.i = 0
  BY IdleLemma DEF NetState
<1> QED
  BY <1>1, <1>2

\* A step of network_task on net[n] alone.
LEMMA NetStep ==
    ASSUME TypeInv, NEW n \in Mac, NEW w \in NetState,
           net' = [net EXCEPT ![n] = w],
           w.pc # "idle" => w.msg \in Message,
           w.pc \in {"prepare", "expect_id", "expect_seq", "transmit", "wait"} =>
               w.i < w.msg.total,
           w.pc \in {"expect_id", "expect_seq", "transmit", "wait"} =>
               w.pkt \in Frame /\ w.pkt.type # "ACK"
    PROVE  net' \in [Mac -> NetState] /\ Holding'
<1>1. net \in [Mac -> NetState]
  BY DEF TypeInv, TypeOK
<1>2. \A m \in Mac : net'[m] = IF m = n THEN w ELSE net[m]
  BY <1>1
<1> QED
  BY <1>1, <1>2 DEF TypeInv, Holding

LEMMA NetTypes ==
    ASSUME TypeInv, NEW n \in Mac, network_task(n)
    PROVE  TypeInv'
<1> USE ConstantsLemma
<1> DEFINE w == net[n]
<1>0. w \in NetState /\ net \in [Mac -> NetState]
  BY DEF TypeInv, TypeOK
<1>w. /\ w.pc # "idle" => w.msg \in Message
      /\ w.pc \in {"prepare", "expect_id", "expect_seq", "transmit", "wait"} => w.i < w.msg.total
      /\ w.pc \in {"expect_id", "expect_seq", "transmit", "wait"} =>
             w.pkt \in Frame /\ w.pkt.type # "ACK"
  BY DEF TypeInv, Holding
<1>n. net' \in [Mac -> NetState] /\ Holding'
  <2>1. CASE NetTake(n)
    <3>1. Head(network_queue[n]) \in Message
      BY <2>1 DEF NetTake, TypeInv, TypeOK
    <3> DEFINE m == Head(network_queue[n])
               pc == IF m.total = 0 THEN "return" ELSE "prepare"
               x == [IdleNet EXCEPT !.pc = pc, !.msg = m]
    <3>p. pc \in {"prepare", "return"} /\ (pc = "prepare" => 0 < m.total)
      BY <3>1 DEF Message, Constants
    <3>4. net' = [net EXCEPT ![n] = x]
      BY <2>1 DEF NetTake
    <3> HIDE DEF pc
    <3>3. /\ x \in NetState
          /\ x.pc # "idle" => x.msg \in Message
          /\ x.pc \in {"prepare", "expect_id", "expect_seq", "transmit", "wait"} => x.i < x.msg.total
          /\ x.pc \notin {"expect_id", "expect_seq", "transmit", "wait"}
      BY <3>1, <3>p, TakenLemma
    <3> HIDE DEF x
    <3> QED
      BY <3>3, <3>4, NetStep
  <2>2. CASE NetPrepare(n)
    <3>1. CASE net' = [net EXCEPT ![n] = NextFragment(@)]
      BY <1>0, <1>w, <2>2, <3>1, NetStep, NextFragmentLemma DEF NetPrepare
    <3>2. CASE net' = [net EXCEPT ![n].pkt = Fragment(n), ![n].pc = "expect_id"]
      <4>1. w.pc = "prepare" /\ w.i < w.msg.total /\ w.msg \in Message
        BY <1>w, <2>2 DEF NetPrepare
      <4>2. Fragment(n) \in Frame /\ Fragment(n).type # "ACK"
        <5>1. w.i \in 0 .. MaxTotal - 1 /\ w.msg.target \in Mac /\ w.msg.tag \in 0 .. MaxSends
          BY <1>0, <4>1 DEF NetState, Message, Constants
        <5>2. global_msg_id[n] \in MsgId /\ key_set[n] \in BOOLEAN
          BY DEF TypeInv, TypeOK
        <5> QED
          BY <5>1, <5>2 DEF Fragment, Frame
      <4> DEFINE x == [w EXCEPT !.pkt = Fragment(n), !.pc = "expect_id"]
      <4>3. net' = [net EXCEPT ![n] = x]
        BY <1>0, <3>2
      <4>4. x \in NetState /\ x.pc = "expect_id" /\ x.msg = w.msg /\ x.i = w.i /\ x.pkt = Fragment(n)
        BY <1>0, <4>2 DEF NetState
      <4> HIDE DEF x
      <4> QED
        BY <4>1, <4>2, <4>3, <4>4, NetStep
    <3> QED
      BY <2>2, <3>1, <3>2 DEF NetPrepare
  <2>3. CASE NetExpectId(n) \/ NetExpectSeq(n) \/ NetTransmit(n)
    <3> DEFINE pc == IF NetExpectId(n) THEN "expect_seq"
                     ELSE IF NetExpectSeq(n) THEN "transmit" ELSE "wait"
               x == [w EXCEPT !.pc = pc]
    <3>1. net' = [net EXCEPT ![n] = x]
      BY <1>0, <2>3 DEF NetExpectId, NetExpectSeq, NetTransmit
    <3>2. /\ x \in NetState
          /\ x.pc \in {"expect_seq", "transmit", "wait"}
          /\ x.msg = w.msg /\ x.i = w.i /\ x.pkt = w.pkt
      BY <1>0 DEF NetState
    <3>3. w.pc \in {"expect_id", "expect_seq", "transmit"}
      BY <2>3 DEF NetExpectId, NetExpectSeq, NetTransmit
    <3> HIDE DEF x
    <3> QED
      BY <1>w, <3>1, <3>2, <3>3, NetStep
  <2>4. CASE NetNotified(n)
    BY <1>0, <1>w, <2>4, NetStep, NextFragmentLemma DEF NetNotified
  <2>5. CASE NetTimeout(n)
    <3>1. CASE w.r + 1 < MaxTries
      <4> DEFINE x == [w EXCEPT !.r = @ + 1, !.pc = "transmit"]
      <4>1. net' = [net EXCEPT ![n] = x]
        BY <2>5, <3>1 DEF NetTimeout, NextTry
      <4>r. w.r + 1 \in 0 .. MaxTries - 1
        BY <1>0, <3>1 DEF NetState, Constants
      <4>2. /\ x \in NetState /\ x.pc = "transmit"
            /\ x.msg = w.msg /\ x.i = w.i /\ x.pkt = w.pkt
        BY <1>0, <4>r DEF NetState
      <4>3. w.pc = "wait"
        BY <2>5 DEF NetTimeout
      <4> HIDE DEF x
      <4> QED
        BY <1>w, <4>1, <4>2, <4>3, NetStep
    <3>2. CASE ~ (w.r + 1 < MaxTries)
      BY <1>0, <1>w, <2>5, <3>2, NetStep, NextFragmentLemma DEF NetTimeout, NextTry
    <3> QED
      BY <3>1, <3>2
  <2>6. CASE NetReturn(n)
    BY <2>6, IdleLemma, NetStep DEF NetReturn
  <2> QED
    BY <2>1, <2>2, <2>3, <2>4, <2>5, <2>6 DEF network_task
<1>q. network_queue' \in [Mac -> Seq(Message)]
  <2>1. network_queue \in [Mac -> Seq(Message)]
    BY DEF TypeInv, TypeOK
  <2>2. CASE NetTake(n)
    <3>1. /\ network_queue[n] \in Seq(Message) /\ network_queue[n] # <<>>
          /\ network_queue' = [network_queue EXCEPT ![n] = Tail(@)]
      BY <2>1, <2>2 DEF NetTake
    <3>2. Tail(network_queue[n]) \in Seq(Message)
      BY <3>1
    <3> QED
      BY <2>1, <3>1, <3>2
  <2>3. ~ NetTake(n) => UNCHANGED network_queue
    BY DEF network_task, NetPrepare, NetExpectId, NetExpectSeq, NetTransmit, NetNotified,
           NetTimeout, NetReturn
  <2> QED
    BY <2>1, <2>2, <2>3
<1>e. expected_ack' \in [Mac -> Ack]
  <2>0. expected_ack \in [Mac -> Ack]
    BY DEF TypeInv, TypeOK
  <2>1. CASE NetExpectId(n)
    <3>1. w.pkt.id \in MsgId
      BY <1>w, <2>1 DEF NetExpectId, Frame
    <3>2. [expected_ack[n] EXCEPT !.id = w.pkt.id] \in Ack
      BY <2>0, <3>1 DEF Ack
    <3>3. expected_ack' = [expected_ack EXCEPT ![n] = [expected_ack[n] EXCEPT !.id = w.pkt.id]]
      BY <2>0, <2>1 DEF NetExpectId
    <3> QED
      BY <2>0, <3>2, <3>3
  <2>2. CASE NetExpectSeq(n)
    <3>1. w.pkt.seq \in 0 .. MaxTotal
      BY <1>w, <2>2 DEF NetExpectSeq, Frame, Constants
    <3>2. [expected_ack[n] EXCEPT !.seq = w.pkt.seq] \in Ack
      BY <2>0, <3>1 DEF Ack
    <3>3. expected_ack' = [expected_ack EXCEPT ![n] = [expected_ack[n] EXCEPT !.seq = w.pkt.seq]]
      BY <2>0, <2>2 DEF NetExpectSeq
    <3> QED
      BY <2>0, <3>2, <3>3
  <2>3. ~ NetExpectId(n) /\ ~ NetExpectSeq(n) => UNCHANGED expected_ack
    BY DEF network_task, NetTake, NetPrepare, NetTransmit, NetNotified, NetTimeout, NetReturn,
           netVars
  <2> QED
    BY <2>0, <2>1, <2>2, <2>3
<1>a. air' \subseteq Frame /\ notified' \in [Mac -> BOOLEAN]
  BY <1>w DEF network_task, NetTake, NetPrepare, NetExpectId, NetExpectSeq, NetTransmit, NetNotified,
         NetTimeout, NetReturn, TypeInv, TypeOK
<1>u. UNCHANGED <<appVars, recv_queue, cryptoVars, reboots>>
  BY DEF network_task, NetTake, NetPrepare, NetExpectId, NetExpectSeq, NetTransmit, NetNotified,
         NetTimeout, NetReturn
<1>c. Counted'
  BY <1>u DEF TypeInv, Counted, appVars
<1>t. TypeOK'
  BY <1>n, <1>q, <1>e, <1>a, <1>u DEF TypeInv, TypeOK, appVars, cryptoVars
<1> QED
  BY <1>n, <1>c, <1>t DEF TypeInv

\* check_replay leaves a record.
LEMMA UpdatedType ==
    ASSUME NEW peer \in PeerRecord, NEW m \in Mac, NEW id \in MsgId, Accepts(peer, m, id)
    PROVE  Updated(peer, m, id) \in PeerRecord
<1>1. /\ peer.last_msg_id \in Nat /\ id \in Nat /\ WindowSize \in Nat \ {0}
      /\ 0 \in Bits /\ peer.window \subseteq Bits
  BY ConstantsLemma DEF PeerRecord, MsgId, Bits, Constants
<1>2. CASE peer.mac # m
  <2>1. Updated(peer, m, id) = [mac |-> m, last_msg_id |-> id, window |-> {0}]
    BY <1>2 DEF Updated, TakeOver
  <2> QED
    BY <1>1, <2>1 DEF PeerRecord
<1>3. CASE peer.mac = m /\ id > peer.last_msg_id
  <2> DEFINE w == IF id - peer.last_msg_id < WindowSize
                  THEN ShiftLeft(peer.window, id - peer.last_msg_id) \cup {0}
                  ELSE {0}
  <2>1. w \in SUBSET Bits
    BY <1>1 DEF ShiftLeft
  <2>2. Updated(peer, m, id) = [peer EXCEPT !.window = w, !.last_msg_id = id]
    BY <1>3 DEF Updated, Advance
  <2> HIDE DEF w
  <2> QED
    BY <2>1, <2>2 DEF PeerRecord
<1>4. CASE peer.mac = m /\ ~ (id > peer.last_msg_id)
  <2>1. peer.last_msg_id - id \in Bits
    BY <1>1, <1>4 DEF Accepts, Unmarked, Bits
  <2>2. Updated(peer, m, id) = [peer EXCEPT !.window = @ \cup {peer.last_msg_id - id}]
    BY <1>4 DEF Updated, Mark
  <2> QED
    BY <2>1, <2>2 DEF PeerRecord
<1> QED
  BY <1>2, <1>3, <1>4

\* What an accepted frame changes.
LEMMA RegisterTypes ==
    ASSUME TypeInv, NEW n \in Mac, NEW f \in Frame, Passes(n, f), Register(n, f)
    PROVE  /\ peer_registry' \in [Mac -> [Slots -> PeerRecord]]
           /\ passed' \in [Mac -> [Mac -> [MsgId -> 0 .. 2]]]
<1>1. peer_registry \in [Mac -> [Slots -> PeerRecord]] /\ passed \in [Mac -> [Mac -> [MsgId -> 0 .. 2]]]
  BY DEF TypeInv, TypeOK
<1>2. f.src \in Mac /\ f.id \in MsgId
  BY DEF Frame
<1>3. SlotOf[f.src] \in Slots
  BY <1>2, ConstantsLemma DEF Constants
<1> DEFINE new == Updated(peer_registry[n][SlotOf[f.src]], f.src, f.id)
<1>4. new \in PeerRecord
  BY <1>1, <1>2, <1>3, UpdatedType DEF Passes, Known
<1>5. peer_registry' = [peer_registry EXCEPT ![n][SlotOf[f.src]] = new]
  BY DEF Register
<1>6. passed' = [passed EXCEPT ![n][f.src][f.id] = IF passed[n][f.src][f.id] = 0 THEN 1 ELSE 2]
  BY DEF Register
<1> HIDE DEF new
<1>7. peer_registry' \in [Mac -> [Slots -> PeerRecord]]
  BY <1>1, <1>3, <1>4, <1>5
<1>8. (IF passed[n][f.src][f.id] = 0 THEN 1 ELSE 2) \in 0 .. 2
  OBVIOUS
<1>9. passed' \in [Mac -> [Mac -> [MsgId -> 0 .. 2]]]
  BY <1>1, <1>2, <1>6, <1>8
<1> QED
  BY <1>7, <1>9

LEMMA CryptoTypes ==
    ASSUME TypeInv, NEW n \in Mac, crypto_task(n)
    PROVE  TypeInv'
<1>0. /\ crypto \in [Mac -> CryptoState] /\ crypto[n] \in CryptoState
      /\ recv_queue \in [Mac -> Seq(Frame)] /\ recv_queue[n] \in Seq(Frame)
      /\ ring \in [Mac -> Seq(Frame)] /\ ring[n] \in Seq(Frame)
      /\ air \subseteq Frame /\ inbox \in [Mac -> SUBSET Frame]
      /\ notified \in [Mac -> BOOLEAN]
  BY DEF TypeInv, TypeOK
<1>u. UNCHANGED <<appVars, network_queue, netVars, reboots>>
  BY DEF crypto_task, CryptoDrop, CryptoAck, CryptoData, CryptoCompareId, CryptoCompareSeq,
         CryptoNotify, CryptoFinish
<1>h. Holding' /\ Counted'
  BY <1>u DEF TypeInv, Holding, Counted, appVars, netVars
<1> SUFFICES /\ crypto' \in [Mac -> CryptoState] /\ recv_queue' \in [Mac -> Seq(Frame)]
             /\ ring' \in [Mac -> Seq(Frame)] /\ air' \subseteq Frame
             /\ inbox' \in [Mac -> SUBSET Frame] /\ notified' \in [Mac -> BOOLEAN]
             /\ peer_registry' \in [Mac -> [Slots -> PeerRecord]]
             /\ passed' \in [Mac -> [Mac -> [MsgId -> 0 .. 2]]]
             /\ stored' \in [Mac -> [Fragments -> 0 .. 2]]
  BY <1>u, <1>h DEF TypeInv, TypeOK, appVars, netVars
<1>1. CASE CryptoDrop(n) \/ CryptoAck(n) \/ CryptoData(n)
  <2> DEFINE f == Head(recv_queue[n])
  <2>1. /\ recv_queue[n] # <<>>
        /\ recv_queue' = [recv_queue EXCEPT ![n] = Tail(@)]
    BY <1>1 DEF CryptoDrop, CryptoAck, CryptoData
  <2>2. f \in Frame /\ Tail(recv_queue[n]) \in Seq(Frame)
    BY <1>0, <2>1
  <2>3. recv_queue' \in [Mac -> Seq(Frame)]
    BY <1>0, <2>1, <2>2
  <2> HIDE DEF f
  <2>4. \A pc \in {"finish", "compare_id"} : [pc |-> pc, frame |-> f] \in CryptoState
    BY <2>2 DEF CryptoState
  <2>5. crypto' \in [Mac -> CryptoState]
    BY <1>0, <1>1, <2>4 DEF CryptoDrop, CryptoAck, CryptoData, f
  <2>6. CASE CryptoDrop(n)
    BY <1>0, <2>3, <2>5, <2>6 DEF CryptoDrop, TypeInv, TypeOK
  <2>7. CASE CryptoAck(n)
    <3>1. Passes(n, f) /\ Register(n, f) /\ UNCHANGED <<ring, inbox, stored, air, notified>>
      BY <2>7 DEF CryptoAck, f
    <3> QED
      BY <1>0, <2>2, <2>3, <2>5, <3>1, RegisterTypes DEF TypeInv, TypeOK
  <2>8. CASE CryptoData(n)
    <3>1. Passes(n, f) /\ Register(n, f) /\ UNCHANGED notified
      BY <2>8 DEF CryptoData, f
    <3>2. \/ UNCHANGED <<ring, inbox, air>>
          \/ /\ ring' = [ring EXCEPT ![n] = Append(@, f)]
             /\ inbox' = [inbox EXCEPT ![n] = @ \cup {f}]
             /\ air' \in {air, air \cup {AckFor(f)}}
      BY <2>8 DEF CryptoData, f
    <3>3. AckFor(f) \in Frame
      BY <2>2, ConstantsLemma DEF AckFor, Frame, Constants
    <3>4. Append(ring[n], f) \in Seq(Frame)
      BY <1>0, <2>2
    <3>5. ring' \in [Mac -> Seq(Frame)] /\ inbox' \in [Mac -> SUBSET Frame] /\ air' \subseteq Frame
      BY <1>0, <2>2, <3>2, <3>3, <3>4
    <3>6. stored' \in [Mac -> [Fragments -> 0 .. 2]]
      <4> DEFINE p == <<f.tag, f.seq>>
      <4>1. PICK k \in {1, 2} : stored' = stored \/ stored' = [stored EXCEPT ![n][p] = k]
        BY <2>8 DEF CryptoData, f
      <4> HIDE DEF p
      <4>2. stored \in [Mac -> [Fragments -> 0 .. 2]]
        BY DEF TypeInv, TypeOK
      <4> QED
        BY <4>1, <4>2
    <3> QED
      BY <1>0, <2>2, <2>3, <2>5, <3>1, <3>5, <3>6, RegisterTypes
  <2> QED
    BY <1>1, <2>6, <2>7, <2>8
<1>2. CASE CryptoCompareId(n) \/ CryptoCompareSeq(n) \/ CryptoNotify(n)
  <2>1. PICK pc \in {"compare_seq", "notify", "finish"} : crypto' = [crypto EXCEPT ![n].pc = pc]
    BY <1>2 DEF CryptoCompareId, CryptoCompareSeq, CryptoNotify
  <2>2. [crypto[n] EXCEPT !.pc = pc] \in CryptoState
    BY <1>0 DEF CryptoState
  <2>3. crypto' = [crypto EXCEPT ![n] = [crypto[n] EXCEPT !.pc = pc]]
    BY <1>0, <2>1
  <2>4. crypto' \in [Mac -> CryptoState]
    BY <1>0, <2>2, <2>3
  <2> QED
    BY <1>0, <1>2, <2>4 DEF CryptoCompareId, CryptoCompareSeq, CryptoNotify, TypeInv, TypeOK
<1>3. CASE CryptoFinish(n)
  <2>1. IdleCrypto \in CryptoState
    BY DEF IdleCrypto, CryptoState
  <2>2. (IF ring[n] = <<>> THEN ring[n] ELSE Tail(ring[n])) \in Seq(Frame)
    BY <1>0
  <2>3. crypto' \in [Mac -> CryptoState] /\ ring' \in [Mac -> Seq(Frame)]
    BY <1>0, <1>3, <2>1, <2>2 DEF CryptoFinish
  <2> QED
    BY <1>0, <1>3, <2>3 DEF CryptoFinish, TypeInv, TypeOK
<1> QED
  BY <1>1, <1>2, <1>3 DEF crypto_task

LEMMA ReceiveTypes ==
    ASSUME TypeInv, NEW f \in air, on_data_recv(f)
    PROVE  TypeInv'
<1>1. f \in Frame /\ f.dst \in Mac /\ recv_queue \in [Mac -> Seq(Frame)]
  BY DEF TypeInv, TypeOK, Frame
<1>2. recv_queue' \in [Mac -> Seq(Frame)]
  BY <1>1 DEF on_data_recv
<1>3. Holding' /\ Counted'
  BY DEF TypeInv, Holding, Counted, on_data_recv, appVars, netVars
<1> QED
  BY <1>2, <1>3 DEF TypeInv, TypeOK, on_data_recv, appVars, netVars, cryptoVars

LEMMA RebootTypes ==
    ASSUME TypeInv, NEW n \in Mac, Reboot(n)
    PROVE  TypeInv'
<1> USE ConstantsLemma
<1>1. /\ FirstId \in MsgId /\ 0 \in MsgId /\ [id |-> 0, seq |-> 0] \in Ack
      /\ <<>> \in Seq(Message) /\ <<>> \in Seq(Frame)
  BY DEF Constants, MsgId, Ack
<1>2. IdleCrypto \in CryptoState
  BY DEF IdleCrypto, CryptoState
<1>3. [s \in Slots |-> ZeroRecord] \in [Slots -> PeerRecord]
  BY <1>1 DEF ZeroRecord, PeerRecord
<1>4. NothingPassed \in [Mac -> [MsgId -> 0 .. 2]]
  BY DEF NothingPassed
<1>5. reboots' \in 0 .. MaxReboots /\ sends \in 0 .. MaxSends
  BY DEF Reboot, TypeInv, TypeOK, Constants
<1>6. net' \in [Mac -> NetState] /\ Holding'
  BY IdleLemma, NetStep DEF Reboot
<1>7. /\ global_msg_id' \in [Mac -> MsgId] /\ sends' = sends
      /\ \A x \in Mac : global_msg_id'[x] = IF x = n THEN FirstId ELSE global_msg_id[x]
  BY <1>1 DEF Reboot, TypeInv, TypeOK
<1>8. Counted'
  <2>1. sends \in Nat
    BY <1>5, ConstantsLemma DEF Constants
  <2> QED
    BY <1>7, <2>1 DEF TypeInv, Counted, Constants
<1>9. /\ key_set' \in [Mac -> BOOLEAN]
      /\ caller' \in [Mac -> Message \cup {NoMsg}]
      /\ network_queue' \in [Mac -> Seq(Message)]
      /\ expected_ack' \in [Mac -> Ack]
      /\ notified' \in [Mac -> BOOLEAN]
  BY <1>1 DEF Reboot, TypeInv, TypeOK
<1>10. /\ recv_queue' \in [Mac -> Seq(Frame)]
       /\ crypto' \in [Mac -> CryptoState]
       /\ peer_registry' \in [Mac -> [Slots -> PeerRecord]]
       /\ ring' \in [Mac -> Seq(Frame)]
       /\ passed' \in [Mac -> [Mac -> [MsgId -> 0 .. 2]]]
  BY <1>1, <1>2, <1>3, <1>4 DEF Reboot, TypeInv, TypeOK
<1>s. NothingStored \in [Fragments -> 0 .. 2]
  BY DEF NothingStored
<1>11. /\ air' \subseteq Frame /\ drawn' \in [1 .. MaxSends -> MsgId]
       /\ inbox' \in [Mac -> SUBSET Frame] /\ given' \in [1 .. MaxSends -> Given \cup {NoMsg}]
       /\ stored' \in [Mac -> [Fragments -> 0 .. 2]]
  BY <1>s DEF Reboot, TypeInv, TypeOK
<1>12. TypeOK'
  BY <1>5, <1>6, <1>7, <1>9, <1>10, <1>11 DEF TypeOK
<1> QED
  BY <1>6, <1>8, <1>12 DEF TypeInv

LEMMA InitTypes == Init => TypeInv
<1> SUFFICES ASSUME Init PROVE TypeInv
  OBVIOUS
<1> USE ConstantsLemma
<1>1. /\ FirstId \in MsgId /\ 0 \in MsgId /\ [id |-> 0, seq |-> 0] \in Ack
      /\ <<>> \in Seq(Message) /\ <<>> \in Seq(Frame)
      /\ 0 \in 0 .. MaxSends /\ 0 \in 0 .. MaxReboots
  BY DEF Constants, MsgId, Ack
<1>2. IdleCrypto \in CryptoState
  BY DEF IdleCrypto, CryptoState
<1>3. ZeroRecord \in PeerRecord
  BY <1>1 DEF ZeroRecord, PeerRecord
<1>4. NothingPassed \in [Mac -> [MsgId -> 0 .. 2]]
  BY DEF NothingPassed
<1>s. NothingStored \in [Fragments -> 0 .. 2]
  BY DEF NothingStored
<1>5. Holding
  BY IdleLemma DEF Init, Holding
<1>6. Counted
  <2>1. sends = 0 /\ \A n \in Mac : global_msg_id[n] = FirstId
    BY DEF Init
  <2>2. FirstId \in Nat /\ FirstId <= FirstId + 0
    BY ConstantsLemma DEF Constants
  <2> QED
    BY <2>1, <2>2 DEF Counted
<1>7. /\ key_set \in [Mac -> BOOLEAN]
      /\ global_msg_id \in [Mac -> MsgId]
      /\ caller \in [Mac -> Message \cup {NoMsg}]
      /\ network_queue \in [Mac -> Seq(Message)]
      /\ net \in [Mac -> NetState]
      /\ expected_ack \in [Mac -> Ack]
      /\ notified \in [Mac -> BOOLEAN]
  BY <1>1, IdleLemma DEF Init
<1>8. /\ recv_queue \in [Mac -> Seq(Frame)]
      /\ crypto \in [Mac -> CryptoState]
      /\ peer_registry \in [Mac -> [Slots -> PeerRecord]]
      /\ ring \in [Mac -> Seq(Frame)]
      /\ passed \in [Mac -> [Mac -> [MsgId -> 0 .. 2]]]
  BY <1>1, <1>2, <1>3, <1>4 DEF Init
<1>9. /\ air \subseteq Frame /\ drawn \in [1 .. MaxSends -> MsgId] /\ inbox \in [Mac -> SUBSET Frame]
      /\ sends \in 0 .. MaxSends /\ reboots \in 0 .. MaxReboots
      /\ given \in [1 .. MaxSends -> Given \cup {NoMsg}]
      /\ stored \in [Mac -> [Fragments -> 0 .. 2]]
  BY <1>1, <1>s DEF Init
<1> QED
  BY <1>5, <1>6, <1>7, <1>8, <1>9 DEF TypeInv, TypeOK

LEMMA NextTypes == TypeInv /\ [Next]_vars => TypeInv'
<1> SUFFICES ASSUME TypeInv, [Next]_vars PROVE TypeInv'
  OBVIOUS
<1>1. CASE UNCHANGED vars
  <2>1. TypeOK'
    BY <1>1 DEF TypeInv, TypeOK, vars, appVars, netVars, cryptoVars
  <2>2. Holding' /\ Counted'
    BY <1>1 DEF TypeInv, Holding, Counted, vars, appVars, netVars
  <2> QED
    BY <2>1, <2>2 DEF TypeInv
<1>2. ASSUME NEW n \in Mac, Application(n) \/ network_task(n) \/ crypto_task(n) \/ Reboot(n)
      PROVE  TypeInv'
  BY <1>2, ApplicationTypes, NetTypes, CryptoTypes, RebootTypes
<1>3. ASSUME NEW f \in air, on_data_recv(f)
      PROVE  TypeInv'
  BY <1>3, ReceiveTypes
<1> QED
  BY <1>1, <1>2, <1>3 DEF Next

LEMMA TypeInvHolds == Spec => []TypeInv
BY InitTypes, NextTypes, PTL DEF Spec

\* Every variable keeps its type, for any number of nodes, messages and reboots.
THEOREM TypeCorrect == Spec => []TypeOK
<1>1. TypeInv => TypeOK
  BY DEF TypeInv
<1> QED
  BY <1>1, TypeInvHolds, PTL
----
(* One frame per id *)

\* Every id this boot let through is remembered by the record of its peer, or lies
\* behind the window.
Remembered ==
    \A n, m \in Mac : \A id \in MsgId :
        passed[n][m][id] # 0 =>
            LET peer == peer_registry[n][SlotOf[m]]
            IN  /\ peer.mac = m
                /\ id <= peer.last_msg_id
                /\ peer.last_msg_id - id \in Bits => peer.last_msg_id - id \in peer.window

OnceInv == Remembered /\ OneFramePerId

\* A record remembers the id it was shown and every id it remembered before.
LEMMA UpdatedRemembers ==
    ASSUME NEW peer \in PeerRecord, NEW m \in Mac, NEW id \in MsgId, Accepts(peer, m, id)
    PROVE  LET new == Updated(peer, m, id)
           IN  /\ new.mac = m
               /\ id <= new.last_msg_id
               /\ new.last_msg_id - id \in Bits => new.last_msg_id - id \in new.window
               /\ \A i \in MsgId :
                    /\ peer.mac = m
                    /\ i <= peer.last_msg_id
                    /\ peer.last_msg_id - i \in Bits => peer.last_msg_id - i \in peer.window
                    => /\ i <= new.last_msg_id
                       /\ new.last_msg_id - i \in Bits => new.last_msg_id - i \in new.window
<1>1. /\ peer.last_msg_id \in Nat /\ id \in Nat /\ WindowSize \in Nat \ {0}
      /\ \A x : x \in Bits <=> x \in Int /\ 0 <= x /\ x < WindowSize
      /\ \A i \in MsgId : i \in Nat
  BY ConstantsLemma DEF PeerRecord, MsgId, Bits, Constants
<1>2. CASE peer.mac # m
  <2>1. Updated(peer, m, id) = [mac |-> m, last_msg_id |-> id, window |-> {0}]
    BY <1>2 DEF Updated, TakeOver
  <2> QED
    BY <1>1, <1>2, <2>1
<1>3. CASE peer.mac = m /\ id > peer.last_msg_id
  <2> DEFINE diff == id - peer.last_msg_id
             w == IF diff < WindowSize THEN ShiftLeft(peer.window, diff) \cup {0} ELSE {0}
  <2>1. Updated(peer, m, id) = [peer EXCEPT !.window = w, !.last_msg_id = id]
    BY <1>3 DEF Updated, Advance
  <2>2. 0 \in w
    OBVIOUS
  <2>3. ASSUME NEW i \in MsgId, i <= peer.last_msg_id, id - i \in Bits,
               peer.last_msg_id - i \in Bits => peer.last_msg_id - i \in peer.window
        PROVE  id - i \in w
    <3>1. diff < WindowSize /\ peer.last_msg_id - i \in Bits
      BY <1>1, <1>3, <2>3
    <3>2. (id - i) - diff = peer.last_msg_id - i
      BY <1>1
    <3> QED
      BY <2>3, <3>1, <3>2 DEF ShiftLeft
  <2> HIDE DEF w
  <2>4. Updated(peer, m, id) = [mac |-> m, last_msg_id |-> id, window |-> w]
    BY <1>3, <2>1 DEF PeerRecord
  <2> QED
    BY <1>1, <1>3, <2>2, <2>3, <2>4
<1>4. CASE peer.mac = m /\ ~ (id > peer.last_msg_id)
  <2>1. Updated(peer, m, id) = [peer EXCEPT !.window = @ \cup {peer.last_msg_id - id}]
    BY <1>4 DEF Updated, Mark
  <2>2. Updated(peer, m, id) = [mac |-> m, last_msg_id |-> peer.last_msg_id,
                                window |-> peer.window \cup {peer.last_msg_id - id}]
    BY <1>4, <2>1 DEF PeerRecord
  <2> QED
    BY <1>1, <1>4, <2>2
<1> QED
  BY <1>2, <1>3, <1>4

\* check_replay lets a frame through only if its id is new to the boot.
LEMMA PassesOnce ==
    ASSUME TypeInv, OnceInv, NEW n \in Mac, NEW f \in Frame, Passes(n, f)
    PROVE  passed[n][f.src][f.id] = 0
<1> DEFINE old == peer_registry[n][SlotOf[f.src]]
<1>1. /\ peer_registry \in [Mac -> [Slots -> PeerRecord]]
      /\ f.src \in Mac /\ f.id \in MsgId /\ SlotOf \in [Mac -> Slots]
  BY ConstantsLemma DEF TypeInv, TypeOK, Frame, Constants
<1>2. Accepts(old, f.src, f.id) /\ old \in PeerRecord
  BY <1>1 DEF Passes, Known
<1>3. old.last_msg_id \in Nat /\ f.id \in Nat /\ WindowSize \in Nat
  BY <1>1, <1>2, ConstantsLemma DEF PeerRecord, MsgId, Constants
<1> SUFFICES ASSUME passed[n][f.src][f.id] # 0 PROVE FALSE
  OBVIOUS
<1>4. /\ old.mac = f.src /\ f.id <= old.last_msg_id
      /\ old.last_msg_id - f.id \in Bits => old.last_msg_id - f.id \in old.window
  BY <1>1 DEF OnceInv, Remembered
<1> QED
  BY <1>2, <1>3, <1>4 DEF Accepts, Unmarked, Bits

LEMMA RegisterOnce ==
    ASSUME TypeInv, OnceInv, NEW n \in Mac, NEW f \in Frame, Passes(n, f), Register(n, f)
    PROVE  OnceInv'
<1> DEFINE s == f.src
           d == f.id
           old == peer_registry[n][SlotOf[s]]
           new == Updated(old, s, d)
<1>0. /\ peer_registry \in [Mac -> [Slots -> PeerRecord]]
      /\ passed \in [Mac -> [Mac -> [MsgId -> 0 .. 2]]]
      /\ s \in Mac /\ d \in MsgId /\ SlotOf \in [Mac -> Slots]
      /\ \A m \in Mac : SlotOf[m] = SlotOf[s] => m = s
  BY ConstantsLemma DEF TypeInv, TypeOK, Frame, Constants
<1>1. Accepts(old, s, d) /\ old \in PeerRecord
  BY <1>0 DEF Passes, Known
<1>2. passed[n][s][d] = 0
  BY PassesOnce
<1>3. /\ new.mac = s
      /\ d <= new.last_msg_id
      /\ new.last_msg_id - d \in Bits => new.last_msg_id - d \in new.window
      /\ \A i \in MsgId :
           /\ old.mac = s
           /\ i <= old.last_msg_id
           /\ old.last_msg_id - i \in Bits => old.last_msg_id - i \in old.window
           => /\ i <= new.last_msg_id
              /\ new.last_msg_id - i \in Bits => new.last_msg_id - i \in new.window
  BY <1>0, <1>1, UpdatedRemembers
<1>4. \A x, m \in Mac :
        peer_registry'[x][SlotOf[m]] = IF x = n /\ m = s THEN new ELSE peer_registry[x][SlotOf[m]]
  <2>1. peer_registry' = [peer_registry EXCEPT ![n][SlotOf[s]] = new]
    BY DEF Register
  <2> HIDE DEF new
  <2> QED
    BY <1>0, <2>1
<1>5. \A x, m \in Mac : \A i \in MsgId :
        passed'[x][m][i] = IF x = n /\ m = s /\ i = d THEN 1 ELSE passed[x][m][i]
  <2>1. passed' = [passed EXCEPT ![n][s][d] = 1]
    BY <1>2 DEF Register
  <2> QED
    BY <1>0, <2>1
<1> HIDE DEF new
<1>6. OneFramePerId'
  BY <1>5 DEF OnceInv, OneFramePerId
<1>7. ASSUME NEW x \in Mac, NEW m \in Mac, NEW i \in MsgId, passed'[x][m][i] # 0
      PROVE  LET peer == peer_registry'[x][SlotOf[m]]
             IN  /\ peer.mac = m
                 /\ i <= peer.last_msg_id
                 /\ peer.last_msg_id - i \in Bits => peer.last_msg_id - i \in peer.window
  <2>1. CASE x = n /\ m = s /\ i = d
    BY <1>3, <1>4, <2>1
  <2>2. CASE ~ (x = n /\ m = s /\ i = d)
    <3>1. passed[x][m][i] # 0
      BY <1>5, <1>7, <2>2
    <3>2. LET peer == peer_registry[x][SlotOf[m]]
          IN  /\ peer.mac = m
              /\ i <= peer.last_msg_id
              /\ peer.last_msg_id - i \in Bits => peer.last_msg_id - i \in peer.window
      BY <3>1 DEF OnceInv, Remembered
    <3> QED
      BY <1>3, <1>4, <3>2
  <2> QED
    BY <2>1, <2>2
<1> QED
  BY <1>6, <1>7 DEF OnceInv, Remembered

LEMMA NextOnce == TypeInv /\ OnceInv /\ [Next]_vars => OnceInv'
<1> SUFFICES ASSUME TypeInv, OnceInv, [Next]_vars PROVE OnceInv'
  OBVIOUS
<1>1. CASE UNCHANGED <<peer_registry, passed>>
  BY <1>1 DEF OnceInv, Remembered, OneFramePerId
<1>2. ASSUME NEW n \in Mac, CryptoAck(n) \/ CryptoData(n)
      PROVE  OnceInv'
  <2> DEFINE f == Head(recv_queue[n])
  <2>1. f \in Frame
    BY <1>2 DEF TypeInv, TypeOK, CryptoAck, CryptoData
  <2>2. Passes(n, f) /\ Register(n, f)
    BY <1>2 DEF CryptoAck, CryptoData
  <2> QED
    BY <2>1, <2>2, RegisterOnce
<1>3. ASSUME NEW n \in Mac, Reboot(n)
      PROVE  OnceInv'
  <2>1. \A x, m \in Mac : \A id \in MsgId :
            passed'[x][m][id] = IF x = n THEN 0 ELSE passed[x][m][id]
    BY <1>3 DEF Reboot, NothingPassed, TypeInv, TypeOK
  <2>2. \A x \in Mac : x # n => peer_registry'[x] = peer_registry[x]
    BY <1>3 DEF Reboot, TypeInv, TypeOK
  <2> QED
    BY <2>1, <2>2 DEF OnceInv, Remembered, OneFramePerId
<1>4. ASSUME NEW n \in Mac, Application(n)
      PROVE  UNCHANGED <<peer_registry, passed>>
  BY <1>4 DEF Application, set_network_master_key, send_reliable, send_reliable_queue, cryptoVars
<1>5. ASSUME NEW n \in Mac, network_task(n)
      PROVE  UNCHANGED <<peer_registry, passed>>
  BY <1>5 DEF network_task, NetTake, NetPrepare, NetExpectId, NetExpectSeq, NetTransmit,
              NetNotified, NetTimeout, NetReturn, cryptoVars
<1>6. ASSUME NEW n \in Mac, crypto_task(n)
      PROVE  CryptoAck(n) \/ CryptoData(n) \/ UNCHANGED <<peer_registry, passed>>
  BY <1>6 DEF crypto_task, CryptoDrop, CryptoCompareId, CryptoCompareSeq, CryptoNotify, CryptoFinish
<1>7. ASSUME NEW f \in air, on_data_recv(f)
      PROVE  UNCHANGED <<peer_registry, passed>>
  BY <1>7 DEF on_data_recv, cryptoVars
<1>8. CASE UNCHANGED vars
  BY <1>8, <1>1 DEF vars, cryptoVars
<1> QED
  BY <1>1, <1>2, <1>3, <1>4, <1>5, <1>6, <1>7, <1>8 DEF Next

\* Between two boots no node lets two frames of one peer through under one id, for any
\* window, any number of retries and any order of arrival.
THEOREM OncePerId == Spec => []OneFramePerId
<1>1. Init => OnceInv
  BY DEF Init, NothingPassed, OnceInv, Remembered, OneFramePerId
<1>2. OnceInv => OneFramePerId
  BY DEF OnceInv
<1> QED
  BY <1>1, <1>2, TypeInvHolds, NextOnce, PTL DEF Spec
----
(* ACKs *)

\* A node queues only frames that are for it.
Addressed == \A n \in Mac : \A i \in 1 .. Len(recv_queue[n]) : recv_queue[n][i].dst = n

AckInv == Addressed /\ AckMeansStored

LEMMA CryptoAcks ==
    ASSUME TypeInv, AckInv, NEW n \in Mac, crypto_task(n)
    PROVE  AckInv'
<1>0. /\ recv_queue \in [Mac -> Seq(Frame)] /\ recv_queue[n] \in Seq(Frame)
      /\ air \subseteq Frame /\ inbox \in [Mac -> SUBSET Frame]
      /\ Addressed /\ AckMeansStored
  BY DEF TypeInv, TypeOK, AckInv
<1>1. Addressed'
  <2>1. CASE UNCHANGED recv_queue
    BY <1>0, <2>1 DEF Addressed
  <2>2. CASE recv_queue[n] # <<>> /\ recv_queue' = [recv_queue EXCEPT ![n] = Tail(@)]
    <3>1. \A i \in 1 .. Len(Tail(recv_queue[n])) :
              /\ Tail(recv_queue[n])[i] = recv_queue[n][i + 1]
              /\ i + 1 \in 1 .. Len(recv_queue[n])
      BY <1>0, <2>2
    <3>2. \A i \in 1 .. Len(Tail(recv_queue[n])) : Tail(recv_queue[n])[i].dst = n
      BY <1>0, <3>1 DEF Addressed
    <3> QED
      BY <1>0, <2>2, <3>2 DEF Addressed
  <2> QED
    BY <2>1, <2>2 DEF crypto_task, CryptoDrop, CryptoAck, CryptoData, CryptoCompareId,
                      CryptoCompareSeq, CryptoNotify, CryptoFinish
<1>2. AckMeansStored'
  <2>1. CASE UNCHANGED <<air, inbox>>
    BY <1>0, <2>1 DEF AckMeansStored
  <2>2. CASE CryptoData(n) /\ ~ UNCHANGED <<air, inbox>>
    <3> DEFINE f == Head(recv_queue[n])
    <3>1. /\ recv_queue[n] # <<>>
          /\ inbox' = [inbox EXCEPT ![n] = @ \cup {f}]
          /\ air' \in {air, air \cup {AckFor(f)}}
      BY <2>2 DEF CryptoData
    <3>2. f = recv_queue[n][1] /\ 1 \in 1 .. Len(recv_queue[n])
      BY <1>0, <3>1
    <3>3. f.dst = n
      BY <1>0, <3>2 DEF Addressed
    <3> HIDE DEF f
    <3>4. /\ f \in inbox'[n]
          /\ \A x \in Mac : inbox[x] \subseteq inbox'[x]
      BY <1>0, <3>1
    <3>5. /\ AckFor(f).src = n /\ AckFor(f).dst = f.src
          /\ AckFor(f).id = f.id /\ AckFor(f).seq = f.seq
      BY <3>3 DEF AckFor
    <3>6. ASSUME NEW a \in air', a.type = "ACK"
          PROVE  \E g \in inbox'[a.src] : g.src = a.dst /\ g.id = a.id /\ g.seq = a.seq
      <4>1. CASE a \in air
        <5>1. a.src \in Mac
          BY <1>0, <4>1 DEF Frame
        <5> QED
          BY <1>0, <3>4, <3>6, <4>1, <5>1 DEF AckMeansStored
      <4>2. CASE a = AckFor(f)
        BY <3>4, <3>5, <4>2
      <4> QED
        BY <3>1, <4>1, <4>2
    <3> QED
      BY <3>6 DEF AckMeansStored
  <2> QED
    BY <2>1, <2>2 DEF crypto_task, CryptoDrop, CryptoAck, CryptoData, CryptoCompareId,
                      CryptoCompareSeq, CryptoNotify, CryptoFinish
<1> QED
  BY <1>1, <1>2 DEF AckInv

LEMMA NextAcks == TypeInv /\ AckInv /\ [Next]_vars => AckInv'
<1> SUFFICES ASSUME TypeInv, AckInv, [Next]_vars PROVE AckInv'
  OBVIOUS
<1>0. recv_queue \in [Mac -> Seq(Frame)] /\ air \subseteq Frame /\ Addressed /\ AckMeansStored
  BY DEF TypeInv, TypeOK, AckInv
<1>1. CASE UNCHANGED <<recv_queue, air, inbox>>
  BY <1>0, <1>1 DEF AckInv, Addressed, AckMeansStored
<1>2. ASSUME NEW n \in Mac, Application(n)
      PROVE  UNCHANGED <<recv_queue, air, inbox>>
  BY <1>2 DEF Application, set_network_master_key, send_reliable, send_reliable_queue, cryptoVars
<1>3. ASSUME NEW n \in Mac, NetTransmit(n)
      PROVE  AckInv'
  <2>1. net[n].pkt.type # "ACK"
    BY <1>3 DEF TypeInv, Holding, NetTransmit
  <2>2. UNCHANGED <<recv_queue, inbox>> /\ air' = air \cup {net[n].pkt}
    BY <1>3 DEF NetTransmit, cryptoVars
  <2>3. Addressed'
    BY <1>0, <2>2 DEF Addressed
  <2>4. AckMeansStored'
    BY <1>0, <2>1, <2>2 DEF AckMeansStored
  <2> QED
    BY <2>3, <2>4 DEF AckInv
<1>4. ASSUME NEW n \in Mac, network_task(n), ~ NetTransmit(n)
      PROVE  UNCHANGED <<recv_queue, air, inbox>>
  BY <1>4 DEF network_task, NetTake, NetPrepare, NetExpectId, NetExpectSeq,
              NetNotified, NetTimeout, NetReturn, cryptoVars
<1>5. ASSUME NEW n \in Mac, Reboot(n)
      PROVE  AckInv'
  <2>1. UNCHANGED <<air, inbox>> /\ recv_queue' = [recv_queue EXCEPT ![n] = <<>>]
    BY <1>5 DEF Reboot
  <2>2. \A x \in Mac : recv_queue'[x] = IF x = n THEN <<>> ELSE recv_queue[x]
    BY <1>0, <2>1
  <2>3. Addressed'
    BY <1>0, <2>2 DEF Addressed
  <2>4. AckMeansStored'
    BY <1>0, <2>1 DEF AckMeansStored
  <2> QED
    BY <2>3, <2>4 DEF AckInv
<1>6. ASSUME NEW f \in air, on_data_recv(f)
      PROVE  AckInv'
  <2>1. /\ f \in Frame /\ f.dst \in Mac
        /\ UNCHANGED <<air, inbox>> /\ recv_queue' = [recv_queue EXCEPT ![f.dst] = Append(@, f)]
    BY <1>0, <1>6 DEF on_data_recv, cryptoVars, Frame
  <2>2. \A i \in 1 .. Len(Append(recv_queue[f.dst], f)) :
            Append(recv_queue[f.dst], f)[i]
                = IF i = Len(recv_queue[f.dst]) + 1 THEN f ELSE recv_queue[f.dst][i]
    BY <1>0, <2>1
  <2>3. Len(Append(recv_queue[f.dst], f)) = Len(recv_queue[f.dst]) + 1
        /\ Len(recv_queue[f.dst]) \in Nat
    BY <1>0, <2>1
  <2>4. \A i \in 1 .. Len(Append(recv_queue[f.dst], f)) :
            Append(recv_queue[f.dst], f)[i].dst = f.dst
    BY <1>0, <2>1, <2>2, <2>3 DEF Addressed
  <2>5. \A x \in Mac : recv_queue'[x] = IF x = f.dst THEN Append(recv_queue[x], f) ELSE recv_queue[x]
    BY <1>0, <2>1
  <2>6. Addressed'
    BY <1>0, <2>4, <2>5 DEF Addressed
  <2>7. AckMeansStored'
    BY <1>0, <2>1 DEF AckMeansStored
  <2> QED
    BY <2>6, <2>7 DEF AckInv
<1>7. CASE UNCHANGED vars
  BY <1>7, <1>1 DEF vars, cryptoVars
<1> QED
  BY <1>1, <1>2, <1>3, <1>4, <1>5, <1>6, <1>7, CryptoAcks DEF Next

\* Whatever is lost, delayed, repeated or rebooted, no ACK is on the air without its data
\* having been stored by the node that sent it.
THEOREM AcksAreTrue == Spec => []AckMeansStored
<1>1. Init => AckInv
  BY DEF Init, AckInv, Addressed, AckMeansStored
<1>2. AckInv => AckMeansStored
  BY DEF AckInv
<1> QED
  BY <1>1, <1>2, TypeInvHolds, NextAcks, PTL DEF Spec

----
(* The ring *)

\* Only between the store and the read that ends the iteration is there a fragment.
RingInv == \A n \in Mac : /\ crypto[n].pc # "finish" => ring[n] = <<>>
                          /\ Len(ring[n]) <= 1

LEMMA OneFragment ==
    ASSUME NEW f \in Frame
    PROVE  Len(Append(<<>>, f)) <= 1
<1>1. <<>> \in Seq(Frame) /\ Len(<<>>) = 0
  OBVIOUS
<1> QED
  BY <1>1

LEMMA CryptoRing ==
    ASSUME TypeInv, RingInv, NEW n \in Mac, crypto_task(n)
    PROVE  RingInv'
<1>0. /\ crypto \in [Mac -> CryptoState] /\ crypto[n] \in CryptoState
      /\ ring \in [Mac -> Seq(Frame)] /\ ring[n] \in Seq(Frame)
      /\ recv_queue[n] \in Seq(Frame)
      /\ crypto[n].pc # "finish" => ring[n] = <<>>
      /\ Len(ring[n]) <= 1
  BY DEF TypeInv, TypeOK, RingInv
<1>1. \A x \in Mac : x # n => crypto'[x] = crypto[x] /\ ring'[x] = ring[x]
  BY <1>0 DEF crypto_task, CryptoDrop, CryptoAck, CryptoData, CryptoCompareId, CryptoCompareSeq,
              CryptoNotify, CryptoFinish
<1> SUFFICES /\ crypto'[n].pc # "finish" => ring'[n] = <<>>
             /\ Len(ring'[n]) <= 1
  BY <1>1 DEF RingInv
<1>2. CASE CryptoFinish(n)
  <2>1. ring'[n] = IF ring[n] = <<>> THEN <<>> ELSE Tail(ring[n])
    BY <1>0, <1>2 DEF CryptoFinish
  <2>2. ring[n] = <<>> \/ Tail(ring[n]) = <<>>
    BY <1>0
  <2> QED
    BY <2>1, <2>2
<1>3. CASE CryptoData(n)
  <2>1. crypto'[n].pc = "finish" /\ ring[n] = <<>>
    BY <1>0, <1>3 DEF CryptoData
  <2>2. ring'[n] = <<>> \/ ring'[n] = Append(<<>>, Head(recv_queue[n]))
    BY <1>0, <1>3, <2>1 DEF CryptoData
  <2>3. Head(recv_queue[n]) \in Frame
    BY <1>0, <1>3 DEF CryptoData
  <2>4. Len(Append(<<>>, Head(recv_queue[n]))) <= 1
    BY <2>3, OneFragment
  <2>5. Len(<<>>) <= 1
    OBVIOUS
  <2> QED
    BY <2>1, <2>2, <2>4, <2>5
<1>4. CASE CryptoDrop(n) \/ CryptoAck(n)
  <2>1. ring' = ring /\ crypto[n].pc = "idle"
    BY <1>4 DEF CryptoDrop, CryptoAck
  <2> QED
    BY <1>0, <2>1
<1>5. CASE CryptoCompareId(n) \/ CryptoCompareSeq(n) \/ CryptoNotify(n)
  <2>1. ring' = ring /\ crypto[n].pc # "finish"
    BY <1>5 DEF CryptoCompareId, CryptoCompareSeq, CryptoNotify
  <2> QED
    BY <1>0, <2>1
<1> QED
  BY <1>2, <1>3, <1>4, <1>5 DEF crypto_task

LEMMA NextRing == TypeInv /\ RingInv /\ [Next]_vars => RingInv'
<1> SUFFICES ASSUME TypeInv, RingInv, [Next]_vars PROVE RingInv'
  OBVIOUS
<1>1. CASE UNCHANGED <<crypto, ring>>
  BY <1>1 DEF RingInv
<1>2. ASSUME NEW n \in Mac, Application(n) \/ network_task(n)
      PROVE  UNCHANGED <<crypto, ring>>
  BY <1>2 DEF Application, set_network_master_key, send_reliable, send_reliable_queue,
              network_task, NetTake, NetPrepare, NetExpectId, NetExpectSeq, NetTransmit,
              NetNotified, NetTimeout, NetReturn, cryptoVars
<1>3. ASSUME NEW n \in Mac, Reboot(n)
      PROVE  RingInv'
  <2>1. \A x \in Mac : /\ crypto'[x] = IF x = n THEN IdleCrypto ELSE crypto[x]
                       /\ ring'[x] = IF x = n THEN <<>> ELSE ring[x]
    BY <1>3 DEF Reboot, TypeInv, TypeOK
  <2>2. Len(<<>>) <= 1
    OBVIOUS
  <2> QED
    BY <2>1, <2>2 DEF RingInv
<1>4. ASSUME NEW f \in air, on_data_recv(f)
      PROVE  UNCHANGED <<crypto, ring>>
  BY <1>4 DEF on_data_recv, cryptoVars
<1>5. CASE UNCHANGED vars
  BY <1>5, <1>1 DEF vars, cryptoVars
<1> QED
  BY <1>1, <1>2, <1>3, <1>4, <1>5, CryptoRing DEF Next

\* crypto_task finds the ring empty whenever it takes a frame, for every size of the ring.
THEOREM RingIsDrained == Spec => []RingDrained
<1>1. Init => RingInv
  <2> SUFFICES ASSUME Init PROVE RingInv
    OBVIOUS
  <2>1. \A n \in Mac : ring[n] = <<>>
    BY DEF Init
  <2>2. Len(<<>>) <= 1
    OBVIOUS
  <2> QED
    BY <2>1, <2>2 DEF RingInv
<1>2. RingInv => RingDrained
  BY DEF RingInv, RingDrained
<1> QED
  BY <1>1, <1>2, TypeInvHolds, NextRing, PTL DEF Spec

----
(* The ids *)

\* Message t has been drawn an id, and id is no older.
Drawn(t, id) == t \in 1 .. sends /\ drawn[t] <= id

\* What a node holds: the counter has passed the id of every message on its way, and
\* the frame made of one carries no older id.
Aged(n) ==
    /\ caller[n] # NoMsg => Drawn(caller[n].tag, global_msg_id[n])
    /\ \A i \in 1 .. Len(network_queue[n]) : Drawn(network_queue[n][i].tag, global_msg_id[n])
    /\ net[n].pc # "idle" => Drawn(net[n].msg.tag, global_msg_id[n])
    /\ net[n].pc \in {"expect_id", "expect_seq", "transmit", "wait"} =>
           Drawn(net[n].pkt.tag, net[n].pkt.id)

AgeInv == /\ \A n \in Mac : Aged(n)
          /\ \A f \in air : f.type # "ACK" => Drawn(f.tag, f.id)

\* send_reliable alone draws an id, for a message of its own.
LEMMA DrawOne ==
    ASSUME TypeInv, NEW n \in Mac, send_reliable(n)
    PROVE  /\ \A t, id : Drawn(t, id) => Drawn(t, id)'
           /\ sends + 1 \in 1 .. sends'
           /\ drawn'[sends + 1] <= global_msg_id[n] + 1
<1>1. /\ sends' = sends + 1 /\ sends \in Nat /\ sends < MaxSends /\ MaxSends \in Nat
      /\ drawn \in [1 .. MaxSends -> MsgId] /\ global_msg_id[n] \in Nat
      /\ drawn' = [drawn EXCEPT ![sends + 1] = global_msg_id[n] + 1]
  BY ConstantsLemma DEF TypeInv, TypeOK, send_reliable, Constants, MsgId
<1>2. /\ sends + 1 \in 1 .. MaxSends
      /\ \A t \in 1 .. sends : t \in 1 .. MaxSends /\ t # sends + 1 /\ t \in 1 .. sends + 1
  BY <1>1
<1>3. /\ drawn'[sends + 1] = global_msg_id[n] + 1
      /\ \A t \in 1 .. sends : drawn'[t] = drawn[t]
  BY <1>1, <1>2
<1>4. sends + 1 \in 1 .. sends' /\ global_msg_id[n] + 1 <= global_msg_id[n] + 1
  BY <1>1
<1>5. \A t, id : Drawn(t, id) => Drawn(t, id)'
  BY <1>1, <1>2, <1>3 DEF Drawn
<1>6. sends + 1 \in 1 .. sends' /\ drawn'[sends + 1] <= global_msg_id[n] + 1
  BY <1>3, <1>4
<1> QED
  BY <1>5, <1>6

\* A later counter is no older.
LEMMA DrawnLater ==
    ASSUME TypeInv, NEW t, NEW id \in Nat, Drawn(t, id)
    PROVE  Drawn(t, id + 1)
<1>1. sends \in Nat /\ t \in 1 .. sends /\ sends <= MaxSends /\ MaxSends \in Nat
  BY ConstantsLemma DEF TypeInv, TypeOK, Drawn, Constants
<1>2. t \in 1 .. MaxSends
  BY <1>1
<1>3. drawn[t] \in Nat
  BY <1>2, ConstantsLemma DEF TypeInv, TypeOK, MsgId, Constants
<1> QED
  BY <1>3 DEF Drawn

LEMMA ApplicationAges ==
    ASSUME TypeInv, AgeInv, NEW n \in Mac, Application(n)
    PROVE  AgeInv'
<1>0. /\ caller \in [Mac -> Message \cup {NoMsg}] /\ global_msg_id \in [Mac -> MsgId]
      /\ network_queue \in [Mac -> Seq(Message)]
      /\ global_msg_id[n] \in Nat
  BY ConstantsLemma DEF TypeInv, TypeOK, MsgId, Constants
<1>a. net' = net /\ air' = air
  BY DEF Application, set_network_master_key, send_reliable, send_reliable_queue, netVars
<1>1. CASE set_network_master_key(n)
  BY <1>1 DEF AgeInv, Aged, Drawn, set_network_master_key, netVars
<1>2. CASE send_reliable(n)
  <2>1. \A t, id : Drawn(t, id) => Drawn(t, id)'
    BY <1>2, DrawOne
  <2>2. \A t : Drawn(t, global_msg_id[n]) => Drawn(t, global_msg_id[n] + 1)
    BY <1>0, DrawnLater
  <2>3. \A x \in Mac :
            global_msg_id'[x] = IF x = n THEN global_msg_id[n] + 1 ELSE global_msg_id[x]
    BY <1>0, <1>2 DEF send_reliable
  <2>4. \A x \in Mac : x # n => caller'[x] = caller[x]
    BY <1>0, <1>2 DEF send_reliable
  <2>5. caller'[n].tag = sends + 1
    BY <1>0, <1>2 DEF send_reliable
  <2>6. network_queue' = network_queue
    BY <1>2 DEF send_reliable
  <2>7. sends + 1 \in 1 .. sends' /\ drawn'[sends + 1] <= global_msg_id[n] + 1
    BY <1>2, DrawOne
  <2>8. \A t, x : x \in Mac /\ Drawn(t, global_msg_id[x]) =>
            t \in 1 .. sends' /\ drawn'[t] <= global_msg_id'[x]
    BY <2>1, <2>2, <2>3 DEF Drawn
  <2>9. \A t, id : Drawn(t, id) => t \in 1 .. sends' /\ drawn'[t] <= id
    BY <2>1 DEF Drawn
  <2>10. ASSUME NEW x \in Mac PROVE Aged(x)'
    <3>1. Aged(x)
      BY DEF AgeInv
    <3>2. caller'[x] # NoMsg =>
              caller'[x].tag \in 1 .. sends' /\ drawn'[caller'[x].tag] <= global_msg_id'[x]
      <4>1. CASE x = n
        BY <2>3, <2>5, <2>7, <4>1
      <4>2. CASE x # n
        BY <2>4, <2>8, <3>1, <4>2 DEF Aged
      <4> QED
        BY <4>1, <4>2
    <3>3. \A i \in 1 .. Len(network_queue'[x]) :
              /\ network_queue'[x][i].tag \in 1 .. sends'
              /\ drawn'[network_queue'[x][i].tag] <= global_msg_id'[x]
      BY <2>6, <2>8, <3>1 DEF Aged
    <3>4. net'[x].pc # "idle" =>
              net'[x].msg.tag \in 1 .. sends' /\ drawn'[net'[x].msg.tag] <= global_msg_id'[x]
      BY <1>a, <2>8, <3>1 DEF Aged
    <3>5. net'[x].pc \in {"expect_id", "expect_seq", "transmit", "wait"} =>
              net'[x].pkt.tag \in 1 .. sends' /\ drawn'[net'[x].pkt.tag] <= net'[x].pkt.id
      BY <1>a, <2>9, <3>1 DEF Aged
    <3> QED
      BY <3>2, <3>3, <3>4, <3>5 DEF Aged, Drawn
  <2>11. \A f \in air' : f.type # "ACK" => Drawn(f.tag, f.id)'
    BY <1>a, <2>1 DEF AgeInv
  <2> QED
    BY <2>10, <2>11 DEF AgeInv
<1>3. CASE send_reliable_queue(n)
  <2>1. UNCHANGED <<global_msg_id, sends, drawn>>
    BY <1>3 DEF send_reliable_queue
  <2>2. /\ \A x \in Mac : x # n => caller'[x] = caller[x] /\ network_queue'[x] = network_queue[x]
        /\ caller'[n] = NoMsg /\ caller[n] # NoMsg
        /\ network_queue'[n] = Append(network_queue[n], caller[n])
    BY <1>0, <1>3 DEF send_reliable_queue
  <2>3. caller[n] \in Message /\ network_queue[n] \in Seq(Message)
    BY <1>0, <2>2
  <2>4. \A i \in 1 .. Len(network_queue'[n]) :
            network_queue'[n][i] = caller[n] \/
            (i \in 1 .. Len(network_queue[n]) /\ network_queue'[n][i] = network_queue[n][i])
    BY <2>2, <2>3
  <2>5. Aged(n)'
    BY <1>a, <2>1, <2>2, <2>4 DEF AgeInv, Aged, Drawn
  <2>6. ASSUME NEW x \in Mac, x # n PROVE Aged(x)'
    BY <1>a, <2>1, <2>2, <2>6 DEF AgeInv, Aged, Drawn
  <2> QED
    BY <1>a, <2>1, <2>5, <2>6 DEF AgeInv, Drawn
<1> QED
  BY <1>1, <1>2, <1>3 DEF Application

LEMMA NetAges ==
    ASSUME TypeInv, AgeInv, NEW n \in Mac, network_task(n)
    PROVE  AgeInv'
<1> DEFINE w == net[n]
           v == net'[n]
<1>0. /\ w \in NetState /\ net \in [Mac -> NetState]
      /\ network_queue \in [Mac -> Seq(Message)] /\ network_queue[n] \in Seq(Message)
      /\ global_msg_id[n] \in Nat
  BY ConstantsLemma DEF TypeInv, TypeOK, MsgId, Constants
<1>w. /\ w.pc # "idle" => w.msg \in Message
      /\ w.pc \in {"prepare", "wait"} => w.i < w.msg.total
  BY DEF TypeInv, Holding
<1>u. UNCHANGED <<caller, global_msg_id, sends, drawn>>
  BY DEF network_task, NetTake, NetPrepare, NetExpectId, NetExpectSeq, NetTransmit, NetNotified,
         NetTimeout, NetReturn, appVars
<1>d. \A t, id : Drawn(t, id) <=> Drawn(t, id)'
  BY <1>u DEF Drawn
<1>g. Aged(n)
  BY DEF AgeInv
<1>o. \A x \in Mac : x # n => net'[x] = net[x] /\ network_queue'[x] = network_queue[x]
  BY <1>0 DEF network_task, NetTake, NetPrepare, NetExpectId, NetExpectSeq, NetTransmit,
              NetNotified, NetTimeout, NetReturn
<1>1. ASSUME NEW x \in Mac, x # n PROVE Aged(x)'
  BY <1>u, <1>o, <1>1 DEF AgeInv, Aged, Drawn
<1>2. \A f \in air' : f.type # "ACK" => Drawn(f.tag, f.id)
  <2>1. CASE NetTransmit(n)
    <3>1. air' = air \cup {w.pkt} /\ w.pc = "transmit"
      BY <2>1 DEF NetTransmit
    <3> QED
      BY <1>g, <3>1 DEF AgeInv, Aged
  <2>2. CASE ~ NetTransmit(n)
    <3>1. air' = air
      BY <2>2 DEF network_task, NetTake, NetPrepare, NetExpectId, NetExpectSeq, NetNotified,
                  NetTimeout, NetReturn
    <3> QED
      BY <3>1 DEF AgeInv
  <2> QED
    BY <2>1, <2>2
<1> DEFINE Keeps == /\ v.pc # "idle" => Drawn(v.msg.tag, global_msg_id[n])
                    /\ v.pc \in {"expect_id", "expect_seq", "transmit", "wait"} =>
                           Drawn(v.pkt.tag, v.pkt.id)
<1> SUFFICES Keeps /\ \A i \in 1 .. Len(network_queue'[n]) :
                          Drawn(network_queue'[n][i].tag, global_msg_id[n])
  <2>1. ASSUME Keeps, \A i \in 1 .. Len(network_queue'[n]) :
                          Drawn(network_queue'[n][i].tag, global_msg_id[n])
        PROVE  Aged(n)'
    BY <1>u, <1>g, <2>1 DEF Aged, Drawn
  <2>2. \A f \in air' : f.type # "ACK" => Drawn(f.tag, f.id)'
    BY <1>2, <1>d
  <2> QED
    BY <1>1, <2>1, <2>2 DEF AgeInv
<1>3. CASE NetTake(n)
  <2> DEFINE m == Head(network_queue[n])
             pc == IF m.total = 0 THEN "return" ELSE "prepare"
  <2>1. /\ network_queue[n] # <<>> /\ network_queue'[n] = Tail(network_queue[n])
        /\ v = [IdleNet EXCEPT !.pc = pc, !.msg = m]
    BY <1>0, <1>3 DEF NetTake
  <2>2. m \in Message /\ 1 \in 1 .. Len(network_queue[n]) /\ m = network_queue[n][1]
    BY <1>0, <2>1
  <2>3. pc \in {"prepare", "return"}
    OBVIOUS
  <2> HIDE DEF pc
  <2>4. v.pc = pc /\ v.msg = m
    <3> DEFINE x == [IdleNet EXCEPT !.pc = pc, !.msg = m]
    <3>1. x.pc = pc /\ x.msg = m
      BY <2>2, <2>3, TakenLemma
    <3> HIDE DEF x
    <3>2. v = x
      BY <2>1 DEF x
    <3> QED
      BY <3>1, <3>2
  <2>5. \A i \in 1 .. Len(network_queue'[n]) :
            i + 1 \in 1 .. Len(network_queue[n]) /\ network_queue'[n][i] = network_queue[n][i + 1]
    BY <1>0, <2>1
  <2>6. Keeps
    BY <1>g, <2>2, <2>3, <2>4 DEF Aged
  <2>7. \A i \in 1 .. Len(network_queue'[n]) : Drawn(network_queue'[n][i].tag, global_msg_id[n])
    BY <1>g, <2>5 DEF Aged
  <2> QED
    BY <2>6, <2>7
<1>4. CASE ~ NetTake(n)
  <2>1. network_queue' = network_queue
    BY <1>4 DEF network_task, NetPrepare, NetExpectId, NetExpectSeq, NetTransmit, NetNotified,
                NetTimeout, NetReturn
  <2>2. ASSUME v = NextFragment(w) /\ w.pc \in {"prepare", "wait"} PROVE Keeps
    <3>1. v.msg = w.msg /\ v.pc \in {"prepare", "return"}
      BY <1>0, <1>w, <2>2, NextFragmentLemma
    <3> QED
      BY <1>g, <2>2, <3>1 DEF Aged
  <2>3. ASSUME NetPrepare(n) /\ v = [w EXCEPT !.pkt = Fragment(n), !.pc = "expect_id"] PROVE Keeps
    <3>1. v.msg = w.msg /\ v.pkt = Fragment(n) /\ w.pc = "prepare"
      BY <1>0, <2>3 DEF NetPrepare, NetState
    <3>2. v.pkt.tag = w.msg.tag /\ v.pkt.id = global_msg_id[n]
      BY <3>1 DEF Fragment
    <3> QED
      BY <1>g, <3>1, <3>2 DEF Aged
  <2>4. ASSUME NetExpectId(n) \/ NetExpectSeq(n) \/ NetTransmit(n) PROVE Keeps
    <3>1. PICK pc : v = [w EXCEPT !.pc = pc]
      BY <1>0, <2>4 DEF NetExpectId, NetExpectSeq, NetTransmit
    <3>2. v.msg = w.msg /\ v.pkt = w.pkt
      BY <1>0, <3>1 DEF NetState
    <3>3. w.pc \in {"expect_id", "expect_seq", "transmit"}
      BY <2>4 DEF NetExpectId, NetExpectSeq, NetTransmit
    <3> QED
      BY <1>g, <3>2, <3>3 DEF Aged
  <2>5. ASSUME NetTimeout(n) /\ v = [w EXCEPT !.r = @ + 1, !.pc = "transmit"] PROVE Keeps
    <3>1. v.msg = w.msg /\ v.pkt = w.pkt /\ w.pc = "wait"
      BY <1>0, <2>5 DEF NetState, NetTimeout
    <3> QED
      BY <1>g, <3>1 DEF Aged
  <2>6. ASSUME NetReturn(n) PROVE Keeps
    <3>1. v = IdleNet
      BY <1>0, <2>6 DEF NetReturn
    <3> QED
      BY <3>1, IdleLemma
  <2>7. NetNotified(n) => v = NextFragment(w) /\ w.pc = "wait"
    BY <1>0 DEF NetNotified
  <2>8. NetTimeout(n) => /\ w.pc = "wait"
                         /\ \/ v = NextFragment(w)
                            \/ v = [w EXCEPT !.r = @ + 1, !.pc = "transmit"]
    BY <1>0 DEF NetTimeout, NextTry
  <2>9. NetPrepare(n) => /\ w.pc = "prepare"
                         /\ \/ v = NextFragment(w)
                            \/ v = [w EXCEPT !.pkt = Fragment(n), !.pc = "expect_id"]
    BY <1>0 DEF NetPrepare
  <2>10. Keeps
    BY <1>4, <2>2, <2>3, <2>4, <2>5, <2>6, <2>7, <2>8, <2>9 DEF network_task
  <2>11. \A i \in 1 .. Len(network_queue'[n]) : Drawn(network_queue'[n][i].tag, global_msg_id[n])
    BY <1>g, <2>1 DEF Aged
  <2> QED
    BY <2>10, <2>11
<1> QED
  BY <1>3, <1>4

LEMMA CryptoAges ==
    ASSUME TypeInv, AgeInv, NEW n \in Mac, crypto_task(n)
    PROVE  AgeInv'
<1>1. UNCHANGED <<caller, global_msg_id, sends, drawn, network_queue, net>>
  BY DEF crypto_task, CryptoDrop, CryptoAck, CryptoData, CryptoCompareId, CryptoCompareSeq,
         CryptoNotify, CryptoFinish, appVars, netVars
<1>2. \A f \in air' : f \in air \/ f.type = "ACK"
  BY DEF crypto_task, CryptoDrop, CryptoAck, CryptoData, CryptoCompareId, CryptoCompareSeq,
         CryptoNotify, CryptoFinish, AckFor
<1>3. \A x \in Mac : Aged(x)'
  BY <1>1 DEF AgeInv, Aged, Drawn
<1> QED
  BY <1>1, <1>2, <1>3 DEF AgeInv, Drawn

LEMMA RebootAges ==
    ASSUME TypeInv, AgeInv, NEW n \in Mac, Reboot(n)
    PROVE  AgeInv'
<1>1. UNCHANGED <<sends, drawn, air>>
  BY DEF Reboot
<1>2. \A x \in Mac : x # n => /\ caller'[x] = caller[x] /\ network_queue'[x] = network_queue[x]
                              /\ net'[x] = net[x] /\ global_msg_id'[x] = global_msg_id[x]
  BY DEF Reboot, TypeInv, TypeOK
<1>3. caller'[n] = NoMsg /\ network_queue'[n] = <<>> /\ net'[n] = IdleNet
  BY DEF Reboot, TypeInv, TypeOK
<1>4. \A i : i \notin 1 .. Len(<<>>)
  OBVIOUS
<1>5. Aged(n)'
  BY <1>3, <1>4, IdleLemma DEF Aged
<1>6. ASSUME NEW x \in Mac, x # n PROVE Aged(x)'
  BY <1>1, <1>2, <1>6 DEF AgeInv, Aged, Drawn
<1> QED
  BY <1>1, <1>5, <1>6 DEF AgeInv, Drawn

LEMMA NextAges == TypeInv /\ AgeInv /\ [Next]_vars => AgeInv'
<1> SUFFICES ASSUME TypeInv, AgeInv, [Next]_vars PROVE AgeInv'
  OBVIOUS
<1>1. CASE UNCHANGED <<caller, global_msg_id, sends, drawn, network_queue, net, air>>
  BY <1>1 DEF AgeInv, Aged, Drawn
<1>2. ASSUME NEW f \in air, on_data_recv(f)
      PROVE  UNCHANGED <<caller, global_msg_id, sends, drawn, network_queue, net, air>>
  BY <1>2 DEF on_data_recv, appVars, netVars
<1>3. CASE UNCHANGED vars
  BY <1>1, <1>3 DEF vars, appVars, netVars
<1> QED
  BY <1>1, <1>2, <1>3, ApplicationAges, NetAges, CryptoAges, RebootAges DEF Next

\* No data frame carries an id older than the one its message was drawn.
THEOREM IdsAreNeverOlder == Spec => []IdsNeverOlder
<1>1. Init => AgeInv
  <2> SUFFICES ASSUME Init PROVE AgeInv
    OBVIOUS
  <2>1. /\ \A n \in Mac : caller[n] = NoMsg /\ network_queue[n] = <<>> /\ net[n] = IdleNet
        /\ air = {}
    BY DEF Init
  <2>2. \A i : i \notin 1 .. Len(<<>>)
    OBVIOUS
  <2> QED
    BY <2>1, <2>2, IdleLemma DEF AgeInv, Aged
<1>2. TypeInv /\ AgeInv => IdsNeverOlder
  <2> SUFFICES ASSUME TypeInv, AgeInv, NEW f \in air, f.type = "DATA" PROVE f.id >= drawn[f.tag]
    BY DEF IdsNeverOlder
  <2>1. f.tag \in 1 .. sends /\ drawn[f.tag] <= f.id
    BY DEF AgeInv, Drawn
  <2>2. f.id \in Nat /\ sends \in Nat /\ sends <= MaxSends /\ MaxSends \in Nat
    BY ConstantsLemma DEF TypeInv, TypeOK, Frame, MsgId, Constants
  <2>3. f.tag \in 1 .. MaxSends
    BY <2>1, <2>2
  <2>4. drawn[f.tag] \in Nat
    BY <2>3, ConstantsLemma DEF TypeInv, TypeOK, MsgId, Constants
  <2> QED
    BY <2>1, <2>2, <2>4
<1> QED
  BY <1>1, <1>2, TypeInvHolds, NextAges, PTL DEF Spec
----
(* The abstract specification *)

Made == {"expect_id", "expect_seq", "transmit", "wait"}
DataAir == {f \in air : f.type # "ACK"}

\* Message m of node n is what was given to send_reliable under its tag.
Owned(n, m) ==
    /\ m.tag \in 1 .. sends
    /\ given[m.tag] = [from |-> n, to |-> m.target, total |-> m.total]

\* A node has each of its messages in hand once, and the frame made last is the
\* fragment it is at.
Holds(n) ==
    /\ caller[n] # NoMsg =>
           /\ Owned(n, caller[n])
           /\ \A i \in 1 .. Len(network_queue[n]) : network_queue[n][i].tag # caller[n].tag
    /\ \A i \in 1 .. Len(network_queue[n]) :
           /\ Owned(n, network_queue[n][i])
           /\ \A j \in 1 .. Len(network_queue[n]) :
                  network_queue[n][i].tag = network_queue[n][j].tag => i = j
    /\ net[n].pc # "idle" =>
           /\ Owned(n, net[n].msg)
           /\ caller[n] # NoMsg => net[n].msg.tag # caller[n].tag
           /\ \A i \in 1 .. Len(network_queue[n]) : network_queue[n][i].tag # net[n].msg.tag
    /\ net[n].pc \in Made =>
           /\ net[n].pkt.src = n /\ net[n].pkt.dst = net[n].msg.target
           /\ net[n].pkt.tag = net[n].msg.tag /\ net[n].pkt.seq = net[n].i

\* A frame is a fragment of a message that was given to send_reliable ...
Airborne(f) ==
    /\ f.tag \in 1 .. sends
    /\ given[f.tag].from = f.src /\ given[f.tag].to = f.dst
    /\ f.seq < given[f.tag].total

\* ... and its sender is at it, or past it.
Behind(n, f) ==
    /\ caller[n] # NoMsg => caller[n].tag # f.tag
    /\ \A i \in 1 .. Len(network_queue[n]) : network_queue[n][i].tag # f.tag
    /\ net[n].pc # "idle" /\ net[n].msg.tag = f.tag =>
           f.seq < net[n].i \/ (net[n].pc \in Made /\ f = net[n].pkt)

\* So a fragment is on the air as one frame at most.
SentInv ==
    /\ \A t \in 1 .. MaxSends : t > sends => given[t] = NoMsg
    /\ \A n \in Mac : Holds(n)
    /\ \A f \in DataAir : Airborne(f) /\ Behind(f.src, f)
    /\ \A f, g \in DataAir : f.tag = g.tag /\ f.seq = g.seq => f = g

\* A fragment came from a frame that is on the air and passed.
Vouched(n, p) ==
    \E f \in DataAir : /\ <<f.tag, f.seq>> = p /\ f.dst = n
                       /\ passed[n][f.src][f.id] # 0

\* A node hears what is on the air, and lets through what it stores.
HeardInv ==
    /\ \A n \in Mac : \A i \in 1 .. Len(recv_queue[n]) : recv_queue[n][i] \in air
    /\ \A n \in Mac : \A p \in Fragments : stored[n][p] # 0 => Vouched(n, p)

\* A call of send_reliable leaves what is on record of the earlier ones.
LEMMA GivenLater ==
    ASSUME TypeInv, NEW n \in Mac, send_reliable(n)
    PROVE  /\ sends \in Nat /\ sends' = sends + 1 /\ sends + 1 \in 1 .. MaxSends
           /\ \A t \in 1 .. sends : t \in 1 .. sends' /\ t # sends + 1 /\ given'[t] = given[t]
<1>1. /\ sends' = sends + 1 /\ sends \in Nat /\ sends < MaxSends /\ MaxSends \in Nat
      /\ given \in [1 .. MaxSends -> Given \cup {NoMsg}]
  BY ConstantsLemma DEF TypeInv, TypeOK, send_reliable, Constants
<1>2. PICK m : given' = [given EXCEPT ![sends + 1] = m]
  BY DEF send_reliable
<1>3. \A t \in 1 .. sends : t \in 1 .. MaxSends /\ t \in 1 .. sends' /\ t # sends + 1
  BY <1>1
<1> QED
  BY <1>1, <1>2, <1>3

\* send_reliable files a new message under a new tag.
LEMMA SendSent ==
    ASSUME TypeInv, SentInv, NEW n \in Mac, send_reliable(n)
    PROVE  SentInv'
<1>1. /\ sends \in Nat /\ sends' = sends + 1 /\ sends + 1 \in 1 .. MaxSends
      /\ \A t \in 1 .. sends : t \in 1 .. sends' /\ t # sends + 1 /\ given'[t] = given[t]
  BY GivenLater
<1>2. PICK target \in Mac \ {n}, total \in 0 .. MaxTotal :
          /\ caller' = [caller EXCEPT ![n] =
                           [target |-> target, total |-> total, tag |-> sends + 1]]
          /\ given' = [given EXCEPT ![sends + 1] = [from |-> n, to |-> target, total |-> total]]
  BY DEF send_reliable
<1>m. PICK m : m = [target |-> target, total |-> total, tag |-> sends + 1]
  OBVIOUS
<1>3. /\ caller \in [Mac -> Message \cup {NoMsg}]
      /\ given \in [1 .. MaxSends -> Given \cup {NoMsg}]
      /\ caller[n] = NoMsg
      /\ UNCHANGED <<network_queue, net, air>>
  BY DEF TypeInv, TypeOK, send_reliable, netVars
<1>4. \A x \in Mac : caller'[x] = IF x = n THEN m ELSE caller[x]
  BY <1>2, <1>3, <1>m
<1>5. \A x, y : Owned(x, y) => Owned(x, y)' /\ y.tag # sends + 1
  BY <1>1 DEF Owned
<1>6. Owned(n, m)'
  <2>1. given'[sends + 1] = [from |-> n, to |-> target, total |-> total]
    BY <1>1, <1>2, <1>3
  <2>2. sends + 1 \in 1 .. sends'
    BY <1>1
  <2>3. m.tag = sends + 1 /\ m.target = target /\ m.total = total
    BY <1>m
  <2> QED
    BY <2>1, <2>2, <2>3 DEF Owned
<1>t. m.tag = sends + 1
  BY <1>m
<1>7. ASSUME NEW t \in 1 .. MaxSends, t > sends' PROVE given'[t] = NoMsg
  <2>1. t > sends /\ t # sends + 1
    BY <1>1, <1>7
  <2> QED
    BY <1>2, <1>3, <2>1 DEF SentInv
<1>8. ASSUME NEW x \in Mac PROVE Holds(x)'
  <2>1. Holds(x)
    BY DEF SentInv
  <2>2. CASE x = n
    BY <1>3, <1>4, <1>5, <1>6, <1>t, <2>1, <2>2 DEF Holds
  <2>3. CASE x # n
    BY <1>3, <1>4, <1>5, <2>1, <2>3 DEF Holds
  <2> QED
    BY <2>2, <2>3
<1>9. ASSUME NEW f \in DataAir PROVE Airborne(f)' /\ Behind(f.src, f)'
  <2>1. Airborne(f) /\ Behind(f.src, f) /\ f.src \in Mac
    BY DEF SentInv, DataAir, TypeInv, TypeOK, Frame
  <2>2. Airborne(f)' /\ f.tag # sends + 1
    BY <1>1, <2>1 DEF Airborne
  <2>3. Behind(f.src, f)'
    BY <1>3, <1>4, <1>t, <2>1, <2>2 DEF Behind
  <2> QED
    BY <2>2, <2>3
<1>10. DataAir' = DataAir
  BY <1>3 DEF DataAir
<1> QED
  BY <1>7, <1>8, <1>9, <1>10 DEF SentInv

\* A message passes from send_reliable to the queue.
LEMMA QueueSent ==
    ASSUME TypeInv, SentInv, NEW n \in Mac, send_reliable_queue(n)
    PROVE  SentInv'
<1> DEFINE q == network_queue[n]
           m == caller[n]
<1>1. /\ caller \in [Mac -> Message \cup {NoMsg}] /\ network_queue \in [Mac -> Seq(Message)]
      /\ m # NoMsg /\ m \in Message /\ q \in Seq(Message)
      /\ UNCHANGED <<sends, given, net, air>>
  BY DEF TypeInv, TypeOK, send_reliable_queue, netVars
<1>2. /\ \A x \in Mac : x # n => caller'[x] = caller[x] /\ network_queue'[x] = network_queue[x]
      /\ caller'[n] = NoMsg
      /\ network_queue'[n] = Append(q, m)
  BY <1>1 DEF send_reliable_queue
<1>3. /\ Len(q) \in Nat /\ Len(Append(q, m)) = Len(q) + 1
      /\ \A i \in 1 .. Len(q) : Append(q, m)[i] = q[i]
      /\ Append(q, m)[Len(q) + 1] = m
  BY <1>1
<1>4. \A i \in 1 .. Len(Append(q, m)) : i \in 1 .. Len(q) \/ i = Len(q) + 1
  BY <1>3
<1>5. /\ \A x, y : Owned(x, y) => Owned(x, y)'
      /\ \A f : Airborne(f) => Airborne(f)'
  BY <1>1 DEF Owned, Airborne
<1>6. Holds(n)'
  <2>1. /\ Holds(n) /\ Owned(n, m)
        /\ \A i \in 1 .. Len(q) : q[i].tag # m.tag
    BY <1>1 DEF SentInv, Holds
  <2>2. \A i \in 1 .. Len(Append(q, m)) :
            /\ Owned(n, Append(q, m)[i])
            /\ \A j \in 1 .. Len(Append(q, m)) :
                   Append(q, m)[i].tag = Append(q, m)[j].tag => i = j
    <3>1. \A i \in 1 .. Len(q) : /\ Owned(n, q[i])
                                 /\ \A j \in 1 .. Len(q) : q[i].tag = q[j].tag => i = j
      BY <2>1 DEF Holds
    <3> HIDE DEF q, m
    <3> QED
      BY <1>3, <1>4, <2>1, <3>1
  <2>3. net[n].pc # "idle" =>
            /\ Owned(n, net[n].msg)
            /\ \A i \in 1 .. Len(Append(q, m)) : Append(q, m)[i].tag # net[n].msg.tag
    <3>1. net[n].pc # "idle" => /\ Owned(n, net[n].msg)
                                /\ net[n].msg.tag # m.tag
                                /\ \A i \in 1 .. Len(q) : q[i].tag # net[n].msg.tag
      BY <1>1, <2>1 DEF Holds
    <3> HIDE DEF q, m
    <3> QED
      BY <1>3, <1>4, <3>1
  <2> QED
    BY <1>1, <1>2, <1>5, <2>1, <2>2, <2>3 DEF Holds
<1>7. ASSUME NEW x \in Mac, x # n PROVE Holds(x)'
  BY <1>1, <1>2, <1>5, <1>7 DEF SentInv, Holds
<1>8. ASSUME NEW f \in DataAir PROVE Airborne(f)' /\ Behind(f.src, f)'
  <2>1. Airborne(f) /\ Behind(f.src, f) /\ f.src \in Mac
    BY DEF SentInv, DataAir, TypeInv, TypeOK, Frame
  <2>2. CASE f.src = n
    <3>1. m.tag # f.tag /\ \A i \in 1 .. Len(q) : q[i].tag # f.tag
      BY <1>1, <2>1, <2>2 DEF Behind
    <3>2. \A i \in 1 .. Len(Append(q, m)) : Append(q, m)[i].tag # f.tag
      BY <1>3, <1>4, <3>1
    <3> QED
      BY <1>1, <1>2, <1>5, <2>1, <2>2, <3>2 DEF Behind
  <2>3. CASE f.src # n
    BY <1>1, <1>2, <1>5, <2>1, <2>3 DEF Behind
  <2> QED
    BY <2>2, <2>3
<1>9. DataAir' = DataAir
  BY <1>1 DEF DataAir
<1> QED
  BY <1>1, <1>6, <1>7, <1>8, <1>9 DEF SentInv

\* The steps of network_task on a message it has in hand: on to the next fragment, the
\* frame of the fragment is made, the frame is kept, or the message is done with.
LEMMA NetMoves ==
    ASSUME TypeInv, NEW n \in Mac, network_task(n), ~ NetTake(n)
    PROVE  /\ net[n].pc # "idle"
           /\ \/ /\ net[n].pc \in {"prepare", "wait"} /\ net'[n].pc \in {"prepare", "return"}
                 /\ net'[n].msg = net[n].msg /\ net'[n].i = net[n].i + 1
              \/ /\ net[n].pc = "prepare" /\ net'[n].pc = "expect_id"
                 /\ net'[n].msg = net[n].msg /\ net'[n].i = net[n].i
                 /\ net'[n].pkt = Fragment(n)
              \/ /\ net[n].pc \in Made /\ net'[n].pc \in Made
                 /\ net'[n].msg = net[n].msg /\ net'[n].i = net[n].i
                 /\ net'[n].pkt = net[n].pkt
              \/ NetReturn(n) /\ net'[n].pc = "idle"
           /\ \/ air' = air
              \/ net[n].pc = "transmit" /\ net'[n].pc = "wait" /\ air' = air \cup {net[n].pkt}
<1> DEFINE w == net[n]
           v == net'[n]
<1>0. w \in NetState /\ net \in [Mac -> NetState]
  BY DEF TypeInv, TypeOK
<1>w. /\ w.pc # "idle" => w.msg \in Message
      /\ w.pc \in {"prepare", "wait"} => w.i < w.msg.total
  BY DEF TypeInv, Holding
<1>1. ASSUME v = NextFragment(w), w.pc \in {"prepare", "wait"}
      PROVE  v.pc \in {"prepare", "return"} /\ v.msg = w.msg /\ v.i = w.i + 1
  BY <1>0, <1>w, <1>1, NextFragmentLemma
<1>2. CASE NetPrepare(n)
  <2>1. w.pc = "prepare" /\ air' = air
    BY <1>2 DEF NetPrepare
  <2>2. v = NextFragment(w) \/ v = [w EXCEPT !.pkt = Fragment(n), !.pc = "expect_id"]
    BY <1>0, <1>2 DEF NetPrepare
  <2>3. ASSUME v = [w EXCEPT !.pkt = Fragment(n), !.pc = "expect_id"]
        PROVE  v.pc = "expect_id" /\ v.msg = w.msg /\ v.i = w.i /\ v.pkt = Fragment(n)
    BY <1>0, <2>3 DEF NetState
  <2> QED
    BY <1>1, <2>1, <2>2, <2>3
<1>3. CASE NetExpectId(n) \/ NetExpectSeq(n) \/ NetTransmit(n)
  <2>1. PICK pc \in Made : v = [w EXCEPT !.pc = pc] /\ (NetTransmit(n) => pc = "wait")
    BY <1>0, <1>3 DEF NetExpectId, NetExpectSeq, NetTransmit, Made
  <2>2. v.pc = pc /\ v.msg = w.msg /\ v.i = w.i /\ v.pkt = w.pkt
    BY <1>0, <2>1 DEF NetState
  <2>3. w.pc \in {"expect_id", "expect_seq", "transmit"}
    BY <1>3 DEF NetExpectId, NetExpectSeq, NetTransmit
  <2>4. air' = air \/ (NetTransmit(n) /\ w.pc = "transmit" /\ air' = air \cup {w.pkt})
    BY <1>3 DEF NetExpectId, NetExpectSeq, NetTransmit
  <2> QED
    BY <2>1, <2>2, <2>3, <2>4 DEF Made
<1>4. CASE NetNotified(n)
  <2>1. v = NextFragment(w) /\ w.pc = "wait" /\ air' = air
    BY <1>0, <1>4 DEF NetNotified
  <2> QED
    BY <1>1, <2>1
<1>5. CASE NetTimeout(n)
  <2>1. w.pc = "wait" /\ air' = air
    BY <1>5 DEF NetTimeout
  <2>2. v = NextFragment(w) \/ v = [w EXCEPT !.r = @ + 1, !.pc = "transmit"]
    BY <1>0, <1>5 DEF NetTimeout, NextTry
  <2>3. ASSUME v = [w EXCEPT !.r = @ + 1, !.pc = "transmit"]
        PROVE  v.pc = "transmit" /\ v.msg = w.msg /\ v.i = w.i /\ v.pkt = w.pkt
    BY <1>0, <2>3 DEF NetState
  <2> QED
    BY <1>1, <2>1, <2>2, <2>3 DEF Made
<1>6. CASE NetReturn(n)
  <2>1. v = IdleNet /\ w.pc = "return" /\ air' = air
    BY <1>0, <1>6 DEF NetReturn
  <2> QED
    BY <1>6, <2>1, IdleLemma
<1> QED
  BY <1>2, <1>3, <1>4, <1>5, <1>6 DEF network_task

\* What a step of network_task leaves alone.
LEMMA NetLeaves ==
    ASSUME TypeInv, NEW n \in Mac, network_task(n)
    PROVE  /\ UNCHANGED <<caller, sends, given>>
           /\ \A x \in Mac : x # n => net'[x] = net[x] /\ network_queue'[x] = network_queue[x]
           /\ ~ NetTake(n) => network_queue' = network_queue
           /\ NetTake(n) => air' = air
<1>0. net \in [Mac -> NetState] /\ network_queue \in [Mac -> Seq(Message)]
  BY DEF TypeInv, TypeOK
<1> QED
  BY <1>0 DEF network_task, NetTake, NetPrepare, NetExpectId, NetExpectSeq, NetTransmit,
              NetNotified, NetTimeout, NetReturn, appVars

LEMMA TakeSent ==
    ASSUME TypeInv, SentInv, NEW n \in Mac, NetTake(n)
    PROVE  SentInv'
<1> DEFINE q == network_queue[n]
           m == Head(q)
           pc == IF m.total = 0 THEN "return" ELSE "prepare"
           v == net'[n]
<1>t. network_task(n)
  BY DEF network_task
<1>0. /\ UNCHANGED <<caller, sends, given, air>>
      /\ \A x \in Mac : x # n => net'[x] = net[x] /\ network_queue'[x] = network_queue[x]
  BY <1>t, NetLeaves
<1>1. /\ net \in [Mac -> NetState] /\ network_queue \in [Mac -> Seq(Message)] /\ q \in Seq(Message)
      /\ q # <<>>
      /\ network_queue'[n] = Tail(q)
      /\ v = [IdleNet EXCEPT !.pc = pc, !.msg = m]
  BY DEF TypeInv, TypeOK, NetTake
<1>2. m \in Message /\ 1 \in 1 .. Len(q) /\ m = q[1]
  BY <1>1
<1>3. v.pc \in {"prepare", "return"} /\ v.msg = m
  <2>1. pc \in {"prepare", "return"}
    OBVIOUS
  <2> HIDE DEF pc
  <2> DEFINE x == [IdleNet EXCEPT !.pc = pc, !.msg = m]
  <2>2. x.pc = pc /\ x.msg = m
    BY <1>2, <2>1, TakenLemma
  <2> HIDE DEF x
  <2>3. v = x
    BY <1>1 DEF x
  <2> QED
    BY <2>1, <2>2, <2>3
<1>4. \A i \in 1 .. Len(Tail(q)) :
          i + 1 \in 1 .. Len(q) /\ i + 1 # 1 /\ Tail(q)[i] = q[i + 1] /\ i \in Int
  BY <1>1
<1>5. /\ \A x, y : Owned(x, y) => Owned(x, y)'
      /\ \A f : Airborne(f) => Airborne(f)'
  BY <1>0 DEF Owned, Airborne
<1>6. Holds(n)'
  <2>1. /\ caller[n] # NoMsg => /\ Owned(n, caller[n])
                                /\ \A i \in 1 .. Len(q) : q[i].tag # caller[n].tag
        /\ \A i \in 1 .. Len(q) : /\ Owned(n, q[i])
                                  /\ \A j \in 1 .. Len(q) : q[i].tag = q[j].tag => i = j
    BY DEF SentInv, Holds
  <2>2. Owned(n, m) /\ (caller[n] # NoMsg => m.tag # caller[n].tag)
    BY <1>2, <2>1
  <2>3. \A i \in 1 .. Len(Tail(q)) :
            /\ Owned(n, Tail(q)[i]) /\ Tail(q)[i].tag # m.tag
            /\ caller[n] # NoMsg => Tail(q)[i].tag # caller[n].tag
            /\ \A j \in 1 .. Len(Tail(q)) : Tail(q)[i].tag = Tail(q)[j].tag => i = j
    <3> SUFFICES ASSUME NEW i \in 1 .. Len(Tail(q))
                 PROVE  /\ Owned(n, Tail(q)[i]) /\ Tail(q)[i].tag # m.tag
                        /\ caller[n] # NoMsg => Tail(q)[i].tag # caller[n].tag
                        /\ \A j \in 1 .. Len(Tail(q)) : Tail(q)[i].tag = Tail(q)[j].tag => i = j
      OBVIOUS
    <3> HIDE DEF q
    <3>1. ASSUME NEW j \in 1 .. Len(Tail(q)), Tail(q)[i].tag = Tail(q)[j].tag PROVE i = j
      <4>1. i + 1 = j + 1
        BY <1>4, <2>1, <3>1
      <4> QED
        BY <1>4, <4>1
    <3> QED
      BY <1>2, <1>4, <2>1, <3>1
  <2>4. v.pc \notin Made
    BY <1>3 DEF Made
  <2> HIDE DEF q, m
  <2> QED
    BY <1>0, <1>1, <1>3, <1>5, <2>1, <2>2, <2>3, <2>4 DEF Holds
<1>7. ASSUME NEW x \in Mac, x # n PROVE Holds(x)'
  BY <1>0, <1>5, <1>7 DEF SentInv, Holds
<1>8. ASSUME NEW f \in DataAir PROVE Airborne(f)' /\ Behind(f.src, f)'
  <2>1. Airborne(f) /\ Behind(f.src, f) /\ f.src \in Mac
    BY DEF SentInv, DataAir, TypeInv, TypeOK, Frame
  <2>2. CASE f.src = n
    <3>1. (caller[n] # NoMsg => caller[n].tag # f.tag) /\ \A i \in 1 .. Len(q) : q[i].tag # f.tag
      BY <2>1, <2>2 DEF Behind
    <3>2. v.msg.tag # f.tag /\ \A i \in 1 .. Len(Tail(q)) : Tail(q)[i].tag # f.tag
      BY <1>2, <1>3, <1>4, <3>1
    <3> HIDE DEF q
    <3> QED
      BY <1>0, <1>1, <1>5, <2>1, <2>2, <3>1, <3>2 DEF Behind
  <2>3. CASE f.src # n
    BY <1>0, <1>5, <2>1, <2>3 DEF Behind
  <2> QED
    BY <2>2, <2>3
<1>9. DataAir' = DataAir
  BY <1>0 DEF DataAir
<1> QED
  BY <1>0, <1>6, <1>7, <1>8, <1>9 DEF SentInv

LEMMA MoveSent ==
    ASSUME TypeInv, SentInv, NEW n \in Mac, network_task(n), ~ NetTake(n)
    PROVE  SentInv'
<1> DEFINE w == net[n]
           v == net'[n]
<1>0. /\ UNCHANGED <<caller, sends, given, network_queue>>
      /\ \A x \in Mac : x # n => net'[x] = net[x]
  BY NetLeaves
<1>1. /\ w.pc # "idle"
      /\ \/ /\ w.pc \in {"prepare", "wait"} /\ v.pc \in {"prepare", "return"}
            /\ v.msg = w.msg /\ v.i = w.i + 1
         \/ /\ w.pc = "prepare" /\ v.pc = "expect_id"
            /\ v.msg = w.msg /\ v.i = w.i
            /\ v.pkt = Fragment(n)
         \/ /\ w.pc \in Made /\ v.pc \in Made
            /\ v.msg = w.msg /\ v.i = w.i
            /\ v.pkt = w.pkt
         \/ v.pc = "idle"
      /\ \/ air' = air
         \/ w.pc = "transmit" /\ v.pc = "wait" /\ air' = air \cup {w.pkt}
  BY NetMoves
<1>2. /\ w.pc # "idle" => w.msg \in Message
      /\ w.pc \in Made => w.i < w.msg.total /\ w.pkt \in Frame /\ w.pkt.type # "ACK"
      /\ w.i \in Int
  BY DEF TypeInv, TypeOK, Holding, NetState, Made
<1>3. Holds(n) /\ Owned(n, w.msg)
  BY <1>1 DEF SentInv, Holds
<1>5. /\ \A x, y : Owned(x, y) => Owned(x, y)'
      /\ \A f : Airborne(f) => Airborne(f)'
  BY <1>0 DEF Owned, Airborne
<1>6. Holds(n)'
  <2>1. v.pc # "idle" => v.msg = w.msg
    BY <1>1
  <2>2. ASSUME v.pc \in Made
        PROVE  /\ v.pkt.src = n /\ v.pkt.dst = v.msg.target
               /\ v.pkt.tag = v.msg.tag /\ v.pkt.seq = v.i
    <3>1. CASE v.msg = w.msg /\ v.i = w.i /\ v.pkt = Fragment(n)
      BY <3>1 DEF Fragment
    <3>2. CASE w.pc \in Made /\ v.msg = w.msg /\ v.i = w.i /\ v.pkt = w.pkt
      BY <1>3, <3>2 DEF Holds
    <3> QED
      BY <1>1, <2>2, <3>1, <3>2 DEF Made
  <2> QED
    BY <1>0, <1>1, <1>3, <1>5, <2>1, <2>2 DEF Holds
<1>7. ASSUME NEW x \in Mac, x # n PROVE Holds(x)'
  BY <1>0, <1>5, <1>7 DEF SentInv, Holds
<1>8. ASSUME NEW f \in DataAir PROVE Airborne(f)' /\ Behind(f.src, f)'
  <2>1. Airborne(f) /\ Behind(f.src, f) /\ f.src \in Mac /\ f.seq \in Int
    BY ConstantsLemma DEF SentInv, DataAir, TypeInv, TypeOK, Frame, Constants
  <2>2. CASE f.src = n
    <3>1. ASSUME v.pc # "idle", v.msg.tag = f.tag
          PROVE  f.seq < v.i \/ (v.pc \in Made /\ f = v.pkt)
      <4>1. f.seq < w.i \/ (w.pc \in Made /\ f = w.pkt)
        BY <1>1, <2>1, <2>2, <3>1 DEF Behind
      <4>2. w.pc \in Made => w.pkt.seq = w.i
        BY <1>3 DEF Holds
      <4>3. w.pc = "prepare" => w.pc \notin Made
        BY DEF Made
      <4> QED
        BY <1>1, <1>2, <2>1, <3>1, <4>1, <4>2, <4>3
    <3> QED
      BY <1>0, <1>5, <2>1, <2>2, <3>1 DEF Behind
  <2>3. CASE f.src # n
    BY <1>0, <1>5, <2>1, <2>3 DEF Behind
  <2> QED
    BY <2>2, <2>3
<1>9. CASE air' = air
  <2>1. DataAir' = DataAir
    BY <1>9 DEF DataAir
  <2> QED
    BY <1>0, <1>6, <1>7, <1>8, <2>1 DEF SentInv
<1>10. CASE w.pc = "transmit" /\ v.pc = "wait" /\ air' = air \cup {w.pkt}
  <2>0. w.pc \in Made /\ v.pc \in Made
    BY <1>10 DEF Made
  <2>1. /\ w.pkt.src = n /\ w.pkt.dst = w.msg.target
        /\ w.pkt.tag = w.msg.tag /\ w.pkt.seq = w.i /\ w.pkt.type # "ACK"
    BY <1>2, <1>3, <2>0 DEF Holds
  <2>2. DataAir' = DataAir \cup {w.pkt}
    BY <1>10, <2>1 DEF DataAir
  <2>3. Airborne(w.pkt)
    BY <1>2, <1>3, <2>0, <2>1 DEF Airborne, Owned
  <2>4. v.msg = w.msg /\ v.pkt = w.pkt
    BY <1>1, <1>10 DEF Made
  <2>5. ASSUME NEW p, p = w.pkt PROVE Airborne(p)' /\ Behind(p.src, p)'
    <3>1. /\ caller[n] # NoMsg => caller[n].tag # w.msg.tag
          /\ \A i \in 1 .. Len(network_queue[n]) : network_queue[n][i].tag # w.msg.tag
      BY <1>1, <1>3 DEF Holds
    <3>2. Airborne(p)'
      BY <1>5, <2>3, <2>5
    <3>3. Behind(n, p)'
      BY <1>0, <2>0, <2>1, <2>4, <2>5, <3>1 DEF Behind
    <3> QED
      BY <2>1, <2>5, <3>2, <3>3
  <2>6. ASSUME NEW f \in DataAir, f.tag = w.pkt.tag, f.seq = w.pkt.seq
        PROVE  f = w.pkt
    <3>1. Airborne(f) /\ Behind(f.src, f)
      BY DEF SentInv
    <3>2. f.src = n
      BY <1>3, <2>1, <2>6, <3>1 DEF Airborne, Owned
    <3>3. f.seq < w.i \/ f = w.pkt
      BY <1>1, <2>1, <2>6, <3>1, <3>2 DEF Behind
    <3> QED
      BY <1>2, <2>1, <2>6, <3>3
  <2>7. \A f, g \in DataAir' : f.tag = g.tag /\ f.seq = g.seq => f = g
    BY <2>2, <2>6 DEF SentInv
  <2>8. \A f \in DataAir' : Airborne(f)' /\ Behind(f.src, f)'
    BY <1>8, <2>2, <2>5
  <2> QED
    BY <1>0, <1>6, <1>7, <2>7, <2>8 DEF SentInv
<1> QED
  BY <1>1, <1>9, <1>10

LEMMA NextSent == TypeInv /\ SentInv /\ [Next]_vars => SentInv'
<1> SUFFICES ASSUME TypeInv, SentInv, [Next]_vars PROVE SentInv'
  OBVIOUS
<1>1. CASE UNCHANGED <<caller, sends, given, network_queue, net>> /\ DataAir' = DataAir
  BY <1>1 DEF SentInv, Holds, Owned, Airborne, Behind
<1>2. ASSUME NEW n \in Mac, Application(n)
      PROVE  SentInv'
  <2>1. CASE set_network_master_key(n)
    BY <1>1, <2>1 DEF set_network_master_key, netVars, DataAir
  <2> QED
    BY <1>2, <2>1, SendSent, QueueSent DEF Application
<1>3. ASSUME NEW n \in Mac, network_task(n)
      PROVE  SentInv'
  BY <1>3, TakeSent, MoveSent
<1>4. ASSUME NEW n \in Mac, crypto_task(n)
      PROVE  SentInv'
  <2>1. UNCHANGED <<caller, sends, given, network_queue, net>>
    BY <1>4 DEF crypto_task, CryptoDrop, CryptoAck, CryptoData, CryptoCompareId, CryptoCompareSeq,
                CryptoNotify, CryptoFinish, appVars, netVars
  <2>2. air' = air \/ \E f : air' = air \cup {AckFor(f)}
    BY <1>4 DEF crypto_task, CryptoDrop, CryptoAck, CryptoData, CryptoCompareId, CryptoCompareSeq,
                CryptoNotify, CryptoFinish
  <2>3. DataAir' = DataAir
    BY <2>2 DEF DataAir, AckFor
  <2> QED
    BY <1>1, <2>1, <2>3
<1>5. ASSUME NEW n \in Mac, Reboot(n)
      PROVE  SentInv'
  <2>1. UNCHANGED <<sends, given, air>> /\ DataAir' = DataAir
    BY <1>5 DEF Reboot, DataAir
  <2>2. /\ \A x \in Mac : x # n => /\ caller'[x] = caller[x] /\ net'[x] = net[x]
                                   /\ network_queue'[x] = network_queue[x]
        /\ caller'[n] = NoMsg /\ network_queue'[n] = <<>> /\ net'[n] = IdleNet
    BY <1>5 DEF Reboot, TypeInv, TypeOK
  <2>3. \A i : i \notin 1 .. Len(<<>>)
    OBVIOUS
  <2>4. IdleNet.pc = "idle" /\ IdleNet.pc \notin Made
    BY IdleLemma DEF Made
  <2>5. Holds(n)'
    BY <2>2, <2>3, <2>4 DEF Holds
  <2>6. ASSUME NEW x \in Mac, x # n PROVE Holds(x)'
    BY <2>1, <2>2, <2>6 DEF SentInv, Holds, Owned
  <2>7. ASSUME NEW f \in DataAir PROVE Airborne(f)' /\ Behind(f.src, f)'
    <3>1. Airborne(f) /\ Behind(f.src, f) /\ f.src \in Mac
      BY DEF SentInv, DataAir, TypeInv, TypeOK, Frame
    <3>2. Airborne(f)'
      BY <2>1, <3>1 DEF Airborne
    <3>3. CASE f.src = n
      BY <2>2, <2>3, <2>4, <3>2, <3>3 DEF Behind
    <3>4. CASE f.src # n
      BY <2>2, <3>1, <3>2, <3>4 DEF Behind
    <3> QED
      BY <3>3, <3>4
  <2> QED
    BY <2>1, <2>5, <2>6, <2>7 DEF SentInv
<1>6. ASSUME NEW f \in air, on_data_recv(f)
      PROVE  SentInv'
  BY <1>1, <1>6 DEF on_data_recv, appVars, netVars, DataAir
<1>7. CASE UNCHANGED vars
  BY <1>1, <1>7 DEF vars, appVars, netVars, DataAir
<1> QED
  BY <1>2, <1>3, <1>4, <1>5, <1>6, <1>7 DEF Next

\* A fragment that crypto_task stores is one of a message for this node, and not stored yet.
LEMMA StoresOnce ==
    ASSUME TypeInv, OnceInv, AckInv, SentInv, HeardInv, NEW n \in Mac, CryptoData(n)
    PROVE  LET f == Head(recv_queue[n])
           IN  /\ f \in DataAir /\ f \in Frame /\ Passes(n, f) /\ Register(n, f)
               /\ f.dst = n
               /\ <<f.tag, f.seq>> \in Fragments
               /\ stored[n][<<f.tag, f.seq>>] = 0
<1> DEFINE f == Head(recv_queue[n])
<1>1. recv_queue[n] \in Seq(Frame) /\ recv_queue[n] # <<>>
  BY DEF CryptoData, TypeInv, TypeOK
<1>2. f \in Frame /\ f = recv_queue[n][1] /\ 1 \in 1 .. Len(recv_queue[n])
  BY <1>1
<1>3. Passes(n, f) /\ Register(n, f) /\ f.type = "DATA"
  BY DEF CryptoData
<1>4. f.dst = n /\ f \in DataAir
  BY <1>2, <1>3 DEF AckInv, Addressed, HeardInv, DataAir
<1> HIDE DEF f
<1>p. <<f.tag, f.seq>> \in Fragments
  <2>1. f.tag \in 1 .. sends /\ f.seq \in 0 .. MaxTotal - 1
    BY <1>2, <1>4 DEF SentInv, Airborne, Frame
  <2>2. f.tag \in 1 .. MaxSends
    BY <2>1, ConstantsLemma DEF TypeInv, TypeOK, Constants
  <2> QED
    BY <2>1, <2>2 DEF Fragments
<1>5. ASSUME stored[n][<<f.tag, f.seq>>] # 0 PROVE FALSE
  <2>1. PICK g \in DataAir : /\ <<g.tag, g.seq>> = <<f.tag, f.seq>> /\ g.dst = n
                             /\ passed[n][g.src][g.id] # 0
    BY <1>p, <1>5 DEF HeardInv, Vouched
  <2>2. g.tag = f.tag /\ g.seq = f.seq
    BY <2>1
  <2>3. g = f
    BY <1>4, <2>2 DEF SentInv
  <2> QED
    BY <1>2, <1>3, <2>1, <2>3, PassesOnce
<1> QED
  BY <1>2, <1>3, <1>4, <1>p, <1>5 DEF f

\* Whatever passed stays so until the node reboots.
LEMMA StillPassed ==
    ASSUME TypeInv, NEW n \in Mac, NEW f \in Frame, Register(n, f)
    PROVE  /\ passed'[n][f.src][f.id] # 0
           /\ \A x, m \in Mac : \A id \in MsgId : passed[x][m][id] # 0 => passed'[x][m][id] # 0
<1>1. passed \in [Mac -> [Mac -> [MsgId -> 0 .. 2]]] /\ f.src \in Mac /\ f.id \in MsgId
  BY DEF TypeInv, TypeOK, Frame
<1>2. PICK k \in {1, 2} : passed' = [passed EXCEPT ![n][f.src][f.id] = k]
  BY DEF Register
<1>3. \A x, m \in Mac : \A id \in MsgId :
          passed'[x][m][id] = IF x = n /\ m = f.src /\ id = f.id THEN k ELSE passed[x][m][id]
  BY <1>1, <1>2
<1> QED
  BY <1>1, <1>3

LEMMA VouchedStays ==
    ASSUME TypeInv, NEW n \in Mac, NEW p, Vouched(n, p), air \subseteq air',
           \A m \in Mac : \A id \in MsgId : passed[n][m][id] # 0 => passed'[n][m][id] # 0
    PROVE  Vouched(n, p)'
<1>1. PICK f \in DataAir : <<f.tag, f.seq>> = p /\ f.dst = n /\ passed[n][f.src][f.id] # 0
  BY DEF Vouched
<1>2. f \in DataAir' /\ f.src \in Mac /\ f.id \in MsgId
  BY DEF DataAir, TypeInv, TypeOK, Frame
<1> QED
  BY <1>1, <1>2 DEF Vouched

LEMMA CryptoHeard ==
    ASSUME TypeInv, OnceInv, AckInv, SentInv, HeardInv, NEW n \in Mac, crypto_task(n)
    PROVE  HeardInv'
<1>0. /\ recv_queue \in [Mac -> Seq(Frame)] /\ recv_queue[n] \in Seq(Frame)
      /\ stored \in [Mac -> [Fragments -> 0 .. 2]]
      /\ \A x \in Mac : \A i \in 1 .. Len(recv_queue[x]) : recv_queue[x][i] \in air
      /\ \A x \in Mac : \A p \in Fragments : stored[x][p] # 0 => Vouched(x, p)
  BY DEF TypeInv, TypeOK, HeardInv
<1>1. air \subseteq air'
  BY DEF crypto_task, CryptoDrop, CryptoAck, CryptoData, CryptoCompareId, CryptoCompareSeq,
         CryptoNotify, CryptoFinish
<1>2. \A x \in Mac : \A i \in 1 .. Len(recv_queue'[x]) : recv_queue'[x][i] \in air'
  <2>1. CASE UNCHANGED recv_queue
    BY <1>0, <1>1, <2>1
  <2>2. CASE recv_queue[n] # <<>> /\ recv_queue' = [recv_queue EXCEPT ![n] = Tail(@)]
    <3>1. \A i \in 1 .. Len(Tail(recv_queue[n])) :
              /\ Tail(recv_queue[n])[i] = recv_queue[n][i + 1]
              /\ i + 1 \in 1 .. Len(recv_queue[n])
      BY <1>0, <2>2
    <3>2. \A i \in 1 .. Len(Tail(recv_queue[n])) : Tail(recv_queue[n])[i] \in air
      BY <1>0, <3>1
    <3> QED
      BY <1>0, <1>1, <2>2, <3>2
  <2> QED
    BY <2>1, <2>2 DEF crypto_task, CryptoDrop, CryptoAck, CryptoData, CryptoCompareId,
                      CryptoCompareSeq, CryptoNotify, CryptoFinish
<1>3. ASSUME NEW f \in Frame, Register(n, f), NEW x \in Mac, NEW p, Vouched(x, p)
      PROVE  Vouched(x, p)'
  BY <1>1, <1>3, StillPassed, VouchedStays
<1>4. ASSUME stored' = stored,
             \A x \in Mac : \A p \in Fragments : Vouched(x, p) => Vouched(x, p)'
      PROVE  HeardInv'
  BY <1>0, <1>2, <1>4 DEF HeardInv
<1>5. CASE CryptoData(n)
  <2>f. PICK f, s : f = Head(recv_queue[n]) /\ s = <<f.tag, f.seq>>
    OBVIOUS
  <2>1. /\ f \in DataAir /\ f \in Frame /\ Register(n, f) /\ f.dst = n
    BY <1>5, <2>f, StoresOnce
  <2>2. PICK k \in {1, 2} : stored' = stored \/ stored' = [stored EXCEPT ![n][s] = k]
    BY <1>5, <2>f DEF CryptoData
  <2>3. f \in DataAir'
    BY <1>1, <2>1 DEF DataAir
  <2>4. passed'[n][f.src][f.id] # 0
    BY <2>1, StillPassed
  <2>5. Vouched(n, s)'
    BY <2>1, <2>3, <2>4, <2>f DEF Vouched
  <2>6. ASSUME NEW x \in Mac, NEW p \in Fragments, stored'[x][p] # 0
        PROVE  Vouched(x, p)'
    <3>1. stored[x][p] # 0 \/ (x = n /\ p = s)
      BY <1>0, <2>2, <2>6
    <3> QED
      BY <1>0, <1>3, <2>1, <2>5, <3>1
  <2> QED
    BY <1>2, <2>6 DEF HeardInv
<1>6. CASE CryptoAck(n)
  <2>1. Head(recv_queue[n]) \in Frame /\ Register(n, Head(recv_queue[n])) /\ stored' = stored
    BY <1>0, <1>6 DEF CryptoAck
  <2> QED
    BY <1>3, <1>4, <2>1
<1>7. CASE UNCHANGED <<stored, passed>>
  <2>1. \A x \in Mac : \A p : Vouched(x, p) => Vouched(x, p)'
    BY <1>1, <1>7, VouchedStays
  <2> QED
    BY <1>4, <1>7, <2>1
<1>8. CryptoData(n) \/ CryptoAck(n) \/ UNCHANGED <<stored, passed>>
  BY DEF crypto_task, CryptoDrop, CryptoCompareId, CryptoCompareSeq, CryptoNotify, CryptoFinish
<1> QED
  BY <1>5, <1>6, <1>7, <1>8

LEMMA NextHeard ==
    TypeInv /\ OnceInv /\ AckInv /\ SentInv /\ HeardInv /\ [Next]_vars => HeardInv'
<1> SUFFICES ASSUME TypeInv, OnceInv, AckInv, SentInv, HeardInv, [Next]_vars PROVE HeardInv'
  OBVIOUS
<1>0. /\ recv_queue \in [Mac -> Seq(Frame)] /\ air \subseteq Frame
      /\ \A x \in Mac : \A i \in 1 .. Len(recv_queue[x]) : recv_queue[x][i] \in air
      /\ \A x \in Mac : \A p \in Fragments : stored[x][p] # 0 => Vouched(x, p)
  BY DEF TypeInv, TypeOK, HeardInv
<1>1. ASSUME UNCHANGED <<stored, passed>>, air \subseteq air',
             \A x \in Mac : \A i \in 1 .. Len(recv_queue'[x]) : recv_queue'[x][i] \in air'
      PROVE  HeardInv'
  <2>1. \A x \in Mac : \A p : Vouched(x, p) => Vouched(x, p)'
    BY <1>1, VouchedStays
  <2> QED
    BY <1>0, <1>1, <2>1 DEF HeardInv
<1>2. CASE UNCHANGED <<stored, passed, recv_queue>> /\ air \subseteq air'
  BY <1>0, <1>1, <1>2
<1>3. ASSUME NEW n \in Mac, Application(n)
      PROVE  UNCHANGED <<stored, passed, recv_queue, air>>
  BY <1>3 DEF Application, set_network_master_key, send_reliable, send_reliable_queue, cryptoVars
<1>4. ASSUME NEW n \in Mac, network_task(n)
      PROVE  UNCHANGED <<stored, passed, recv_queue>> /\ air \subseteq air'
  BY <1>4 DEF network_task, NetTake, NetPrepare, NetExpectId, NetExpectSeq, NetTransmit,
              NetNotified, NetTimeout, NetReturn, cryptoVars
<1>5. ASSUME NEW n \in Mac, Reboot(n)
      PROVE  HeardInv'
  <2>1. /\ air' = air
        /\ \A x \in Mac : x # n => /\ recv_queue'[x] = recv_queue[x]
                                   /\ stored'[x] = stored[x] /\ passed'[x] = passed[x]
        /\ recv_queue'[n] = <<>> /\ stored'[n] = NothingStored
    BY <1>5 DEF Reboot, TypeInv, TypeOK
  <2>2. \A i : i \notin 1 .. Len(<<>>)
    OBVIOUS
  <2>3. ASSUME NEW x \in Mac, x # n, NEW p, Vouched(x, p) PROVE Vouched(x, p)'
    BY <2>1, <2>3, VouchedStays
  <2>4. \A p \in Fragments : stored'[n][p] = 0
    BY <2>1 DEF NothingStored
  <2> QED
    BY <1>0, <2>1, <2>2, <2>3, <2>4 DEF HeardInv
<1>6. ASSUME NEW f \in air, on_data_recv(f)
      PROVE  HeardInv'
  <2>1. /\ f \in Frame /\ f.dst \in Mac /\ UNCHANGED <<stored, passed, air>>
        /\ recv_queue' = [recv_queue EXCEPT ![f.dst] = Append(@, f)]
    BY <1>0, <1>6 DEF on_data_recv, cryptoVars, Frame
  <2> DEFINE q == recv_queue[f.dst]
  <2>2. q \in Seq(Frame)
    BY <1>0, <2>1
  <2>3. \A i \in 1 .. Len(Append(q, f)) : Append(q, f)[i] = f \/
            (i \in 1 .. Len(q) /\ Append(q, f)[i] = q[i])
    BY <2>1, <2>2
  <2>4. \A i \in 1 .. Len(Append(q, f)) : Append(q, f)[i] \in air
    BY <1>0, <2>1, <2>3
  <2>5. \A x \in Mac : \A i \in 1 .. Len(recv_queue'[x]) : recv_queue'[x][i] \in air'
    BY <1>0, <2>1, <2>4
  <2> QED
    BY <1>1, <2>1, <2>5
<1>7. CASE UNCHANGED vars
  BY <1>2, <1>7 DEF vars, cryptoVars
<1> QED
  BY <1>2, <1>3, <1>4, <1>5, <1>6, <1>7, CryptoHeard DEF Next

----

\* A step of Messenger is one of Delivery, or one Delivery does not see.
LEMMA DeliveryStep ==
    TypeInv /\ OnceInv /\ AckInv /\ SentInv /\ HeardInv /\ [Next]_vars
        => [D!Next]_<<given, stored>>
<1> SUFFICES ASSUME TypeInv, OnceInv, AckInv, SentInv, HeardInv, [Next]_vars
             PROVE  D!Next \/ UNCHANGED <<given, stored>>
  OBVIOUS
<1>1. ASSUME NEW n \in Mac, send_reliable(n)
      PROVE  D!Next
  <2>1. PICK target \in Mac \ {n}, total \in 0 .. MaxTotal :
            given' = [given EXCEPT ![sends + 1] = [from |-> n, to |-> target, total |-> total]]
    BY <1>1 DEF send_reliable
  <2>2. sends + 1 \in 1 .. MaxSends /\ sends + 1 > sends
    BY <1>1, GivenLater
  <2>3. given[sends + 1] = NoMsg /\ UNCHANGED stored
    BY <1>1, <2>2 DEF SentInv, send_reliable, cryptoVars
  <2>4. D!Send(sends + 1)
    BY <2>1, <2>3 DEF D!Send
  <2> QED
    BY <2>2, <2>4 DEF D!Next
<1>2. ASSUME NEW n \in Mac, CryptoData(n), ~ UNCHANGED stored
      PROVE  D!Next
  <2> DEFINE f == Head(recv_queue[n])
  <2>1. /\ f \in DataAir /\ f \in Frame /\ f.dst = n
        /\ <<f.tag, f.seq>> \in Fragments /\ stored[n][<<f.tag, f.seq>>] = 0
    BY <1>2, StoresOnce
  <2>2. stored' = [stored EXCEPT ![n][<<f.tag, f.seq>>] = 1] /\ UNCHANGED given
    BY <1>2, <2>1 DEF CryptoData, appVars
  <2> HIDE DEF f
  <2>3. Airborne(f)
    BY <2>1 DEF SentInv
  <2>4. f.tag \in 1 .. MaxSends /\ f.seq \in 0 .. MaxTotal - 1
    BY <2>1, <2>3, ConstantsLemma DEF Airborne, Frame, TypeInv, TypeOK, Constants
  <2>5. given[f.tag].to = n /\ f.seq < given[f.tag].total
    BY <2>1, <2>3 DEF Airborne
  <2>6. given[f.tag] # NoMsg
    <3>1. f.seq \in Nat
      BY <2>4
    <3>2. NoMsg.total = 0
      BY DEF NoMsg
    <3> QED
      BY <2>5, <3>1, <3>2
  <2>7. D!Deliver(f.tag, f.seq)
    BY <2>1, <2>2, <2>5, <2>6 DEF D!Deliver
  <2> QED
    BY <2>4, <2>7 DEF D!Next
<1>3. ASSUME NEW n \in Mac, Reboot(n)
      PROVE  D!Next
  BY <1>3 DEF Reboot, D!Restart, D!Next, NothingStored, Fragments, D!NothingStored, D!Fragments
<1>4. ASSUME NEW n \in Mac, Application(n), ~ send_reliable(n)
      PROVE  UNCHANGED <<given, stored>>
  BY <1>4 DEF Application, set_network_master_key, send_reliable_queue, cryptoVars
<1>5. ASSUME NEW n \in Mac, network_task(n)
      PROVE  UNCHANGED <<given, stored>>
  BY <1>5 DEF network_task, NetTake, NetPrepare, NetExpectId, NetExpectSeq, NetTransmit,
              NetNotified, NetTimeout, NetReturn, appVars, cryptoVars
<1>6. ASSUME NEW n \in Mac, crypto_task(n), ~ CryptoData(n)
      PROVE  UNCHANGED <<given, stored>>
  BY <1>6 DEF crypto_task, CryptoDrop, CryptoAck, CryptoCompareId, CryptoCompareSeq, CryptoNotify,
              CryptoFinish, appVars
<1>7. ASSUME NEW n \in Mac, CryptoData(n)
      PROVE  UNCHANGED given
  BY <1>7 DEF CryptoData, appVars
<1>8. ASSUME NEW f \in air, on_data_recv(f)
      PROVE  UNCHANGED <<given, stored>>
  BY <1>8 DEF on_data_recv, appVars, cryptoVars
<1>9. CASE UNCHANGED vars
  BY <1>9 DEF vars, appVars, cryptoVars
<1> QED
  BY <1>1, <1>2, <1>3, <1>4, <1>5, <1>6, <1>7, <1>8, <1>9 DEF Next

\* For any number of nodes, messages, fragments, tries and reboots, whatever the medium
\* does: what is stored is what was given to send_reliable for this node, each fragment once.
THEOREM DeliveryRefined == Spec => ImplementsDelivery
<1>1. Init => D!Init
  BY DEF Init, D!Init, NothingStored, Fragments, D!NothingStored, D!Fragments
<1>2. Init => SentInv /\ HeardInv
  <2> SUFFICES ASSUME Init PROVE SentInv /\ HeardInv
    OBVIOUS
  <2>1. /\ \A n \in Mac : /\ caller[n] = NoMsg /\ network_queue[n] = <<>> /\ net[n] = IdleNet
                          /\ recv_queue[n] = <<>> /\ stored[n] = NothingStored
        /\ air = {} /\ \A t \in 1 .. MaxSends : given[t] = NoMsg
    BY DEF Init
  <2>2. \A i : i \notin 1 .. Len(<<>>)
    OBVIOUS
  <2>3. IdleNet.pc = "idle" /\ IdleNet.pc \notin Made
    BY IdleLemma DEF Made
  <2>4. \A n \in Mac : Holds(n)
    BY <2>1, <2>2, <2>3 DEF Holds
  <2> QED
    BY <2>1, <2>2, <2>4 DEF SentInv, HeardInv, DataAir, NothingStored
<1>3. Init => OnceInv /\ AckInv
  BY DEF Init, NothingPassed, OnceInv, Remembered, OneFramePerId, AckInv, Addressed, AckMeansStored
<1> QED
  BY <1>1, <1>2, <1>3, TypeInvHolds, NextOnce, NextAcks, NextSent, NextHeard, DeliveryStep, PTL
  DEF Spec, ImplementsDelivery, D!Spec

----
(* The pools *)

\* A task between two buffers holds no content, and one with a buffer does.
HandsInv ==
    \A n \in Mac :
        /\ net[n].pc = "idle" <=> net[n].msg = NoMsg
        /\ crypto[n].pc = "idle" <=> crypto[n].frame = NoFrame

\* BoundedFifo counts with the Cardinality its instance has.
LEMMA SameCardinality ==
    \A n \in Mac : \A S : /\ SendPool(n)!Cardinality(S) = Cardinality(S)
                          /\ RecvPool(n)!Cardinality(S) = Cardinality(S)
BY DEF SendPool!Cardinality, RecvPool!Cardinality, Cardinality

\* The room BoundedFifo counts is that of the two pools.
LEMMA SendInUse ==
    ASSUME TypeInv, HandsInv, NEW n \in Mac
    PROVE  SendPool(n)!InUse = SendBuffers(n)
<1> DEFINE c == Cardinality({p \in {n} : [q \in {n} |-> caller[n]][p] # NoMsg})
           h == IF net[n].pc = "idle" THEN 0 ELSE 1
<1>1. c = IF caller[n] = NoMsg THEN 0 ELSE 1
  <2>1. CASE caller[n] = NoMsg
    <3>1. {p \in {n} : [q \in {n} |-> caller[n]][p] # NoMsg} = {}
      BY <2>1
    <3> QED
      BY <2>1, <3>1, FS_EmptySet
  <2>2. CASE caller[n] # NoMsg
    <3>1. {p \in {n} : [q \in {n} |-> caller[n]][p] # NoMsg} = {n}
      BY <2>2
    <3> QED
      BY <2>2, <3>1, FS_Singleton
  <2> QED
    BY <2>1, <2>2
<1>2. (IF net[n].msg = NoMsg THEN 0 ELSE 1) = h
  BY DEF HandsInv
<1>3. SendPool(n)!InUse = c + Len(network_queue[n]) + h
  BY <1>2, SameCardinality DEF SendPool!InUse
<1>4. SendBuffers(n) = Len(network_queue[n]) + h + c
  BY <1>1 DEF SendBuffers
<1>5. Len(network_queue[n]) \in Nat /\ h \in Nat /\ c \in Nat
  BY <1>1 DEF TypeInv, TypeOK
<1> HIDE DEF c, h
<1> QED
  BY <1>3, <1>4, <1>5

LEMMA RecvInUse ==
    ASSUME TypeInv, HandsInv, NEW n \in Mac
    PROVE  RecvPool(n)!InUse = RecvBuffers(n)
<1> DEFINE c == Cardinality({p \in {n} : [q \in {n} |-> NoFrame][p] # NoFrame})
           h == IF crypto[n].pc = "idle" THEN 0 ELSE 1
<1>1. c = 0
  <2>1. {p \in {n} : [q \in {n} |-> NoFrame][p] # NoFrame} = {}
    OBVIOUS
  <2> QED
    BY <2>1, FS_EmptySet
<1>2. (IF crypto[n].frame = NoFrame THEN 0 ELSE 1) = h
  BY DEF HandsInv
<1>3. RecvPool(n)!InUse = c + Len(recv_queue[n]) + h
  BY <1>2, SameCardinality DEF RecvPool!InUse
<1>4. RecvBuffers(n) = Len(recv_queue[n]) + h
  BY DEF RecvBuffers
<1>5. Len(recv_queue[n]) \in Nat /\ h \in Nat
  BY DEF TypeInv, TypeOK
<1> HIDE DEF c, h
<1> QED
  BY <1>1, <1>3, <1>4, <1>5

LEMMA SomeContent == NoMsg \notin Message /\ NoFrame \notin Frame
<1>1. NoMsg \notin Message
  BY DEF NoMsg, Message
<1>2. NoFrame \notin Frame
  BY DEF NoFrame, Frame
<1> QED
  BY <1>1, <1>2

LEMMA HandsInit == Init => HandsInv
<1> SUFFICES ASSUME Init, NEW n \in Mac
             PROVE  /\ net[n].pc = "idle" <=> net[n].msg = NoMsg
                    /\ crypto[n].pc = "idle" <=> crypto[n].frame = NoFrame
  BY DEF HandsInv
<1>1. net[n] = IdleNet /\ crypto[n] = IdleCrypto
  BY DEF Init
<1>2. IdleCrypto.pc = "idle" /\ IdleCrypto.frame = NoFrame
  BY DEF IdleCrypto
<1> QED
  BY <1>1, <1>2, IdleLemma

\* What the two pools of a node are made of.
LEMMA SendKept ==
    ASSUME NEW n \in Mac, caller'[n] = caller[n], network_queue'[n] = network_queue[n],
           net'[n].msg = net[n].msg
    PROVE  UNCHANGED SendPool(n)!fifoVars
BY DEF SendPool!fifoVars

LEMMA RecvKept ==
    ASSUME NEW n \in Mac, recv_queue'[n] = recv_queue[n], crypto'[n].frame = crypto[n].frame
    PROVE  UNCHANGED RecvPool(n)!fifoVars
BY DEF RecvPool!fifoVars

\* send_reliable begins to write, and commits when it queues its buffer.
LEMMA ApplicationServed ==
    ASSUME TypeInv, HandsInv, NEW n \in Mac, Application(n)
    PROVE  UNCHANGED SendPool(n)!fifoVars \/ SendPool(n)!Next
<1>0. caller \in [Mac -> Message \cup {NoMsg}] /\ network_queue \in [Mac -> Seq(Message)]
  BY DEF TypeInv, TypeOK
<1>1. CASE set_network_master_key(n)
  BY <1>1, SendKept DEF set_network_master_key, netVars
<1>2. CASE send_reliable(n)
  <2>1. PICK target \in Mac \ {n}, total \in 0 .. MaxTotal :
            caller' = [caller EXCEPT ![n] =
                          [target |-> target, total |-> total, tag |-> sends + 1]]
    BY <1>2 DEF send_reliable
  <2> DEFINE m == [target |-> target, total |-> total, tag |-> sends + 1]
  <2>2. sends + 1 \in 1 .. MaxSends
    BY <1>2, ConstantsLemma DEF TypeInv, TypeOK, send_reliable, Constants
  <2>3. m \in Message /\ caller'[n] = m /\ caller[n] = NoMsg
    BY <1>0, <1>2, <2>1, <2>2 DEF Message, send_reliable
  <2>4. SendPool(n)!InUse < SendPoolSize
    BY <1>2, SendInUse DEF send_reliable
  <2>5. network_queue' = network_queue /\ net' = net
    BY <1>2 DEF send_reliable, netVars
  <2> HIDE DEF m
  <2>6. SendPool(n)!Begin(n)
    BY <2>3, <2>4, <2>5 DEF SendPool!Begin
  <2> QED
    BY <2>6 DEF SendPool!Next
<1>3. CASE send_reliable_queue(n)
  <2>1. /\ caller[n] # NoMsg /\ caller'[n] = NoMsg
        /\ network_queue'[n] = Append(network_queue[n], caller[n]) /\ net' = net
    BY <1>0, <1>3 DEF send_reliable_queue, netVars
  <2>2. SendPool(n)!Commit(n)
    BY <2>1 DEF SendPool!Commit
  <2> QED
    BY <2>2 DEF SendPool!Next
<1> QED
  BY <1>1, <1>2, <1>3 DEF Application

\* network_task takes the oldest message and gives its buffer back when it is done.
LEMMA NetServed ==
    ASSUME TypeInv, HandsInv, NEW n \in Mac, network_task(n)
    PROVE  /\ UNCHANGED SendPool(n)!fifoVars \/ SendPool(n)!Next
           /\ net'[n].pc = "idle" <=> net'[n].msg = NoMsg
<1>0. net \in [Mac -> NetState] /\ network_queue \in [Mac -> Seq(Message)] /\ caller' = caller
  BY NetLeaves DEF TypeInv, TypeOK
<1>1. CASE NetTake(n)
  <2> DEFINE m == Head(network_queue[n])
  <2>1. network_queue[n] # <<>> /\ network_queue'[n] = Tail(network_queue[n]) /\ m \in Message
    BY <1>0, <1>1 DEF NetTake
  <2>2. net'[n].msg = m /\ net'[n].pc # "idle"
    <3> DEFINE pc == IF m.total = 0 THEN "return" ELSE "prepare"
               x == [IdleNet EXCEPT !.pc = pc, !.msg = m]
    <3>1. net'[n] = x
      BY <1>0, <1>1 DEF NetTake
    <3>2. pc \in {"prepare", "return"}
      OBVIOUS
    <3> HIDE DEF pc, m
    <3>3. x.pc = pc /\ x.msg = m
      BY <2>1, <3>2, TakenLemma
    <3> HIDE DEF x
    <3> QED
      BY <3>1, <3>2, <3>3
  <2>3. net[n].msg = NoMsg
    BY <1>1 DEF NetTake, HandsInv
  <2>4. SendPool(n)!Take
    BY <1>0, <2>1, <2>2, <2>3 DEF SendPool!Take
  <2> QED
    BY <2>1, <2>2, <2>4, SomeContent DEF SendPool!Next
<1>2. CASE NetReturn(n)
  <2>1. net[n].msg # NoMsg /\ net'[n].msg = NoMsg /\ net'[n].pc = "idle"
    BY <1>0, <1>2, IdleLemma DEF NetReturn, HandsInv
  <2>2. network_queue' = network_queue
    BY <1>2 DEF NetReturn
  <2>3. SendPool(n)!Done
    BY <1>0, <2>1, <2>2 DEF SendPool!Done
  <2> QED
    BY <2>1, <2>3 DEF SendPool!Next
<1>3. CASE ~ NetTake(n) /\ ~ NetReturn(n)
  <2>1. net[n].pc # "idle" /\ net'[n].pc # "idle" /\ net'[n].msg = net[n].msg
    BY <1>3, NetMoves DEF Made
  <2>2. network_queue' = network_queue
    BY <1>3, NetLeaves
  <2> QED
    BY <1>0, <2>1, <2>2, SendKept DEF HandsInv
<1> QED
  BY <1>1, <1>2, <1>3

\* crypto_task takes the oldest frame and gives its buffer back when it is done.
LEMMA CryptoServed ==
    ASSUME TypeInv, HandsInv, NEW n \in Mac, crypto_task(n)
    PROVE  /\ UNCHANGED RecvPool(n)!fifoVars \/ RecvPool(n)!Next
           /\ crypto'[n].pc = "idle" <=> crypto'[n].frame = NoFrame
<1>0. crypto \in [Mac -> CryptoState] /\ recv_queue \in [Mac -> Seq(Frame)]
  BY DEF TypeInv, TypeOK
<1>1. CASE CryptoDrop(n) \/ CryptoAck(n) \/ CryptoData(n)
  <2> DEFINE f == Head(recv_queue[n])
  <2>1. /\ recv_queue[n] # <<>> /\ recv_queue'[n] = Tail(recv_queue[n]) /\ f \in Frame
        /\ crypto[n].pc = "idle"
    BY <1>0, <1>1 DEF CryptoDrop, CryptoAck, CryptoData
  <2>2. crypto'[n].frame = f /\ crypto'[n].pc # "idle"
    BY <1>0, <1>1 DEF CryptoDrop, CryptoAck, CryptoData
  <2>3. crypto[n].frame = NoFrame
    BY <2>1 DEF HandsInv
  <2>4. RecvPool(n)!Take
    BY <2>1, <2>2, <2>3 DEF RecvPool!Take
  <2> QED
    BY <2>1, <2>2, <2>4, SomeContent DEF RecvPool!Next
<1>2. CASE CryptoFinish(n)
  <2>1. crypto[n].frame # NoFrame /\ crypto'[n].frame = NoFrame /\ crypto'[n].pc = "idle"
    BY <1>0, <1>2 DEF CryptoFinish, HandsInv, IdleCrypto
  <2>2. recv_queue' = recv_queue
    BY <1>2 DEF CryptoFinish
  <2>3. RecvPool(n)!Done
    BY <2>1, <2>2 DEF RecvPool!Done
  <2> QED
    BY <2>1, <2>3 DEF RecvPool!Next
<1>3. CASE CryptoCompareId(n) \/ CryptoCompareSeq(n) \/ CryptoNotify(n)
  <2>1. crypto[n].pc # "idle" /\ recv_queue' = recv_queue
    BY <1>3 DEF CryptoCompareId, CryptoCompareSeq, CryptoNotify
  <2>2. PICK pc \in {"compare_seq", "notify", "finish"} : crypto' = [crypto EXCEPT ![n].pc = pc]
    BY <1>3 DEF CryptoCompareId, CryptoCompareSeq, CryptoNotify
  <2>3. crypto'[n].pc = pc /\ crypto'[n].frame = crypto[n].frame
    BY <1>0, <2>2 DEF CryptoState
  <2> QED
    BY <2>1, <2>2, <2>3, RecvKept DEF HandsInv
<1> QED
  BY <1>1, <1>2, <1>3 DEF crypto_task

\* on_data_recv puts a frame in, if a buffer is left.
LEMMA ReceiveServed ==
    ASSUME TypeInv, HandsInv, NEW f \in air, on_data_recv(f), NEW n \in Mac
    PROVE  UNCHANGED RecvPool(n)!fifoVars \/ RecvPool(n)!Next
<1>1. f \in Frame /\ recv_queue \in [Mac -> Seq(Frame)] /\ crypto' = crypto
  BY DEF TypeInv, TypeOK, on_data_recv, cryptoVars
<1>2. CASE n = f.dst
  <2>1. recv_queue'[n] = Append(recv_queue[n], f) /\ RecvPool(n)!InUse < RecvPoolSize
    BY <1>1, <1>2, RecvInUse DEF on_data_recv
  <2>2. RecvPool(n)!Put(n)
    BY <1>1, <2>1 DEF RecvPool!Put
  <2> QED
    BY <2>2 DEF RecvPool!Next
<1>3. CASE n # f.dst
  <2>1. recv_queue'[n] = recv_queue[n]
    BY <1>1, <1>3 DEF on_data_recv
  <2> QED
    BY <1>1, <2>1, RecvKept
<1> QED
  BY <1>2, <1>3

\* A reset leaves both pools of its node as they were at boot.
LEMMA RebootServed ==
    ASSUME TypeInv, NEW n \in Mac, Reboot(n)
    PROVE  reboots' > reboots /\ SendPool(n)!Init' /\ RecvPool(n)!Init'
<1>1. reboots' = reboots + 1 /\ reboots \in Int
  BY ConstantsLemma DEF Reboot, TypeInv, TypeOK, Constants
<1>2. /\ caller'[n] = NoMsg /\ network_queue'[n] = <<>> /\ net'[n].msg = NoMsg
      /\ recv_queue'[n] = <<>> /\ crypto'[n].frame = NoFrame
  BY IdleLemma DEF Reboot, TypeInv, TypeOK, IdleCrypto
<1>3. SendPool(n)!Init'
  BY <1>2 DEF SendPool!Init
<1>4. RecvPool(n)!Init'
  BY <1>2 DEF RecvPool!Init
<1> QED
  BY <1>1, <1>3, <1>4

\* What a step of one node leaves alone at the others.
LEMMA OthersKept ==
    ASSUME TypeInv, NEW k \in Mac, Application(k) \/ network_task(k) \/ crypto_task(k) \/ Reboot(k),
           NEW n \in Mac, n # k
    PROVE  /\ caller'[n] = caller[n] /\ network_queue'[n] = network_queue[n] /\ net'[n] = net[n]
           /\ recv_queue'[n] = recv_queue[n] /\ crypto'[n] = crypto[n]
<1>0. /\ caller \in [Mac -> Message \cup {NoMsg}] /\ network_queue \in [Mac -> Seq(Message)]
      /\ net \in [Mac -> NetState] /\ recv_queue \in [Mac -> Seq(Frame)]
      /\ crypto \in [Mac -> CryptoState]
  BY DEF TypeInv, TypeOK
<1>1. CASE Application(k)
  BY <1>0, <1>1 DEF Application, set_network_master_key, send_reliable, send_reliable_queue,
                    netVars, cryptoVars
<1>2. CASE network_task(k)
  BY <1>0, <1>2, NetLeaves DEF network_task, NetTake, NetPrepare, NetExpectId, NetExpectSeq,
                               NetTransmit, NetNotified, NetTimeout, NetReturn, cryptoVars
<1>3. CASE crypto_task(k)
  BY <1>0, <1>3 DEF crypto_task, CryptoDrop, CryptoAck, CryptoData, CryptoCompareId,
                    CryptoCompareSeq, CryptoNotify, CryptoFinish, appVars, netVars
<1>4. CASE Reboot(k)
  BY <1>0, <1>4 DEF Reboot
<1> QED
  BY <1>1, <1>2, <1>3, <1>4

\* The pools of a node that the step is not about, or only the other task of it.
LEMMA ApplicationKeeps ==
    ASSUME NEW n \in Mac, Application(n)
    PROVE  net' = net /\ recv_queue' = recv_queue /\ crypto' = crypto
BY DEF Application, set_network_master_key, send_reliable, send_reliable_queue, netVars, cryptoVars

LEMMA NetKeeps ==
    ASSUME NEW n \in Mac, network_task(n)
    PROVE  recv_queue' = recv_queue /\ crypto' = crypto
BY DEF network_task, NetTake, NetPrepare, NetExpectId, NetExpectSeq, NetTransmit, NetNotified,
       NetTimeout, NetReturn, cryptoVars

LEMMA CryptoKeeps ==
    ASSUME NEW n \in Mac, crypto_task(n)
    PROVE  caller' = caller /\ network_queue' = network_queue /\ net' = net
BY DEF crypto_task, CryptoDrop, CryptoAck, CryptoData, CryptoCompareId, CryptoCompareSeq,
       CryptoNotify, CryptoFinish, appVars, netVars

Served(n) ==
    /\ UNCHANGED SendPool(n)!fifoVars \/ SendPool(n)!Next
    /\ UNCHANGED RecvPool(n)!fifoVars \/ RecvPool(n)!Next

\* A step of one node serves its own pools and leaves those of the others.
LEMMA NodeServed ==
    ASSUME TypeInv, HandsInv, NEW k \in Mac,
           Application(k) \/ network_task(k) \/ crypto_task(k) \/ Reboot(k),
           NEW n \in Mac
    PROVE  /\ \/ Served(n)
              \/ reboots' > reboots /\ SendPool(n)!Init' /\ RecvPool(n)!Init'
           /\ net'[n].pc = "idle" <=> net'[n].msg = NoMsg
           /\ crypto'[n].pc = "idle" <=> crypto'[n].frame = NoFrame
<1>0. /\ net[n].pc = "idle" <=> net[n].msg = NoMsg
      /\ crypto[n].pc = "idle" <=> crypto[n].frame = NoFrame
  BY DEF HandsInv
<1>1. CASE n # k
  BY <1>0, <1>1, OthersKept, SendKept, RecvKept DEF Served
<1>2. CASE n = k /\ Application(k)
  BY <1>0, <1>2, ApplicationServed, ApplicationKeeps, RecvKept DEF Served
<1>3. CASE n = k /\ network_task(k)
  BY <1>0, <1>3, NetServed, NetKeeps, RecvKept DEF Served
<1>4. CASE n = k /\ crypto_task(k)
  BY <1>0, <1>4, CryptoServed, CryptoKeeps, SendKept DEF Served
<1>5. CASE n = k /\ Reboot(k)
  <2>1. net'[n] = IdleNet /\ crypto'[n] = IdleCrypto
    BY <1>5 DEF Reboot, TypeInv, TypeOK
  <2>2. IdleCrypto.pc = "idle" /\ IdleCrypto.frame = NoFrame
    BY DEF IdleCrypto
  <2> QED
    BY <1>5, <2>1, <2>2, IdleLemma, RebootServed
<1> QED
  BY <1>1, <1>2, <1>3, <1>4, <1>5

LEMMA NextServed ==
    TypeInv /\ HandsInv /\ [Next]_vars
        => /\ HandsInv'
           /\ \A n \in Mac :
                  \/ Served(n)
                  \/ reboots' > reboots /\ SendPool(n)!Init' /\ RecvPool(n)!Init'
<1> SUFFICES ASSUME TypeInv, HandsInv, [Next]_vars, NEW n \in Mac
             PROVE  /\ \/ Served(n)
                       \/ reboots' > reboots /\ SendPool(n)!Init' /\ RecvPool(n)!Init'
                    /\ net'[n].pc = "idle" <=> net'[n].msg = NoMsg
                    /\ crypto'[n].pc = "idle" <=> crypto'[n].frame = NoFrame
  BY DEF HandsInv
<1>1. ASSUME NEW f \in air, on_data_recv(f)
      PROVE  /\ Served(n) /\ net' = net /\ crypto' = crypto
  <2>1. caller' = caller /\ network_queue' = network_queue /\ net' = net /\ crypto' = crypto
    BY <1>1 DEF on_data_recv, appVars, netVars, cryptoVars
  <2> QED
    BY <1>1, <2>1, ReceiveServed, SendKept DEF Served
<1>2. CASE UNCHANGED vars
  <2>1. /\ caller' = caller /\ network_queue' = network_queue /\ net' = net
        /\ recv_queue' = recv_queue /\ crypto' = crypto
    BY <1>2 DEF vars, appVars, netVars, cryptoVars
  <2> QED
    BY <2>1, SendKept, RecvKept DEF Served, HandsInv
<1> QED
  BY <1>1, <1>2, NodeServed DEF Next, HandsInv

\* For any number of nodes and any pool sizes, on a medium that does what it likes and with
\* resets at any time, a node uses its send pool and its receive pool as BoundedFifo has it.
THEOREM PoolsServed == Spec => PoolsAsPromised
<1>1. Init => \A n \in Mac : SendPool(n)!Init /\ RecvPool(n)!Init
  <2> SUFFICES ASSUME Init, NEW n \in Mac PROVE SendPool(n)!Init /\ RecvPool(n)!Init
    OBVIOUS
  <2>1. /\ caller[n] = NoMsg /\ network_queue[n] = <<>> /\ net[n].msg = NoMsg
        /\ recv_queue[n] = <<>> /\ crypto[n].frame = NoFrame
    BY IdleLemma DEF Init, IdleCrypto
  <2> QED
    BY <2>1 DEF SendPool!Init, RecvPool!Init
<1>2. TypeInv /\ HandsInv /\ [Next]_vars =>
          \A n \in Mac :
              \/ /\ UNCHANGED SendPool(n)!fifoVars \/ SendPool(n)!Next
                 /\ UNCHANGED RecvPool(n)!fifoVars \/ RecvPool(n)!Next
              \/ reboots' > reboots /\ SendPool(n)!Init' /\ RecvPool(n)!Init'
  BY NextServed DEF Served
<1> QED
  BY <1>1, <1>2, HandsInit, TypeInvHolds, NextServed, PTL DEF Spec, PoolsAsPromised
====
