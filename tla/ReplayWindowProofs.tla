---- MODULE ReplayWindowProofs ----
(***************************************************************************)
(* Theorems about ReplayWindow: type correctness, at-most-once acceptance, *)
(* and the refinement of AntiReplay, for every set of peers, every hash,   *)
(* every window width and every id range.                                  *)
(***************************************************************************)
EXTENDS ReplayWindow, TLAPS

\* A record in use sits in its owner's slot and has the bit of its newest id set.
OwnedRecords ==
    \A s \in Slots :
        peer_registry[s].mac # NoMac =>
            /\ SlotOf[peer_registry[s].mac] = s
            /\ 0 \in peer_registry[s].window

\* The masks agree with the history: inside the window a bit is set exactly
\* when its id was accepted, nothing above the newest id was accepted, and a
\* peer without a record has no history.
MasksMatchHistory ==
    \A m \in Mac : \A id \in MsgId :
        LET peer == peer_registry[SlotOf[m]]
        IN  IF peer.mac # m
            THEN grants[m][id] = 0
            ELSE /\ id > peer.last_msg_id => grants[m][id] = 0
                 /\ peer.last_msg_id - id \in Bits =>
                        (peer.last_msg_id - id \in peer.window <=> grants[m][id] # 0)

IInv == TypeOK /\ OwnedRecords /\ MasksMatchHistory /\ AcceptedAtMostOnce

----

\* Moving the mask keeps it a mask, sets the newest bit, and moves every
\* remembered id with it.
LEMMA AdvanceLemma ==
    ASSUME NEW peer \in PeerRecord, NEW id \in MsgId, id > peer.last_msg_id
    PROVE  /\ Advance(peer, id) \in PeerRecord
           /\ Advance(peer, id).mac = peer.mac
           /\ Advance(peer, id).last_msg_id = id
           /\ 0 \in Advance(peer, id).window
           /\ \A i \in MsgId :
                i # id /\ id - i \in Bits =>
                    (id - i \in Advance(peer, id).window
                        <=> peer.last_msg_id - i \in peer.window)
<1> DEFINE diff == id - peer.last_msg_id
           w == IF diff < WindowSize THEN ShiftLeft(peer.window, diff) \cup {0} ELSE {0}
<1>1. /\ peer.last_msg_id \in Nat /\ id \in Nat /\ WindowSize \in Nat \ {0}
      /\ diff \in Nat \ {0} /\ peer.window \subseteq Bits
  BY RecordAssumption, NoneAssumption DEF PeerRecord, MsgId
<1>2. w \in SUBSET Bits /\ 0 \in w
  BY <1>1 DEF ShiftLeft, Bits
<1>3. Advance(peer, id) = [mac |-> peer.mac, last_msg_id |-> id, window |-> w]
  <2>1. Advance(peer, id) = [peer EXCEPT !.window = w, !.last_msg_id = id]
    BY DEF Advance
  <2> HIDE DEF w
  <2> QED
    BY <2>1 DEF PeerRecord
<1>4. ASSUME NEW i \in MsgId, i # id, id - i \in Bits
      PROVE  id - i \in w <=> peer.last_msg_id - i \in peer.window
  <2>1. (id - i) - diff = peer.last_msg_id - i
    BY <1>1 DEF MsgId
  <2>2. id - i # 0
    BY <1>1, <1>4 DEF MsgId
  <2>3. CASE diff < WindowSize
    BY <1>4, <2>1, <2>2, <2>3 DEF ShiftLeft
  <2>4. CASE ~ (diff < WindowSize)
    <3>1. id - i # 0 => peer.last_msg_id - i \notin Bits
      BY <1>1, <1>4, <2>4 DEF Bits, MsgId
    <3> QED
      BY <1>1, <2>2, <2>4, <3>1
  <2> QED
    BY <2>3, <2>4
<1>5. Advance(peer, id) \in PeerRecord
  BY <1>2, <1>3 DEF PeerRecord
<1> QED
  BY <1>2, <1>3, <1>4, <1>5

\* The record an accepted call leaves: it belongs to the caller, its newest id
\* is at least the accepted one, and it remembers the accepted id next to what
\* it remembered before.
LEMMA UpdatedLemma ==
    ASSUME NEW peer \in PeerRecord, NEW m \in Mac, NEW id \in MsgId,
           Accepts(peer, m, id),
           peer.mac = m => 0 \in peer.window
    PROVE  LET new == Updated(peer, m, id)
           IN  /\ new \in PeerRecord
               /\ new.mac = m
               /\ 0 \in new.window
               /\ new.last_msg_id >= id
               /\ peer.mac = m => new.last_msg_id >= peer.last_msg_id
               /\ new.last_msg_id # id => peer.mac = m /\ new.last_msg_id = peer.last_msg_id
               /\ peer.mac # m => new.last_msg_id = id /\ new.window = {0}
               /\ new.last_msg_id - id \in Bits => new.last_msg_id - id \in new.window
               /\ peer.mac = m =>
                    \A i \in MsgId :
                        i # id /\ new.last_msg_id - i \in Bits =>
                            (new.last_msg_id - i \in new.window
                                <=> peer.last_msg_id - i \in peer.window)
<1>1. /\ peer.last_msg_id \in Nat /\ id \in Nat /\ WindowSize \in Nat \ {0}
      /\ 0 \in Bits /\ peer.window \subseteq Bits
  BY RecordAssumption, NoneAssumption DEF PeerRecord, MsgId, Bits
<1>2. CASE peer.mac # m
  <2>1. Updated(peer, m, id) = [mac |-> m, last_msg_id |-> id, window |-> {0}]
    BY <1>2 DEF Updated, TakeOver
  <2> QED
    BY <1>1, <1>2, <2>1 DEF PeerRecord
<1>3. CASE peer.mac = m /\ id > peer.last_msg_id
  <2>1. Updated(peer, m, id) = Advance(peer, id)
    BY <1>3 DEF Updated
  <2> QED
    BY <1>1, <1>3, <2>1, AdvanceLemma
<1>4. CASE peer.mac = m /\ ~ (id > peer.last_msg_id)
  <2> DEFINE d == peer.last_msg_id - id
  <2>1. d \in Bits
    BY <1>1, <1>4 DEF Accepts, Unmarked, Bits
  <2>2. Updated(peer, m, id)
            = [mac |-> m, last_msg_id |-> peer.last_msg_id, window |-> peer.window \cup {d}]
    BY <1>4 DEF Updated, Mark, PeerRecord
  <2>3. \A i \in MsgId : i # id => peer.last_msg_id - i # d
    BY <1>1 DEF MsgId
  <2> QED
    BY <1>1, <1>4, <2>1, <2>2, <2>3 DEF PeerRecord
<1> QED
  BY <1>2, <1>3, <1>4

----

LEMMA InitIInv == Init => IInv
<1> SUFFICES ASSUME Init PROVE IInv
  OBVIOUS
<1>1. TypeOK
  BY RecordAssumption, NoneAssumption DEF Init, TypeOK, ZeroRecord, NoGrants, PeerRecord, MsgId
<1>2. OwnedRecords /\ MasksMatchHistory /\ AcceptedAtMostOnce
  BY RecordAssumption, NoneAssumption DEF Init, OwnedRecords, MasksMatchHistory, AcceptedAtMostOnce,
                          ZeroRecord, NoGrants
<1> QED
  BY <1>1, <1>2 DEF IInv

LEMMA RestartIInv == Restart => IInv'
<1> SUFFICES ASSUME Restart PROVE IInv'
  OBVIOUS
<1>1. TypeOK'
  BY RecordAssumption, NoneAssumption DEF Restart, TypeOK, ZeroRecord, NoGrants, PeerRecord, MsgId
<1>2. OwnedRecords' /\ MasksMatchHistory' /\ AcceptedAtMostOnce'
  BY RecordAssumption, NoneAssumption DEF Restart, OwnedRecords, MasksMatchHistory, AcceptedAtMostOnce,
                          ZeroRecord, NoGrants
<1> QED
  BY <1>1, <1>2 DEF IInv

LEMMA CheckReplayIInv ==
    ASSUME IInv, NEW m \in Mac, NEW id \in MsgId, check_replay(m, id)
    PROVE  IInv'
<1> DEFINE s == SlotOf[m]
           peer == peer_registry[s]
           new == Updated(peer, m, id)
           took == peer.mac # m
<1>1. /\ s \in Slots /\ peer \in PeerRecord /\ m # NoMac
      /\ peer_registry \in [Slots -> PeerRecord]
      /\ grants \in [Mac -> [MsgId -> 0 .. 2]]
      /\ peer.mac = m => 0 \in peer.window
  BY RecordAssumption, NoneAssumption DEF IInv, TypeOK, OwnedRecords
<1>2. verdict' \in [mac : Mac, msg_id : MsgId, accepted : BOOLEAN]
  BY DEF check_replay, Accepts, Unmarked
<1>3. CASE ~ Accepts(peer, m, id)
  <2>1. peer_registry' = peer_registry /\ grants' = grants
    BY <1>3 DEF check_replay
  <2> QED
    BY <1>2, <2>1 DEF IInv, TypeOK, OwnedRecords, MasksMatchHistory, AcceptedAtMostOnce
<1>4. CASE Accepts(peer, m, id)
  <2>1. /\ peer_registry' = [peer_registry EXCEPT ![s] = new]
        /\ grants' = Count(m, id, took)
    BY <1>4 DEF check_replay
  <2>2. /\ new \in PeerRecord /\ new.mac = m /\ 0 \in new.window
        /\ new.last_msg_id >= id
        /\ peer.mac = m => new.last_msg_id >= peer.last_msg_id
        /\ peer.mac # m => new.last_msg_id = id /\ new.window = {0}
        /\ new.last_msg_id - id \in Bits => new.last_msg_id - id \in new.window
        /\ peer.mac = m =>
             \A i \in MsgId :
                i # id /\ new.last_msg_id - i \in Bits =>
                    (new.last_msg_id - i \in new.window
                        <=> peer.last_msg_id - i \in peer.window)
    BY <1>1, <1>4, UpdatedLemma
  <2>3. \A t \in Slots : peer_registry'[t] = IF t = s THEN new ELSE peer_registry[t]
    BY <1>1, <2>1
  <2>4. \A x \in Mac : x # m =>
            grants'[x] = IF took /\ SlotOf[x] = s THEN [i \in MsgId |-> 0] ELSE grants[x]
    BY <2>1 DEF Count
  <2>5. \A i \in MsgId :
            grants'[m][i] = IF i = id THEN IF took \/ grants[m][id] = 0 THEN 1 ELSE 2
                            ELSE IF took THEN 0 ELSE grants[m][i]
    BY <2>1 DEF Count
  <2>6. ~ took => grants[m][id] = 0
    <3> SUFFICES ASSUME ~ took PROVE grants[m][id] = 0
      OBVIOUS
    <3>1. peer.last_msg_id \in Nat /\ id \in Nat
      BY <1>1 DEF PeerRecord, MsgId
    <3>2. CASE id > peer.last_msg_id
      BY <3>2 DEF IInv, MasksMatchHistory
    <3>3. CASE ~ (id > peer.last_msg_id)
      <4>1. Unmarked(peer, id)
        BY <1>4, <3>3 DEF Accepts
      <4>2. peer.last_msg_id - id \in Bits /\ peer.last_msg_id - id \notin peer.window
        BY <3>1, <3>3, <4>1, RecordAssumption, NoneAssumption DEF Unmarked, Bits
      <4> QED
        BY <4>2 DEF IInv, MasksMatchHistory
    <3> QED
      BY <3>2, <3>3
  <2>7. TypeOK'
    <3>1. peer_registry' \in [Slots -> PeerRecord]
      BY <1>1, <2>1, <2>2
    <3>2. grants' \in [Mac -> [MsgId -> 0 .. 2]]
      BY <1>1, <2>1 DEF Count
    <3> QED
      BY <1>2, <3>1, <3>2 DEF TypeOK
  <2>8. OwnedRecords'
    BY <2>2, <2>3 DEF IInv, OwnedRecords
  <2>9. MasksMatchHistory'
    <3> SUFFICES ASSUME NEW x \in Mac, NEW i \in MsgId
                 PROVE  LET p == peer_registry'[SlotOf[x]]
                        IN  IF p.mac # x
                            THEN grants'[x][i] = 0
                            ELSE /\ i > p.last_msg_id => grants'[x][i] = 0
                                 /\ p.last_msg_id - i \in Bits =>
                                      (p.last_msg_id - i \in p.window <=> grants'[x][i] # 0)
      BY DEF MasksMatchHistory
    <3>1. CASE SlotOf[x] # s
      <4>1. x # m /\ SlotOf[x] \in Slots
        BY <3>1, RecordAssumption, NoneAssumption
      <4>2. grants'[x] = grants[x] /\ peer_registry'[SlotOf[x]] = peer_registry[SlotOf[x]]
        BY <2>3, <2>4, <3>1, <4>1
      <4> QED
        BY <4>2 DEF IInv, MasksMatchHistory
    <3>2. CASE SlotOf[x] = s /\ x # m
      <4>1. grants'[x][i] = 0
        <5>1. CASE took
          BY <2>4, <3>2, <5>1
        <5>2. CASE ~ took
          <6>1. grants[x][i] = 0
            BY <3>2, <5>2 DEF IInv, MasksMatchHistory
          <6> QED
            BY <2>4, <3>2, <5>2, <6>1
        <5> QED
          BY <5>1, <5>2
      <4> QED
        BY <1>1, <2>2, <2>3, <3>2, <4>1
    <3>3. CASE x = m
      <4>1. peer_registry'[SlotOf[x]] = new /\ new.mac = x
        BY <1>1, <2>2, <2>3, <3>3
      <4>2. /\ new.last_msg_id \in Nat /\ id \in Nat /\ i \in Nat
            /\ peer.last_msg_id \in Nat
        BY <1>1, <2>2 DEF PeerRecord, MsgId
      <4>3. i > new.last_msg_id => grants'[m][i] = 0
        <5> SUFFICES ASSUME i > new.last_msg_id PROVE grants'[m][i] = 0
          OBVIOUS
        <5>1. i # id
          BY <2>2, <4>2
        <5>2. CASE took
          BY <2>5, <5>1, <5>2
        <5>3. CASE ~ took
          <6>1. i > peer.last_msg_id
            BY <2>2, <4>2, <5>3
          <6>2. grants[m][i] = 0
            BY <5>3, <6>1 DEF IInv, MasksMatchHistory
          <6> QED
            BY <2>5, <5>1, <5>3, <6>2
        <5> QED
          BY <5>2, <5>3
      <4>4. ASSUME new.last_msg_id - i \in Bits
            PROVE  new.last_msg_id - i \in new.window <=> grants'[m][i] # 0
        <5>1. CASE i = id
          BY <2>2, <2>5, <4>4, <5>1
        <5>2. CASE i # id /\ took
          <6>1. new.last_msg_id - i # 0
            BY <2>2, <4>2, <5>2
          <6> QED
            BY <2>2, <2>5, <5>2, <6>1
        <5>3. CASE i # id /\ ~ took
          <6>1. grants'[m][i] = grants[m][i]
            BY <2>5, <5>3
          <6>2. new.last_msg_id - i \in new.window
                    <=> peer.last_msg_id - i \in peer.window
            BY <2>2, <4>4, <5>3
          <6>3. CASE peer.last_msg_id - i \in Bits
            BY <5>3, <6>1, <6>2, <6>3 DEF IInv, MasksMatchHistory
          <6>4. CASE peer.last_msg_id - i \notin Bits
            <7>1. i > peer.last_msg_id
              BY <2>2, <4>2, <4>4, <5>3, <6>4, RecordAssumption, NoneAssumption DEF Bits
            <7>2. grants[m][i] = 0
              BY <5>3, <7>1 DEF IInv, MasksMatchHistory
            <7>3. peer.last_msg_id - i \notin peer.window
              BY <1>1, <6>4 DEF PeerRecord
            <7> QED
              BY <6>1, <6>2, <7>2, <7>3
          <6> QED
            BY <6>3, <6>4
        <5> QED
          BY <5>1, <5>2, <5>3
      <4> QED
        BY <3>3, <4>1, <4>3, <4>4
    <3> QED
      BY <3>1, <3>2, <3>3
  <2>10. AcceptedAtMostOnce'
    <3> SUFFICES ASSUME NEW x \in Mac, NEW i \in MsgId PROVE grants'[x][i] <= 1
      BY DEF AcceptedAtMostOnce
    <3>1. grants[x][i] <= 1
      BY DEF IInv, AcceptedAtMostOnce
    <3>2. CASE x = m
      BY <2>5, <2>6, <3>1, <3>2
    <3>3. CASE x # m
      BY <2>4, <3>1, <3>3
    <3> QED
      BY <3>2, <3>3
  <2> QED
    BY <2>7, <2>8, <2>9, <2>10 DEF IInv
<1> QED
  BY <1>3, <1>4

LEMMA NextIInv == IInv /\ [Next]_vars => IInv'
<1> SUFFICES ASSUME IInv, [Next]_vars PROVE IInv'
  OBVIOUS
<1>1. CASE UNCHANGED vars
  BY <1>1 DEF vars, IInv, TypeOK, OwnedRecords, MasksMatchHistory, AcceptedAtMostOnce
<1>2. CASE \E m \in Mac, id \in MsgId : check_replay(m, id)
  BY <1>2, CheckReplayIInv
<1>3. CASE Restart
  BY <1>3, RestartIInv
<1> QED
  BY <1>1, <1>2, <1>3 DEF Next

LEMMA IInvHolds == Spec => []IInv
BY InitIInv, NextIInv, PTL DEF Spec

\* The registry stays well formed: no mask outgrows its word and every record
\* holds an address and a 32-bit id.
THEOREM TypeCorrect == Spec => []TypeOK
BY IInvHolds, PTL DEF IInv

\* check_replay never accepts one id of a peer twice while the peer keeps its
\* slot, for any hash, window width and order of calls.
THEOREM AtMostOnce == Spec => []AcceptedAtMostOnce
BY IInvHolds, PTL DEF IInv

----

\* The answer computed from the mask is the answer of the abstract filter.
LEMMA SameAnswer ==
    ASSUME IInv, NEW m \in Mac, NEW id \in MsgId
    PROVE  AR!Fresh(Remembered(m), id) <=> Accepts(peer_registry[SlotOf[m]], m, id)
<1> DEFINE peer == peer_registry[SlotOf[m]]
           S == Remembered(m)
<1>1. /\ peer \in PeerRecord /\ m # NoMac /\ SlotOf[m] \in Slots
      /\ WindowSize \in Nat \ {0} /\ id \in Nat
  BY RecordAssumption, NoneAssumption DEF IInv, TypeOK, MsgId
<1>2. CASE peer.mac # m
  <2>1. S = {}
    BY <1>2 DEF Remembered
  <2> QED
    BY <1>2, <2>1 DEF AR!Fresh, AR!Stale, Accepts
<1>3. CASE peer.mac = m
  <2>1. /\ peer.last_msg_id \in MsgId /\ peer.last_msg_id \in Nat
        /\ peer.window \subseteq Bits /\ 0 \in peer.window
    BY <1>1, <1>3 DEF PeerRecord, MsgId, IInv, OwnedRecords
  <2>2. S = {x \in MsgId : peer.last_msg_id - x \in peer.window}
    BY <1>3 DEF Remembered
  <2>3. peer.last_msg_id \in S
    BY <2>1, <2>2
  <2>4. \A x \in S : x \in Nat /\ x <= peer.last_msg_id
    BY <2>1, <2>2 DEF MsgId, Bits
  <2>5. AR!Stale(S, id) <=> id + WindowSize <= peer.last_msg_id
    BY <1>1, <2>1, <2>3, <2>4 DEF AR!Stale
  <2>6. id \in S <=> peer.last_msg_id - id \in peer.window
    BY <2>2
  <2>7. CASE id > peer.last_msg_id
    BY <1>1, <2>1, <2>4, <2>5, <2>7 DEF AR!Fresh, Accepts
  <2>8. CASE ~ (id > peer.last_msg_id)
    BY <1>1, <1>3, <2>1, <2>5, <2>6, <2>8 DEF AR!Fresh, Accepts, Unmarked
  <2> QED
    BY <2>7, <2>8
<1> QED
  BY <1>2, <1>3

\* An accepted call leaves the mask of the slid set.
LEMMA SameMemory ==
    ASSUME IInv, NEW m \in Mac, NEW id \in MsgId, check_replay(m, id),
           Accepts(peer_registry[SlotOf[m]], m, id)
    PROVE  Remembered(m)' = AR!Slide(Remembered(m) \cup {id})
<1> DEFINE peer == peer_registry[SlotOf[m]]
           new == Updated(peer, m, id)
           S == Remembered(m) \cup {id}
<1>1. /\ peer \in PeerRecord /\ m # NoMac /\ SlotOf[m] \in Slots
      /\ WindowSize \in Nat \ {0} /\ id \in Nat
      /\ peer_registry \in [Slots -> PeerRecord]
      /\ peer.mac = m => 0 \in peer.window
  BY RecordAssumption, NoneAssumption DEF IInv, TypeOK, OwnedRecords, MsgId
<1>2. /\ new \in PeerRecord /\ new.mac = m /\ 0 \in new.window
      /\ new.last_msg_id >= id
      /\ peer.mac = m => new.last_msg_id >= peer.last_msg_id
      /\ new.last_msg_id # id => peer.mac = m /\ new.last_msg_id = peer.last_msg_id
      /\ peer.mac # m => new.last_msg_id = id /\ new.window = {0}
      /\ new.last_msg_id - id \in Bits => new.last_msg_id - id \in new.window
      /\ peer.mac = m =>
           \A i \in MsgId :
              i # id /\ new.last_msg_id - i \in Bits =>
                  (new.last_msg_id - i \in new.window
                      <=> peer.last_msg_id - i \in peer.window)
  BY <1>1, UpdatedLemma
<1>3. peer_registry'[SlotOf[m]] = new
  BY <1>1 DEF check_replay
<1>4. Remembered(m)' = {x \in MsgId : new.last_msg_id - x \in new.window}
  BY <1>2, <1>3 DEF Remembered
<1>5. /\ new.last_msg_id \in MsgId /\ new.last_msg_id \in Nat
      /\ new.window \subseteq Bits /\ peer.last_msg_id \in Nat
      /\ peer.last_msg_id \in MsgId /\ peer.window \subseteq Bits
  BY <1>1, <1>2 DEF PeerRecord, MsgId
<1>6. new.last_msg_id \in S
  BY <1>1, <1>2, <1>5 DEF Remembered
<1>7. S \subseteq MsgId /\ \A x \in S : x \in Nat /\ x <= new.last_msg_id
  <2>1. \A x \in Remembered(m) : peer.mac = m /\ x \in MsgId /\ peer.last_msg_id - x \in Bits
    BY <1>5 DEF Remembered
  <2>2. \A x \in Remembered(m) : x \in Nat /\ x <= new.last_msg_id
    BY <1>2, <1>5, <2>1 DEF Bits, MsgId
  <2> QED
    BY <1>1, <1>2, <2>1, <2>2
<1>8. \A x \in MsgId : ~ AR!Stale(S, x) <=> new.last_msg_id - x < WindowSize
  BY <1>1, <1>5, <1>6, <1>7 DEF AR!Stale, MsgId
<1>9. ASSUME NEW x \in MsgId
      PROVE  new.last_msg_id - x \in new.window
                <=> x \in S /\ new.last_msg_id - x < WindowSize
  <2>1. new.last_msg_id - x \in Bits
            <=> x <= new.last_msg_id /\ new.last_msg_id - x < WindowSize
    BY <1>1, <1>5 DEF Bits, MsgId
  <2>2. CASE new.last_msg_id - x \notin Bits
    BY <1>5, <1>7, <2>1, <2>2
  <2>3. CASE new.last_msg_id - x \in Bits /\ x = id
    BY <1>2, <2>1, <2>3
  <2>4. CASE new.last_msg_id - x \in Bits /\ x # id /\ peer.mac = m
    <3>1. x \in S <=> peer.last_msg_id - x \in peer.window
      BY <2>4 DEF Remembered
    <3> QED
      BY <1>2, <2>1, <2>4, <3>1
  <2>5. CASE new.last_msg_id - x \in Bits /\ x # id /\ peer.mac # m
    <3>1. x \notin S
      BY <2>5 DEF Remembered
    <3>2. new.last_msg_id - x # 0
      BY <1>1, <1>2, <1>5, <2>5 DEF MsgId
    <3> QED
      BY <1>2, <2>5, <3>1, <3>2
  <2> QED
    BY <2>2, <2>3, <2>4, <2>5
<1> QED
  BY <1>4, <1>7, <1>8, <1>9 DEF AR!Slide

LEMMA StepRefines ==
    IInv /\ [Next]_vars => [AR!Next]_<<[m \in Mac |-> Remembered(m)], verdict>>
<1> DEFINE rec == [m \in Mac |-> Remembered(m)]
<1> SUFFICES ASSUME IInv, [Next]_vars PROVE [AR!Next]_<<rec, verdict>>
  OBVIOUS
<1>1. CASE UNCHANGED vars
  BY <1>1 DEF vars, Remembered
<1>2. ASSUME NEW m \in Mac, NEW id \in MsgId, check_replay(m, id)
      PROVE  AR!Receive(m, id)
  <2> DEFINE peer == peer_registry[SlotOf[m]]
  <2>1. verdict' = [mac |-> m, msg_id |-> id, accepted |-> AR!Fresh(rec[m], id)]
    <3>1. verdict' = [mac |-> m, msg_id |-> id, accepted |-> Accepts(peer, m, id)]
      BY <1>2 DEF check_replay
    <3>2. AR!Fresh(rec[m], id) = Accepts(peer, m, id)
      <4>1. AR!Fresh(Remembered(m), id) \in BOOLEAN /\ Accepts(peer, m, id) \in BOOLEAN
        BY DEF AR!Fresh, Accepts, Unmarked
      <4>2. rec[m] = Remembered(m)
        OBVIOUS
      <4> QED
        BY <4>1, <4>2, SameAnswer
    <3> QED
      BY <3>1, <3>2
  <2>2. CASE ~ Accepts(peer, m, id)
    <3>1. ~ AR!Fresh(rec[m], id)
      BY <2>2, SameAnswer
    <3>2. rec' = rec
      BY <1>2, <2>2 DEF check_replay, Remembered
    <3> QED
      BY <2>1, <3>1, <3>2 DEF AR!Receive
  <2>3. CASE Accepts(peer, m, id)
    <3>1. AR!Fresh(rec[m], id)
      BY <2>3, SameAnswer
    <3>2. /\ peer_registry' = [peer_registry EXCEPT ![SlotOf[m]] = Updated(peer, m, id)]
          /\ SlotOf[m] \in Slots /\ m # NoMac /\ peer \in PeerRecord
          /\ peer_registry \in [Slots -> PeerRecord]
          /\ peer.mac = m => 0 \in peer.window
      BY <1>2, <2>3, RecordAssumption, NoneAssumption DEF check_replay, IInv, TypeOK, OwnedRecords
    <3>3. Updated(peer, m, id).mac = m
      BY <2>3, <3>2, UpdatedLemma
    <3>4. ASSUME NEW x \in Mac, x # m
          PROVE  Remembered(x)' = IF x \in AR!Rivals(m) THEN {} ELSE Remembered(x)
      <4>1. CASE SlotOf[x] = SlotOf[m]
        <5>1. peer_registry'[SlotOf[x]].mac = m
          BY <3>2, <3>3, <4>1
        <5>2. Remembered(x)' = {}
          BY <3>4, <5>1 DEF Remembered
        <5> QED
          BY <3>4, <4>1, <5>2 DEF AR!Rivals
      <4>2. CASE SlotOf[x] # SlotOf[m]
        <5>1. peer_registry'[SlotOf[x]] = peer_registry[SlotOf[x]]
          BY <3>2, <4>2, RecordAssumption, NoneAssumption
        <5> QED
          BY <4>2, <5>1 DEF AR!Rivals, Remembered
      <4> QED
        BY <4>1, <4>2
    <3>5. Remembered(m)' = AR!Slide(rec[m] \cup {id})
      BY <1>2, <2>3, SameMemory
    <3>6. rec' = [x \in Mac |-> IF x = m THEN AR!Slide(rec[m] \cup {id})
                                ELSE IF x \in AR!Rivals(m) THEN {} ELSE rec[x]]
      BY <3>4, <3>5
    <3> QED
      BY <2>1, <3>1, <3>6 DEF AR!Receive
  <2> QED
    BY <2>2, <2>3
<1>3. CASE Restart
  <2>1. rec' = [m \in Mac |-> {}]
    BY <1>3, RecordAssumption, NoneAssumption DEF Restart, ZeroRecord, Remembered
  <2> QED
    BY <1>3, <2>1 DEF Restart, AR!Restart, AR!Next
<1>4. MsgId = AR!MsgId
  BY DEF MsgId, AR!MsgId
<1> QED
  BY <1>1, <1>2, <1>3, <1>4 DEF Next, AR!Next

\* The registry of bit masks implements the abstract filter: every answer of
\* check_replay and everything it remembers afterwards are those of AntiReplay.
THEOREM Refinement == Spec => ImplementsAntiReplay
<1>1. Init => AR!Init
  BY RecordAssumption, NoneAssumption DEF Init, AR!Init, ZeroRecord, Remembered
<1> QED
  BY <1>1, IInvHolds, StepRefines, PTL DEF Spec, ImplementsAntiReplay, AR!Spec
====
