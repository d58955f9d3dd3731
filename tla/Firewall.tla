---- MODULE Firewall ----
(***************************************************************************)
(* The MAC blacklist of src/source/network.cpp as crypto_task uses it: for *)
(* every frame is_blacklisted first, and handle_blacklist once the frame   *)
(* has failed or passed its checks.  The blacklist is direct-mapped like   *)
(* peer_registry, so addresses with one slot displace each other.  Only    *)
(* crypto_task touches it, one frame at a time.                            *)
(***************************************************************************)
EXTENDS Integers, PeerTable

CONSTANTS
    BlockTime,  \* how long a peer stays blocked (60000 ms)
    MaxTime     \* bound: the last instant of the clock

ASSUME FirewallAssumption ==
    /\ NoMac \notin Mac
    /\ SlotOf \in [Mac -> Slots]
    /\ BlockTime \in Nat \ {0}
    /\ MaxTime \in Nat

VARIABLES
    blacklist,  \* slot -> blacklist_t
    millis,     \* the clock, coarse
    blocked,    \* is_blacklisted refused the last frame
    failed      \* history: how often each peer failed in a row

firewallVars == <<blacklist, millis, blocked, failed>>

Cleared == [mac |-> NoMac, failures |-> 0, expiry |-> 0]
Time == 0 .. MaxTime
Entry == [mac : Mac \cup {NoMac}, failures : 0 .. 255, expiry : 0 .. MaxTime + BlockTime]

----

Used(e) == e.failures > 0 \/ e.expiry > 0

\* is_blacklisted: its answer, and the entry it leaves behind.  An entry of the
\* peer that does not block it now is cleared, whether its time is up or it
\* never began.
IsBlacklisted(e, m) == Used(e) /\ e.mac = m /\ millis < e.expiry

EntryAfterLookup(e, m) ==
    IF Used(e) /\ e.mac = m /\ millis >= e.expiry THEN Cleared ELSE e

\* handle_blacklist(m, true).
EntryAfterSuccess(e, m) == IF e.mac = m THEN [e EXCEPT !.failures = 0, !.expiry = 0] ELSE e

\* Mutant of Own: the overwrite renames the entry and resets nothing.
OwnRenamed(e, m) == [e EXCEPT !.mac = m]

\* handle_blacklist(m, false): the entry of another peer is taken over; the
\* third failure blocks the peer.
Own(e, m) == IF e.mac = m THEN e ELSE [mac |-> m, failures |-> 0, expiry |-> 0]

EntryAfterFailure(e, m) ==
    LET failures == (Own(e, m).failures + 1) % 256
    IN  [mac |-> m, failures |-> failures,
         expiry |-> IF failures >= 3 THEN millis + BlockTime ELSE Own(e, m).expiry]

----

FirewallInit ==
    /\ blacklist = [s \in Slots |-> Cleared]
    /\ millis = 0
    /\ blocked = FALSE
    /\ failed = [m \in Mac |-> 0]

\* The failures of m its entry is meant to count: three of them end the count
\* with a block, and a peer whose block has been lifted starts again.
Failures(m) == IF failed[m] = 3 THEN 0 ELSE failed[m]

\* crypto_task and one frame of m: refused by is_blacklisted, or checked, which
\* leaves the given entry and the given count of failures.
Frame(m, entry, count) ==
    /\ blocked' = IsBlacklisted(blacklist[SlotOf[m]], m)
    /\ IF blocked'
       THEN UNCHANGED <<blacklist, failed>>
       ELSE /\ blacklist' = [blacklist EXCEPT ![SlotOf[m]] = entry]
            /\ failed' = count
    /\ UNCHANGED millis

Found(m) == EntryAfterLookup(blacklist[SlotOf[m]], m)

\* Its HMAC is wrong or unwrap fails.  The counts of the peers it displaces are
\* lost.
Fail(m) ==
    Frame(m, EntryAfterFailure(Found(m), m),
          [n \in Mac |-> IF n = m THEN Failures(m) + 1
                         ELSE IF SlotOf[n] = SlotOf[m] THEN 0 ELSE failed[n]])

\* It passes every check.
Pass(m) == Frame(m, EntryAfterSuccess(Found(m), m), [failed EXCEPT ![m] = 0])

\* compute_hmac cannot have its mutex, or check_replay refuses the frame:
\* handle_blacklist is not called.
Skip(m) == Frame(m, Found(m), [failed EXCEPT ![m] = Failures(m)])

Tick ==
    /\ millis < MaxTime
    /\ millis' = millis + 1
    /\ UNCHANGED <<blacklist, blocked, failed>>

FirewallNext ==
    \/ \E m \in Mac : Fail(m) \/ Pass(m) \/ Skip(m)
    \/ Tick

FirewallSpec == FirewallInit /\ [][FirewallNext]_firewallVars

----

\* Type correctness.
FirewallTypeOK ==
    /\ blacklist \in [Slots -> Entry]
    /\ millis \in Time
    /\ blocked \in BOOLEAN
    /\ failed \in [Mac -> 0 .. 3]

\* A peer is refused for three failures of its own and for nothing a peer that
\* shares its slot did: the overwrite of network.cpp:180-184 starts a count of
\* its own, and a success ends one (network.cpp:174-176).
HonestPeersPass ==
    \A m \in Mac : failed[m] < 3 => ~ IsBlacklisted(blacklist[SlotOf[m]], m)

\* What blacklist_t is for (network.h:62-67: "Blacklist Tracker", "Timestamp for
\* blacklist lift") and network.cpp:187-190 does: a peer that failed three times
\* in a row is on the blacklist.  The look-up before the next frame has cleared
\* its count by then.
ThirdFailureBlocks ==
    \A m \in Mac :
        failed[m] = 3 => LET e == blacklist[SlotOf[m]] IN e.mac = m /\ e.expiry > 0
====
