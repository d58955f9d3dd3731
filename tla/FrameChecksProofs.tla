---- MODULE FrameChecksProofs ----
(***************************************************************************)
(* The two parts of crypto_task that Messenger leaves to the constant of   *)
(* authentic frames: the blacklist and the epoch keys, for any addresses,  *)
(* slots, hash and clock, any epochs, payloads and number of frames.       *)
(***************************************************************************)
EXTENDS Firewall, NetworkPrivacy, TLAPS

(***************************************************************************)
(* The blacklist, first what its entries may hold.  NothingBlocked is not  *)
(* inductive alone: a peer is blocked by its third failure, so one has to  *)
(* know that a counter that survives the look-up of its own peer is 0,     *)
(* which follows from no entry having a block that is still running.       *)
(***************************************************************************)
\* The reach of the finding that ThirdFailureBlocks is violated: no frame is
\* ever refused and no entry ever gets an expiry.
NothingBlocked == ~ blocked /\ \A s \in Slots : blacklist[s].expiry = 0

\* No entry counts more than one failure, and none has an expiry.
Harmless(e) == e.failures <= 1 /\ e.expiry = 0

FirewallInv == FirewallTypeOK /\ ~ blocked /\ \A s \in Slots : Harmless(blacklist[s])

\* A failure of a peer that had none counts 1 and blocks nobody.
LEMMA FirstFailure ==
    ASSUME NEW m \in Mac, NEW e \in Entry,
           e.mac = m => e.failures = 0 /\ e.expiry = 0
    PROVE  EntryAfterFailure(e, m) = [mac |-> m, failures |-> 1, expiry |-> 0]
<1>1. Own(e, m).failures = 0 /\ Own(e, m).expiry = 0
  BY DEF Own
<1>2. (0 + 1) % 256 = 1
  OBVIOUS
<1> QED BY <1>1, <1>2 DEF EntryAfterFailure

\* What the three ways out of a look-up leave of an idle entry.
LEMMA EntryAfterFrame ==
    ASSUME NEW m \in Mac, NEW e \in Entry, Harmless(e), millis \in Time
    PROVE  /\ ~ IsBlacklisted(e, m)
           /\ EntryAfterLookup(e, m) \in Entry /\ Harmless(EntryAfterLookup(e, m))
           /\ EntryAfterSuccess(EntryAfterLookup(e, m), m) \in Entry
           /\ Harmless(EntryAfterSuccess(EntryAfterLookup(e, m), m))
           /\ EntryAfterFailure(EntryAfterLookup(e, m), m) \in Entry
           /\ Harmless(EntryAfterFailure(EntryAfterLookup(e, m), m))
<1>1. Cleared \in Entry /\ Harmless(Cleared)
  BY FirewallAssumption DEF Cleared, Entry, Harmless
<1>2. ~ IsBlacklisted(e, m)
  BY FirewallAssumption DEF IsBlacklisted, Harmless, Time
<1> DEFINE f == EntryAfterLookup(e, m)
<1>3. f \in Entry /\ Harmless(f) /\ (f.mac = m => f.failures = 0)
  <2>1. CASE Used(e) /\ e.mac = m
    <3>1. f = Cleared
      BY <2>1, FirewallAssumption DEF EntryAfterLookup, Harmless, Time
    <3> QED BY <3>1, <1>1, FirewallAssumption DEF Cleared
  <2>2. CASE ~ (Used(e) /\ e.mac = m)
    BY <2>2 DEF EntryAfterLookup, Used, Entry
  <2> QED BY <2>1, <2>2
<1>4. EntryAfterSuccess(f, m) \in Entry /\ Harmless(EntryAfterSuccess(f, m))
  <2> HIDE DEF f
  <2> QED BY <1>3, FirewallAssumption DEF EntryAfterSuccess, Entry, Harmless
<1>5. EntryAfterFailure(f, m) \in Entry /\ Harmless(EntryAfterFailure(f, m))
  <2> HIDE DEF f
  <2>2. [mac |-> m, failures |-> 1, expiry |-> 0] \in Entry
    BY FirewallAssumption DEF Entry
  <2>3. EntryAfterFailure(f, m) = [mac |-> m, failures |-> 1, expiry |-> 0]
    BY <1>3, FirstFailure DEF Harmless
  <2> QED BY <2>2, <2>3 DEF Harmless
<1> QED BY <1>2, <1>3, <1>4, <1>5

LEMMA FirewallInvInit == FirewallInit => FirewallInv
<1> SUFFICES ASSUME FirewallInit PROVE FirewallInv
  OBVIOUS
<1>1. Cleared \in Entry /\ Harmless(Cleared)
  BY FirewallAssumption DEF Cleared, Entry, Harmless
<1>2. millis \in Time
  BY FirewallAssumption DEF FirewallInit, Time
<1>3. blacklist \in [Slots -> Entry] /\ \A s \in Slots : Harmless(blacklist[s])
  BY <1>1 DEF FirewallInit
<1>4. failed \in [Mac -> 0 .. 3]
  BY DEF FirewallInit
<1> QED BY <1>2, <1>3, <1>4 DEF FirewallInit, FirewallInv, FirewallTypeOK

\* A frame that leaves an idle entry preserves the invariant.
LEMMA FirewallInvFrame ==
    ASSUME FirewallInv, NEW m \in Mac, NEW e \in Entry, Harmless(e),
           NEW c \in [Mac -> 0 .. 3], Frame(m, e, c)
    PROVE  FirewallInv'
<1>1. blacklist[SlotOf[m]] \in Entry /\ Harmless(blacklist[SlotOf[m]]) /\ millis \in Time
  BY FirewallAssumption DEF FirewallInv, FirewallTypeOK
<1>2. ~ IsBlacklisted(blacklist[SlotOf[m]], m)
  BY <1>1, EntryAfterFrame
<1>3. /\ blocked' = FALSE
      /\ blacklist' = [blacklist EXCEPT ![SlotOf[m]] = e]
      /\ millis' = millis
      /\ failed' = c
  BY <1>2 DEF Frame, IsBlacklisted
<1>4. \A s \in Slots : Harmless(blacklist'[s])
  BY <1>3, FirewallAssumption DEF FirewallInv, FirewallTypeOK
<1>5. FirewallTypeOK'
  BY <1>3, FirewallAssumption DEF FirewallInv, FirewallTypeOK
<1> QED BY <1>3, <1>4, <1>5 DEF FirewallInv, Harmless

\* The counts of failures the three kinds of frames leave.
CountsAfterFail(m) ==
    [n \in Mac |-> IF n = m THEN Failures(m) + 1
                   ELSE IF SlotOf[n] = SlotOf[m] THEN 0 ELSE failed[n]]

LEMMA CountsTyped ==
    ASSUME FirewallTypeOK, NEW m \in Mac
    PROVE  /\ Failures(m) \in 0 .. 2
           /\ CountsAfterFail(m) \in [Mac -> 0 .. 3]
           /\ [failed EXCEPT ![m] = 0] \in [Mac -> 0 .. 3]
           /\ [failed EXCEPT ![m] = Failures(m)] \in [Mac -> 0 .. 3]
<1>1. Failures(m) \in 0 .. 2
  BY DEF FirewallTypeOK, Failures
<1>2. CountsAfterFail(m) \in [Mac -> 0 .. 3]
  BY <1>1 DEF FirewallTypeOK, CountsAfterFail
<1>3. /\ [failed EXCEPT ![m] = 0] \in [Mac -> 0 .. 3]
      /\ [failed EXCEPT ![m] = Failures(m)] \in [Mac -> 0 .. 3]
  BY <1>1 DEF FirewallTypeOK
<1> QED BY <1>1, <1>2, <1>3

LEMMA FirewallInvStep == FirewallInv /\ [FirewallNext]_firewallVars => FirewallInv'
<1> SUFFICES ASSUME FirewallInv, [FirewallNext]_firewallVars PROVE FirewallInv'
  OBVIOUS
<1>1. ASSUME NEW m \in Mac
      PROVE  /\ blacklist[SlotOf[m]] \in Entry /\ Harmless(blacklist[SlotOf[m]])
             /\ millis \in Time
  BY FirewallAssumption DEF FirewallInv, FirewallTypeOK
<1>2. ASSUME NEW m \in Mac, Fail(m) PROVE FirewallInv'
  <2>1. EntryAfterFailure(Found(m), m) \in Entry /\ Harmless(EntryAfterFailure(Found(m), m))
    BY <1>1, EntryAfterFrame DEF Found
  <2>2. Frame(m, EntryAfterFailure(Found(m), m), CountsAfterFail(m))
    BY <1>2 DEF Fail, CountsAfterFail
  <2>3. CountsAfterFail(m) \in [Mac -> 0 .. 3]
    BY CountsTyped DEF FirewallInv
  <2> QED BY <2>1, <2>2, <2>3, FirewallInvFrame
<1>3. ASSUME NEW m \in Mac, Pass(m) PROVE FirewallInv'
  <2>1. EntryAfterSuccess(Found(m), m) \in Entry /\ Harmless(EntryAfterSuccess(Found(m), m))
    BY <1>1, EntryAfterFrame DEF Found
  <2>2. [failed EXCEPT ![m] = 0] \in [Mac -> 0 .. 3]
    BY CountsTyped DEF FirewallInv
  <2> QED BY <1>3, <2>1, <2>2, FirewallInvFrame DEF Pass
<1>4. ASSUME NEW m \in Mac, Skip(m) PROVE FirewallInv'
  <2>1. Found(m) \in Entry /\ Harmless(Found(m))
    BY <1>1, EntryAfterFrame DEF Found
  <2>2. [failed EXCEPT ![m] = Failures(m)] \in [Mac -> 0 .. 3]
    BY CountsTyped DEF FirewallInv
  <2> QED BY <1>4, <2>1, <2>2, FirewallInvFrame DEF Skip
<1>5. ASSUME Tick PROVE FirewallInv'
  BY <1>5, FirewallAssumption DEF Tick, FirewallInv, FirewallTypeOK, Time, Harmless
<1>6. CASE UNCHANGED firewallVars
  BY <1>6 DEF firewallVars, FirewallInv, FirewallTypeOK, Harmless
<1> QED BY <1>2, <1>3, <1>4, <1>5, <1>6 DEF FirewallNext

\* Type correctness of the blacklist, for every hash and clock.
THEOREM FirewallTypeCorrect == FirewallSpec => []FirewallTypeOK
<1>1. FirewallInv => FirewallTypeOK
  BY DEF FirewallInv
<1> QED BY FirewallInvInit, FirewallInvStep, <1>1, PTL DEF FirewallSpec

\* How far the finding about ThirdFailureBlocks reaches: is_blacklisted
\* (network.cpp:160-169) never refuses a frame, whatever fails and however
\* addresses collide, so the blacklist has no effect on what crypto_task lets
\* through.
THEOREM LetsEverythingThrough == FirewallSpec => []NothingBlocked
<1>1. FirewallInv => NothingBlocked
  BY DEF FirewallInv, NothingBlocked, Harmless
<1> QED BY FirewallInvInit, FirewallInvStep, <1>1, PTL DEF FirewallSpec

(***************************************************************************)
(* HonestPeersPass, without the help of NothingBlocked: an entry lies in   *)
(* the slot of its peer, counts no more failures than its peer has had,    *)
(* and has an expiry only after three of them.                             *)
(***************************************************************************)
Earned(e, s) ==
    \A n \in Mac : e.mac = n =>
        SlotOf[n] = s /\ e.failures <= failed[n] /\ (e.expiry > 0 => failed[n] = 3)

AllEarned == \A s \in Slots : Earned(blacklist[s], s)

\* An entry that does not refuse its own peer is idle after the look-up.
LEMMA LookedUp ==
    ASSUME NEW m \in Mac, NEW e \in Entry, millis \in Time, ~ IsBlacklisted(e, m)
    PROVE  /\ EntryAfterLookup(e, m) \in Entry
           /\ EntryAfterLookup(e, m).mac = m =>
                EntryAfterLookup(e, m).failures = 0 /\ EntryAfterLookup(e, m).expiry = 0
           /\ EntryAfterLookup(e, m) = e \/ EntryAfterLookup(e, m).mac = NoMac
<1>1. Cleared \in Entry /\ Cleared.mac = NoMac
  BY FirewallAssumption DEF Cleared, Entry
<1>2. CASE Used(e) /\ e.mac = m
  <2>1. millis >= e.expiry
    BY <1>2, FirewallAssumption DEF IsBlacklisted, Time, Entry
  <2> QED BY <1>1, <1>2, <2>1, FirewallAssumption DEF EntryAfterLookup
<1>3. CASE ~ (Used(e) /\ e.mac = m)
  <2>1. EntryAfterLookup(e, m) = e
    BY <1>3 DEF EntryAfterLookup
  <2> QED BY <1>3, <2>1 DEF Used, Entry
<1> QED BY <1>2, <1>3

\* A frame preserves it when the count of failures of other slots stays and
\* the entry it leaves is earned under the new count.
LEMMA EarnedFrame ==
    ASSUME FirewallTypeOK, AllEarned, NEW m \in Mac, NEW e, NEW c \in [Mac -> 0 .. 3],
           Frame(m, e, c),
           \A n \in Mac : SlotOf[n] # SlotOf[m] => c[n] = failed[n],
           ~ IsBlacklisted(blacklist[SlotOf[m]], m) =>
               \A n \in Mac : e.mac = n =>
                   SlotOf[n] = SlotOf[m] /\ e.failures <= c[n] /\ (e.expiry > 0 => c[n] = 3)
    PROVE  AllEarned'
<1>1. CASE IsBlacklisted(blacklist[SlotOf[m]], m)
  BY <1>1 DEF Frame, AllEarned, Earned
<1>2. CASE ~ IsBlacklisted(blacklist[SlotOf[m]], m)
  <2>1. blacklist' = [blacklist EXCEPT ![SlotOf[m]] = e] /\ failed' = c
    BY <1>2 DEF Frame
  <2>2. ASSUME NEW s \in Slots PROVE Earned(blacklist[s], s)'
    <3>1. CASE s = SlotOf[m]
      BY <1>2, <2>1, <3>1, FirewallAssumption DEF Earned, FirewallTypeOK
    <3>2. CASE s # SlotOf[m]
      <4>1. blacklist'[s] = blacklist[s] /\ Earned(blacklist[s], s)
        BY <2>1, <3>2, FirewallAssumption DEF FirewallTypeOK, AllEarned
      <4> QED BY <2>1, <3>2, <4>1 DEF Earned
    <3> QED BY <3>1, <3>2
  <2> QED BY <2>2 DEF AllEarned
<1> QED BY <1>1, <1>2

LEMMA EarnedInit == FirewallInit => AllEarned
  BY FirewallAssumption DEF FirewallInit, AllEarned, Earned, Cleared

LEMMA EarnedStep == FirewallInv /\ AllEarned /\ [FirewallNext]_firewallVars => AllEarned'
<1> SUFFICES ASSUME FirewallInv, AllEarned, [FirewallNext]_firewallVars PROVE AllEarned'
  OBVIOUS
<1>1. FirewallTypeOK /\ millis \in Time
  BY DEF FirewallInv, FirewallTypeOK
<1>2. ASSUME NEW m \in Mac
      PROVE  blacklist[SlotOf[m]] \in Entry /\ Earned(blacklist[SlotOf[m]], SlotOf[m])
  BY <1>1, FirewallAssumption DEF FirewallTypeOK, AllEarned
<1>3. ASSUME NEW m \in Mac, ~ IsBlacklisted(blacklist[SlotOf[m]], m)
      PROVE  /\ Found(m) \in Entry
             /\ Found(m).mac = m => Found(m).failures = 0 /\ Found(m).expiry = 0
             /\ Found(m) = blacklist[SlotOf[m]] \/ Found(m).mac = NoMac
  BY <1>1, <1>2, <1>3, LookedUp DEF Found
<1>4. ASSUME NEW m \in Mac, Fail(m) PROVE AllEarned'
  <2>1. /\ CountsAfterFail(m) \in [Mac -> 0 .. 3] /\ Failures(m) \in 0 .. 2
        /\ CountsAfterFail(m)[m] = Failures(m) + 1
        /\ \A n \in Mac : SlotOf[n] # SlotOf[m] => CountsAfterFail(m)[n] = failed[n]
    BY <1>1, CountsTyped DEF CountsAfterFail
  <2>2. ASSUME ~ IsBlacklisted(blacklist[SlotOf[m]], m)
        PROVE  EntryAfterFailure(Found(m), m) = [mac |-> m, failures |-> 1, expiry |-> 0]
    BY <1>3, <2>2, FirstFailure
  <2>3. Frame(m, EntryAfterFailure(Found(m), m), CountsAfterFail(m))
    BY <1>4 DEF Fail, CountsAfterFail
  <2> HIDE DEF CountsAfterFail
  <2>4. ASSUME ~ IsBlacklisted(blacklist[SlotOf[m]], m)
        PROVE  \A n \in Mac : EntryAfterFailure(Found(m), m).mac = n =>
                   /\ SlotOf[n] = SlotOf[m]
                   /\ EntryAfterFailure(Found(m), m).failures <= CountsAfterFail(m)[n]
                   /\ EntryAfterFailure(Found(m), m).expiry > 0 => CountsAfterFail(m)[n] = 3
    BY <2>1, <2>2, <2>4
  <2> QED BY <1>1, <2>1, <2>3, <2>4, EarnedFrame
<1>5. ASSUME NEW m \in Mac, Pass(m) PROVE AllEarned'
  <2> DEFINE c == [failed EXCEPT ![m] = 0]
             e == EntryAfterSuccess(Found(m), m)
  <2>1. c \in [Mac -> 0 .. 3] /\ c[m] = 0 /\ \A n \in Mac : n # m => c[n] = failed[n]
    BY <1>1, CountsTyped DEF FirewallTypeOK
  <2>2. ASSUME ~ IsBlacklisted(blacklist[SlotOf[m]], m), NEW n \in Mac, e.mac = n
        PROVE  SlotOf[n] = SlotOf[m] /\ e.failures <= c[n] /\ (e.expiry > 0 => c[n] = 3)
    <3>1. CASE Found(m).mac = m
      <4>1. e.mac = m /\ e.failures = 0 /\ e.expiry = 0
        BY <1>3, <2>2, <3>1 DEF EntryAfterSuccess, Entry
      <4> QED BY <2>1, <2>2, <4>1
    <3>2. CASE Found(m).mac # m
      <4>1. e = Found(m)
        BY <3>2 DEF EntryAfterSuccess
      <4>2. e = blacklist[SlotOf[m]] /\ n # m
        BY <1>3, <2>2, <3>2, <4>1, FirewallAssumption
      <4> QED BY <1>2, <2>1, <2>2, <4>2 DEF Earned
    <3> QED BY <3>1, <3>2
  <2>3. Frame(m, e, c)
    BY <1>5 DEF Pass
  <2> HIDE DEF c, e
  <2> QED BY <1>1, <2>1, <2>2, <2>3, EarnedFrame
<1>6. ASSUME NEW m \in Mac, Skip(m) PROVE AllEarned'
  <2> DEFINE c == [failed EXCEPT ![m] = Failures(m)]
             e == Found(m)
  <2>1. c \in [Mac -> 0 .. 3] /\ \A n \in Mac : n # m => c[n] = failed[n]
    BY <1>1, CountsTyped DEF FirewallTypeOK
  <2>2. ASSUME ~ IsBlacklisted(blacklist[SlotOf[m]], m), NEW n \in Mac, e.mac = n
        PROVE  SlotOf[n] = SlotOf[m] /\ e.failures <= c[n] /\ (e.expiry > 0 => c[n] = 3)
    <3>1. CASE n = m
      <4>1. e.failures = 0 /\ e.expiry = 0 /\ c[n] \in 0 .. 3
        BY <1>3, <2>1, <2>2, <3>1
      <4> QED BY <3>1, <4>1
    <3>2. CASE n # m
      <4>1. e = blacklist[SlotOf[m]]
        BY <1>3, <2>2, <3>2, FirewallAssumption
      <4> QED BY <1>2, <2>1, <2>2, <3>2, <4>1 DEF Earned
    <3> QED BY <3>1, <3>2
  <2>3. Frame(m, e, c)
    BY <1>6 DEF Skip
  <2> HIDE DEF c, e
  <2> QED BY <1>1, <2>1, <2>2, <2>3, EarnedFrame
<1>7. CASE Tick \/ UNCHANGED firewallVars
  BY <1>7 DEF Tick, firewallVars, AllEarned, Earned
<1> QED BY <1>4, <1>5, <1>6, <1>7 DEF FirewallNext

\* No peer is refused for what another one did, for every hash: with any number
\* of addresses in one slot, the entry crypto_task looks up never blocks a peer
\* that failed less than three times in a row (network.cpp:160-192).
THEOREM OwnFailuresOnly == FirewallSpec => []HonestPeersPass
<1>1. FirewallInv /\ AllEarned => HonestPeersPass
  <2> SUFFICES ASSUME FirewallInv, AllEarned, NEW m \in Mac, failed[m] < 3,
                      IsBlacklisted(blacklist[SlotOf[m]], m)
               PROVE  FALSE
    BY DEF HonestPeersPass
  <2>1. blacklist[SlotOf[m]] \in Entry /\ Earned(blacklist[SlotOf[m]], SlotOf[m])
    BY FirewallAssumption DEF FirewallInv, FirewallTypeOK, AllEarned
  <2>2. blacklist[SlotOf[m]].mac = m /\ blacklist[SlotOf[m]].expiry > 0
    BY <2>1, FirewallAssumption DEF IsBlacklisted, FirewallInv, FirewallTypeOK, Time, Entry
  <2> QED BY <2>1, <2>2 DEF Earned
<1> QED BY FirewallInvInit, FirewallInvStep, EarnedInit, EarnedStep, <1>1, PTL DEF FirewallSpec

(***************************************************************************)
(* The epoch keys, for any set of epochs.  The invariant that carries      *)
(* KeyOfEpoch, as long as the tasks were never in two epochs at once: a    *)
(* task that has left CheckEpoch or DeriveKey has the key of its epoch     *)
(* before it, and the label names the cached key unless a task is just     *)
(* about to write it.                                                      *)
(***************************************************************************)
\* The control points at which a task relies on the cached key.
Keyed == {"label", "wrap", "encrypt", "unwrap", "copy_out", "ack", "drain", "wipe"}

OneEpochAtWork ==
    \A t, u \in Task : ~ At(t, "idle") /\ ~ At(u, "idle") => task[t].epoch = task[u].epoch
KeyReady == \A t \in Task : task[t].pc \in Keyed => current_epoch_key = task[t].epoch
LabelTrue == last_epoch_id = current_epoch_key \/ \E t \in Task : At(t, "label")

Tasks ==
    /\ task \in [Task -> TaskState]
    /\ last \in [Task -> Use]
    /\ encryption_buffer \in Content
    /\ current_epoch_key \in Epoch \cup {0}
Called == \A t \in Task : ~ At(t, "idle") => task[t].call # "none"

\* Per epoch: while the tasks were never at work in two epochs at once.
Keys == OneEpochAtWork /\ KeyReady /\ LabelTrue /\ KeyAlwaysOfEpoch

IInv == Tasks /\ Called /\ (~ mixed => Keys)

LEMMA IdleTyped == Idle \in TaskState /\ Nothing \in Use /\ Wiped \in Content
  BY DEF Idle, Nothing, TaskState, Use, Control, Content

LEMMA KeyInitInv == KeyInit => IInv
<1> SUFFICES ASSUME KeyInit PROVE IInv
  OBVIOUS
<1>1. Tasks
  BY IdleTyped DEF KeyInit, Tasks
<1>2. Called /\ OneEpochAtWork /\ KeyReady
  BY DEF KeyInit, Idle, At, Keyed, Called, OneEpochAtWork, KeyReady
<1>3. LabelTrue /\ KeyAlwaysOfEpoch
  BY DEF KeyInit, Nothing, LabelTrue, KeyAlwaysOfEpoch
<1> QED BY <1>1, <1>2, <1>3 DEF IInv, Keys

\* What a task records of its own leaves what the other one recorded.
LEMMA Recorded ==
    ASSUME Tasks, NEW t \in Task, NEW g \in Content, NEW c \in Content, Record(t, g, c)
    PROVE  /\ last' \in [Task -> Use]
           /\ last'[t].epoch = task[t].epoch /\ last'[t].key = current_epoch_key
           /\ \A u \in Task : u # t => last'[u] = last[u]
<1> DEFINE use == [epoch |-> task[t].epoch, key |-> current_epoch_key,
                   given |-> g, content |-> c]
<1>1. /\ use \in Use
      /\ use.epoch = task[t].epoch /\ use.key = current_epoch_key
  BY DEF Tasks, TaskState, Use
<1>2. last' = [last EXCEPT ![t] = use]
  BY DEF Record
<1> HIDE DEF use
<1> QED BY <1>1, <1>2 DEF Tasks

\* A task that goes on in its call keeps the rest of its state.
LEMMA Moved ==
    ASSUME Tasks, NEW t \in Task, NEW pc \in Control, GoTo(t, pc)
    PROVE  /\ task' \in [Task -> TaskState]
           /\ task'[t].pc = pc /\ task'[t].call = task[t].call
           /\ task'[t].epoch = task[t].epoch
           /\ \A u \in Task : u # t => task'[u] = task[u]
<1> DEFINE s == [task[t] EXCEPT !.pc = pc]
<1>1. task[t] \in TaskState
  BY DEF Tasks
<1>2. s \in TaskState /\ s.pc = pc /\ s.call = task[t].call /\ s.epoch = task[t].epoch
  BY <1>1 DEF TaskState
<1>3. task' = [task EXCEPT ![t] = s]
  BY DEF GoTo
<1> HIDE DEF s
<1> QED BY <1>2, <1>3 DEF Tasks

\* The fields of a task and of what it recorded.
LEMMA Fields ==
    ASSUME Tasks, NEW t \in Task
    PROVE  /\ task[t].pc \in Control /\ task[t].call \in {"none", "wrap", "unwrap", "ack"}
           /\ task[t].epoch \in Epoch \cup {0} /\ task[t].payload \in Content
  BY DEF Tasks, TaskState

\* The types, and that a task at work has a call.
LEMMA TasksStep == Tasks /\ Called /\ [KeyNext]_keyVars => Tasks' /\ Called'
<1> SUFFICES ASSUME Tasks, Called, [KeyNext]_keyVars PROVE Tasks' /\ Called'
  OBVIOUS
<1>1. CASE UNCHANGED keyVars
  BY <1>1 DEF keyVars, Tasks, Called, At
<1>2. ASSUME NEW t \in Task, NEW d \in Epoch, NEW v \in Payload, Begin(t, d, v)
      PROVE  Tasks' /\ Called'
  <2> DEFINE s == [pc |-> "check", call |-> IF t = "network" THEN "wrap" ELSE "unwrap",
                   epoch |-> d, payload |-> v]
  <2>1. s \in TaskState /\ s.call # "none"
    BY DEF TaskState, Control, Content
  <2>2. task' = [task EXCEPT ![t] = s] /\ UNCHANGED <<current_epoch_key, encryption_buffer, last>>
    BY <1>2 DEF Begin
  <2> HIDE DEF s
  <2> QED BY <2>1, <2>2 DEF Tasks, Called, At
<1>3. ASSUME NEW t \in Task, CheckEpoch(t) \/ DeriveKey(t) \/ LabelKey(t) \/ CopyIn(t)
                             \/ EncryptAck(t) \/ Drain(t)
      PROVE  Tasks' /\ Called'
  <2>1. PICK pc \in Control : GoTo(t, pc)
    BY <1>3, Fields DEF CheckEpoch, DeriveKey, LabelKey, CopyIn, EncryptAck, Drain, Control, Called, At
  <2>2. ~ At(t, "idle")
    BY <1>3 DEF CheckEpoch, DeriveKey, LabelKey, CopyIn, EncryptAck, Drain, At
  <2>3. Called'
    BY <2>1, <2>2, Moved DEF Called, At
  <2>4. encryption_buffer' \in Content /\ current_epoch_key' \in Epoch \cup {0}
    BY <1>3, Fields DEF CheckEpoch, DeriveKey, LabelKey, CopyIn, EncryptAck, Drain, Tasks
  <2>5. last' \in [Task -> Use]
    <3>1. CASE EncryptAck(t)
      BY <3>1, Recorded, IdleTyped DEF EncryptAck
    <3> QED BY <1>3, <3>1 DEF CheckEpoch, DeriveKey, LabelKey, CopyIn, Drain, Tasks
  <2> QED BY <2>1, <2>3, <2>4, <2>5, Moved DEF Tasks
<1>4. ASSUME NEW t \in Task, Encrypt(t) \/ Wipe(t) PROVE Tasks' /\ Called'
  <2>1. task' = [task EXCEPT ![t] = Idle] /\ current_epoch_key' = current_epoch_key
    BY <1>4 DEF Encrypt, Wipe
  <2>2. encryption_buffer' \in Content
    BY <1>4, IdleTyped DEF Encrypt, Wipe, Tasks
  <2>3. last' \in [Task -> Use]
    BY <1>4, Recorded, Fields DEF Encrypt, Wipe, Tasks
  <2>4. Idle.pc = "idle"
    BY DEF Idle
  <2> QED BY <2>1, <2>2, <2>3, <2>4, IdleTyped DEF Tasks, Called, At
<1>5. ASSUME NEW t \in Task, Decrypt(t) PROVE Tasks' /\ Called'
  <2>1. last' \in [Task -> Use] /\ current_epoch_key' = current_epoch_key
    BY <1>5, Recorded, Fields DEF Decrypt
  <2>2. CASE current_epoch_key = task[t].epoch
    <3>1. encryption_buffer' = task[t].payload /\ GoTo(t, "copy_out") /\ ~ At(t, "idle")
      BY <1>5, <2>2 DEF Decrypt, At
    <3>2. "copy_out" \in Control
      BY DEF Control
    <3> QED BY <2>1, <3>1, <3>2, Moved, Fields DEF Tasks, Called, At
  <2>3. CASE current_epoch_key # task[t].epoch
    <3>1. encryption_buffer' = Wiped /\ task' = [task EXCEPT ![t] = Idle]
      BY <1>5, <2>3 DEF Decrypt
    <3>2. Idle.pc = "idle"
      BY DEF Idle
    <3> QED BY <2>1, <3>1, <3>2, IdleTyped DEF Tasks, Called, At
  <2> QED BY <2>2, <2>3
<1>6. ASSUME NEW t \in Task, CopyOut(t) PROVE Tasks' /\ Called'
  <2> DEFINE s == [pc |-> "check", call |-> "ack",
                   epoch |-> task[t].epoch, payload |-> encryption_buffer]
             f == [last[t] EXCEPT !.content = encryption_buffer]
  <2>1. s \in TaskState /\ s.call # "none" /\ f \in Use
    BY Fields DEF Tasks, TaskState, Use, Control
  <2>2. /\ task' = [task EXCEPT ![t] = s] /\ last' = [last EXCEPT ![t] = f]
        /\ UNCHANGED <<current_epoch_key, encryption_buffer>>
    BY <1>6 DEF CopyOut
  <2> HIDE DEF s, f
  <2> QED BY <2>1, <2>2 DEF Tasks, Called, At
<1> QED BY <1>1, <1>2, <1>3, <1>4, <1>5, <1>6 DEF KeyNext, Step

\* A step of one task keeps the key right for both.
LEMMA KeysStep ==
    ASSUME Tasks, Called, Keys, [KeyNext]_keyVars, ~ mixed'
    PROVE  Keys'
<1> USE DEF Keys, OneEpochAtWork, KeyReady, LabelTrue, KeyAlwaysOfEpoch, At
<1>1. CASE UNCHANGED keyVars
  BY <1>1 DEF keyVars
<1>2. ASSUME NEW t \in Task, NEW d \in Epoch, NEW v \in Payload, Begin(t, d, v)
      PROVE  Keys'
  <2>1. /\ task'[t].pc = "check" /\ task'[t].epoch = d
        /\ \A u \in Task : u # t => task'[u] = task[u]
    BY <1>2 DEF Begin, Tasks
  <2>2. UNCHANGED <<current_epoch_key, last_epoch_id, last>>
    BY <1>2 DEF Begin
  <2>3. \A u \in Task : ~ At(u, "idle") => task[u].epoch = d
    BY <1>2 DEF Begin
  <2>4. task[t].pc = "idle"
    BY <1>2 DEF Begin
  <2> QED BY <2>1, <2>2, <2>3, <2>4 DEF Keyed
<1>3. ASSUME NEW t \in Task, CheckEpoch(t) PROVE Keys'
  <2>1. PICK pc \in Control : GoTo(t, pc) /\ (pc \in Keyed => task[t].epoch = last_epoch_id)
    BY <1>3, Fields DEF CheckEpoch, Control, Keyed, Called
  <2>2. UNCHANGED <<current_epoch_key, last_epoch_id, last>> /\ task[t].pc = "check"
    BY <1>3 DEF CheckEpoch
  <2> QED BY <2>1, <2>2, Moved DEF Keyed
<1>4. ASSUME NEW t \in Task, DeriveKey(t) PROVE Keys'
  <2>1. GoTo(t, "label") /\ "label" \in Control
    BY <1>4 DEF DeriveKey, Control
  <2>2. current_epoch_key' = task[t].epoch /\ UNCHANGED <<last_epoch_id, last>> /\ task[t].pc = "derive"
    BY <1>4 DEF DeriveKey
  <2> QED BY <2>1, <2>2, Moved DEF Keyed
<1>5. ASSUME NEW t \in Task, LabelKey(t) PROVE Keys'
  <2>1. PICK pc \in Control : GoTo(t, pc) /\ pc # "idle"
    BY <1>5, Fields DEF LabelKey, Control, Called
  <2>2. last_epoch_id' = task[t].epoch /\ UNCHANGED <<current_epoch_key, last>> /\ task[t].pc = "label"
    BY <1>5 DEF LabelKey
  <2> QED BY <2>1, <2>2, Moved DEF Keyed
<1>6. ASSUME NEW t \in Task, CopyIn(t) \/ Drain(t) \/ EncryptAck(t) PROVE Keys'
  <2>1. PICK pc \in Control : GoTo(t, pc) /\ pc \notin {"idle", "label"}
    BY <1>6 DEF CopyIn, Drain, EncryptAck, Control
  <2>2. UNCHANGED <<current_epoch_key, last_epoch_id>>
        /\ task[t].pc \in Keyed /\ task[t].pc # "label"
    BY <1>6 DEF CopyIn, Drain, EncryptAck, Keyed
  <2>3. KeyAlwaysOfEpoch'
    BY <1>6, <2>2, Recorded, IdleTyped DEF CopyIn, Drain, EncryptAck
  <2> QED BY <2>1, <2>2, <2>3, Moved DEF Keyed
<1>7. ASSUME NEW t \in Task, Encrypt(t) \/ Decrypt(t) \/ CopyOut(t) \/ Wipe(t) PROVE Keys'
  <2>1. UNCHANGED <<current_epoch_key, last_epoch_id>>
        /\ task[t].pc \in Keyed /\ task[t].pc # "label"
    BY <1>7 DEF Encrypt, Decrypt, CopyOut, Wipe, Keyed
  <2>2. /\ \/ task'[t].pc = "idle"
           \/ task'[t].epoch = task[t].epoch /\ task'[t].pc # "label"
        /\ \A u \in Task : u # t => task'[u] = task[u]
    <3>1. CASE task' = [task EXCEPT ![t] = Idle]
      BY <3>1 DEF Tasks, Idle
    <3>2. CASE GoTo(t, "copy_out")
      BY <3>2, Moved DEF Control
    <3>3. CASE CopyOut(t)
      BY <3>3 DEF CopyOut, Tasks
    <3> QED BY <1>7, <3>1, <3>2, <3>3 DEF Encrypt, Decrypt, Wipe
  <2>3. KeyAlwaysOfEpoch'
    <3>1. CASE Encrypt(t) \/ Decrypt(t)
      BY <2>1, <3>1, Recorded, Fields DEF Encrypt, Decrypt, Tasks
    <3>2. CASE CopyOut(t)
      <4>1. last[t] \in Use /\ last' = [last EXCEPT ![t].content = encryption_buffer]
        BY <3>2 DEF CopyOut, Tasks
      <4> QED BY <4>1 DEF Tasks, Use
    <3> QED BY <1>7, <3>1, <3>2 DEF Wipe
  <2> QED BY <2>1, <2>2, <2>3 DEF Keyed
<1> QED BY <1>1, <1>2, <1>3, <1>4, <1>5, <1>6, <1>7 DEF KeyNext, Step

\* mixed is never taken back.
LEMMA MixedStays == [KeyNext]_keyVars /\ mixed => mixed'
<1>1. ASSUME NEW t \in Task, Step(t), mixed PROVE mixed'
  BY <1>1 DEF Step, Begin, CheckEpoch, DeriveKey, LabelKey, CopyIn, Encrypt, Decrypt, CopyOut,
              EncryptAck, Drain, Wipe
<1> QED BY <1>1 DEF KeyNext, keyVars

LEMMA KeyStepInv == IInv /\ [KeyNext]_keyVars => IInv'
  BY TasksStep, KeysStep, MixedStays DEF IInv

\* Both tasks use the key of the epoch their frames belong to, across any
\* changes of epoch, as long as the two were never in different epochs at once.
THEOREM EpochKeys == KeySpec => []KeyOfEpoch
<1>1. IInv => KeyOfEpoch
  BY DEF IInv, Keys, KeyOfEpoch
<1> QED BY KeyInitInv, KeyStepInv, <1>1, PTL DEF KeySpec
====
