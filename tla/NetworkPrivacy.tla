---- MODULE NetworkPrivacy ----
(***************************************************************************)
(* src/source/network_privacy.cpp on one node: network_task (core 0) wraps *)
(* fragments while crypto_task (core 1) unwraps frames, wraps their ACKs   *)
(* and drains the ring.  Both use network_workspace.encryption_buffer and  *)
(* the cached epoch key, and neither takes a lock, so every access to them *)
(* is a step of its own.  AES-GCM is external: it encrypts with the key it *)
(* is given and decrypts only what was encrypted with the same key.  The   *)
(* key of epoch e is named e; all nodes have one master key, set before    *)
(* the tasks get work (set_network_master_key caches the key of epoch 0).  *)
(***************************************************************************)
EXTENDS Integers

CONSTANTS
    Epoch,    \* epochs (msg_id / 1000) of the frames sent and received
    Payload,  \* payloads given to wrap or arriving in frames
    Wiped     \* a buffer of zeros

VARIABLES
    current_epoch_key,  \* the epoch whose key is cached
    last_epoch_id,      \* the epoch it is taken to be
    encryption_buffer,  \* the shared plaintext buffer
    task,               \* both tasks: control point, call, its epoch and payload
    last,               \* history: the last encryption or decryption of each task:
                        \* its epoch and key, what it was given, what it made of it
    mixed               \* history: the tasks were at work in two epochs at once

keyVars == <<current_epoch_key, last_epoch_id, encryption_buffer, task, last, mixed>>

Content == Payload \cup {Wiped}
Task == {"network", "crypto"}
Idle == [pc |-> "idle", call |-> "none", epoch |-> 0, payload |-> Wiped]
Nothing == [epoch |-> 0, key |-> 0, given |-> Wiped, content |-> Wiped]

KeyInit ==
    /\ current_epoch_key = 0
    /\ last_epoch_id = 0
    /\ encryption_buffer = Wiped
    /\ task = [t \in Task |-> Idle]
    /\ last = [t \in Task |-> Nothing]
    /\ mixed = FALSE

At(t, pc) == task[t].pc = pc
GoTo(t, pc) == task' = [task EXCEPT ![t].pc = pc]

\* What task t had encrypted or decrypted now, with the cached key.
Record(t, given, content) ==
    last' = [last EXCEPT ![t] = [epoch |-> task[t].epoch, key |-> current_epoch_key,
                                 given |-> given, content |-> content]]

----

\* network_task wraps a fragment, crypto_task unwraps a frame.
Begin(t, e, v) ==
    /\ At(t, "idle")
    /\ task' = [task EXCEPT ![t] =
                   [pc |-> "check", call |-> IF t = "network" THEN "wrap" ELSE "unwrap",
                    epoch |-> e, payload |-> v]]
    /\ mixed' = (mixed \/ \E u \in Task : ~ At(u, "idle") /\ task[u].epoch # e)
    /\ UNCHANGED <<current_epoch_key, last_epoch_id, encryption_buffer, last>>

\* Mutant of CheckEpoch: the label is written before the key is derived.
CheckEpochLabelFirst(t) ==
    /\ At(t, "check")
    /\ last_epoch_id' = task[t].epoch
    /\ GoTo(t, IF task[t].epoch = last_epoch_id THEN task[t].call ELSE "derive")
    /\ UNCHANGED <<current_epoch_key, encryption_buffer, last, mixed>>

\* update_epoch_key keeps the key when it has the label of the epoch; else it
\* derives the key and then labels it.
CheckEpoch(t) ==
    /\ At(t, "check")
    /\ GoTo(t, IF task[t].epoch = last_epoch_id THEN task[t].call ELSE "derive")
    /\ UNCHANGED <<current_epoch_key, last_epoch_id, encryption_buffer, last, mixed>>

DeriveKey(t) ==
    /\ At(t, "derive")
    /\ current_epoch_key' = task[t].epoch
    /\ GoTo(t, "label")
    /\ UNCHANGED <<last_epoch_id, encryption_buffer, last, mixed>>

LabelKey(t) ==
    /\ At(t, "label")
    /\ last_epoch_id' = task[t].epoch
    /\ GoTo(t, task[t].call)
    /\ UNCHANGED <<current_epoch_key, encryption_buffer, last, mixed>>

\* wrap copies the payload to the shared buffer and encrypts it from there.
CopyIn(t) ==
    /\ At(t, "wrap")
    /\ encryption_buffer' = task[t].payload
    /\ GoTo(t, "encrypt")
    /\ UNCHANGED <<current_epoch_key, last_epoch_id, last, mixed>>

Encrypt(t) ==
    /\ At(t, "encrypt")
    /\ Record(t, task[t].payload, encryption_buffer)
    /\ task' = [task EXCEPT ![t] = Idle]
    /\ UNCHANGED <<current_epoch_key, last_epoch_id, encryption_buffer, mixed>>

\* unwrap decrypts into the shared buffer, which is zeroed when the key is not
\* the one the frame was encrypted with, and copies the payload out.
Decrypt(t) ==
    /\ At(t, "unwrap")
    /\ IF current_epoch_key = task[t].epoch
       THEN encryption_buffer' = task[t].payload /\ GoTo(t, "copy_out")
       ELSE encryption_buffer' = Wiped /\ task' = [task EXCEPT ![t] = Idle]
    /\ Record(t, task[t].payload, task[t].payload)
    /\ UNCHANGED <<current_epoch_key, last_epoch_id, mixed>>

\* The fragment goes to the ring, and its ACK, of the same epoch, is wrapped.
CopyOut(t) ==
    /\ At(t, "copy_out")
    /\ last' = [last EXCEPT ![t].content = encryption_buffer]
    /\ task' = [task EXCEPT ![t] = [pc |-> "check", call |-> "ack",
                                    epoch |-> task[t].epoch, payload |-> encryption_buffer]]
    /\ UNCHANGED <<current_epoch_key, last_epoch_id, encryption_buffer, mixed>>

\* An ACK has no payload and leaves the buffer alone.
EncryptAck(t) ==
    /\ At(t, "ack")
    /\ Record(t, Wiped, Wiped)
    /\ GoTo(t, "drain")
    /\ UNCHANGED <<current_epoch_key, last_epoch_id, encryption_buffer, mixed>>

\* crypto_task reads the ring into the same buffer and wipes it.
Drain(t) ==
    /\ At(t, "drain")
    /\ encryption_buffer' = task[t].payload
    /\ GoTo(t, "wipe")
    /\ UNCHANGED <<current_epoch_key, last_epoch_id, last, mixed>>

Wipe(t) ==
    /\ At(t, "wipe")
    /\ encryption_buffer' = Wiped
    /\ task' = [task EXCEPT ![t] = Idle]
    /\ UNCHANGED <<current_epoch_key, last_epoch_id, last, mixed>>

Step(t) ==
    \/ \E e \in Epoch, v \in Payload : Begin(t, e, v)
    \/ CheckEpoch(t) \/ DeriveKey(t) \/ LabelKey(t)
    \/ CopyIn(t) \/ Encrypt(t)
    \/ Decrypt(t) \/ CopyOut(t) \/ EncryptAck(t) \/ Drain(t) \/ Wipe(t)

KeyNext == \E t \in Task : Step(t)
KeySpec == KeyInit /\ [][KeyNext]_keyVars

----

Control == {"idle", "check", "derive", "label", "wrap", "encrypt", "unwrap", "copy_out",
            "ack", "drain", "wipe"}
TaskState == [pc : Control, call : {"none", "wrap", "unwrap", "ack"},
              epoch : Epoch \cup {0}, payload : Content]
Use == [epoch : Epoch \cup {0}, key : Epoch \cup {0}, given : Content, content : Content]

\* Type correctness.
KeyTypeOK ==
    /\ current_epoch_key \in Epoch \cup {0}
    /\ last_epoch_id \in Epoch \cup {0}
    /\ encryption_buffer \in Content
    /\ task \in [Task -> TaskState]
    /\ last \in [Task -> Use]
    /\ mixed \in BOOLEAN

\* network_privacy.h:27: update_epoch_key updates "the key for a given epoch", and
\* wrap and unwrap call it with the epoch of their frame.  No frame is encrypted
\* or decrypted with the key of another one.
KeyAlwaysOfEpoch == \A t \in Task : last[t].key = last[t].epoch

\* What of it holds: the epoch may change at any time and both tasks may be at
\* work, as long as they never were in two epochs at once.  The label is written
\* after the key (network_privacy.cpp:36-37), so a task that finds the label of
\* its epoch finds the key, also while the other one is still deriving it.
KeyOfEpoch == ~ mixed => KeyAlwaysOfEpoch

\* workspace.h:16-17: Core 0 and Core 1 have "separate memory areas", which
\* "prevents memory conflicts": what wrap encrypts is the payload it was given,
\* what unwrap hands over is the payload of its frame.
BuffersApart == \A t \in Task : last[t].content = last[t].given
====
