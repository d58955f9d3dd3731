# Formal models of LatticeVanguard

TLA+ specifications of LatticeVanguard, a post-quantum communication suite for
ESP32, STM32 and PC: its concurrent and stateful core, its two demonstration
programs and the arithmetic under its algorithms, with TLC runs that check them on
small instances and TLAPS proofs that hold for every value of their constants. Paths
below are relative to the root of the repository;
`network.cpp` is `src/source/network.cpp` and so on.

    tlc -config MCParts.cfg MCParts     one run
    tlapm ReplayWindowProofs.tla        one module of proofs

## 1. The system and its parts

| Component | State | Operations | Interacts with |
|---|---|---|---|
| **Messenger** (`network.cpp`) | `global_msg_id`, `peer_registry`, `blacklist`, the expected ACK, two buffer pools with two queues each, `network_msg_buffer` | `init`, `send_reliable`, `on_data_recv`, `send_ack`, `check_replay`, `is_blacklisted`, `handle_blacklist`, tasks `network_task` (core 0) and `crypto_task` (core 1) | NetworkPrivacy (wrap, unwrap), KeyVault (HMAC secret, `tx_msg_id`), SecurityOfficer (comparison), BlackBox, ESP-NOW |
| **NetworkPrivacy** (`network_privacy.cpp`) | master key, epoch key and its label, `key_set`, the shared `encryption_buffer` | `set_network_master_key`, `update_epoch_key`, `wrap`, `unwrap` | called by both tasks of Messenger |
| **KeyVault** (`storage.cpp`) | `master_vault_key` in RAM; NVS namespaces `pqc_vault`, `pqc_peers`, `pqc_sys` | `init`, `generate_master_key`, `save_key`, `load_key`, trusted peers, admin key, configuration values, `destroy_vault` | SecurityOfficer (entropy check), NVS, CSPRNG |
| **SecurityOfficer** (`security.cpp`) | `failed_attempts`, `last_fail_time`, two lock flags | `report_signature_result`, `check_entropy_lock`, `panic_wipe`, `is_system_locked`, `secure_compare` | KeyVault (wipe), BlackBox (log), OTAGuard, HealthMonitor |
| **BlackBox** (`blackbox.cpp`) | log file in LittleFS | `log_security_incident`, `log_error`, `print_saved_logs`, `clear_logs` | KeyVault (master key) |
| **OTAGuard** (`ota.cpp`) | root key, sponge, signature, `verification_active` | `set_root_pk`, `begin_`/`complete_streaming_verification`, `process_firmware_chunk`, `verify_update` | Dilithium2, SecurityOfficer |
| **HealthMonitor**, **CSPRNG** (`health.cpp`, `csprng.cpp`) | DRBG context, `initialized` | entropy estimate; random bytes | everybody that needs randomness |
| **TrustManager** (`trust_manager.cpp`) | none | issue and verify certificates | Dilithium2, KeyVault |
| **Dilithium2**, **Kyber512**, **Kyber768** (`dilithium.cpp`, `kyber_modular.cpp`, legacy `kyber.cpp`) | none (a workspace given by the caller or allocated) | key pair, sign, verify, encapsulate, decapsulate | arithmetic, sponge, workspace |
| **Arithmetic** (`ntt.cpp`, `poly.cpp`, `dilithium_ntt.cpp`) | none | transforms, reductions, rounding, packing | |
| **Sponge and ciphers** (`fips202.cpp`, `encryption.cpp`) | sponge state | SHAKE, SHA3; AES-GCM, ChaCha20, KDF, nonces | |
| **Unified workspace** (`workspace_unified.cpp`) | one allocation, bit accumulators | allocate, deallocate, bounds check, packers | platform layer |
| **Platform layer, UART** (`platform_factory.cpp`, `*_platform.cpp`) | five global interfaces; a frame automaton and its receive buffer | start-up, shutdown; `send_frame`, `receive_frame` | SDKs |
| **Sketch** (`kyber_dilithium.ino`, `main_unified.cpp`, `pc_main.cpp`) | a `CryptoWorkspace` per test, or the one unified workspace | `setup`, `loop`, `main` and the tests they run | calls the components in turn |

What is hard in it, and what makes each part correct:

- *Concurrency.* Messenger runs in four contexts (application, `network_task`,
  the receive callback of the WiFi task, `crypto_task`) on two cores. They share
  the buffer pools through queues, and `global_msg_id`, the expected ACK, a task
  notification, the epoch key and a plaintext buffer through plain variables
  without a lock. Correct means: a buffer has one owner and comes back; a frame
  carries what was given to send; a key is used for its own epoch.
- *Unreliable delivery.* Frames are lost, delayed, reordered and repeated;
  `network_task` retries three times with a 250 ms time-out. Correct means: no
  frame is let through twice, an ACK stands for stored data, and the sender gets
  on with its queue.
- *Crash and restart.* All of Messenger's state is in RAM; a node comes back
  with an empty registry and its first message id.
- *Persistence.* KeyVault, SecurityOfficer and BlackBox write flash in several
  steps: boot order, power loss and the wipe decide what can be read later.
- *Memory used twice.* The tests of both programs give fields of one workspace to
  functions that write more than the field holds, or something else into it, and
  read them later.
- *Streams in pieces.* UART frames arrive byte by byte from an interrupt; firmware
  arrives in chunks. Correct means: what comes out is what was sent, or nothing.
- *Numeric edges.* Window shifts, fixed-width reductions, rounding, bit packing,
  counters, a 16-bit nonce.

`PROJECT.json` lists these hazards at their lines, with the properties that
cover them.

## 2. Plan

In the order of importance. All parts exist.

| | Modules | Question | Abstract specification | Theorems |
|---|---|---|---|---|
| A | `PeerTable`, `ReplayRecord`, `ReplayWindow` | the anti-replay window | `AntiReplay` | types, at-most-once, refinement: proved |
| B | `BufferPool` | the pools and their queues | `BoundedFifo` | types, ownership, no loss, room, refinement: proved |
| C | `Messenger` (uses `ReplayRecord`, takes FIFOs from B) | the whole transfer, with reboots | `Delivery`; the client of `BoundedFifo` | types, one frame per id, true ACKs, ids never older, empty ring, refinement, use of the pools: proved |
| D | `Firewall` | the MAC blacklist | | types, only own failures count, and how far the finding reaches (nothing is blocked): proved |
| E | `NetworkPrivacy` | two cores, one key cache, one buffer | | key of the epoch, across changes of epoch: proved |
| F | `SecurityOfficer`, `KeyVault` (with BlackBox and the boot order of `setup`) | which saved keys can be read after which boots, wipes and power losses; when the device is locked | | types, saved keys load, secret survives, order of the wipe, floods: proved |
| G | `KyberRing`, `KyberPke`, `BitPacking`, `DilithiumRounding` | do words overflow; does Kyber decrypt; do packed fields come back; which candidates pass | the definitions of FIPS 203 and 204 where they are one line | words, packing, the reach of the rounding finding: proved |
| H | `UARTTransport`, `UnifiedWorkspace`, `KyberKEM`, `Dilithium`, composed by `UnifiedMain` | the cross-platform program on its three boards | | types, plain frames arrive, overruns, and the reach of the findings (frames cut, exchange fails, keys remain): proved |
| I | `Sponge`, `OTAGuard`, composed by `Sketch` with `KyberKEM`, `Dilithium`, `SecurityOfficer` | the demonstration program, firmware updates, the rejection loop | | exchanges agree, only signed cuts, and the reach of the findings (nothing verified, test image refused): proved |

What could come next: the two transforms of Dilithium in a checker with wider
integers, and the user callback of the UART if one is ever registered.

## 3. Modules and how they correspond to the code

`PROJECT.json` maps every definition to its lines; this is the overview.

**`PeerTable`** names what the direct-mapped tables `peer_registry` and `blacklist`
share: addresses, slots and the hash between them. **`ReplayRecord`** holds one `peer_record_t` and what `check_replay`
(`network.cpp:194-222`) makes of it: `Accepts` is what the function returns,
`Updated` the record it leaves, by its three cases `TakeOver` (another address
owns the slot), `Advance` (a newer id) and `Mark` (an id in the window). The
64-bit mask is the set of its 1 bits; `ShiftLeft` loses bits at the top as the
word does. **`ReplayWindow`** is the direct-mapped registry under calls in any
order, with restarts, and a history variable `grants` that counts acceptances.
**`AntiReplay`** is what a caller may rely on, without masks or slots of
records: a set of recent ids per peer.

**`BufferPool`** is one pool with its free queue and work queue; every queue
operation is an action, so producers and the consumer interleave between them.
It is instantiated by the receive path (`on_data_recv` to `crypto_task`) and by
the send path (`send_reliable` to `network_task`), whose code has the same shape.
The branches for a full work queue (`network.cpp:236`, `255`) are modelled; that
they are never taken is `PushesSucceed`. **`BoundedFifo`** is a FIFO of values
with room for `PoolSize`, in which no pointer appears.

**`Messenger`** is the composition: several nodes, each with an application,
`network_task`, `crypto_task` and the receive callback, over one medium.
- Control points are the places where another task can get in between:
  `send_reliable` draws the id and queues the buffer in two steps, and a node makes
  one call at a time: `global_msg_id++` (`network.cpp:251`) is a read and a write, of
  which two calling tasks could lose one. All calls of the repository are in tests of
  `setup()` and `loop()`, one task; another task that sends is not covered, and
  `IdsNeverOlder` is what would suffer. The two words
  of the expected ACK are written in two steps and compared in two steps, and the
  notification is a third one.
- `air` is the set of frames ever transmitted. A frame in it may be received at
  any time, any number of times, in any order, or never, which covers loss,
  delay, reordering, duplication and retransmission.
- The checks of `crypto_task` before `check_replay` change no state that matters
  (see `Firewall`), so they are one guard, `Authentic`. `CryptoDrop` is always
  possible because `compute_hmac` gives up when its mutex is taken.
- Queues carry messages and frames instead of pointers. What justifies it is in two parts:
  `BufferPool` implements `BoundedFifo` (`ImplementsFifo`), and `SendPool(n)` and
  `RecvPool(n)`, what a node shows of its two paths, are behaviours of the same
  `BoundedFifo` between its boots (`PoolsAsPromised`). `on_data_recv` is one step here,
  `Put`, which is `Begin` and `Commit` with nothing seen in between.
- `Reboot` clears all RAM and starts the counter again: `tx_msg_id` is loaded
  (`network.cpp:85`) and never saved.
- `given` and `stored` are histories: what was given to `send_reliable`, and how
  often this boot of a node has stored each fragment. They are the variables of **`Delivery`**, the promise to the
  applications without frames, ids, ACKs or tries: a fragment that is stored belongs to a
  message given for this node, and is stored once. It promises no more: of a message whose
  fragments share an id, often only one arrives (see Disagreements).

**`Firewall`** is the blacklist as `crypto_task` uses it: look-up, then failure,
success or neither. The look-up clears the entry of a peer that is not blocked. The
history `failed` counts the failures each peer had in a row and that its entry is
meant to count; a displaced peer starts again.

**`NetworkPrivacy`** has two tasks that wrap and unwrap with every access to the
key, its label and the shared buffer as a step of its own. AES-GCM is external:
decryption succeeds exactly under the key of encryption. The history `last` holds what
each task encrypted or decrypted last: the epoch of its frame, the key, what it was
given and what came out. `mixed` records that the tasks once were at work in two
epochs at once.

**`SecurityOfficer`** holds the arithmetic of `report_signature_result`
(`security.cpp:42-67`). The clock enters as `quick`, which any failure may be or
not be; that covers its start at 0 and its wrap-around. `quick` is what the code
computes: after 49 days of silence a late failure may count as quick.

**`KeyVault`** is the flash and the one task that writes it. `pc` follows
`setup()`: `Messenger::init` loads or draws the HMAC secret, the log is printed,
`KeyVault::init` checks the entropy and derives the master key, then `setup` and
`loop` save keys and report signatures. `Restart` may come between any two steps.
- A sealed blob is the key that sealed it and its value; `Loaded` is what
  `load_key` returns. `Save` takes any name and value at any time in `setup()`,
  where the sketch has one of each.
- Every NVS call may fail; `faulty` records that one did. `destroy_vault` is three
  steps, and `back` is where its caller goes on: in `KeyVault::init`, in `setup()`
  (which does not stop when locked) or in `loop()`. `loop()` tests the lock at its start
  only, `pc = "wait"`; in an iteration, `pc = "loop"`, the rest of the tests still save
  keys and report results after a panic, until `IterationEnds`.
- A namespace is erased, a blob or a log record written, at once or not at all
  (NVS and LittleFS, external). Drawing and storing a salt is one step: power loss
  between them leaves what it leaves before the draw.
- `promised`, `drawn`, `dead` and `burst` are histories the properties speak of.

**`KyberKEM`**, **`Dilithium`** and **`Sponge`** are operators, used by the two
programs below. A key is what it was made from, a ciphertext what it was encrypted
with, a hash its argument; what is kept is which bytes each function reads, in which
order, and what it compares. `Decaps` encrypts again and puts `z` in the place of the
key unless the ciphertext is the same. `Sponge` is the sequence of absorptions, each
with its own padding, and the permutations since. Whether `verify` accepts a
signature of `sign` depends on the rounding (see `DilithiumRounding`), so it may;
what it never accepts is another hash or another key.

**`UARTTransport`** is the way in on the STM32: `PeerSends` puts the bytes of
`send_frame` on the line, all of them or, when a byte times out, the first n;
`RxCplt` is the interrupt; `PollClear` and `PollRead` are the two halves of a poll
in `receive_raw`, between which the interrupt may come. `FrameStep` is the `switch`
of `receive_frame`, whose order matters because `ESCAPE_BYTE` and `END_BYTE` have
one value. A read at `uart_rx_pos - 1` with position 0 is a read outside the buffer
and gives any member of `Strays`. `missed` records that a byte was overwritten,
read twice or strayed. `Sendable` takes only packets that fit: `send_raw`
(`stm32_platform.cpp:151`) copies address and payload into 250 bytes of its stack before
`send_frame` refuses a packet that is longer. What such an overflow does is undefined and
not modelled; the one call of the program sends a short constant.

**`UnifiedWorkspace`** is `malloc`'s block under a struct that is larger: memory maps
extents to what was written there, a store cuts what it overlaps, a load returns
what was written as a whole or a mixture. Sizes and offsets are those of the
struct. **`UnifiedMain`** is the program of `main_unified.cpp`: start-up of the
platform, the five tests and the loop. A call of Kyber or Dilithium that gets no
memory leaves its outputs alone, and nobody looks at its result.

**`OTAGuard`** has the four operations of `ota.cpp`. **`Sketch`** is
`kyber_dilithium.ino`: the tests in the order of `setup()` and `loop()`, each with a
fresh workspace or none (`OutOfMemory`), the loop of `Dilithium2::sign` with its
nonce (`StartSign` chooses which candidates would pass), the failures the tests
report, and an updater that calls the streaming functions while `loop()` waits. The
vault and the boot order are left to `KeyVault`, the entropy verdict is a choice.

**`KyberRing`** is `ntt.cpp` and `poly.cpp` on 256 coefficients with values kept
unwrapped; **`KyberPke`** is the key pair, `indcpa_enc` and the decryption in
`decaps`, one store per step and one layer of a transform per turn. What is sampled
is an input. **`BitPacking`** describes each packer by its layout (width, bits,
base, sign, bit order) and packs by one definition, `Filled`, which puts one field after
the other into a byte as the loops of the code do. **`DilithiumRounding`** is the
three checks a candidate has to pass, on one coefficient of each vector, with
`decompose` (its 16 intervals) and `make_hint` as they are written.

The `MC*` modules give values to constants. `MCParts` also puts parts that share no state
side by side: `job` says which one is at work, the others stay as at boot (those of the
arithmetic empty), so a behaviour is one of a single part. The definitions commented
"Mutant of ..." are faults a plausible slip in the code would make, kept beside
the definition they replace; no specification uses them.

## 4. Runs

| Run | Instance | Distinct states | Shows |
|---|---|---|---|
| `parts` | see below | 124,635 | each part of the ESP32 program that shares no state with the others |
| `messenger` | 2 nodes, 2 messages of 0 to 2 fragments, 1 try, pools of 2 | 3,598,655 | `OneFramePerId`, `AckMeansStored`, `IdsNeverOlder`, `RingDrained` |
| `messenger_reboot` | 2 nodes, 2 messages of at most 1 fragment, 3 tries, 1 reboot | 359,968 | `SendsFinish`; refinement of `Delivery`; both pools used as a `BoundedFifo` |
| `key_vault` | 1 application key, 2 values, 2 salts, 1 peer, flood threshold 2 | 3,356,830 | `SavedKeysLoad`, `SecretSurvives`, `WipedSaltsStayDead`, `WipeSecretsFirst`, `FloodLocks` |
| `platform` | each board; 4 packets of 2 or 3 bytes, a receive buffer of 7, breaks after 2 bytes, 2 events | 810,484 | `PlainFramesArrive`, `SignatureIntact`, `OverrunsExplained` |
| `message_ids` | as `messenger` | violation | two messages under one id |
| `shared_buffer` | the epoch keys of `parts`, 2 payloads, epoch 1 | violation | the cores overwrite each other's plaintext |
| `blacklist` | as `parts` | violation | a third failure in a row does not block |
| `framing` | as `platform` | violation | a packet with 0xAA or 0x55 does not arrive as it was sent |
| `exchange` | as `platform` | violation | two sides of a Kyber exchange with different secrets |
| `auth_message` | as `parts` | violation | a Dilithium signature verified with a Kyber key |
| `rounding` | as `parts`, products with the challenge 0 | violation | low parts of more than `GAMMA2` |

The parts of `parts`:

| `job` | Instance | Shows |
|---|---|---|
| `replay` | 3 peers, 2 in one slot, 3-bit window, ids 0 to 4 | `TypeOK`, `AcceptedAtMostOnce`, refinement of `AntiReplay` |
| `pool` | 2 producers, 3 buffers, 2 values | ownership, no leak, no failing push, return of buffers (fair), refinement of `BoundedFifo` |
| `blacklist` | 3 peers in 2 slots, time 0 to 12, block time 2 | `HonestPeersPass` |
| `keys` | 1 payload, epochs 1 and 2 | `KeyOfEpoch` |
| `sketch` | flood threshold 2, 8 nonces of 4 polynomials, 2 signed images, 2 chunks | `KemAgrees`, `OtaAcceptsOnlySignedCut`, `SignEnds` |
| `kyber` | Kyber768 with 2 keys, 2 encryptions, peers' keys and texts | `WordsHold`, `Decrypts` |
| `packing` | 3 or 8 coefficients for each packer | `FieldsComeBack` |
| `rounding` | 3 masks, 8 commitments, 8 products | the state space of the violation `rounding` |

*Bounds.* A window of 3 bits and 5 ids has ids inside, at both edges of and
behind the window, and shifts by less, exactly and more than its width; three
peers have a collision and a bystander. Three buffers and two producers fill the
pool with every split between queues and holders. Two messages are the least
that share an id, and two fragments the least that collide with themselves; in
the instances of `Messenger` the window is as wide as the ids in use, as the 64
bits of the code are for any short exchange. `messenger` has no retries because a second
transmission adds no frame to `air`, where every frame can be received again
anyway; `messenger_reboot` has all three, for the end of the loop. A ring of one
fragment is enough for `RingDrained` and makes it a statement about every larger
one. The blacklist model stops its clock at `MaxTime`; nothing depends on it.
`key_vault` restarts without a bound; two salts are a wiped one and its successor,
after which a third wipe leaves the fallback key. `MaxFailed` is two above the
flood threshold, so the counter passes it and the second limit. The run takes
values and salts as symmetric: they are only compared.

In `platform` an event is a frame of a peer, a repetition of the main loop or a call
that gets no memory; peers send during the communication test, the only time anybody
receives. Addresses are of one byte. A buffer of 7 is shorter than two frames, so its
position wraps inside a frame, and long enough for a frame that ends in the middle of
it. The packets have each kind of byte the framing treats in its own way. In the sketch
8 nonces stand for 2^16; both are multiples of the polynomials per mask, which is
what `SignEnds` rests on. The images are the same two words cut once and twice.
In `parts` one key and one encryption are typical, the others have nothing but
the largest coefficients; noise is of the size decryption copes with. Packing is
checked at the least, the greatest and a middle value at every position, rounding
around every boundary. `WordsHold` and `FieldsComeBack` are proved for all values. Two
epochs are what a change of epoch needs: the key of a third one is as wrong as that of
the second.

*Frame size.* The members of `fragment_packet_t` add up to 250 bytes, the most
ESP-NOW carries and the size the HMAC calls assume (`250 - 32`). Its declaration
pads it to 252, with which `on_data_recv` refuses everything. The runs of
`Messenger` take 250, the protocol as written, since with 252 no frame arrives and
every safety property would hold for lack of traffic. That a length above 250 is
refused is a comparison; it has no run.

*Fairness.* `SendsFinish` assumes that `network_task` keeps running and that a
call of `send_reliable` reaches its end. Both follow from FreeRTOS: priorities 5
and 4 on a core each, and every wait of `network_task` inside a message is
bounded (10 ms for the mutex, 250 ms for a notification). Nothing is assumed of
the medium or of the peer: messages are done with even if no frame arrives.
`BuffersReturn` assumes that the consumer keeps running and that a producer that
has claimed a buffer goes on. Callers are never forced to call.
`Sketch` has one task that keeps running, whether memory is short or not. `SignEnds` is
conditional on what no scheduler decides: that some candidate is acceptable.

*Deadlock* checking is off where the program may stop: `Messenger` at rest with its
calls made and its frames received, a locked sketch, a `main` that returned, a
computation that is done.

### Disagreements

Seven are the violation runs:

1. *One id for two messages* (`message_ids`). `network.h:35` calls `msg_id`
   unique. The id drawn by `send_reliable` is not kept with the message;
   `network_task` uses the value of the counter when it builds a fragment. The
   receiver then lets one frame through, also of the fragments of one message:
   `OneFramePerId` is what holds, and what it costs.
2. *A shared plaintext buffer* (`shared_buffer`). `workspace.h:16` promises
   separate memory for the cores; `wrap`, `unwrap` and the drain loop use one.
3. *No peer is ever blocked* (`blacklist`). `network.h:63-67` and
   `network.cpp:187-190` block a peer for 60 s at its third failure; the look-up before
   each frame clears the count. `LetsEverythingThrough` proves it for every number of
   peers; what holds is `HonestPeersPass`.
4. *Frames end at their first escaped byte* (`framing`). `stm32_platform.cpp:81` and
   `132` escape and unescape; `ESCAPE_BYTE` and `END_BYTE` have one value.
   `FramesArriveCut` says what does arrive; packets without such bytes arrive whole
   (`PlainFramesArrive`).
5. *The exchange in the workspace disagrees* (`exchange`). `main_unified.cpp:78-84`
   expects it to agree; the field of the Kyber secret key is 96 bytes too short, and the
   ciphertext is written over its end. `ExchangeFails` proves that it never agrees.
6. *The authenticated message cannot be verified* (`auth_message`).
   `kyber_dilithium.ino:89` says that no buffer is spoilt; the Kyber keys were written
   over the Dilithium key. `NeverVerified` proves it for any number of rounds. Each
   round counts as a failed signature, towards the panic wipe.
7. *`decompose` mixes two parameter sets* (`rounding`). It uses the formula of 16
   intervals, `(Q-1)/32`, with a `GAMMA2` of `(Q-1)/88` (`dilithium.cpp:14`, `51-54`). A
   coefficient passes the check of the low part in 2.5 % of all values
   (`FewCandidatesPass`), and all 1024 have to; `sign` practically never returns,
   although `test_dilithium.cpp:28` expects it to.

Four have no run of their own:

8. *Keys outlive their scope.* `workspace_unified.h:108` says "Clear sensitive data on
   scope exit"; `secure_clear` starts behind the keys. `KeysRemain` proves that the vector of
   the Kyber secret key is never erased, `OverrunsExplained` says what the clear writes
   over instead.
9. *The image of the OTA test.* `test_ota_verification` (`kyber_dilithium.ino:241-246`)
   signs an image and expects it to be accepted; OTAGuard verifies a signature of its
   hash (`ota.cpp:53`). `TestImageRefused` proves that it never is. Nor is an image that
   is cut into other chunks than it was signed in, because each chunk is padded on its
   own (`OtaAcceptsOnlySignedCut`).
10. *The key of another epoch.* `update_epoch_key` is to update the key for a given epoch
   (`network_privacy.h:27`). With the cores in two epochs at once (ids 1999 and 2000) one
   derives a key between the other's check and its use, and a frame is encrypted or
   decrypted with the wrong key; `KeyAlwaysOfEpoch`, as an invariant of `MCParts`,
   shows it. What holds is `KeyOfEpoch`.
11. *Ids after a restart.* `test_adversary.cpp:85-88` takes it that `tx_msg_id` was saved;
   nothing but that test saves it. A node starts with its first id again, and a peer
   that did not restart refuses its frames. `UniqueMessageIds`, with one send buffer
   and a reboot, shows it.

`FieldsComeBack` holds with an exception: the packers that save memory (they have no
callers) bring coefficients of half the range and above back as negative ones, and lose
an odd last 12-bit coefficient.

Smaller observations: `security.h:43` announces a panic at 50 failures in
30 s, the code panics at the 51st, and counts gaps under 30 s between failures,
not 30 s in all (`FloodLocks` states what it does); the limit of 100 at
`security.cpp:63` is never the one that decides while the system is unlocked;
a wipe leaves `master_vault_key` and
`HMAC_SECRET` in RAM until the restart, although `security.h:22` speaks of all
sensitive data in memory, and a key saved in that time cannot be read afterwards;
a power loss between the lock and the first erasure leaves an unlocked node with
all its keys; nothing in the repository calls
`set_network_master_key` or registers a peer with ESP-NOW; a node without a
provisioned HMAC secret draws its own, so two fresh nodes have different ones
(the models assume a common one);
the tests of `test_adversary.cpp` use variables that no longer exist;
`setup()` prints the log (ino:314) before the vault has its master key (ino:318), so
of the records that `blackbox.h:13` promises to keep only those written just as early
open; `main_unified.cpp` calls the Kyber functions with two arguments where they take
three, and `workspace.h:52` and `workspace_unified.h:93` define two classes of one
name, so it does not compile as written (the model takes the missing workspace as none, so
that each call allocates its own); `dilithium_invntt` does not undo `dilithium_ntt`: the
table has 240 of 256 entries and the final factor is (q+1)/2, not the one the comment
at `dilithium_ntt.cpp:95` names; `barrett_reduce` returns 3329, and not 0 as
`ntt.cpp:40` has it, for negative multiples of 3329, which nothing minds;
`montgomery_reduce` multiplies beyond 32 bits and relies on the wrap-around; a
negative `t1` may reach `pack_t1`; the rejection sampling of `poly_uniform` and
`expand_A` goes over one block of output again and again when it runs out;
`check_memory_leak` subtracts below zero (no caller).

## 5. Proofs

All theorems are checked by `tlapm` for every value of the constants that
satisfies the module's assumptions.

**`ReplayWindowProofs`.** Neither types nor at-most-once is inductive: that an id
was counted once says nothing about whether it will be refused. `IInv` adds
`OwnedRecords` (a record in use sits in its owner's slot and has the bit of its
newest id set) and `MasksMatchHistory` (inside the window a bit is set exactly
when its id was accepted; nothing above the newest id was). `AdvanceLemma` and
`UpdatedLemma` say what a moved mask remembers, `CheckReplayIInv` uses them for
the step. `Refinement` rests on two more lemmas: `SameAnswer`, `Accepts` is
`Fresh` of the ids the mask stands for, and `SameMemory`, those ids become what
`AntiReplay` makes of its set.

**`BufferPoolProofs`.** `IInv` joins types, `SingleOwner` and `NoLeak` with
`Conserved`, the buffers in both queues and in hand add up to `PoolSize`, and
`Filled`, every buffer outside the free queue holds a value. `Conserved` is what
bounds the queues: whoever holds a buffer finds both short of full (lemma `Room`,
theorem `QueuesHaveRoom`). With that the branches for a full queue are out, and
`Refinement` maps `Claim`, `Exhausted`, `Publish`, `Consume` and `Release` to
`Begin`, `Refuse`, `Commit`, `Take` and `Done`; `Filled` makes the refinement
mapping tell a held value from no value.

**`FrameChecksProofs`.** The two checks a frame passes on its way in. *Blacklist:*
`OwnFailuresOnly` rests on `AllEarned`: what an entry counts, its peer has failed in a
row, also after a take-over, which starts at 0. The reach of the finding is
`FirewallInv`: a peer is blocked by its third failure, and no entry counts more than one,
because the look-up before each failure clears it. *Epoch key:* `EpochKeys` is for
every set of epochs and any number of changes. While the cores never were in two epochs
at once (`mixed` is false), all tasks at work are in one epoch (`OneEpochAtWork`), a task
past its check finds the key of that epoch (`KeyReady`), and the label is that of the key
unless somebody is about to write it (`LabelTrue`). A change of epoch begins with both
tasks idle, where `LabelTrue` makes the next check right whatever the new epoch is. Once
`mixed` is true nothing is promised, and nothing holds.

**`KeyVaultProofs`.** That a promised key loads needs to know what the key of the
next boot will be before there is one: `BootKey`, the eFuse salt or the stored
one. `KeptKeys` says that promised blobs are sealed under it, `KeptSecret` that
the HMAC secret is sealed under zeros, `BootKeyInUse` that an unlocked node works
with `BootKey`, and `BootOrder` that `Messenger::init` works with zeros.
`LockedWipe` takes wipes out of these: a locked node promises nothing. `SaltsDrawn`
and `EmptyVault` serve `WipedSaltsStayDead` and `WipeSecretsFirst`, `BurstCounted`
`FloodLocks`. There is one lemma per action or group of actions, and `PanicIInv`
for the panic that three of them contain.

**`LatticeProofs`.** `WordsSuffice`: no value the computation stores leaves an
`int16_t` and no product the range `montgomery_reduce` is made for, for both
dimensions and every key, noise and ciphertext that the unpackers can produce. The
invariant `Ranges` gives each vector the range it has in each turn of each loop:
a layer of `ntt`, which reduces nothing, adds less than Q to it, a product is below
2Q, a reduction leads back to Q. `MontgomerySmall` and `BarrettSmall` are the
reductions, `NttLayerRange`, `InvLayerRange`, `BaseMulRange` and `AccumulateRange` the
loops. That the result is the right one (`Decrypts`) is checked on inputs only. `FewCandidatesPass`: for every coefficient, a candidate
that passes the check of the low part has a `w - cs2` in one of the intervals `Fits` names
(`CaddqRange`, `SmallLowPart`). `PackingKeeps`: `FieldsComeBack` for every number of
coefficients (a multiple of 8 where the code fixes it) from the range of their packer. A
field is looked at in the three bytes `Unpacked` reads. There the fields on its low side
add up to less than the bit it begins at (`LowFields`, by `LowStep`), those on its high side
to a multiple of the bit it ends at (`Multiples`, `TermHigh`), and its own part is the field
times its first bit (`TermOwn`); shifted down and cut to its width, the sum is the field
(`Extract`, `UnpackedIs`). Which side is which is the bit order (`LowFirst`, `HighFirst`).
The twelve pairs enter in two places: `PairsAgree`, that reading the field of a coefficient
gives it back, but for its sign where that is restored, and `ReadableIs`, that only an odd last
12-bit coefficient lacks bits. `SumExists` and `FilledIs` give the recursion its equations.

**`MessengerProofs`.** Everything rests on `TypeInv`: types, `Holding` (network_task
has a message wherever it is not idle, a fragment of it inside the loop, and from
`NetPrepare` on a frame that is no ACK) and `Counted` (a counter is at most the
number of calls past `FirstId`, so it stays inside `MaxMsgId`). Four invariants are
added to it, each preserved on its own, and a refinement rests on the first two:
- `Remembered`: every id this boot let through is marked in its peer's record or lies
  at or behind the window. `UpdatedRemembers` says that `Updated` keeps that for all
  ids and adds the new one; `RegisterOnce` uses that no two peers share a slot.
- `AckInv`: `AckMeansStored` itself, and `Addressed`, that what a node takes from its
  queue was sent to it, which makes the ACK's sender the node that stored the data.
- `AgeInv`: the counter of a node has passed the ids drawn for all the messages it
  still holds, in `send_reliable`, in the queue and in `network_task`, and no frame is
  older than its message. A reboot, the one step that takes the counter back, drops
  those messages with it.
- `RingInv`: the ring holds at most one fragment, and only between the store and the
  read that ends the iteration.

`DeliveryRefined` maps `send_reliable` to `Send`, the store of `CryptoData` to `Deliver`,
`Reboot` to `Restart`, and everything else to a stutter. The hard part of `Deliver` is that
the fragment is not in store already. A retry keeps the frame, and with it the id, so it is
enough that a fragment is on the air as one frame: then the frame would have passed before,
which `Remembered` excludes (`PassesOnce`). That a fragment has one frame is part of
`SentInv`, which follows each message: it is in the hands of its sender once (`Holds`), no
frame of it exists before `network_task` takes it, and after that only of the fragments
`network_task` is at or past (`Behind`). A reboot keeps this, because a message that was
lost with the RAM is not taken up again. `HeardInv` ties the store to the air: what is
stored came from a frame that passed.

`PoolsServed` joins this model to that of the pools. `send_reliable`,
`send_reliable_queue`, `NetTake` and `NetReturn` are `Begin`, `Commit`, `Take` and `Done` of
the send pool; `on_data_recv`, the three steps that take a frame and `CryptoFinish` are
`Put`, `Take` and `Done` of the receive pool; every other step leaves both alone or is a
reset. `HandsInv`, that a task is idle exactly when it has no content in hand, makes the
places the code counts (`SendBuffers`, `RecvBuffers`) the places `BoundedFifo` counts
(`SendInUse`, `RecvInUse`).

**`SketchProofs`.** `ExchangesAgree` is one calculation: `Decaps` finds the secret, the
public key and the hash in the key that `KeyPair` laid out, so it encrypts what was
encrypted. `NeverVerified` needs to know what lies in `data.pk` when `verify` reads it:
`KyberKeyInPlace` says a Kyber key, which has the part `t` and none of `t1`.
`OnlySignedCuts` rests on `BlockTells`, that two sponges squeeze the same block only if
they absorbed the same chunks, so one hash belongs to one cut; `UpdateInv` keeps the
state of the sponge equal to that of the chunks fed and the signature to a release or
to one of another key (`RefusesOtherKey`).

**`UnifiedMainProofs`.** `PlatformInv` has three parts, each preserved on its own.
- *Memory*, `MainInv`. `Layout` computes the offsets of the struct from the sizes of its
  fields; what `Store` leaves and what `Load` finds are the lemmas `Stored`,
  `StoredElsewhere`, `LoadWhole`, `LoadPlain` and `LoadInside`. `Kept` says that no two
  extents overlap, that the vector of the secret key is in its place, and that the seed of
  the public key can be read as a whole. `Sent` is what encapsulation leaves for the step
  after it: a ciphertext made with a whole public key, and a secret that was not derived
  from a mixture of bytes. `z` is such a mixture once the ciphertext lies over it, so
  `DecapsRejects` gets a different secret. `Untried` and `Explained` serve the overruns.
  `SecretsDisagree`, which the theorem `ExchangeFails` states, is by itself not inductive,
  since it is silent until both sides have a secret.
- *UART*, `UartInv`. While no byte was overtaken there is a chain of bytes, each the next
  one of its frame or the first of a later frame, from the last byte the receiver has taken
  to the last one sent (`Stream`, `Chain`). The second may be in the buffer of the
  interrupt, the others are on the line (`OnTheWay`), and `Reached` says what state of the
  automaton the first one stands for: inside a frame its buffer holds the packet up to
  there, behind the cut it has delivered what the frames so far yield. `SendStep`,
  `ArriveStep` and `ReadStep` move the chain; `TakesNext` is the `switch` of
  `receive_frame` on one byte of it. `EncodedIs` says what `send_frame` makes of any packet:
  up to the cut its own bytes, at the cut 0x55. `FramesArriveCut` and, for packets that have
  nothing to escape (`PlainYields`), `PlainFramesDelivered` follow.
- *Counters*, `Bounded`.

`FlattenSeq`, in which the frames and the escaped bytes are put together, is a recursive
function. Its equations come from `SetInduction`: a set with 0 and every successor holds
every number, because what it lacks would have a least element (`WFMin` of the library).
That induction is over a set, so it needs no theorem with an operator as a parameter; it
also serves `BodyIs`, which follows the encoding byte by byte, and, in `LatticeProofs`, the
sums over the fields of a byte.

*Assumptions.* Those of the modules. The ones with content: no two peers share a slot
(`Messenger`; `ReplayWindow` is without it), an image is cut into chunks
one after the other (`Sketch`), packets are pairs of byte sequences (`UnifiedMain`), and a
packer is given coefficients from the range its callers have (`BitPacking`, `Pairs`). For
the bounded counters of `Messenger` and `UnifiedMain` the theorems hold for every bound, and
for the receive buffer of the UART for every size.

*What the properties leave out.* `SavedKeysLoad`, `SecretSurvives` and `WipeSecretsFirst` speak
of runs in which no NVS call failed (`faulty`), since the code ignores most of the
results, and promise nothing for keys a locked node saves: it seals them under a master
key whose salt is gone.

*Only model-checked.* Liveness (`BuffersReturn`, `SendsFinish`, `SignEnds`), which is out of
the prover's reach; `Decrypts`, which speaks of the result of a computation of 256
coefficients; `SignatureIntact`; and the seven violations, which are refutations.

## 6. Not modelled, and why

- The transforms of `dilithium_ntt.cpp`: products of two 23-bit numbers exceed the
  integers of TLC, and a modified multiplication would not be the code's. With them
  the challenge, `use_hint` and the hint decoder.
- Sampling from hashes, the Keccak permutation and the ciphers transform data and keep no
  state between calls; the entropy estimate is floating point, and the DRBG is a
  library. Their results are inputs or choices of the models.
- Whether a candidate signature is accepted is probabilistic.
- Code without callers: `deallocate`, `shutdown_platform`, `secure_clear_region`,
  `MemoryOptimizer`, `MemoryMonitor`, `save_config_uint32`, `clear_logs`,
  `set_admin_mode`, `request_admission`, `test_anti_tamper` (commented out), the user
  callback of the UART.
- The wrappers for memory, log and time pass calls on to SDKs. `kyber.cpp` is an
  older copy of `kyber_modular.cpp`. The content of log records and of serial output
  is left out throughout.
