---------------------------- MODULE UnifiedMain ----------------------------
(***************************************************************************)
(* The cross-platform program of main_unified.cpp on one of its boards: the *)
(* initialisation of platform_factory.cpp, the five tests that setup() or   *)
(* main() runs and the two that are repeated every 30 seconds, with the      *)
(* workspace they write their keys to and the UART the STM32 receives from. *)
(***************************************************************************)
EXTENDS UnifiedWorkspace, UARTTransport, KyberKEM, Dilithium

CONSTANTS
    Packets,      \* <<address, data>>: what peers send
    BreakPoints,  \* bound: where a transmission may time out, in bytes
    MaxEvents     \* bound: frames of peers, repetitions of the main loop and calls of
                  \* Kyber or Dilithium that get no memory, taken together

ASSUME MainAssumption ==
    /\ {MaxEvents} \cup BreakPoints \subseteq Nat
    /\ Packets \subseteq Seq(Byte) \X Seq(Byte)

VARIABLES
    pc,           \* the next step of the program
    looping,      \* setup() has ended
    rounds,       \* repetitions so far
    networkUp,    \* Network->init() has returned true
    draws,        \* random values drawn so far
    starved,      \* calls that got no memory so far
    scratch,      \* test_ss
    kem,          \* history: the key pair, and the secrets of the first exchange
    reports       \* results that were printed: test -> result

mainVars == <<pc, looping, rounds, networkUp, draws, starved, scratch, kem, reports>>
vars == <<wsVars, uartVars, mainVars>>

Nothing == [nothing |-> TRUE]        \* a local variable nobody has written to
NoSecrets == [keys |-> Nothing, sent |-> Nothing, got |-> Nothing]

Init ==
    /\ WsInit
    /\ UartInit
    /\ pc = "network_init"
    /\ looping = FALSE
    /\ rounds = 0
    /\ networkUp = FALSE
    /\ draws = 0
    /\ starved = 0
    /\ scratch = Nothing
    /\ kem = NoSecrets
    /\ reports = [test \in {} |-> FALSE]

OneMore == Len(frames) + rounds + starved < MaxEvents

Report(test, result) == reports' = (test :> result) @@ reports

(***************************************************************************)
(* initialize_platform                                                     *)
(***************************************************************************)
\* ESPNowTransport::init may fail, so may the UART's, and the simulation's does not.
EspNowInit == BOOLEAN
UartHardwareInit == BOOLEAN
PcNetworkInit == {TRUE}
NetworkInit ==
    CASE board = "ESP32" -> EspNowInit [] board = "STM32" -> UartHardwareInit [] OTHER -> PcNetworkInit

\* A failure ends main(); on the ESP32 it ends setup(), and loop() is called all the same.
SetupFails ==
    /\ pc' = IF board = "ESP32" THEN "idle" ELSE "stopped"
    /\ looping' = (board = "ESP32")

\* The factories and Platform->init cannot fail.
InitNetwork ==
    /\ pc = "network_init"
    /\ \E ok \in NetworkInit :
         /\ networkUp' = ok
         /\ IF ok THEN pc' = "allocate" /\ UNCHANGED looping ELSE SetupFails
    /\ UNCHANGED <<wsVars, uartVars, rounds, draws, starved, scratch, kem, reports>>

\* Storage->init and Logger->init return true everywhere; then the workspace.
AllocateWorkspace ==
    /\ pc = "allocate"
    /\ \E got \in {0, Size, Size \div 2} : Allocate(got)
    /\ IF block' > 0 THEN pc' = "memory" /\ UNCHANGED looping ELSE SetupFails
    /\ UNCHANGED <<uartVars, rounds, networkUp, draws, starved, scratch, kem, reports>>

(***************************************************************************)
(* test_cross_platform_memory, test_cross_platform_storage                 *)
(***************************************************************************)
MemoryTest ==
    /\ pc = "memory"
    /\ Report("memory", IF IsAllocated THEN FreeSize ELSE 0)
    /\ pc' = "storage"
    /\ UNCHANGED <<wsVars, uartVars, looping, rounds, networkUp, draws, starved, scratch, kem>>

\* save_key and load_key of the three storage interfaces.
EspStorage == FALSE
Stm32Storage == FALSE
PcStorage == FALSE
StorageResult ==
    CASE board = "ESP32" -> EspStorage [] board = "STM32" -> Stm32Storage [] OTHER -> PcStorage

\* The key would be compared if it could be loaded.
StorageTest ==
    /\ pc = "storage"
    /\ Report("storage", StorageResult)
    /\ pc' = "kyber"
    /\ UNCHANGED <<wsVars, uartVars, looping, rounds, networkUp, draws, starved, scratch, kem>>

(***************************************************************************)
(* test_cross_platform_kyber. Each function takes a workspace of its own    *)
(* and returns -1, its outputs unwritten, when it gets none; no result of   *)
(* these functions is looked at.                                            *)
(***************************************************************************)
NoMemory == OneMore /\ starved' = starved + 1

\* What a function reads of a key or a ciphertext.
LoadPk == [t |-> Load(In("kyber_pk", 0, 768)), rho |-> Load(In("kyber_pk", 768, 32))]
LoadSk == [ s  |-> Load(In("kyber_sk", 0, 768)),
            pk |-> [t |-> Load(In("kyber_sk", 768, 768)), rho |-> Load(In("kyber_sk", 1536, 32))],
            h  |-> Load(In("kyber_sk", 1568, 32)),
            z  |-> Load(In("kyber_sk", 1600, 32)) ]
LoadCt == Load(In("kyber_ct", 0, 768))

\* keypair writes pk, then sk, part by part; encaps writes the ciphertext, then the secret.
WithPk(m, pk) ==
    Store(Store(m, In("kyber_pk", 0, 768), pk.t), In("kyber_pk", 768, 32), pk.rho)
WithSk(m, sk) ==
    LET vectors == Store(Store(m, In("kyber_sk", 0, 768), sk.s), In("kyber_sk", 768, 768), sk.pk.t)
        seeds   == Store(Store(vectors, In("kyber_sk", 1536, 32), sk.pk.rho),
                         In("kyber_sk", 1568, 32), sk.h)
    IN  Store(seeds, In("kyber_sk", 1600, 32), sk.z)

WriteKeys(keys) ==
    /\ memory' = WithSk(WithPk(memory, keys.pk), keys.sk)
    /\ overruns' = overruns \cup Beyond("kyber_pk", In("kyber_pk", 0, 800), block)
                            \cup Beyond("kyber_sk", In("kyber_sk", 0, 1632), block)
    /\ UNCHANGED <<board, block>>

WriteCtAndSecret(exchange) ==
    /\ memory' = Store(Store(memory, In("kyber_ct", 0, 768), exchange.ct),
                       In("kyber_ss", 0, 32), exchange.ss)
    /\ overruns' = overruns \cup Beyond("kyber_ct", In("kyber_ct", 0, 768), block)
                            \cup Beyond("kyber_ss", In("kyber_ss", 0, 32), block)
    /\ UNCHANGED <<board, block>>

\* The ScopedWorkspace of the test is empty unless the workspace was allocated.
KyberKeypair ==
    /\ pc = "kyber"
    /\ IF ~IsAllocated
       THEN /\ pc' = "dilithium"
            /\ UNCHANGED <<wsVars, draws, starved, kem>>
       ELSE /\ pc' = "encaps"
            /\ \/ /\ WriteKeys(Kyber512KeyPair(draws))
                  /\ draws' = draws + 1
                  /\ kem' = [NoSecrets EXCEPT !.keys = Kyber512KeyPair(draws)]
                  /\ UNCHANGED starved
               \/ /\ NoMemory
                  /\ kem' = [NoSecrets EXCEPT !.keys = kem.keys]
                  /\ UNCHANGED <<wsVars, draws>>
    /\ UNCHANGED <<uartVars, looping, rounds, networkUp, scratch, reports>>

KyberEncaps ==
    /\ pc = "encaps"
    /\ \/ LET exchange == Kyber512Encaps(LoadPk, draws)
          IN  /\ WriteCtAndSecret(exchange)
              /\ draws' = draws + 1
              /\ kem' = [kem EXCEPT !.sent = exchange.ss]
              /\ UNCHANGED starved
       \/ NoMemory /\ UNCHANGED <<wsVars, draws, kem>>
    /\ pc' = "decaps"
    /\ UNCHANGED <<uartVars, looping, rounds, networkUp, scratch, reports>>

KyberDecaps ==
    /\ pc = "decaps"
    /\ \/ LET secret == Kyber512Decaps(LoadCt, LoadSk)
          IN  /\ Write("kyber_ss", 32, secret)
              /\ kem' = [kem EXCEPT !.got = secret]
              /\ UNCHANGED starved
       \/ NoMemory /\ UNCHANGED <<wsVars, kem>>
    /\ pc' = "encaps_again"
    /\ UNCHANGED <<uartVars, looping, rounds, networkUp, draws, scratch, reports>>

\* The second exchange goes to test_ss, on the stack.
KyberEncapsAgain ==
    /\ pc = "encaps_again"
    /\ \/ LET exchange == Kyber512Encaps(LoadPk, draws)
          IN  /\ Write("kyber_ct", 768, exchange.ct)
              /\ scratch' = exchange.ss
              /\ draws' = draws + 1
              /\ UNCHANGED starved
       \/ NoMemory /\ scratch' = Nothing /\ UNCHANGED <<wsVars, draws>>
    /\ pc' = "decaps_again"
    /\ UNCHANGED <<uartVars, looping, rounds, networkUp, kem, reports>>

KyberDecapsAgain ==
    /\ pc = "decaps_again"
    /\ \/ scratch' = Kyber512Decaps(LoadCt, LoadSk) /\ UNCHANGED starved
       \/ NoMemory /\ UNCHANGED scratch
    /\ pc' = "compare"
    /\ UNCHANGED <<wsVars, uartVars, looping, rounds, networkUp, draws, kem, reports>>

\* memcmp, whose result an unwritten test_ss leaves open; log_error writes 0 or 32. Then
\* the destructor of ScopedWorkspace clears.
KyberCompare ==
    /\ pc = "compare"
    /\ \E success \in BOOLEAN :
         /\ scratch # Nothing => success = (Load(In("kyber_ss", 0, 32)) = scratch)
         /\ Report("kyber", IF success THEN 0 ELSE 32)
    /\ SecureClear
    /\ pc' = "dilithium"
    /\ UNCHANGED <<uartVars, looping, rounds, networkUp, draws, starved, scratch, kem>>

(***************************************************************************)
(* test_cross_platform_dilithium                                           *)
(***************************************************************************)
TestMessage == "Cross-Platform PQC Test Message"

AfterDilithium == IF looping THEN "idle" ELSE "send"

DilithiumKeypair ==
    /\ pc = "dilithium"
    /\ IF ~IsAllocated
       THEN pc' = AfterDilithium /\ UNCHANGED <<wsVars, draws, starved>>
       ELSE /\ pc' = "sign"
            /\ \/ LET keys == DilithiumKeyPair(draws)
                  IN  /\ memory' = Store(Store(memory, In("dilithium_pk", 0, 1312), keys.pk),
                                         In("dilithium_sk", 0, 2528), keys.sk)
                      /\ overruns' = overruns
                             \cup Beyond("dilithium_pk", In("dilithium_pk", 0, 1312), block)
                             \cup Beyond("dilithium_sk", In("dilithium_sk", 0, 2528), block)
                      /\ draws' = draws + 1
                      /\ UNCHANGED <<board, block, starved>>
               \/ NoMemory /\ UNCHANGED <<wsVars, draws>>
    /\ UNCHANGED <<uartVars, looping, rounds, networkUp, scratch, kem, reports>>

\* Only a key that keypair has written is signed with; the zeros before that are a key too,
\* of which nothing is known.
DilithiumSign ==
    /\ pc = "sign"
    /\ LET sk == Load(In("dilithium_sk", 0, 2528))
       IN  \/ /\ "tr" \in DOMAIN sk
              /\ Write("dilithium_sig", 2420, DilithiumSignature(TestMessage, sk))
              /\ UNCHANGED starved
           \/ /\ "tr" \notin DOMAIN sk
              /\ Write("dilithium_sig", 2420, [signed |-> sk])
              /\ UNCHANGED starved
           \/ NoMemory /\ UNCHANGED wsVars
    /\ pc' = "verify"
    /\ UNCHANGED <<uartVars, looping, rounds, networkUp, draws, scratch, kem, reports>>

DilithiumVerifyStep ==
    /\ pc = "verify"
    /\ \/ /\ \E success \in DilithiumVerify(Load(In("dilithium_sig", 0, 2420)), TestMessage,
                                            Load(In("dilithium_pk", 0, 1312))) :
                Report("dilithium", IF success THEN 0 ELSE 2420)
          /\ UNCHANGED starved
       \/ NoMemory /\ Report("dilithium", 2420)
    /\ SecureClear
    /\ pc' = AfterDilithium
    /\ UNCHANGED <<uartVars, looping, rounds, networkUp, draws, scratch, kem>>

(***************************************************************************)
(* test_cross_platform_communication                                       *)
(***************************************************************************)
\* esp_now_send and the UART may fail; the simulation sends nothing and returns true.
EspSend == BOOLEAN
Stm32Send == BOOLEAN
PcSend == {TRUE}
SendResults == CASE board = "ESP32" -> EspSend [] board = "STM32" -> Stm32Send [] OTHER -> PcSend

SendTest ==
    /\ pc = "send"
    /\ \E sent \in SendResults : Report("send", sent)
    /\ pc' = "receive"
    /\ UNCHANGED <<wsVars, uartVars, looping, rounds, networkUp, draws, starved, scratch, kem>>

\* receive_raw of the ESP32 and receive_packet of the simulation return false at once.
ReceiveNothing ==
    /\ pc = "receive"
    /\ board # "STM32"
    /\ Report("receive", FALSE)
    /\ pc' = "idle"
    /\ looping' = TRUE
    /\ UNCHANGED <<wsVars, uartVars, rounds, networkUp, draws, starved, scratch, kem>>

ReceiveTest ==
    /\ pc = "receive"
    /\ board = "STM32"
    /\ ReceiveCall
    /\ pc' = "receiving"
    /\ UNCHANGED <<wsVars, looping, rounds, networkUp, draws, starved, scratch, kem, reports>>

ReceiveDone ==
    /\ pc = "receiving"
    /\ polling = "out"
    /\ Report("receive", delivered # <<>>)
    /\ pc' = "idle"
    /\ looping' = TRUE
    /\ UNCHANGED <<wsVars, uartVars, rounds, networkUp, draws, starved, scratch, kem>>

(***************************************************************************)
(* The main loop, and the peers on the UART                                *)
(***************************************************************************)
Repeat ==
    /\ pc = "idle"
    /\ OneMore
    /\ rounds' = rounds + 1
    /\ pc' = "kyber"
    /\ UNCHANGED <<wsVars, uartVars, looping, networkUp, draws, starved, scratch, kem, reports>>

\* Bound: peers send during the communication test.
PeerFrame ==
    /\ board = "STM32"
    /\ pc \in {"send", "receive", "receiving"}
    /\ OneMore
    /\ \E p \in Packets : \E n \in BreakPoints \cup {Len(Encoded(p[1] \o p[2]))} :
           PeerSends(p[1], p[2], n)

Uart == PeerFrame \/ RxCplt \/ PollClear \/ PollRead \/ ReceiveTimeout

Next ==
    \/ InitNetwork \/ AllocateWorkspace
    \/ MemoryTest \/ StorageTest
    \/ KyberKeypair \/ KyberEncaps \/ KyberDecaps
    \/ KyberEncapsAgain \/ KyberDecapsAgain \/ KyberCompare
    \/ DilithiumKeypair \/ DilithiumSign \/ DilithiumVerifyStep
    \/ SendTest \/ ReceiveNothing \/ ReceiveTest \/ ReceiveDone
    \/ Repeat
    \/ (Uart /\ UNCHANGED <<wsVars, mainVars>>)

Spec == Init /\ [][Next]_vars

(***************************************************************************)
(* Properties                                                              *)
(***************************************************************************)
\* The types of the program's own variables and of the UART's; extents never overlap.
TypeOK ==
    /\ board \in Boards
    /\ block \in {0, Size} \cup (IF board = "STM32" THEN {Size \div 2} ELSE {})
    /\ \A e, f \in DOMAIN memory : e[1] < e[2] /\ (e # f => ~Overlap(e, f))
    /\ rounds \in 0 .. MaxEvents
    /\ {looping, networkUp} \subseteq BOOLEAN
    /\ UartTypeOK
    /\ polling # "out" => pc = "receiving"

\* test_cross_platform_kyber, which verifies the exchange (main_unified.cpp:78-84): with
\* memory for every call, decaps returns the secret of encaps. The secret key of Kyber512
\* is 1632 bytes and its field has 1536 (workspace_unified.h:48), so encaps writes over
\* the end of it, and what decaps returns is the rejection value.
SecretsAgree ==
    starved = 0 /\ kem.sent # Nothing /\ kem.got # Nothing => kem.sent = kem.got

\* The Dilithium test verifies with the key and the signature its keypair and sign have
\* written, in every repetition: of the functions that fill these three fields in turn,
\* and of the clears in between, none touches another one's bytes. Not so on the STM32,
\* whose block ends inside dilithium_sk.
SignatureIntact ==
    pc = "verify" /\ starved = 0 /\ board # "STM32" =>
        TRUE \in DilithiumVerify(Load(In("dilithium_sig", 0, 2420)), TestMessage,
                                 Load(In("dilithium_pk", 0, 1312)))

\* What is written at or beyond the end of the block, and by whom: secure_clear on every
\* board; on the STM32, whose block ends inside dilithium_sk, also the key pair and the
\* signature of Dilithium. Nothing that validate_bounds accepts is among it, except in
\* the half block the STM32 falls back to (allocate, secure_clear, validate_bounds).
OverrunsExplained ==
    block = Size =>
        \A w \in overruns :
            /\ ~ValidBounds(w.extent)
            /\ w.by \in {"secure_clear"} \cup
                   (IF board = "STM32" THEN {"dilithium_sk", "dilithium_sig"} ELSE {})
=============================================================================
