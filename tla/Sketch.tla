------------------------------- MODULE Sketch -------------------------------
(***************************************************************************)
(* The demonstration of kyber_dilithium.ino: the tests that setup() runs    *)
(* once and loop() every 15 seconds, in the workspace each test allocates,  *)
(* the rejection loop of Dilithium2::sign, the failures they report to      *)
(* SecurityOfficer, and OTAGuard, whose streaming functions an updater may  *)
(* call while loop() waits (no code of the repository calls them).          *)
(***************************************************************************)
EXTENDS KyberKEM, OTAGuard, SecurityOfficer

CONSTANTS
    NonceLimit,     \* 2^16, the range of the nonce in sign
    MaskPolys,      \* polynomials of a mask, DILITHIUM2_L
    Images,         \* what the manufacturer has signed: sequences of chunks
    MaxFed          \* bound: chunks per streamed update

ASSUME SketchAssumption ==
    /\ {NonceLimit, MaskPolys} \subseteq Nat \ {0}
    /\ NonceLimit % MaskPolys = 0
    /\ MaxFed \in Nat
    /\ \A cut \in Images : cut \in Seq(Range(cut))

VARIABLES
    doing,         \* the next step
    inSetup,       \* the tests are those of setup()
    data,          \* data.pk .. data.ss of the workspace of the running test
    nonce,         \* in sign
    accepts,       \* in sign: the nonces whose candidate is accepted
    locked, failed_attempts,
    agreed,        \* history: encaps and decaps of the last exchange returned one secret
    peers          \* trusted peers

sketchVars == <<doing, inSetup, data, nonce, accepts, locked, failed_attempts, agreed, peers>>
demoVars == <<otaVars, sketchVars>>

signer == <<nonce, accepts>>
officer == <<locked, failed_attempts>>

Zeros == [zeros |-> TRUE]
ClearData == [pk |-> Zeros, sk |-> Zeros, sig |-> Zeros, ct |-> Zeros, ss |-> Zeros]

SketchInit ==
    /\ OtaInit
    /\ doing = "kyber"
    /\ inSetup = TRUE
    /\ data = ClearData
    /\ nonce = 0
    /\ accepts = {}
    /\ locked = FALSE
    /\ failed_attempts = 0
    /\ agreed = TRUE
    /\ peers = {}

(***************************************************************************)
(* SecurityOfficer, as the tests call it                                   *)
(***************************************************************************)
\* check_entropy_lock at the start of keypair may lock the system; keypair goes on.
KeyMade == locked' \in {locked, TRUE} /\ UNCHANGED failed_attempts

\* report_signature_result(success), a failure within 30 s of the one before or later;
\* panic_wipe locks.
ReportResult(success) ==
    IF success
    THEN /\ failed_attempts' = AfterSuccess(failed_attempts)
         /\ UNCHANGED locked
    ELSE \E quick \in BOOLEAN :
            /\ failed_attempts' = AfterFailure(failed_attempts, quick)
            /\ locked' = (locked \/ Panics(failed_attempts, quick))

(***************************************************************************)
(* Dilithium2::sign: one attempt draws a mask of MaskPolys polynomials      *)
(***************************************************************************)
Attempts == {n \in 0 .. NonceLimit - 1 : n % MaskPolys = 0}

\* Mutant of NextNonce: the nonce does not advance.
NextNonceStays(n) == n

\* nonce++ for every polynomial, in 16 bits.
NextNonce(n) == (n + MaskPolys) % NonceLimit

\* Which candidates are accepted depends on key, message and mask, and is not changed by
\* the loop.
StartSign ==
    /\ nonce' = 0
    /\ accepts' \in SUBSET Attempts

Rejected(where) ==
    /\ doing = where
    /\ nonce \notin accepts
    /\ nonce' = NextNonce(nonce)
    /\ UNCHANGED <<otaVars, doing, inSetup, data, accepts, officer, agreed, peers>>

\* The candidate is the signature, and the loop's variables are gone.
Accepted(where) ==
    /\ doing = where
    /\ nonce \in accepts
    /\ nonce' = 0
    /\ accepts' = {}

SignSteps == {"dilithium_sign", "auth_sign", "ota_sign", "handshake_sign"}
SignAgain == \E where \in SignSteps : Rejected(where)

(***************************************************************************)
(* The tests                                                               *)
(***************************************************************************)
After == [kyber |-> "dilithium", dilithium |-> "auth", auth |-> "adaptive", ota |-> "handshake",
          handshake |-> "wait"]
AfterAdaptive == IF inSetup THEN "ota" ELSE "wait"
Leave(test) == IF test = "adaptive" THEN AfterAdaptive ELSE After[test]

\* "Bellek yetersiz (OOM)!": a test that gets no workspace returns.
OutOfMemory(test) ==
    /\ doing = test
    /\ doing' = Leave(test)
    /\ inSetup' = (inSetup /\ test # "handshake")
    /\ UNCHANGED <<otaVars, data, signer, officer, agreed, peers>>

\* test_kyber compares the secret with itself. Its workspace is cleared when it returns.
TestKyber ==
    /\ doing = "kyber"
    /\ LET keys     == Kyber512KeyPair("kyber")
           exchange == Kyber512Encaps(keys.pk, "kyber")
       IN  agreed' = (exchange.ss = Kyber512Decaps(exchange.ct, keys.sk))
    /\ KeyMade
    /\ doing' = "dilithium"
    /\ UNCHANGED <<otaVars, inSetup, data, signer, peers>>

\* test_adaptive: the probe decides between the two parameter sets. Kyber768 checks no entropy.
TestAdaptive ==
    /\ doing = "adaptive"
    /\ \/ LET keys     == Kyber768KeyPair("adaptive")
              exchange == Kyber768Encaps(keys.pk, "adaptive")
          IN  /\ agreed' = (exchange.ss = Kyber768Decaps(exchange.ct, keys.sk))
              /\ UNCHANGED officer
       \/ LET keys     == Kyber512KeyPair("adaptive")
              exchange == Kyber512Encaps(keys.pk, "adaptive")
          IN  /\ agreed' = (exchange.ss = Kyber512Decaps(exchange.ct, keys.sk))
              /\ KeyMade
    /\ doing' = AfterAdaptive
    /\ UNCHANGED <<otaVars, inSetup, data, signer, peers>>

\* test_dilithium makes a signature and does not verify it.
DilithiumKeys ==
    /\ doing = "dilithium"
    /\ LET keys == DilithiumKeyPair("dilithium")
       IN  data' = [ClearData EXCEPT !.pk = keys.pk, !.sk = keys.sk]
    /\ KeyMade
    /\ StartSign
    /\ doing' = "dilithium_sign"
    /\ UNCHANGED <<otaVars, inSetup, agreed, peers>>

DilithiumSigned ==
    /\ Accepted("dilithium_sign")
    /\ data' = ClearData
    /\ doing' = "auth"
    /\ UNCHANGED <<otaVars, inSetup, officer, agreed, peers>>

SignedText == [text |-> <<"message">>]

\* test_authenticated_encryption: the message is signed ..
AuthKeys ==
    /\ doing = "auth"
    /\ LET keys == DilithiumKeyPair("auth")
       IN  data' = [ClearData EXCEPT !.pk = keys.pk, !.sk = keys.sk]
    /\ KeyMade
    /\ StartSign
    /\ doing' = "auth_sign"
    /\ UNCHANGED <<otaVars, inSetup, agreed, peers>>

AuthSigned ==
    /\ Accepted("auth_sign")
    /\ data' = [data EXCEPT !.sig = DilithiumSignature(SignedText, data.sk)]
    /\ doing' = "auth_kyber"
    /\ UNCHANGED <<otaVars, inSetup, officer, agreed, peers>>

\* .. encrypted under a secret whose Kyber keys take the place of the Dilithium keys ..
AuthKyber ==
    /\ doing = "auth_kyber"
    /\ LET keys     == Kyber512KeyPair("auth")
           exchange == Kyber512Encaps(keys.pk, "auth")
       IN  data' = [data EXCEPT !.pk = keys.pk, !.sk = keys.sk,
                                !.ct = exchange.ct, !.ss = exchange.ss]
    /\ KeyMade
    /\ doing' = "auth_verify"
    /\ UNCHANGED <<otaVars, inSetup, signer, agreed, peers>>

\* .. and verified with what is now in data.pk. Locked, the test "wipes" a workspace it
\* allocates for it; its own is cleared by the destructor in any case.
AuthVerify ==
    /\ doing = "auth_verify"
    /\ \E ok \in DilithiumVerify(data.sig, SignedText, data.pk) :
         ReportResult(ok)
    /\ data' = ClearData
    /\ doing' = "adaptive"
    /\ UNCHANGED <<otaVars, inSetup, signer, agreed, peers>>

Firmware == <<"firmware">>

\* test_ota_verification signs the firmware itself, OTAGuard verifies a hash of it.
OtaKeys ==
    /\ doing = "ota"
    /\ SetRootPk(DilithiumKeyPair("root").pk)
    /\ KeyMade
    /\ StartSign
    /\ doing' = "ota_sign"
    /\ UNCHANGED <<inSetup, data, agreed, peers>>

FirmwareSignature == DilithiumSignature([text |-> Firmware], DilithiumKeyPair("root").sk)

OtaVerify ==
    /\ Accepted("ota_sign")
    /\ \E result \in BOOLEAN :
         /\ VerifyUpdate(FirmwareSignature, Firmware, result)
         /\ IF result THEN UNCHANGED officer ELSE ReportResult(FALSE)
    /\ doing' = "handshake"
    /\ UNCHANGED <<inSetup, data, agreed, peers>>

\* TrustManager: a certificate is a signature on address and key of the device, made and
\* verified without a workspace of the caller's.
IssueCertificate(mac, pk, admin_sk) == DilithiumSignature([mac |-> mac, pk |-> pk], admin_sk)
VerifyCertificate(cert, mac, pk, admin_pk) ==
    {FALSE} \cup DilithiumVerify(cert, [mac |-> mac, pk |-> pk], admin_pk)

HandshakeKeys ==
    /\ doing = "handshake"
    /\ KeyMade
    /\ StartSign
    /\ doing' = "handshake_sign"
    /\ UNCHANGED <<otaVars, inSetup, data, agreed, peers>>

HandshakeVerify ==
    /\ Accepted("handshake_sign")
    /\ LET admin  == DilithiumKeyPair("admin")
           device == DilithiumKeyPair("device").pk
           cert   == IssueCertificate("device", device, admin.sk)
       IN  \E ok \in VerifyCertificate(cert, "device", device, admin.pk) :
             peers' = IF ok THEN peers \cup {"device"} ELSE peers
    /\ doing' = "wait"
    /\ inSetup' = FALSE
    /\ UNCHANGED <<otaVars, data, officer, agreed>>

\* loop() returns at once when the system is locked.
LoopRound ==
    /\ doing = "wait"
    /\ ~locked
    /\ doing' = "kyber"
    /\ UNCHANGED <<otaVars, inSetup, data, signer, officer, agreed, peers>>

(***************************************************************************)
(* The updater                                                             *)
(***************************************************************************)
\* The manufacturer's signature on an image that was hashed in the chunks of cut, one
\* absorption for each.
SpongeOf(cut) ==
    [calls |-> [i \in DOMAIN cut |-> [input |-> cut[i], turns |-> 0]], turns |-> 0]
HashOf(cut) == FirmwareHash(SpongeOf(cut))
Releases == {DilithiumSignature(HashOf(cut), DilithiumKeyPair("root").sk) : cut \in Images}
Forged == DilithiumSignature(HashOf(<<Firmware>>), DilithiumKeyPair("device").sk)
Chunks == UNION {Range(cut) : cut \in Images} \cup {<<>>}

UpdateBegin == \E sig \in Releases \cup {Forged} : OtaBegin(sig)
UpdateChunk == Len(fed) < MaxFed /\ \E chunk \in Chunks : OtaChunk(chunk)

Updater ==
    /\ doing = "wait"
    /\ ~locked
    /\ \/ (UpdateBegin \/ UpdateChunk) /\ UNCHANGED officer
       \/ \E result \in BOOLEAN :
             /\ OtaComplete(result)
             /\ IF result THEN UNCHANGED officer ELSE ReportResult(FALSE)
    /\ UNCHANGED <<doing, inSetup, data, signer, agreed, peers>>

Tests == {"kyber", "dilithium", "auth", "adaptive", "ota", "handshake"}

Program ==
    \/ TestKyber \/ TestAdaptive
    \/ DilithiumKeys \/ DilithiumSigned
    \/ AuthKeys \/ AuthSigned \/ AuthKyber \/ AuthVerify
    \/ OtaKeys \/ OtaVerify
    \/ HandshakeKeys \/ HandshakeVerify
    \/ LoopRound
    \/ SignAgain

ShortOfMemory == \E test \in Tests : OutOfMemory(test)

SketchNext == Program \/ ShortOfMemory \/ Updater

\* The task goes on, whether memory is short or not.
SketchSpec == SketchInit /\ [][SketchNext]_demoVars /\ WF_demoVars(Program \/ ShortOfMemory)

(***************************************************************************)
(* Properties                                                              *)
(***************************************************************************)
\* A secret encapsulated with either parameter set is the one decaps returns, in the
\* layout of workspace.h (test_kyber, test_adaptive_authenticated_encryption).
KemAgrees == agreed

\* kyber_dilithium.ino:89: "Demoda bufferlar bozulmuyor", no buffer is spoilt in the demo,
\* and a success is expected at lines 99-111: the signature in data.sig is one that verify
\* may accept with what is in data.pk. Line 73 has put the Kyber keys there.
MessageVerifiable ==
    doing = "auth_verify" => DilithiumVerify(data.sig, SignedText, data.pk) # {FALSE}

\* An update is accepted only if the root key has signed the hash of exactly the chunks
\* that were fed since begin: the same bytes cut differently are refused, and so is an
\* image signed as test_ota_verification signs it.
OtaAcceptsOnlySignedCut ==
    acceptedUpdate # NoUpdate =>
        \E cut \in Images :
            /\ acceptedUpdate.chunks = cut
            /\ acceptedUpdate.sig = DilithiumSignature(HashOf(cut), DilithiumKeyPair("root").sk)

\* The rejection loop ends if it has any candidate to accept, whichever: the nonces of
\* its attempts run through all multiples of L before one comes back (dilithium.cpp:260).
SignEnds == \A where \in SignSteps : (doing = where /\ accepts # {}) ~> doing # where
=============================================================================
