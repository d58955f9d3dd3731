---------------------------- MODULE SketchProofs ----------------------------
(***************************************************************************)
(* What the demonstration's tests and OTAGuard can never do, for any images, *)
(* any bounds of the rejection loop and any limits of SecurityOfficer.       *)
(***************************************************************************)
EXTENDS Sketch, TLAPS

(***************************************************************************)
(* Kyber                                                                   *)
(***************************************************************************)
\* Decapsulation finds the message, makes the ciphertext again and returns the secret of
\* encapsulation: for every parameter set, seed and random value.
LEMMA SecretReturns ==
  ASSUME NEW set, NEW seed, NEW random
  PROVE  LET keys     == KeyPair(set, seed)
             exchange == Encaps(set, keys.pk, random)
         IN  exchange.ss = Decaps(set, exchange.ct, keys.sk)
<1> DEFINE keys == KeyPair(set, seed)
           msg  == Hash(random)
           kr   == KeyAndCoins(msg, keys.pk)
           ct   == Enc(set, keys.pk, msg, kr.coins)
<1>1. keys.sk.pk = keys.pk /\ keys.sk.s = keys.pk.t /\ "t" \in DOMAIN keys.pk
  BY DEF KeyPair
<1>2. DOMAIN ct = {"ct"} /\ ct.ct.pk = keys.pk /\ ct.ct.msg = msg
  BY DEF Enc
<1>3. Encaps(set, keys.pk, random) = [ct |-> ct, ss |-> SharedSecret(kr.key, ct)]
  BY DEF Encaps
<1> HIDE DEF keys, msg
<1>4. Dec(ct, keys.sk.s) = msg
  <2> HIDE DEF ct
  <2> QED BY <1>1, <1>2 DEF Dec, IsCipherFor
<1>5. Decaps(set, ct, keys.sk) = SharedSecret(kr.key, ct)
  BY <1>1, <1>4 DEF Decaps
<1> QED BY <1>3, <1>5 DEF keys

\* Every exchange of the tests agrees.
LEMMA AgreedStep == KemAgrees /\ [SketchNext]_demoVars => KemAgrees'
<1> SUFFICES ASSUME agreed, [SketchNext]_demoVars PROVE agreed'
  BY DEF KemAgrees
<1>1. CASE TestKyber
  BY <1>1, SecretReturns DEF TestKyber, Kyber512KeyPair, Kyber512Encaps, Kyber512Decaps
<1>2. CASE TestAdaptive
  BY <1>2, SecretReturns DEF TestAdaptive, Kyber512KeyPair, Kyber512Encaps, Kyber512Decaps,
                             Kyber768KeyPair, Kyber768Encaps, Kyber768Decaps
<1>3. CASE UNCHANGED agreed
  BY <1>3
<1>4. SketchNext => TestKyber \/ TestAdaptive \/ UNCHANGED agreed
  BY DEF SketchNext, Program, ShortOfMemory, Updater, DilithiumKeys, DilithiumSigned, AuthKeys, AuthSigned,
         AuthKyber, AuthVerify, OtaKeys, OtaVerify, HandshakeKeys, HandshakeVerify, LoopRound,
         SignAgain, Rejected, OutOfMemory
<1> QED BY <1>1, <1>2, <1>3, <1>4 DEF demoVars, sketchVars

\* The secret of encapsulation is the one of decapsulation in every test of the sketch
\* (test_kyber, test_adaptive_authenticated_encryption), with either parameter set.
THEOREM ExchangesAgree == SketchSpec => []KemAgrees
<1>1. SketchInit => KemAgrees
  BY DEF SketchInit, KemAgrees
<1> QED BY <1>1, AgreedStep, PTL DEF SketchSpec

(***************************************************************************)
(* The authenticated message                                               *)
(***************************************************************************)
DataFields == {"pk", "sk", "sig", "ct", "ss"}

\* The reach of the finding that MessageVerifiable is violated.
NothingVerifiable ==
  doing = "auth_verify" => \A m : DilithiumVerify(data.sig, m, data.pk) = {FALSE}

\* What is verified is verified with the Kyber key that took the place of the Dilithium key.
KyberKeyInPlace ==
  /\ DOMAIN data = DataFields
  /\ doing = "auth_verify" => "t" \in DOMAIN data.pk

LEMMA KyberKeyStep == KyberKeyInPlace /\ [SketchNext]_demoVars => KyberKeyInPlace'
<1> SUFFICES ASSUME KyberKeyInPlace, [SketchNext]_demoVars PROVE KyberKeyInPlace'
  OBVIOUS
<1> USE DEF KyberKeyInPlace
<1>1. CASE AuthKyber
  <2>1. \A seed : "t" \in DOMAIN Kyber512KeyPair(seed).pk
    BY DEF Kyber512KeyPair, KeyPair
  <2> QED BY <1>1, <2>1 DEF AuthKyber, DataFields
<1>2. CASE AuthVerify
  BY <1>2 DEF AuthVerify, ClearData, DataFields
<1>3. CASE doing' # "auth_verify" /\ DOMAIN data' = DataFields
  BY <1>3
<1>4. CASE UNCHANGED <<doing, data>>
  BY <1>4
<1>5. ASSUME SketchNext
      PROVE  \/ AuthKyber \/ AuthVerify
             \/ UNCHANGED <<doing, data>>
             \/ doing' # "auth_verify" /\ DOMAIN data' = DataFields
  <2>1. CASE ShortOfMemory
    BY <2>1 DEF ShortOfMemory, OutOfMemory, Tests, Leave, After, AfterAdaptive
  <2>2. CASE Updater
    BY <2>2 DEF Updater
  <2>3. CASE TestKyber \/ TestAdaptive \/ LoopRound \/ SignAgain
    BY <2>3 DEF TestKyber, TestAdaptive, AfterAdaptive, LoopRound, SignAgain, Rejected
  <2>4. CASE DilithiumKeys \/ DilithiumSigned \/ AuthKeys
    BY <2>4 DEF DilithiumKeys, DilithiumSigned, AuthKeys, ClearData, DataFields
  <2>5. CASE AuthSigned
    BY <2>5 DEF AuthSigned, DataFields
  <2>6. CASE OtaKeys \/ OtaVerify \/ HandshakeKeys \/ HandshakeVerify
    BY <2>6 DEF OtaKeys, OtaVerify, HandshakeKeys, HandshakeVerify
  <2> QED BY <1>5, <2>1, <2>2, <2>3, <2>4, <2>5, <2>6 DEF SketchNext, Program
<1> QED BY <1>1, <1>2, <1>3, <1>4, <1>5 DEF demoVars, sketchVars

\* How far it reaches: in no round of the authenticated message does verify
\* (kyber_dilithium.ino:90) accept what it is given, whichever message it is asked for.
THEOREM NeverVerified == SketchSpec => []NothingVerifiable
<1>1. SketchInit => KyberKeyInPlace
  BY DEF SketchInit, KyberKeyInPlace, ClearData, DataFields
<1>2. KyberKeyInPlace => NothingVerifiable
  <2> SUFFICES ASSUME KyberKeyInPlace, doing = "auth_verify", NEW m
               PROVE  DilithiumVerify(data.sig, m, data.pk) = {FALSE}
    BY DEF NothingVerifiable
  <2>1. DOMAIN data.pk # {"rho", "t1"}
    BY DEF KyberKeyInPlace
  <2> QED BY <2>1 DEF DilithiumVerify
<1> QED BY <1>1, <1>2, KyberKeyStep, PTL DEF SketchSpec

(***************************************************************************)
(* Updates                                                                 *)
(***************************************************************************)
\* A block of output tells what was absorbed.
LEMMA BlockTells ==
  ASSUME NEW c, NEW d,
         Squeezed([calls |-> c, turns |-> 0], 1) = Squeezed([calls |-> d, turns |-> 0], 1)
  PROVE  c = d
<1> DEFINE Block(x) == Squeezed([calls |-> x, turns |-> 0], 1)
<1>1. 1 \in 1 .. 1
  OBVIOUS
<1>2. Block(c)[1].calls = c /\ Block(d)[1].calls = d
  BY <1>1 DEF Squeezed
<1> QED BY <1>2

\* The message hash mu tells which message was hashed.
LEMMA MuTells == ASSUME NEW tr, NEW m, NEW n, Mu(tr, m) = Mu(tr, n) PROVE m = n
<1> DEFINE first == [input |-> tr, turns |-> 0]
           Calls(x) == Append(<<first>>, [input |-> x, turns |-> 0])
<1>1. ASSUME NEW x PROVE Absorb(Absorb(EmptySponge, tr), x) = [calls |-> Calls(x), turns |-> 0]
  <2>1. Absorb(EmptySponge, tr) = [calls |-> <<first>>, turns |-> 0]
    BY DEF Absorb, EmptySponge
  <2> HIDE DEF first
  <2> QED BY <2>1 DEF Absorb
<1>2. Calls(m) = Calls(n)
  <2> HIDE DEF Calls
  <2> QED BY <1>1, BlockTells DEF Mu
<1>3. Calls(m)[2].input = m /\ Calls(n)[2].input = n
  OBVIOUS
<1> QED BY <1>2, <1>3

\* The hash of an image tells its chunks, in their order.
LEMMA HashTells ==
  ASSUME NEW S, NEW c \in Seq(S), NEW d \in Seq(S), HashOf(c) = HashOf(d)
  PROVE  c = d
<1> DEFINE Calls(x) == [i \in DOMAIN x |-> [input |-> x[i], turns |-> 0]]
<1>1. Squeezed(SpongeOf(c), 1) = Squeezed(SpongeOf(d), 1)
  BY DEF HashOf, FirmwareHash
<1>2. Calls(c) = Calls(d)
  BY <1>1, BlockTells DEF SpongeOf
<1>3. DOMAIN c = DOMAIN d
  BY <1>2
<1>4. ASSUME NEW i \in DOMAIN c PROVE c[i] = d[i]
  <2>1. Calls(c)[i].input = c[i] /\ Calls(d)[i].input = d[i]
    BY <1>3
  <2> QED BY <1>2, <2>1
<1> QED BY <1>3, <1>4

\* One more chunk.
LEMMA OneMoreChunk ==
  ASSUME NEW S, NEW c \in Seq(S), NEW x \in S
  PROVE  Absorb(SpongeOf(c), x) = SpongeOf(Append(c, x))
<1> DEFINE Calls(y) == [i \in DOMAIN y |-> [input |-> y[i], turns |-> 0]]
<1>1. Append(Calls(c), [input |-> x, turns |-> 0]) = Calls(Append(c, x))
  OBVIOUS
<1> QED BY <1>1 DEF Absorb, SpongeOf

LEMMA NoChunks == EmptySponge = SpongeOf(<<>>)
BY DEF EmptySponge, SpongeOf

RootKeys == {NoKey, DilithiumPk("root")}
Words == Chunks \cup {Firmware}

LEMMA ImageWords == \A cut \in Images : cut \in Seq(Words)
<1> SUFFICES ASSUME NEW cut \in Images PROVE cut \in Seq(Words)
  OBVIOUS
<1>1. cut \in Seq(Range(cut)) /\ Range(cut) \subseteq Words
  BY SketchAssumption DEF Words, Chunks
<1> HIDE DEF Words
<1> QED BY <1>1

\* verify accepts what the root key has signed for that message only,
LEMMA AcceptsOwnMessage ==
  ASSUME NEW m, NEW n, NEW pk \in RootKeys,
         TRUE \in DilithiumVerify(DilithiumSignature(m, DilithiumKeyPair("root").sk), n, pk)
  PROVE  m = n
<1> DEFINE sig == DilithiumSignature(m, DilithiumKeyPair("root").sk)
<1>1. DOMAIN pk = {"rho", "t1"} /\ sig.mu = Mu(Sha3(pk), n)
  BY DEF DilithiumVerify
<1>2. pk = DilithiumPk("root")
  BY <1>1 DEF RootKeys, NoKey
<1>3. sig.mu = Mu(Sha3(DilithiumPk("root")), m)
  BY DEF DilithiumSignature, DilithiumKeyPair
<1> QED BY <1>1, <1>2, <1>3, MuTells

\* and nothing another key has signed.
LEMMA RefusesOtherKey ==
  ASSUME NEW n, NEW pk \in RootKeys
  PROVE  TRUE \notin DilithiumVerify(Forged, n, pk)
<1>1. Forged.secrets = "device"
  BY DEF Forged, DilithiumSignature, DilithiumKeyPair
<1>2. DOMAIN pk = {"rho", "t1"} => pk.t1 = "root"
  BY DEF RootKeys, NoKey, DilithiumPk
<1> QED BY <1>1, <1>2 DEF DilithiumVerify

\* The state of the sponge is that of the chunks fed since begin; what is verified is a
\* release or the signature of another key.
UpdateInv ==
  /\ root_public_key \in RootKeys
  /\ fed \in Seq(Words)
  /\ verification_active => /\ ota_hash_state = SpongeOf(fed)
                            /\ active_signature \in Releases \cup {Forged}
  /\ OtaAcceptsOnlySignedCut

LEMMA UpdateInvInit == SketchInit => UpdateInv
BY DEF SketchInit, OtaInit, UpdateInv, RootKeys, OtaAcceptsOnlySignedCut

LEMMA UpdateInvStep == UpdateInv /\ [SketchNext]_demoVars => UpdateInv'
<1> SUFFICES ASSUME UpdateInv, [SketchNext]_demoVars PROVE UpdateInv'
  OBVIOUS
<1> USE DEF UpdateInv
<1>1. CASE UNCHANGED otaVars
  BY <1>1 DEF otaVars, OtaAcceptsOnlySignedCut
<1>2. CASE OtaKeys
  BY <1>2 DEF OtaKeys, SetRootPk, DilithiumKeyPair, RootKeys, OtaAcceptsOnlySignedCut
<1>3. CASE OtaVerify
  <2>1. PICK result \in BOOLEAN : VerifyUpdate(FirmwareSignature, Firmware, result)
    BY <1>3 DEF OtaVerify
  <2>2. [text |-> Firmware] # FirmwareHash(Absorb(EmptySponge, Firmware))
    BY DEF FirmwareHash
  <2>3. result = FALSE
    <3>1. result \in OtaResults(Absorb(EmptySponge, Firmware), FirmwareSignature)
      BY <2>1 DEF VerifyUpdate
    <3> QED BY <2>2, <3>1, AcceptsOwnMessage DEF OtaResults, FirmwareSignature
  <2>4. UNCHANGED <<root_public_key, acceptedUpdate>> /\ ~verification_active'
        /\ fed' = <<Firmware>>
    BY <2>1, <2>3 DEF VerifyUpdate
  <2> QED BY <2>4 DEF OtaAcceptsOnlySignedCut, Words
<1>4. ASSUME NEW sig \in Releases \cup {Forged}, OtaBegin(sig) PROVE UpdateInv'
  BY <1>4, NoChunks DEF OtaBegin, OtaAcceptsOnlySignedCut
<1>5. ASSUME NEW chunk \in Chunks, OtaChunk(chunk) PROVE UpdateInv'
  BY <1>5, OneMoreChunk DEF OtaChunk, OtaAcceptsOnlySignedCut, Words
<1>6. ASSUME NEW result \in BOOLEAN, OtaComplete(result) PROVE UpdateInv'
  <2>1. CASE ~result
    BY <1>6, <2>1 DEF OtaComplete, OtaAcceptsOnlySignedCut
  <2>2. CASE result
    <3>1. TRUE \in DilithiumVerify(active_signature, HashOf(fed), root_public_key)
      BY <1>6, <2>2 DEF OtaComplete, OtaResults, HashOf
    <3>2. active_signature # Forged
      BY <3>1, RefusesOtherKey
    <3>3. PICK cut \in Images :
            active_signature = DilithiumSignature(HashOf(cut), DilithiumKeyPair("root").sk)
      BY <1>6, <3>2 DEF OtaComplete, Releases
    <3>4. cut = fed
      BY <3>1, <3>3, AcceptsOwnMessage, ImageWords, HashTells
    <3>5. /\ acceptedUpdate' = [chunks |-> fed, sig |-> active_signature]
          /\ ~verification_active' /\ UNCHANGED <<root_public_key, fed>>
      BY <1>6, <2>2 DEF OtaComplete
    <3> QED BY <3>3, <3>4, <3>5 DEF OtaAcceptsOnlySignedCut
  <2> QED BY <2>1, <2>2
<1>7. Updater => \/ \E sig \in Releases \cup {Forged} : OtaBegin(sig)
                 \/ \E chunk \in Chunks : OtaChunk(chunk)
                 \/ \E result \in BOOLEAN : OtaComplete(result)
  BY DEF Updater, UpdateBegin, UpdateChunk
<1>8. Program \/ ShortOfMemory => OtaKeys \/ OtaVerify \/ UNCHANGED otaVars
  BY DEF Program, ShortOfMemory, TestKyber, TestAdaptive, DilithiumKeys, DilithiumSigned, AuthKeys,
         AuthSigned, AuthKyber, AuthVerify, HandshakeKeys, HandshakeVerify, LoopRound,
         SignAgain, Rejected, OutOfMemory
<1> QED BY <1>1, <1>2, <1>3, <1>4, <1>5, <1>6, <1>7, <1>8 DEF SketchNext, demoVars

\* OTAGuard accepts an update only if the root key has signed the hash of exactly the
\* chunks fed since begin, for any images.
THEOREM OnlySignedCuts == SketchSpec => []OtaAcceptsOnlySignedCut
<1>1. UpdateInv => OtaAcceptsOnlySignedCut
  BY DEF UpdateInv
<1> QED BY <1>1, UpdateInvInit, UpdateInvStep, PTL DEF SketchSpec

\* What verify_update can answer to the image test_ota_verification has signed.
TestImageResults == OtaResults(Absorb(EmptySponge, Firmware), FirmwareSignature)

\* kyber_dilithium.ino:241-246 expects verify_update to accept an image whose bytes the
\* root key has signed. It never can: ota.cpp:53 verifies a signature of a hash of them.
THEOREM TestImageRefused == SketchSpec => [](TestImageResults = {FALSE})
<1>1. UpdateInv => TestImageResults = {FALSE}
  <2> SUFFICES ASSUME UpdateInv, TRUE \in TestImageResults PROVE FALSE
    BY DEF TestImageResults, OtaResults, DilithiumVerify
  <2>1. [text |-> Firmware] # FirmwareHash(Absorb(EmptySponge, Firmware))
    BY DEF FirmwareHash
  <2> QED BY <2>1, AcceptsOwnMessage DEF TestImageResults, OtaResults, FirmwareSignature, UpdateInv
<1> QED BY <1>1, UpdateInvInit, UpdateInvStep, PTL DEF SketchSpec
=============================================================================
