-------------------------- MODULE UnifiedMainProofs --------------------------
(***************************************************************************)
(* What holds of main_unified.cpp on every board, for every packet size,    *)
(* packet of a peer and number of repetitions: which memory the key         *)
(* exchange and the clearing touch, and what the UART delivers.             *)
(***************************************************************************)
EXTENDS UnifiedMain, SequenceTheorems, WellFoundedInduction, TLAPS

(***************************************************************************)
(* The struct                                                              *)
(***************************************************************************)
Places == << 0, 1536, 3072, 4608, 4640, 5952, 8480, 10900, 10900 + CryptoBufferSize,
             10964 + CryptoBufferSize, 10996 + CryptoBufferSize >>

LEMMA StartIsPlaces ==
  ASSUME board \in Boards
  PROVE  Start = [i \in DOMAIN Fields |-> IF i = 1 THEN 0 ELSE Start[i - 1] + FieldSize(Fields[i - 1])]
<1> DEFINE Chain(g) == [i \in DOMAIN Fields |->
                           IF i = 1 THEN 0 ELSE g[i - 1] + FieldSize(Fields[i - 1])]
           f == [i \in DOMAIN Fields |-> Places[i]]
<1>1. DOMAIN Fields = 1 .. 11
  BY DEF Fields
<1>2. CryptoBufferSize \in Int
  BY DEF Boards, CryptoBufferSize
<1>3. ASSUME NEW i \in 2 .. 11 PROVE Places[i] = Places[i - 1] + FieldSize(Fields[i - 1])
  <2>1. i \in {2, 3, 4, 5, 6, 7, 8, 9, 10, 11}
    OBVIOUS
  <2>2. CASE i \in {2, 3, 4, 5}
    BY <2>2 DEF Places, Fields, FieldSize
  <2>3. CASE i \in {6, 7, 8}
    BY <2>3 DEF Places, Fields, FieldSize
  <2>4. CASE i = 9
    BY <2>4 DEF Places, Fields, FieldSize
  <2>5. CASE i = 10
    BY <2>5, <1>2 DEF Places, Fields, FieldSize
  <2>6. CASE i = 11
    BY <2>6, <1>2 DEF Places, Fields, FieldSize
  <2> QED BY <2>1, <2>2, <2>3, <2>4, <2>5, <2>6
<1>4. Places[1] = 0
  BY DEF Places
<1>5. f = Chain(f)
  <2>1. ASSUME NEW i \in 1 .. 11 PROVE f[i] = Chain(f)[i]
    <3>1. CASE i = 1
      BY <3>1, <1>1, <1>4
    <3>2. CASE i \in 2 .. 11
      BY <3>2, <1>1, <1>3
    <3> QED BY <3>1, <3>2
  <2> QED BY <1>1, <2>1
<1> QED BY <1>5 DEF Start

LEMMA Layout ==
  ASSUME board \in Boards
  PROVE  /\ Offset("kyber_pk") = 0 /\ Offset("kyber_sk") = 1536 /\ Offset("kyber_ct") = 3072
         /\ Offset("kyber_ss") = 4608 /\ Offset("dilithium_pk") = 4640
         /\ Offset("dilithium_sk") = 5952 /\ Offset("dilithium_sig") = 8480
         /\ Offset("raw") = 10996 + CryptoBufferSize
<1>1. DOMAIN Fields = 1 .. 11
  BY DEF Fields
<1>2. CryptoBufferSize \in Int
  BY DEF Boards, CryptoBufferSize
<1>3. Start[1] = 0
  BY StartIsPlaces, <1>1
<1>4. ASSUME NEW i \in 2 .. 11 PROVE Start[i] = Start[i - 1] + FieldSize(Fields[i - 1])
  BY StartIsPlaces, <1>1
<1>5. /\ FieldSize(Fields[1]) = 1536 /\ FieldSize(Fields[2]) = 1536
      /\ FieldSize(Fields[3]) = 1536 /\ FieldSize(Fields[4]) = 32
      /\ FieldSize(Fields[5]) = 1312 /\ FieldSize(Fields[6]) = 2528
      /\ FieldSize(Fields[7]) = 2420 /\ FieldSize(Fields[8]) = CryptoBufferSize
      /\ FieldSize(Fields[9]) = 64 /\ FieldSize(Fields[10]) = 32
  BY DEF Fields, FieldSize
<1>6. Start[2] = 1536 /\ Start[3] = 3072 /\ Start[4] = 4608 /\ Start[5] = 4640
  BY <1>3, <1>4, <1>5
<1>7. Start[6] = 5952 /\ Start[7] = 8480
  BY <1>4, <1>5, <1>6
<1>8. Start[8] = 10900 /\ Start[9] = 10900 + CryptoBufferSize
  BY <1>2, <1>4, <1>5, <1>7
<1>9. Start[10] = 10964 + CryptoBufferSize /\ Start[11] = 10996 + CryptoBufferSize
  BY <1>2, <1>4, <1>5, <1>8
<1>10. ASSUME NEW n \in 1 .. 11, NEW name, Fields[n] = name
       PROVE  Offset(name) = Start[n]
  <2>1. \A i, j \in 1 .. 11 : Fields[i] = Fields[j] => i = j
    BY DEF Fields
  <2> QED BY <1>1, <1>10, <2>1 DEF Offset
<1>11. /\ Fields[1] = "kyber_pk" /\ Fields[2] = "kyber_sk" /\ Fields[3] = "kyber_ct"
       /\ Fields[4] = "kyber_ss" /\ Fields[5] = "dilithium_pk" /\ Fields[6] = "dilithium_sk"
       /\ Fields[7] = "dilithium_sig" /\ Fields[11] = "raw"
  BY DEF Fields
<1> QED BY <1>3, <1>6, <1>7, <1>9, <1>10, <1>11

(***************************************************************************)
(* Memory                                                                  *)
(***************************************************************************)
Extents == {e \in Nat \X Nat : e[1] < e[2]}
Apart(m) == /\ DOMAIN m \subseteq Extents
            /\ \A e, f \in DOMAIN m : e # f => ~Overlap(e, f)
Within(g, f) == f[1] <= g[1] /\ g[2] <= f[2]
PartOf(value) == IF value = ZeroBytes THEN ZeroBytes ELSE [part |-> value]

LEMMA Pair == ASSUME NEW a \in Nat, NEW b \in Nat, a < b
              PROVE  <<a, b>> \in Extents /\ <<a, b>>[1] = a /\ <<a, b>>[2] = b
BY DEF Extents

\* An extent lies within one stored extent only.
LEMMA OneHolder ==
  ASSUME NEW m, Apart(m), NEW g \in Extents, NEW f \in DOMAIN m, Within(g, f)
  PROVE  Holder(m, g) = f
<1>1. ASSUME NEW h \in DOMAIN m, Within(g, h) PROVE h = f
  BY <1>1 DEF Apart, Within, Overlap, Extents
<1>2. Within(g, Holder(m, g)) /\ Holder(m, g) \in DOMAIN m
  BY DEF Holder, Within
<1> QED BY <1>1, <1>2

\* What Cut leaves: the extents that e does not touch, and the ends of those it does.
LEMMA Remains ==
  ASSUME NEW m, Apart(m), NEW e \in Extents, NEW g \in DOMAIN Cut(m, e)
  PROVE  /\ g \in Extents /\ ~Overlap(e, g)
         /\ \E f \in DOMAIN m :
               /\ Within(g, f)
               /\ \/ g = f /\ Cut(m, e)[g] = m[f]
                  \/ /\ Overlap(e, f) /\ g \in {<<f[1], e[1]>>, <<e[2], f[2]>>}
                     /\ Cut(m, e)[g] = PartOf(m[f])
<1> DEFINE hit  == {f \in DOMAIN m : Overlap(e, f)}
           rest == {<<f[1], e[1]>> : f \in {h \in hit : h[1] < e[1]}}
                     \cup {<<e[2], f[2]>> : f \in {h \in hit : e[2] < h[2]}}
<1>1. DOMAIN Cut(m, e) = (DOMAIN m \ hit) \cup rest
  BY DEF Cut
<1>2. CASE g \in DOMAIN m \ hit
  <2>1. Cut(m, e)[g] = m[g]
    BY <1>1, <1>2 DEF Cut
  <2>2. Within(g, g)
    BY <1>2 DEF Apart, Extents, Within
  <2> QED BY <1>2, <2>1, <2>2 DEF Apart
<1>3. ASSUME NEW f \in hit,
             \/ g = <<f[1], e[1]>> /\ f[1] < e[1]
             \/ g = <<e[2], f[2]>> /\ e[2] < f[2]
      PROVE  /\ g \in Extents /\ ~Overlap(e, g) /\ Within(g, f) /\ Overlap(e, f)
             /\ Cut(m, e)[g] = PartOf(m[f])
  <2>1. f \in Extents /\ f \in DOMAIN m /\ Overlap(e, f)
    BY DEF Apart
  <2>2. /\ f[1] \in Nat /\ f[2] \in Nat /\ e[1] \in Nat /\ e[2] \in Nat
        /\ f[1] < f[2] /\ e[1] < e[2]
    BY <2>1 DEF Extents
  <2>3. g \in Extents /\ ~Overlap(e, g) /\ Within(g, f) /\ g # f /\ Overlap(g, f)
    <3>1. CASE g = <<f[1], e[1]>> /\ f[1] < e[1]
      BY <3>1, <2>1, <2>2, Pair DEF Overlap, Within
    <3>2. CASE g = <<e[2], f[2]>> /\ e[2] < f[2]
      BY <3>2, <2>1, <2>2, Pair DEF Overlap, Within
    <3> QED BY <1>3, <3>1, <3>2
  <2>4. g \notin DOMAIN m
    BY <2>1, <2>3 DEF Apart
  <2>5. Cut(m, e)[g] = PartOf(m[Holder(m, g)])
    BY <1>1, <2>4 DEF Cut, PartOf
  <2> QED BY <2>1, <2>3, <2>5, OneHolder
<1> QED BY <1>1, <1>2, <1>3

LEMMA Untouched ==
  ASSUME NEW m, NEW e, NEW f \in DOMAIN m, ~Overlap(e, f)
  PROVE  f \in DOMAIN Cut(m, e) /\ Cut(m, e)[f] = m[f]
BY DEF Cut

\* Pieces of two extents, or two pieces of one, are apart.
LEMMA CutApart == ASSUME NEW m, Apart(m), NEW e \in Extents PROVE Apart(Cut(m, e))
<1> DEFINE hit == {f \in DOMAIN m : Overlap(e, f)}
           Left(f) == <<f[1], e[1]>>
           Right(f) == <<e[2], f[2]>>
<1>1. DOMAIN Cut(m, e) \subseteq Extents
  BY Remains
<1>2. ASSUME NEW g \in DOMAIN Cut(m, e), NEW h \in DOMAIN Cut(m, e), Overlap(g, h)
      PROVE  g = h
  <2>1. g \in Extents /\ h \in Extents /\ ~Overlap(e, g) /\ ~Overlap(e, h)
    BY Remains
  <2>2. PICK f \in DOMAIN m :
          Within(g, f) /\ (g = f \/ (Overlap(e, f) /\ g \in {Left(f), Right(f)}))
    BY Remains
  <2>3. PICK k \in DOMAIN m :
          Within(h, k) /\ (h = k \/ (Overlap(e, k) /\ h \in {Left(k), Right(k)}))
    BY Remains
  <2>4. f \in Extents /\ k \in Extents
    BY DEF Apart
  <2>5. f = k
    <3>1. Overlap(f, k)
      BY <1>2, <2>1, <2>2, <2>3, <2>4 DEF Overlap, Within, Extents
    <3> QED BY <3>1 DEF Apart
  <2>6. /\ f[1] \in Nat /\ f[2] \in Nat /\ e[1] \in Nat /\ e[2] \in Nat
        /\ f[1] < f[2] /\ e[1] < e[2]
    BY <2>4 DEF Extents
  <2>7. Left(f)[2] = e[1] /\ Right(f)[1] = e[2]
    OBVIOUS
  <2>8. ~Overlap(Left(f), Right(f)) /\ ~Overlap(Right(f), Left(f))
    BY <2>6 DEF Overlap
  <2> QED BY <1>2, <2>1, <2>2, <2>3, <2>5, <2>8
<1> QED BY <1>1, <1>2 DEF Apart

\* What Store leaves.
LEMMA Stored ==
  ASSUME NEW m, Apart(m), NEW e \in Extents, NEW value
  PROVE  LET after == Store(m, e, value)
         IN  /\ Apart(after)
             /\ e \in DOMAIN after /\ after[e] = value
             /\ \A f \in DOMAIN m : ~Overlap(e, f) => f \in DOMAIN after /\ after[f] = m[f]
             /\ \A g \in DOMAIN after : g # e =>
                   \E f \in DOMAIN m : /\ Within(g, f)
                                       /\ \/ g = f /\ after[g] = m[f]
                                          \/ Overlap(e, f) /\ after[g] = PartOf(m[f])
<1> DEFINE kept  == Cut(m, e)
           after == Store(m, e, value)
<1>1. DOMAIN after = DOMAIN kept \cup {e}
  BY DEF Store
<1>2. after[e] = value
  BY <1>1 DEF Store
<1>3. ASSUME NEW g \in DOMAIN kept PROVE g \in DOMAIN after /\ ~Overlap(e, g) /\ g # e
  BY <1>1, Remains DEF Overlap, Extents
<1>4. ASSUME NEW g \in DOMAIN kept PROVE after[g] = kept[g]
  BY <1>1, <1>3 DEF Store
<1>5. Apart(after)
  BY <1>1, <1>3, CutApart DEF Apart, Overlap, Extents
<1>6. ASSUME NEW f \in DOMAIN m, ~Overlap(e, f)
      PROVE  f \in DOMAIN after /\ after[f] = m[f]
  BY <1>3, <1>4, <1>6, Untouched
<1>7. ASSUME NEW g \in DOMAIN after, g # e
      PROVE  \E f \in DOMAIN m : /\ Within(g, f)
                                 /\ \/ g = f /\ after[g] = m[f]
                                    \/ Overlap(e, f) /\ after[g] = PartOf(m[f])
  BY <1>1, <1>4, <1>7, Remains
<1> QED BY <1>1, <1>2, <1>5, <1>6, <1>7

Holds(m, x, value) == x \in DOMAIN m /\ m[x] = value
Blank(m, x) == \A f \in DOMAIN m : Overlap(x, f) => m[f] = ZeroBytes

\* The extent x was written as a whole, with something that was not read in pieces, or is blank.
Plain(m, x) == Blank(m, x) \/ (x \in DOMAIN m /\ "bytes" \notin DOMAIN m[x])

LEMMA StoredElsewhere ==
  ASSUME NEW m, Apart(m), NEW e \in Extents, NEW x \in Extents, ~Overlap(e, x), NEW value
  PROVE  /\ \A w : Holds(m, x, w) => Holds(Store(m, e, value), x, w)
         /\ Plain(m, x) => Plain(Store(m, e, value), x)
<1> DEFINE after == Store(m, e, value)
<1>1. \A w : Holds(m, x, w) => Holds(after, x, w)
  BY Stored DEF Holds
<1>2. ASSUME Blank(m, x), NEW g \in DOMAIN after, Overlap(x, g) PROVE after[g] = ZeroBytes
  <2>1. g # e
    BY <1>2 DEF Overlap
  <2>2. PICK f \in DOMAIN m : Within(g, f) /\ after[g] \in {m[f], PartOf(m[f])}
    BY <2>1, Stored
  <2>3. g \in Extents /\ f \in Extents
    BY Stored DEF Apart
  <2>4. Overlap(x, f)
    BY <1>2, <2>2, <2>3 DEF Overlap, Within, Extents
  <2> QED BY <1>2, <2>2, <2>4 DEF Blank, PartOf
<1>3. Plain(m, x) => Plain(after, x)
  BY <1>1, <1>2 DEF Plain, Blank, Holds
<1> QED BY <1>1, <1>3

\* What Load makes of an extent.
LEMMA LoadWhole ==
  ASSUME NEW x \in Extents, NEW value, Holds(memory, x, value)
  PROVE  Load(x) = value
BY DEF Load, Holds, Overlap, Extents

LEMMA LoadPlain ==
  ASSUME NEW x \in Extents, Plain(memory, x)
  PROVE  "bytes" \notin DOMAIN Load(x)
<1>1. CASE x \in DOMAIN memory /\ "bytes" \notin DOMAIN memory[x]
  BY <1>1, LoadWhole DEF Holds
<1>2. CASE Blank(memory, x)
  <2>1. Load(x) = ZeroBytes
    BY <1>2 DEF Blank, Load
  <2> QED BY <2>1 DEF ZeroBytes
<1> QED BY <1>1, <1>2 DEF Plain

\* An extent inside another one that was written is read in pieces.
LEMMA LoadInside ==
  ASSUME Apart(memory), NEW x \in Extents, NEW y \in DOMAIN memory, x # y, Within(x, y),
         memory[y] # ZeroBytes
  PROVE  "bytes" \in DOMAIN Load(x)
<1>1. y \in Extents /\ Overlap(x, y)
  BY DEF Apart, Overlap, Within, Extents
<1>2. x \notin DOMAIN memory
  BY <1>1 DEF Apart
<1> QED BY <1>1, <1>2 DEF Load

(***************************************************************************)
(* The Kyber fields                                                        *)
(***************************************************************************)
PkRho == <<768, 800>>
SkVector == <<1536, 2304>>
CtExtent == <<3072, 3840>>

LEMMA KyberExtents ==
  ASSUME board \in Boards
  PROVE  /\ In("kyber_pk", 0, 768) = <<0, 768>> /\ In("kyber_pk", 768, 32) = PkRho
         /\ In("kyber_sk", 0, 768) = SkVector /\ In("kyber_sk", 768, 768) = <<2304, 3072>>
         /\ In("kyber_sk", 1536, 32) = <<3072, 3104>> /\ In("kyber_sk", 1568, 32) = <<3104, 3136>>
         /\ In("kyber_sk", 1600, 32) = <<3136, 3168>>
         /\ In("kyber_ct", 0, 768) = CtExtent /\ In("kyber_ss", 0, 32) = <<4608, 4640>>
BY Layout DEF In, PkRho, SkVector, CtExtent

LEMMA OtherExtents ==
  ASSUME board \in Boards
  PROVE  /\ In("dilithium_pk", 0, 1312) = <<4640, 5952>>
         /\ In("dilithium_sk", 0, 2528) = <<5952, 8480>>
         /\ In("dilithium_sig", 0, 2420) = <<8480, 10900>>
         /\ Size \in Nat /\ Size >= 8192
         /\ In("raw", 0, Size) \in Extents /\ In("raw", 0, Size)[1] >= 10996
         /\ In("raw", 0, Size)[2] > Size
<1>1. Size \in Nat /\ Size >= 8192 /\ CryptoBufferSize \in Nat
  BY DEF Boards, Size, CryptoBufferSize
<1>2. In("raw", 0, Size) = <<10996 + CryptoBufferSize, 10996 + CryptoBufferSize + Size>>
  BY <1>1, Layout DEF In
<1> QED BY <1>1, <1>2, Layout DEF In, Extents

LEMMA Behind ==
  ASSUME NEW a \in Nat, NEW b \in Nat, 2304 <= a, a < b
  PROVE  /\ <<a, b>> \in Extents
         /\ ~Overlap(<<a, b>>, PkRho) /\ ~Overlap(<<a, b>>, SkVector)
BY DEF Extents, Overlap, PkRho, SkVector

\* What every later step relies on: the seed in the public key can be read as a whole, and
\* the vector of the secret key is the one that was generated.
Kept(m, keys) ==
  /\ Apart(m)
  /\ Plain(m, PkRho)
  /\ keys # Nothing => Holds(m, SkVector, keys.sk.s)

LEMMA KeptBehind ==
  ASSUME NEW m, NEW keys, Kept(m, keys),
         NEW e \in Extents, 2304 <= e[1], NEW value
  PROVE  Kept(Store(m, e, value), keys)
<1>1. PkRho \in Extents /\ SkVector \in Extents
  BY DEF PkRho, SkVector, Extents
<1>2. ~Overlap(e, PkRho) /\ ~Overlap(e, SkVector)
  BY DEF PkRho, SkVector, Overlap, Extents
<1> QED BY <1>1, <1>2, Stored, StoredElsewhere DEF Kept

\* keypair leaves the seed and the vector where they belong.
LEMMA KeysWritten ==
  ASSUME board \in Boards, NEW m, Apart(m), NEW set, NEW seed
  PROVE  LET keys == KeyPair(set, seed)
         IN  Kept(WithSk(WithPk(m, keys.pk), keys.sk), keys)
<1> DEFINE keys == KeyPair(set, seed)
           m1 == Store(m, <<0, 768>>, keys.pk.t)
           m2 == Store(m1, PkRho, keys.pk.rho)
           m3 == Store(m2, SkVector, keys.sk.s)
           m4 == Store(m3, <<2304, 3072>>, keys.sk.pk.t)
           m5 == Store(m4, <<3072, 3104>>, keys.sk.pk.rho)
           m6 == Store(m5, <<3104, 3136>>, keys.sk.h)
           m7 == Store(m6, <<3136, 3168>>, keys.sk.z)
<1>1. WithSk(WithPk(m, keys.pk), keys.sk) = m7
  BY KyberExtents DEF WithSk, WithPk
<1>2. "bytes" \notin DOMAIN keys.pk.rho
  BY DEF KeyPair, Hash
<1> HIDE DEF keys
<1>3. /\ PkRho \in Extents /\ SkVector \in Extents /\ ~Overlap(SkVector, PkRho)
      /\ <<0, 768>> \in Extents
  BY DEF PkRho, SkVector, Extents, Overlap
<1>4. Apart(m1) /\ Apart(m2) /\ Apart(m3)
  BY <1>3, Stored
<1>5. Plain(m2, PkRho)
  BY <1>2, <1>3, <1>4, Stored DEF Plain
<1>6. Kept(m3, keys)
  <2>1. Plain(m3, PkRho)
    <3> HIDE DEF m2
    <3> QED BY <1>3, <1>4, <1>5, StoredElsewhere
  <2>2. Holds(m3, SkVector, keys.sk.s)
    <3> HIDE DEF m2
    <3> QED BY <1>3, <1>4, Stored DEF Holds
  <2> QED BY <1>4, <2>1, <2>2 DEF Kept
<1> HIDE DEF m3
<1>7. /\ <<2304, 3072>> \in Extents /\ <<3072, 3104>> \in Extents
      /\ <<3104, 3136>> \in Extents /\ <<3136, 3168>> \in Extents
  BY DEF Extents
<1>8. Kept(m4, keys)
  BY <1>6, <1>7, KeptBehind
<1> HIDE DEF m4
<1>9. Kept(m5, keys)
  BY <1>7, <1>8, KeptBehind
<1> HIDE DEF m5
<1>10. Kept(m6, keys)
  BY <1>7, <1>9, KeptBehind
<1> HIDE DEF m6
<1>11. Kept(m7, keys)
  BY <1>7, <1>10, KeptBehind
<1> QED BY <1>1, <1>11 DEF keys

(***************************************************************************)
(* The exchange                                                            *)
(***************************************************************************)
\* The ciphertext was made with a public key that was read as a whole, the secret with a
\* key that encaps has derived.
SecretIn(m, secret) ==
  /\ CtExtent \in DOMAIN m
  /\ DOMAIN m[CtExtent] = {"ct"}
  /\ "bytes" \notin DOMAIN m[CtExtent].ct.pk.rho
  /\ "bytes" \notin DOMAIN secret.hash.key

LEMMA EncapsWrites ==
  ASSUME board \in Boards, NEW keys, Kept(memory, keys), NEW random
  PROVE  LET exchange == Kyber512Encaps(LoadPk, random)
             after    == Store(Store(memory, CtExtent, exchange.ct), <<4608, 4640>>, exchange.ss)
         IN  Kept(after, keys) /\ SecretIn(after, exchange.ss)
<1> DEFINE pk == LoadPk
           msg == Hash(random)
           kr  == KeyAndCoins(msg, pk)
           ct  == Enc(Kyber512Set, pk, msg, kr.coins)
           ss  == SharedSecret(kr.key, ct)
           m1  == Store(memory, CtExtent, ct)
           m2  == Store(m1, <<4608, 4640>>, ss)
<1>1. Kyber512Encaps(pk, random) = [ct |-> ct, ss |-> ss]
  BY DEF Kyber512Encaps, Encaps
<1>2. "bytes" \notin DOMAIN pk.rho
  <2>1. PkRho \in Extents /\ Plain(memory, PkRho)
    BY DEF PkRho, Extents, Kept
  <2> QED BY <2>1, LoadPlain, KyberExtents DEF LoadPk
<1> HIDE DEF pk
<1>3. DOMAIN ct = {"ct"} /\ ct.ct.pk = pk
  BY DEF Enc
<1>4. "bytes" \notin DOMAIN ss.hash.key
  BY DEF SharedSecret, KeyAndCoins, Hash
<1> HIDE DEF ct, ss
<1>5. CtExtent \in Extents /\ 2304 <= CtExtent[1]
  BY DEF CtExtent, Extents
<1>6. /\ <<4608, 4640>> \in Extents /\ 2304 <= <<4608, 4640>>[1]
      /\ ~Overlap(<<4608, 4640>>, CtExtent)
  BY DEF CtExtent, Extents, Overlap
<1>7. Kept(m1, keys) /\ Holds(m1, CtExtent, ct)
  BY <1>5, KeptBehind, Stored DEF Kept, Holds
<1> HIDE DEF m1
<1>8. Kept(m2, keys) /\ Holds(m2, CtExtent, ct)
  <2>1. Kept(m2, keys)
    BY <1>6, <1>7, KeptBehind
  <2>2. Holds(m2, CtExtent, ct)
    BY <1>5, <1>6, <1>7, StoredElsewhere DEF Kept
  <2> QED BY <2>1, <2>2
<1>9. SecretIn(m2, ss)
  BY <1>2, <1>3, <1>4, <1>8 DEF SecretIn, Holds
<1> QED BY <1>1, <1>8, <1>9 DEF m1, pk

\* Of the secret key decaps reads two seeds that encaps has written over: it makes another
\* ciphertext, rejects and returns what takes the place of z.
LEMMA DecapsRejects ==
  ASSUME board \in Boards, Apart(memory), NEW secret, SecretIn(memory, secret)
  PROVE  Kyber512Decaps(LoadCt, LoadSk) # secret
<1> DEFINE ct == memory[CtExtent]
           sk == LoadSk
           msg == Dec(ct, sk.s)
           kr  == KeyAndCoins(msg, sk.pk)
           again == Enc(Kyber512Set, sk.pk, msg, kr.coins)
<1>1. CtExtent \in Extents /\ LoadCt = ct
  BY LoadWhole, KyberExtents DEF LoadCt, CtExtent, Extents, Holds, SecretIn
<1>2. ct # ZeroBytes
  BY DEF SecretIn, ZeroBytes
<1>3. ASSUME NEW x \in {<<3072, 3104>>, <<3136, 3168>>} PROVE "bytes" \in DOMAIN Load(x)
  <2>1. x \in Extents /\ x # CtExtent /\ Within(x, CtExtent)
    BY DEF CtExtent, Extents, Within
  <2> QED BY <1>2, <2>1, LoadInside DEF SecretIn
<1>4. "bytes" \in DOMAIN sk.pk.rho /\ "bytes" \in DOMAIN sk.z
  BY <1>3, KyberExtents DEF LoadSk
<1> HIDE DEF sk
<1>5. again.ct.pk = sk.pk
  BY DEF Enc
<1>6. again # ct
  <2> HIDE DEF again
  <2> QED BY <1>4, <1>5 DEF SecretIn
<1>7. Kyber512Decaps(ct, sk) = SharedSecret(sk.z, ct)
  BY <1>6 DEF Kyber512Decaps, Decaps
<1>8. SharedSecret(sk.z, ct).hash.key = sk.z
  BY DEF SharedSecret, Hash
<1> QED BY <1>1, <1>4, <1>7, <1>8 DEF SecretIn, sk

(***************************************************************************)
(* The invariant of the program                                            *)
(***************************************************************************)
\* How far SecretsAgree fails: the two sides of an exchange never hold the same secret.
SecretsDisagree ==
  kem.sent # Nothing /\ kem.got # Nothing => kem.sent # kem.got

\* "Clear sensitive data on scope exit" (workspace_unified.h:108): no step of the program
\* but the next key pair removes the secret key.
KeysSurviveClear ==
  kem.keys # Nothing => Load(In("kyber_sk", 0, 768)) = kem.keys.sk.s

Explained(w) ==
  /\ ~ValidBounds(w.extent)
  /\ w.by \in {"secure_clear"} \cup
         (IF board = "STM32" THEN {"dilithium_sk", "dilithium_sig"} ELSE {})

\* Before the workspace is allocated nothing has been written.
Untried ==
  pc \in {"network_init", "allocate"} =>
      block = 0 /\ memory = <<>> /\ overruns = {} /\ kem = NoSecrets

Exchange ==
  /\ DOMAIN kem = {"keys", "sent", "got"}
  /\ pc = "encaps" => kem.sent = Nothing /\ kem.got = Nothing
  /\ pc = "decaps" => /\ kem.got = Nothing
                      /\ kem.sent # Nothing => SecretIn(memory, kem.sent)
  /\ SecretsDisagree

MainInv ==
  /\ board \in Boards
  /\ block \in {0, Size} \cup (IF board = "STM32" THEN {Size \div 2} ELSE {})
  /\ {looping, networkUp} \subseteq BOOLEAN
  /\ Untried
  /\ Kept(memory, kem.keys)
  /\ Exchange
  /\ block = Size => \A w \in overruns : Explained(w)

LEMMA BeyondExplained ==
  ASSUME board \in Boards, block = Size, NEW who, NEW e \in Extents,
         \/ who = "secure_clear"
         \/ e[2] <= 8192
         \/ who \in {"dilithium_sk", "dilithium_sig"} /\ e[2] <= 16384
  PROVE  \A w \in Beyond(who, e, block) : Explained(w)
<1>1. ASSUME e[2] > Size PROVE Explained([by |-> who, extent |-> e])
  <2>1. e[2] \in Nat /\ Size \in Nat /\ Size >= 8192 /\ (board # "STM32" => Size >= 16384)
    BY DEF Extents, Boards, Size
  <2>2. who = "secure_clear" \/ (who \in {"dilithium_sk", "dilithium_sig"} /\ board = "STM32")
    <3> HIDE DEF Size
    <3> QED BY <1>1, <2>1
  <2>3. ~ValidBounds(e)
    <3> HIDE DEF Size
    <3> QED BY <1>1, <2>1 DEF ValidBounds
  <2> QED BY <2>2, <2>3 DEF Explained
<1>2. CASE e[2] > Size
  BY <1>1, <1>2 DEF Beyond
<1>3. CASE ~(e[2] > Size)
  BY <1>3 DEF Beyond
<1> QED BY <1>2, <1>3

AllExplained == block = Size => \A w \in overruns : Explained(w)

LEMMA MoreExplained ==
  ASSUME board' = board, block' = block, AllExplained, NEW more, overruns' = overruns \cup more,
         block = Size => \A w \in more : Explained(w)
  PROVE  AllExplained'
<1>1. Size' = Size
  BY DEF Size
<1>2. ASSUME NEW w PROVE Explained(w)' <=> Explained(w)
  BY <1>1 DEF Explained, ValidBounds, IsAllocated
<1> HIDE DEF Explained
<1> QED BY <1>1, <1>2 DEF AllExplained

\* The extents that the functions of Kyber and Dilithium are given.
LEMMA WrittenExtents ==
  ASSUME board \in Boards
  PROVE  /\ In("kyber_pk", 0, 800) = <<0, 800>> /\ In("kyber_sk", 0, 1632) = <<1536, 3168>>
         /\ In("kyber_ct", 0, 768) = CtExtent /\ In("kyber_ss", 0, 32) = <<4608, 4640>>
         /\ {<<0, 800>>, <<1536, 3168>>, CtExtent, <<4608, 4640>>, <<4640, 5952>>,
             <<5952, 8480>>, <<8480, 10900>>} \subseteq Extents
<1>1. /\ In("kyber_pk", 0, 800) = <<0, 800>> /\ In("kyber_sk", 0, 1632) = <<1536, 3168>>
  BY Layout DEF In
<1>2. {<<0, 800>>, <<1536, 3168>>, CtExtent, <<4608, 4640>>, <<4640, 5952>>,
       <<5952, 8480>>, <<8480, 10900>>} \subseteq Extents
  BY DEF CtExtent, Extents
<1> QED BY <1>1, <1>2, KyberExtents

\* Each of the writes adds only overruns that are explained.
LEMMA WritesExplained ==
  ASSUME board \in Boards, block = Size
  PROVE  /\ \A w \in Beyond("kyber_pk", In("kyber_pk", 0, 800), block)
                       \cup Beyond("kyber_sk", In("kyber_sk", 0, 1632), block) : Explained(w)
         /\ \A w \in Beyond("kyber_ct", In("kyber_ct", 0, 768), block)
                       \cup Beyond("kyber_ss", In("kyber_ss", 0, 32), block) : Explained(w)
         /\ \A w \in Beyond("dilithium_pk", In("dilithium_pk", 0, 1312), block)
                       \cup Beyond("dilithium_sk", In("dilithium_sk", 0, 2528), block) : Explained(w)
         /\ \A w \in Beyond("dilithium_sig", In("dilithium_sig", 0, 2420), block) : Explained(w)
         /\ \A w \in Beyond("secure_clear", In("raw", 0, Size), block) : Explained(w)
<1> HIDE DEF Beyond, Explained
<1>1. \A w \in Beyond("kyber_pk", In("kyber_pk", 0, 800), block) : Explained(w)
  BY WrittenExtents, BeyondExplained
<1>2. \A w \in Beyond("kyber_sk", In("kyber_sk", 0, 1632), block) : Explained(w)
  BY WrittenExtents, BeyondExplained
<1>3. \A w \in Beyond("kyber_ct", In("kyber_ct", 0, 768), block) : Explained(w)
  BY WrittenExtents, BeyondExplained DEF CtExtent
<1>4. \A w \in Beyond("kyber_ss", In("kyber_ss", 0, 32), block) : Explained(w)
  BY WrittenExtents, BeyondExplained
<1>5. \A w \in Beyond("dilithium_pk", In("dilithium_pk", 0, 1312), block) : Explained(w)
  BY WrittenExtents, OtherExtents, BeyondExplained
<1>6. \A w \in Beyond("dilithium_sk", In("dilithium_sk", 0, 2528), block) : Explained(w)
  BY WrittenExtents, OtherExtents, BeyondExplained
<1>7. \A w \in Beyond("dilithium_sig", In("dilithium_sig", 0, 2420), block) : Explained(w)
  BY WrittenExtents, OtherExtents, BeyondExplained
<1>8. \A w \in Beyond("secure_clear", In("raw", 0, Size), block) : Explained(w)
  BY OtherExtents, BeyondExplained
<1> QED BY <1>1, <1>2, <1>3, <1>4, <1>5, <1>6, <1>7, <1>8

LEMMA MainInit == Init => MainInv
<1> SUFFICES ASSUME Init PROVE MainInv
  OBVIOUS
<1> USE DEF Init, WsInit
<1>1. Kept(memory, kem.keys)
  BY DEF Kept, Apart, Plain, Blank, NoSecrets
<1>2. Exchange
  BY DEF Exchange, NoSecrets, SecretsDisagree
<1>3. Untried
  BY DEF Untried
<1>4. AllExplained
  BY DEF AllExplained
<1> QED BY <1>1, <1>2, <1>3, <1>4 DEF MainInv, AllExplained

\* A step that leaves the memory and the secrets alone.
LEMMA QuietStep ==
  ASSUME MainInv, UNCHANGED <<wsVars, kem>>, pc' \notin {"network_init", "allocate", "encaps", "decaps"},
         {looping', networkUp'} \subseteq BOOLEAN
  PROVE  MainInv'
<1> USE DEF wsVars
<1>1. Size' = Size
  BY DEF Size
<1>2. AllExplained'
  <2>1. overruns' = overruns \cup {}
    OBVIOUS
  <2> QED BY <2>1, MoreExplained DEF MainInv, AllExplained
<1>3. Kept(memory, kem.keys)'
  BY DEF MainInv, Kept
<1>4. Exchange'
  BY DEF MainInv, Exchange, SecretsDisagree
<1>5. Untried'
  BY DEF Untried
<1> HIDE DEF Explained
<1> QED BY <1>1, <1>2, <1>3, <1>4, <1>5 DEF MainInv, AllExplained

\* A step that writes behind the keys, and after the exchange.
LEMMA LaterStep ==
  ASSUME MainInv, board' = board, block' = block, kem' = kem,
         pc' \notin {"network_init", "allocate", "encaps", "decaps"},
         UNCHANGED <<looping, networkUp>>,
         Kept(memory', kem.keys), AllExplained'
  PROVE  MainInv'
<1>1. Size' = Size
  BY DEF Size
<1>2. Exchange'
  BY DEF MainInv, Exchange, SecretsDisagree
<1>3. Untried'
  BY DEF Untried
<1> HIDE DEF Explained
<1> QED BY <1>1, <1>2, <1>3 DEF MainInv, AllExplained

LEMMA AllocateStep == ASSUME MainInv, AllocateWorkspace PROVE MainInv'
<1> USE DEF AllocateWorkspace
<1>1. PICK got \in {0, Size, Size \div 2} : Allocate(got)
  OBVIOUS
<1>2. /\ board' = board /\ block' = got /\ kem' = kem
      /\ got \in {0, Size} \cup (IF board = "STM32" THEN {Size \div 2} ELSE {})
  BY <1>1 DEF Allocate
<1>3. Size' = Size /\ Size \in Nat /\ Size >= 8192 /\ Size \div 2 < Size
  <2>1. Size' = Size
    BY <1>2 DEF Size
  <2>2. Size \in {8192, 16384, 32768}
    BY DEF MainInv, Boards, Size
  <2> QED BY <2>1, <2>2
<1>4. board \in Boards /\ block = 0 /\ memory = <<>> /\ overruns = {} /\ kem = NoSecrets
  BY DEF MainInv, Untried
<1>5. Kept(memory', kem.keys)
  <2>1. CASE got = 0
    BY <1>1, <2>1 DEF Allocate, MainInv
  <2>2. CASE got # 0
    <3>1. memory' = Store(memory, <<0, Size>>, ZeroBytes) /\ Apart(memory) /\ <<0, Size>> \in Extents
      BY <1>1, <1>3, <2>2, Pair DEF Allocate, MainInv, Kept
    <3>2. Apart(memory')
      BY <3>1, Stored
    <3>3. ASSUME NEW f \in DOMAIN memory' PROVE memory'[f] = ZeroBytes
      <4>1. CASE f = <<0, Size>>
        BY <3>1, <4>1, Stored
      <4>2. CASE f # <<0, Size>>
        <5>1. \E g \in DOMAIN memory : TRUE
          BY <3>1, <4>2, Stored
        <5> QED BY <1>4, <5>1
      <4> QED BY <4>1, <4>2
    <3> QED BY <1>4, <3>2, <3>3 DEF Kept, Plain, Blank, NoSecrets
  <2> QED BY <2>1, <2>2
<1>6. AllExplained'
  <2>1. CASE block' = Size
    <3>1. overruns' = {}
      BY <1>1, <1>2, <1>3, <1>4, <2>1 DEF Allocate, Beyond
    <3> QED BY <3>1 DEF AllExplained
  <2>2. CASE block' # Size
    BY <1>3, <2>2 DEF AllExplained
  <2> QED BY <2>1, <2>2
<1>7. pc' \in {"memory", "idle", "stopped"} /\ {looping', networkUp'} \subseteq BOOLEAN
  BY DEF SetupFails, MainInv
<1>8. Exchange'
  BY <1>2, <1>4, <1>7 DEF Exchange, NoSecrets, SecretsDisagree
<1>9. Untried'
  BY <1>7 DEF Untried
<1> HIDE DEF Explained, AllocateWorkspace
<1> QED BY <1>2, <1>3, <1>4, <1>5, <1>6, <1>7, <1>8, <1>9 DEF MainInv, AllExplained

LEMMA KeypairStep == ASSUME MainInv, KyberKeypair PROVE MainInv'
<1> USE DEF KyberKeypair
<1>1. CASE ~IsAllocated
  <2>1. UNCHANGED <<wsVars, kem>> /\ pc' = "dilithium" /\ UNCHANGED <<looping, networkUp>>
    BY <1>1
  <2> HIDE DEF KyberKeypair
  <2> QED BY <2>1, QuietStep DEF MainInv
<1>2. CASE IsAllocated /\ WriteKeys(Kyber512KeyPair(draws))
                       /\ kem' = [NoSecrets EXCEPT !.keys = Kyber512KeyPair(draws)]
  <2> DEFINE keys == Kyber512KeyPair(draws)
  <2>1. pc' = "encaps" /\ UNCHANGED <<looping, networkUp>> /\ board' = board /\ block' = block
    BY <1>2 DEF WriteKeys
  <2>2. DOMAIN kem' = {"keys", "sent", "got"} /\ kem'.keys = keys
        /\ kem'.sent = Nothing /\ kem'.got = Nothing
    <3> HIDE DEF keys
    <3> QED BY <1>2 DEF NoSecrets, keys
  <2>3. Kept(memory', keys)
    BY <1>2, KeysWritten DEF WriteKeys, Kyber512KeyPair, MainInv, Kept
  <2>4. AllExplained'
    <3> DEFINE more == Beyond("kyber_pk", In("kyber_pk", 0, 800), block)
                         \cup Beyond("kyber_sk", In("kyber_sk", 0, 1632), block)
    <3>1. overruns' = overruns \cup more
      BY <1>2 DEF WriteKeys
    <3>2. block = Size => \A w \in more : Explained(w)
      BY WritesExplained DEF MainInv
    <3> HIDE DEF more, KyberKeypair
    <3> QED BY <2>1, <3>1, <3>2, MoreExplained DEF MainInv, AllExplained
  <2>5. Size' = Size
    BY <2>1 DEF Size
  <2>6. Exchange' /\ Untried'
    BY <2>1, <2>2 DEF Exchange, Untried, SecretsDisagree
  <2> HIDE DEF keys, KyberKeypair, Explained
  <2> QED BY <2>1, <2>2, <2>3, <2>4, <2>5, <2>6 DEF MainInv, AllExplained
<1>3. CASE IsAllocated /\ UNCHANGED wsVars /\ kem' = [NoSecrets EXCEPT !.keys = kem.keys]
  <2>1. /\ pc' = "encaps" /\ UNCHANGED <<looping, networkUp>> /\ UNCHANGED wsVars
    BY <1>3
  <2>2. DOMAIN kem' = {"keys", "sent", "got"} /\ kem'.keys = kem.keys
        /\ kem'.sent = Nothing /\ kem'.got = Nothing
    BY <1>3 DEF NoSecrets
  <2>3. Kept(memory', kem.keys)
    BY <2>1 DEF wsVars, MainInv
  <2>4. AllExplained' /\ Size' = Size
    <3>1. overruns' = overruns \cup {} /\ Size' = Size /\ board' = board /\ block' = block
      BY <2>1 DEF wsVars, Size
    <3> HIDE DEF KyberKeypair
    <3> QED BY <3>1, MoreExplained DEF MainInv, AllExplained
  <2>5. Exchange' /\ Untried'
    BY <2>1, <2>2 DEF Exchange, Untried, SecretsDisagree
  <2> HIDE DEF KyberKeypair, Explained
  <2> QED BY <2>1, <2>2, <2>3, <2>4, <2>5 DEF MainInv, AllExplained, wsVars
<1> QED BY <1>1, <1>2, <1>3

LEMMA EncapsStep == ASSUME MainInv, KyberEncaps PROVE MainInv'
<1> USE DEF KyberEncaps
<1>0. pc = "encaps" /\ pc' = "decaps" /\ UNCHANGED <<looping, networkUp>>
  OBVIOUS
<1>1. CASE UNCHANGED <<wsVars, kem>>
  <2>1. Exchange'
    BY <1>0, <1>1 DEF Exchange, MainInv, SecretsDisagree
  <2>2. AllExplained' /\ Size' = Size
    <3>1. overruns' = overruns \cup {} /\ Size' = Size /\ board' = board /\ block' = block
      BY <1>1 DEF wsVars, Size
    <3> HIDE DEF KyberEncaps
    <3> QED BY <3>1, MoreExplained DEF MainInv, AllExplained
  <2>3. Untried'
    BY <1>0 DEF Untried
  <2> HIDE DEF KyberEncaps, Explained
  <2> QED BY <1>0, <1>1, <2>1, <2>2, <2>3 DEF MainInv, AllExplained, wsVars
<1>2. ASSUME WriteCtAndSecret(Kyber512Encaps(LoadPk, draws)),
             kem' = [kem EXCEPT !.sent = Kyber512Encaps(LoadPk, draws).ss]
      PROVE  MainInv'
  <2> DEFINE exchange == Kyber512Encaps(LoadPk, draws)
             more == Beyond("kyber_ct", In("kyber_ct", 0, 768), block)
                       \cup Beyond("kyber_ss", In("kyber_ss", 0, 32), block)
  <2>1. /\ memory' = Store(Store(memory, CtExtent, exchange.ct), <<4608, 4640>>, exchange.ss)
        /\ overruns' = overruns \cup more
        /\ board' = board /\ block' = block
    BY <1>2, KyberExtents DEF WriteCtAndSecret, MainInv
  <2>2. Kept(memory', kem.keys) /\ SecretIn(memory', exchange.ss)
    BY <2>1, EncapsWrites DEF MainInv
  <2> HIDE DEF exchange
  <2>3. DOMAIN kem' = {"keys", "sent", "got"} /\ kem'.keys = kem.keys
        /\ kem'.sent = exchange.ss /\ kem'.got = Nothing
    BY <1>0, <1>2 DEF MainInv, Exchange, exchange
  <2>4. Exchange'
    BY <1>0, <2>2, <2>3 DEF Exchange, SecretsDisagree
  <2>5. AllExplained' /\ Size' = Size
    <3>1. block = Size => \A w \in more : Explained(w)
      BY WritesExplained DEF MainInv
    <3>2. Size' = Size
      BY <2>1 DEF Size
    <3> HIDE DEF KyberEncaps, more
    <3> QED BY <2>1, <3>1, <3>2, MoreExplained DEF MainInv, AllExplained
  <2>6. Untried'
    BY <1>0 DEF Untried
  <2> HIDE DEF KyberEncaps, Explained
  <2> QED BY <1>0, <2>1, <2>2, <2>3, <2>4, <2>5, <2>6 DEF MainInv, AllExplained
<1>3. \/ UNCHANGED <<wsVars, kem>>
      \/ /\ WriteCtAndSecret(Kyber512Encaps(LoadPk, draws))
         /\ kem' = [kem EXCEPT !.sent = Kyber512Encaps(LoadPk, draws).ss]
  OBVIOUS
<1> QED BY <1>1, <1>2, <1>3

\* Any of the writes of one field behind the keys.
LEMMA BehindStep ==
  ASSUME MainInv, NEW field, NEW size, NEW value, Write(field, size, value),
         <<field, size>> \in {<<"kyber_ss", 32>>, <<"kyber_ct", 768>>, <<"dilithium_sig", 2420>>}
  PROVE  board' = board /\ block' = block /\ Kept(memory', kem.keys) /\ AllExplained'
<1> DEFINE e == In(field, 0, size)
<1>1. e \in {<<4608, 4640>>, CtExtent, <<8480, 10900>>}
  BY WrittenExtents, OtherExtents DEF MainInv
<1>2. e \in Extents /\ 2304 <= e[1]
  BY <1>1 DEF CtExtent, Extents
<1>3. block = Size => \A w \in Beyond(field, e, block) : Explained(w)
  <2>1. e[2] <= 8192 \/ (field = "dilithium_sig" /\ e[2] <= 16384)
    <3>1. CASE field = "dilithium_sig"
      BY <3>1, OtherExtents DEF MainInv
    <3>2. CASE field = "kyber_ct"
      BY <3>2, WrittenExtents DEF MainInv, CtExtent
    <3>3. CASE field = "kyber_ss"
      BY <3>3, WrittenExtents DEF MainInv
    <3> QED BY <3>1, <3>2, <3>3
  <2> HIDE DEF e
  <2> QED BY <1>2, <2>1, BeyondExplained DEF MainInv
<1> HIDE DEF e
<1>4. memory' = Store(memory, e, value) /\ overruns' = overruns \cup Beyond(field, e, block)
      /\ board' = board /\ block' = block
  BY DEF Write, e
<1>5. Kept(memory', kem.keys)
  BY <1>2, <1>4, KeptBehind DEF MainInv
<1>6. AllExplained'
  <2> HIDE DEF Explained, Beyond
  <2> QED BY <1>3, <1>4, MoreExplained DEF MainInv, AllExplained
<1> QED BY <1>4, <1>5, <1>6

LEMMA DecapsStep == ASSUME MainInv, KyberDecaps PROVE MainInv'
<1> USE DEF KyberDecaps
<1>0. pc = "decaps" /\ pc' = "encaps_again" /\ UNCHANGED <<looping, networkUp>>
  OBVIOUS
<1>1. CASE UNCHANGED <<wsVars, kem>>
  BY <1>0, <1>1, QuietStep DEF MainInv
<1>2. ASSUME Write("kyber_ss", 32, Kyber512Decaps(LoadCt, LoadSk)),
             kem' = [kem EXCEPT !.got = Kyber512Decaps(LoadCt, LoadSk)]
      PROVE  MainInv'
  <2> DEFINE secret == Kyber512Decaps(LoadCt, LoadSk)
  <2>1. board' = board /\ block' = block /\ Kept(memory', kem.keys) /\ AllExplained'
    BY <1>2, BehindStep
  <2>2. kem.sent # Nothing => secret # kem.sent
    BY <1>0, DecapsRejects DEF MainInv, Exchange, Kept
  <2> HIDE DEF secret
  <2>3. /\ DOMAIN kem' = {"keys", "sent", "got"} /\ kem'.keys = kem.keys
        /\ kem'.sent = kem.sent /\ kem'.got = secret
    BY <1>2 DEF MainInv, Exchange, secret
  <2>4. Exchange'
    BY <1>0, <2>2, <2>3 DEF Exchange, SecretsDisagree
  <2>5. Size' = Size
    BY <2>1 DEF Size
  <2>6. Untried'
    BY <1>0 DEF Untried
  <2> HIDE DEF KyberDecaps, Explained
  <2> QED BY <1>0, <2>1, <2>3, <2>4, <2>5, <2>6 DEF MainInv, AllExplained
<1>3. \/ UNCHANGED <<wsVars, kem>>
      \/ /\ Write("kyber_ss", 32, Kyber512Decaps(LoadCt, LoadSk))
         /\ kem' = [kem EXCEPT !.got = Kyber512Decaps(LoadCt, LoadSk)]
  OBVIOUS
<1> QED BY <1>1, <1>2, <1>3

LEMMA EncapsAgainStep == ASSUME MainInv, KyberEncapsAgain PROVE MainInv'
<1>1. /\ pc' = "decaps_again" /\ UNCHANGED <<looping, networkUp, kem>>
      /\ \/ UNCHANGED wsVars
         \/ Write("kyber_ct", 768, Kyber512Encaps(LoadPk, draws).ct)
  BY DEF KyberEncapsAgain
<1>2. CASE UNCHANGED wsVars
  BY <1>1, <1>2, QuietStep DEF MainInv
<1>3. ASSUME NEW ct, Write("kyber_ct", 768, ct) PROVE MainInv'
  <2>1. board' = board /\ block' = block /\ Kept(memory', kem.keys) /\ AllExplained'
    BY <1>3, BehindStep
  <2> QED BY <1>1, <2>1, LaterStep
<1> QED BY <1>1, <1>2, <1>3

\* secure_clear begins behind the keys.
LEMMA ClearStep ==
  ASSUME MainInv, SecureClear, UNCHANGED <<looping, networkUp, kem>>,
         pc' \notin {"network_init", "allocate", "encaps", "decaps"}
  PROVE  MainInv'
<1> DEFINE e == In("raw", 0, Size)
<1>1. e \in Extents /\ 2304 <= e[1]
  <2>1. e \in Extents /\ e[1] >= 10996
    BY OtherExtents DEF MainInv
  <2> HIDE DEF e
  <2> QED BY <2>1 DEF Extents
<1>2. block = Size => \A w \in Beyond("secure_clear", e, block) : Explained(w)
  BY WritesExplained DEF MainInv
<1> HIDE DEF e
<1>3. memory' = Store(memory, e, ZeroBytes) /\ overruns' = overruns \cup Beyond("secure_clear", e, block)
      /\ board' = board /\ block' = block
  BY DEF SecureClear, e
<1>4. Kept(memory', kem.keys)
  BY <1>1, <1>3, KeptBehind DEF MainInv
<1>5. AllExplained'
  <2> HIDE DEF Explained, Beyond
  <2> QED BY <1>2, <1>3, MoreExplained DEF MainInv, AllExplained
<1> QED BY <1>3, <1>4, <1>5, LaterStep

LEMMA DilithiumKeypairStep == ASSUME MainInv, DilithiumKeypair PROVE MainInv'
<1>1. pc' \in {"idle", "send", "sign"} /\ UNCHANGED <<looping, networkUp, kem>>
  BY DEF DilithiumKeypair, AfterDilithium
<1>2. CASE UNCHANGED wsVars
  BY <1>1, <1>2, QuietStep DEF MainInv
<1>3. CASE ~(UNCHANGED wsVars)
  <2> DEFINE keys == DilithiumKeyPair(draws)
             more == Beyond("dilithium_pk", In("dilithium_pk", 0, 1312), block)
                       \cup Beyond("dilithium_sk", In("dilithium_sk", 0, 2528), block)
             first == Store(memory, <<4640, 5952>>, keys.pk)
  <2>1. /\ memory' = Store(first, <<5952, 8480>>, keys.sk)
        /\ overruns' = (overruns \cup Beyond("dilithium_pk", In("dilithium_pk", 0, 1312), block))
                         \cup Beyond("dilithium_sk", In("dilithium_sk", 0, 2528), block)
        /\ board' = board /\ block' = block
    BY <1>3, OtherExtents DEF DilithiumKeypair, MainInv
  <2> HIDE DEF keys
  <2>2. Kept(first, kem.keys)
    <3>1. <<4640, 5952>> \in Extents /\ 2304 <= <<4640, 5952>>[1]
      BY DEF Extents
    <3> QED BY <3>1, KeptBehind DEF MainInv
  <2> HIDE DEF first
  <2>3. Kept(memory', kem.keys)
    <3>1. <<5952, 8480>> \in Extents /\ 2304 <= <<5952, 8480>>[1]
      BY DEF Extents
    <3> QED BY <2>1, <2>2, <3>1, KeptBehind
  <2>4. AllExplained'
    <3>1. overruns' = overruns \cup more
      BY <2>1
    <3>2. block = Size => \A w \in more : Explained(w)
      BY WritesExplained DEF MainInv
    <3> HIDE DEF more, Explained
    <3> QED BY <2>1, <3>1, <3>2, MoreExplained DEF MainInv, AllExplained
  <2> QED BY <1>1, <2>1, <2>3, <2>4, LaterStep
<1> QED BY <1>2, <1>3

LEMMA SignStep == ASSUME MainInv, DilithiumSign PROVE MainInv'
<1>1. /\ pc' = "verify" /\ UNCHANGED <<looping, networkUp, kem>>
      /\ \/ UNCHANGED wsVars
         \/ \E signature : Write("dilithium_sig", 2420, signature)
  BY DEF DilithiumSign
<1>2. CASE UNCHANGED wsVars
  BY <1>1, <1>2, QuietStep DEF MainInv
<1>3. ASSUME NEW signature, Write("dilithium_sig", 2420, signature) PROVE MainInv'
  <2>1. board' = board /\ block' = block /\ Kept(memory', kem.keys) /\ AllExplained'
    BY <1>3, BehindStep
  <2> QED BY <1>1, <2>1, LaterStep
<1> QED BY <1>1, <1>2, <1>3

LEMMA NetworkStep == ASSUME MainInv, InitNetwork PROVE MainInv'
<1>1. pc' \in {"allocate", "idle", "stopped"} /\ UNCHANGED <<wsVars, kem>>
      /\ pc = "network_init" /\ {looping', networkUp'} \subseteq BOOLEAN
  BY DEF InitNetwork, SetupFails, NetworkInit, EspNowInit, UartHardwareInit, PcNetworkInit, MainInv
<1>2. CASE pc' # "allocate"
  BY <1>1, <1>2, QuietStep
<1>3. CASE pc' = "allocate"
  <2>1. block = 0 /\ memory = <<>> /\ overruns = {} /\ kem = NoSecrets
    BY <1>1 DEF MainInv, Untried
  <2>2. AllExplained'
    BY <1>1, <2>1 DEF AllExplained, wsVars
  <2>3. Untried' /\ Size' = Size /\ Kept(memory, kem.keys)'
    BY <1>1, <2>1 DEF Untried, wsVars, Size, MainInv
  <2>4. Exchange'
    BY <1>1, <1>3 DEF Exchange, MainInv, SecretsDisagree
  <2> HIDE DEF Explained
  <2> QED BY <1>1, <2>2, <2>3, <2>4 DEF MainInv, AllExplained, wsVars
<1> QED BY <1>2, <1>3

LEMMA MainStep == MainInv /\ [Next]_vars => MainInv'
<1> SUFFICES ASSUME MainInv, [Next]_vars PROVE MainInv'
  OBVIOUS
<1>0. ASSUME UNCHANGED mainVars, UNCHANGED wsVars PROVE MainInv'
  <2>1. Size' = Size
    BY <1>0 DEF wsVars, Size
  <2>2. AllExplained'
    <3>1. overruns' = overruns \cup {} /\ board' = board /\ block' = block
      BY <1>0 DEF wsVars
    <3> QED BY <3>1, MoreExplained DEF MainInv, AllExplained
  <2>3. /\ Kept(memory, kem.keys)' /\ UNCHANGED <<board, block, looping, networkUp>>
    BY <1>0 DEF wsVars, mainVars, MainInv
  <2>4. Exchange' /\ Untried'
    BY <1>0 DEF wsVars, mainVars, MainInv, Exchange, Untried, SecretsDisagree
  <2> HIDE DEF Explained
  <2> QED BY <2>1, <2>2, <2>3, <2>4 DEF MainInv, AllExplained
<1>1. CASE MemoryTest \/ StorageTest
  <2>1. UNCHANGED <<wsVars, kem, looping, networkUp>> /\ pc' \in {"storage", "kyber"}
    BY <1>1 DEF MemoryTest, StorageTest
  <2> QED BY <2>1, QuietStep DEF MainInv
<1>2. CASE KyberDecapsAgain
  <2>1. UNCHANGED <<wsVars, kem, looping, networkUp>> /\ pc' = "compare"
    BY <1>2 DEF KyberDecapsAgain
  <2> QED BY <2>1, QuietStep DEF MainInv
<1>3. CASE KyberCompare
  <2>1. SecureClear /\ UNCHANGED <<kem, looping, networkUp>> /\ pc' = "dilithium"
    BY <1>3 DEF KyberCompare
  <2> QED BY <2>1, ClearStep
<1>4. CASE DilithiumVerifyStep
  <2>1. SecureClear /\ UNCHANGED <<kem, looping, networkUp>> /\ pc' \in {"idle", "send"}
    BY <1>4 DEF DilithiumVerifyStep, AfterDilithium
  <2> QED BY <2>1, ClearStep
<1>5. CASE SendTest \/ ReceiveNothing \/ ReceiveTest \/ ReceiveDone
  <2>1. UNCHANGED <<wsVars, kem, networkUp>> /\ looping' \in {looping, TRUE}
        /\ pc' \in {"receive", "receiving", "idle"}
    BY <1>5 DEF SendTest, ReceiveNothing, ReceiveTest, ReceiveDone
  <2> QED BY <2>1, QuietStep DEF MainInv
<1>6. CASE Repeat
  <2>1. UNCHANGED <<wsVars, kem, looping, networkUp>> /\ pc' = "kyber"
    BY <1>6 DEF Repeat
  <2> QED BY <2>1, QuietStep DEF MainInv
<1>7. CASE UNCHANGED vars
  BY <1>0, <1>7 DEF vars, wsVars, mainVars
<1>8. CASE Uart /\ UNCHANGED <<wsVars, mainVars>>
  BY <1>0, <1>8
<1> QED
  BY <1>1, <1>2, <1>3, <1>4, <1>5, <1>6, <1>7, <1>8, NetworkStep, AllocateStep, KeypairStep,
     EncapsStep, DecapsStep, EncapsAgainStep, DilithiumKeypairStep, SignStep DEF Next


(***************************************************************************)
(* Flattening                                                              *)
(***************************************************************************)
\* A set of natural numbers has a least element.
LEMMA Least ==
  ASSUME NEW T, T \subseteq Nat, T # {}
  PROVE  \E x \in T : \A y \in T : x <= y
<1>1. ASSUME NEW x \in Nat, NEW y \in Nat, y < x PROVE <<y, x>> \in OpToRel(<, Nat)
  BY <1>1 DEF OpToRel
<1>2. PICK x \in T : \A y \in T : ~ (<<y, x>> \in OpToRel(<, Nat))
  BY WFMin, NatLessThanWellFounded
<1>3. ASSUME NEW y \in T PROVE x <= y
  <2>1. ~(y < x)
    BY <1>1, <1>2
  <2> QED BY <2>1
<1> QED BY <1>3

\* What holds of zero and of every successor holds of every natural number.
LEMMA SetInduction ==
  ASSUME NEW S, 0 \in S, \A n \in Nat : n \in S => n + 1 \in S
  PROVE  Nat \subseteq S
<1> DEFINE T == Nat \ S
<1> SUFFICES ASSUME T # {} PROVE FALSE
  OBVIOUS
<1>1. PICK x \in T : \A y \in T : x <= y
  <2>1. T \subseteq Nat
    OBVIOUS
  <2> HIDE DEF T
  <2> QED BY <2>1, Least
<1>2. x # 0 /\ x \in Nat
  OBVIOUS
<1>3. x - 1 \in Nat /\ x - 1 < x /\ (x - 1) + 1 = x
  BY <1>2
<1>4. x - 1 \notin T
  BY <1>1, <1>2, <1>3
<1> QED BY <1>2, <1>3, <1>4

\* The equation by which FlattenSeq computes.
Unrolled(s, n, f) == f = [i \in 1 .. n |-> IF i = 1 THEN s[i] ELSE f[i - 1] \o s[i]]

LEMMA UnrolledAt ==
  ASSUME NEW s, NEW n \in Nat, NEW f, Unrolled(s, n, f), NEW i \in 1 .. n
  PROVE  f[i] = IF i = 1 THEN s[i] ELSE f[i - 1] \o s[i]
<1> DEFINE g == [j \in 1 .. n |-> IF j = 1 THEN s[j] ELSE f[j - 1] \o s[j]]
<1>1. g[i] = IF i = 1 THEN s[i] ELSE f[i - 1] \o s[i]
  OBVIOUS
<1>2. f = g
  BY DEF Unrolled
<1> HIDE DEF g
<1> QED BY <1>1, <1>2

LEMMA UnrolledExists == \A s : \A n \in Nat : \E f : Unrolled(s, n, f)
<1> TAKE s
<1> DEFINE N == {n \in Nat : \E f : Unrolled(s, n, f)}
<1>1. 0 \in N
  <2>1. Unrolled(s, 0, [i \in 1 .. 0 |-> 0])
    BY DEF Unrolled
  <2> QED BY <2>1
<1>2. ASSUME NEW n \in N PROVE n + 1 \in N
  <2>1. PICK f : Unrolled(s, n, f)
    OBVIOUS
  <2> DEFINE g == [i \in 1 .. n + 1 |->
                     IF i <= n THEN f[i] ELSE IF i = 1 THEN s[i] ELSE f[i - 1] \o s[i]]
  <2>2. ASSUME NEW i \in 1 .. n + 1
        PROVE  g[i] = IF i = 1 THEN s[i] ELSE g[i - 1] \o s[i]
    <3>1. CASE i = 1
      <4>1. i <= n => f[i] = IF i = 1 THEN s[i] ELSE f[i - 1] \o s[i]
        BY <2>1, UnrolledAt
      <4> QED BY <3>1, <4>1
    <3>2. CASE i # 1
      <4>1. i - 1 \in 1 .. n /\ g[i - 1] = f[i - 1]
        BY <3>2
      <4>2. g[i] = f[i - 1] \o s[i]
        <5>1. CASE i <= n
          <6>1. f[i] = IF i = 1 THEN s[i] ELSE f[i - 1] \o s[i]
            BY <2>1, <5>1, UnrolledAt
          <6> QED BY <3>2, <5>1, <6>1
        <5>2. CASE ~(i <= n)
          BY <3>2, <5>2
        <5> QED BY <5>1, <5>2
      <4> HIDE DEF g
      <4> QED BY <3>2, <4>1, <4>2
    <3> QED BY <3>1, <3>2
  <2>3. Unrolled(s, n + 1, g)
    <3>1. g = [i \in 1 .. n + 1 |-> g[i]]
      OBVIOUS
    <3> HIDE DEF g
    <3> QED BY <2>2, <3>1 DEF Unrolled
  <2> HIDE DEF g
  <2> QED BY <2>3
<1> HIDE DEF N
<1>3. Nat \subseteq N
  BY <1>1, <1>2, SetInduction
<1> QED BY <1>3 DEF N

\* It determines f, and f as far as two sequences are the same.
Alike(s, t, n) == \A i \in 1 .. n : s[i] = t[i]

LEMMA UnrolledSame ==
  ASSUME NEW s, NEW t, NEW n \in Nat, NEW m \in Nat, n <= m,
         Alike(s, t, n),
         NEW f, NEW g, Unrolled(s, n, f), Unrolled(t, m, g)
  PROVE  Alike(f, g, n)
<1> DEFINE N == {k \in Nat : k \in 1 .. n => f[k] = g[k]}
<1>1. 0 \in N
  OBVIOUS
<1>2. ASSUME NEW k \in Nat, k \in N PROVE k + 1 \in N
  <2> SUFFICES ASSUME k + 1 \in 1 .. n PROVE f[k + 1] = g[k + 1]
    OBVIOUS
  <2>1. f[k + 1] = IF k + 1 = 1 THEN s[k + 1] ELSE f[(k + 1) - 1] \o s[k + 1]
    BY UnrolledAt
  <2>2. g[k + 1] = IF k + 1 = 1 THEN t[k + 1] ELSE g[(k + 1) - 1] \o t[k + 1]
    BY UnrolledAt
  <2>3. (k + 1) - 1 = k /\ s[k + 1] = t[k + 1] /\ (k + 1 # 1 => k \in 1 .. n)
    BY DEF Alike
  <2>4. k \in 1 .. n => f[k] = g[k]
    BY <1>2
  <2> QED BY <2>1, <2>2, <2>3, <2>4
<1> HIDE DEF N
<1>3. Nat \subseteq N
  BY <1>1, <1>2, SetInduction
<1> QED BY <1>3 DEF N, Alike

LEMMA UnrolledType ==
  ASSUME NEW S, NEW s \in Seq(Seq(S)), NEW f, Unrolled(s, Len(s), f)
  PROVE  \A i \in 1 .. Len(s) : f[i] \in Seq(S)
<1> DEFINE N == {k \in Nat : k \in 1 .. Len(s) => f[k] \in Seq(S)}
<1>1. 0 \in N
  OBVIOUS
<1>2. ASSUME NEW k \in Nat, k \in N PROVE k + 1 \in N
  <2> SUFFICES ASSUME k + 1 \in 1 .. Len(s) PROVE f[k + 1] \in Seq(S)
    OBVIOUS
  <2>1. f[k + 1] = IF k + 1 = 1 THEN s[k + 1] ELSE f[(k + 1) - 1] \o s[k + 1]
    BY UnrolledAt
  <2>2. (k + 1) - 1 = k /\ s[k + 1] \in Seq(S) /\ (k + 1 # 1 => k \in 1 .. Len(s))
    OBVIOUS
  <2>3. k \in 1 .. Len(s) => f[k] \in Seq(S)
    BY <1>2
  <2> QED BY <2>1, <2>2, <2>3
<1> HIDE DEF N
<1>3. Nat \subseteq N
  BY <1>1, <1>2, SetInduction
<1> QED BY <1>3 DEF N

LEMMA FlattenUnrolls ==
  ASSUME NEW s, Len(s) \in Nat
  PROVE  \E f : /\ Unrolled(s, Len(s), f)
                /\ FlattenSeq(s) = IF Len(s) = 0 THEN s ELSE f[Len(s)]
<1> DEFINE f == CHOOSE h : h = [i \in 1 .. Len(s) |-> IF i = 1 THEN s[i] ELSE h[i - 1] \o s[i]]
<1>1. Unrolled(s, Len(s), f)
  BY UnrolledExists DEF Unrolled
<1>2. FlattenSeq(s) = IF Len(s) = 0 THEN s ELSE f[Len(s)]
  BY DEF FlattenSeq
<1> HIDE DEF f
<1> QED BY <1>1, <1>2

LEMMA FlattenAppend ==
  ASSUME NEW S, NEW s \in Seq(Seq(S)), NEW x \in Seq(S)
  PROVE  FlattenSeq(s) \in Seq(S) /\ FlattenSeq(Append(s, x)) = FlattenSeq(s) \o x
<1> DEFINE t == Append(s, x)
           n == Len(s)
<1>1. /\ n \in Nat /\ Len(t) = n + 1 /\ t \in Seq(Seq(S)) /\ t[n + 1] = x
      /\ \A i \in 1 .. n : t[i] = s[i]
  OBVIOUS
<1> HIDE DEF t
<1>2. PICK f : Unrolled(s, n, f) /\ FlattenSeq(s) = IF n = 0 THEN s ELSE f[n]
  BY <1>1, FlattenUnrolls
<1>3. PICK g : Unrolled(t, Len(t), g) /\ FlattenSeq(t) = IF Len(t) = 0 THEN t ELSE g[Len(t)]
  <2>1. Len(t) \in Nat
    BY <1>1
  <2> QED BY <2>1, FlattenUnrolls
<1>4. FlattenSeq(t) = g[n + 1] /\ Unrolled(t, n + 1, g)
  BY <1>1, <1>3
<1>5. g[n + 1] = IF n + 1 = 1 THEN t[n + 1] ELSE g[(n + 1) - 1] \o t[n + 1]
  <2>1. n + 1 \in Nat /\ n + 1 \in 1 .. n + 1
    BY <1>1
  <2> QED BY <1>4, <2>1, UnrolledAt
<1>6. CASE n = 0
  <2>1. s = <<>>
    BY <1>6
  <2>2. <<>> \o x = x /\ <<>> \in Seq(S)
    BY ConcatEmptySeq
  <2> QED BY <1>1, <1>2, <1>4, <1>5, <1>6, <2>1, <2>2 DEF t
<1>7. CASE n # 0
  <2>1. n \in 1 .. n /\ n + 1 # 1 /\ (n + 1) - 1 = n /\ n <= n + 1
    BY <1>1, <1>7
  <2>2. Alike(f, g, n)
    <3> DEFINE m == n + 1
    <3>1. n \in Nat /\ m \in Nat /\ n <= m
      BY <1>1
    <3>2. Unrolled(s, n, f) /\ Unrolled(t, m, g)
      BY <1>2, <1>4
    <3>3. Alike(s, t, n)
      BY <1>1 DEF Alike
    <3> HIDE DEF n, m
    <3> QED BY ONLY <3>1, <3>2, <3>3, UnrolledSame
  <2>3. f[n] \in Seq(S)
    BY <1>2, <2>1, UnrolledType
  <2> QED BY <1>1, <1>2, <1>4, <1>5, <1>7, <2>1, <2>2, <2>3 DEF t, Alike
<1> QED BY <1>6, <1>7

(***************************************************************************)
(* Frames                                                                  *)
(***************************************************************************)
\* The bytes that a frame has between its ends: never the start byte.
Inner == Byte \ {START_BYTE}

LEMMA EscapedType == ASSUME NEW b \in Byte PROVE Escaped(b) \in Seq(Inner)
<1>1. CASE IsSpecial(b)
  <2>1. b = 170 \/ b = 85
    BY <1>1 DEF IsSpecial, START_BYTE, ESCAPE_BYTE, END_BYTE
  <2>2. Toggle(b) \in {138, 117}
    BY <2>1 DEF Toggle
  <2>3. Escaped(b) = <<85, Toggle(b)>>
    BY <1>1 DEF Escaped, ESCAPE_BYTE
  <2>4. 85 \in Inner /\ 138 \in Inner /\ 117 \in Inner
    BY DEF Inner, Byte, START_BYTE
  <2> QED BY <2>2, <2>3, <2>4
<1>2. CASE ~IsSpecial(b)
  <2>1. Escaped(b) = <<b>> /\ b \in Inner
    BY <1>2 DEF Escaped, IsSpecial, Inner
  <2> QED BY <2>1
<1> QED BY <1>1, <1>2

\* The first byte of a packet that send_frame has to escape. The receiver takes the escape
\* for the end of the frame: what it yields is cut there.
CutAt(packet) ==
  Min({i \in DOMAIN packet : IsSpecial(packet[i])} \cup {Len(packet) + 1})
Yield(frame) ==
  LET cut == CutAt(frame.packet)
  IN  IF frame.out > cut /\ cut > MacLen
      THEN << <<SubSeq(frame.packet, 1, MacLen), SubSeq(frame.packet, MacLen + 1, cut - 1)>> >>
      ELSE <<>>

\* What is received, whatever the packets hold: how far SentIsReceived fails.
FramesCut == Received(FlattenSeq([i \in DOMAIN frames |-> Yield(frames[i])]))

LEMMA CutFacts ==
  ASSUME NEW p \in Seq(Byte)
  PROVE  LET cut == CutAt(p)
         IN  /\ cut \in 1 .. Len(p) + 1
             /\ \A i \in 1 .. Len(p) : i < cut => ~IsSpecial(p[i])
             /\ cut <= Len(p) => IsSpecial(p[cut])
<1> DEFINE S == {i \in DOMAIN p : IsSpecial(p[i])} \cup {Len(p) + 1}
<1>1. DOMAIN p = 1 .. Len(p) /\ Len(p) \in Nat
  OBVIOUS
<1>2. \E x \in S : \A y \in S : x <= y
  <2>1. S \subseteq Nat /\ S # {}
    BY <1>1
  <2> HIDE DEF S
  <2> QED BY <2>1, Least
<1>3. CutAt(p) \in S /\ \A y \in S : CutAt(p) <= y
  <2>1. CutAt(p) = Min(S)
    BY DEF CutAt
  <2> HIDE DEF S
  <2> QED BY <1>2, <2>1 DEF Min
<1> DEFINE cut == CutAt(p)
<1> HIDE DEF cut
<1>4. cut \in S /\ \A y \in S : cut <= y
  BY <1>3 DEF cut
<1>5. cut \in 1 .. Len(p) + 1
  BY <1>1, <1>4
<1>6. \A i \in 1 .. Len(p) : i < cut => ~IsSpecial(p[i])
  BY <1>1, <1>4, <1>5
<1>7. cut <= Len(p) => IsSpecial(p[cut])
  BY <1>1, <1>4, <1>5
<1> QED BY <1>5, <1>6, <1>7 DEF cut

\* The escaped form of the first m bytes of a packet.
Body(p, m) == FlattenSeq([i \in 1 .. m |-> Escaped(p[i])])

LEMMA BodyNext ==
  ASSUME NEW p \in Seq(Byte), NEW m \in 0 .. Len(p) - 1
  PROVE  /\ Body(p, m) \in Seq(Inner)
         /\ Body(p, m + 1) = Body(p, m) \o Escaped(p[m + 1])
         /\ p[m + 1] \in Byte
<1> DEFINE pre(k) == [i \in 1 .. k |-> Escaped(p[i])]
<1>0. Len(p) \in Nat /\ m \in Nat /\ m + 1 \in 1 .. Len(p)
  OBVIOUS
<1>1. \A i \in 1 .. Len(p) : p[i] \in Byte /\ Escaped(p[i]) \in Seq(Inner)
  BY EscapedType
<1>2. pre(m) \in Seq(Seq(Inner)) /\ Len(pre(m)) = m
  BY <1>0, <1>1
<1>3. pre(m + 1) = Append(pre(m), Escaped(p[m + 1]))
  <2>1. pre(m + 1) \in Seq(Seq(Inner)) /\ Len(pre(m + 1)) = m + 1
    BY <1>0, <1>1
  <2>2. /\ Append(pre(m), Escaped(p[m + 1])) \in Seq(Seq(Inner))
        /\ Len(Append(pre(m), Escaped(p[m + 1]))) = m + 1
    BY <1>0, <1>1, <1>2
  <2>3. ASSUME NEW i \in 1 .. m + 1 PROVE pre(m + 1)[i] = Append(pre(m), Escaped(p[m + 1]))[i]
    BY <1>0, <1>1, <1>2
  <2> HIDE DEF pre
  <2> QED BY <2>1, <2>2, <2>3, SeqEqual
<1>4. Escaped(p[m + 1]) \in Seq(Inner)
  BY <1>0, <1>1
<1> HIDE DEF pre
<1>5. FlattenSeq(pre(m)) \in Seq(Inner) /\ FlattenSeq(pre(m + 1)) = FlattenSeq(pre(m)) \o Escaped(p[m + 1])
  BY <1>2, <1>3, <1>4, FlattenAppend
<1> QED BY <1>0, <1>1, <1>5 DEF Body, pre

\* Up to the cut the body is the packet; at the cut stands the byte 0x55.
Framed(p, m) ==
  LET body == Body(p, m)
      cut  == CutAt(p)
  IN  /\ body \in Seq(Inner)
      /\ \A i \in 1 .. m : i < cut => i <= Len(body) /\ body[i] = p[i]
      /\ m < cut => Len(body) = m
      /\ m >= cut => Len(body) >= cut /\ body[cut] = 85

LEMMA BodyIs == ASSUME NEW p \in Seq(Byte) PROVE Framed(p, Len(p))
<1> DEFINE N == {m \in Nat : m <= Len(p) => Framed(p, m)}
           cut == CutAt(p)
<1>0. Len(p) \in Nat /\ cut \in 1 .. Len(p) + 1
  BY CutFacts
<1>1. 0 \in N
  <2>1. Body(p, 0) = <<>>
    <3>1. [i \in 1 .. 0 |-> Escaped(p[i])] = <<>>
      OBVIOUS
    <3>2. FlattenSeq(<<>>) = <<>>
      BY DEF FlattenSeq
    <3> QED BY <3>1, <3>2 DEF Body
  <2>2. <<>> \in Seq(Inner) /\ Len(<<>>) = 0
    OBVIOUS
  <2>3. 0 < CutAt(p) /\ ~(0 >= CutAt(p)) /\ 1 .. 0 = {}
    BY <1>0
  <2>4. Framed(p, 0)
    <3>1. \A i \in 1 .. 0 : i < CutAt(p) => i <= Len(<<>>) /\ (<<>>)[i] = p[i]
      BY <2>3
    <3> HIDE DEF cut
    <3> QED BY <2>1, <2>2, <2>3, <3>1 DEF Framed
  <2> QED BY <2>4
<1>2. ASSUME NEW m \in Nat, m \in N PROVE m + 1 \in N
  <2> SUFFICES ASSUME m + 1 <= Len(p) PROVE Framed(p, m + 1)
    OBVIOUS
  <2> DEFINE old == Body(p, m)
             more == Escaped(p[m + 1])
             new == Body(p, m + 1)
  <2>1. m \in 0 .. Len(p) - 1 /\ m + 1 \in 1 .. Len(p)
    BY <1>0
  <2>2. old \in Seq(Inner) /\ new = old \o more /\ p[m + 1] \in Byte
    BY <2>1, BodyNext
  <2>3. more \in Seq(Inner)
    BY <2>2, EscapedType
  <2>4. Framed(p, m)
    BY <1>0, <2>1, <1>2
  <2>5. /\ \A i \in 1 .. m : i < cut => i <= Len(old) /\ old[i] = p[i]
        /\ m < cut => Len(old) = m
        /\ m >= cut => Len(old) >= cut /\ old[cut] = 85
    BY <2>4 DEF Framed
  <2>6. m + 1 < cut => more = <<p[m + 1]>>
    BY <2>1, CutFacts DEF Escaped
  <2>7. m + 1 = cut => Len(more) = 2 /\ more[1] = 85
    <3>1. m + 1 = cut => IsSpecial(p[m + 1])
      BY <2>1, CutFacts
    <3> QED BY <3>1 DEF Escaped, ESCAPE_BYTE
  <2> HIDE DEF old, more, new, cut
  <2>8. Len(old) \in Nat /\ Len(more) \in Nat /\ new \in Seq(Inner) /\ Len(new) = Len(old) + Len(more)
    BY <2>2, <2>3
  <2>9. /\ \A i \in 1 .. Len(old) : new[i] = old[i]
        /\ \A i \in 1 .. Len(more) : new[Len(old) + i] = more[i]
    BY <2>2, <2>3
  <2>10. CASE m + 1 < cut
    <3>1. Len(more) = 1 /\ more[1] = p[m + 1] /\ Len(old) = m
      BY <1>0, <2>5, <2>6, <2>10
    <3>2. Len(new) = m + 1 /\ new[m + 1] = p[m + 1]
      BY <2>8, <2>9, <3>1
    <3>3. ASSUME NEW i \in 1 .. m + 1 PROVE i <= Len(new) /\ new[i] = p[i]
      <4>1. CASE i = m + 1
        BY <3>2, <4>1
      <4>2. CASE i # m + 1
        <5>1. i \in 1 .. m /\ i < cut
          BY <1>0, <2>10, <4>2
        <5> QED BY <2>5, <2>9, <3>1, <3>2, <5>1
      <4> QED BY <4>1, <4>2
    <3> QED BY <1>0, <2>8, <2>10, <3>2, <3>3 DEF Framed, new, cut
  <2>11. CASE m + 1 = cut
    <3>1. Len(more) = 2 /\ more[1] = 85 /\ Len(old) = m
      BY <1>0, <2>5, <2>7, <2>11
    <3>2. Len(new) = m + 2 /\ new[cut] = 85
      BY <2>8, <2>9, <2>11, <3>1
    <3>3. ASSUME NEW i \in 1 .. m + 1, i < cut PROVE i <= Len(new) /\ new[i] = p[i]
      <4>1. i \in 1 .. m
        BY <2>11, <3>3
      <4> QED BY <2>5, <2>9, <3>1, <3>2, <3>3, <4>1
    <3> QED BY <1>0, <2>8, <2>11, <3>2, <3>3 DEF Framed, new, cut
  <2>12. CASE m >= cut
    <3>1. Len(old) >= cut /\ old[cut] = 85 /\ cut \in 1 .. Len(old)
      BY <1>0, <2>5, <2>8, <2>12
    <3>2. Len(new) >= cut /\ new[cut] = 85
      BY <1>0, <2>8, <2>9, <3>1
    <3>3. ASSUME NEW i \in 1 .. m + 1, i < cut PROVE i <= Len(new) /\ new[i] = p[i]
      <4>1. i \in 1 .. m /\ i \in 1 .. Len(old)
        BY <1>0, <2>8, <2>12, <3>1, <3>3
      <4> QED BY <2>5, <2>8, <2>9, <3>3, <4>1
    <3> QED BY <1>0, <2>8, <2>12, <3>2, <3>3 DEF Framed, new, cut
  <2> QED BY <1>0, <2>10, <2>11, <2>12
<1> HIDE DEF N
<1>3. Nat \subseteq N
  BY <1>1, <1>2, SetInduction
<1> QED BY <1>0, <1>3 DEF N

\* What the receiver needs to know of an encoded packet.
LEMMA EncodedIs ==
  ASSUME NEW p \in Seq(Byte)
  PROVE  LET cut == CutAt(p)
             e   == Encoded(p)
         IN  /\ cut \in 1 .. Len(p) + 1
             /\ e \in Seq(Byte) /\ Len(e) >= 1 + cut
             /\ e[1] = START_BYTE
             /\ \A i \in 1 .. cut - 1 : e[1 + i] = p[i] /\ ~IsSpecial(p[i])
             /\ e[1 + cut] = END_BYTE
             /\ \A j \in 2 .. Len(e) : e[j] # START_BYTE
             /\ cut > Len(p) => Len(e) = Len(p) + 2
<1> DEFINE cut == CutAt(p)
           e   == Encoded(p)
           body == Body(p, Len(p))
<1>1. /\ cut \in 1 .. Len(p) + 1 /\ Len(p) \in Nat
      /\ \A i \in 1 .. cut - 1 : ~IsSpecial(p[i]) /\ i \in 1 .. Len(p)
  BY CutFacts
<1>2. e = <<170>> \o body \o <<85>>
  <2>1. DOMAIN p = 1 .. Len(p)
    OBVIOUS
  <2> QED BY <2>1 DEF Encoded, Body, START_BYTE, END_BYTE
<1>3. /\ body \in Seq(Inner)
      /\ \A i \in 1 .. Len(p) : i < cut => i <= Len(body) /\ body[i] = p[i]
      /\ Len(p) < cut => Len(body) = Len(p)
      /\ Len(p) >= cut => Len(body) >= cut /\ body[cut] = 85
  BY BodyIs DEF Framed
<1> HIDE DEF cut, e, body
<1>4. 85 \in Inner /\ 170 \in Byte /\ Inner \subseteq Byte /\ 170 \notin Inner
  BY DEF Inner, Byte, START_BYTE
<1>5. body \in Seq(Byte) /\ Len(body) \in Nat
  BY <1>3, <1>4
<1>6. /\ e \in Seq(Byte) /\ Len(e) = Len(body) + 2 /\ e[1] = 170 /\ e[Len(body) + 2] = 85
      /\ \A i \in 1 .. Len(body) : e[1 + i] = body[i]
  BY <1>2, <1>4, <1>5
<1>7. Len(e) >= 1 + cut /\ e[1 + cut] = 85
  <2>1. CASE cut <= Len(p)
    BY <1>1, <1>3, <1>5, <1>6, <2>1
  <2>2. CASE ~(cut <= Len(p))
    BY <1>1, <1>3, <1>5, <1>6, <2>2
  <2> QED BY <2>1, <2>2
<1>8. ASSUME NEW i \in 1 .. cut - 1 PROVE e[1 + i] = p[i] /\ ~IsSpecial(p[i])
  <2>1. i \in 1 .. Len(p) /\ i < cut
    BY <1>1
  <2> QED BY <1>1, <1>3, <1>5, <1>6, <2>1
<1>9. ASSUME NEW j \in 2 .. Len(e) PROVE e[j] # 170
  <2>1. CASE j = Len(body) + 2
    BY <1>6, <2>1
  <2>2. CASE j # Len(body) + 2
    <3> DEFINE i == j - 1
    <3>0. i \in 1 .. Len(body) /\ 1 + i = j
      BY <1>5, <1>6, <2>2
    <3> HIDE DEF i
    <3>1. i \in 1 .. Len(body) /\ e[j] = body[i]
      BY <1>6, <3>0
    <3>2. body[i] \in Inner
      BY <1>3, <3>1
    <3> QED BY <1>4, <3>1, <3>2
  <2> QED BY <2>1, <2>2
<1>10. cut > Len(p) => Len(e) = Len(p) + 2
  BY <1>1, <1>3, <1>6
<1> QED BY <1>1, <1>6, <1>7, <1>8, <1>9, <1>10 DEF cut, e, START_BYTE, END_BYTE

(***************************************************************************)
(* What the frames yield                                                   *)
(***************************************************************************)
SentFrames == {f \in [packet : Seq(Byte), out : Nat] :
                  Len(f.packet) \in MacLen + 1 .. MaxPacket /\ f.out <= Len(Encoded(f.packet))}
Packet == Seq(Byte) \X Seq(Byte)

\* What the first i of the frames fs yield.
Due(fs, i) == FlattenSeq([j \in 1 .. i |-> Yield(fs[j])])

LEMMA YieldType ==
  ASSUME NEW f \in SentFrames
  PROVE  /\ Yield(f) \in Seq(Packet)
         /\ f.out <= CutAt(f.packet) => Yield(f) = <<>>
<1> DEFINE cut == CutAt(f.packet)
           p   == f.packet
<1>1. p \in Seq(Byte) /\ Len(p) \in Nat /\ f.out \in Nat
  BY DEF SentFrames
<1>2. cut \in 1 .. Len(p) + 1
  BY <1>1, CutFacts
<1>3. MacLen \in Nat \ {0}
  BY UartAssumption
<1>4. f.out > cut /\ cut > MacLen =>
        SubSeq(p, 1, MacLen) \in Seq(Byte) /\ SubSeq(p, MacLen + 1, cut - 1) \in Seq(Byte)
  BY <1>1, <1>2, <1>3
<1>5. Yield(f) = IF f.out > cut /\ cut > MacLen
                 THEN << <<SubSeq(p, 1, MacLen), SubSeq(p, MacLen + 1, cut - 1)>> >>
                 ELSE <<>>
  BY DEF Yield
<1> HIDE DEF cut, p
<1>6. Yield(f) \in Seq(Packet)
  <2> DEFINE y == <<SubSeq(p, 1, MacLen), SubSeq(p, MacLen + 1, cut - 1)>>
  <2>1. CASE f.out > cut /\ cut > MacLen
    <3>1. y \in Packet
      BY <1>4, <2>1 DEF Packet
    <3>2. Yield(f) = <<y>>
      BY <1>5, <2>1
    <3> HIDE DEF y
    <3> QED BY <3>1, <3>2
  <2>2. CASE ~(f.out > cut /\ cut > MacLen)
    <3>1. Yield(f) = <<>>
      BY <1>5, <2>2
    <3> QED BY <3>1
  <2> QED BY <2>1, <2>2
<1>7. f.out <= cut => ~(f.out > cut)
  BY <1>1, <1>2
<1> QED BY <1>5, <1>6, <1>7 DEF cut

LEMMA DueFacts ==
  ASSUME NEW fs \in Seq(SentFrames)
  PROVE  /\ Due(fs, 0) = <<>>
         /\ \A i \in 0 .. Len(fs) : Due(fs, i) \in Seq(Packet)
         /\ \A i \in 0 .. Len(fs) - 1 : Due(fs, i + 1) = Due(fs, i) \o Yield(fs[i + 1])
<1> DEFINE pre(k) == [j \in 1 .. k |-> Yield(fs[j])]
<1>0. Len(fs) \in Nat
  OBVIOUS
<1>1. \A i \in 1 .. Len(fs) : Yield(fs[i]) \in Seq(Packet)
  BY YieldType
<1>2. Due(fs, 0) = <<>>
  <2>1. pre(0) = <<>>
    OBVIOUS
  <2>2. FlattenSeq(<<>>) = <<>>
    BY DEF FlattenSeq
  <2> QED BY <2>1, <2>2 DEF Due
<1>3. ASSUME NEW k \in 0 .. Len(fs) PROVE pre(k) \in Seq(Seq(Packet)) /\ Len(pre(k)) = k
  BY <1>0, <1>1
<1>4. ASSUME NEW k \in 0 .. Len(fs) PROVE Due(fs, k) \in Seq(Packet)
  <2>1. <<>> \in Seq(Packet)
    OBVIOUS
  <2> HIDE DEF pre
  <2> QED BY <1>3, <2>1, FlattenAppend DEF Due, pre
<1>5. ASSUME NEW k \in 0 .. Len(fs) - 1 PROVE Due(fs, k + 1) = Due(fs, k) \o Yield(fs[k + 1])
  <2>0. k \in 0 .. Len(fs) /\ k + 1 \in 0 .. Len(fs) /\ k + 1 \in 1 .. Len(fs)
    BY <1>0
  <2> DEFINE y == Yield(fs[k + 1])
  <2>1. y \in Seq(Packet)
    BY <1>1, <2>0
  <2>2. pre(k) \in Seq(Seq(Packet)) /\ Len(pre(k)) = k
    BY <1>3, <2>0
  <2>3. pre(k + 1) \in Seq(Seq(Packet)) /\ Len(pre(k + 1)) = k + 1
    BY <1>3, <2>0
  <2>4. pre(k + 1) = Append(pre(k), y)
    <3>1. /\ Append(pre(k), y) \in Seq(Seq(Packet)) /\ Len(Append(pre(k), y)) = k + 1
      <4> HIDE DEF pre, y
      <4> QED BY <2>1, <2>2
    <3>2. ASSUME NEW i \in 1 .. k + 1 PROVE pre(k + 1)[i] = Append(pre(k), y)[i]
      <4>1. CASE i = k + 1
        <5>1. Append(pre(k), y)[k + 1] = y
          <6> HIDE DEF pre, y
          <6> QED BY <2>1, <2>2
        <5> QED BY <4>1, <5>1
      <4>2. CASE i # k + 1
        <5>1. i \in 1 .. k
          BY <4>2
        <5>2. Append(pre(k), y)[i] = pre(k)[i]
          <6> HIDE DEF pre, y
          <6> QED BY <2>1, <2>2, <5>1
        <5> QED BY <5>1, <5>2
      <4> QED BY <4>1, <4>2
    <3> HIDE DEF pre, y
    <3> QED BY <2>3, <3>1, <3>2, SeqEqual
  <2> HIDE DEF pre, y
  <2>5. FlattenSeq(pre(k + 1)) = FlattenSeq(pre(k)) \o y
    BY <2>1, <2>2, <2>4, FlattenAppend
  <2> QED BY <2>5 DEF Due, pre, y
<1> QED BY <1>2, <1>4, <1>5

\* One more frame leaves what the earlier ones yield.
LEMMA DueKept ==
  ASSUME NEW fs \in Seq(SentFrames), NEW f \in SentFrames, NEW i \in 0 .. Len(fs)
  PROVE  Due(Append(fs, f), i) = Due(fs, i)
<1>1. \A j \in 1 .. i : Append(fs, f)[j] = fs[j]
  OBVIOUS
<1> QED BY <1>1 DEF Due

LEMMA PrefixOfConcat ==
  ASSUME NEW S, NEW r \in Seq(S), NEW s \in Seq(S), NEW t \in Seq(S), IsPrefix(r, s)
  PROVE  IsPrefix(r, s \o t)
<1>1. Len(r) <= Len(s) /\ SubSeq(r, 1, Len(r)) = SubSeq(s, 1, Len(r))
  BY DEF IsPrefix
<1>2. Len(r) \in Nat /\ Len(s) \in Nat /\ Len(s \o t) = Len(s) + Len(t) /\ Len(t) \in Nat
  OBVIOUS
<1>3. SubSeq(s \o t, 1, Len(r)) = SubSeq(s, 1, Len(r))
  <2>1. /\ SubSeq(s \o t, 1, Len(r)) \in Seq(S) /\ Len(SubSeq(s \o t, 1, Len(r))) = Len(r)
        /\ SubSeq(s, 1, Len(r)) \in Seq(S) /\ Len(SubSeq(s, 1, Len(r))) = Len(r)
    BY <1>1, <1>2
  <2>2. ASSUME NEW i \in 1 .. Len(r) PROVE SubSeq(s \o t, 1, Len(r))[i] = SubSeq(s, 1, Len(r))[i]
    BY <1>1, <1>2
  <2> QED BY <2>1, <2>2, SeqEqual
<1> QED BY <1>1, <1>2, <1>3 DEF IsPrefix

(***************************************************************************)
(* The receiver                                                            *)
(***************************************************************************)
\* No step ever sets escape_next: ESCAPE_BYTE is END_BYTE.
UartTypes ==
  /\ UartTypeOK
  /\ escaping = FALSE
  /\ frames \in Seq(SentFrames)

UartStep ==
  \/ \E mac, data \in Seq(Byte) : \E n \in Nat : PeerSends(mac, data, n)
  \/ RxCplt \/ PollClear \/ PollRead \/ ReceiveCall \/ ReceiveTimeout

\* What receive_frame does, byte by byte.
LEMMA FrameStepIs ==
  ASSUME UartTypes, NEW byte \in Byte
  PROVE  LET next == FrameStep(byte)
         IN  /\ next.esc = FALSE
             /\ byte = START_BYTE => next.buffer = <<>> /\ next.inside /\ ~next.full
             /\ byte # START_BYTE /\ ~in_frame =>
                   next.buffer = frame_buffer /\ ~next.inside /\ ~next.full
             /\ byte = END_BYTE /\ in_frame =>
                   /\ next.buffer = frame_buffer /\ ~next.inside
                   /\ next.full = (frame_buffer # <<>>)
             /\ ~IsSpecial(byte) /\ in_frame =>
                   /\ next.buffer = IF Len(frame_buffer) < MaxPacket
                                    THEN Append(frame_buffer, byte) ELSE frame_buffer
                   /\ next.inside /\ ~next.full
             /\ next.inside \in BOOLEAN
<1> DEFINE next == FrameStep(byte)
<1>1. escaping = FALSE /\ in_frame \in BOOLEAN
  BY DEF UartTypes, UartTypeOK
<1>2. CASE byte = START_BYTE
  <2>1. byte # END_BYTE /\ byte # ESCAPE_BYTE /\ IsSpecial(byte)
    BY <1>2 DEF START_BYTE, END_BYTE, ESCAPE_BYTE, IsSpecial
  <2>2. /\ next.buffer = <<>> /\ next.inside = TRUE /\ next.full = FALSE /\ next.esc = FALSE
    BY <1>2, <2>1 DEF FrameStep
  <2> QED BY <1>2, <2>1, <2>2
<1>3. CASE byte # START_BYTE /\ ~in_frame
  <2>1. /\ next.buffer = frame_buffer /\ next.inside = in_frame /\ next.full = FALSE
        /\ next.esc = escaping
    BY <1>3 DEF FrameStep
  <2> QED BY <1>1, <1>3, <2>1
<1>4. CASE byte = END_BYTE /\ in_frame
  <2>0. byte # START_BYTE /\ IsSpecial(byte)
    BY <1>4 DEF START_BYTE, END_BYTE, IsSpecial
  <2>1. /\ next.buffer = frame_buffer /\ next.inside = FALSE
        /\ next.full = (frame_buffer # <<>>) /\ next.esc = escaping
    BY <1>4, <2>0 DEF FrameStep, ESCAPE_BYTE, END_BYTE
  <2> QED BY <1>1, <1>4, <2>0, <2>1
<1>5. CASE ~IsSpecial(byte) /\ in_frame
  <2>0. byte # START_BYTE /\ byte # END_BYTE /\ byte # ESCAPE_BYTE
    BY <1>5 DEF IsSpecial
  <2>1. /\ next.buffer = IF Len(frame_buffer) < MaxPacket
                         THEN Append(frame_buffer, byte) ELSE frame_buffer
        /\ next.inside = in_frame /\ next.full = FALSE /\ next.esc = FALSE
    BY <1>1, <1>5, <2>0 DEF FrameStep
  <2> QED BY <1>1, <1>5, <2>0, <2>1
<1>6. byte = START_BYTE \/ byte = END_BYTE \/ ~IsSpecial(byte)
  BY DEF IsSpecial, ESCAPE_BYTE, END_BYTE
<1> QED BY <1>1, <1>2, <1>3, <1>4, <1>5, <1>6

\* The same for the variables: what a byte does to the automaton and to `delivered'.
Taken(byte) ==
  /\ byte = START_BYTE =>
        frame_buffer' = <<>> /\ in_frame' /\ delivered' = delivered
  /\ byte # START_BYTE /\ ~in_frame =>
        frame_buffer' = frame_buffer /\ ~in_frame' /\ delivered' = delivered
  /\ byte = END_BYTE /\ in_frame =>
        /\ frame_buffer' = frame_buffer /\ ~in_frame'
        /\ delivered' = IF Len(frame_buffer) >= MacLen
                        THEN Append(delivered, << SubSeq(frame_buffer, 1, MacLen),
                                     SubSeq(frame_buffer, MacLen + 1, Len(frame_buffer)) >>)
                        ELSE delivered
  /\ ~IsSpecial(byte) /\ in_frame =>
        /\ frame_buffer' = IF Len(frame_buffer) < MaxPacket
                           THEN Append(frame_buffer, byte) ELSE frame_buffer
        /\ in_frame' /\ delivered' = delivered

LEMMA PollReadIs ==
  ASSUME UartTypes, PollRead
  PROVE  \E byte \in ReadBytes \cap Byte :
            /\ Taken(byte)
            /\ escaping' = FALSE /\ in_frame' \in BOOLEAN
            /\ frame_buffer' \in Seq(Byte) /\ Len(frame_buffer') <= MaxPacket
<1>0. MaxPacket \in Nat /\ MacLen \in Nat \ {0} /\ Strays \subseteq Byte
  BY UartAssumption
<1>1. PICK byte \in ReadBytes :
        LET next == FrameStep(byte)
            done == next.full /\ Len(next.buffer) >= MacLen
        IN  /\ frame_buffer' = next.buffer
            /\ escaping' = next.esc
            /\ in_frame' = next.inside
            /\ delivered' = IF done
                            THEN Append(delivered, << SubSeq(next.buffer, 1, MacLen),
                                         SubSeq(next.buffer, MacLen + 1, Len(next.buffer)) >>)
                            ELSE delivered
  BY DEF PollRead
<1>2. byte \in Byte
  BY <1>0 DEF ReadBytes, UartTypes, UartTypeOK
<1> DEFINE next == FrameStep(byte)
<1>3. /\ next.esc = FALSE
      /\ byte = START_BYTE => next.buffer = <<>> /\ next.inside /\ ~next.full
      /\ byte # START_BYTE /\ ~in_frame =>
            next.buffer = frame_buffer /\ ~next.inside /\ ~next.full
      /\ byte = END_BYTE /\ in_frame =>
            /\ next.buffer = frame_buffer /\ ~next.inside
            /\ next.full = (frame_buffer # <<>>)
      /\ ~IsSpecial(byte) /\ in_frame =>
            /\ next.buffer = IF Len(frame_buffer) < MaxPacket
                             THEN Append(frame_buffer, byte) ELSE frame_buffer
            /\ next.inside /\ ~next.full
      /\ next.inside \in BOOLEAN
  BY <1>2, FrameStepIs
<1> DEFINE done == next.full /\ Len(next.buffer) >= MacLen
<1>4. /\ frame_buffer' = next.buffer /\ escaping' = next.esc /\ in_frame' = next.inside
      /\ done => delivered' = Append(delivered, << SubSeq(next.buffer, 1, MacLen),
                                         SubSeq(next.buffer, MacLen + 1, Len(next.buffer)) >>)
      /\ ~done => delivered' = delivered
  BY <1>1
<1> HIDE DEF next
<1>5. frame_buffer \in Seq(Byte) /\ Len(frame_buffer) <= MaxPacket /\ in_frame \in BOOLEAN
  BY DEF UartTypes, UartTypeOK
<1>6. byte = START_BYTE \/ byte = END_BYTE \/ ~IsSpecial(byte)
  BY DEF IsSpecial, ESCAPE_BYTE, END_BYTE
<1>7. frame_buffer' \in Seq(Byte) /\ Len(frame_buffer') <= MaxPacket
  <2>1. next.buffer = <<>> \/ next.buffer = frame_buffer \/
           (next.buffer = Append(frame_buffer, byte) /\ Len(frame_buffer) < MaxPacket)
    BY <1>3, <1>5, <1>6
  <2>2. Append(frame_buffer, byte) \in Seq(Byte)
        /\ Len(Append(frame_buffer, byte)) = Len(frame_buffer) + 1 /\ Len(frame_buffer) \in Nat
    BY <1>2, <1>5
  <2>3. CASE next.buffer = <<>>
    BY <1>0, <1>4, <2>3
  <2>4. CASE next.buffer = frame_buffer
    BY <1>4, <1>5, <2>4
  <2>5. CASE next.buffer = Append(frame_buffer, byte) /\ Len(frame_buffer) < MaxPacket
    BY <1>0, <1>4, <2>2, <2>5
  <2> QED BY <2>1, <2>3, <2>4, <2>5
<1>8. byte = END_BYTE /\ in_frame => (done <=> Len(frame_buffer) >= MacLen)
  <2>1. Len(frame_buffer) >= MacLen => frame_buffer # <<>>
    BY <1>0, <1>5
  <2> QED BY <1>3, <2>1
<1>9. Taken(byte)
  <2>1. CASE byte = START_BYTE
    <3>1. byte # END_BYTE /\ IsSpecial(byte)
      BY <2>1 DEF START_BYTE, END_BYTE, IsSpecial
    <3> QED BY <1>3, <1>4, <2>1, <3>1 DEF Taken
  <2>2. CASE byte # START_BYTE /\ ~in_frame
    BY <1>3, <1>4, <2>2 DEF Taken
  <2>3. CASE byte = END_BYTE /\ in_frame
    <3>1. byte # START_BYTE /\ IsSpecial(byte)
      BY <2>3 DEF START_BYTE, END_BYTE, IsSpecial
    <3> HIDE DEF done
    <3> QED BY <1>3, <1>4, <1>8, <2>3, <3>1 DEF Taken
  <2>4. CASE ~IsSpecial(byte) /\ in_frame
    <3>1. byte # START_BYTE /\ byte # END_BYTE
      BY <2>4 DEF IsSpecial
    <3> QED BY <1>3, <1>4, <2>4, <3>1 DEF Taken
  <2> QED BY <1>5, <1>6, <2>1, <2>2, <2>3, <2>4
<1> QED BY <1>2, <1>3, <1>4, <1>7, <1>9

\* The frame that a call of send_raw records, and the bytes of it that get out.
SentFrame(mac, data, n) == [packet |-> mac \o data, out |-> n]
SentBytes(mac, data, n) == SubSeq(Encoded(mac \o data), 1, n)

LEMMA SentType ==
  ASSUME NEW mac \in Seq(Byte), NEW data \in Seq(Byte), NEW n, PeerSends(mac, data, n)
  PROVE  /\ SentFrame(mac, data, n) \in SentFrames
         /\ SentBytes(mac, data, n) \in Seq(Byte) /\ Len(SentBytes(mac, data, n)) = n
         /\ n \in Nat
         /\ \A i \in 1 .. n : SentBytes(mac, data, n)[i] = Encoded(mac \o data)[i]
<1> DEFINE p == mac \o data
           e == Encoded(p)
<1>1. p \in Seq(Byte) /\ Len(p) = Len(mac) + Len(data)
  OBVIOUS
<1>2. Len(p) \in MacLen + 1 .. MaxPacket /\ n \in 0 .. Len(e)
  BY <1>1, UartAssumption DEF PeerSends, Sendable
<1>3. SentFrame(mac, data, n) = [packet |-> p, out |-> n] /\ SentBytes(mac, data, n) = SubSeq(e, 1, n)
  BY DEF SentFrame, SentBytes
<1>4. \A i : Encoded(mac \o data)[i] = e[i]
  OBVIOUS
<1> HIDE DEF p
<1>5. e \in Seq(Byte)
  BY <1>1, EncodedIs
<1> HIDE DEF e
<1>6. Len(e) \in Nat /\ n \in Nat /\ n <= Len(e)
  BY <1>2, <1>5
<1>7. /\ SubSeq(e, 1, n) \in Seq(Byte) /\ Len(SubSeq(e, 1, n)) = n
      /\ \A i \in 1 .. n : SubSeq(e, 1, n)[i] = e[i]
  BY <1>5, <1>6
<1>8. [packet |-> p, out |-> n] \in SentFrames
  BY <1>1, <1>2, <1>6 DEF SentFrames, e
<1> QED BY <1>3, <1>4, <1>6, <1>7, <1>8

LEMMA UartTypesInit == UartInit => UartTypes
<1> SUFFICES ASSUME UartInit PROVE UartTypes
  OBVIOUS
<1>1. MaxPacket \in Nat /\ MaxPacket > 0
  BY UartAssumption
<1>2. 0 \in Byte
  BY DEF Byte
<1>3. [i \in 0 .. MaxPacket - 1 |-> 0] \in [0 .. MaxPacket - 1 -> Byte]
  BY <1>2
<1>4. /\ uart_rx_pos \in 0 .. MaxPacket - 1 /\ uart_rx_buffer \in [0 .. MaxPacket - 1 -> Byte]
  BY <1>1, <1>3 DEF UartInit
<1>5. /\ line \in Seq(Byte) /\ frame_buffer \in Seq(Byte) /\ Len(frame_buffer) <= MaxPacket
      /\ frames \in Seq(SentFrames)
  BY <1>1 DEF UartInit
<1>6. /\ {uart_data_available, escaping, in_frame, missed} \subseteq BOOLEAN /\ escaping = FALSE
      /\ polling \in {"out", "wait", "cleared"}
  BY DEF UartInit
<1> QED BY <1>4, <1>5, <1>6 DEF UartTypes, UartTypeOK

LEMMA UartTypesStep == UartTypes /\ (UartStep \/ UNCHANGED uartVars) => UartTypes'
<1> SUFFICES ASSUME UartTypes, UartStep \/ UNCHANGED uartVars PROVE UartTypes'
  OBVIOUS
<1> USE DEF UartTypes, UartTypeOK, receiver, automaton
<1>0. MaxPacket \in Nat /\ MaxPacket > 0
  BY UartAssumption
<1>1. ASSUME NEW mac \in Seq(Byte), NEW data \in Seq(Byte), NEW n \in Nat, PeerSends(mac, data, n)
      PROVE  UartTypes'
  <2>1. line' \in Seq(Byte) /\ frames' \in Seq(SentFrames)
    <3> DEFINE f == SentFrame(mac, data, n)
               sent == SentBytes(mac, data, n)
    <3>1. f \in SentFrames /\ sent \in Seq(Byte)
      BY <1>1, SentType
    <3>2. frames' = Append(frames, f) /\ line' = line \o sent
      BY <1>1 DEF PeerSends, SentFrame, SentBytes
    <3> HIDE DEF f, sent
    <3> QED BY <3>1, <3>2
  <2> QED BY <1>1, <2>1 DEF PeerSends
<1>2. CASE RxCplt
  <2>1. Head(line) \in Byte /\ Tail(line) \in Seq(Byte)
    BY <1>2 DEF RxCplt
  <2>2. (uart_rx_pos + 1) % MaxPacket \in 0 .. MaxPacket - 1
    BY <1>0
  <2>3. missed' \in BOOLEAN
    BY <1>2 DEF RxCplt
  <2>4. uart_rx_buffer' \in [0 .. MaxPacket - 1 -> Byte]
    BY <1>2, <2>1 DEF RxCplt
  <2> QED BY <1>2, <2>1, <2>2, <2>3, <2>4 DEF RxCplt
<1>3. CASE PollClear
  BY <1>3 DEF PollClear
<1>4. CASE PollRead
  <2>1. /\ escaping' = FALSE /\ in_frame' \in BOOLEAN
        /\ frame_buffer' \in Seq(Byte) /\ Len(frame_buffer') <= MaxPacket
    BY <1>4, PollReadIs
  <2>2. /\ UNCHANGED <<line, receiver, frames>> /\ missed' \in BOOLEAN
        /\ polling' \in {"out", "wait"}
    BY <1>4 DEF PollRead
  <2> QED BY <2>1, <2>2
<1>5. CASE ReceiveCall
  BY <1>5 DEF ReceiveCall
<1>6. CASE ReceiveTimeout
  BY <1>6 DEF ReceiveTimeout
<1>7. CASE UNCHANGED uartVars
  BY <1>7 DEF uartVars
<1> QED BY <1>1, <1>2, <1>3, <1>4, <1>5, <1>6, <1>7 DEF UartStep

(***************************************************************************)
(* From the line to the program: the bytes that are on their way            *)
(***************************************************************************)
\* <<k, q>> is the q-th byte of the k-th frame.
Tags(fs) == {t \in Nat \X Nat : t[1] \in 1 .. Len(fs) /\ t[2] \in 1 .. fs[t[1]].out}
Origin == <<0, 0>>
ByteOf(fs, t) == Encoded(fs[t[1]].packet)[t[2]]

\* The last byte that got out of its frame, and which byte comes after which.
Ended(fs, t) == t = Origin \/ t[2] = fs[t[1]].out
Follows(fs, a, b) ==
  \/ b[1] = a[1] /\ b[2] = a[2] + 1
  \/ /\ b[2] = 1 /\ a[1] < b[1]
     /\ Ended(fs, a) /\ Due(fs, b[1] - 1) = Due(fs, a[1])

\* Whether the receiver has left the frame of the byte t once it has taken t.
Past(fs, t) == t[1] = 0 \/ t[2] > CutAt(fs[t[1]].packet)

\* The state of the receiver when t is the last byte it has taken.
Reached(t) ==
  /\ Past(frames, t) => ~in_frame /\ delivered = Due(frames, t[1])
  /\ ~Past(frames, t) => /\ in_frame
                         /\ frame_buffer = SubSeq(frames[t[1]].packet, 1, t[2] - 1)
                         /\ delivered = Due(frames, t[1] - 1)

LEMMA TagFacts ==
  ASSUME NEW fs \in Seq(SentFrames), NEW t \in Tags(fs)
  PROVE  /\ t[1] \in 1 .. Len(fs) /\ t[1] \in Nat /\ t[1] >= 1 /\ t[2] \in Nat /\ t[2] >= 1
         /\ t = <<t[1], t[2]>> /\ t # Origin
         /\ fs[t[1]] \in SentFrames /\ fs[t[1]].packet \in Seq(Byte)
         /\ Len(fs[t[1]].packet) <= MaxPacket
         /\ t[2] <= fs[t[1]].out /\ fs[t[1]].out \in Nat
         /\ t[2] <= Len(Encoded(fs[t[1]].packet))
         /\ Due(fs, t[1]) = Due(fs, t[1] - 1) \o Yield(fs[t[1]])
         /\ Due(fs, t[1] - 1) \in Seq(Packet)
<1> DEFINE k == t[1]
           f == fs[k]
<1>1. k \in 1 .. Len(fs) /\ t \in Nat \X Nat /\ t[2] \in 1 .. f.out
  BY DEF Tags
<1>2. f \in SentFrames /\ Len(fs) \in Nat
  BY <1>1
<1>3. f.packet \in Seq(Byte) /\ Len(f.packet) <= MaxPacket /\ f.out \in Nat
      /\ f.out <= Len(Encoded(f.packet))
  BY <1>2 DEF SentFrames
<1>4. k \in Nat /\ k >= 1 /\ t[2] \in Nat /\ t[2] >= 1 /\ t[2] <= f.out /\ t = <<k, t[2]>>
  BY <1>1, <1>3
<1>5. t # Origin
  BY <1>4 DEF Origin
<1>6. t[2] <= Len(Encoded(f.packet))
  <2>1. Encoded(f.packet) \in Seq(Byte)
    BY <1>3, EncodedIs
  <2>2. Len(Encoded(f.packet)) \in Nat
    BY <2>1
  <2> QED BY <1>3, <1>4, <2>2
<1>7. Due(fs, k) = Due(fs, k - 1) \o Yield(f) /\ Due(fs, k - 1) \in Seq(Packet)
  <2>1. k - 1 \in 0 .. Len(fs) - 1 /\ k - 1 \in 0 .. Len(fs) /\ (k - 1) + 1 = k
    BY <1>1, <1>2
  <2> HIDE DEF k
  <2> QED BY <2>1, DueFacts
<1> QED BY <1>1, <1>2, <1>3, <1>4, <1>5, <1>6, <1>7

\* A transmission that ended before the cut yields nothing.
LEMMA DeliveredEnded ==
  ASSUME UartTypes, NEW a \in {Origin} \cup Tags(frames), Reached(a), Ended(frames, a)
  PROVE  delivered = Due(frames, a[1])
<1>1. CASE Past(frames, a)
  BY <1>1 DEF Reached
<1>2. CASE ~Past(frames, a)
  <2>1. a # Origin
    BY <1>2 DEF Past, Origin
  <2>2. a \in Tags(frames) /\ frames \in Seq(SentFrames)
    BY <2>1 DEF UartTypes
  <2>3. a[2] = frames[a[1]].out
    BY <2>1 DEF Ended
  <2>4. /\ frames[a[1]] \in SentFrames /\ Due(frames, a[1] - 1) \in Seq(Packet)
        /\ Due(frames, a[1]) = Due(frames, a[1] - 1) \o Yield(frames[a[1]])
        /\ frames[a[1]].out \in Nat
    BY <2>2, TagFacts
  <2>5. frames[a[1]].out <= CutAt(frames[a[1]].packet)
    <3>1. CutAt(frames[a[1]].packet) \in Nat
      <4>1. frames[a[1]].packet \in Seq(Byte)
        BY <2>2, TagFacts
      <4>2. CutAt(frames[a[1]].packet) \in 1 .. Len(frames[a[1]].packet) + 1
            /\ Len(frames[a[1]].packet) \in Nat
        BY <4>1, CutFacts
      <4> QED BY <4>2
    <3> QED BY <1>2, <2>3, <2>4, <3>1 DEF Past
  <2>6. Yield(frames[a[1]]) = <<>>
    BY <2>4, <2>5, YieldType
  <2>7. delivered = Due(frames, a[1] - 1)
    BY <1>2 DEF Reached
  <2>8. Due(frames, a[1] - 1) \o <<>> = Due(frames, a[1] - 1)
    BY <2>4, ConcatEmptySeq
  <2> QED BY <2>4, <2>6, <2>7, <2>8
<1> QED BY <1>1, <1>2

LEMMA SubSeqNext ==
  ASSUME NEW S, NEW s \in Seq(S), NEW i \in 1 .. Len(s)
  PROVE  Append(SubSeq(s, 1, i - 1), s[i]) = SubSeq(s, 1, i)
<1> DEFINE u == Append(SubSeq(s, 1, i - 1), s[i])
           v == SubSeq(s, 1, i)
<1>1. i - 1 \in Nat /\ i \in Nat /\ Len(s) \in Nat /\ s[i] \in S
  OBVIOUS
<1>2. /\ SubSeq(s, 1, i - 1) \in Seq(S) /\ Len(SubSeq(s, 1, i - 1)) = i - 1
      /\ \A j \in 1 .. i - 1 : SubSeq(s, 1, i - 1)[j] = s[j]
  BY <1>1
<1>3. v \in Seq(S) /\ Len(v) = i /\ \A j \in 1 .. i : v[j] = s[j]
  BY <1>1
<1>4. u \in Seq(S) /\ Len(u) = i /\ \A j \in 1 .. i : u[j] = s[j]
  BY <1>1, <1>2
<1> HIDE DEF u, v
<1> QED BY <1>3, <1>4, SeqEqual DEF u, v

LEMMA SubSeqTwice ==
  ASSUME NEW S, NEW s \in Seq(S), NEW c \in 0 .. Len(s), NEW m \in 1 .. c
  PROVE  /\ SubSeq(SubSeq(s, 1, c), 1, m) = SubSeq(s, 1, m)
         /\ SubSeq(SubSeq(s, 1, c), m + 1, c) = SubSeq(s, m + 1, c)
<1>1. c \in Nat /\ m \in Nat /\ m <= c /\ c <= Len(s) /\ Len(s) \in Nat /\ 1 <= m
  OBVIOUS
<1> DEFINE r == SubSeq(s, 1, c)
<1>2. r \in Seq(S) /\ Len(r) = c /\ \A j \in 1 .. c : r[j] = s[j]
  BY <1>1
<1> HIDE DEF r
<1>3. SubSeq(r, 1, m) = SubSeq(s, 1, m)
  <2>1. SubSeq(r, 1, m) \in Seq(S) /\ Len(SubSeq(r, 1, m)) = m /\ \A j \in 1 .. m : SubSeq(r, 1, m)[j] = s[j]
    BY <1>1, <1>2
  <2>2. SubSeq(s, 1, m) \in Seq(S) /\ Len(SubSeq(s, 1, m)) = m /\ \A j \in 1 .. m : SubSeq(s, 1, m)[j] = s[j]
    BY <1>1
  <2> QED BY <2>1, <2>2, SeqEqual
<1>4. SubSeq(r, m + 1, c) = SubSeq(s, m + 1, c)
  <2>1. /\ SubSeq(r, m + 1, c) \in Seq(S) /\ Len(SubSeq(r, m + 1, c)) = c - m
        /\ \A j \in 1 .. c - m : SubSeq(r, m + 1, c)[j] = s[m + j]
    BY <1>1, <1>2
  <2>2. /\ SubSeq(s, m + 1, c) \in Seq(S) /\ Len(SubSeq(s, m + 1, c)) = c - m
        /\ \A j \in 1 .. c - m : SubSeq(s, m + 1, c)[j] = s[m + j]
    BY <1>1
  <2> QED BY <2>1, <2>2, SeqEqual
<1> QED BY <1>3, <1>4 DEF r

\* The receiver takes the next byte: the invariant of its automaton.
LEMMA TakesNext ==
  ASSUME UartTypes, NEW a \in {Origin} \cup Tags(frames), NEW b \in Tags(frames),
         Follows(frames, a, b), Reached(a), Taken(ByteOf(frames, b)), frames' = frames
  PROVE  Reached(b)'
<1> DEFINE k == b[1]
           q == b[2]
           f == frames[k]
           p == f.packet
           e == Encoded(p)
           cut == CutAt(p)
<1>0. frames \in Seq(SentFrames) /\ MacLen \in Nat \ {0} /\ MaxPacket \in Nat /\ in_frame \in BOOLEAN
  BY UartAssumption DEF UartTypes, UartTypeOK
<1>1. /\ k \in Nat /\ k >= 1 /\ q \in Nat /\ q >= 1 /\ f \in SentFrames /\ p \in Seq(Byte)
      /\ Len(p) <= MaxPacket /\ q <= f.out /\ f.out \in Nat /\ q <= Len(e)
      /\ Due(frames, k) = Due(frames, k - 1) \o Yield(f) /\ Due(frames, k - 1) \in Seq(Packet)
  BY <1>0, TagFacts
<1> HIDE DEF p, f
<1>2. /\ cut \in 1 .. Len(p) + 1 /\ Len(p) \in Nat
      /\ e \in Seq(Byte) /\ Len(e) >= 1 + cut
      /\ e[1] = START_BYTE
      /\ \A i \in 1 .. cut - 1 : e[1 + i] = p[i] /\ ~IsSpecial(p[i])
      /\ e[1 + cut] = END_BYTE
      /\ \A j \in 2 .. Len(e) : e[j] # START_BYTE
  BY <1>1, EncodedIs
<1>3. Taken(e[q])
  BY DEF ByteOf, p, f
<1>4. /\ Past(frames, b) <=> q > cut
      /\ Past(frames', b) <=> Past(frames, b)
  BY <1>1 DEF Past, p, f
<1>5. \/ a[1] = k /\ q = a[2] + 1
      \/ q = 1 /\ Ended(frames, a) /\ Due(frames, k - 1) = Due(frames, a[1])
  BY DEF Follows
<1>6. frames'[b[1]].packet = p
  BY DEF p, f
<1>7. Yield(f) = IF f.out > cut /\ cut > MacLen
                 THEN << <<SubSeq(p, 1, MacLen), SubSeq(p, MacLen + 1, cut - 1)>> >>
                 ELSE <<>>
  BY DEF Yield, p
<1> HIDE DEF k, q, f, p, e, cut
<1>8. ASSUME a[1] = k, q = a[2] + 1 PROVE Reached(b)'
  <2> DEFINE i == a[2]
  <2>1. a # Origin
    BY <1>1, <1>8 DEF Origin
  <2>2. i \in Nat /\ i >= 1 /\ q = 1 + i
    <3>1. a \in Tags(frames)
      BY <2>1
    <3>2. i \in Nat /\ i >= 1
      BY <1>0, <3>1, TagFacts
    <3> QED BY <1>8, <3>2
  <2>3. Past(frames, a) <=> i > cut
    <3>1. Past(frames, a) <=> a[1] = 0 \/ a[2] > CutAt(frames[a[1]].packet)
      BY DEF Past
    <3>2. frames[a[1]].packet = p /\ a[1] # 0
      BY <1>1, <1>8 DEF p, f
    <3> QED BY <3>1, <3>2 DEF cut
  <2> HIDE DEF i
  <2>4. CASE i < cut
    <3>1. /\ ~Past(frames, a) /\ ~Past(frames', b)
      BY <1>1, <1>2, <1>4, <2>2, <2>3, <2>4
    <3>2. i \in 1 .. Len(p) /\ i \in 1 .. cut - 1
      BY <1>2, <2>2, <2>4
    <3>3. e[q] = p[i] /\ ~IsSpecial(p[i])
      BY <1>2, <2>2, <3>2
    <3>4. in_frame /\ frame_buffer = SubSeq(p, 1, i - 1) /\ delivered = Due(frames, k - 1)
      BY <1>8, <3>1 DEF Reached, p, f, i
    <3>5. Len(SubSeq(p, 1, i - 1)) = i - 1 /\ i - 1 < MaxPacket
      BY <1>0, <1>1, <1>2, <3>2
    <3>6. frame_buffer' = Append(frame_buffer, p[i]) /\ in_frame' /\ delivered' = delivered
      BY <1>3, <3>3, <3>4, <3>5 DEF Taken
    <3>7. frame_buffer' = SubSeq(p, 1, i)
      BY <1>1, <3>2, <3>4, <3>6, SubSeqNext
    <3>8. b[2] - 1 = i
      BY <2>2 DEF q
    <3> QED BY <1>6, <3>1, <3>4, <3>6, <3>7, <3>8 DEF Reached, k
  <2>5. CASE i = cut
    <3>1. ~Past(frames, a) /\ Past(frames', b)
      BY <1>1, <1>2, <1>4, <2>2, <2>3, <2>5
    <3>2. e[q] = END_BYTE
      BY <1>2, <2>2, <2>5
    <3>3. in_frame /\ frame_buffer = SubSeq(p, 1, cut - 1) /\ delivered = Due(frames, k - 1)
      BY <1>8, <2>5, <3>1 DEF Reached, p, f, i
    <3>4. Len(frame_buffer) = cut - 1 /\ cut - 1 \in 0 .. Len(p)
      BY <1>1, <1>2, <3>3
    <3>5. /\ ~in_frame'
          /\ delivered' = IF Len(frame_buffer) >= MacLen
                          THEN Append(delivered, << SubSeq(frame_buffer, 1, MacLen),
                                       SubSeq(frame_buffer, MacLen + 1, Len(frame_buffer)) >>)
                          ELSE delivered
      BY <1>3, <3>2, <3>3 DEF Taken
    <3>6. f.out > cut
      BY <1>1, <1>2, <2>2, <2>5
    <3>7. delivered' = Due(frames, k)
      <4>1. CASE cut > MacLen
        <5> DEFINE y == <<SubSeq(p, 1, MacLen), SubSeq(p, MacLen + 1, cut - 1)>>
        <5>1. cut - 1 >= MacLen /\ MacLen \in 1 .. cut - 1
          BY <1>0, <1>2, <4>1
        <5>2. delivered' = Append(delivered, << SubSeq(frame_buffer, 1, MacLen),
                                       SubSeq(frame_buffer, MacLen + 1, cut - 1) >>)
          BY <3>4, <3>5, <5>1
        <5>3. /\ SubSeq(frame_buffer, 1, MacLen) = SubSeq(p, 1, MacLen)
              /\ SubSeq(frame_buffer, MacLen + 1, cut - 1) = SubSeq(p, MacLen + 1, cut - 1)
          BY <1>1, <3>3, <3>4, <5>1, SubSeqTwice
        <5>4. delivered' = Append(Due(frames, k - 1), y)
          BY <3>3, <5>2, <5>3
        <5>5. Yield(f) = <<y>> /\ Yield(f) \in Seq(Packet)
          BY <1>1, <1>7, <3>6, <4>1, YieldType
        <5> HIDE DEF y
        <5>6. y \in Packet
          <6>1. y = Yield(f)[1] /\ Len(Yield(f)) = 1
            BY <5>5
          <6> QED BY <5>5, <6>1
        <5>7. Append(Due(frames, k - 1), y) = Due(frames, k - 1) \o <<y>>
          BY <1>1, <5>6, AppendIsConcat
        <5> QED BY <1>1, <5>4, <5>5, <5>7
      <4>2. CASE ~(cut > MacLen)
        <5>1. ~(cut - 1 >= MacLen)
          BY <1>0, <1>2, <4>2
        <5>2. delivered' = delivered
          BY <3>4, <3>5, <5>1
        <5>3. Yield(f) = <<>>
          BY <1>7, <4>2
        <5>4. Due(frames, k - 1) \o <<>> = Due(frames, k - 1)
          BY <1>1, ConcatEmptySeq
        <5> QED BY <1>1, <3>3, <5>2, <5>3, <5>4
      <4> QED BY <4>1, <4>2
    <3> QED BY <3>1, <3>5, <3>7 DEF Reached, k
  <2>6. CASE i > cut
    <3>1. Past(frames, a) /\ Past(frames', b)
      BY <1>1, <1>2, <1>4, <2>2, <2>3, <2>6
    <3>2. e[q] # START_BYTE
      BY <1>1, <1>2, <2>2
    <3>3. ~in_frame /\ delivered = Due(frames, k)
      BY <1>8, <3>1 DEF Reached
    <3>4. ~in_frame' /\ delivered' = delivered
      BY <1>3, <3>2, <3>3 DEF Taken
    <3> QED BY <3>1, <3>3, <3>4 DEF Reached, k
  <2> QED BY <1>2, <2>2, <2>4, <2>5, <2>6
<1>9. ASSUME q = 1, Ended(frames, a), Due(frames, k - 1) = Due(frames, a[1]) PROVE Reached(b)'
  <2>1. delivered = Due(frames, k - 1)
    BY <1>9, DeliveredEnded
  <2>2. frame_buffer' = <<>> /\ in_frame' /\ delivered' = delivered
    BY <1>2, <1>3, <1>9 DEF Taken
  <2>3. ~Past(frames', b)
    BY <1>2, <1>4, <1>9
  <2>4. SubSeq(p, 1, b[2] - 1) = <<>>
    <3>1. b[2] - 1 = 0
      BY <1>9 DEF q
    <3> QED BY <3>1, SubSeqEmpty
  <2> QED BY <1>6, <2>1, <2>2, <2>3, <2>4 DEF Reached, k
<1> QED BY <1>5, <1>8, <1>9

\* Bytes that come one after the other, from the last one taken to the last one sent.
Chain(fs, C) ==
  /\ C \in Seq(Nat \X Nat) /\ Len(C) >= 1
  /\ C[1] \in {Origin} \cup Tags(fs)
  /\ \A x \in 2 .. Len(C) : C[x] \in Tags(fs)
  /\ \A x \in 1 .. Len(C) - 1 : Follows(fs, C[x], C[x + 1])
  /\ Ended(fs, C[Len(C)]) /\ Due(fs, Len(fs)) = Due(fs, C[Len(C)][1])

\* One byte at most is in the buffer of the interrupt, the others on the line.
Pending == uart_data_available \/ polling = "cleared"
Ahead == IF Pending THEN 2 ELSE 1
OnTheWay(C) ==
  /\ Len(C) = Ahead + Len(line)
  /\ \A y \in 1 .. Len(line) : line[y] = ByteOf(frames, C[Ahead + y])
  /\ Pending /\ uart_rx_pos # 0 => uart_rx_buffer[uart_rx_pos - 1] = ByteOf(frames, C[2])

Stream == \E C : Chain(frames, C) /\ OnTheWay(C) /\ Reached(C[1])

\* Nothing is lost or read twice as long as every byte is polled before the next.
UartInv ==
  /\ UartTypes
  /\ \A i \in 0 .. Len(frames) : IsPrefix(Due(frames, i), Due(frames, Len(frames)))
  /\ ~missed => /\ polling = "cleared" => ~uart_data_available
                /\ Stream

LEMMA TagsType ==
  ASSUME NEW fs \in Seq(SentFrames), NEW t \in {Origin} \cup Tags(fs)
  PROVE  t \in Nat \X Nat /\ t[1] \in 0 .. Len(fs)
<1>1. CASE t = Origin
  BY <1>1 DEF Origin
<1>2. CASE t \in Tags(fs)
  BY <1>2 DEF Tags
<1> QED BY <1>1, <1>2

\* One more frame changes nothing for the bytes that were there.
LEMMA Older ==
  ASSUME NEW fs \in Seq(SentFrames), NEW f \in SentFrames, NEW t \in {Origin} \cup Tags(fs)
  PROVE  /\ t \in Tags(fs) => /\ t \in Tags(Append(fs, f))
                              /\ ByteOf(Append(fs, f), t) = ByteOf(fs, t)
                              /\ Append(fs, f)[t[1]] = fs[t[1]]
                              /\ Due(Append(fs, f), t[1] - 1) = Due(fs, t[1] - 1)
         /\ Ended(Append(fs, f), t) <=> Ended(fs, t)
         /\ Past(Append(fs, f), t) <=> Past(fs, t)
         /\ Due(Append(fs, f), t[1]) = Due(fs, t[1])
<1> DEFINE g == Append(fs, f)
<1>1. t \in Nat \X Nat /\ t[1] \in 0 .. Len(fs)
  BY TagsType
<1>2. Due(g, t[1]) = Due(fs, t[1])
  BY <1>1, DueKept
<1>3. CASE t = Origin
  <2>1. t \notin Tags(fs) /\ Ended(g, t) /\ Ended(fs, t)
    BY <1>3 DEF Origin, Tags, Ended
  <2>2. Past(g, t) /\ Past(fs, t)
    BY <1>3 DEF Origin, Past
  <2> QED BY <1>2, <2>1, <2>2
<1>4. CASE t \in Tags(fs)
  <2>1. t[1] \in 1 .. Len(fs) /\ t[2] \in 1 .. fs[t[1]].out
    BY <1>4 DEF Tags
  <2>2. g[t[1]] = fs[t[1]] /\ Len(g) = Len(fs) + 1 /\ Len(fs) \in Nat
    BY <2>1
  <2> HIDE DEF g
  <2>3. t \in Tags(g)
    BY <1>1, <2>1, <2>2 DEF Tags
  <2>4. ByteOf(g, t) = ByteOf(fs, t)
    BY <2>2 DEF ByteOf
  <2>5. (Ended(g, t) <=> Ended(fs, t)) /\ (Past(g, t) <=> Past(fs, t))
    BY <2>2 DEF Ended, Past
  <2>6. Due(g, t[1] - 1) = Due(fs, t[1] - 1)
    <3>1. t[1] - 1 \in 0 .. Len(fs)
      BY <2>1, <2>2
    <3> QED BY <3>1, DueKept DEF g
  <2> QED BY <1>2, <2>2, <2>3, <2>4, <2>5, <2>6 DEF g
<1> QED BY <1>3, <1>4

LEMMA OlderFollows ==
  ASSUME NEW fs \in Seq(SentFrames), NEW f \in SentFrames,
         NEW a \in {Origin} \cup Tags(fs), NEW b \in Tags(fs), Follows(fs, a, b)
  PROVE  Follows(Append(fs, f), a, b)
<1> DEFINE g == Append(fs, f)
<1>1. /\ Ended(g, a) <=> Ended(fs, a)
      /\ Due(g, a[1]) = Due(fs, a[1])
  BY Older
<1>2. Due(g, b[1] - 1) = Due(fs, b[1] - 1)
  BY Older
<1> HIDE DEF g
<1> QED BY <1>1, <1>2 DEF Follows, g

\* The bytes of one more frame come behind.
NewTags(n, k) == [j \in 1 .. n |-> <<k, j>>]

LEMMA ChainGrows ==
  ASSUME NEW fs \in Seq(SentFrames), NEW f \in SentFrames, NEW C, Chain(fs, C)
  PROVE  Chain(Append(fs, f), C \o NewTags(f.out, Len(fs) + 1))
<1> DEFINE g == Append(fs, f)
           n == f.out
           k == Len(fs) + 1
           N == NewTags(n, k)
           D == C \o N
           m == Len(C)
<1>0. C \in Seq(Nat \X Nat) /\ m >= 1
  BY DEF Chain
<1>1. /\ C \in Seq(Nat \X Nat) /\ m >= 1 /\ m \in Nat
      /\ C[1] \in {Origin} \cup Tags(fs)
      /\ \A x \in 2 .. m : C[x] \in Tags(fs)
      /\ \A x \in 1 .. m - 1 : Follows(fs, C[x], C[x + 1])
      /\ Ended(fs, C[m]) /\ Due(fs, Len(fs)) = Due(fs, C[m][1])
  <2>1. m \in Nat
    BY <1>0
  <2> QED BY <1>0, <2>1 DEF Chain
<1>2. n \in Nat /\ k \in Nat /\ Len(fs) \in Nat /\ Len(g) = k /\ g[k] = f /\ k >= 1
      /\ g \in Seq(SentFrames)
  BY DEF SentFrames
<1>3. N \in Seq(Nat \X Nat) /\ Len(N) = n /\ \A j \in 1 .. n : N[j] = <<k, j>>
  BY <1>2 DEF NewTags
<1> HIDE DEF N, n, k, m
<1>4. D \in Seq(Nat \X Nat) /\ Len(D) = m + n
  BY <1>1, <1>3, ConcatProperties DEF m
<1>5. /\ \A x \in 1 .. m : D[x] = C[x]
      /\ \A j \in 1 .. n : D[m + j] = <<k, j>>
  BY <1>1, <1>2, <1>3 DEF m
<1> HIDE DEF D, g
<1>6. ASSUME NEW j \in 1 .. n PROVE <<k, j>> \in Tags(g)
  BY <1>2 DEF Tags, n
<1>7. \A x \in 1 .. m : C[x] \in {Origin} \cup Tags(fs)
  BY <1>1
<1>8. D[1] \in {Origin} \cup Tags(g)
  <2>1. D[1] = C[1]
    BY <1>1, <1>5
  <2> QED BY <1>1, <2>1, Older DEF g
<1>9. ASSUME NEW x \in 2 .. m + n PROVE D[x] \in Tags(g)
  <2>1. CASE x <= m
    <3>1. D[x] = C[x] /\ C[x] \in Tags(fs)
      BY <1>1, <1>5, <2>1
    <3> QED BY <3>1, Older DEF g
  <2>2. CASE ~(x <= m)
    <3> DEFINE j == x - m
    <3>1. j \in 1 .. n /\ x = m + j
      BY <1>1, <1>2, <2>2
    <3> HIDE DEF j
    <3> QED BY <1>5, <1>6, <3>1
  <2> QED BY <2>1, <2>2
<1>10. Ended(g, C[m]) /\ Due(g, Len(fs)) = Due(g, C[m][1]) /\ C[m][1] < k
  <2>1. C[m] \in {Origin} \cup Tags(fs)
    BY <1>1, <1>7
  <2>2. Ended(g, C[m]) /\ Due(g, C[m][1]) = Due(fs, C[m][1])
    BY <1>1, <2>1, Older DEF g
  <2>3. Due(g, Len(fs)) = Due(fs, Len(fs))
    BY <1>2, DueKept DEF g
  <2>4. C[m][1] \in 0 .. Len(fs)
    BY <2>1, TagsType
  <2> QED BY <1>1, <1>2, <2>2, <2>3, <2>4 DEF k
<1>11. ASSUME NEW x \in 1 .. (m + n) - 1 PROVE Follows(g, D[x], D[x + 1])
  <2>1. CASE x < m
    <3>1. D[x] = C[x] /\ D[x + 1] = C[x + 1] /\ x \in 1 .. m - 1 /\ x + 1 \in 2 .. m /\ x \in 1 .. m
      BY <1>1, <1>2, <1>5, <2>1
    <3>2. Follows(fs, C[x], C[x + 1]) /\ C[x] \in {Origin} \cup Tags(fs) /\ C[x + 1] \in Tags(fs)
      BY <1>1, <1>7, <3>1
    <3> QED BY <3>1, <3>2, OlderFollows DEF g
  <2>2. CASE x = m
    <3>1. D[x] = C[m] /\ D[x + 1] = <<k, 1>>
      <4>1. m \in 1 .. m /\ 1 \in 1 .. n
        BY <1>1, <1>2, <2>2
      <4> QED BY <1>5, <2>2, <4>1
    <3>2. k - 1 = Len(fs) /\ <<k, 1>>[1] = k /\ <<k, 1>>[2] = 1
      BY <1>2 DEF k
    <3> QED BY <1>10, <3>1, <3>2 DEF Follows
  <2>3. CASE x > m
    <3> DEFINE j == x - m
    <3>1. j \in 1 .. n /\ j + 1 \in 1 .. n /\ x = m + j /\ x + 1 = m + (j + 1) /\ j \in Nat
      BY <1>1, <1>2, <2>3
    <3> HIDE DEF j
    <3>2. D[x] = <<k, j>> /\ D[x + 1] = <<k, j + 1>>
      BY <1>5, <3>1
    <3> QED BY <3>2 DEF Follows
  <2> QED BY <1>1, <1>2, <2>1, <2>2, <2>3
<1>12. Ended(g, D[m + n]) /\ Due(g, Len(g)) = Due(g, D[m + n][1])
  <2>1. CASE n = 0
    <3>1. D[m + n] = C[m]
      BY <1>1, <1>5, <2>1
    <3>2. Yield(f) = <<>>
      <4>1. f.packet \in Seq(Byte)
        BY DEF SentFrames
      <4>2. CutAt(f.packet) >= 0
        BY <4>1, CutFacts
      <4> QED BY <2>1, <4>2, YieldType DEF n
    <3>3. Due(g, Len(g)) = Due(g, Len(fs)) \o Yield(f) /\ Due(g, Len(fs)) \in Seq(Packet)
      <4>1. Len(fs) \in 0 .. Len(g) - 1 /\ Len(fs) \in 0 .. Len(g) /\ Len(g) = Len(fs) + 1
        BY <1>2 DEF k
      <4> QED BY <1>2, <4>1, DueFacts DEF k
    <3>4. Due(g, Len(g)) = Due(g, Len(fs))
      BY <3>2, <3>3, ConcatEmptySeq
    <3> QED BY <1>10, <3>1, <3>4
  <2>2. CASE n # 0
    <3>1. D[m + n] = <<k, n>>
      BY <1>2, <1>5, <2>2
    <3> QED BY <1>2, <3>1 DEF Ended, n
  <2> QED BY <2>1, <2>2
<1>13. Chain(g, D)
  BY <1>1, <1>2, <1>4, <1>8, <1>9, <1>11, <1>12 DEF Chain
<1> QED BY <1>13 DEF g, D, N, n, k

LEMMA ConcatParts ==
  ASSUME NEW S, NEW s \in Seq(S), NEW t \in Seq(S)
  PROVE  /\ s \o t \in Seq(S) /\ Len(s \o t) = Len(s) + Len(t)
         /\ \A x \in 1 .. Len(s) : (s \o t)[x] = s[x]
         /\ \A j \in 1 .. Len(t) : (s \o t)[Len(s) + j] = t[j]
OBVIOUS

LEMMA UartInvInit == UartInit => UartInv
<1> SUFFICES ASSUME UartInit PROVE UartInv
  OBVIOUS
<1>1. UartTypes
  BY UartTypesInit
<1>2. frames = <<>> /\ frames \in Seq(SentFrames) /\ Len(frames) = 0
  BY <1>1 DEF UartInit, UartTypes
<1>3. Due(frames, 0) = <<>>
  BY <1>2, DueFacts
<1>4. ASSUME NEW i \in 0 .. Len(frames) PROVE IsPrefix(Due(frames, i), Due(frames, Len(frames)))
  <2>1. i = 0
    BY <1>2
  <2>2. IsPrefix(<<>>, <<>>)
    BY DEF IsPrefix
  <2> QED BY <1>2, <1>3, <2>1, <2>2
<1>5. Stream
  <2> DEFINE C == <<Origin>>
  <2>1. C \in Seq(Nat \X Nat) /\ Len(C) = 1 /\ C[1] = Origin
    BY DEF Origin
  <2> HIDE DEF C
  <2>2. Chain(frames, C)
    <3>1. Origin[1] = 0
      BY DEF Origin
    <3> QED BY <1>2, <2>1, <3>1 DEF Chain, Ended
  <2>3. OnTheWay(C)
    BY <2>1 DEF OnTheWay, Ahead, Pending, UartInit
  <2>4. Reached(C[1])
    <3>1. Origin[1] = 0
      BY DEF Origin
    <3> QED BY <1>3, <2>1, <3>1 DEF Reached, Past, UartInit
  <2> QED BY <2>2, <2>3, <2>4 DEF Stream
<1> QED BY <1>1, <1>4, <1>5 DEF UartInv, UartInit

\* A step after which the same bytes are on their way.
LEMMA SameStream ==
  ASSUME UNCHANGED <<frames, in_frame, frame_buffer, delivered>>, NEW C, Chain(frames, C), Reached(C[1])
  PROVE  Chain(frames, C)' /\ Reached(C[1])'
BY DEF Chain, Reached

LEMMA SendStep ==
  ASSUME UartInv, NEW mac \in Seq(Byte), NEW data \in Seq(Byte), NEW n \in Nat,
         PeerSends(mac, data, n)
  PROVE  UartInv'
<1> DEFINE f == SentFrame(mac, data, n)
           sent == SentBytes(mac, data, n)
           k == Len(frames) + 1
<1>1. /\ f \in SentFrames /\ sent \in Seq(Byte) /\ Len(sent) = n
      /\ \A i \in 1 .. n : sent[i] = Encoded(mac \o data)[i]
  BY SentType
<1>2. f.packet = mac \o data /\ f.out = n
  BY DEF SentFrame
<1>3. /\ frames' = Append(frames, f) /\ line' = line \o sent
      /\ UNCHANGED <<receiver, automaton, polling, delivered, missed>>
  BY DEF PeerSends, SentFrame, SentBytes
<1> HIDE DEF f, sent
<1>4. UartTypes' /\ UartTypes /\ frames \in Seq(SentFrames) /\ line \in Seq(Byte)
  BY UartTypesStep DEF UartStep, UartInv, UartTypes, UartTypeOK
<1>5. Len(frames) \in Nat /\ Len(frames') = k /\ frames'[k] = f /\ Len(line) \in Nat
  BY <1>1, <1>3, <1>4
<1>6. ASSUME NEW i \in 0 .. Len(frames') PROVE IsPrefix(Due(frames', i), Due(frames', Len(frames')))
  <2>1. \A j \in 0 .. Len(frames) : Due(frames', j) = Due(frames, j) /\ Due(frames, j) \in Seq(Packet)
    BY <1>1, <1>3, <1>4, DueKept, DueFacts
  <2>2. Yield(f) \in Seq(Packet)
    BY <1>1, YieldType
  <2>3. Due(frames', k) = Due(frames, Len(frames)) \o Yield(f)
    <3>1. frames' \in Seq(SentFrames) /\ Len(frames) \in 0 .. Len(frames') - 1 /\ Len(frames) \in 0 .. Len(frames)
      BY <1>4, <1>5 DEF UartTypes
    <3> QED BY <1>5, <2>1, <3>1, DueFacts
  <2>4. CASE i = k
    <3>1. Due(frames', k) \in Seq(Packet)
      <4>1. frames' \in Seq(SentFrames) /\ k \in 0 .. Len(frames')
        BY <1>4, <1>5 DEF UartTypes
      <4> QED BY <4>1, DueFacts
    <3>2. IsPrefix(Due(frames', k), Due(frames', k))
      BY <3>1 DEF IsPrefix
    <3> QED BY <1>5, <2>4, <3>2
  <2>5. CASE i # k
    <3>1. i \in 0 .. Len(frames) /\ Len(frames) \in 0 .. Len(frames)
      BY <1>5, <2>5
    <3>2. IsPrefix(Due(frames, i), Due(frames, Len(frames)))
      BY <3>1 DEF UartInv
    <3>3. IsPrefix(Due(frames, i), Due(frames', k))
      BY <2>1, <2>2, <2>3, <3>1, <3>2, PrefixOfConcat
    <3> QED BY <1>5, <2>1, <3>1, <3>3
  <2> QED BY <2>4, <2>5
<1>7. ASSUME Stream PROVE Stream'
  <2>1. PICK C : Chain(frames, C) /\ OnTheWay(C) /\ Reached(C[1])
    BY <1>7 DEF Stream
  <2> DEFINE N == NewTags(n, k)
  <2>0. PICK D : D = C \o N
    OBVIOUS
  <2>2. Chain(frames', D)
    BY <1>1, <1>2, <1>3, <1>4, <2>0, <2>1, ChainGrows
  <2>3. /\ C \in Seq(Nat \X Nat) /\ Len(C) >= 1 /\ Len(C) \in Nat
        /\ C[1] \in {Origin} \cup Tags(frames)
        /\ \A x \in 2 .. Len(C) : C[x] \in Tags(frames)
    <3>1. C \in Seq(Nat \X Nat)
      BY <2>1 DEF Chain
    <3>2. Len(C) \in Nat
      BY <3>1
    <3> QED BY <2>1, <3>2 DEF Chain
  <2>4. N \in Seq(Nat \X Nat) /\ Len(N) = n /\ \A j \in 1 .. n : N[j] = <<k, j>>
    BY <1>5 DEF NewTags
  <2> HIDE DEF N
  <2>5. /\ D \in Seq(Nat \X Nat) /\ Len(D) = Len(C) + n
        /\ \A x \in 1 .. Len(C) : D[x] = C[x]
        /\ \A j \in 1 .. n : D[Len(C) + j] = <<k, j>>
    <3> HIDE DEF k
    <3> QED BY <2>0, <2>3, <2>4, ConcatParts
  <2>6. Pending' = Pending /\ Ahead' = Ahead /\ Ahead \in {1, 2} /\ (Pending => Ahead = 2)
    BY <1>3 DEF Pending, Ahead, receiver
  <2>7. /\ Len(C) = Ahead + Len(line)
        /\ \A y \in 1 .. Len(line) : line[y] = ByteOf(frames, C[Ahead + y])
        /\ Pending /\ uart_rx_pos # 0 => uart_rx_buffer[uart_rx_pos - 1] = ByteOf(frames, C[2])
    BY <2>1 DEF OnTheWay
  <2>8. OnTheWay(D)'
    <3>1. /\ Len(line') = Len(line) + n
          /\ \A y \in 1 .. Len(line) : line'[y] = line[y]
          /\ \A j \in 1 .. n : line'[Len(line) + j] = sent[j]
      <4> DEFINE all == line \o sent
      <4>1. /\ Len(all) = Len(line) + Len(sent)
            /\ \A y \in 1 .. Len(line) : all[y] = line[y]
            /\ \A j \in 1 .. Len(sent) : all[Len(line) + j] = sent[j]
        <5>1. line \in Seq(Byte) /\ sent \in Seq(Byte)
          BY <1>1, <1>4
        <5> QED BY ONLY <5>1, ConcatParts
      <4>2. line' = all
        BY <1>3
      <4> HIDE DEF all
      <4> QED BY <1>1, <4>1, <4>2
    <3>2. Len(D) = Ahead' + Len(line')
      BY <1>5, <2>3, <2>5, <2>6, <2>7, <3>1
    <3>3. ASSUME NEW y \in 1 .. Len(line') PROVE line'[y] = ByteOf(frames', D[Ahead + y])
      <4>1. CASE y <= Len(line)
        <5>1. y \in 1 .. Len(line) /\ Ahead + y \in 2 .. Len(C) /\ Ahead + y \in 1 .. Len(C)
          BY <1>5, <2>6, <2>7, <4>1
        <5>2. D[Ahead + y] = C[Ahead + y] /\ C[Ahead + y] \in Tags(frames)
          BY <2>3, <2>5, <5>1
        <5>3. ByteOf(frames', C[Ahead + y]) = ByteOf(frames, C[Ahead + y])
          BY <1>1, <1>3, <1>4, <5>2, Older
        <5> QED BY <2>7, <3>1, <5>1, <5>2, <5>3
      <4>2. CASE ~(y <= Len(line))
        <5> DEFINE j == y - Len(line)
        <5>1. j \in 1 .. n /\ y = Len(line) + j /\ Ahead + y = Len(C) + j
          <6>1. y \in Nat /\ y <= Len(line) + n /\ y > Len(line)
            BY <1>5, <3>1, <4>2
          <6>2. Len(C) = Ahead + Len(line)
            BY <2>7
          <6>3. Ahead \in Nat
            BY <2>6
          <6> HIDE DEF k
          <6> QED BY <1>5, <6>1, <6>2, <6>3
        <5> HIDE DEF j
        <5>2. D[Ahead + y] = <<k, j>> /\ line'[y] = Encoded(mac \o data)[j]
          BY <1>1, <2>5, <3>1, <5>1
        <5>3. ByteOf(frames', <<k, j>>) = Encoded(f.packet)[j]
          BY <1>5 DEF ByteOf
        <5> QED BY <1>2, <5>2, <5>3
      <4> QED BY <4>1, <4>2
    <3>4. Pending /\ uart_rx_pos # 0 => uart_rx_buffer[uart_rx_pos - 1] = ByteOf(frames', D[2])
      <4> SUFFICES ASSUME Pending, uart_rx_pos # 0
                   PROVE  uart_rx_buffer[uart_rx_pos - 1] = ByteOf(frames', D[2])
        OBVIOUS
      <4>1. 2 \in 2 .. Len(C) /\ 2 \in 1 .. Len(C)
        BY <1>5, <2>3, <2>6, <2>7
      <4>2. D[2] = C[2] /\ C[2] \in Tags(frames)
        BY <2>3, <2>5, <4>1
      <4>3. ByteOf(frames', C[2]) = ByteOf(frames, C[2])
        BY <1>1, <1>3, <1>4, <4>2, Older
      <4> QED BY <2>7, <4>2, <4>3
    <3>5. uart_rx_pos' = uart_rx_pos /\ uart_rx_buffer' = uart_rx_buffer
      BY <1>3 DEF receiver
    <3> QED BY <2>6, <3>2, <3>3, <3>4, <3>5 DEF OnTheWay
  <2>9. Reached(D[1])'
    <3> DEFINE a == C[1]
    <3>1. D[1] = a /\ a \in {Origin} \cup Tags(frames)
      BY <2>3, <2>5
    <3>2. /\ a \in Tags(frames) => /\ frames'[a[1]] = frames[a[1]]
                                   /\ Due(frames', a[1] - 1) = Due(frames, a[1] - 1)
          /\ Past(frames', a) <=> Past(frames, a)
          /\ Due(frames', a[1]) = Due(frames, a[1])
      BY <1>1, <1>3, <1>4, <3>1, Older
    <3>3. ~Past(frames, a) => a \in Tags(frames)
      BY <3>1 DEF Past, Origin
    <3>4. Reached(a)
      BY <2>1
    <3>5. UNCHANGED <<in_frame, frame_buffer, delivered>>
      BY <1>3 DEF automaton
    <3> HIDE DEF a
    <3> QED BY <3>1, <3>2, <3>3, <3>4, <3>5 DEF Reached
  <2> QED BY <2>2, <2>8, <2>9 DEF Stream
<1>8. missed' = missed /\ polling' = polling /\ uart_data_available' = uart_data_available
  BY <1>3 DEF receiver
<1> QED BY <1>4, <1>6, <1>7, <1>8 DEF UartInv

\* The interrupt moves the first byte of the line into the buffer.
LEMMA ArriveStep == ASSUME UartInv, RxCplt PROVE UartInv'
<1>1. UartTypes /\ UartTypes'
  BY UartTypesStep DEF UartStep, UartInv
<1>2. /\ line # <<>> /\ line' = Tail(line)
      /\ uart_rx_buffer' = [uart_rx_buffer EXCEPT ![uart_rx_pos] = Head(line)]
      /\ uart_data_available' = TRUE /\ uart_rx_pos' = (uart_rx_pos + 1) % MaxPacket
      /\ missed' = (missed \/ uart_data_available \/ polling = "cleared")
      /\ UNCHANGED <<automaton, polling, delivered, frames>>
  BY DEF RxCplt
<1>3. \A i \in 0 .. Len(frames') : IsPrefix(Due(frames', i), Due(frames', Len(frames')))
  BY <1>2 DEF UartInv
<1>4. ASSUME ~missed' PROVE (polling' = "cleared" => ~uart_data_available') /\ Stream'
  <2>1. ~missed /\ ~Pending
    BY <1>2, <1>4 DEF Pending
  <2>2. PICK C : Chain(frames, C) /\ OnTheWay(C) /\ Reached(C[1])
    BY <2>1 DEF UartInv, Stream
  <2>3. /\ Len(C) = 1 + Len(line)
        /\ \A y \in 1 .. Len(line) : line[y] = ByteOf(frames, C[1 + y])
    BY <2>1, <2>2 DEF OnTheWay, Ahead
  <2>4. /\ Len(line) \in Nat /\ Len(line) >= 1 /\ Head(line) = line[1]
        /\ Len(line') = Len(line) - 1
        /\ \A y \in 1 .. Len(line') : line'[y] = line[y + 1]
    BY <1>1, <1>2 DEF UartTypes, UartTypeOK
  <2>5. Pending' /\ Ahead' = 2
    BY <1>2 DEF Pending, Ahead
  <2>6. uart_rx_pos' # 0 => uart_rx_buffer'[uart_rx_pos' - 1] = Head(line)
    <3>1. /\ uart_rx_pos \in 0 .. MaxPacket - 1 /\ MaxPacket \in Nat
          /\ uart_rx_buffer \in [0 .. MaxPacket - 1 -> Byte]
      BY <1>1, UartAssumption DEF UartTypes, UartTypeOK
    <3>2. uart_rx_buffer'[uart_rx_pos] = Head(line)
      BY <1>2, <3>1
    <3>3. CASE uart_rx_pos = MaxPacket - 1
      <4>1. uart_rx_pos' = 0
        BY <1>2, <3>1, <3>3
      <4> QED BY <4>1
    <3>4. CASE uart_rx_pos # MaxPacket - 1
      <4>1. uart_rx_pos' = uart_rx_pos + 1
        BY <1>2, <3>1, <3>4
      <4>2. uart_rx_pos' - 1 = uart_rx_pos
        BY <3>1, <4>1
      <4> QED BY <3>2, <4>2
    <3> QED BY <3>3, <3>4
  <2>7. OnTheWay(C)'
    <3>1. Len(C) = Ahead' + Len(line')
      BY <2>3, <2>4, <2>5
    <3>2. ASSUME NEW y \in 1 .. Len(line') PROVE line'[y] = ByteOf(frames', C[2 + y])
      <4>1. y + 1 \in 1 .. Len(line) /\ 1 + (y + 1) = 2 + y
        BY <2>4
      <4> QED BY <1>2, <2>3, <2>4, <4>1
    <3>3. Head(line) = ByteOf(frames', C[2])
      <4>1. 1 \in 1 .. Len(line) /\ 1 + 1 = 2
        BY <2>4
      <4> QED BY <1>2, <2>3, <2>4, <4>1
    <3> QED BY <2>5, <2>6, <3>1, <3>2, <3>3 DEF OnTheWay
  <2>8. Chain(frames, C)' /\ Reached(C[1])'
    BY <1>2, <2>2, SameStream DEF automaton
  <2> QED BY <1>2, <2>1, <2>7, <2>8 DEF Stream, Pending
<1> QED BY <1>1, <1>3, <1>4 DEF UartInv

\* The poll takes it out.
LEMMA ReadStep == ASSUME UartInv, PollRead PROVE UartInv'
<1>1. UartTypes /\ UartTypes'
  BY UartTypesStep DEF UartStep, UartInv
<1>2. /\ polling = "cleared" /\ polling' \in {"out", "wait"}
      /\ missed' = (missed \/ uart_rx_pos = 0)
      /\ UNCHANGED <<line, receiver, frames>>
  BY DEF PollRead
<1>3. \A i \in 0 .. Len(frames') : IsPrefix(Due(frames', i), Due(frames', Len(frames')))
  BY <1>2 DEF UartInv
<1>4. ASSUME ~missed' PROVE (polling' = "cleared" => ~uart_data_available') /\ Stream'
  <2>1. ~missed /\ uart_rx_pos # 0 /\ Pending /\ ~uart_data_available
    BY <1>2, <1>4 DEF Pending, UartInv
  <2>2. PICK C : Chain(frames, C) /\ OnTheWay(C) /\ Reached(C[1])
    BY <2>1 DEF UartInv, Stream
  <2>3. /\ C \in Seq(Nat \X Nat) /\ C[1] \in {Origin} \cup Tags(frames)
        /\ \A x \in 2 .. Len(C) : C[x] \in Tags(frames)
        /\ \A x \in 1 .. Len(C) - 1 : Follows(frames, C[x], C[x + 1])
        /\ Ended(frames, C[Len(C)]) /\ Due(frames, Len(frames)) = Due(frames, C[Len(C)][1])
    BY <2>2 DEF Chain
  <2>4. /\ Len(C) = 2 + Len(line)
        /\ \A y \in 1 .. Len(line) : line[y] = ByteOf(frames, C[2 + y])
        /\ uart_rx_buffer[uart_rx_pos - 1] = ByteOf(frames, C[2])
    BY <2>1, <2>2 DEF OnTheWay, Ahead
  <2>5. Len(line) \in Nat
    BY <1>1 DEF UartTypes, UartTypeOK
  <2>6. C[2] \in Tags(frames) /\ Follows(frames, C[1], C[2])
    <3>1. 2 \in 2 .. Len(C) /\ 1 \in 1 .. Len(C) - 1 /\ 1 + 1 = 2
      BY <2>4, <2>5
    <3> QED BY <2>3, <3>1
  <2>7. Taken(ByteOf(frames, C[2]))
    <3>1. PICK byte \in ReadBytes : Taken(byte)
      BY <1>1, PollReadIs
    <3>2. byte = uart_rx_buffer[uart_rx_pos - 1]
      BY <2>1 DEF ReadBytes
    <3> QED BY <2>4, <3>1, <3>2
  <2>8. PICK D : D = Tail(C)
    OBVIOUS
  <2>9. /\ D \in Seq(Nat \X Nat) /\ Len(D) = 1 + Len(line)
        /\ \A x \in 1 .. Len(D) : D[x] = C[x + 1]
    <3>1. C # <<>> /\ Len(C) \in Nat
      BY <2>3, <2>4, <2>5
    <3> QED BY <2>3, <2>4, <2>5, <2>8, <3>1, HeadTailProperties
  <2>10. D[1] = C[2]
    <3>1. 1 \in 1 .. Len(D) /\ 1 + 1 = 2
      BY <2>5, <2>9
    <3> QED BY <2>9, <3>1
  <2>11. Reached(D[1])'
    BY <1>1, <1>2, <2>2, <2>3, <2>6, <2>7, <2>10, TakesNext
  <2>12. Chain(frames', D)
    <3>1. ASSUME NEW x \in 2 .. Len(D) PROVE D[x] \in Tags(frames)
      <4>1. x \in 1 .. Len(D) /\ x + 1 \in 2 .. Len(C)
        BY <2>4, <2>5, <2>9
      <4> QED BY <2>3, <2>9, <4>1
    <3>2. ASSUME NEW x \in 1 .. Len(D) - 1 PROVE Follows(frames, D[x], D[x + 1])
      <4>1. x \in 1 .. Len(D) /\ x + 1 \in 1 .. Len(D) /\ x + 1 \in 1 .. Len(C) - 1
        BY <2>4, <2>5, <2>9
      <4> QED BY <2>3, <2>9, <4>1
    <3>3. D[Len(D)] = C[Len(C)] /\ Len(D) >= 1
      <4>1. Len(D) \in 1 .. Len(D) /\ Len(D) + 1 = Len(C)
        BY <2>4, <2>5, <2>9
      <4> QED BY <2>9, <4>1
    <3> QED BY <1>2, <2>3, <2>6, <2>9, <2>10, <3>1, <3>2, <3>3 DEF Chain
  <2>13. ~Pending' /\ Ahead' = 1
    BY <1>2, <2>1 DEF Pending, Ahead, receiver
  <2>14. OnTheWay(D)'
    <3>1. ASSUME NEW y \in 1 .. Len(line) PROVE line[y] = ByteOf(frames, D[1 + y])
      <4>1. 1 + y \in 1 .. Len(D) /\ (1 + y) + 1 = 2 + y
        BY <2>5, <2>9
      <4> QED BY <2>4, <2>9, <4>1
    <3> QED BY <1>2, <2>9, <2>13, <3>1 DEF OnTheWay
  <2> QED BY <1>2, <2>11, <2>12, <2>14 DEF Stream
<1> QED BY <1>1, <1>3, <1>4 DEF UartInv

\* The other steps leave the bytes where they are.
LEMMA StillStep ==
  ASSUME UartInv, PollClear \/ ReceiveCall \/ ReceiveTimeout \/ UNCHANGED uartVars
  PROVE  UartInv'
<1>1. UartTypes /\ UartTypes'
  BY UartTypesStep DEF UartStep, UartInv
<1>2. /\ UNCHANGED <<line, uart_rx_buffer, uart_rx_pos, automaton, delivered, frames, missed>>
      /\ Pending' = Pending
      /\ polling' = "cleared" /\ (polling = "cleared" => ~uart_data_available) => ~uart_data_available'
  <2>0. uart_data_available \in BOOLEAN
    BY <1>1 DEF UartTypes, UartTypeOK
  <2>1. CASE PollClear
    BY <2>1 DEF PollClear, Pending
  <2>2. CASE ReceiveCall
    BY <2>2 DEF ReceiveCall, Pending, receiver
  <2>3. CASE ReceiveTimeout
    BY <2>3 DEF ReceiveTimeout, Pending, receiver
  <2>4. CASE UNCHANGED uartVars
    BY <2>4 DEF uartVars, Pending, automaton
  <2> QED BY <2>1, <2>2, <2>3, <2>4
<1>3. \A i \in 0 .. Len(frames') : IsPrefix(Due(frames', i), Due(frames', Len(frames')))
  BY <1>2 DEF UartInv
<1>4. ASSUME Stream PROVE Stream'
  <2>1. PICK C : Chain(frames, C) /\ OnTheWay(C) /\ Reached(C[1])
    BY <1>4 DEF Stream
  <2>2. Chain(frames, C)' /\ Reached(C[1])'
    BY <1>2, <2>1, SameStream DEF automaton
  <2>3. OnTheWay(C)'
    BY <1>2, <2>1 DEF OnTheWay, Ahead
  <2> QED BY <2>2, <2>3 DEF Stream
<1> QED BY <1>1, <1>2, <1>3, <1>4 DEF UartInv

LEMMA UartInvStep == ASSUME UartInv, UartStep \/ UNCHANGED uartVars PROVE UartInv'
BY SendStep, ArriveStep, ReadStep, StillStep DEF UartStep

LEMMA UartInvFrames == UartInv => FramesCut
<1> SUFFICES ASSUME UartInv, ~missed
             PROVE  /\ IsPrefix(delivered, Due(frames, Len(frames)))
                    /\ (line = <<>> /\ polling = "wait" /\ ~uart_data_available) =>
                          delivered = Due(frames, Len(frames))
  <2>1. DOMAIN frames = 1 .. Len(frames)
    BY DEF UartInv, UartTypes
  <2>2. Due(frames, Len(frames)) = FlattenSeq([i \in DOMAIN frames |-> Yield(frames[i])])
    BY <2>1 DEF Due
  <2> QED BY <2>2 DEF FramesCut, Received
<1>1. UartTypes /\ frames \in Seq(SentFrames) /\ Len(frames) \in Nat
  BY DEF UartInv, UartTypes
<1>2. PICK C : Chain(frames, C) /\ OnTheWay(C) /\ Reached(C[1])
  BY DEF UartInv, Stream
<1>3. C[1] \in {Origin} \cup Tags(frames)
  BY <1>2 DEF Chain
<1>4. PICK i \in 0 .. Len(frames) : delivered = Due(frames, i)
  <2>1. CASE Past(frames, C[1])
    <3>1. C[1][1] \in 0 .. Len(frames)
      BY <1>1, <1>3, TagsType
    <3> QED BY <1>2, <2>1, <3>1 DEF Reached
  <2>2. CASE ~Past(frames, C[1])
    <3>1. C[1][1] \in 1 .. Len(frames)
      BY <1>3, <2>2 DEF Past, Origin, Tags
    <3>2. C[1][1] - 1 \in 0 .. Len(frames)
      BY <1>1, <3>1
    <3> QED BY <1>2, <2>2, <3>2 DEF Reached
  <2> QED BY <2>1, <2>2
<1>5. IsPrefix(delivered, Due(frames, Len(frames)))
  BY <1>4 DEF UartInv
<1>6. ASSUME line = <<>>, polling = "wait", ~uart_data_available
      PROVE  delivered = Due(frames, Len(frames))
  <2>1. Len(C) = 1
    BY <1>2, <1>6 DEF OnTheWay, Ahead, Pending
  <2>2. Ended(frames, C[1]) /\ Due(frames, Len(frames)) = Due(frames, C[1][1])
    BY <1>2, <2>1 DEF Chain
  <2> QED BY <1>1, <1>2, <1>3, <2>2, DeliveredEnded
<1> QED BY <1>5, <1>6

\* A packet without an escaped byte is not cut, and its frame yields it as soon as all of
\* it is out: the cut lies at the byte behind its last one, which is the end of the frame.
LEMMA PlainYields ==
  ASSUME NEW f \in SentFrames, \A j \in DOMAIN f.packet : ~IsSpecial(f.packet[j])
  PROVE  Yield(f) = Whole(f)
<1> DEFINE p == f.packet
           cut == CutAt(p)
           size == Len(Encoded(p))
<1>1. /\ p \in Seq(Byte) /\ Len(p) \in Nat /\ DOMAIN p = 1 .. Len(p)
      /\ f.out \in Nat /\ f.out <= size /\ Len(p) >= MacLen + 1
  BY UartAssumption DEF SentFrames
<1>2. cut \in 1 .. Len(p) + 1 /\ (cut <= Len(p) => IsSpecial(p[cut]))
  BY <1>1, CutFacts
<1>3. cut = Len(p) + 1
  BY <1>1, <1>2
<1>4. size = Len(p) + 2
  <2>1. cut > Len(p)
    BY <1>1, <1>3
  <2> QED BY <1>1, <2>1, EncodedIs
<1>5. Yield(f) = IF f.out > cut /\ cut > MacLen
                 THEN << <<SubSeq(p, 1, MacLen), SubSeq(p, MacLen + 1, cut - 1)>> >>
                 ELSE <<>>
  BY DEF Yield
<1>6. Whole(f) = IF f.out = size
                 THEN << <<SubSeq(p, 1, MacLen), SubSeq(p, MacLen + 1, Len(p))>> >>
                 ELSE <<>>
  BY DEF Whole
<1> HIDE DEF p, cut, size
<1>7. MacLen \in Nat
  BY UartAssumption
<1>8. (f.out > cut /\ cut > MacLen) <=> f.out = size
  BY <1>1, <1>3, <1>4, <1>7
<1>9. cut - 1 = Len(p)
  BY <1>1, <1>3
<1> QED BY <1>5, <1>6, <1>8, <1>9

LEMMA UartInvPlain == UartInv => PlainFramesArrive
<1> DEFINE AllPlain == \A i \in DOMAIN frames :
                          \A j \in DOMAIN frames[i].packet : ~IsSpecial(frames[i].packet[j])
           yields == [i \in DOMAIN frames |-> Yield(frames[i])]
           wholes == [i \in DOMAIN frames |-> Whole(frames[i])]
<1> SUFFICES ASSUME UartInv, AllPlain PROVE Received(SentWhole)
  BY DEF PlainFramesArrive
<1>1. ASSUME NEW i \in DOMAIN frames PROVE Yield(frames[i]) = Whole(frames[i])
  <2>1. frames[i] \in SentFrames
    BY DEF UartInv, UartTypes
  <2> QED BY <2>1, PlainYields
<1>2. yields = wholes
  BY <1>1
<1>3. Received(FlattenSeq(yields))
  BY UartInvFrames DEF FramesCut
<1> QED BY <1>2, <1>3 DEF SentWhole

(***************************************************************************)
(* The UART within the program                                             *)
(***************************************************************************)
LEMMA UartOfProgram == ASSUME UartInv, [Next]_vars PROVE UartInv'
<1>1. CASE UNCHANGED uartVars
  BY <1>1, UartInvStep
<1>2. CASE ReceiveTest
  BY <1>2, UartInvStep DEF ReceiveTest, UartStep
<1>3. CASE Uart
  <2>1. CASE PeerFrame
    <3>0. PICK p \in Packets : \E n : PeerSends(p[1], p[2], n)
      BY <2>1 DEF PeerFrame
    <3>1. PICK n : PeerSends(p[1], p[2], n)
      BY <3>0
    <3>2. p[1] \in Seq(Byte) /\ p[2] \in Seq(Byte)
      BY MainAssumption
    <3>3. n \in Nat
      BY <3>1, <3>2, SentType
    <3> QED BY <3>1, <3>2, <3>3, SendStep
  <2> QED BY <1>3, <2>1, UartInvStep DEF Uart, UartStep
<1>4. UNCHANGED uartVars \/ ReceiveTest \/ Uart
  BY DEF Next, vars, InitNetwork, AllocateWorkspace, MemoryTest, StorageTest, KyberKeypair,
         KyberEncaps, KyberDecaps, KyberEncapsAgain, KyberDecapsAgain, KyberCompare,
         DilithiumKeypair, DilithiumSign, DilithiumVerifyStep, SendTest, ReceiveNothing,
         ReceiveDone, Repeat
<1> QED BY <1>1, <1>2, <1>3, <1>4

\* The counters, and that only the communication test is inside receive_raw.
Bounded ==
  /\ rounds \in 0 .. MaxEvents
  /\ starved \in Nat
  /\ polling # "out" => pc = "receiving"

LEMMA BoundedStep == ASSUME UartInv, Bounded, [Next]_vars PROVE Bounded'
<1>0. Len(frames) \in Nat /\ MaxEvents \in Nat
  BY MainAssumption DEF UartInv, UartTypes
<1>1. starved' \in Nat
  <2>1. CASE InitNetwork \/ AllocateWorkspace \/ MemoryTest \/ StorageTest \/ KyberCompare
             \/ SendTest \/ ReceiveNothing \/ ReceiveTest \/ ReceiveDone \/ Repeat
             \/ UNCHANGED mainVars
    BY <2>1 DEF mainVars, InitNetwork, AllocateWorkspace, MemoryTest, StorageTest, KyberCompare,
           SendTest, ReceiveNothing, ReceiveTest, ReceiveDone, Repeat, Bounded
  <2>2. CASE KyberKeypair
    BY <2>2 DEF KyberKeypair, NoMemory, Bounded
  <2>3. CASE KyberEncaps
    BY <2>3 DEF KyberEncaps, NoMemory, Bounded
  <2>4. CASE KyberDecaps
    BY <2>4 DEF KyberDecaps, NoMemory, Bounded
  <2>5. CASE KyberEncapsAgain
    BY <2>5 DEF KyberEncapsAgain, NoMemory, Bounded
  <2>6. CASE KyberDecapsAgain
    BY <2>6 DEF KyberDecapsAgain, NoMemory, Bounded
  <2>7. CASE DilithiumKeypair
    BY <2>7 DEF DilithiumKeypair, NoMemory, Bounded
  <2>8. CASE DilithiumSign
    BY <2>8 DEF DilithiumSign, NoMemory, Bounded
  <2>9. CASE DilithiumVerifyStep
    BY <2>9 DEF DilithiumVerifyStep, NoMemory, Bounded
  <2> QED
    BY <2>1, <2>2, <2>3, <2>4, <2>5, <2>6, <2>7, <2>8, <2>9 DEF Next, vars, mainVars
<1>2. rounds' \in 0 .. MaxEvents
  <2>1. rounds' = rounds \/ (OneMore /\ rounds' = rounds + 1)
    BY DEF Next, vars, mainVars, InitNetwork, AllocateWorkspace, MemoryTest, StorageTest,
           KyberKeypair, KyberEncaps, KyberDecaps, KyberEncapsAgain, KyberDecapsAgain,
           KyberCompare, DilithiumKeypair, DilithiumSign, DilithiumVerifyStep, SendTest,
           ReceiveNothing, ReceiveTest, ReceiveDone, Repeat
  <2> QED BY <1>0, <2>1 DEF Bounded, OneMore
<1>3. polling' # "out" => pc' = "receiving"
  <2>1. CASE polling' = polling /\ (pc' = pc \/ pc # "receiving")
    BY <2>1 DEF Bounded
  <2>2. CASE ReceiveTest
    BY <2>2 DEF ReceiveTest
  <2>3. CASE ReceiveDone
    BY <2>3 DEF ReceiveDone, uartVars
  <2>4. CASE Uart /\ UNCHANGED mainVars
    <3>1. polling # "out" \/ polling' = polling
      BY <2>4 DEF Uart, PeerFrame, PeerSends, RxCplt, PollClear, PollRead, ReceiveTimeout
    <3> QED BY <2>4, <3>1 DEF Bounded, mainVars
  <2>5. \/ polling' = polling /\ (pc' = pc \/ pc # "receiving")
        \/ ReceiveTest \/ ReceiveDone
        \/ Uart /\ UNCHANGED mainVars
    <3>1. CASE InitNetwork \/ AllocateWorkspace \/ MemoryTest \/ StorageTest
      BY <3>1 DEF InitNetwork, AllocateWorkspace, MemoryTest, StorageTest, uartVars
    <3>2. CASE KyberKeypair \/ KyberEncaps \/ KyberDecaps
      BY <3>2 DEF KyberKeypair, KyberEncaps, KyberDecaps, uartVars
    <3>3. CASE KyberEncapsAgain \/ KyberDecapsAgain \/ KyberCompare
      BY <3>3 DEF KyberEncapsAgain, KyberDecapsAgain, KyberCompare, uartVars
    <3>4. CASE DilithiumKeypair \/ DilithiumSign \/ DilithiumVerifyStep
      BY <3>4 DEF DilithiumKeypair, DilithiumSign, DilithiumVerifyStep, uartVars
    <3>5. CASE SendTest \/ ReceiveNothing \/ Repeat
      BY <3>5 DEF SendTest, ReceiveNothing, Repeat, uartVars
    <3>6. CASE UNCHANGED vars
      BY <3>6 DEF vars, mainVars, uartVars
    <3> QED BY <3>1, <3>2, <3>3, <3>4, <3>5, <3>6 DEF Next
  <2> QED BY <2>1, <2>2, <2>3, <2>4, <2>5
<1> QED BY <1>1, <1>2, <1>3 DEF Bounded

PlatformInv == MainInv /\ UartInv /\ Bounded

LEMMA PlatformInvariant == Spec => []PlatformInv
<1>1. Init => PlatformInv
  <2> SUFFICES ASSUME Init PROVE PlatformInv
    OBVIOUS
  <2>1. MainInv
    BY MainInit
  <2>2. UartInv
    BY UartInvInit DEF Init
  <2>3. Bounded
    BY MainAssumption DEF Init, UartInit, Bounded
  <2> QED BY <2>1, <2>2, <2>3 DEF PlatformInv
<1>2. PlatformInv /\ [Next]_vars => PlatformInv'
  BY MainStep, UartOfProgram, BoundedStep DEF PlatformInv
<1> QED BY <1>1, <1>2, PTL DEF Spec

\* Types: extents of the memory never overlap, the repetitions stay within their bound, and
\* no more than a whole packet is in the frame buffer of the receiver.
THEOREM PlatformTypeCorrect == Spec => []TypeOK
<1>1. PlatformInv => TypeOK
  <2> SUFFICES ASSUME PlatformInv PROVE TypeOK
    OBVIOUS
  <2>1. \A e, f \in DOMAIN memory : e[1] < e[2] /\ (e # f => ~Overlap(e, f))
    BY DEF PlatformInv, MainInv, Kept, Apart, Extents
  <2> QED BY <2>1 DEF PlatformInv, MainInv, UartInv, UartTypes, Bounded, TypeOK
<1> QED BY <1>1, PlatformInvariant, PTL

\* Packets of which send_frame escapes no byte are received as they were sent, in order and
\* none twice, unless a byte was overtaken; transmissions that broke off before, between or
\* behind them yield nothing (receive_frame, HAL_UART_RxCpltCallback).
THEOREM PlainFramesDelivered == Spec => []PlainFramesArrive
<1>1. PlatformInv => PlainFramesArrive
  BY UartInvPlain DEF PlatformInv
<1> QED BY <1>1, PlatformInvariant, PTL

\* The reach of the finding on SentIsReceived: every packet is cut before its first escaped
\* byte, and nothing worse happens to it or to the packets around it.
THEOREM FramesArriveCut == Spec => []FramesCut
<1>1. PlatformInv => FramesCut
  BY UartInvFrames DEF PlatformInv
<1> QED BY <1>1, PlatformInvariant, PTL

\* The reach of the finding on SecretsAgree: no exchange in the workspace comes out with one
\* secret, whatever was drawn; encaps has written over the seeds of the secret key
\* (workspace_unified.h, kyber_modular.cpp).
THEOREM ExchangeFails == Spec => []SecretsDisagree
<1>1. PlatformInv => SecretsDisagree
  BY DEF PlatformInv, MainInv, Exchange
<1> QED BY <1>1, PlatformInvariant, PTL

\* secure_clear wipes from raw on, the last member (workspace_unified.cpp:78), so no clear
\* of any test touches the vector of the Kyber secret key.
THEOREM KeysRemain == Spec => []KeysSurviveClear
<1>1. PlatformInv => KeysSurviveClear
  <2> SUFFICES ASSUME PlatformInv, kem.keys # Nothing
               PROVE  Load(In("kyber_sk", 0, 768)) = kem.keys.sk.s
    BY DEF KeysSurviveClear
  <2>1. SkVector \in Extents
    BY DEF SkVector, Extents
  <2> QED BY <2>1, LoadWhole, KyberExtents DEF PlatformInv, MainInv, Kept
<1> QED BY <1>1, PlatformInvariant, PTL

\* Whatever is written past the end of a full block is written by secure_clear or, on the
\* STM32, by the Dilithium key pair and signature, and validate_bounds refuses it.
THEOREM OverrunsAreTheseThree == Spec => []OverrunsExplained
<1>1. PlatformInv => OverrunsExplained
  BY DEF PlatformInv, MainInv, OverrunsExplained, Explained
<1> QED BY <1>1, PlatformInvariant, PTL
=============================================================================
