--------------------------- MODULE LatticeProofs ---------------------------
(***************************************************************************)
(* What holds of the arithmetic for every value: the words of the           *)
(* computation inside Kyber are wide enough, for every matrix, noise,       *)
(* message, key and ciphertext and for both dimensions; the check of the    *)
(* low part of a Dilithium candidate lets a fortieth through; and what a    *)
(* packer writes, of any number of coefficients, comes back.                *)
(* The bounds inside Kyber are those of the code: every layer of ntt adds   *)
(* at most Q to a coefficient, every product at most 2 * Q, and the         *)
(* reductions bring a coefficient back to Q.                                *)
(***************************************************************************)
EXTENDS KyberPke, DilithiumRounding, BitPacking, FiniteSetTheorems, WellFoundedInduction, TLAPS

(***************************************************************************)
(* Ranges                                                                  *)
(***************************************************************************)
LEMMA IndexRange == \A i : (i \in Index) <=> (i \in Int /\ 0 <= i /\ i <= 255)
BY DEF Index

\* Poly is cited by this lemma only: an interval of numbers is too long to spell out.
LEMMA PolyRange ==
  \A lo, hi \in Int : \A r :
      (r \in Poly(lo, hi)) <=> /\ r \in [Index -> Int]
                               /\ \A i \in Index : lo <= r[i] /\ r[i] <= hi
<1> SUFFICES ASSUME NEW lo \in Int, NEW hi \in Int, NEW r
             PROVE  (r \in [Index -> lo .. hi]) <=>
                        /\ r \in [Index -> Int]
                        /\ \A i \in Index : lo <= r[i] /\ r[i] <= hi
  BY DEF Poly
<1> QED OBVIOUS

Word == Poly(-32768, 32767)

LEMMA WordsFit == \A p \in Word : WordSized(p)
<1> SUFFICES ASSUME NEW p \in Word, NEW i \in DOMAIN p PROVE -32768 <= p[i] /\ p[i] <= 32767
  BY DEF WordSized
<1>1. /\ p \in [Index -> Int]
      /\ \A j \in Index : -32768 <= p[j] /\ p[j] <= 32767
  BY PolyRange DEF Word
<1> QED BY <1>1

LEMMA Wider ==
  ASSUME NEW lo \in Int, NEW hi \in Int, NEW l \in Int, NEW h \in Int, l <= lo, hi <= h,
         NEW r \in Poly(lo, hi)
  PROVE  r \in Poly(l, h)
BY PolyRange

LEMMA NatTimes == \A a, b \in Nat : a * b \in Nat
OBVIOUS

\* A product is at most the product of the bounds of its factors.
LEMMA ProductRange ==
  ASSUME NEW A \in Nat, NEW B \in Nat, NEW a \in Int, NEW b \in Int,
         -A <= a, a <= A, -B <= b, b <= B
  PROVE  -(A * B) <= a * b /\ a * b <= A * B
<1>1. (A - a) * (B + b) \in Nat /\ (A + a) * (B - b) \in Nat
  BY NatTimes
<1>2. (A - a) * (B - b) \in Nat /\ (A + a) * (B + b) \in Nat
  BY NatTimes
<1> QED BY <1>1, <1>2

(***************************************************************************)
(* Reductions                                                              *)
(***************************************************************************)
LEMMA ZetaRange ==
  \A k \in Int : 0 <= k /\ k <= 127 => Zeta(k) \in Int /\ -1659 <= Zeta(k) /\ Zeta(k) <= 1659
BY SMTT(60) DEF Zeta, zetas

LEMMA IntWord == \A x \in Int : Int16(x) \in Int /\ -32768 <= Int16(x) /\ Int16(x) <= 32767
BY DEF Int16

Small(x) == x \in Int /\ -Q <= x /\ x <= Q

LEMMA MontgomerySmall == \A a \in Int : Reducible(a) => Small(montgomery_reduce(a))
<1> SUFFICES ASSUME NEW a \in Int, Reducible(a) PROVE Small(montgomery_reduce(a))
  OBVIOUS
<1> DEFINE u == Int16(-3327 * (a % 65536))
<1>1. u \in Int /\ -32768 <= u /\ u <= 32767
  BY IntWord
<1>2. Small((a - u * Q) \div 65536)
  <2> HIDE DEF u
  <2> QED BY <1>1 DEF Q, Reducible, Small
<1> QED BY <1>2 DEF montgomery_reduce

LEMMA BarrettSmall ==
  \A a \in Int : -32768 <= a /\ a <= 32767 =>
      barrett_reduce(a) \in Int /\ 0 <= barrett_reduce(a) /\ barrett_reduce(a) <= Q
BY DEF barrett_reduce, Q

\* A word times a constant of the transforms can be reduced.
LEMMA FqmulSmall ==
  ASSUME NEW a \in Int, NEW b \in Int, -1659 <= a, a <= 1659, -32768 <= b, b <= 32767
  PROVE  Small(fqmul(a, b))
<1>1. -(1659 * 32768) <= a * b /\ a * b <= 1659 * 32768
  BY ProductRange
<1>2. a * b \in Int /\ Reducible(a * b)
  BY <1>1 DEF Reducible, Q
<1> QED BY <1>2, MontgomerySmall DEF fqmul

(***************************************************************************)
(* Transforms                                                              *)
(***************************************************************************)
Layers == {2, 4, 8, 16, 32, 64, 128}

\* The constant and the partner of a coefficient exist in every layer.
LEMMA LayerIndex ==
  ASSUME NEW len \in Layers, NEW i \in Index
  PROVE  /\ 0 <= 128 \div len + i \div (2 * len) /\ 128 \div len + i \div (2 * len) <= 127
         /\ 128 \div len + i \div (2 * len) \in Int
         /\ 0 <= 256 \div len - 1 - i \div (2 * len) /\ 256 \div len - 1 - i \div (2 * len) <= 127
         /\ 256 \div len - 1 - i \div (2 * len) \in Int
         /\ i % (2 * len) < len => i + len \in Index
         /\ ~(i % (2 * len) < len) => i - len \in Index
<1> USE IndexRange
<1>1. CASE len = 2 BY <1>1
<1>2. CASE len = 4 BY <1>2
<1>3. CASE len = 8 BY <1>3
<1>4. CASE len = 16 BY <1>4
<1>5. CASE len = 32 BY <1>5
<1>6. CASE len = 64 BY <1>6
<1>7. CASE len = 128 BY <1>7
<1> QED BY <1>1, <1>2, <1>3, <1>4, <1>5, <1>6, <1>7 DEF Layers

\* A layer of ntt adds at most Q to the magnitude of a coefficient.
LEMMA NttLayerRange ==
  ASSUME NEW len \in Layers, NEW b \in Nat, b <= 32767, NEW r \in Poly(-b, b)
  PROVE  NttLayer(r, len) \in Poly(-(b + Q), b + Q)
<1>1. r \in [Index -> Int] /\ \A i \in Index : -b <= r[i] /\ r[i] <= b
  BY PolyRange
<1>2. ASSUME NEW i \in Index
      PROVE  /\ NttLayer(r, len)[i] \in Int
             /\ -(b + Q) <= NttLayer(r, len)[i] /\ NttLayer(r, len)[i] <= b + Q
  <2> DEFINE zeta == Zeta(128 \div len + i \div (2 * len))
  <2>1. zeta \in Int /\ -1659 <= zeta /\ zeta <= 1659
    BY LayerIndex, ZetaRange
  <2>2. CASE i % (2 * len) < len
    <3>1. i + len \in Index
      BY <2>2, LayerIndex
    <3>2. Small(fqmul(zeta, r[i + len]))
      <4> HIDE DEF zeta
      <4> QED BY <1>1, <2>1, <3>1, FqmulSmall
    <3>3. NttLayer(r, len)[i] = r[i] + fqmul(zeta, r[i + len])
      BY <2>2 DEF NttLayer
    <3> QED BY <1>1, <3>2, <3>3 DEF Small, Q
  <2>3. CASE ~(i % (2 * len) < len)
    <3>1. i - len \in Index
      BY <2>3, LayerIndex
    <3>2. Small(fqmul(zeta, r[i]))
      <4> HIDE DEF zeta
      <4> QED BY <1>1, <2>1, FqmulSmall
    <3>3. NttLayer(r, len)[i] = r[i - len] - fqmul(zeta, r[i])
      BY <2>3 DEF NttLayer
    <3> QED BY <1>1, <3>1, <3>2, <3>3 DEF Small, Q
  <2> QED BY <2>2, <2>3
<1>3. NttLayer(r, len) \in [Index -> Int]
  BY <1>2 DEF NttLayer
<1> QED BY <1>2, <1>3, PolyRange DEF Q

\* invntt brings every coefficient back to at most Q in every layer.
LEMMA InvLayerRange ==
  ASSUME NEW len \in Layers, NEW r \in Poly(-Q, Q)
  PROVE  InvLayer(r, len) \in Poly(-Q, Q)
<1>1. r \in [Index -> Int] /\ \A i \in Index : -Q <= r[i] /\ r[i] <= Q
  BY PolyRange DEF Q
<1>2. ASSUME NEW i \in Index
      PROVE  Small(InvLayer(r, len)[i])
  <2> DEFINE zeta == Zeta(256 \div len - 1 - i \div (2 * len))
  <2>1. zeta \in Int /\ -1659 <= zeta /\ zeta <= 1659
    BY LayerIndex, ZetaRange
  <2>2. CASE i % (2 * len) < len
    <3>1. i + len \in Index
      BY <2>2, LayerIndex
    <3>2. InvLayer(r, len)[i] = barrett_reduce(r[i] + r[i + len])
      BY <2>2 DEF InvLayer
    <3> QED BY <1>1, <3>1, <3>2, BarrettSmall DEF Small, Q
  <2>3. CASE ~(i % (2 * len) < len)
    <3>1. i - len \in Index
      BY <2>3, LayerIndex
    <3>2. Small(fqmul(zeta, r[i] - r[i - len]))
      <4> HIDE DEF zeta
      <4> QED BY <1>1, <2>1, <3>1, FqmulSmall DEF Q
    <3>3. InvLayer(r, len)[i] = fqmul(zeta, r[i] - r[i - len])
      BY <2>3 DEF InvLayer
    <3> QED BY <3>2, <3>3
  <2> QED BY <2>2, <2>3
<1>3. InvLayer(r, len) \in [Index -> Int]
  BY <1>2 DEF InvLayer, Small
<1> QED BY <1>2, <1>3, PolyRange DEF Q, Small

LEMMA InvScaleRange ==
  ASSUME NEW r \in Poly(-Q, Q)
  PROVE  InvScale(r) \in Poly(-Q, Q)
<1>1. r \in [Index -> Int] /\ \A i \in Index : -Q <= r[i] /\ r[i] <= Q
  BY PolyRange DEF Q
<1>2. ASSUME NEW i \in Index PROVE Small(fqmul(r[i], 1441))
  BY <1>1, MontgomerySmall DEF fqmul, Reducible, Q
<1> QED BY <1>2, PolyRange DEF InvScale, Small, Q

(***************************************************************************)
(* Polynomials                                                             *)
(***************************************************************************)
LEMMA BaseMulRange ==
  ASSUME NEW a \in [Index -> Int], NEW b \in [Index -> Int], Multipliable(a, b)
  PROVE  BaseMul(a, b) \in Poly(-(2 * Q), 2 * Q)
<1>1. ASSUME NEW i \in Index PROVE Partner(i) \in Index /\ Partner(i) = IF i % 2 = 0 THEN i + 1 ELSE i - 1
  BY IndexRange DEF Partner
<1>2. ASSUME NEW i \in Index
      PROVE  BaseMul(a, b)[i] \in Int /\ -(2 * Q) <= BaseMul(a, b)[i] /\ BaseMul(a, b)[i] <= 2 * Q
  <2>1. CASE i % 2 = 0
    <3>1. i + 1 \in Index /\ Partner(i + 1) = i /\ Partner(i) = i + 1
      BY <2>1, IndexRange DEF Partner
    <3>2. Small(fqmul(a[i], b[i])) /\ Small(fqmul(a[i + 1], b[i + 1]))
      BY <3>1, MontgomerySmall DEF Multipliable, fqmul
    <3>3. PairZeta(i) \in Int /\ -1659 <= PairZeta(i) /\ PairZeta(i) <= 1659
      BY ZetaRange, IndexRange DEF PairZeta
    <3>4. Small(fqmul(fqmul(a[i + 1], b[i + 1]), PairZeta(i)))
      <4> DEFINE x == fqmul(a[i + 1], b[i + 1])
      <4>1. Small(x)
        BY <3>2
      <4> HIDE DEF x
      <4>2. -(Q * 1659) <= x * PairZeta(i) /\ x * PairZeta(i) <= Q * 1659
        BY <4>1, <3>3, ProductRange DEF Small, Q
      <4>3. x * PairZeta(i) \in Int /\ Reducible(x * PairZeta(i))
        BY <4>1, <4>2, <3>3 DEF Reducible, Q, Small
      <4>4. Small(fqmul(x, PairZeta(i)))
        BY <4>3, MontgomerySmall DEF fqmul
      <4> QED BY <4>4 DEF x
    <3>5. BaseMul(a, b)[i] = fqmul(fqmul(a[i + 1], b[i + 1]), PairZeta(i)) + fqmul(a[i], b[i])
      BY <2>1 DEF BaseMul
    <3> QED BY <3>2, <3>4, <3>5 DEF Small, Q
  <2>2. CASE i % 2 # 0
    <3>1. i - 1 \in Index /\ Partner(i - 1) = i /\ Partner(i) = i - 1
      BY <2>2, IndexRange DEF Partner
    <3>2. Small(fqmul(a[i - 1], b[i])) /\ Small(fqmul(a[i], b[i - 1]))
      BY <3>1, MontgomerySmall DEF Multipliable, fqmul
    <3>3. BaseMul(a, b)[i] = fqmul(a[i - 1], b[i]) + fqmul(a[i], b[i - 1])
      BY <2>2 DEF BaseMul
    <3> QED BY <3>2, <3>3 DEF Small, Q
  <2> QED BY <2>1, <2>2
<1>3. BaseMul(a, b) \in [Index -> Int]
  BY <1>2 DEF BaseMul
<1> QED BY <1>2, <1>3, PolyRange DEF Q

\* poly_reduce and poly_tomont bring any word back to Q.
LEMMA ReduceRange ==
  ASSUME NEW r \in Poly(-32768, 32767)
  PROVE  poly_reduce(r) \in Poly(0, Q) /\ poly_tomont(r) \in Poly(-Q, Q)
<1>1. r \in [Index -> Int] /\ \A i \in Index : -32768 <= r[i] /\ r[i] <= 32767
  BY PolyRange
<1>2. ASSUME NEW i \in Index PROVE Small(montgomery_reduce(r[i] * 1353))
  BY <1>1, MontgomerySmall DEF Reducible, Q
<1>3. poly_tomont(r) \in Poly(-Q, Q)
  BY <1>2, PolyRange DEF poly_tomont, Small, Q
<1>4. poly_reduce(r) \in Poly(0, Q)
  BY <1>1, BarrettSmall, PolyRange DEF poly_reduce, Q
<1> QED BY <1>3, <1>4

\* Sums and differences have the sum of the bounds.
LEMMA AddRange ==
  ASSUME NEW b \in Nat, NEW c \in Nat, NEW r \in Poly(-b, b), NEW s \in Poly(-c, c)
  PROVE  poly_add(r, s) \in Poly(-(b + c), b + c) /\ poly_sub(r, s) \in Poly(-(b + c), b + c)
<1>1. /\ r \in [Index -> Int] /\ \A i \in Index : -b <= r[i] /\ r[i] <= b
      /\ s \in [Index -> Int] /\ \A i \in Index : -c <= s[i] /\ s[i] <= c
  BY PolyRange
<1>2. poly_add(r, s) \in Poly(-(b + c), b + c)
  BY <1>1, PolyRange DEF poly_add
<1>3. poly_sub(r, s) \in Poly(-(b + c), b + c)
  BY <1>1, PolyRange DEF poly_sub
<1> QED BY <1>2, <1>3

\* What is packed are 12-bit fields below Q, and compressed fields of ten and four bits.
LEMMA FieldRange ==
  ASSUME NEW r \in [Index -> Int]
  PROVE  /\ ToFields(r) \in Poly(0, Q - 1)
         /\ poly_compress(r, 1024) \in Poly(0, 1023)
         /\ poly_compress(r, 16) \in Poly(0, 15)
<1>1. ToFields(r) \in Poly(0, Q - 1)
  BY PolyRange DEF ToFields, Q
<1>2. ASSUME NEW i \in Index, NEW steps \in {16, 1024}
      PROVE  /\ poly_compress(r, steps)[i] \in Int
             /\ 0 <= poly_compress(r, steps)[i] /\ poly_compress(r, steps)[i] <= steps - 1
  <2> DEFINE t == IF r[i] < 0 THEN r[i] + Q ELSE r[i]
  <2>1. t \in Int
    BY DEF Q
  <2>2. poly_compress(r, steps)[i] = ((t * steps + 1664) \div Q) % steps
    BY DEF poly_compress
  <2> HIDE DEF t
  <2>3. CASE steps = 16
    BY <2>1, <2>2, <2>3 DEF Q
  <2>4. CASE steps = 1024
    BY <2>1, <2>2, <2>4 DEF Q
  <2> QED BY <2>3, <2>4
<1>3. poly_compress(r, 1024) \in Poly(0, 1023)
  BY <1>2, PolyRange DEF poly_compress
<1>4. poly_compress(r, 16) \in Poly(0, 15)
  BY <1>2, PolyRange DEF poly_compress
<1> QED BY <1>1, <1>3, <1>4

LEMMA DecompressRange ==
  /\ \A c \in Poly(0, 1023) : poly_decompress(c, 1024) \in Poly(0, Q)
  /\ \A c \in Poly(0, 15) : poly_decompress(c, 16) \in Poly(0, Q)
<1>1. ASSUME NEW c \in Poly(0, 1023) PROVE poly_decompress(c, 1024) \in Poly(0, Q)
  <2>1. c \in [Index -> Int] /\ \A i \in Index : 0 <= c[i] /\ c[i] <= 1023
    BY PolyRange
  <2> QED BY <2>1, PolyRange DEF poly_decompress, Q
<1>2. ASSUME NEW c \in Poly(0, 15) PROVE poly_decompress(c, 16) \in Poly(0, Q)
  <2>1. c \in [Index -> Int] /\ \A i \in Index : 0 <= c[i] /\ c[i] <= 15
    BY PolyRange
  <2> QED BY <2>1, PolyRange DEF poly_decompress, Q
<1> QED BY <1>1, <1>2

LEMMA MessageRange ==
  ASSUME NEW msg \in Poly(0, 1)
  PROVE  poly_frommsg(msg) \in Poly(-1665, 1665)
<1>1. msg \in [Index -> Int] /\ \A i \in Index : 0 <= msg[i] /\ msg[i] <= 1
  BY PolyRange
<1> QED BY <1>1, PolyRange DEF poly_frommsg

(***************************************************************************)
(* The invariant: the range of every polynomial at every step.  A bound     *)
(* depends on how many layers or products have been done.                   *)
(***************************************************************************)
Noise(n) == Poly(-(n * Q + 3), n * Q + 3)
Text(n)  == Poly(-(n * Q + Q), n * Q + Q)
Sums(n)  == Poly(-(2 * n * Q), 2 * n * Q)
Reduced  == Poly(-Q, Q)
Fields   == Poly(0, Q - 1)
Texts    == [u : [Vec -> Poly(0, 1023)], v : Poly(0, 15)]

KeySteps == {"key_ntt", "key_mul", "key_add", "key_pack"}
EncSteps == {"enc_ntt", "enc_mul", "enc_inv", "enc_scale", "enc_add", "enc_pack"}
DecSteps == {"dec_unpack", "dec_ntt", "dec_mul", "dec_inv", "dec_scale", "dec_sub", "dec_msg",
             "done"}

LayerSteps   == {"key_ntt", "enc_ntt", "enc_inv", "dec_ntt", "dec_inv"}
ProductSteps == {"key_mul", "enc_mul", "dec_mul"}

TurnRange ==
  /\ step \in KeySteps \cup EncSteps \cup DecSteps
  /\ turn \in Nat
  /\ step \in LayerSteps => turn <= 6
  /\ step \in ProductSteps => turn <= K
  /\ step \notin LayerSteps \cup ProductSteps => turn = 0

KeyRange ==
  /\ matrix \in [Vec -> [Vec -> Fields]]
  /\ sk \in [Vec -> Fields]
  /\ step = "key_ntt" => {skpv, err} \subseteq [Vec -> Noise(turn)]
  /\ step # "key_ntt" => {skpv, err} \subseteq [Vec -> Noise(7)]

PublicRange ==
  /\ step = "key_ntt" => pkpv \in [Vec -> Sums(0)]
  /\ step = "key_mul" => pkpv \in [Vec -> Sums(turn)]
  /\ step = "key_add" => pkpv \in [Vec -> Reduced]
  /\ step = "key_pack" => pkpv \in [Vec -> Noise(8)]
  /\ step \in EncSteps \cup DecSteps => pkpv \in [Vec -> Poly(0, 4095)]

CoinRange ==
  /\ coins \in Coins
  /\ step \in KeySteps => sp \in [Vec -> Noise(0)]
  /\ step = "enc_ntt" => sp \in [Vec -> Noise(turn)]
  /\ step \in (EncSteps \ {"enc_ntt"}) \cup DecSteps => sp \in [Vec -> Noise(7)]

CipherRange ==
  /\ ct \in Texts
  /\ step \in KeySteps \cup {"enc_ntt"} => bp \in [Vec -> Sums(0)] /\ v \in Sums(0)
  /\ step = "enc_mul" => bp \in [Vec -> Sums(turn)] /\ v \in Sums(turn)
  /\ step \in {"enc_inv", "enc_scale", "enc_add"} => bp \in [Vec -> Reduced] /\ v \in Reduced
  /\ step \in {"enc_pack", "dec_unpack"} => bp \in [Vec -> Sums(1)]
  /\ step = "dec_ntt" => bp \in [Vec -> Text(turn)]
  /\ step \in DecSteps \ {"dec_unpack", "dec_ntt"} => bp \in [Vec -> Text(7)]
  /\ step \in {"enc_pack"} \cup DecSteps => v \in Sums(1)

PlainRange ==
  /\ step \in KeySteps \cup EncSteps \cup {"dec_unpack", "dec_ntt"} => mp \in Sums(0)
  /\ step = "dec_mul" => mp \in Sums(turn)
  /\ step \in {"dec_inv", "dec_scale", "dec_sub"} => mp \in Reduced
  /\ step \in {"dec_msg", "done"} => mp \in Sums(2)

Ranges == TurnRange /\ KeyRange /\ PublicRange /\ CoinRange /\ CipherRange /\ PlainRange

(***************************************************************************)
(* How the named ranges lie in each other                                  *)
(***************************************************************************)
LEMMA Included ==
  /\ \A n \in Nat : n <= 8 => Noise(n) \subseteq Word
  /\ \A n \in Nat : n <= 7 => Text(n) \subseteq Word
  /\ \A n \in Nat : n <= 3 => Sums(n) \subseteq Word
  /\ Reduced \subseteq Word /\ Reduced \subseteq Summable /\ Poly(0, 4095) \subseteq Word
  /\ Fields \subseteq Poly(0, 4095) /\ Poly(0, Q) \subseteq Reduced
  /\ Poly(0, Q) \subseteq Sums(1) /\ Poly(0, Q) \subseteq Text(0)
<1>1. ASSUME NEW n \in Nat, n <= 8 PROVE Noise(n) \subseteq Word
  <2> DEFINE b == n * Q + 3
  <2>1. b \in Int /\ -b \in Int /\ -32768 <= -b /\ b <= 32767
    BY <1>1 DEF Q
  <2> HIDE DEF b
  <2>2. Poly(-b, b) \subseteq Poly(-32768, 32767)
    BY <2>1, Wider
  <2> QED BY <2>2 DEF Noise, Word, b
<1>2. ASSUME NEW n \in Nat, n <= 7 PROVE Text(n) \subseteq Word
  <2> DEFINE b == n * Q + Q
  <2>1. b \in Int /\ -b \in Int /\ -32768 <= -b /\ b <= 32767
    BY <1>2 DEF Q
  <2> HIDE DEF b
  <2>2. Poly(-b, b) \subseteq Poly(-32768, 32767)
    BY <2>1, Wider
  <2> QED BY <2>2 DEF Text, Word, b
<1>3. ASSUME NEW n \in Nat, n <= 3 PROVE Sums(n) \subseteq Word
  <2> DEFINE b == 2 * n * Q
  <2>1. b \in Int /\ -b \in Int /\ -32768 <= -b /\ b <= 32767
    BY <1>3 DEF Q
  <2> HIDE DEF b
  <2>2. Poly(-b, b) \subseteq Poly(-32768, 32767)
    BY <2>1, Wider
  <2> QED BY <2>2 DEF Sums, Word, b
<1>4. Reduced \subseteq Word /\ Reduced \subseteq Summable /\ Poly(0, 4095) \subseteq Word
  BY Wider DEF Reduced, Word, Summable, Q
<1>5. Fields \subseteq Poly(0, 4095) /\ Poly(0, Q) \subseteq Reduced
  BY Wider DEF Fields, Reduced, Q
<1>6. Poly(0, Q) \subseteq Sums(1) /\ Poly(0, Q) \subseteq Text(0)
  <2>1. Poly(0, Q) \subseteq Poly(-(2 * Q), 2 * Q) /\ Poly(0, Q) \subseteq Poly(-Q, Q)
    BY Wider DEF Q
  <2>2. 2 * 1 * Q = 2 * Q /\ 0 * Q + Q = Q
    BY DEF Q
  <2> QED BY <2>1, <2>2 DEF Sums, Text
<1> QED BY <1>1, <1>2, <1>3, <1>4, <1>5, <1>6

LEMMA ZeroRange ==
  /\ \A n \in Nat : Zero \in Sums(n)
  /\ Zero \in Fields /\ Zero \in Poly(0, 1023) /\ Zero \in Poly(0, 15)
<1>1. ASSUME NEW n \in Nat PROVE Zero \in Sums(n)
  <2> DEFINE b == 2 * n * Q
  <2>1. b \in Int /\ -b \in Int /\ -b <= 0 /\ 0 <= b
    BY DEF Q
  <2> HIDE DEF b
  <2>2. Zero \in Poly(-b, b)
    BY <2>1, PolyRange DEF Zero
  <2> QED BY <2>2 DEF Sums, b
<1>2. Zero \in Fields /\ Zero \in Poly(0, 1023) /\ Zero \in Poly(0, 15)
  BY PolyRange DEF Fields, Zero, Q
<1> QED BY <1>1, <1>2

LEMMA PolyInt == \A lo, hi \in Int : Poly(lo, hi) \subseteq [Index -> Int]
BY PolyRange

(***************************************************************************)
(* One step on vectors                                                     *)
(***************************************************************************)
LEMMA LayerOfTurn ==
  turn \in Nat /\ turn <= 6 => Len7[turn + 1] \in Layers /\ Len7[7 - turn] \in Layers
BY DEF Len7, Layers

LEMMA NttOfNoise ==
  ASSUME turn \in Nat, turn <= 6, NEW r \in [Vec -> Noise(turn)]
  PROVE  VecNtt(r) \in [Vec -> Noise(turn + 1)]
<1>1. ASSUME NEW i \in Vec PROVE NttLayer(r[i], Len7[turn + 1]) \in Noise(turn + 1)
  <2> DEFINE b == turn * Q + 3
  <2>1. b \in Nat /\ b <= 32767 /\ b + Q = (turn + 1) * Q + 3
    BY DEF Q
  <2>2. r[i] \in Poly(-b, b)
    BY DEF Noise
  <2> HIDE DEF b
  <2>3. NttLayer(r[i], Len7[turn + 1]) \in Poly(-(b + Q), b + Q)
    BY <2>1, <2>2, LayerOfTurn, NttLayerRange
  <2> QED BY <2>1, <2>3 DEF Noise
<1> QED BY <1>1 DEF VecNtt

LEMMA NttOfText ==
  ASSUME turn \in Nat, turn <= 6, NEW r \in [Vec -> Text(turn)]
  PROVE  VecNtt(r) \in [Vec -> Text(turn + 1)]
<1>1. ASSUME NEW i \in Vec PROVE NttLayer(r[i], Len7[turn + 1]) \in Text(turn + 1)
  <2> DEFINE b == turn * Q + Q
  <2>1. b \in Nat /\ b <= 32767 /\ b + Q = (turn + 1) * Q + Q
    BY DEF Q
  <2>2. r[i] \in Poly(-b, b)
    BY DEF Text
  <2> HIDE DEF b
  <2>3. NttLayer(r[i], Len7[turn + 1]) \in Poly(-(b + Q), b + Q)
    BY <2>1, <2>2, LayerOfTurn, NttLayerRange
  <2> QED BY <2>1, <2>3 DEF Text
<1> QED BY <1>1 DEF VecNtt

\* A product more, or the reduction of the sum of K products.
LEMMA AccumulateRange ==
  ASSUME turn \in Nat, turn <= K, NEW r \in Sums(turn), NEW a, NEW b,
         \A j \in Vec : /\ a[j] \in [Index -> Int] /\ b[j] \in [Index -> Int]
                        /\ Multipliable(a[j], b[j])
  PROVE  /\ turn < K => Accumulate(r, a, b) \in Sums(turn + 1)
         /\ turn = K => Accumulate(r, a, b) \in Reduced
<1>1. K \in Nat /\ K <= 3
  BY DimensionAssumption
<1>2. ASSUME turn < K PROVE Accumulate(r, a, b) \in Sums(turn + 1)
  <2>1. turn + 1 \in Vec
    BY <1>1, <1>2 DEF Vec
  <2> DEFINE p == BaseMul(a[turn + 1], b[turn + 1])
             c == 2 * turn * Q
             d == 2 * Q
  <2>2. p \in Poly(-d, d)
    BY <2>1, BaseMulRange
  <2>3. r \in Poly(-c, c)
    BY DEF Sums
  <2>4. c \in Nat /\ d \in Nat /\ c + d = 2 * (turn + 1) * Q
    BY DEF Q
  <2>5. poly_add(r, p) \in Poly(-(c + d), c + d)
    <3> HIDE DEF c, d, p
    <3> QED BY <2>2, <2>3, <2>4, AddRange
  <2>6. poly_add(r, p) \in Sums(turn + 1)
    <3> HIDE DEF c, d, p
    <3> QED BY <2>4, <2>5 DEF Sums
  <2> QED BY <1>2, <2>6 DEF Accumulate
<1>3. ASSUME turn = K PROVE Accumulate(r, a, b) \in Reduced
  <2>1. r \in Poly(-32768, 32767)
    BY <1>1, <1>3, Included DEF Word
  <2>2. poly_reduce(r) \in Reduced
    BY <2>1, ReduceRange, Included
  <2> QED BY <1>1, <1>3, <2>2 DEF Accumulate
<1> QED BY <1>2, <1>3

\* A field times a transformed coefficient can be reduced.
LEMMA CrossRange ==
  ASSUME NEW a \in [Index -> Int], NEW b \in [Index -> Int],
         \A i, j \in Index : Reducible(a[i] * b[j])
  PROVE  Multipliable(a, b)
<1>1. \A i \in Index : Partner(i) \in Index
  BY IndexRange DEF Partner
<1> QED BY <1>1 DEF Multipliable

LEMMA FieldProducts ==
  /\ \A a \in Poly(0, 4095) : \A b \in Noise(7) :
        a \in [Index -> Int] /\ b \in [Index -> Int] /\ Multipliable(a, b)
  /\ \A a \in Fields : \A b \in Text(7) :
        a \in [Index -> Int] /\ b \in [Index -> Int] /\ Multipliable(a, b)
<1>1. ASSUME NEW a \in Poly(0, 4095), NEW b \in Noise(7)
      PROVE  a \in [Index -> Int] /\ b \in [Index -> Int] /\ Multipliable(a, b)
  <2>1. 7 * Q + 3 = 23306
    BY DEF Q
  <2>2. /\ a \in [Index -> Int] /\ \A i \in Index : 0 <= a[i] /\ a[i] <= 4095
        /\ b \in [Index -> Int] /\ \A i \in Index : -23306 <= b[i] /\ b[i] <= 23306
    BY <2>1, PolyRange DEF Noise
  <2>3. ASSUME NEW i \in Index, NEW j \in Index PROVE Reducible(a[i] * b[j])
    <3> DEFINE p == a[i]  q == b[j]
    <3>1. p \in Int /\ q \in Int /\ 0 <= p /\ p <= 4095 /\ -23306 <= q /\ q <= 23306
      BY <2>2
    <3> HIDE DEF p, q
    <3>2. -(4095 * 23306) <= p * q /\ p * q <= 4095 * 23306
      BY <3>1, ProductRange
    <3>3. Reducible(p * q)
      BY <3>1, <3>2 DEF Reducible, Q
    <3> QED BY <3>3 DEF p, q
  <2> QED BY <2>2, <2>3, CrossRange
<1>2. ASSUME NEW a \in Fields, NEW b \in Text(7)
      PROVE  a \in [Index -> Int] /\ b \in [Index -> Int] /\ Multipliable(a, b)
  <2>1. 7 * Q + Q = 26632 /\ Q - 1 = 3328
    BY DEF Q
  <2>2. /\ a \in [Index -> Int] /\ \A i \in Index : 0 <= a[i] /\ a[i] <= 3328
        /\ b \in [Index -> Int] /\ \A i \in Index : -26632 <= b[i] /\ b[i] <= 26632
    BY <2>1, PolyRange DEF Text, Fields
  <2>3. ASSUME NEW i \in Index, NEW j \in Index PROVE Reducible(a[i] * b[j])
    <3> DEFINE p == a[i]  q == b[j]
    <3>1. p \in Int /\ q \in Int /\ 0 <= p /\ p <= 3328 /\ -26632 <= q /\ q <= 26632
      BY <2>2
    <3> HIDE DEF p, q
    <3>2. -(3328 * 26632) <= p * q /\ p * q <= 3328 * 26632
      BY <3>1, ProductRange
    <3>3. Reducible(p * q)
      BY <3>1, <3>2 DEF Reducible, Q
    <3> QED BY <3>3 DEF p, q
  <2> QED BY <2>2, <2>3, CrossRange
<1> QED BY <1>1, <1>2

(***************************************************************************)
(* The invariant holds                                                     *)
(***************************************************************************)
LEMMA NoiseZero == Noise(0) = Poly(-3, 3)
<1>1. 0 * Q + 3 = 3
  BY DEF Q
<1> QED BY <1>1 DEF Noise

LEMMA RangesInit == PkeInit => Ranges
<1> SUFFICES ASSUME PkeInit PROVE Ranges
  OBVIOUS
<1> USE DEF PkeInit
<1>1. TurnRange
  BY DEF TurnRange, KeySteps, LayerSteps, ProductSteps
<1>2. ZeroVec \in [Vec -> Sums(0)] /\ ZeroVec \in [Vec -> Fields]
      /\ ZeroVec \in [Vec -> Poly(0, 1023)]
  BY ZeroRange DEF ZeroVec
<1>3. KeyRange
  <2> PICK seed \in KeySeeds : matrix = seed.a /\ skpv = seed.s /\ err = seed.e
    OBVIOUS
  <2>1. /\ seed.a \in [Vec -> [Vec -> Fields]]
        /\ seed.s \in [Vec -> Noise(0)] /\ seed.e \in [Vec -> Noise(0)]
    BY PkeAssumption, NoiseZero DEF Fields
  <2> QED BY <1>2, <2>1 DEF KeyRange
<1>4. PublicRange
  BY <1>2 DEF PublicRange, EncSteps, DecSteps
<1>5. CoinRange
  <2> PICK c \in Coins : coins = c /\ sp = c.sp
    OBVIOUS
  <2>1. c.sp \in [Vec -> Noise(0)]
    BY PkeAssumption, NoiseZero
  <2> QED BY <2>1 DEF CoinRange, EncSteps, DecSteps
<1>6. CipherRange
  BY <1>2, ZeroRange DEF CipherRange, Texts, EncSteps, DecSteps, KeySteps
<1>7. PlainRange
  BY <1>2, ZeroRange DEF PlainRange
<1> QED BY <1>1, <1>3, <1>4, <1>5, <1>6, <1>7 DEF Ranges

LEMMA WordsFromRanges == Ranges => WordsHold
<1> SUFFICES ASSUME Ranges PROVE WordsHold
  OBVIOUS
<1> USE DEF Ranges
<1>0. K \in Nat /\ K <= 3
  BY DimensionAssumption
<1>1. {skpv, err, pkpv, sp, bp} \subseteq [Vec -> Word]
  <2>1. skpv \in [Vec -> Word] /\ err \in [Vec -> Word]
    BY Included DEF KeyRange, TurnRange, LayerSteps
  <2>2. pkpv \in [Vec -> Word]
    BY <1>0, Included DEF PublicRange, TurnRange, ProductSteps, KeySteps
  <2>3. sp \in [Vec -> Word]
    BY Included DEF CoinRange, TurnRange, LayerSteps, EncSteps
  <2>4. bp \in [Vec -> Word]
    BY <1>0, Included DEF CipherRange, TurnRange, LayerSteps, ProductSteps, EncSteps, DecSteps
  <2> QED BY <2>1, <2>2, <2>3, <2>4
<1>2. {v, mp} \subseteq Word
  <2>1. v \in Word
    BY <1>0, Included DEF CipherRange, TurnRange, ProductSteps, EncSteps
  <2>2. mp \in Word
    BY <1>0, Included DEF PlainRange, TurnRange, ProductSteps, DecSteps
  <2> QED BY <2>1, <2>2
<1>3. step = "key_mul" => \A i, j \in Vec : Multipliable(matrix[i][j], skpv[j])
  BY FieldProducts, Included DEF KeyRange
<1>4. step = "enc_mul" => \A i, j \in Vec : /\ Multipliable(matrix[j][i], sp[j])
                                            /\ Multipliable(pkpv[j], sp[j])
  BY FieldProducts, Included DEF KeyRange, PublicRange, CoinRange, EncSteps
<1>5. step = "dec_mul" => \A j \in Vec : Multipliable(sk[j], bp[j])
  BY FieldProducts DEF KeyRange, CipherRange, DecSteps
<1>6. step = "enc_inv" => bp \in [Vec -> Summable] /\ v \in Summable
  BY Included DEF CipherRange
<1>7. step = "dec_inv" => mp \in Summable
  BY Included DEF PlainRange
<1>8. \A p \in Word : WordSized(p)
  BY WordsFit
<1>9. \A r \in {skpv, err, pkpv, sp, bp} : \A i \in DOMAIN r : WordSized(r[i])
  <2> SUFFICES ASSUME NEW r \in {skpv, err, pkpv, sp, bp}, NEW i \in DOMAIN r PROVE WordSized(r[i])
    OBVIOUS
  <2>1. r[i] \in Word
    BY <1>1
  <2> QED BY <2>1, <1>8
<1>10. WordSized(v) /\ WordSized(mp)
  BY <1>2, <1>8
<1> QED BY <1>9, <1>10, <1>3, <1>4, <1>5, <1>6, <1>7 DEF WordsHold

LEMMA SumsOne ==
  /\ Poly(-(Q + 2), Q + 2) \subseteq Sums(1) /\ Poly(-(Q + 1667), Q + 1667) \subseteq Sums(1)
  /\ Sums(1) = Poly(-(2 * Q), 2 * Q)
<1>1. 2 * 1 * Q = 2 * Q
  BY DEF Q
<1>2. Sums(1) = Poly(-(2 * Q), 2 * Q)
  BY <1>1 DEF Sums
<1>3. \A b \in Nat : b <= 2 * Q => Poly(-b, b) \subseteq Poly(-(2 * Q), 2 * Q)
  BY Wider DEF Q
<1> QED BY <1>2, <1>3 DEF Q

LEMMA FieldOfWord == \A r \in Word : ToFields(r) \in Fields
BY PolyInt, FieldRange DEF Word, Fields

LEMMA FieldOfReduced == \A r \in Word : ToFields(poly_reduce(r)) \in Fields
BY PolyInt, ReduceRange, FieldRange DEF Word, Fields, Q

LEMMA CompressOfWord ==
  \A r \in Word : /\ poly_compress(poly_reduce(r), 1024) \in Poly(0, 1023)
                  /\ poly_compress(poly_reduce(r), 16) \in Poly(0, 15)
BY PolyInt, ReduceRange, FieldRange DEF Word, Q

LEMMA InvOfReduced ==
  ASSUME turn \in Nat, turn <= 6, NEW r \in [Vec -> Reduced]
  PROVE  VecInv(r) \in [Vec -> Reduced]
BY LayerOfTurn, InvLayerRange DEF VecInv, Reduced

LEMMA RangesStep == Ranges /\ [PkeNext]_pkeVars => Ranges'
<1> SUFFICES ASSUME Ranges, [PkeNext]_pkeVars PROVE Ranges'
  OBVIOUS
<1> USE DEF Ranges, key, KeySteps, EncSteps, DecSteps, LayerSteps, ProductSteps
<1>0. K \in Nat /\ 2 <= K /\ K <= 3
  BY DimensionAssumption
<1>1. CASE KeyNtt
  <2> USE <1>1 DEF KeyNtt, Turn, Once
  <2>1. TurnRange'
    BY <1>0 DEF TurnRange
  <2>2. KeyRange'
    BY NttOfNoise DEF KeyRange, TurnRange
  <2>3. PublicRange'
    BY DEF PublicRange, TurnRange
  <2>4. CoinRange' /\ CipherRange' /\ PlainRange'
    BY DEF TurnRange, CoinRange, CipherRange, PlainRange
  <2> QED BY <2>1, <2>2, <2>3, <2>4
<1>2. CASE KeyMul
  <2> USE <1>2 DEF KeyMul, Turn, Once
  <2>1. TurnRange'
    BY <1>0 DEF TurnRange
  <2>2. ASSUME NEW i \in Vec
        PROVE  /\ turn < K => Accumulate(pkpv[i], matrix[i], skpv) \in Sums(turn + 1)
               /\ turn = K => Accumulate(pkpv[i], matrix[i], skpv) \in Reduced
    <3>1. turn \in Nat /\ turn <= K /\ pkpv[i] \in Sums(turn)
      BY DEF TurnRange, PublicRange
    <3>2. \A j \in Vec : /\ matrix[i][j] \in [Index -> Int] /\ skpv[j] \in [Index -> Int]
                          /\ Multipliable(matrix[i][j], skpv[j])
      BY FieldProducts, Included DEF KeyRange
    <3> QED BY <3>1, <3>2, AccumulateRange
  <2>3. PublicRange'
    BY <1>0, <2>2 DEF PublicRange, TurnRange
  <2>4. KeyRange' /\ CoinRange' /\ CipherRange' /\ PlainRange'
    BY DEF TurnRange, KeyRange, CoinRange, CipherRange, PlainRange
  <2> QED BY <2>1, <2>3, <2>4
<1>3. CASE KeyAdd
  <2> USE <1>3 DEF KeyAdd, Turn, Once
  <2>1. TurnRange'
    BY <1>0 DEF TurnRange
  <2>2. ASSUME NEW i \in Vec PROVE poly_add(poly_tomont(pkpv[i]), err[i]) \in Noise(8)
    <3>1. poly_tomont(pkpv[i]) \in Poly(-Q, Q)
      BY ReduceRange, Included DEF PublicRange, Word
    <3> DEFINE b == 7 * Q + 3
    <3>2. err[i] \in Poly(-b, b)
      BY DEF KeyRange, Noise
    <3>3. Q \in Nat /\ b \in Nat /\ Q + b = 8 * Q + 3
      BY DEF Q
    <3> HIDE DEF b
    <3>4. poly_add(poly_tomont(pkpv[i]), err[i]) \in Poly(-(Q + b), Q + b)
      BY <3>1, <3>2, <3>3, AddRange
    <3> QED BY <3>3, <3>4 DEF Noise
  <2>3. PublicRange'
    BY <2>2 DEF PublicRange
  <2>4. KeyRange' /\ CoinRange' /\ CipherRange' /\ PlainRange'
    BY DEF TurnRange, KeyRange, CoinRange, CipherRange, PlainRange
  <2> QED BY <2>1, <2>3, <2>4
<1>4. CASE KeyPack
  <2> USE <1>4 DEF KeyPack, Turn, Once
  <2>1. TurnRange'
    BY <1>0 DEF TurnRange
  <2>2. KeyRange'
    BY FieldOfWord, Included DEF KeyRange, Fields
  <2>3. PublicRange'
    <3>1. \A i \in Vec : ToFields(poly_reduce(pkpv[i])) \in Poly(0, 4095)
      BY FieldOfReduced, Included DEF PublicRange
    <3>2. PICK peer \in PeerKeys \cup {ZeroVec} :
            pkpv' = IF own' THEN [i \in Vec |-> ToFields(poly_reduce(pkpv[i]))] ELSE peer
      OBVIOUS
    <3>3. peer \in [Vec -> Poly(0, 4095)]
      BY PkeAssumption, ZeroRange, Included DEF ZeroVec
    <3>4. pkpv' \in [Vec -> Poly(0, 4095)]
      BY <3>1, <3>2, <3>3
    <3> QED BY <3>4 DEF PublicRange
  <2>4. CoinRange' /\ CipherRange' /\ PlainRange'
    BY DEF TurnRange, CoinRange, CipherRange, PlainRange
  <2> QED BY <2>1, <2>2, <2>3, <2>4
<1>5. CASE EncNtt
  <2> USE <1>5 DEF EncNtt, Turn, Once
  <2>1. TurnRange'
    BY <1>0 DEF TurnRange
  <2>2. CoinRange'
    BY NttOfNoise DEF CoinRange, TurnRange
  <2>3. CipherRange'
    BY DEF CipherRange, TurnRange
  <2>4. KeyRange' /\ PublicRange' /\ PlainRange'
    BY DEF TurnRange, KeyRange, PublicRange, PlainRange
  <2> QED BY <2>1, <2>2, <2>3, <2>4
<1>6. CASE EncMul
  <2> USE <1>6 DEF EncMul, Turn, Once
  <2>1. TurnRange'
    BY <1>0 DEF TurnRange
  <2>2. ASSUME NEW i \in Vec
        PROVE  LET a == [j \in Vec |-> matrix[j][i]]
               IN  /\ turn < K => Accumulate(bp[i], a, sp) \in Sums(turn + 1)
                   /\ turn = K => Accumulate(bp[i], a, sp) \in Reduced
    <3> DEFINE a == [j \in Vec |-> matrix[j][i]]
    <3>1. turn \in Nat /\ turn <= K /\ bp[i] \in Sums(turn)
      BY DEF TurnRange, CipherRange
    <3>2. \A j \in Vec : /\ a[j] \in [Index -> Int] /\ sp[j] \in [Index -> Int]
                          /\ Multipliable(a[j], sp[j])
      BY FieldProducts, Included DEF KeyRange, CoinRange
    <3> HIDE DEF a
    <3>3. /\ turn < K => Accumulate(bp[i], a, sp) \in Sums(turn + 1)
          /\ turn = K => Accumulate(bp[i], a, sp) \in Reduced
      BY <3>1, <3>2, AccumulateRange
    <3> QED BY <3>3 DEF a
  <2>3. /\ turn < K => Accumulate(v, pkpv, sp) \in Sums(turn + 1)
        /\ turn = K => Accumulate(v, pkpv, sp) \in Reduced
    <3>1. turn \in Nat /\ turn <= K /\ v \in Sums(turn)
      BY DEF TurnRange, CipherRange
    <3>2. \A j \in Vec : /\ pkpv[j] \in [Index -> Int] /\ sp[j] \in [Index -> Int]
                          /\ Multipliable(pkpv[j], sp[j])
      BY FieldProducts DEF PublicRange, CoinRange
    <3> QED BY <3>1, <3>2, AccumulateRange
  <2>4. CipherRange'
    BY <1>0, <2>2, <2>3 DEF CipherRange, TurnRange
  <2>5. KeyRange' /\ PublicRange' /\ CoinRange' /\ PlainRange'
    BY DEF TurnRange, KeyRange, PublicRange, CoinRange, PlainRange
  <2> QED BY <2>1, <2>4, <2>5
<1>7. CASE EncInv
  <2> USE <1>7 DEF EncInv, Turn, Once
  <2>1. TurnRange'
    BY <1>0 DEF TurnRange
  <2>2. CipherRange'
    BY InvOfReduced, LayerOfTurn, InvLayerRange DEF CipherRange, TurnRange, Reduced
  <2>3. KeyRange' /\ PublicRange' /\ CoinRange' /\ PlainRange'
    BY DEF TurnRange, KeyRange, PublicRange, CoinRange, PlainRange
  <2> QED BY <2>1, <2>2, <2>3
<1>8. CASE EncScale
  <2> USE <1>8 DEF EncScale, Turn, Once
  <2>1. TurnRange'
    BY <1>0 DEF TurnRange
  <2>2. CipherRange'
    BY InvScaleRange DEF CipherRange, Reduced
  <2>3. KeyRange' /\ PublicRange' /\ CoinRange' /\ PlainRange'
    BY DEF TurnRange, KeyRange, PublicRange, CoinRange, PlainRange
  <2> QED BY <2>1, <2>2, <2>3
<1>9. CASE EncAdd
  <2> USE <1>9 DEF EncAdd, Turn, Once
  <2>1. TurnRange'
    BY <1>0 DEF TurnRange
  <2>2. ASSUME NEW i \in Vec PROVE poly_add(bp[i], coins.e1[i]) \in Sums(1)
    <3>1. bp[i] \in Poly(-Q, Q) /\ coins.e1[i] \in Poly(-2, 2)
      BY PkeAssumption DEF CipherRange, CoinRange, Reduced
    <3>2. poly_add(bp[i], coins.e1[i]) \in Poly(-(Q + 2), Q + 2)
      BY <3>1, AddRange DEF Q
    <3> QED BY <3>2, SumsOne
  <2>3. poly_add(poly_add(v, coins.e2), poly_frommsg(coins.msg)) \in Sums(1)
    <3>1. v \in Poly(-Q, Q) /\ coins.e2 \in Poly(-2, 2) /\ coins.msg \in Poly(0, 1)
      BY PkeAssumption DEF CipherRange, CoinRange, Reduced
    <3>2. poly_add(v, coins.e2) \in Poly(-(Q + 2), Q + 2)
      BY <3>1, AddRange DEF Q
    <3>3. poly_frommsg(coins.msg) \in Poly(-1665, 1665)
      BY <3>1, MessageRange
    <3>4. poly_add(poly_add(v, coins.e2), poly_frommsg(coins.msg)) \in Poly(-(Q + 1667), Q + 1667)
      BY <3>2, <3>3, AddRange DEF Q
    <3> QED BY <3>4, SumsOne
  <2>4. CipherRange'
    BY <2>2, <2>3 DEF CipherRange
  <2>5. KeyRange' /\ PublicRange' /\ CoinRange' /\ PlainRange'
    BY DEF TurnRange, KeyRange, PublicRange, CoinRange, PlainRange
  <2> QED BY <2>1, <2>4, <2>5
<1>10. CASE EncPack
  <2> USE <1>10 DEF EncPack, Turn, Once
  <2>1. TurnRange'
    BY <1>0 DEF TurnRange
  <2>2. CipherRange'
    <3>1. ct' \in Texts
      BY CompressOfWord, Included DEF CipherRange, Texts
    <3> QED BY <3>1 DEF CipherRange
  <2>3. KeyRange' /\ PublicRange' /\ CoinRange' /\ PlainRange'
    BY DEF TurnRange, KeyRange, PublicRange, CoinRange, PlainRange
  <2> QED BY <2>1, <2>2, <2>3
<1>11. CASE DecUnpack
  <2> USE <1>11 DEF DecUnpack, Turn, Once
  <2>1. TurnRange'
    BY <1>0 DEF TurnRange
  <2>2. CipherRange'
    <3>1. PICK text \in PeerTexts \cup {ct} :
            /\ bp' = [i \in Vec |-> poly_decompress(text.u[i], 1024)]
            /\ v' = poly_decompress(text.v, 16)
      OBVIOUS
    <3>2. text.u \in [Vec -> Poly(0, 1023)] /\ text.v \in Poly(0, 15)
      BY PkeAssumption DEF CipherRange, Texts
    <3>3. bp' \in [Vec -> Text(0)] /\ v' \in Sums(1)
      BY <3>1, <3>2, DecompressRange, Included
    <3> QED BY <3>3 DEF CipherRange, TurnRange
  <2>3. KeyRange' /\ PublicRange' /\ CoinRange' /\ PlainRange'
    BY DEF TurnRange, KeyRange, PublicRange, CoinRange, PlainRange
  <2> QED BY <2>1, <2>2, <2>3
<1>12. CASE DecNtt
  <2> USE <1>12 DEF DecNtt, Turn, Once
  <2>1. TurnRange'
    BY <1>0 DEF TurnRange
  <2>2. CipherRange'
    BY NttOfText DEF CipherRange, TurnRange
  <2>3. PlainRange'
    BY DEF PlainRange, TurnRange
  <2>4. KeyRange' /\ PublicRange' /\ CoinRange'
    BY DEF TurnRange, KeyRange, PublicRange, CoinRange
  <2> QED BY <2>1, <2>2, <2>3, <2>4
<1>13. CASE DecMul
  <2> USE <1>13 DEF DecMul, Turn, Once
  <2>1. TurnRange'
    BY <1>0 DEF TurnRange
  <2>2. /\ turn < K => Accumulate(mp, sk, bp) \in Sums(turn + 1)
        /\ turn = K => Accumulate(mp, sk, bp) \in Reduced
    <3>1. turn \in Nat /\ turn <= K /\ mp \in Sums(turn)
      BY DEF TurnRange, PlainRange
    <3>2. \A j \in Vec : /\ sk[j] \in [Index -> Int] /\ bp[j] \in [Index -> Int]
                          /\ Multipliable(sk[j], bp[j])
      BY FieldProducts DEF KeyRange, CipherRange
    <3> QED BY <3>1, <3>2, AccumulateRange
  <2>3. PlainRange'
    BY <1>0, <2>2 DEF PlainRange, TurnRange
  <2>4. KeyRange' /\ PublicRange' /\ CoinRange' /\ CipherRange'
    BY DEF TurnRange, KeyRange, PublicRange, CoinRange, CipherRange
  <2> QED BY <2>1, <2>3, <2>4
<1>14. CASE DecInv
  <2> USE <1>14 DEF DecInv, Turn, Once
  <2>1. TurnRange'
    BY <1>0 DEF TurnRange
  <2>2. PlainRange'
    BY LayerOfTurn, InvLayerRange DEF PlainRange, TurnRange, Reduced
  <2>3. KeyRange' /\ PublicRange' /\ CoinRange' /\ CipherRange'
    BY DEF TurnRange, KeyRange, PublicRange, CoinRange, CipherRange
  <2> QED BY <2>1, <2>2, <2>3
<1>15. CASE DecScale
  <2> USE <1>15 DEF DecScale, Turn, Once
  <2>1. TurnRange'
    BY <1>0 DEF TurnRange
  <2>2. PlainRange'
    BY InvScaleRange DEF PlainRange, Reduced
  <2>3. KeyRange' /\ PublicRange' /\ CoinRange' /\ CipherRange'
    BY DEF TurnRange, KeyRange, PublicRange, CoinRange, CipherRange
  <2> QED BY <2>1, <2>2, <2>3
<1>16. CASE DecSub
  <2> USE <1>16 DEF DecSub, Turn, Once
  <2>1. TurnRange'
    BY <1>0 DEF TurnRange
  <2>2. poly_sub(v, poly_reduce(mp)) \in Sums(2)
    <3>1. mp \in Poly(-32768, 32767)
      BY Included DEF PlainRange, Word
    <3>2. poly_reduce(mp) \in Poly(-(2 * Q), 2 * Q)
      BY <3>1, ReduceRange, Wider DEF Q
    <3> DEFINE b == 2 * Q
    <3>3. v \in Poly(-b, b)
      BY SumsOne, Wider DEF CipherRange, Sums, Q
    <3>4. b \in Nat /\ b + b = 2 * 2 * Q
      BY DEF Q
    <3>5. poly_reduce(mp) \in Poly(-b, b)
      BY <3>2
    <3> HIDE DEF b
    <3>6. poly_sub(v, poly_reduce(mp)) \in Poly(-(b + b), b + b)
      BY <3>3, <3>4, <3>5, AddRange
    <3> QED BY <3>4, <3>6 DEF Sums
  <2>3. PlainRange'
    BY <2>2 DEF PlainRange
  <2>4. KeyRange' /\ PublicRange' /\ CoinRange' /\ CipherRange'
    BY DEF TurnRange, KeyRange, PublicRange, CoinRange, CipherRange
  <2> QED BY <2>1, <2>3, <2>4
<1>17. CASE DecMsg
  <2> USE <1>17 DEF DecMsg, Turn, Once
  <2>1. TurnRange'
    BY <1>0 DEF TurnRange
  <2>2. PlainRange'
    BY DEF PlainRange
  <2>3. KeyRange' /\ PublicRange' /\ CoinRange' /\ CipherRange'
    BY DEF TurnRange, KeyRange, PublicRange, CoinRange, CipherRange
  <2> QED BY <2>1, <2>2, <2>3
<1>18. CASE UNCHANGED pkeVars
  BY <1>18 DEF pkeVars, TurnRange, KeyRange, PublicRange, CoinRange, CipherRange, PlainRange
<1> QED
  BY <1>1, <1>2, <1>3, <1>4, <1>5, <1>6, <1>7, <1>8, <1>9, <1>10, <1>11, <1>12, <1>13, <1>14,
     <1>15, <1>16, <1>17, <1>18 DEF PkeNext

\* Every value the computation stores fits its 16 bits, and every product can be reduced.
THEOREM WordsSuffice == PkeSpec => []WordsHold
<1>1. PkeSpec => []Ranges
  BY RangesInit, RangesStep, PTL DEF PkeSpec
<1> QED BY <1>1, WordsFromRanges, PTL

(***************************************************************************)
(* The checks of a Dilithium candidate: decompose, for every coefficient   *)
(* that any mask and any products make                                     *)
(***************************************************************************)

\* What w - c * s2 has to be, modulo Q, for its low part to be small: near 0, or in one
\* interval of 23,730 values.
Fits(a) ==
    \/ a % DQ <= GAMMA2 - BETA - 1
    \/ a % DQ >= DQ - (GAMMA2 - BETA - 1)
    \/ 261888 <= a % DQ /\ a % DQ <= 285617

\* How far LowPartBounded fails: of all values of w - c * s2 no more than the fortieth that
\* Fits names passes the check of r0.
RoundingRejects == check \in {"hint", "accepted"} => Fits(w - cs2)

LEMMA CaddqRange ==
  ASSUME NEW x \in Int, -2 * DQ < x, x < 2 * DQ
  PROVE  /\ caddq(x) \in Int /\ -DQ < caddq(x) /\ caddq(x) < 2 * DQ
         /\ caddq(x) % DQ = x % DQ
BY DEF caddq, DQ

\* decompose counts the sixteenths of the range that lie below a and takes GAMMA2 twice for
\* each: that leaves a small low part only next to 0 and in the second sixteenth.
LEMMA SmallLowPart ==
  ASSUME NEW a \in Int, -DQ < a, a < 2 * DQ,
         Magnitude(LowBits(a)) < GAMMA2 - BETA
  PROVE  Fits(a)
<1> DEFINE t == (a + 127) \div 128
           n == t * 1025 + 2097152
           k == n \div 4194304
           h == k % 16
<1>1. t \in Int /\ 128 * t <= a + 127 /\ a + 127 < 128 * t + 128
  OBVIOUS
<1>2. k \in Int /\ 4194304 * k <= n /\ n < 4194304 * k + 4194304
  <2>1. n \in Int
    BY <1>1
  <2> HIDE DEF n
  <2> QED BY <2>1
<1>3. h \in Int /\ 0 <= h /\ h <= 15 /\ (h = k \/ h = k + 16 \/ h = k - 16 \/ h = k - 32)
  <2>1. -16 <= k /\ k <= 33
    BY <1>1, <1>2 DEF DQ
  <2> HIDE DEF k
  <2> QED BY <1>2, <2>1
<1>4. HighBits(a) = h
  BY DEF HighBits
<1> DEFINE a0 == a - h * 2 * GAMMA2
<1>5. LowBits(a) = IF a0 > GAMMA2 - 1 THEN a0 - DQ ELSE a0
  BY <1>4 DEF LowBits
<1> HIDE DEF t, h, k
<1>6. QED
  BY <1>1, <1>2, <1>3, <1>5 DEF Magnitude, Fits, DQ, GAMMA2, BETA

\* A candidate that has passed the check of r0 had a small low part.
Passed ==
  /\ w \in Commitments /\ cs2 \in Products
  /\ check \in {"hint", "accepted"} => Magnitude(LowBits(sub_mod(w, cs2))) < GAMMA2 - BETA

LEMMA CandidateRange == \A x \in Commitments \cup Products : x \in Int /\ -DQ < x /\ x < DQ
<1>1. DQ \in Int
  BY DEF DQ
<1> QED BY <1>1, RoundingAssumption

LEMMA LowPartIsNumber == \A a \in Int : Magnitude(LowBits(a)) \in Int
BY DEF Magnitude, LowBits, HighBits, DQ, GAMMA2

LEMMA PassedInit == RoundInit => Passed
BY DEF RoundInit, Passed

LEMMA PassedStep == Passed /\ [RoundNext]_roundVars => Passed'
<1> SUFFICES ASSUME Passed, [RoundNext]_roundVars PROVE Passed'
  OBVIOUS
<1>1. CASE ZCheck
  BY <1>1 DEF ZCheck, Verdict, Passed, products
<1>2. CASE R0Check
  <2> DEFINE m == Magnitude(LowBits(sub_mod(w, cs2)))
  <2>1. m \in Int
    <3>1. sub_mod(w, cs2) \in Int
      BY CandidateRange DEF Passed, sub_mod, caddq, DQ
    <3> QED BY <3>1, LowPartIsNumber
  <2>2. w' = w /\ cs2' = cs2
    BY <1>2 DEF R0Check, products
  <2>3. check' = IF m >= GAMMA2 - BETA THEN "rejected" ELSE "hint"
    BY <1>2 DEF R0Check, Verdict
  <2>4. check' = "hint" => m < GAMMA2 - BETA
    <3> HIDE DEF m
    <3> QED BY <2>1, <2>3 DEF GAMMA2, BETA
  <2>5. check' # "accepted"
    BY <2>3
  <2> QED BY <2>2, <2>4, <2>5 DEF Passed
<1>3. CASE HintCheck
  BY <1>3 DEF HintCheck, Verdict, Passed, products
<1>4. CASE UNCHANGED roundVars
  BY <1>4 DEF roundVars, Passed
<1> QED BY <1>1, <1>2, <1>3, <1>4 DEF RoundNext

LEMMA PassedFits == Passed => RoundingRejects
<1> SUFFICES ASSUME Passed, check \in {"hint", "accepted"} PROVE Fits(w - cs2)
  BY DEF RoundingRejects
<1> DEFINE x == w - cs2
<1>1. x \in Int /\ -2 * DQ < x /\ x < 2 * DQ
  BY CandidateRange DEF Passed, DQ
<1>2. Magnitude(LowBits(caddq(x))) < GAMMA2 - BETA
  BY DEF Passed, sub_mod
<1> HIDE DEF x
<1>3. Fits(caddq(x))
  BY <1>1, <1>2, CaddqRange, SmallLowPart
<1>4. Fits(x)
  BY <1>1, <1>3, CaddqRange DEF Fits
<1> QED BY <1>4 DEF x

\* The reach of the finding on LowPartBounded: no candidate passes the check of the low part
\* outside the fortieth that Fits names, so none is accepted unless each of its 1024
\* coefficients lies there (dilithium.cpp:50-57).
THEOREM FewCandidatesPass == RoundSpec => []RoundingRejects
<1>1. RoundSpec => []Passed
  BY PassedInit, PassedStep, PTL DEF RoundSpec
<1> QED BY <1>1, PassedFits, PTL

(***************************************************************************)
(* Packing: induction and numbers                                          *)
(***************************************************************************)
\* A set of numbers has a least element.
LEMMA Least ==
  ASSUME NEW T, T \subseteq Nat, T # {}
  PROVE  \E x \in T : \A x1 \in T : x <= x1
<1>1. ASSUME NEW x \in Nat, NEW x1 \in Nat, x1 < x PROVE <<x1, x>> \in OpToRel(<, Nat)
  BY <1>1 DEF OpToRel
<1>2. PICK x \in T : \A x1 \in T : ~ (<<x1, x>> \in OpToRel(<, Nat))
  BY WFMin, NatLessThanWellFounded
<1>3. ASSUME NEW x1 \in T PROVE x <= x1
  <2>1. ~(x1 < x)
    BY <1>1, <1>2
  <2> QED BY <2>1
<1> QED BY <1>3

\* Induction, for a set: the numbers it holds are given by a set and not by an operator.
LEMMA SetInduction ==
  ASSUME NEW S, 0 \in S, \A n \in Nat : n \in S => n + 1 \in S
  PROVE  Nat \subseteq S
<1> DEFINE T == Nat \ S
<1> SUFFICES ASSUME T # {} PROVE FALSE
  OBVIOUS
<1>1. PICK x \in T : \A x1 \in T : x <= x1
  <2>1. T \subseteq Nat
    OBVIOUS
  <2> HIDE DEF T
  <2> QED BY <2>1, Least
<1>2. x # 0 /\ x \in Nat
  OBVIOUS
<1>3. x - 1 \in Nat /\ x - 1 < x /\ (x - 1) + 1 = x
  BY <1>2
<1>4. x - 1 \notin T
  BY <1>1, <1>2, <1>3
<1> QED BY <1>2, <1>3, <1>4

\* A power of two, as a number that the lemmas below know.
Two(k) == 2^k

\* The powers of two that occur: a field and the bits it is moved by fit 24 bits.
LEMMA TwoIs ==
  /\ Two(0) = 1 /\ Two(1) = 2 /\ Two(2) = 4 /\ Two(3) = 8 /\ Two(4) = 16
  /\ Two(5) = 32 /\ Two(6) = 64 /\ Two(7) = 128 /\ Two(8) = 256 /\ Two(9) = 512
  /\ Two(10) = 1024 /\ Two(11) = 2048 /\ Two(12) = 4096 /\ Two(13) = 8192 /\ Two(14) = 16384
  /\ Two(15) = 32768 /\ Two(16) = 65536 /\ Two(17) = 131072 /\ Two(18) = 262144
  /\ Two(19) = 524288 /\ Two(20) = 1048576 /\ Two(21) = 2097152 /\ Two(22) = 4194304
  /\ Two(23) = 8388608 /\ Two(24) = 16777216
BY SMT DEF Two

\* The next one is twice as much.
LEMMA TwoStep == \A k \in 0 .. 23 : Two(k + 1) = 2 * Two(k) /\ Two(k) \in Nat \ {0}
BY TwoIs, SMT

\* They are positive.
LEMMA TwoNat == \A k \in 0 .. 24 : Two(k) \in Nat \ {0}
BY TwoIs, SMT

\* Moving by a and by b bits is moving by a + b.
LEMMA TwoSum == \A a, b \in Nat : a + b <= 24 => Two(a + b) = Two(a) * Two(b)
<1> SUFFICES ASSUME NEW a \in Nat PROVE \A b \in Nat : a + b <= 24 => Two(a + b) = Two(a) * Two(b)
  OBVIOUS
<1> DEFINE B == {b \in Nat : a + b <= 24 => Two(a + b) = Two(a) * Two(b)}
<1>1. 0 \in B
  <2> SUFFICES ASSUME a <= 24 PROVE Two(a + 0) = Two(a) * Two(0)
    OBVIOUS
  <2>1. a + 0 = a /\ a \in 0 .. 24
    OBVIOUS
  <2>2. Two(a) \in Nat
    BY <2>1, TwoNat
  <2>3. Two(0) = 1
    BY TwoIs, SMT
  <2> DEFINE p == Two(a)
  <2> HIDE DEF p
  <2>4. p = p * 1
    BY <2>2 DEF p
  <2> QED BY <2>1, <2>3, <2>4 DEF p
<1>2. ASSUME NEW b \in Nat, b \in B PROVE b + 1 \in B
  <2> SUFFICES ASSUME a + (b + 1) <= 24 PROVE Two(a + (b + 1)) = Two(a) * Two(b + 1)
    OBVIOUS
  <2> DEFINE ab == a + b
  <2>1. ab \in 0 .. 23 /\ b \in 0 .. 23 /\ a \in 0 .. 24 /\ a + (b + 1) = ab + 1 /\ ab <= 24
    OBVIOUS
  <2>2. Two(ab) = Two(a) * Two(b)
    BY <1>2, <2>1
  <2> HIDE DEF ab
  <2>3. Two(ab + 1) = 2 * Two(ab) /\ Two(b + 1) = 2 * Two(b) /\ Two(a) \in Nat /\ Two(b) \in Nat
    BY <2>1, TwoStep, TwoNat
  <2> DEFINE p == Two(a)
  <2> DEFINE q == Two(b)
  <2>4. p \in Nat /\ q \in Nat
    BY <2>3
  <2> HIDE DEF p, q
  <2>5. 2 * (p * q) = p * (2 * q)
    BY <2>4
  <2> QED BY <2>1, <2>2, <2>3, <2>5 DEF p, q
<1> HIDE DEF B
<1>3. Nat \subseteq B
  BY <1>1, <1>2, SetInduction
<1> QED BY <1>3 DEF B

\* More bits hold more.
LEMMA TwoMonotone == \A a, b \in Nat : a <= b /\ b <= 24 => Two(a) <= Two(b)
<1> SUFFICES ASSUME NEW a \in Nat, NEW b \in Nat, a <= b, b <= 24 PROVE Two(a) <= Two(b)
  OBVIOUS
<1> DEFINE c == b - a
<1>1. c \in Nat /\ a + c = b /\ c <= 24 /\ a \in 0 .. 24 /\ c \in 0 .. 24
  OBVIOUS
<1> HIDE DEF c
<1>2. Two(b) = Two(a) * Two(c) /\ Two(a) \in Nat \ {0} /\ Two(c) \in Nat \ {0}
  BY <1>1, TwoSum, TwoNat
<1> DEFINE p == Two(a)
<1> DEFINE q == Two(c)
<1> HIDE DEF p, q
<1>3. p \in Nat \ {0} /\ q \in Nat \ {0} /\ Two(a) = p /\ Two(b) = p * q
  BY <1>2 DEF p, q
<1>4. p * (q - 1) \in Nat /\ p * q = p * (q - 1) + p
  BY <1>3
<1> QED BY <1>3, <1>4

\* Quotient and remainder,
LEMMA Division ==
  ASSUME NEW x \in Int, NEW d \in Nat \ {0}
  PROVE  x \div d \in Int /\ x % d \in 0 .. d - 1 /\ x = d * (x \div d) + (x % d)
<1>1. d \in Int /\ d > 0
  OBVIOUS
<1> QED BY <1>1

\* and that there are no others.
LEMMA DivisionIs ==
  ASSUME NEW x \in Int, NEW d \in Nat \ {0}, NEW q \in Int, NEW r \in 0 .. d - 1, x = d * q + r
  PROVE  x \div d = q /\ x % d = r
<1> DEFINE k == x \div d
<1> DEFINE s == x % d
<1>1. k \in Int /\ s \in 0 .. d - 1 /\ x = d * k + s
  BY Division
<1> HIDE DEF k, s
<1>2. k = q
  <2>1. d * (k - q) = r - s
    BY <1>1
  <2>2. CASE k - q >= 1
    <3>1. d * (k - q - 1) \in Nat
      BY <1>1, <2>2
    <3>2. d * (k - q) >= d
      BY <1>1, <3>1
    <3> QED BY <1>1, <2>1, <3>2
  <2>3. CASE q - k >= 1
    <3>1. d * (q - k - 1) \in Nat
      BY <1>1, <2>3
    <3>2. d * (q - k) >= d /\ d * (q - k) = -(d * (k - q))
      BY <1>1, <3>1
    <3> QED BY <1>1, <2>1, <3>2
  <2> QED BY <1>1, <2>2, <2>3
<1> QED BY <1>1, <1>2 DEF k, s

\* The same, for a leaf that has more to match.
IsDivision(x, d, q, r) == x = d * q + r /\ r \in 0 .. d - 1

\* The quotient and the remainder are the numbers that IsDivision names.
LEMMA DivisionOf ==
  ASSUME NEW x \in Int, NEW d \in Nat \ {0}, NEW q \in Int, NEW r, IsDivision(x, d, q, r)
  PROVE  x \div d = q /\ x % d = r
BY DivisionIs DEF IsDivision

\* Dividing twice is dividing by the product.
LEMMA DivDiv ==
  ASSUME NEW x \in Nat, NEW a \in Nat \ {0}, NEW b \in Nat \ {0}
  PROVE  (x \div a) \div b = x \div (a * b)
<1> DEFINE g == x \div a
<1> DEFINE r == x % a
<1> DEFINE h == g \div b
<1> DEFINE t == g % b
<1>1. g \in Int /\ r \in 0 .. a - 1 /\ x = a * g + r
  BY Division
<1>2. h \in Int /\ t \in 0 .. b - 1 /\ g = b * h + t
  <2> HIDE DEF g
  <2> QED BY <1>1, Division
<1> HIDE DEF g, r, h, t
<1>3. x = (a * b) * h + (a * t + r)
  BY <1>1, <1>2
<1>4. a * t + r \in 0 .. a * b - 1
  <2>1. a * (b - 1 - t) \in Nat /\ a * t \in Nat
    BY <1>2
  <2>2. a * b = a * (b - 1 - t) + a * t + a
    BY <1>2
  <2> QED BY <1>1, <2>1, <2>2
<1> DEFINE m == a * b
<1> DEFINE u == a * t + r
<1>5. m \in Nat \ {0} /\ u \in 0 .. m - 1 /\ x = m * h + u
  BY <1>3, <1>4
<1> HIDE DEF m, u
<1>6. x \div m = h
  BY <1>2, <1>5, DivisionIs
<1> QED BY <1>6 DEF h, g, m

\* A quotient by one of two factors is below the other.
LEMMA QuotientLess ==
  ASSUME NEW f \in Nat, NEW a \in Nat \ {0}, NEW b \in Nat \ {0}, f < a * b
  PROVE  f \div a \in 0 .. b - 1
<1> DEFINE q == f \div a
<1> DEFINE r == f % a
<1>1. q \in Int /\ r \in 0 .. a - 1 /\ f = a * q + r
  BY Division
<1> HIDE DEF q, r
<1>2. q >= 0
  <2> SUFFICES ASSUME q <= -1 PROVE FALSE
    BY <1>1
  <2>1. a * (-1 - q) \in Nat
    BY <1>1
  <2>2. a * q = -a - a * (-1 - q)
    BY <1>1
  <2> QED BY <1>1, <2>1, <2>2
<1>3. q < b
  <2> SUFFICES ASSUME q >= b PROVE FALSE
    BY <1>1
  <2>1. a * (q - b) \in Nat
    BY <1>1
  <2>2. a * q = a * b + a * (q - b)
    BY <1>1
  <2>3. a * b \in Nat
    OBVIOUS
  <2> QED BY <1>1, <2>1, <2>2, <2>3
<1>4. q \in 0 .. b - 1
  BY <1>1, <1>2, <1>3
<1> QED BY <1>4 DEF q

\* A smaller number has no quotient.
LEMMA QuotientZero ==
  ASSUME NEW f \in Nat, NEW a \in Nat \ {0}, f < a
  PROVE  f \div a = 0
<1>1. f \in 0 .. a - 1 /\ f = a * 0 + f
  OBVIOUS
<1> QED BY <1>1, DivisionIs

\* A shift multiplies or divides by a power of two.
LEMMA ShiftTwo ==
  ASSUME NEW f, NEW d \in Int
  PROVE  /\ d >= 0 => Shift(f, d) = f * Two(d)
         /\ d < 0 => Shift(f, d) = f \div Two(-d)
BY DEF Shift, Two

(***************************************************************************)
(* Packing: three bytes                                                    *)
(***************************************************************************)
\* What a field has in a byte in which it begins at bit d.
PartAt(wd, f, d) == IF d < 8 /\ -wd < d THEN Shift(f, d) % 256 ELSE 0

\* A field moved to bit d of three bytes, in its lowest, middle or highest byte.
LEMMA ByteIs ==
  ASSUME NEW wd \in 1 .. 24, NEW f \in 0 .. Two(wd) - 1, NEW d \in Int, -wd < d, d < 24,
         NEW m \in {0, 8, 16}
  PROVE  PartAt(wd, f, d - m) = (Shift(f, d) \div Two(m)) % 256
<1>0. /\ m \in 0 .. 24 /\ m \in Nat /\ f \in Nat /\ f < Two(wd) /\ Two(m) \in Nat \ {0}
      /\ wd \in Nat
      /\ Two(wd) \in Nat \ {0}
  <2>1. m \in 0 .. 24 /\ m \in Nat /\ wd \in 0 .. 24 /\ wd \in Nat
    OBVIOUS
  <2>2. Two(wd) \in Nat \ {0} /\ Two(m) \in Nat \ {0}
    BY <2>1, TwoNat
  <2> QED BY <2>1, <2>2
<1>1. CASE d - m >= 8
  <2> DEFINE k == d - m - 8
  <2>1. k \in 0 .. 24 /\ d \in 0 .. 24 /\ m + (8 + k) = d /\ 8 + k <= 24 /\ d <= 24
    BY <1>0, <1>1
  <2> HIDE DEF k
  <2>2. Two(d) = Two(m) * Two(8 + k) /\ Two(8 + k) = Two(8) * Two(k) /\ Two(k) \in Nat
    <3>1. k \in Nat /\ 8 + k \in Nat /\ 8 \in Nat /\ m \in Nat
      BY <1>0, <2>1
    <3>2. Two(m + (8 + k)) = Two(m) * Two(8 + k)
      BY <2>1, <3>1, TwoSum
    <3>3. Two(8 + k) = Two(8) * Two(k)
      BY <2>1, <3>1, TwoSum
    <3> QED BY <2>1, <3>2, <3>3, TwoNat
  <2>3. Two(8) = 256
    BY TwoIs, SMT
  <2> DEFINE p == Two(m)
  <2> DEFINE r == Two(k)
  <2> DEFINE u == f * r
  <2>4. p \in Nat \ {0} /\ r \in Nat /\ Two(d) = p * (256 * r)
    BY <1>0, <2>2, <2>3
  <2> HIDE DEF p, r
  <2>5. u \in Nat /\ f * (p * (256 * r)) = p * (256 * u) + 0 /\ 256 * u \in Int
    BY <1>0, <2>4
  <2>6. Shift(f, d) = p * (256 * u) + 0 /\ Shift(f, d) \in Int
    BY <1>0, <1>1, <2>1, <2>4, <2>5, ShiftTwo
  <2> HIDE DEF u
  <2>7. Shift(f, d) \div p = 256 * u
    <3>1. 0 \in 0 .. p - 1
      BY <2>4
    <3> QED BY <2>4, <2>5, <2>6, <3>1, DivisionIs
  <2>8. (256 * u) % 256 = 0
    BY <2>5
  <2> QED BY <1>1, <2>7, <2>8 DEF PartAt, p
<1>2. CASE 0 <= d - m /\ d - m < 8
  <2> DEFINE k == d - m
  <2>1. k \in 0 .. 24 /\ d \in 0 .. 24 /\ m + k = d /\ k \in Nat /\ d <= 24 /\ k >= 0 /\ -wd < k
    BY <1>0, <1>2
  <2>9. k < 8
    BY <1>2
  <2> HIDE DEF k
  <2>2. Two(d) = Two(m) * Two(k) /\ Two(k) \in Nat
    BY <1>0, <2>1, TwoSum, TwoNat
  <2> DEFINE p == Two(m)
  <2> DEFINE r == Two(k)
  <2> DEFINE u == f * r
  <2>4. p \in Nat \ {0} /\ r \in Nat /\ Two(d) = p * r
    BY <1>0, <2>2
  <2> HIDE DEF p, r
  <2>5. u \in Nat /\ f * (p * r) = p * u + 0
    BY <1>0, <2>4
  <2>6. Shift(f, d) = p * u + 0 /\ Shift(f, d) \in Int /\ Shift(f, k) = u
    BY <1>0, <1>2, <2>1, <2>4, <2>5, ShiftTwo DEF r
  <2> HIDE DEF u
  <2>7. Shift(f, d) \div p = u
    <3>1. 0 \in 0 .. p - 1
      BY <2>4
    <3> QED BY <2>4, <2>5, <2>6, <3>1, DivisionIs
  <2>8. PartAt(wd, f, k) = u % 256
    BY <2>1, <2>6, <2>9 DEF PartAt
  <2> QED BY <2>7, <2>8 DEF k, p
<1>3. CASE d - m < 0 /\ d >= 0
  <2> DEFINE e == m - d
  <2>1. /\ e \in Nat /\ d \in Nat /\ e <= 24 /\ d <= 24 /\ d + e = m /\ e >= 1 /\ d - m = -e
        /\ e \in 0 .. 24 /\ d \in 0 .. 24 /\ -e < 8 /\ -e < 0 /\ -(-e) = e /\ -e \in Int /\ m <= 24
    BY <1>0, <1>3
  <2> HIDE DEF e
  <2>2. Two(m) = Two(d) * Two(e) /\ Two(d) \in Nat \ {0} /\ Two(e) \in Nat \ {0}
    BY <1>0, <2>1, TwoSum, TwoNat
  <2> DEFINE p == Two(d)
  <2> DEFINE r == Two(e)
  <2>4. p \in Nat \ {0} /\ r \in Nat \ {0} /\ Two(m) = p * r
    BY <2>2, SMT
  <2> HIDE DEF p, r
  <2>5. Shift(f, d) = f * p /\ Shift(f, d) \in Nat /\ Shift(f, d) = p * f + 0
    BY <1>0, <1>3, <2>4, ShiftTwo DEF p
  <2>6. Shift(f, d) \div p = f
    <3>1. 0 \in 0 .. p - 1
      BY <2>4
    <3> QED BY <1>0, <2>4, <2>5, <3>1, DivisionIs
  <2>7. Shift(f, d) \div Two(m) = f \div r
    BY <2>4, <2>5, <2>6, DivDiv
  <2>8. CASE e < wd
    <3>1. PartAt(wd, f, -e) = Shift(f, -e) % 256
      BY <2>1, <2>8 DEF PartAt
    <3>2. Shift(f, -e) = f \div r
      BY <1>0, <2>1, ShiftTwo DEF r
    <3> QED BY <2>1, <2>7, <3>1, <3>2
  <2>9. CASE e >= wd
    <3>1. PartAt(wd, f, -e) = 0
      BY <1>0, <2>1, <2>9 DEF PartAt
    <3>2. f < r
      BY <1>0, <2>1, <2>4, <2>9, TwoMonotone DEF r
    <3>3. f \div r = 0
      BY <1>0, <2>4, <3>2, QuotientZero
    <3> QED BY <2>1, <2>7, <3>1, <3>3
  <2> QED BY <1>0, <2>1, <2>8, <2>9
<1>4. CASE d < 0
  <2> DEFINE a == -d
  <2>1. a \in Nat /\ a < wd /\ a >= 1 /\ a \in 0 .. 24 /\ d = -a /\ wd <= 24
    BY <1>0, <1>4
  <2> HIDE DEF a
  <2> DEFINE p == Two(a)
  <2>2. p \in Nat \ {0}
    BY <2>1, TwoNat
  <2>3. Shift(f, d) = f \div p
    <3>1. -d = a
      BY <2>1
    <3> QED BY <1>0, <1>4, <3>1, ShiftTwo
  <2>4. CASE a + m < wd
    <3>1. /\ a + m \in Nat /\ a + m <= 24 /\ d - m = -(a + m) /\ -(a + m) < 8
          /\ -wd < -(a + m) /\ -(a + m) < 0
      BY <1>0, <2>1, <2>4
    <3>2. Two(a + m) = p * Two(m)
      BY <1>0, <2>1, <3>1, TwoSum
    <3>3. Shift(f, -(a + m)) = f \div Two(a + m)
      <4>1. -(-(a + m)) = a + m /\ -(a + m) \in Int
        BY <3>1
      <4> QED BY <1>0, <3>1, <4>1, ShiftTwo
    <3>4. PartAt(wd, f, -(a + m)) = Shift(f, -(a + m)) % 256
      BY <3>1 DEF PartAt
    <3> HIDE DEF p
    <3>5. (f \div p) \div Two(m) = f \div (p * Two(m))
      BY <1>0, <2>2, DivDiv
    <3> QED BY <2>3, <3>1, <3>2, <3>3, <3>4, <3>5
  <2>5. CASE a + m >= wd
    <3> DEFINE c == wd - a
    <3>1. c \in Nat /\ c <= m /\ c >= 1 /\ a + c = wd /\ c \in 0 .. 24 /\ m <= 24
      BY <1>0, <2>1, <2>5
    <3> HIDE DEF c
    <3>2. Two(wd) = p * Two(c) /\ Two(c) <= Two(m) /\ Two(c) \in Nat \ {0}
      BY <1>0, <2>1, <3>1, TwoSum, TwoMonotone, TwoNat
    <3> HIDE DEF p
    <3>3. f \div p \in 0 .. Two(c) - 1
      BY <1>0, <2>2, <3>2, QuotientLess
    <3> DEFINE x == f \div p
    <3>4. x \in Nat /\ x < Two(m)
      BY <1>0, <3>2, <3>3
    <3> HIDE DEF x
    <3>5. x \div Two(m) = 0
      BY <1>0, <3>4, QuotientZero
    <3>6. d - m <= -wd
      BY <1>0, <2>1, <2>5
    <3>7. PartAt(wd, f, d - m) = 0
      <4>1. ~(-wd < d - m)
        BY <1>0, <3>6
      <4> QED BY <4>1 DEF PartAt
    <3> QED BY <2>3, <3>5, <3>7 DEF x
  <2> QED BY <1>0, <2>1, <2>4, <2>5
<1> QED BY <1>0, <1>1, <1>2, <1>3, <1>4

\* Three bytes put together are the low 24 bits.
LEMMA ThreeBytes ==
  \A g \in Nat : (g % 256) + 256 * ((g \div 256) % 256) + 65536 * ((g \div 65536) % 256)
                 = g % 16777216
OBVIOUS

\* What a field that begins at bit d has in three bytes.
TermAt(wd, f, d) ==
    PartAt(wd, f, d) + 256 * PartAt(wd, f, d - 8) + 65536 * PartAt(wd, f, d - 16)

\* A field that begins or ends outside has nothing there.
LEMMA TermZero ==
  ASSUME NEW wd \in 1 .. 24, NEW f, NEW d \in Int, d <= -wd \/ d >= 24
  PROVE  TermAt(wd, f, d) = 0
<1>1. d - 8 \in Int /\ d - 16 \in Int
  OBVIOUS
<1>2. PartAt(wd, f, d) = 0 /\ PartAt(wd, f, d - 8) = 0 /\ PartAt(wd, f, d - 16) = 0
  BY DEF PartAt
<1> QED BY <1>2 DEF TermAt

\* One that reaches the three bytes has its low 24 bits there once it is moved.
LEMMA TermIs ==
  ASSUME NEW wd \in 1 .. 24, NEW f \in 0 .. Two(wd) - 1, NEW d \in Int, -wd < d, d < 24
  PROVE  TermAt(wd, f, d) = Shift(f, d) % 16777216 /\ Shift(f, d) \in Nat
<1> DEFINE g == Shift(f, d)
<1>1. g \in Nat
  <2>1. wd \in 0 .. 24 /\ f \in Nat
    <3>1. wd \in 0 .. 24
      OBVIOUS
    <3> QED BY <3>1, TwoNat
  <2>2. CASE d >= 0
    <3>1. d \in 0 .. 24
      BY <2>2
    <3>2. Two(d) \in Nat /\ g = f * Two(d)
      BY <2>1, <2>2, <3>1, TwoNat, ShiftTwo
    <3> QED BY <2>1, <3>2
  <2>3. CASE d < 0
    <3>1. -d \in 0 .. 24
      BY <2>3
    <3>2. Two(-d) \in Nat \ {0} /\ g = f \div Two(-d)
      BY <2>1, <2>3, <3>1, TwoNat, ShiftTwo
    <3> DEFINE p == Two(-d)
    <3>3. p \in Nat \ {0} /\ g = f \div p
      BY <3>2
    <3> HIDE DEF g, p
    <3>4. f < p * (f + 1)
      <4>1. (p - 1) * (f + 1) \in Nat
        BY <2>1, <3>3
      <4> QED BY <2>1, <3>3, <4>1
    <3>5. f + 1 \in Nat \ {0}
      BY <2>1
    <3>6. g \in 0 .. (f + 1) - 1
      BY <2>1, <3>3, <3>4, <3>5, QuotientLess
    <3> QED BY <2>1, <3>6
  <2> QED BY <2>2, <2>3
<1>2. Two(0) = 1 /\ Two(8) = 256 /\ Two(16) = 65536
  BY TwoIs, SMT
<1>3. PartAt(wd, f, d - 0) = (g \div Two(0)) % 256
  BY ByteIs
<1>4. PartAt(wd, f, d - 8) = (g \div Two(8)) % 256
  BY ByteIs
<1>5. PartAt(wd, f, d - 16) = (g \div Two(16)) % 256
  BY ByteIs
<1> HIDE DEF g
<1>6. d - 0 = d /\ g \div 1 = g
  BY <1>1
<1>7. TermAt(wd, f, d) = (g % 256) + 256 * ((g \div 256) % 256) + 65536 * ((g \div 65536) % 256)
  BY <1>2, <1>3, <1>4, <1>5, <1>6 DEF TermAt
<1>8. TermAt(wd, f, d) = g % 16777216
  BY <1>1, <1>7, ThreeBytes
<1> QED BY <1>1, <1>8 DEF g

\* What a field of its width is, for a leaf.
LEMMA Under ==
  ASSUME NEW wd \in 1 .. 24, NEW f \in 0 .. Two(wd) - 1
  PROVE  /\ wd \in 0 .. 24 /\ wd \in Nat /\ Two(wd) \in Nat \ {0}
         /\ f \in Nat /\ f < Two(wd) /\ f <= Two(wd) - 1
<1>1. wd \in 0 .. 24 /\ wd \in Nat
  OBVIOUS
<1>2. Two(wd) \in Nat \ {0}
  BY <1>1, TwoNat
<1> QED BY <1>1, <1>2

\* A field that begins below bit 0 has less there than the bit it ends at.
LEMMA TermLow ==
  ASSUME NEW wd \in 1 .. 24, NEW f \in 0 .. Two(wd) - 1, NEW d \in Int, -wd < d, d < 0
  PROVE  TermAt(wd, f, d) \in 0 .. Two(wd + d) - 1
<1>1. wd \in Nat /\ f \in Nat /\ f < Two(wd)
  BY Under
<1> DEFINE a == -d
<1> DEFINE c == wd + d
<1>2. /\ a \in 0 .. 24 /\ c \in 0 .. 24 /\ a \in Nat /\ c \in Nat
      /\ a + c = wd /\ a + c <= 24 /\ c <= 24
  BY <1>1
<1>3. Shift(f, d) = f \div Two(a)
  BY <1>1, ShiftTwo
<1> HIDE DEF a, c
<1>4. Two(wd) = Two(a) * Two(c) /\ Two(a) \in Nat \ {0} /\ Two(c) \in Nat \ {0}
  BY <1>2, TwoSum, TwoNat
<1>5. Shift(f, d) \in 0 .. Two(c) - 1
  BY <1>1, <1>3, <1>4, QuotientLess
<1>6. Two(c) <= 16777216
  <2>1. 24 \in Nat /\ 24 <= 24
    OBVIOUS
  <2>2. Two(c) <= Two(24)
    BY <1>2, <2>1, TwoMonotone
  <2>3. Two(24) = 16777216
    BY TwoIs, SMT
  <2> QED BY <2>2, <2>3, SMT
<1>7. TermAt(wd, f, d) = Shift(f, d) % 16777216
  <2>1. d < 24
    OBVIOUS
  <2> QED BY <2>1, TermIs
<1> DEFINE g == Shift(f, d)
<1> DEFINE p == Two(c)
<1>8. g \in 0 .. p - 1 /\ p \in Nat /\ p <= 16777216 /\ TermAt(wd, f, d) = g % 16777216
  BY <1>4, <1>5, <1>6, <1>7, SMT
<1> HIDE DEF g, p
<1>9. g % 16777216 = g
  BY <1>8, SMT
<1> QED BY <1>8, <1>9, SMT DEF p, c

\* One that is there with all of its bits is multiplied by the bit it begins at.
LEMMA TermOwn ==
  ASSUME NEW wd \in 1 .. 24, NEW f \in 0 .. Two(wd) - 1, NEW d \in Nat, wd + d <= 24
  PROVE  TermAt(wd, f, d) = Two(d) * f
<1>1. wd \in Nat /\ f \in Nat /\ f <= Two(wd) - 1 /\ Two(wd) \in Nat
  BY Under
<1>2. d \in 0 .. 24 /\ wd + d \in 0 .. 24 /\ -wd < d /\ d < 24 /\ d \in Int /\ d >= 0 /\ wd + d \in Nat
  BY <1>1
<1>3. Two(wd + d) = Two(wd) * Two(d) /\ Two(d) \in Nat \ {0}
  BY <1>1, <1>2, TwoSum, TwoNat
<1>4. Two(wd + d) <= 16777216
  <2>1. 24 \in Nat /\ 24 <= 24
    OBVIOUS
  <2>2. Two(wd + d) <= Two(24)
    BY <1>2, <2>1, TwoMonotone
  <2>3. Two(24) = 16777216
    BY TwoIs, SMT
  <2> QED BY <2>2, <2>3, SMT
<1> DEFINE p == Two(wd)
<1> DEFINE r == Two(d)
<1> DEFINE t == TermAt(wd, f, d)
<1>5. p \in Nat /\ r \in Nat \ {0} /\ p * r <= 16777216 /\ f <= p - 1
  BY <1>1, <1>3, <1>4, SMT
<1>6. t = (f * r) % 16777216
  BY <1>1, <1>2, TermIs, ShiftTwo
<1> HIDE DEF p, r, t
<1>7. f * r \in Nat /\ f * r < 16777216
  <2>1. (p - 1 - f) * r \in Nat
    BY <1>1, <1>5, SMT
  <2>2. f * r = p * r - r - (p - 1 - f) * r
    BY <1>1, <1>5, SMT
  <2>3. f * r \in Nat /\ p * r \in Nat
    BY <1>1, <1>5, SMT
  <2> QED BY <1>5, <2>1, <2>2, <2>3, SMT
<1>8. t = f * r
  <2> DEFINE x == f * r
  <2>1. x \in Nat /\ x < 16777216 /\ t = x % 16777216
    BY <1>6, <1>7, SMT
  <2> HIDE DEF x
  <2>2. t = x
    BY <2>1, SMT
  <2> QED BY <2>2 DEF x
<1>9. f * r = r * f
  BY <1>1, <1>5, SMT
<1> QED BY <1>8, <1>9 DEF t, r

\* One that begins at bit e or higher has a multiple of it.
LEMMA TermHigh ==
  ASSUME NEW wd \in 1 .. 24, NEW f \in 0 .. Two(wd) - 1, NEW e \in 0 .. 24, NEW d \in Nat, e <= d
  PROVE  \E m \in Int : TermAt(wd, f, d) = Two(e) * m
<1>0. wd \in Nat /\ f \in Nat
  BY Under
<1>1. Two(e) \in Nat \ {0} /\ e \in Nat
  BY TwoNat
<1>2. CASE d >= 24
  <2>1. TermAt(wd, f, d) = 0
    BY <1>2, TermZero
  <2>2. Two(e) * 0 = 0
    BY <1>1
  <2> QED BY <2>1, <2>2
<1>3. CASE d < 24
  <2> DEFINE c == d - e
  <2> DEFINE b == 24 - e
  <2>1. /\ c \in 0 .. 24 /\ b \in 0 .. 24 /\ c \in Nat /\ b \in Nat /\ e + c = d /\ e + b = 24
        /\ d <= 24 /\ -wd < d /\ d \in Int /\ d >= 0
    BY <1>0, <1>1, <1>3
  <2> HIDE DEF c, b
  <2>2. Two(d) = Two(e) * Two(c) /\ Two(c) \in Nat \ {0}
    BY <1>1, <2>1, TwoSum, TwoNat
  <2>3. Two(24) = Two(e) * Two(b) /\ Two(b) \in Nat \ {0}
    <3>1. e + b <= 24
      BY <2>1
    <3>2. Two(e + b) = Two(e) * Two(b)
      BY <1>1, <2>1, <3>1, TwoSum
    <3> QED BY <2>1, <3>2, TwoNat
  <2>4. Two(24) = 16777216
    BY TwoIs, SMT
  <2> DEFINE x == Shift(f, d)
  <2> DEFINE p == Two(e)
  <2> DEFINE r == Two(c)
  <2> DEFINE s == Two(b)
  <2> DEFINE t == TermAt(wd, f, d)
  <2>5. t = x % 16777216 /\ x = f * Two(d)
    BY <1>0, <1>3, <2>1, TermIs, ShiftTwo
  <2>6. p \in Nat \ {0} /\ r \in Nat /\ s \in Nat \ {0} /\ x = f * (p * r) /\ t = x % (p * s)
    BY <1>1, <2>2, <2>3, <2>4, <2>5, SMT
  <2> HIDE DEF x, p, r, s, t
  <2> DEFINE q == x \div (p * s)
  <2>7. q \in Int /\ x = (p * s) * q + (x % (p * s))
    <3>1. p * s \in Nat \ {0} /\ x \in Int
      BY <1>0, <2>6
    <3> DEFINE z == p * s
    <3>2. z \in Nat \ {0}
      BY <3>1
    <3> HIDE DEF z
    <3>3. x \div z \in Int /\ x = z * (x \div z) + (x % z)
      BY <3>1, <3>2, Division
    <3> QED BY <3>3 DEF z
  <2> HIDE DEF q
  <2>8. t = p * (f * r - s * q) /\ f * r - s * q \in Int
    BY <1>0, <2>6, <2>7, SMT
  <2> QED BY <2>8 DEF t, p
<1> QED BY <1>2, <1>3

\* W[j]: what the first j fields have in three bytes. Field i begins in them at bit o; s tells
\* whether the fields behind it are higher or lower.
Window(wd, count, f, i, o, s, W) ==
    /\ i \in 0 .. count - 1 /\ o \in Nat /\ o + wd <= 24
    /\ f \in [0 .. count - 1 -> 0 .. Two(wd) - 1]
    /\ W \in [0 .. count -> Int] /\ W[0] = 0
    /\ \A j \in 0 .. count - 1 : W[j + 1] = W[j] + TermAt(wd, f[j], o + s * (wd * (j - i)))

\* One field more in the three bytes.
LEMMA WindowStep ==
  ASSUME NEW wd \in 1 .. 24, NEW count \in Nat, NEW f, NEW i, NEW o, NEW s, NEW W,
         Window(wd, count, f, i, o, s, W), NEW j \in Nat, j < count
  PROVE  /\ f[j] \in 0 .. Two(wd) - 1 /\ W[j] \in Int /\ W[j + 1] \in Int /\ j \in 0 .. count - 1
         /\ W[j + 1] = W[j] + TermAt(wd, f[j], o + s * (wd * (j - i)))
<1>1. j \in 0 .. count - 1 /\ j \in 0 .. count /\ j + 1 \in 0 .. count
  OBVIOUS
<1> QED BY <1>1 DEF Window

\* What the fields below field i have is less than the bit it begins at.
Below(x, d) == x \in Nat /\ (d <= 0 => x = 0) /\ (d > 0 => x < Two(d))

\* A field put behind those below it: together they end where it ends.
LEMMA LowStep ==
  ASSUME NEW wd \in 1 .. 24, NEW f \in 0 .. Two(wd) - 1, NEW d \in Int, d + wd <= 24,
         NEW x, Below(x, d)
  PROVE  Below(x + TermAt(wd, f, d), d + wd)
<1> DEFINE x1 == x + TermAt(wd, f, d)
<1> SUFFICES /\ x1 \in Nat
             /\ d + wd <= 0 => x1 = 0
             /\ d + wd > 0 => x1 < Two(d + wd)
  BY DEF Below
<1> USE DEF Below
<1>0. wd \in Nat /\ wd >= 1 /\ Two(0) = 1
  <2>1. Two(0) = 1
    BY TwoIs, SMT
  <2> QED BY <2>1
<1>1. CASE d <= -wd
  <2>1. TermAt(wd, f, d) = 0
    BY <1>1, TermZero
  <2>2. d + wd <= 0 /\ x = 0
    BY <1>0, <1>1
  <2> QED BY <2>1, <2>2
<1>2. CASE -wd < d /\ d < 0
  <2>1. TermAt(wd, f, d) \in 0 .. Two(wd + d) - 1
    BY <1>2, TermLow
  <2>2. wd + d \in 0 .. 24 /\ d + wd > 0 /\ d + wd = wd + d /\ x = 0
    BY <1>0, <1>2
  <2>3. Two(wd + d) \in Nat
    BY <2>2, TwoNat
  <2> DEFINE t == TermAt(wd, f, d)
  <2> DEFINE p == Two(wd + d)
  <2>4. x1 = x + t /\ t \in 0 .. p - 1 /\ p \in Nat
    BY <2>1, <2>3
  <2> HIDE DEF t, p
  <2>5. x1 \in Nat /\ x1 < p
    BY <2>2, <2>4
  <2> QED BY <2>2, <2>5 DEF p
<1>3. CASE d >= 0
  <2>1. /\ d \in Nat /\ wd + d <= 24 /\ d \in 0 .. 24 /\ d + wd > 0
        /\ d + wd = wd + d /\ ~(d + wd <= 0)
    BY <1>0, <1>3
  <2> DEFINE t == TermAt(wd, f, d)
  <2> DEFINE p == Two(d)
  <2> DEFINE r == Two(wd)
  <2>2. t = p * f
    BY <2>1, TermOwn
  <2>3. p \in Nat \ {0} /\ r \in Nat /\ Two(wd + d) = r * p /\ f \in Nat /\ f <= r - 1
    BY <1>0, <2>1, TwoNat, TwoSum, Under
  <2>4. x <= p - 1
    <3>1. CASE d = 0
      BY <1>0, <3>1
    <3>2. CASE d > 0
      <4>1. x < p
        BY <3>2
      <4> HIDE DEF p
      <4> QED BY <2>3, <4>1
    <3> QED BY <1>3, <3>1, <3>2
  <2>5. x1 = x + p * f
    BY <2>2, SMT
  <2> HIDE DEF t, p, r
  <2>6. p * (r - 1 - f) \in Nat /\ p * f \in Nat /\ r * p \in Nat
    BY <2>3
  <2>7. p * (r - 1 - f) = r * p - p - p * f
    BY <2>3
  <2> DEFINE u == p * (r - 1 - f)
  <2> DEFINE u1 == p * f
  <2> DEFINE z == r * p
  <2>8. u \in Nat /\ u1 \in Nat /\ z \in Nat /\ u = z - p - u1 /\ x1 = x + u1 /\ p \in Nat
    BY <2>3, <2>5, <2>6, <2>7
  <2> HIDE DEF u, u1, z
  <2>9. x1 \in Nat /\ x1 < z
    BY <2>4, <2>8
  <2> QED BY <2>1, <2>3, <2>9 DEF z
<1> QED BY <1>0, <1>1, <1>2, <1>3

\* All fields below field i together are less than the bit it begins at.
LEMMA LowFields ==
  ASSUME NEW wd \in 1 .. 24, NEW count \in Nat, NEW f, NEW i, NEW o, NEW W,
         Window(wd, count, f, i, o, 1, W), o <= wd * i
  PROVE  W[i] \in 0 .. Two(o) - 1
<1> DEFINE D(j) == o + 1 * (wd * (j - i))
<1> DEFINE P(j) == Below(W[j], D(j))
<1> DEFINE J == {j \in Nat : j <= i => P(j)}
<1>0. wd \in Nat /\ i \in Nat /\ i < count /\ o \in Nat /\ o + wd <= 24 /\ W[0] = 0
  BY DEF Window
<1>1. P(0)
  <2>1. 1 * (wd * (0 - i)) = -(wd * i) /\ wd * i \in Nat
    BY <1>0
  <2>2. D(0) <= 0 /\ ~(D(0) > 0)
    BY <1>0, <2>1
  <2> HIDE DEF D
  <2> QED BY <1>0, <2>2 DEF Below
<1>2. ASSUME NEW j \in Nat, P(j), j + 1 <= i PROVE P(j + 1)
  <2> DEFINE d == D(j)
  <2>1. D(j + 1) = d + wd /\ d \in Int /\ d + wd <= o
    <3>1. wd * ((j + 1) - i) = wd * (j - i) + wd /\ wd * (j - i) \in Int
      BY <1>0
    <3>2. wd * (i - (j + 1)) \in Nat /\ wd * (i - (j + 1)) = -(wd * ((j + 1) - i))
      BY <1>0, <1>2
    <3>3. 1 * (wd * (j - i)) = wd * (j - i) /\ 1 * (wd * ((j + 1) - i)) = wd * ((j + 1) - i)
      BY <1>0
    <3> DEFINE a == wd * (j - i)
    <3> DEFINE b == wd * ((j + 1) - i)
    <3> DEFINE c == wd * (i - (j + 1))
    <3>4. b = a + wd /\ a \in Int /\ c \in Nat /\ c = -b /\ d = o + a /\ D(j + 1) = o + b
      BY <3>1, <3>2, <3>3
    <3> HIDE DEF a, b, c, d, D
    <3> QED BY <1>0, <3>4
  <2>2. j < count
    BY <1>0, <1>2
  <2>3. f[j] \in 0 .. Two(wd) - 1 /\ W[j + 1] = W[j] + TermAt(wd, f[j], d)
    BY <2>2, WindowStep
  <2> HIDE DEF D, d
  <2>4. d + wd <= 24
    BY <1>0, <2>1
  <2>5. Below(W[j], d)
    BY <1>2 DEF d
  <2>6. Below(W[j] + TermAt(wd, f[j], d), d + wd)
    BY <2>1, <2>3, <2>4, <2>5, LowStep
  <2> QED BY <2>1, <2>3, <2>6
<1>3. P(i)
  <2> HIDE DEF P
  <2>1. 0 \in J
    BY <1>1
  <2>2. ASSUME NEW j \in Nat, j \in J PROVE j + 1 \in J
    <3> SUFFICES ASSUME j + 1 <= i PROVE P(j + 1)
      OBVIOUS
    <3>1. j <= i
      BY <1>0
    <3> QED BY <1>2, <2>2, <3>1
  <2>3. i <= i
    BY <1>0
  <2> HIDE DEF J
  <2>4. i \in J
    BY <1>0, <2>1, <2>2, SetInduction
  <2> QED BY <2>3, <2>4 DEF J
<1>4. D(i) = o
  BY <1>0
<1>5. W[i] \in Nat /\ (o <= 0 => W[i] = 0) /\ (o > 0 => W[i] < Two(o))
  <2> HIDE DEF D
  <2> QED BY <1>3, <1>4 DEF Below
<1>6. Two(o) \in Nat \ {0}
  BY <1>0, TwoNat
<1> QED BY <1>0, <1>5, <1>6

\* A sum to which multiples are added.
Apart(x, x1, p) == \E m \in Int : x1 = x + p * m

\* Adding multiples of p one after the other adds a multiple of p.
LEMMA Multiples ==
  ASSUME NEW p \in Int, NEW a \in Nat, NEW b \in Nat, a <= b, NEW W, W[a] \in Int,
         \A j \in Nat : a <= j /\ j < b => Apart(W[j], W[j + 1], p)
  PROVE  Apart(W[a], W[b], p)
<1> USE DEF Apart
<1> DEFINE P(j) == \E m \in Int : W[j] = W[a] + p * m
<1> DEFINE J == {j \in Nat : a <= j /\ j <= b => P(j)}
<1>0. P(a)
  <2> DEFINE x == W[a]
  <2>1. x \in Int
    OBVIOUS
  <2> HIDE DEF x
  <2>2. x = x + p * 0 /\ 0 \in Int
    BY <2>1
  <2> QED BY <2>2 DEF x
<1>1. ASSUME NEW j \in Nat, a <= j, j + 1 <= b, P(j) PROVE P(j + 1)
  <2>2. PICK m \in Int : W[j] = W[a] + p * m
    BY <1>1
  <2>3. PICK k \in Int : W[j + 1] = W[j] + p * k
    <3>1. j < b
      BY <1>1
    <3> QED BY <1>1, <3>1
  <2> DEFINE x == W[a]
  <2> DEFINE x1 == W[j]
  <2> DEFINE z == W[j + 1]
  <2>4. x \in Int /\ x1 = x + p * m /\ z = x1 + p * k
    BY <2>2, <2>3
  <2> HIDE DEF x, x1, z
  <2>5. z = x + p * (m + k) /\ m + k \in Int
    BY <2>4
  <2> QED BY <2>5 DEF x, z
<1> HIDE DEF P
<1>2. 0 \in J
  <2> SUFFICES ASSUME a <= 0 PROVE P(0)
    OBVIOUS
  <2>1. a = 0
    OBVIOUS
  <2> QED BY <1>0, <2>1
<1>3. ASSUME NEW j \in Nat, j \in J PROVE j + 1 \in J
  <2> SUFFICES ASSUME a <= j + 1, j + 1 <= b PROVE P(j + 1)
    OBVIOUS
  <2>1. CASE a = j + 1
    BY <1>0, <2>1
  <2>2. CASE a <= j
    <3>1. j <= b
      OBVIOUS
    <3>2. P(j)
      BY <1>3, <2>2, <3>1
    <3> QED BY <1>1, <2>2, <3>2
  <2>3. a = j + 1 \/ a <= j
    OBVIOUS
  <2> QED BY <2>1, <2>2, <2>3
<1> HIDE DEF J
<1>4. b \in J
  BY <1>2, <1>3, SetInduction
<1>5. P(b)
  <2>1. b <= b
    OBVIOUS
  <2> QED BY <1>4, <2>1 DEF J
<1> QED BY <1>5 DEF P

OwnFacts(wd, count, f, i, o, W) ==
    /\ i \in Nat /\ i < count /\ i + 1 <= count /\ o \in Nat /\ o + wd \in 0 .. 24 /\ wd \in Nat
    /\ o \in 0 .. 24 /\ Two(o + wd) \in Nat /\ Two(o) \in Nat \ {0} /\ f[i] \in 0 .. Two(wd) - 1
    /\ f[i] \in Nat /\ W[i] \in Int /\ W[i + 1] = W[i] + Two(o) * f[i] /\ W[0] = 0

\* A field in three bytes that hold all of it.
LEMMA OwnField ==
  ASSUME NEW wd \in 1 .. 24, NEW count \in Nat, NEW f, NEW i, NEW o, NEW s \in {1, -1}, NEW W,
         Window(wd, count, f, i, o, s, W)
  PROVE  OwnFacts(wd, count, f, i, o, W)
<1>1. /\ i \in Nat /\ i < count /\ i + 1 <= count /\ o \in Nat /\ wd \in Nat /\ wd + o <= 24
      /\ o \in 0 .. 24 /\ o + wd \in 0 .. 24 /\ W[0] = 0
  BY DEF Window
<1>2. /\ f[i] \in 0 .. Two(wd) - 1 /\ W[i] \in Int
      /\ W[i + 1] = W[i] + TermAt(wd, f[i], o + s * (wd * (i - i)))
  BY <1>1, WindowStep
<1>3. o + s * (wd * (i - i)) = o
  BY <1>1
<1>4. TermAt(wd, f[i], o) = Two(o) * f[i]
  BY <1>1, <1>2, TermOwn
<1>5. f[i] \in Nat
  BY <1>2, Under
<1> QED BY <1>1, <1>2, <1>3, <1>4, <1>5, TwoNat DEF OwnFacts

\* With the lowest field first: below field i, field i, above field i.
LEMMA LowFirst ==
  ASSUME NEW wd \in 1 .. 24, NEW count \in Nat, NEW f, NEW i, NEW o, NEW W,
         Window(wd, count, f, i, o, 1, W), o <= wd * i
  PROVE  \E L \in 0 .. Two(o) - 1 : \E m \in Int :
             W[count] = (L + Two(o) * f[i]) + Two(o + wd) * m
<1>0. /\ i \in Nat /\ i < count /\ i + 1 <= count /\ o \in Nat /\ o + wd \in 0 .. 24 /\ wd \in Nat
      /\ o \in 0 .. 24 /\ Two(o + wd) \in Nat /\ Two(o) \in Nat \ {0} /\ f[i] \in 0 .. Two(wd) - 1
      /\ f[i] \in Nat /\ W[i] \in Int /\ W[i + 1] = W[i] + Two(o) * f[i]
  <2>1. 1 \in {1, -1}
    OBVIOUS
  <2>2. OwnFacts(wd, count, f, i, o, W)
    BY <2>1, OwnField
  <2> QED BY <2>2 DEF OwnFacts
<1>1. W[i] \in 0 .. Two(o) - 1
  BY LowFields
<1>2. ASSUME NEW j \in Nat, i + 1 <= j, j < count
      PROVE  Apart(W[j], W[j + 1], Two(o + wd))
  <2> DEFINE d == o + 1 * (wd * (j - i))
  <2>1. f[j] \in 0 .. Two(wd) - 1 /\ W[j + 1] = W[j] + TermAt(wd, f[j], d)
    BY <1>2, WindowStep
  <2>2. d \in Nat /\ o + wd <= d
    <3>1. wd * (j - i - 1) \in Nat /\ wd * (j - i) = wd * (j - i - 1) + wd
      BY <1>0, <1>2
    <3> QED BY <1>0, <3>1
  <2> HIDE DEF d
  <2>3. \E m \in Int : TermAt(wd, f[j], d) = Two(o + wd) * m
    BY <1>0, <2>1, <2>2, TermHigh
  <2> QED BY <2>1, <2>3 DEF Apart
<1>3. W[i + 1] \in Int
  BY <1>0
<1> DEFINE a == i + 1
<1>4. a \in Nat /\ a <= count /\ W[a] = W[i] + Two(o) * f[i] /\ W[a] \in Int /\ Two(o + wd) \in Int
  BY <1>0, <1>3
<1>5. \A j \in Nat : a <= j /\ j < count => Apart(W[j], W[j + 1], Two(o + wd))
  BY <1>2
<1> HIDE DEF a
<1>6. Apart(W[a], W[count], Two(o + wd))
  BY <1>4, <1>5, Multiples
<1> QED BY <1>1, <1>4, <1>6 DEF Apart

\* With the highest field first.
LEMMA HighFirst ==
  ASSUME NEW wd \in 8 .. 24, NEW count \in Nat, NEW f, NEW i, NEW o, NEW W,
         Window(wd, count, f, i, o, -1, W), o < 8
  PROVE  \E L \in 0 .. Two(o) - 1 : \E m \in Int :
             W[count] = (L + Two(o) * f[i]) + Two(o + wd) * m
<1>00. wd \in 1 .. 24 /\ wd >= 8 /\ -1 \in {1, -1}
  OBVIOUS
<1>0. /\ i \in Nat /\ i < count /\ i + 1 <= count /\ o \in Nat /\ o + wd \in 0 .. 24 /\ wd \in Nat
      /\ o \in 0 .. 24 /\ Two(o + wd) \in Nat /\ Two(o) \in Nat \ {0} /\ f[i] \in 0 .. Two(wd) - 1
      /\ f[i] \in Nat /\ W[i] \in Int /\ W[i + 1] = W[i] + Two(o) * f[i] /\ W[0] = 0
  <2>1. OwnFacts(wd, count, f, i, o, W)
    BY <1>00, OwnField
  <2> QED BY <2>1 DEF OwnFacts
<1> DEFINE D(j) == o + (-1) * (wd * (j - i))
<1>1. ASSUME NEW j \in Nat, j < count
      PROVE  f[j] \in 0 .. Two(wd) - 1 /\ W[j] \in Int /\ W[j + 1] = W[j] + TermAt(wd, f[j], D(j))
  BY <1>00, <1>1, WindowStep
<1>2. Apart(W[0], W[i], Two(o + wd))
  <2>1. ASSUME NEW j \in Nat, 0 <= j, j < i
        PROVE  Apart(W[j], W[j + 1], Two(o + wd))
    <3>1. D(j) \in Nat /\ o + wd <= D(j)
      <4>1. wd * (i - j - 1) \in Nat /\ (-1) * (wd * (j - i)) = wd * (i - j - 1) + wd
        BY <1>0, <2>1
      <4> QED BY <1>0, <4>1
    <3>2. f[j] \in 0 .. Two(wd) - 1 /\ W[j + 1] = W[j] + TermAt(wd, f[j], D(j))
      BY <1>0, <1>1, <2>1
    <3> DEFINE d == D(j)
    <3> HIDE DEF D, d
    <3>3. \E m \in Int : TermAt(wd, f[j], d) = Two(o + wd) * m
      BY <1>00, <1>0, <3>1, <3>2, TermHigh DEF d
    <3> QED BY <3>2, <3>3 DEF d, Apart
  <2>2. 0 \in Nat /\ 0 <= i /\ W[0] \in Int /\ Two(o + wd) \in Int
    BY <1>0
  <2>3. \A j \in Nat : 0 <= j /\ j < i => Apart(W[j], W[j + 1], Two(o + wd))
    BY <2>1
  <2> QED BY <1>0, <2>2, <2>3, Multiples
<1>3. PICK m \in Int : W[i] = Two(o + wd) * m
  <2>1. PICK m \in Int : W[i] = W[0] + Two(o + wd) * m
    BY <1>2 DEF Apart
  <2>2. Two(o + wd) * m \in Int
    BY <1>0
  <2> QED BY <1>0, <2>1, <2>2
<1>4. W[i + 1] = Two(o + wd) * m + Two(o) * f[i] /\ W[i + 1] \in Int
  BY <1>0, <1>3
<1>5. \E L \in 0 .. Two(o) - 1 : W[count] = W[i + 1] + L
  <2>1. CASE i + 1 = count
    <3>1. 0 \in 0 .. Two(o) - 1 /\ W[i + 1] = W[i + 1] + 0
      BY <1>0, <1>4
    <3> QED BY <2>1, <3>1
  <2>2. CASE i + 1 < count
    <3> DEFINE j == i + 1
    <3> DEFINE L == TermAt(wd, f[j], D(j))
    <3>1. D(j) = o - wd
      BY <1>0
    <3>2. j \in Nat /\ j < count /\ f[j] \in 0 .. Two(wd) - 1 /\ W[j + 1] = W[j] + L
      BY <1>0, <1>1, <2>2
    <3>3. L \in 0 .. Two(o) - 1
      <4> DEFINE d == o - wd
      <4>1. CASE o = 0
        <5>1. d <= -wd /\ d \in Int
          BY <1>0, <4>1
        <5> HIDE DEF d
        <5>2. TermAt(wd, f[j], d) = 0
          BY <1>00, <5>1, TermZero
        <5> QED BY <1>0, <3>1, <5>2 DEF d
      <4>2. CASE o > 0
        <5>1. -wd < d /\ d < 0 /\ d \in Int /\ wd + d = o
          BY <1>00, <1>0, <4>2
        <5> HIDE DEF d
        <5>2. TermAt(wd, f[j], d) \in 0 .. Two(wd + d) - 1
          BY <1>00, <3>2, <5>1, TermLow
        <5> QED BY <3>1, <5>1, <5>2 DEF d
      <4> QED BY <1>0, <4>1, <4>2
    <3> DEFINE b == j + 1
    <3>4. \A k \in Nat : b <= k /\ k < count => Apart(W[k], W[k + 1], 0)
      <4> SUFFICES ASSUME NEW k \in Nat, b <= k, k < count
                   PROVE  Apart(W[k], W[k + 1], 0)
        OBVIOUS
      <4>1. D(k) <= -wd /\ D(k) \in Int
        <5>1. wd * (k - i - 2) \in Nat /\ (-1) * (wd * (k - i)) = -(wd * (k - i - 2)) - wd - wd
          BY <1>0
        <5> QED BY <1>00, <1>0, <5>1
      <4>2. W[k] \in Int /\ W[k + 1] = W[k] + TermAt(wd, f[k], D(k))
        BY <1>1
      <4> HIDE DEF D
      <4>3. TermAt(wd, f[k], D(k)) = 0
        BY <1>00, <4>1, TermZero
      <4>4. W[k + 1] = W[k] + 0 * 0 /\ 0 \in Int
        BY <4>2, <4>3
      <4> QED BY <4>4 DEF Apart
    <3>5. b \in Nat /\ b <= count /\ W[b] = W[j] + L /\ W[b] \in Int /\ 0 \in Int
      <4>1. W[j] \in Int /\ L \in Int
        <5>1. Two(o) \in Int
          BY <1>0
        <5> HIDE DEF L
        <5> QED BY <1>4, <3>3, <5>1
      <4> HIDE DEF L
      <4> QED BY <3>2, <4>1
    <3> HIDE DEF b, L
    <3>6. Apart(W[b], W[count], 0)
      BY <3>4, <3>5, Multiples
    <3>7. W[count] = W[b]
      BY <3>5, <3>6 DEF Apart
    <3> QED BY <3>3, <3>5, <3>7
  <2> QED BY <1>0, <2>1, <2>2
<1>6. PICK L \in 0 .. Two(o) - 1 : W[count] = W[i + 1] + L
  BY <1>5
<1>7. W[count] = (L + Two(o) * f[i]) + Two(o + wd) * m
  <2> DEFINE x == Two(o) * f[i]
  <2> DEFINE x1 == Two(o + wd) * m
  <2>1. x \in Int /\ x1 \in Int /\ L \in Int /\ W[count] = (x1 + x) + L
    BY <1>0, <1>4, <1>6
  <2> HIDE DEF x, x1
  <2>2. W[count] = (L + x) + x1
    BY <2>1
  <2> QED BY <2>2 DEF x, x1
<1> QED BY <1>6, <1>7

\* A shift by no bits.
LEMMA NotShifted ==
  ASSUME NEW x \in Int, NEW o \in Nat, ~(o > 0)
  PROVE  Shift(x, -o) = x
<1>1. ASSUME NEW n, n = -o PROVE Shift(x, n) = x
  <2>1. n = 0
    BY <1>1
  <2>2. Shift(x, 0) = x * 2^0 /\ 2^0 = 1
    BY DEF Shift
  <2> QED BY <2>1, <2>2
<1> QED BY <1>1

\* A field is what is above its first bit, modulo its width.
Holds(x, o, wd, g) ==
    \E L \in 0 .. Two(o) - 1 : \E m \in Int : x = (L + Two(o) * g) + Two(o + wd) * m

\* Shifted down and cut to its width, it is the field.
LEMMA Extract ==
  ASSUME NEW wd \in 1 .. 24, NEW o \in 0 .. 24, o + wd <= 24, NEW g \in 0 .. Two(wd) - 1,
         NEW x, Holds(x, o, wd, g)
  PROVE  Shift(x, -o) % 2^wd = g
<1>a. PICK L \in 0 .. Two(o) - 1 : \E m \in Int : x = (L + Two(o) * g) + Two(o + wd) * m
  BY DEF Holds
<1>b. PICK m \in Int : x = (L + Two(o) * g) + Two(o + wd) * m
  BY <1>a
<1>0. o \in Nat /\ wd \in Nat /\ g \in Nat /\ Two(wd) \in Nat \ {0} /\ Two(o) \in Nat \ {0}
  BY TwoNat, Under
<1>1. Two(o + wd) = Two(o) * Two(wd)
  BY <1>0, TwoSum
<1> DEFINE p == Two(o)
<1> DEFINE r == Two(wd)
<1>2. /\ p \in Nat \ {0} /\ r \in Nat \ {0} /\ L \in 0 .. p - 1 /\ g \in 0 .. r - 1
      /\ x = (L + p * g) + (p * r) * m
  BY <1>0, <1>1, <1>b
<1>3. Shift(x, -o) = x \div p
  <2>1. x \in Int
    <3> HIDE DEF p, r
    <3> QED BY <1>0, <1>2
  <2>2. CASE ~(o > 0)
    <3>1. Two(0) = 1
      BY TwoIs, SMT
    <3>2. Shift(x, -o) = x
      BY <1>0, <2>1, <2>2, NotShifted
    <3>3. x = x \div 1
      BY <2>1
    <3>4. o = 0
      BY <1>0, <2>2
    <3> QED BY <3>1, <3>2, <3>3, <3>4
  <2>3. CASE o > 0
    <3>1. -o < 0 /\ -(-o) = o /\ -o \in Int
      BY <1>0, <2>3
    <3> QED BY <2>1, <3>1, ShiftTwo
  <2> QED BY <1>0, <2>2, <2>3
<1> HIDE DEF p
<1>4. r = 2^wd
  BY DEF Two
<1> HIDE DEF r
<1> DEFINE q == r * m + g
<1>5. x = p * q + L /\ q \in Int /\ x \in Int
  <2>1. q \in Int /\ L \in Int
    BY <1>0, <1>2
  <2>2. p * (r * m + g) = (p * r) * m + p * g
    BY <1>0, <1>2
  <2>3. p * g \in Int /\ (p * r) * m \in Int
    BY <1>0, <1>2
  <2> DEFINE x1 == p * g
  <2> DEFINE z == (p * r) * m
  <2>4. x1 \in Int /\ z \in Int /\ x = (L + x1) + z /\ p * q = z + x1
    BY <1>2, <2>2, <2>3
  <2> HIDE DEF x1, z, q
  <2> QED BY <2>1, <2>4
<1>6. q = r * m + g
  OBVIOUS
<1> HIDE DEF q
<1>7. x \div p = q
  <2>1. IsDivision(x, p, q, L)
    BY <1>2, <1>5 DEF IsDivision
  <2> QED BY <1>2, <1>5, <2>1, DivisionOf
<1>8. q % r = g
  <2>1. IsDivision(q, r, m, g)
    BY <1>2, <1>6 DEF IsDivision
  <2> QED BY <1>2, <1>5, <2>1, DivisionOf
<1> QED BY <1>3, <1>4, <1>7, <1>8

(***************************************************************************)
(* Packing: bytes                                                          *)
(***************************************************************************)
\* The sums of a sequence of integers are a function: the recursion of Filled has a solution.
LEMMA SumExists ==
  ASSUME NEW h \in [Nat -> Int]
  PROVE  \A m \in Nat : \E g \in [0 .. m -> Int] :
             g[0] = 0 /\ \A j \in 0 .. m - 1 : g[j + 1] = g[j] + h[j]
<1> DEFINE SumTo(g, m) == /\ g \in [0 .. m -> Int] /\ g[0] = 0
                          /\ \A j \in 0 .. m - 1 : g[j + 1] = g[j] + h[j]
<1> DEFINE N == {m \in Nat : \E g : SumTo(g, m)}
<1>1. 0 \in N
  <2>1. SumTo([j \in 0 .. 0 |-> 0], 0)
    OBVIOUS
  <2> HIDE DEF SumTo
  <2> QED BY <2>1
<1>2. ASSUME NEW m \in Nat, m \in N PROVE m + 1 \in N
  <2>1. PICK g : SumTo(g, m)
    BY <1>2
  <2>2. g \in [0 .. m -> Int] /\ g[m] \in Int /\ h[m] \in Int /\ g[0] = 0
    BY <2>1
  <2>3. PICK z \in Int : z = g[m] + h[m]
    BY <2>2, SMT
  <2> DEFINE k == [j \in 0 .. m + 1 |-> IF j <= m THEN g[j] ELSE z]
  <2>4. k \in [0 .. m + 1 -> Int] /\ k[0] = 0
    BY <2>2, SMT
  <2>5. ASSUME NEW j \in 0 .. (m + 1) - 1 PROVE k[j + 1] = k[j] + h[j]
    <3>1. j \in 0 .. m /\ k[j] = g[j]
      OBVIOUS
    <3>2. CASE j < m
      <4>1. j \in 0 .. m - 1 /\ k[j + 1] = g[j + 1]
        BY <3>2
      <4> QED BY <2>1, <3>1, <4>1
    <3>3. CASE j = m
      <4>1. k[j + 1] = z
        BY <3>3
      <4> QED BY <2>3, <3>1, <3>3, <4>1
    <3> QED BY <3>1, <3>2, <3>3
  <2> HIDE DEF k
  <2>6. SumTo(k, m + 1)
    BY <2>4, <2>5
  <2> HIDE DEF SumTo
  <2> QED BY <2>6
<1> HIDE DEF N
<1>3. Nat \subseteq N
  BY <1>1, <1>2, SetInduction
<1> QED BY <1>3 DEF N

\* A byte is the sum of what the fields have in it.
OneByOne(l, f, n, count) ==
    /\ Filled(l, f, n) \in [0 .. count -> Int]
    /\ Filled(l, f, n)[0] = 0
    /\ \A j \in 0 .. count - 1 :
           Filled(l, f, n)[j + 1] = Filled(l, f, n)[j] + Part(l, f[j], j, n)

\* Filled is this sum.
LEMMA FilledIs ==
  ASSUME NEW l, NEW f, NEW count \in Nat, NEW n, count = Cardinality(DOMAIN f),
         \A j \in 0 .. count - 1 : Part(l, f[j], j, n) \in Int
  PROVE  OneByOne(l, f, n, count)
<1> DEFINE P(j) == Part(l, f[j], j, n)
<1> DEFINE IsOr(Or) == Or = [j \in 0 .. count |-> IF j = 0 THEN 0 ELSE Or[j - 1] + P(j - 1)]
<1>1. Filled(l, f, n) = CHOOSE Or : IsOr(Or)
  BY DEF Filled
<1> HIDE DEF P
<1>2. \E Or : IsOr(Or)
  <2> DEFINE h == [j \in Nat |-> IF j < count THEN P(j) ELSE 0]
  <2>1. h \in [Nat -> Int]
    BY DEF P
  <2>2. \A j \in 0 .. count - 1 : h[j] = P(j)
    OBVIOUS
  <2> HIDE DEF h
  <2>3. PICK g \in [0 .. count -> Int] : g[0] = 0 /\ \A j \in 0 .. count - 1 : g[j + 1] = g[j] + h[j]
    BY <2>1, SumExists
  <2>4. ASSUME NEW j \in 0 .. count PROVE g[j] = IF j = 0 THEN 0 ELSE g[j - 1] + P(j - 1)
    <3>1. CASE j = 0
      BY <2>3, <3>1
    <3>2. CASE j # 0
      <4>1. j - 1 \in 0 .. count - 1 /\ (j - 1) + 1 = j
        BY <3>2
      <4> QED BY <2>2, <2>3, <3>2, <4>1
    <3> QED BY <3>1, <3>2
  <2>5. IsOr(g)
    BY <2>4
  <2> HIDE DEF IsOr
  <2> QED BY <2>5
<1> DEFINE F == Filled(l, f, n)
<1>3. IsOr(F)
  <2> HIDE DEF IsOr
  <2> QED BY <1>1, <1>2
<1> HIDE DEF F
<1>4. F[0] = 0 /\ \A j \in 0 .. count - 1 : F[j + 1] = F[j] + P(j)
  <2>1. 0 \in 0 .. count
    OBVIOUS
  <2>2. ASSUME NEW j \in 0 .. count - 1 PROVE F[j + 1] = F[j] + P(j)
    <3>1. j + 1 \in 0 .. count /\ j + 1 # 0 /\ (j + 1) - 1 = j
      OBVIOUS
    <3> QED BY <1>3, <3>1
  <2>3. F[0] = 0
    BY <1>3, <2>1
  <2> QED BY <2>2, <2>3
<1>5. F \in [0 .. count -> Int]
  <2> DEFINE N == {j \in Nat : j <= count => F[j] \in Int}
  <2>1. 0 \in N
    BY <1>4
  <2>2. ASSUME NEW j \in Nat, j \in N PROVE j + 1 \in N
    <3> SUFFICES ASSUME j + 1 <= count PROVE F[j + 1] \in Int
      OBVIOUS
    <3>1. j \in 0 .. count - 1 /\ j <= count
      OBVIOUS
    <3>2. F[j] \in Int /\ P(j) \in Int /\ F[j + 1] = F[j] + P(j)
      BY <1>4, <2>2, <3>1 DEF P
    <3> QED BY <3>2
  <2> HIDE DEF N
  <2>3. Nat \subseteq N
    BY <2>1, <2>2, SetInduction
  <2>4. ASSUME NEW j \in 0 .. count PROVE F[j] \in Int
    <3>1. j \in Nat /\ j <= count
      OBVIOUS
    <3> QED BY <2>3, <3>1 DEF N
  <2>5. F = [j \in 0 .. count |-> F[j]]
    BY <1>3
  <2> QED BY <2>4, <2>5
<1> QED BY <1>4, <1>5 DEF F, P, OneByOne

\* What a field has in a byte depends on the bit it begins at, seen from that byte,
LEMMA PartIs ==
  ASSUME NEW l, l.width \in 1 .. 24, NEW f, NEW i \in Int, NEW n \in Int
  PROVE  Part(l, f, i, n) = PartAt(l.width, f, Place(l, i, n))
<1> DEFINE wd == l.width
<1> DEFINE a == wd * i
<1>0. wd \in Int /\ a \in Int /\ wd * (i + 1) = a + wd
  OBVIOUS
<1>1. CASE l.msb
  <2>1. Place(l, i, n) = 8 * (n + 1) - (a + wd)
    BY <1>0, <1>1 DEF Place
  <2> HIDE DEF wd, a
  <2>2. (a < 8 * (n + 1) /\ 8 * n < a + wd)
            <=> (8 * (n + 1) - (a + wd) < 8 /\ -wd < 8 * (n + 1) - (a + wd))
    BY <1>0
  <2> QED BY <1>0, <2>1, <2>2 DEF Part, PartAt, wd, a
<1>2. CASE ~l.msb
  <2>1. Place(l, i, n) = a - 8 * n
    BY <1>2 DEF Place
  <2> HIDE DEF wd, a
  <2>2. (a < 8 * (n + 1) /\ 8 * n < a + wd) <=> (a - 8 * n < 8 /\ -wd < a - 8 * n)
    BY <1>0
  <2> QED BY <1>0, <2>1, <2>2 DEF Part, PartAt, wd, a
<1> QED BY <1>1, <1>2

\* which is an integer,
LEMMA PlaceInt ==
  ASSUME NEW l, l.width \in 1 .. 24, NEW i \in Int, NEW n \in Int
  PROVE  Place(l, i, n) \in Int
<1> DEFINE wd == l.width
<1>1. wd \in Int
  OBVIOUS
<1> HIDE DEF wd
<1>2. wd * i \in Int /\ wd * (i + 1) \in Int
  BY <1>1
<1> QED BY <1>2 DEF Place, wd

\* and so is what the field has there.
LEMMA PartInt ==
  ASSUME NEW wd \in 1 .. 24, NEW f \in 0 .. Two(wd) - 1, NEW d \in Int
  PROVE  PartAt(wd, f, d) \in Int
<1>1. CASE d < 8 /\ -wd < d
  <2>1. Shift(f, d) \in Nat
    BY <1>1, TermIs
  <2>2. Shift(f, d) % 256 \in Int
    BY <2>1
  <2> QED BY <1>1, <2>2 DEF PartAt
<1>2. CASE ~(d < 8 /\ -wd < d)
  BY <1>2 DEF PartAt
<1> QED BY <1>1, <1>2

\* What is put into the bytes: fields of the width of their layout.
Packable(l, f, count) ==
    /\ l.width \in 1 .. 24 /\ count \in Nat /\ count = Cardinality(DOMAIN f)
    /\ f \in [0 .. count - 1 -> 0 .. Two(l.width) - 1]

\* A byte of packed fields, filled one field after the other.
LEMMA BytesAre ==
  ASSUME NEW l, NEW f, NEW count, Packable(l, f, count), NEW n \in Int
  PROVE  /\ Filled(l, f, n) \in [0 .. count -> Int]
         /\ Filled(l, f, n)[0] = 0
         /\ \A j \in 0 .. count - 1 :
                Filled(l, f, n)[j + 1] = Filled(l, f, n)[j] + PartAt(l.width, f[j], Place(l, j, n))
<1>0. /\ l.width \in 1 .. 24 /\ count \in Nat /\ count = Cardinality(DOMAIN f)
      /\ f \in [0 .. count - 1 -> 0 .. Two(l.width) - 1]
  BY DEF Packable
<1>1. ASSUME NEW j \in 0 .. count - 1
      PROVE  /\ Part(l, f[j], j, n) = PartAt(l.width, f[j], Place(l, j, n))
             /\ Part(l, f[j], j, n) \in Int
  <2>1. j \in Int /\ f[j] \in 0 .. Two(l.width) - 1
    BY <1>0
  <2>2. Place(l, j, n) \in Int
    BY <1>0, <2>1, PlaceInt
  <2>3. Part(l, f[j], j, n) = PartAt(l.width, f[j], Place(l, j, n))
    BY <1>0, <2>1, PartIs
  <2>4. PartAt(l.width, f[j], Place(l, j, n)) \in Int
    BY <1>0, <2>1, <2>2, PartInt
  <2> QED BY <2>3, <2>4
<1>2. \A j \in 0 .. count - 1 : Part(l, f[j], j, n) \in Int
  BY <1>1
<1>3. OneByOne(l, f, n, count)
  BY <1>0, <1>2, FilledIs
<1> QED BY <1>1, <1>3 DEF OneByOne

\* No field reaches a byte outside the array.
LEMMA OutsideZero ==
  ASSUME NEW l, NEW f, NEW count, Packable(l, f, count), NEW n \in Int,
         n < 0 \/ n >= PackedSize(l, count)
  PROVE  Filled(l, f, n)[count] = 0
<1> DEFINE wd == l.width
<1> DEFINE F == Filled(l, f, n)
<1>1. F \in [0 .. count -> Int] /\ F[0] = 0
      /\ \A j \in 0 .. count - 1 : F[j + 1] = F[j] + PartAt(wd, f[j], Place(l, j, n))
  BY BytesAre
<1>2. wd \in 1 .. 24 /\ wd \in Nat /\ count \in Nat
  <2>1. wd \in 1 .. 24 /\ count \in Nat
    BY DEF Packable
  <2> HIDE DEF wd
  <2> QED BY <2>1
<1>3. ASSUME NEW j \in 0 .. count - 1 PROVE PartAt(wd, f[j], Place(l, j, n)) = 0
  <2> DEFINE a == wd * j
  <2> DEFINE b == wd * (count - 1 - j)
  <2> DEFINE c == count * wd
  <2>1. a \in Nat /\ b \in Nat /\ c \in Nat /\ a + wd + b = c /\ wd * (j + 1) = a + wd /\ wd \in Nat
    BY <1>2
  <2>2. n < 0 \/ n >= (c + 7) \div 8
    BY DEF PackedSize
  <2> HIDE DEF wd, a, b, c
  <2>3. a >= 8 * (n + 1) \/ 8 * n >= a + wd
    BY <2>1, <2>2
  <2>4. Place(l, j, n) = 8 * (n + 1) - (a + wd) \/ Place(l, j, n) = a - 8 * n
    BY <2>1 DEF Place, wd, a
  <2>5. ~(Place(l, j, n) < 8 /\ -wd < Place(l, j, n))
    BY <2>1, <2>3, <2>4
  <2> QED BY <2>5 DEF PartAt
<1> HIDE DEF F, wd
<1>4. \A j \in Nat : 0 <= j /\ j < count => Apart(F[j], F[j + 1], 0)
  <2> SUFFICES ASSUME NEW j \in Nat, j < count PROVE Apart(F[j], F[j + 1], 0)
    OBVIOUS
  <2>1. j \in 0 .. count - 1 /\ j \in 0 .. count
    BY <1>2
  <2>2. F[j] \in Int /\ F[j + 1] = F[j] + 0
    BY <1>1, <1>3, <2>1
  <2>3. F[j + 1] = F[j] + 0 * 0 /\ 0 \in Int
    BY <2>2, SMT
  <2> QED BY <2>3 DEF Apart
<1>5. Apart(F[0], F[count], 0)
  <2>1. 0 \in Nat /\ 0 <= count /\ F[0] \in Int /\ 0 \in Int
    BY <1>1, <1>2
  <2> QED BY <1>2, <1>4, <2>1, Multiples
<1> QED BY <1>1, <1>5 DEF Apart, F

\* The byte that a field begins in, the direction of those behind it, and the bit.
First(l, i) == IF l.msb THEN PackedSize(l, i + 1) - 1 ELSE (l.width * i) \div 8
Step(l) == IF l.msb THEN -1 ELSE 1

\* The layouts there are: the widths of the code.
Layout(l) ==
    /\ l.width \in {1, 3, 4, 10, 12, 13, 18, 24}
    /\ l.msb \in BOOLEAN
    /\ l.msb => l.width \in {12, 24}

\* A field of these widths ends in the third byte at the latest.
LEMMA FieldBegins ==
  ASSUME NEW l, Layout(l), NEW i \in Nat
  PROVE  /\ First(l, i) \in Nat
         /\ Place(l, i, First(l, i)) \in 0 .. 7
         /\ Place(l, i, First(l, i)) + l.width <= 24
         /\ ~l.msb => Place(l, i, First(l, i)) <= l.width * i
<1> DEFINE wd == l.width
<1>1. CASE l.msb
  <2> DEFINE n == ((i + 1) * wd + 7) \div 8 - 1
  <2>1. First(l, i) = n /\ Place(l, i, n) = 8 * (n + 1) - wd * (i + 1)
    BY <1>1 DEF First, PackedSize, Place
  <2>2. n \in Nat /\ 8 * (n + 1) - wd * (i + 1) \in 0 .. 7 /\ (8 * (n + 1) - wd * (i + 1)) + wd <= 24
    <3>1. CASE wd = 12
      BY <3>1
    <3>2. CASE wd = 24
      BY <3>2
    <3> QED BY <1>1, <3>1, <3>2 DEF Layout
  <2> HIDE DEF n, wd
  <2> QED BY <1>1, <2>1, <2>2 DEF wd
<1>2. CASE ~l.msb
  <2> DEFINE n == (wd * i) \div 8
  <2>1. First(l, i) = n /\ Place(l, i, n) = wd * i - 8 * n
    BY <1>2 DEF First, Place
  <2>2. n \in Nat /\ wd * i - 8 * n \in 0 .. 7 /\ (wd * i - 8 * n) + wd <= 24 /\ wd * i - 8 * n <= wd * i
    <3>1. CASE wd = 1
      BY <3>1
    <3>2. CASE wd = 3
      BY <3>2
    <3>3. CASE wd = 4
      BY <3>3
    <3>4. CASE wd = 10
      BY <3>4
    <3>5. CASE wd = 12
      BY <3>5
    <3>6. CASE wd = 13
      BY <3>6
    <3>7. CASE wd = 18
      BY <3>7
    <3>8. CASE wd = 24
      BY <3>8
    <3> QED BY <3>1, <3>2, <3>3, <3>4, <3>5, <3>6, <3>7, <3>8 DEF Layout
  <2> HIDE DEF n, wd
  <2> QED BY <2>1, <2>2 DEF wd
<1> QED BY <1>1, <1>2

\* Where another field begins, seen from a field and from the bytes behind its first one.
LEMMA PlaceFrom ==
  ASSUME NEW l, Layout(l), NEW i \in Int, NEW j \in Int, NEW n \in Int, NEW k \in Int
  PROVE  Place(l, j, n + Step(l) * k)
             = (Place(l, i, n) + Step(l) * (l.width * (j - i))) - 8 * k
<1> DEFINE wd == l.width
<1>0. wd \in Int
  BY DEF Layout
<1>1. CASE l.msb
  <2>1. Step(l) = -1
    BY <1>1 DEF Step
  <2>2. /\ Place(l, j, n + (-1) * k) = 8 * ((n + (-1) * k) + 1) - wd * (j + 1)
        /\ Place(l, i, n) = 8 * (n + 1) - wd * (i + 1)
    BY <1>1 DEF Place
  <2> HIDE DEF wd
  <2>3. wd * (j - i) = wd * (j + 1) - wd * (i + 1) /\ wd * (j + 1) \in Int /\ wd * (i + 1) \in Int
    BY <1>0
  <2> DEFINE a == wd * (j + 1)
  <2> DEFINE b == wd * (i + 1)
  <2> DEFINE c == wd * (j - i)
  <2>4. a \in Int /\ b \in Int /\ c = a - b
    BY <2>3
  <2>5. 8 * ((n + (-1) * k) + 1) - a = ((8 * (n + 1) - b) + (-1) * c) - 8 * k
    <3> HIDE DEF a, b, c
    <3> QED BY <2>4
  <2> QED BY <2>1, <2>2, <2>5 DEF wd
<1>2. CASE ~l.msb
  <2>1. Step(l) = 1
    BY <1>2 DEF Step
  <2>2. /\ Place(l, j, n + 1 * k) = wd * j - 8 * (n + 1 * k)
        /\ Place(l, i, n) = wd * i - 8 * n
    BY <1>2 DEF Place
  <2> HIDE DEF wd
  <2>3. wd * (j - i) = wd * j - wd * i /\ wd * j \in Int /\ wd * i \in Int
    BY <1>0
  <2> DEFINE a == wd * j
  <2> DEFINE b == wd * i
  <2> DEFINE c == wd * (j - i)
  <2>4. a \in Int /\ b \in Int /\ c = a - b
    BY <2>3
  <2>5. a - 8 * (n + 1 * k) = ((b - 8 * n) + 1 * c) - 8 * k
    <3> HIDE DEF a, b, c
    <3> QED BY <2>4
  <2> QED BY <2>1, <2>2, <2>5 DEF wd
<1> QED BY <1>1, <1>2

\* Three bytes as the fields are put into them one by one.
Three(l, f, n, count) ==
    [j \in 0 .. count |-> (Filled(l, f, n)[j] + 256 * Filled(l, f, n + Step(l) * 1)[j])
                              + 65536 * Filled(l, f, n + Step(l) * 2)[j]]

\* The three bytes that are read.
LEMMA StepInt ==
  ASSUME NEW l, NEW n \in Int
  PROVE  /\ Step(l) \in {1, -1} /\ n + Step(l) * 0 = n
         /\ n + Step(l) * 1 \in Int /\ n + Step(l) * 2 \in Int
BY DEF Step

\* What Packable says, for a leaf.
LEMMA FieldsAre ==
  ASSUME NEW l, NEW f, NEW count, Packable(l, f, count)
  PROVE  /\ l.width \in 1 .. 24 /\ l.width \in Int /\ count \in Nat
         /\ f \in [0 .. count - 1 -> 0 .. Two(l.width) - 1]
<1>1. l.width \in 1 .. 24 /\ count \in Nat /\ f \in [0 .. count - 1 -> 0 .. Two(l.width) - 1]
  BY DEF Packable
<1>2. \A wd \in 1 .. 24 : wd \in Int
  OBVIOUS
<1> QED BY <1>1, <1>2

\* One field more in the three bytes that Unpacked reads.
LEMMA ThreeStep ==
  ASSUME NEW l, NEW f, NEW count, Packable(l, f, count), NEW n \in Int,
         NEW j \in 0 .. count - 1, NEW d \in Int,
         Place(l, j, n) = d, Place(l, j, n + Step(l) * 1) = d - 8,
         Place(l, j, n + Step(l) * 2) = d - 16
  PROVE  Three(l, f, n, count)[j + 1] = Three(l, f, n, count)[j] + TermAt(l.width, f[j], d)
<1> DEFINE A == Filled(l, f, n)
<1> DEFINE B == Filled(l, f, n + Step(l) * 1)
<1> DEFINE C == Filled(l, f, n + Step(l) * 2)
<1> DEFINE p == PartAt(l.width, f[j], d)
<1> DEFINE q == PartAt(l.width, f[j], d - 8)
<1> DEFINE r == PartAt(l.width, f[j], d - 16)
<1>0. /\ l.width \in 1 .. 24 /\ f[j] \in 0 .. Two(l.width) - 1
      /\ j \in 0 .. count /\ j + 1 \in 0 .. count
  <2>1. l.width \in 1 .. 24 /\ count \in Nat /\ f \in [0 .. count - 1 -> 0 .. Two(l.width) - 1]
    BY FieldsAre
  <2> QED BY <2>1
<1>1. n + Step(l) * 1 \in Int /\ n + Step(l) * 2 \in Int
  BY StepInt
<1>2. A[j] \in Int /\ A[j + 1] = A[j] + p
  <2>1. A \in [0 .. count -> Int] /\ A[j + 1] = A[j] + PartAt(l.width, f[j], Place(l, j, n))
    BY BytesAre
  <2> QED BY <1>0, <2>1
<1>3. B[j] \in Int /\ B[j + 1] = B[j] + q
  <2>1. B \in [0 .. count -> Int]
        /\ B[j + 1] = B[j] + PartAt(l.width, f[j], Place(l, j, n + Step(l) * 1))
    BY <1>1, BytesAre
  <2> QED BY <1>0, <2>1
<1>4. C[j] \in Int /\ C[j + 1] = C[j] + r
  <2>1. C \in [0 .. count -> Int]
        /\ C[j + 1] = C[j] + PartAt(l.width, f[j], Place(l, j, n + Step(l) * 2))
    BY <1>1, BytesAre
  <2> QED BY <1>0, <2>1
<1>5. p \in Int /\ q \in Int /\ r \in Int
  <2>1. d - 8 \in Int /\ d - 16 \in Int
    OBVIOUS
  <2>2. PartAt(l.width, f[j], d) \in Int
    BY <1>0, PartInt
  <2>3. PartAt(l.width, f[j], d - 8) \in Int
    BY <1>0, <2>1, PartInt
  <2>4. PartAt(l.width, f[j], d - 16) \in Int
    BY <1>0, <2>1, PartInt
  <2> QED BY <2>2, <2>3, <2>4
<1>6. /\ Three(l, f, n, count)[j + 1] = (A[j + 1] + 256 * B[j + 1]) + 65536 * C[j + 1]
      /\ Three(l, f, n, count)[j] = (A[j] + 256 * B[j]) + 65536 * C[j]
  BY <1>0 DEF Three
<1>7. TermAt(l.width, f[j], d) = (p + 256 * q) + 65536 * r
  BY DEF TermAt
<1> DEFINE a == A[j]
<1> DEFINE b == B[j]
<1> DEFINE c == C[j]
<1>8. a \in Int /\ b \in Int /\ c \in Int
  BY <1>2, <1>3, <1>4
<1>9. /\ Three(l, f, n, count)[j + 1] = ((a + p) + 256 * (b + q)) + 65536 * (c + r)
      /\ Three(l, f, n, count)[j] = (a + 256 * b) + 65536 * c
  BY <1>2, <1>3, <1>4, <1>6
<1> HIDE DEF a, b, c, p, q, r, A, B, C
<1>10. ((a + p) + 256 * (b + q)) + 65536 * (c + r)
           = ((a + 256 * b) + 65536 * c) + ((p + 256 * q) + 65536 * r)
  BY <1>5, <1>8
<1> QED BY <1>7, <1>9, <1>10

\* They hold an integer, zero before the first field.
LEMMA ThreeInt ==
  ASSUME NEW l, NEW f, NEW count, Packable(l, f, count), NEW n \in Int
  PROVE  Three(l, f, n, count) \in [0 .. count -> Int] /\ Three(l, f, n, count)[0] = 0
<1> DEFINE A == Filled(l, f, n)
<1> DEFINE B == Filled(l, f, n + Step(l) * 1)
<1> DEFINE C == Filled(l, f, n + Step(l) * 2)
<1>0. count \in Nat
  BY FieldsAre
<1>1. n + Step(l) * 1 \in Int /\ n + Step(l) * 2 \in Int
  BY StepInt
<1>2. A \in [0 .. count -> Int] /\ A[0] = 0
  BY BytesAre
<1>3. B \in [0 .. count -> Int] /\ B[0] = 0
  BY <1>1, BytesAre
<1>4. C \in [0 .. count -> Int] /\ C[0] = 0
  BY <1>1, BytesAre
<1>5. Three(l, f, n, count) = [j \in 0 .. count |-> (A[j] + 256 * B[j]) + 65536 * C[j]]
  BY DEF Three
<1> HIDE DEF A, B, C
<1>6. \A j \in 0 .. count : (A[j] + 256 * B[j]) + 65536 * C[j] \in Int
  BY <1>2, <1>3, <1>4
<1>7. [j \in 0 .. count |-> (A[j] + 256 * B[j]) + 65536 * C[j]] \in [0 .. count -> Int]
  BY <1>6
<1>8. 0 \in 0 .. count
  BY <1>0
<1>9. [j \in 0 .. count |-> (A[j] + 256 * B[j]) + 65536 * C[j]][0] = 0
  BY <1>2, <1>3, <1>4, <1>8
<1> QED BY <1>5, <1>7, <1>9

\* The three bytes that Unpacked reads for field i hold all of it.
LEMMA WindowIs ==
  ASSUME NEW l, NEW f, NEW count, Packable(l, f, count), Layout(l), NEW i \in 0 .. count - 1
  PROVE  Window(l.width, count, f, i, Place(l, i, First(l, i)), Step(l),
                Three(l, f, First(l, i), count))
<1> DEFINE n == First(l, i)
<1> DEFINE o == Place(l, i, n)
<1> DEFINE wd == l.width
<1> DEFINE W == Three(l, f, n, count)
<1>0. /\ l.width \in 1 .. 24 /\ l.width \in Int /\ count \in Nat
      /\ f \in [0 .. count - 1 -> 0 .. Two(l.width) - 1]
  BY FieldsAre
<1>1. n \in Int /\ o \in Nat /\ o + wd <= 24 /\ i \in Int /\ wd \in Int
  <2>1. i \in Nat
    BY <1>0
  <2>2. n \in Nat /\ o \in 0 .. 7 /\ o + wd <= 24
    BY <2>1, FieldBegins
  <2>3. wd \in Int
    BY <1>0
  <2> HIDE DEF n, o, wd
  <2> QED BY <2>1, <2>2, <2>3
<1>2. W \in [0 .. count -> Int] /\ W[0] = 0
  BY <1>1, ThreeInt
<1>3. ASSUME NEW j \in 0 .. count - 1
      PROVE  W[j + 1] = W[j] + TermAt(l.width, f[j], o + Step(l) * (wd * (j - i)))
  <2> DEFINE d == o + Step(l) * (wd * (j - i))
  <2>0. j \in Int
    OBVIOUS
  <2>1. d \in Int
    <3> HIDE DEF wd, o
    <3> DEFINE a == wd * (j - i)
    <3>1. a \in Int
      BY <1>1, <2>0
    <3> HIDE DEF a
    <3>2. Step(l) \in {1, -1}
      BY <1>1, StepInt
    <3>3. o + Step(l) * a \in Int
      BY <1>1, <3>1, <3>2
    <3> QED BY <3>3 DEF a
  <2> HIDE DEF n
  <2>2. Place(l, j, n + Step(l) * 0) = d - 8 * 0
    BY <1>1, <2>0, PlaceFrom
  <2>3. Place(l, j, n + Step(l) * 1) = d - 8 * 1
    BY <1>1, <2>0, PlaceFrom
  <2>4. Place(l, j, n + Step(l) * 2) = d - 8 * 2
    BY <1>1, <2>0, PlaceFrom
  <2>5. n + Step(l) * 0 = n
    BY <1>1, StepInt
  <2> HIDE DEF d
  <2>6. d - 8 * 0 = d /\ d - 8 * 1 = d - 8 /\ d - 8 * 2 = d - 16
    BY <2>1
  <2>7. /\ Place(l, j, n) = d /\ Place(l, j, n + Step(l) * 1) = d - 8
        /\ Place(l, j, n + Step(l) * 2) = d - 16
    BY <2>2, <2>3, <2>4, <2>5, <2>6
  <2>8. Three(l, f, n, count)[j + 1] = Three(l, f, n, count)[j] + TermAt(l.width, f[j], d)
    BY <1>1, <2>1, <2>7, ThreeStep
  <2> QED BY <2>8 DEF d
<1> HIDE DEF n, o, W
<1>4. Window(l.width, count, f, i, o, Step(l), W)
  BY <1>0, <1>1, <1>2, <1>3 DEF Window
<1> QED BY <1>4 DEF n, o, W

\* What is unpacked is the field that was packed.
LEMMA UnpackedIs ==
  ASSUME NEW l, NEW f, NEW count, Packable(l, f, count), Layout(l), NEW i \in 0 .. count - 1
  PROVE  Unpacked(l, Packed(l, f), i) = f[i]
<1> DEFINE n == First(l, i)
<1> DEFINE o == Place(l, i, n)
<1> DEFINE wd == l.width
<1> DEFINE W == Three(l, f, n, count)
<1> DEFINE b == Packed(l, f)
<1> DEFINE At(k) == IF k \in DOMAIN b THEN b[k] ELSE 0
<1>0. /\ wd \in 1 .. 24 /\ count \in Nat /\ i \in Nat /\ f[i] \in 0 .. Two(wd) - 1
      /\ count = Cardinality(DOMAIN f)
  <2>1. /\ l.width \in 1 .. 24 /\ count \in Nat /\ f \in [0 .. count - 1 -> 0 .. Two(l.width) - 1]
    BY FieldsAre
  <2>2. count = Cardinality(DOMAIN f)
    BY DEF Packable
  <2>3. i \in Nat
    BY <2>1
  <2> QED BY <2>1, <2>2, <2>3
<1>1. n \in Nat /\ o \in 0 .. 7 /\ o + wd <= 24 /\ (~l.msb => o <= wd * i)
  BY <1>0, FieldBegins
<1>2. Window(wd, count, f, i, o, Step(l), W)
  BY WindowIs
<1>3. \E L \in 0 .. Two(o) - 1 : \E m \in Int : W[count] = (L + Two(o) * f[i]) + Two(o + wd) * m
  <2>1. CASE l.msb
    <3>1. Step(l) = -1 /\ wd \in 8 .. 24
      <4>1. l.width \in {12, 24}
        BY <2>1 DEF Layout
      <4>2. Step(l) = -1
        BY <2>1 DEF Step
      <4> QED BY <4>1, <4>2
    <3>2. o < 8
      <4> HIDE DEF o
      <4> QED BY <1>1
    <3>3. Window(wd, count, f, i, o, -1, W)
      BY <1>2, <3>1
    <3> HIDE DEF wd, o, W
    <3> QED BY <1>0, <3>1, <3>2, <3>3, HighFirst
  <2>2. CASE ~l.msb
    <3>1. Window(wd, count, f, i, o, 1, W)
      BY <1>2, <2>2 DEF Step
    <3> HIDE DEF wd, o, W
    <3> QED BY <1>0, <1>1, <2>2, <3>1, LowFirst
  <2> QED BY <2>1, <2>2
<1>4. ASSUME NEW k \in Int PROVE At(k) = Filled(l, f, k)[count]
  <2>1. b = [j \in 0 .. PackedSize(l, count) - 1 |-> Filled(l, f, j)[count]]
    BY <1>0 DEF Packed
  <2>2. CASE k \in 0 .. PackedSize(l, count) - 1
    <3> HIDE DEF b
    <3> QED BY <2>1, <2>2
  <2>3. CASE k \notin 0 .. PackedSize(l, count) - 1
    <3>1. PackedSize(l, count) \in Int
      <4> DEFINE c == count * wd
      <4>1. c \in Int
        <5> HIDE DEF wd
        <5> QED BY <1>0
      <4> HIDE DEF c
      <4>2. (c + 7) \div 8 \in Int
        BY <4>1
      <4> QED BY <4>2 DEF c, PackedSize
    <3>2. k < 0 \/ k >= PackedSize(l, count)
      BY <2>3, <3>1
    <3>3. Filled(l, f, k)[count] = 0
      BY <3>2, OutsideZero
    <3> HIDE DEF b
    <3> QED BY <2>1, <2>3, <3>3
  <2> QED BY <2>2, <2>3
<1>5. W[count] = (At(n) + 256 * At(n + Step(l))) + 65536 * At(n + 2 * Step(l))
  <2> HIDE DEF n, At
  <2>1. /\ n \in Int /\ n + Step(l) \in Int /\ n + 2 * Step(l) \in Int
        /\ n + Step(l) * 1 = n + Step(l) /\ n + Step(l) * 2 = n + 2 * Step(l)
    BY <1>1 DEF Step
  <2>2. count \in 0 .. count
    BY <1>0
  <2>3. W[count] = (Filled(l, f, n)[count] + 256 * Filled(l, f, n + Step(l) * 1)[count])
                       + 65536 * Filled(l, f, n + Step(l) * 2)[count]
    BY <2>2 DEF Three
  <2> QED BY <1>4, <2>1, <2>3
<1>6. Unpacked(l, b, i)
          = Shift((At(n) + 256 * At(n + Step(l))) + 65536 * At(n + 2 * Step(l)), -o) % 2^wd
  BY DEF Unpacked, First, Step
<1>7. o \in 0 .. 24
  <2> HIDE DEF o
  <2> QED BY <1>1
<1> HIDE DEF W, b, At, o, wd, n
<1>8. Holds(W[count], o, wd, f[i])
  BY <1>3 DEF Holds
<1>9. Shift(W[count], -o) % 2^wd = f[i]
  BY <1>0, <1>1, <1>7, <1>8, Extract
<1> QED BY <1>5, <1>6, <1>9 DEF b

(***************************************************************************)
(* Packing: the pairs                                                      *)
(***************************************************************************)
\* What a pair writes is a field of its layout, and reading it gives the coefficient back.
Agrees(p) ==
    /\ Layout(p.write) /\ Layout(p.read)
    /\ p.read.width = p.write.width /\ p.read.msb = p.write.msb
    /\ \A x \in p.from .. p.to :
         /\ Field(p.write, x) \in 0 .. Two(p.write.width) - 1
         /\ Coefficient(p.read, Field(p.write, x))
                = IF p.read.restored /\ x >= 2^(p.read.bits - 1) THEN x - 2^p.read.bits ELSE x

\* The parts of Agrees, gathered.
LEMMA Agreement ==
  ASSUME NEW p, NEW wd \in {1, 3, 4, 10, 12, 13, 18, 24},
         p.write.width = wd, p.read.width = wd, p.write.msb \in BOOLEAN, p.read.msb = p.write.msb,
         p.write.msb => wd \in {12, 24},
         \A x \in p.from .. p.to :
             /\ Field(p.write, x) \in 0 .. Two(wd) - 1
             /\ Coefficient(p.read, Field(p.write, x))
                    = IF p.read.restored /\ x >= 2^(p.read.bits - 1) THEN x - 2^p.read.bits ELSE x
  PROVE  Agrees(p)
BY DEF Agrees, Layout

\* A field of all its bits, from the lowest bit on, whose sign is not restored.
Straight(l, wd, base) ==
    l.width = wd /\ l.bits = wd /\ l.base = base /\ l.restored = FALSE /\ l.msb = FALSE

\* A field of the low bits of a coefficient of either sign, written and read.
Cut(l, wd, b) == l.width = wd /\ l.bits = b /\ l.base = 0 /\ l.restored = FALSE
Restored(l, wd, b) == l.width = wd /\ l.bits = b /\ l.base = 0 /\ l.restored = TRUE

\* The low bits of a coefficient that has no more.
LEMMA AllBits ==
  ASSUME NEW p, NEW wd \in {1, 4, 10, 12}, Straight(p.write, wd, 0), Straight(p.read, wd, 0),
         p.from = 0, p.to \in Nat, p.to <= Two(wd) - 1
  PROVE  Agrees(p)
<1>1. Two(wd) \in Nat \ {0} /\ 2^wd = Two(wd)
  BY TwoNat DEF Two
<1>2. ASSUME NEW x \in p.from .. p.to
      PROVE  /\ Field(p.write, x) \in 0 .. Two(wd) - 1
             /\ Coefficient(p.read, Field(p.write, x))
                    = IF p.read.restored /\ x >= 2^(p.read.bits - 1) THEN x - 2^p.read.bits ELSE x
  <2>1. x \in Nat /\ x <= Two(wd) - 1
    BY <1>1
  <2>2. Field(p.write, x) = x % Two(wd)
    BY <1>1 DEF Field, Straight
  <2>3. x % Two(wd) = x
    <3>1. x = Two(wd) * 0 + x /\ x \in 0 .. Two(wd) - 1
      BY <1>1, <2>1
    <3> QED BY <1>1, <2>1, <3>1, DivisionIs
  <2>4. Coefficient(p.read, x) = x /\ ~p.read.restored
    BY DEF Coefficient, Straight
  <2> QED BY <1>1, <2>1, <2>2, <2>3, <2>4
<1>3. wd \in {1, 3, 4, 10, 12, 13, 18, 24}
  OBVIOUS
<1>4. /\ p.write.width = wd /\ p.read.width = wd /\ p.write.msb \in BOOLEAN
      /\ p.read.msb = p.write.msb /\ ~p.write.msb
  BY DEF Straight
<1> QED BY <1>2, <1>3, <1>4, Agreement

\* A coefficient as its distance from the greatest one.
LEMMA Distance ==
  ASSUME NEW p, NEW wd \in {3, 13, 18}, NEW base \in Nat \ {0}, Straight(p.write, wd, base),
         Straight(p.read, wd, base), p.from \in Int, p.to \in Int,
         p.to <= base, base - p.from <= Two(wd) - 1
  PROVE  Agrees(p)
<1>1. Two(wd) \in Nat \ {0}
  BY TwoNat
<1>2. ASSUME NEW x \in p.from .. p.to
      PROVE  /\ Field(p.write, x) \in 0 .. Two(wd) - 1
             /\ Coefficient(p.read, Field(p.write, x))
                    = IF p.read.restored /\ x >= 2^(p.read.bits - 1) THEN x - 2^p.read.bits ELSE x
  <2>1. x \in Int /\ base - x \in 0 .. Two(wd) - 1
    BY <1>1
  <2>2. Field(p.write, x) = base - x
    BY DEF Field, Straight
  <2>3. Coefficient(p.read, base - x) = base - (base - x) /\ ~p.read.restored
    BY DEF Coefficient, Straight
  <2>4. base - (base - x) = x
    BY <2>1
  <2> QED BY <2>1, <2>2, <2>3, <2>4
<1>3. wd \in {1, 3, 4, 10, 12, 13, 18, 24}
  OBVIOUS
<1>4. /\ p.write.width = wd /\ p.read.width = wd /\ p.write.msb \in BOOLEAN
      /\ p.read.msb = p.write.msb /\ ~p.write.msb
  BY DEF Straight
<1> QED BY <1>2, <1>3, <1>4, Agreement

\* The low bits of a coefficient of either sign.
LEMMA SignedBits ==
  ASSUME NEW p, NEW wd \in {12, 24}, NEW b \in {12, 23, 24}, b <= wd,
         Cut(p.write, wd, b), Restored(p.read, wd, b),
         p.write.msb \in BOOLEAN, p.read.msb = p.write.msb,
         p.from \in Int, p.to \in Int, -Two(b - 1) <= p.from, p.to <= Two(b) - 1
  PROVE  Agrees(p)
<1>1. /\ b - 1 \in 0 .. 23 /\ b \in 0 .. 24 /\ (b - 1) + 1 = b /\ b \in Nat
      /\ wd \in Nat /\ wd <= 24
  OBVIOUS
<1>2. /\ Two(b - 1) \in Nat \ {0} /\ Two(b) \in Nat \ {0} /\ Two(b) = 2 * Two(b - 1)
      /\ Two(b) <= Two(wd) /\ Two(wd) \in Nat /\ 2^b = Two(b) /\ 2^(b - 1) = Two(b - 1)
  <2>1. Two((b - 1) + 1) = 2 * Two(b - 1)
    BY <1>1, TwoStep
  <2>2. 2^b = Two(b) /\ 2^(b - 1) = Two(b - 1)
    BY DEF Two
  <2>3. Two(b) <= Two(wd)
    BY <1>1, TwoMonotone
  <2>4. wd \in 0 .. 24
    OBVIOUS
  <2> QED BY <1>1, <2>1, <2>2, <2>3, <2>4, TwoNat
<1>3. ASSUME NEW x \in p.from .. p.to
      PROVE  /\ Field(p.write, x) \in 0 .. Two(wd) - 1
             /\ Coefficient(p.read, Field(p.write, x))
                    = IF p.read.restored /\ x >= 2^(p.read.bits - 1) THEN x - 2^p.read.bits ELSE x
  <2> DEFINE h == Two(b - 1)
  <2> DEFINE t == Two(b)
  <2> DEFINE f == x % t
  <2>1. /\ h \in Nat \ {0} /\ t = 2 * h /\ t <= Two(wd) /\ Two(wd) \in Nat
        /\ x \in Int /\ -h <= x /\ x <= t - 1
    BY <1>2
  <2>2. Field(p.write, x) = f
    BY <1>2 DEF Field, Cut
  <2>3. Coefficient(p.read, f) = IF f >= h THEN f - t ELSE f
    BY <1>2 DEF Coefficient, Restored
  <2>4. p.read.restored /\ 2^(p.read.bits - 1) = h /\ 2^p.read.bits = t
    BY <1>2 DEF Restored
  <2> HIDE DEF h, t
  <2>5. f = IF x < 0 THEN x + t ELSE x
    <3>1. CASE x < 0
      <4>1. x = t * (-1) + (x + t) /\ x + t \in 0 .. t - 1 /\ t \in Nat \ {0} /\ -1 \in Int
        BY <2>1, <3>1
      <4>2. IsDivision(x, t, -1, x + t)
        BY <4>1 DEF IsDivision
      <4>3. f = x + t
        BY <2>1, <4>1, <4>2, DivisionOf
      <4> QED BY <3>1, <4>3
    <3>2. CASE x >= 0
      <4>1. x = t * 0 + x /\ x \in 0 .. t - 1 /\ t \in Nat \ {0} /\ ~(x < 0)
        BY <2>1, <3>2
      <4>2. IsDivision(x, t, 0, x)
        BY <4>1 DEF IsDivision
      <4>3. f = x
        BY <2>1, <4>1, <4>2, DivisionOf
      <4> QED BY <4>1, <4>3
    <3> QED BY <2>1, <3>1, <3>2
  <2> HIDE DEF f
  <2>6. f \in 0 .. Two(wd) - 1
    BY <2>1, <2>5
  <2>7. (IF f >= h THEN f - t ELSE f) = IF x >= h THEN x - t ELSE x
    BY <2>1, <2>5
  <2> QED BY <2>2, <2>3, <2>4, <2>6, <2>7
<1>4. wd \in {1, 3, 4, 10, 12, 13, 18, 24}
  OBVIOUS
<1>5. p.write.width = wd /\ p.read.width = wd
  BY DEF Cut, Restored
<1> QED BY <1>3, <1>4, <1>5, Agreement

\* The bounds of the pairs are those of their fields.
LEMMA PairsAgree == \A p \in Pairs : Agrees(p)
<1> SUFFICES ASSUME NEW p \in Pairs PROVE Agrees(p)
  OBVIOUS
<1>1. CASE \/ p = [write |-> poly_tobytes, read |-> poly_frombytes, from |-> 0, to |-> 3328]
           \/ p = [write |-> pack_kyber_poly, read |-> unpack_kyber_poly, from |-> 0, to |-> 3328]
  <2>1. p.write = Plain(12) /\ p.read = Plain(12) /\ p.from = 0 /\ p.to = 3328
    BY <1>1, SMT DEF poly_tobytes, poly_frombytes, pack_kyber_poly, unpack_kyber_poly
  <2>2. Straight(p.write, 12, 0) /\ Straight(p.read, 12, 0)
    BY <2>1, SMT DEF Straight, Cut, Restored, Plain, Msb
  <2>3. 3328 <= Two(12) - 1 /\ 12 \in {1, 4, 10, 12}
    BY TwoIs, SMT
  <2>4. p.from = 0 /\ p.to \in Nat /\ p.to <= Two(12) - 1
    BY <2>1, <2>3, SMT
  <2> QED BY <2>2, <2>3, <2>4, AllBits, SMT
<1>2. CASE \/ p = [write |-> compress[10], read |-> decompress[10], from |-> 0, to |-> 1023]
           \/ p = [write |-> pack_t1, read |-> unpack_pk, from |-> 0, to |-> 1023]
  <2>1. p.write = Plain(10) /\ p.read = Plain(10) /\ p.from = 0 /\ p.to = 1023
    BY <1>2, SMT DEF compress, decompress, pack_t1, unpack_pk
  <2>2. Straight(p.write, 10, 0) /\ Straight(p.read, 10, 0)
    BY <2>1, SMT DEF Straight, Cut, Restored, Plain, Msb
  <2>3. 1023 <= Two(10) - 1 /\ 10 \in {1, 4, 10, 12}
    BY TwoIs, SMT
  <2>4. p.from = 0 /\ p.to \in Nat /\ p.to <= Two(10) - 1
    BY <2>1, <2>3, SMT
  <2> QED BY <2>2, <2>3, <2>4, AllBits, SMT
<1>3. CASE p = [write |-> compress[4], read |-> decompress[4], from |-> 0, to |-> 15]
  <2>1. p.write = Plain(4) /\ p.read = Plain(4) /\ p.from = 0 /\ p.to = 15
    BY <1>3, SMT DEF compress, decompress
  <2>2. Straight(p.write, 4, 0) /\ Straight(p.read, 4, 0)
    BY <2>1, SMT DEF Straight, Cut, Restored, Plain, Msb
  <2>3. 15 <= Two(4) - 1 /\ 4 \in {1, 4, 10, 12}
    BY TwoIs, SMT
  <2>4. p.from = 0 /\ p.to \in Nat /\ p.to <= Two(4) - 1
    BY <2>1, <2>3, SMT
  <2> QED BY <2>2, <2>3, <2>4, AllBits, SMT
<1>4. CASE p = [write |-> tomsg, read |-> frommsg, from |-> 0, to |-> 1]
  <2>1. p.write = Plain(1) /\ p.read = Plain(1) /\ p.from = 0 /\ p.to = 1
    BY <1>4, SMT DEF tomsg, frommsg
  <2>2. Straight(p.write, 1, 0) /\ Straight(p.read, 1, 0)
    BY <2>1, SMT DEF Straight, Cut, Restored, Plain, Msb
  <2>3. 1 <= Two(1) - 1 /\ 1 \in {1, 4, 10, 12}
    BY TwoIs, SMT
  <2>4. p.from = 0 /\ p.to \in Nat /\ p.to <= Two(1) - 1
    BY <2>1, <2>3, SMT
  <2> QED BY <2>2, <2>3, <2>4, AllBits, SMT
<1>5. CASE p = [write |-> pack_eta, read |-> unpack_eta, from |-> -2, to |-> 2]
  <2>1. /\ p.write = [Plain(3) EXCEPT !.base = 2] /\ p.read = [Plain(3) EXCEPT !.base = 2]
        /\ p.from = -2 /\ p.to = 2
    BY <1>5, SMT DEF pack_eta, unpack_eta
  <2>2. Straight(p.write, 3, 2) /\ Straight(p.read, 3, 2)
    BY <2>1, SMT DEF Straight, Cut, Restored, Plain, Msb
  <2>3. 2 - (-2) <= Two(3) - 1 /\ 3 \in {3, 13, 18} /\ 2 \in Nat \ {0}
    BY TwoIs, SMT
  <2>4. p.from \in Int /\ p.to \in Int /\ p.to <= 2 /\ 2 - p.from <= Two(3) - 1
    BY <2>1, <2>3, SMT
  <2> QED BY <2>2, <2>3, <2>4, Distance, SMT
<1>6. CASE p = [write |-> pack_t0, read |-> unpack_t0, from |-> -4095, to |-> 4096]
  <2>1. /\ p.write = [Plain(13) EXCEPT !.base = 4096] /\ p.read = [Plain(13) EXCEPT !.base = 4096]
        /\ p.from = -4095 /\ p.to = 4096
    BY <1>6, SMT DEF pack_t0, unpack_t0
  <2>2. Straight(p.write, 13, 4096) /\ Straight(p.read, 13, 4096)
    BY <2>1, SMT DEF Straight, Cut, Restored, Plain, Msb
  <2>3. 4096 - (-4095) <= Two(13) - 1 /\ 13 \in {3, 13, 18} /\ 4096 \in Nat \ {0}
    BY TwoIs, SMT
  <2>4. p.from \in Int /\ p.to \in Int /\ p.to <= 4096 /\ 4096 - p.from <= Two(13) - 1
    BY <2>1, <2>3, SMT
  <2> QED BY <2>2, <2>3, <2>4, Distance, SMT
<1>7. CASE p = [write |-> pack_z, read |-> unpack_sig, from |-> -131071, to |-> 131071]
  <2>1. /\ p.write = [Plain(18) EXCEPT !.base = 131072]
        /\ p.read = [Plain(18) EXCEPT !.base = 131072]
        /\ p.from = -131071 /\ p.to = 131071
    BY <1>7, SMT DEF pack_z, unpack_sig
  <2>2. Straight(p.write, 18, 131072) /\ Straight(p.read, 18, 131072)
    BY <2>1, SMT DEF Straight, Cut, Restored, Plain, Msb
  <2>3. 131072 - (-131071) <= Two(18) - 1 /\ 18 \in {3, 13, 18} /\ 131072 \in Nat \ {0}
    BY TwoIs, SMT
  <2>4. p.from \in Int /\ p.to \in Int /\ p.to <= 131072 /\ 131072 - p.from <= Two(18) - 1
    BY <2>1, <2>3, SMT
  <2> QED BY <2>2, <2>3, <2>4, Distance, SMT
<1>8. CASE p = [write |-> pack_dilithium_poly, read |-> unpack_dilithium_poly,
                from |-> -4194304, to |-> 8380416]
  <2>1. /\ p.write = [Plain(24) EXCEPT !.bits = 23]
        /\ p.read = [Plain(24) EXCEPT !.bits = 23, !.restored = TRUE]
        /\ p.from = -4194304 /\ p.to = 8380416
    BY <1>8, SMT DEF pack_dilithium_poly, unpack_dilithium_poly
  <2>2. /\ Cut(p.write, 24, 23) /\ Restored(p.read, 24, 23)
        /\ p.write.msb = FALSE /\ p.read.msb = FALSE
    BY <2>1, SMT DEF Straight, Cut, Restored, Plain, Msb
  <2>3. /\ -Two(23 - 1) <= -4194304 /\ 8380416 <= Two(23) - 1 /\ 24 \in {12, 24}
        /\ 23 \in {12, 23, 24} /\ 23 <= 24
    <3>1. 23 - 1 = 22
      OBVIOUS
    <3> QED BY <3>1, TwoIs, SMT
  <2>4. /\ p.from \in Int /\ p.to \in Int /\ -Two(23 - 1) <= p.from /\ p.to <= Two(23) - 1
    BY <2>1, <2>3, SMT
  <2>5. p.write.msb \in BOOLEAN /\ p.read.msb = p.write.msb
    BY <2>2, Zenon
  <2> QED BY <2>2, <2>3, <2>4, <2>5, SignedBits, SMT
<1>9. CASE p = [write |-> pack_kyber_coefficients, read |-> unpack_kyber_coefficients,
                from |-> -2048, to |-> 3328]
  <2>1. /\ p.write = Msb(12) /\ p.read = [Msb(12) EXCEPT !.restored = TRUE]
        /\ p.from = -2048 /\ p.to = 3328
    BY <1>9, SMT DEF pack_kyber_coefficients, unpack_kyber_coefficients
  <2>2. /\ Cut(p.write, 12, 12) /\ Restored(p.read, 12, 12)
        /\ p.write.msb = TRUE /\ p.read.msb = TRUE
    BY <2>1, SMT DEF Straight, Cut, Restored, Plain, Msb
  <2>3. /\ -Two(12 - 1) <= -2048 /\ 3328 <= Two(12) - 1 /\ 12 \in {12, 24}
        /\ 12 \in {12, 23, 24} /\ 12 <= 12
    <3>1. 12 - 1 = 11
      OBVIOUS
    <3> QED BY <3>1, TwoIs, SMT
  <2>4. /\ p.from \in Int /\ p.to \in Int /\ -Two(12 - 1) <= p.from /\ p.to <= Two(12) - 1
    BY <2>1, <2>3, SMT
  <2>5. p.write.msb \in BOOLEAN /\ p.read.msb = p.write.msb
    BY <2>2, Zenon
  <2> QED BY <2>2, <2>3, <2>4, <2>5, SignedBits, SMT
<1>10. CASE p = [write |-> pack_dilithium_coefficients, read |-> unpack_dilithium_coefficients,
                 from |-> -8388608, to |-> 8380416]
  <2>1. /\ p.write = Msb(24) /\ p.read = [Msb(24) EXCEPT !.restored = TRUE]
        /\ p.from = -8388608 /\ p.to = 8380416
    BY <1>10, SMT DEF pack_dilithium_coefficients, unpack_dilithium_coefficients
  <2>2. /\ Cut(p.write, 24, 24) /\ Restored(p.read, 24, 24)
        /\ p.write.msb = TRUE /\ p.read.msb = TRUE
    BY <2>1, SMT DEF Straight, Cut, Restored, Plain, Msb
  <2>3. /\ -Two(24 - 1) <= -8388608 /\ 8380416 <= Two(24) - 1 /\ 24 \in {12, 24}
        /\ 24 \in {12, 23, 24} /\ 24 <= 24
    <3>1. 24 - 1 = 23
      OBVIOUS
    <3> QED BY <3>1, TwoIs, SMT
  <2>4. /\ p.from \in Int /\ p.to \in Int /\ -Two(24 - 1) <= p.from /\ p.to <= Two(24) - 1
    BY <2>1, <2>3, SMT
  <2>5. p.write.msb \in BOOLEAN /\ p.read.msb = p.write.msb
    BY <2>2, Zenon
  <2> QED BY <2>2, <2>3, <2>4, <2>5, SignedBits, SMT
<1> QED BY <1>1, <1>2, <1>3, <1>4, <1>5, <1>6, <1>7, <1>8, <1>9, <1>10, SMT DEF Pairs

(***************************************************************************)
(* Packing: there and back                                                 *)
(***************************************************************************)
\* A reader of the same width and order finds the same fields.
LEMMA ReadAlike ==
  ASSUME NEW l, NEW m, m.width = l.width, m.msb = l.msb, NEW b, NEW i
  PROVE  Unpacked(m, b, i) = Unpacked(l, b, i)
BY DEF Unpacked, Place, PackedSize

\* The readers that take the most significant bit first.
LEMMA MsbReaders ==
  ASSUME NEW p \in Pairs
  PROVE  \/ p.read = unpack_kyber_coefficients
         \/ p.read = unpack_dilithium_coefficients
         \/ p.read.msb = FALSE
<1>1. /\ poly_frombytes.msb = FALSE /\ decompress[10].msb = FALSE /\ decompress[4].msb = FALSE
      /\ frommsg.msb = FALSE /\ unpack_eta.msb = FALSE /\ unpack_pk.msb = FALSE
      /\ unpack_t0.msb = FALSE /\ unpack_sig.msb = FALSE /\ unpack_kyber_poly.msb = FALSE
      /\ unpack_dilithium_poly.msb = FALSE
  BY SMT DEF poly_frombytes, decompress, frommsg, unpack_eta, unpack_pk, unpack_t0, unpack_sig,
         unpack_kyber_poly, unpack_dilithium_poly, Plain
<1> QED BY <1>1, SMT DEF Pairs

\* Every coefficient has all of its bits but the last of an odd number of 12-bit ones.
LEMMA ReadableIs ==
  ASSUME NEW p \in Pairs, NEW count \in Nat \ {0}, NEW i \in 0 .. count - 1
  PROVE  Readable(p.read, count, i) <=>
             ~(p.read = unpack_kyber_coefficients /\ i % 2 = 0 /\ i + 1 = count)
<1>1. CASE p.read = unpack_kyber_coefficients
  <2>1. p.read.width = 12 /\ p.read.msb = TRUE
    BY <1>1, SMT DEF unpack_kyber_coefficients, Msb, Plain
  <2>2. 12 * (i + 1) <= 8 * ((count * 12) \div 8) <=> ~(i % 2 = 0 /\ i + 1 = count)
    BY SMT
  <2>3. Readable(p.read, count, i) <=> 12 * (i + 1) <= 8 * ((count * 12) \div 8)
    BY <2>1, SMT DEF Readable
  <2> QED BY <1>1, <2>2, <2>3, SMT
<1>2. CASE p.read = unpack_dilithium_coefficients
  <2>1. p.read.width = 24 /\ p.read.msb = TRUE /\ unpack_kyber_coefficients.width = 12
    BY <1>2, SMT DEF unpack_kyber_coefficients, unpack_dilithium_coefficients, Msb, Plain
  <2>2. 24 * (i + 1) <= 8 * ((count * 24) \div 8)
    BY SMT
  <2>3. Readable(p.read, count, i)
    BY <2>1, <2>2, SMT DEF Readable
  <2> QED BY <2>1, <2>3, SMT
<1>3. CASE p.read.msb = FALSE
  <2>1. unpack_kyber_coefficients.msb = TRUE
    BY SMT DEF unpack_kyber_coefficients, Msb, Plain
  <2> QED BY <1>3, <2>1, SMT DEF Readable
<1> QED BY <1>1, <1>2, <1>3, MsbReaders

\* What Pack puts into the bytes.
Written(p, c) == [i \in DOMAIN c |-> Field(p.write, c[i])]

\* The coefficients of a packer, of any number, become fields of its layout.
LEMMA WrittenFields ==
  ASSUME NEW p \in Pairs, NEW c \in Arrays[p]
  PROVE  /\ Cardinality(DOMAIN c) \in Nat \ {0}
         /\ DOMAIN c = 0 .. Cardinality(DOMAIN c) - 1
         /\ \A i \in DOMAIN c : c[i] \in p.from .. p.to
         /\ Packable(p.write, Written(p, c), Cardinality(DOMAIN c))
<1> DEFINE count == Cardinality(DOMAIN c)
<1>1. count \in Nat \ {0} /\ c \in [0 .. count - 1 -> p.from .. p.to]
  BY PackingAssumption
<1>2. DOMAIN c = 0 .. count - 1 /\ \A i \in DOMAIN c : c[i] \in p.from .. p.to
  BY <1>1
<1>3. Agrees(p)
  BY PairsAgree
<1>4. \A i \in DOMAIN c : Field(p.write, c[i]) \in 0 .. Two(p.write.width) - 1
  BY <1>2, <1>3 DEF Agrees
<1>5. DOMAIN Written(p, c) = DOMAIN c
  BY DEF Written
<1>6. Written(p, c) \in [0 .. count - 1 -> 0 .. Two(p.write.width) - 1]
  BY <1>2, <1>4 DEF Written
<1>7. p.write.width \in 1 .. 24
  BY <1>3 DEF Agrees, Layout
<1> QED BY <1>1, <1>2, <1>5, <1>6, <1>7 DEF Packable

\* A field that is read is the coefficient, or the one that its sign makes of it.
LEMMA ReadBack ==
  ASSUME NEW p \in Pairs, NEW c \in Arrays[p], NEW i \in DOMAIN c
  PROVE  Coefficient(p.read, Unpacked(p.read, Packed(p.write, Written(p, c)), i))
             = IF p.read.restored /\ c[i] >= 2^(p.read.bits - 1) THEN c[i] - 2^p.read.bits ELSE c[i]
<1>1. Agrees(p)
  BY PairsAgree
<1>2. /\ Packable(p.write, Written(p, c), Cardinality(DOMAIN c))
      /\ i \in 0 .. Cardinality(DOMAIN c) - 1 /\ c[i] \in p.from .. p.to
  BY WrittenFields
<1>3. Unpacked(p.write, Packed(p.write, Written(p, c)), i) = Written(p, c)[i]
  BY <1>1, <1>2, UnpackedIs DEF Agrees
<1>4. Unpacked(p.read, Packed(p.write, Written(p, c)), i) = Field(p.write, c[i])
  BY <1>1, <1>3, ReadAlike DEF Agrees, Written
<1> QED BY <1>1, <1>2, <1>4 DEF Agrees

\* The bytes on the way are those of the coefficients.
PackIInv ==
    /\ stage \in {"pack", "unpack", "done"}
    /\ pair \in Pairs
    /\ coeffs \in Arrays[pair]
    /\ stage = "unpack" => bytes = Packed(pair.write, Written(pair, coeffs))
    /\ FieldsComeBack

\* It holds in the beginning
LEMMA PackedInit == PackInit => PackIInv
BY DEF PackInit, PackIInv, FieldsComeBack

\* and after every step.
LEMMA PackedStep == PackIInv /\ [PackNext]_packVars => PackIInv'
<1> SUFFICES ASSUME PackIInv, [PackNext]_packVars PROVE PackIInv'
  OBVIOUS
<1>1. CASE Pack
  BY <1>1 DEF Pack, PackIInv, FieldsComeBack, Written
<1>2. CASE Unpack
  <2> DEFINE count == Cardinality(DOMAIN coeffs)
  <2>1. /\ stage' = "done" /\ pair' = pair /\ coeffs' = coeffs
        /\ pair \in Pairs /\ coeffs \in Arrays[pair]
        /\ bytes = Packed(pair.write, Written(pair, coeffs))
    BY <1>2 DEF Unpack, PackIInv
  <2>2. ASSUME NEW i \in DOMAIN coeffs
        PROVE  /\ ~LeftOver(i) =>
                      back'[i] = IF pair.read.restored /\ coeffs[i] >= 2^(pair.read.bits - 1)
                                 THEN coeffs[i] - 2^pair.read.bits ELSE coeffs[i]
               /\ LeftOver(i) => back'[i] = 0
    <3>1. back'[i] = IF Readable(pair.read, count, i)
                     THEN Coefficient(pair.read, Unpacked(pair.read, bytes, i)) ELSE 0
      BY <1>2 DEF Unpack
    <3>2. count \in Nat \ {0} /\ i \in 0 .. count - 1
      BY <2>1, WrittenFields
    <3>3. Readable(pair.read, count, i) <=> ~LeftOver(i)
      BY <2>1, <3>2, ReadableIs DEF LeftOver
    <3>4. Coefficient(pair.read, Unpacked(pair.read, bytes, i))
              = IF pair.read.restored /\ coeffs[i] >= 2^(pair.read.bits - 1)
                THEN coeffs[i] - 2^pair.read.bits ELSE coeffs[i]
      BY <2>1, ReadBack
    <3> QED BY <3>1, <3>3, <3>4
  <2>3. FieldsComeBack'
    BY <2>1, <2>2 DEF FieldsComeBack, LeftOver
  <2> QED BY <2>1, <2>3 DEF PackIInv
<1>3. CASE UNCHANGED packVars
  BY <1>3 DEF packVars, PackIInv, FieldsComeBack, LeftOver
<1> QED BY <1>1, <1>2, <1>3 DEF PackNext

\* What any packer of the code writes, of any number of coefficients from its range (a multiple
\* of 8 where the code fixes it), comes back from its unpacker, but for the two losses that
\* FieldsComeBack names: the last of an odd number of 12-bit coefficients, and the sign.
THEOREM PackingKeeps == PackSpec => []FieldsComeBack
<1>1. PackIInv => FieldsComeBack
  BY DEF PackIInv
<1> QED BY <1>1, PackedInit, PackedStep, PTL DEF PackSpec
=============================================================================
