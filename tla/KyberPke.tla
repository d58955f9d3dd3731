------------------------------ MODULE KyberPke ------------------------------
(***************************************************************************)
(* The computation inside Kyber512 and Kyber768 of kyber_modular.cpp: the   *)
(* key pair, indcpa_enc and the decryption in decaps, one store into the    *)
(* polynomials of the workspace per step.  What is sampled from a hash is   *)
(* chosen from CONSTANTS; keys and ciphertexts may be those of a peer.      *)
(***************************************************************************)
EXTENDS KyberRing

CONSTANTS
    K,            \* dimension: 2 or 3
    KeySeeds,     \* [a, s, e]: matrix, secret and error of a key pair
    Coins,        \* [sp, e1, e2, msg]: randomness of an encryption, and its message
    PeerKeys,     \* public keys of peers, as unpacked by poly_frombytes
    PeerTexts     \* ciphertexts of peers, before poly_decompress

Vec == 1 .. K
Poly(lo, hi) == [Index -> lo .. hi]

ASSUME DimensionAssumption == K \in {2, 3}
ASSUME PkeAssumption ==
    /\ KeySeeds \subseteq [ a : [Vec -> [Vec -> Poly(0, Q - 1)]],
                            s : [Vec -> Poly(-3, 3)], e : [Vec -> Poly(-3, 3)] ]
    /\ Coins \subseteq [ sp : [Vec -> Poly(-3, 3)], e1 : [Vec -> Poly(-2, 2)],
                         e2 : Poly(-2, 2), msg : Poly(0, 1) ]
    /\ PeerKeys \subseteq [Vec -> Poly(0, 4095)]
    /\ PeerTexts \subseteq [u : [Vec -> Poly(0, 1023)], v : Poly(0, 15)]

VARIABLES
    step, turn,   \* what comes next, and how often it has been done
    matrix,       \* the rows gen_matrix_row makes of the public seed
    skpv, err,    \* secret and error of keypair
    pkpv,         \* public vector of keypair, then the one unpacked by indcpa_enc
    sk,           \* secret key fields
    coins,        \* of the encryption
    sp, bp, v,    \* of indcpa_enc; bp and v also of decaps
    ct,           \* ciphertext fields
    mp,           \* of decaps
    plain,        \* the message decaps finds
    own           \* history: key and ciphertext are the program's own

pkeVars == <<step, turn, matrix, skpv, err, pkpv, sk, coins, sp, bp, v, ct, mp, plain, own>>

key == <<matrix, skpv, err>>
ZeroVec == [i \in Vec |-> Zero]

PkeInit ==
    /\ step = "key_ntt"
    /\ turn = 0
    /\ \E seed \in KeySeeds : matrix = seed.a /\ skpv = seed.s /\ err = seed.e
    /\ pkpv = ZeroVec
    /\ sk = ZeroVec
    /\ \E c \in Coins : coins = c /\ sp = c.sp
    /\ bp = ZeroVec
    /\ v = Zero
    /\ ct = [u |-> ZeroVec, v |-> Zero]
    /\ mp = Zero
    /\ plain = Zero
    /\ own = TRUE

\* A loop of n turns, and the step behind it.
Turn(here, n, next) ==
    /\ step = here
    /\ IF turn + 1 < n THEN turn' = turn + 1 /\ UNCHANGED step
                       ELSE turn' = 0 /\ step' = next

Once(here, next) == step = here /\ step' = next /\ UNCHANGED turn

\* polyvec_ntt and polyvec_invntt_tomont, the layer of this turn.
VecNtt(r) == [i \in Vec |-> NttLayer(r[i], Len7[turn + 1])]
VecInv(r) == [i \in Vec |-> InvLayer(r[i], Len7[7 - turn])]

\* polyvec_basemul_acc_montgomery: after the products of all elements the sum is reduced.
Accumulate(r, a, b) ==
    IF turn < K THEN poly_add(r, BaseMul(a[turn + 1], b[turn + 1])) ELSE poly_reduce(r)

(***************************************************************************)
(* keypair                                                                 *)
(***************************************************************************)
KeyNtt ==
    /\ Turn("key_ntt", 7, "key_mul")
    /\ skpv' = VecNtt(skpv)
    /\ err' = VecNtt(err)
    /\ UNCHANGED <<matrix, pkpv, sk, coins, sp, bp, v, ct, mp, plain, own>>

KeyMul ==
    /\ Turn("key_mul", K + 1, "key_add")
    /\ pkpv' = [i \in Vec |-> Accumulate(pkpv[i], matrix[i], skpv)]
    /\ UNCHANGED <<key, sk, coins, sp, bp, v, ct, mp, plain, own>>

KeyAdd ==
    /\ Once("key_add", "key_pack")
    /\ pkpv' = [i \in Vec |-> poly_add(poly_tomont(pkpv[i]), err[i])]
    /\ UNCHANGED <<key, sk, coins, sp, bp, v, ct, mp, plain, own>>

KeyPack ==
    /\ Once("key_pack", "enc_ntt")
    /\ \E peer \in PeerKeys \cup {ZeroVec} :
         /\ own' = (peer = ZeroVec)
         /\ pkpv' = IF own' THEN [i \in Vec |-> ToFields(poly_reduce(pkpv[i]))] ELSE peer
    /\ sk' = [i \in Vec |-> ToFields(skpv[i])]
    /\ UNCHANGED <<key, coins, sp, bp, v, ct, mp, plain>>

(***************************************************************************)
(* indcpa_enc                                                              *)
(***************************************************************************)
EncNtt ==
    /\ Turn("enc_ntt", 7, "enc_mul")
    /\ sp' = VecNtt(sp)
    /\ UNCHANGED <<key, pkpv, sk, coins, bp, v, ct, mp, plain, own>>

\* The transposed matrix for bp, the public key for v.
EncMul ==
    /\ Turn("enc_mul", K + 1, "enc_inv")
    /\ bp' = [i \in Vec |-> Accumulate(bp[i], [j \in Vec |-> matrix[j][i]], sp)]
    /\ v' = Accumulate(v, pkpv, sp)
    /\ UNCHANGED <<key, pkpv, sk, coins, sp, ct, mp, plain, own>>

EncInv ==
    /\ Turn("enc_inv", 7, "enc_scale")
    /\ bp' = VecInv(bp)
    /\ v' = InvLayer(v, Len7[7 - turn])
    /\ UNCHANGED <<key, pkpv, sk, coins, sp, ct, mp, plain, own>>

EncScale ==
    /\ Once("enc_scale", "enc_add")
    /\ bp' = [i \in Vec |-> InvScale(bp[i])]
    /\ v' = InvScale(v)
    /\ UNCHANGED <<key, pkpv, sk, coins, sp, ct, mp, plain, own>>

EncAdd ==
    /\ Once("enc_add", "enc_pack")
    /\ bp' = [i \in Vec |-> poly_add(bp[i], coins.e1[i])]
    /\ v' = poly_add(poly_add(v, coins.e2), poly_frommsg(coins.msg))
    /\ UNCHANGED <<key, pkpv, sk, coins, sp, ct, mp, plain, own>>

\* poly_reduce and poly_compress; decaps unpacks this ciphertext or one of a peer.
EncPack ==
    /\ Once("enc_pack", "dec_unpack")
    /\ ct' = [ u |-> [i \in Vec |-> poly_compress(poly_reduce(bp[i]), 1024)],
               v |-> poly_compress(poly_reduce(v), 16) ]
    /\ UNCHANGED <<key, pkpv, sk, coins, sp, bp, v, mp, plain, own>>

(***************************************************************************)
(* decaps, CPA decryption                                                  *)
(***************************************************************************)
DecUnpack ==
    /\ Once("dec_unpack", "dec_ntt")
    /\ \E text \in PeerTexts \cup {ct} :
         /\ own' = (own /\ text = ct)
         /\ bp' = [i \in Vec |-> poly_decompress(text.u[i], 1024)]
         /\ v' = poly_decompress(text.v, 16)
    /\ UNCHANGED <<key, pkpv, sk, coins, sp, ct, mp, plain>>

DecNtt ==
    /\ Turn("dec_ntt", 7, "dec_mul")
    /\ bp' = VecNtt(bp)
    /\ UNCHANGED <<key, pkpv, sk, coins, sp, v, ct, mp, plain, own>>

DecMul ==
    /\ Turn("dec_mul", K + 1, "dec_inv")
    /\ mp' = Accumulate(mp, sk, bp)
    /\ UNCHANGED <<key, pkpv, sk, coins, sp, bp, v, ct, plain, own>>

DecInv ==
    /\ Turn("dec_inv", 7, "dec_scale")
    /\ mp' = InvLayer(mp, Len7[7 - turn])
    /\ UNCHANGED <<key, pkpv, sk, coins, sp, bp, v, ct, plain, own>>

DecScale ==
    /\ Once("dec_scale", "dec_sub")
    /\ mp' = InvScale(mp)
    /\ UNCHANGED <<key, pkpv, sk, coins, sp, bp, v, ct, plain, own>>

DecSub ==
    /\ Once("dec_sub", "dec_msg")
    /\ mp' = poly_sub(v, poly_reduce(mp))
    /\ UNCHANGED <<key, pkpv, sk, coins, sp, bp, v, ct, plain, own>>

DecMsg ==
    /\ Once("dec_msg", "done")
    /\ plain' = poly_tomsg(poly_reduce(mp))
    /\ UNCHANGED <<key, pkpv, sk, coins, sp, bp, v, ct, mp, own>>

PkeNext ==
    \/ KeyNtt \/ KeyMul \/ KeyAdd \/ KeyPack
    \/ EncNtt \/ EncMul \/ EncInv \/ EncScale \/ EncAdd \/ EncPack
    \/ DecUnpack \/ DecNtt \/ DecMul \/ DecInv \/ DecScale \/ DecSub \/ DecMsg

PkeSpec == PkeInit /\ [][PkeNext]_pkeVars

(***************************************************************************)
(* Properties                                                              *)
(***************************************************************************)
\* Each coefficient of p fits its int16_t.
WordSized(p) == \A i \in DOMAIN p : -32768 <= p[i] /\ p[i] <= 32767

\* montgomery_reduce is right, and its result below Q, for products in this range.
Reducible(x) == -32768 * Q <= x /\ x < 32768 * Q

Partner(i) == IF i % 2 = 0 THEN i + 1 ELSE i - 1
Multipliable(a, b) ==
    \A i \in Index : Reducible(a[i] * b[i]) /\ Reducible(a[i] * b[Partner(i)])

\* Two coefficients can be added within an int16_t.
Summable == Poly(-16384, 16383)

\* Every value the computation stores fits its int16_t, the sums in invntt do before they
\* are reduced, and every product basemul forms is one montgomery_reduce is made for,
\* for any key, noise and ciphertext there can be (ntt.cpp, poly.cpp; no reduction
\* happens between the layers of ntt).
WordsHold ==
    /\ \A r \in {skpv, err, pkpv, sp, bp} : \A i \in DOMAIN r : WordSized(r[i])
    /\ WordSized(v) /\ WordSized(mp)
    /\ step = "key_mul" => \A i, j \in Vec : Multipliable(matrix[i][j], skpv[j])
    /\ step = "enc_mul" => \A i, j \in Vec : /\ Multipliable(matrix[j][i], sp[j])
                                             /\ Multipliable(pkpv[j], sp[j])
    /\ step = "dec_mul" => \A j \in Vec : Multipliable(sk[j], bp[j])
    /\ step = "enc_inv" => bp \in [Vec -> Summable] /\ v \in Summable
    /\ step = "dec_inv" => mp \in Summable

\* What was encrypted under the program's own key is what decaps decrypts: the transforms,
\* the Montgomery factors of the products, the compression and the rounding fit together.
Decrypts == step = "done" /\ own => plain = coins.msg
=============================================================================
