------------------------------ MODULE KyberKEM ------------------------------
(***************************************************************************)
(* Kyber512 and Kyber768 of kyber_modular.cpp with the lattice algebra taken *)
(* as given (KyberPke has the transforms): a public key is what it was     *)
(* made from, a ciphertext what it was encrypted with, a hash its argument.  *)
(* What is kept is which bytes each function reads and writes, the           *)
(* re-encryption in decaps and the rejection value.                          *)
(***************************************************************************)
EXTENDS Integers

Hash(x) == [hash |-> x]                          \* sha3_256, sha3_512, SHAKE

\* poly_getnoise_eta1(.., k) picks eta by k; Kyber768 passes KYBER_768_ETAl = 2 for it.
Eta1(k) == IF k = 2 THEN 3 ELSE 2

Kyber512Set == [k |-> 2, noise |-> 2]
Kyber768Set == [k |-> 3, noise |-> 2]

(* Mutant of KeyPair: the public key in the secret key lacks the seed of the matrix. *)
KeyPairShortened(set, seed) ==
    LET pk == [ t |-> [k |-> set.k, seed |-> seed, eta |-> Eta1(set.noise)],
                rho |-> Hash([seed |-> seed]) ]
    IN  [pk |-> pk, sk |-> [s |-> pk.t, pk |-> [pk EXCEPT !.rho = Hash([lost |-> TRUE])], h |-> Hash(pk),
                            z |-> Hash([z |-> seed])]]

(* The keys made from a seed. The secret key holds the vector s, the public key, its *)
(* hash, which decaps does not read, and the rejection value z.                       *)
KeyPair(set, seed) ==
    LET pk == [ t |-> [k |-> set.k, seed |-> seed, eta |-> Eta1(set.noise)],
                rho |-> Hash([seed |-> seed]) ]
    IN  [pk |-> pk, sk |-> [s |-> pk.t, pk |-> pk, h |-> Hash(pk), z |-> Hash([z |-> seed])]]

Kyber512KeyPair(seed) == KeyPair(Kyber512Set, seed)
Kyber768KeyPair(seed) == KeyPair(Kyber768Set, seed)

\* indcpa_enc: the ciphertext is determined by the public key, the message and the coins.
Enc(set, pk, msg, coins) ==
    [ct |-> [k |-> set.k, pk |-> pk, msg |-> msg, coins |-> coins, eta |-> Eta1(set.noise)]]

\* CPA decryption: the message if the ciphertext was made for this vector, otherwise noise.
IsCipherFor(ct, s) == /\ "ct" \in DOMAIN ct
                      /\ "t" \in DOMAIN ct.ct.pk
                      /\ ct.ct.pk.t = s
Dec(ct, s) == IF IsCipherFor(ct, s) THEN ct.ct.msg ELSE [noise |-> ct]

\* kr of encaps and decaps: its two halves are the key and the coins.
KeyAndCoins(msg, pk) == [key |-> Hash([msg |-> msg, pk |-> Hash(pk), half |-> 1]),
                         coins |-> Hash([msg |-> msg, pk |-> Hash(pk), half |-> 2])]

SharedSecret(key, ct) == Hash([key |-> key, ct |-> Hash(ct)])

Encaps(set, pk, random) ==
    LET msg == Hash(random)
        kr  == KeyAndCoins(msg, pk)
        ct  == Enc(set, pk, msg, kr.coins)
    IN  [ct |-> ct, ss |-> SharedSecret(kr.key, ct)]

Kyber512Encaps(pk, random) == Encaps(Kyber512Set, pk, random)
Kyber768Encaps(pk, random) == Encaps(Kyber768Set, pk, random)

\* The ciphertext is made again from the decrypted message; unless it is the same, z takes
\* the place of the key.
Decaps(set, ct, sk) ==
    LET msg == Dec(ct, sk.s)
        kr  == KeyAndCoins(msg, sk.pk)
        key == IF Enc(set, sk.pk, msg, kr.coins) = ct THEN kr.key ELSE sk.z
    IN  SharedSecret(key, ct)

Kyber512Decaps(ct, sk) == Decaps(Kyber512Set, ct, sk)
Kyber768Decaps(ct, sk) == Decaps(Kyber768Set, ct, sk)
=============================================================================
