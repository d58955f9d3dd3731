----------------------------- MODULE Dilithium -----------------------------
(***************************************************************************)
(* Dilithium2 of dilithium.cpp with its algebra taken as given: a public    *)
(* key stands for the entropy it was made from, a signature for the message *)
(* hash mu and the key pair.  Whether verify accepts what sign has made is   *)
(* left open, because it depends on the rounding of the coefficients; what  *)
(* it never accepts is another hash or another key.                         *)
(***************************************************************************)
EXTENDS Sponge

DilithiumPk(entropy) == [rho |-> Squeezed(Absorb(EmptySponge, entropy), 1), t1 |-> entropy]

\* keypair: rho, rhoprime and key are squeezed one after the other, from one block.
DilithiumKeyPair(entropy) ==
    LET pk == DilithiumPk(entropy)
    IN  [pk |-> pk,
         sk |-> [rho |-> pk.rho, key |-> pk.rho, tr |-> Sha3(pk), secrets |-> entropy]]

\* calculate_mu, and the same three calls in sign: two absorptions, each with its padding.
Mu(tr, m) == Squeezed(Absorb(Absorb(EmptySponge, tr), m), 1)

\* The accepted candidate of the loop in sign.
DilithiumSignature(m, sk) == [mu |-> Mu(sk.tr, m), secrets |-> sk.secrets]

\* The results verify may have: the challenge is made of mu and of the key's matrix.
DilithiumVerify(sig, m, pk) ==
    IF /\ DOMAIN sig = {"mu", "secrets"}
       /\ DOMAIN pk = {"rho", "t1"}
       /\ sig.mu = Mu(Sha3(pk), m)
       /\ sig.secrets = pk.t1
    THEN BOOLEAN
    ELSE {FALSE}
=============================================================================
