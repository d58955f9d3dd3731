------------------------- MODULE DilithiumRounding -------------------------
(***************************************************************************)
(* The checks a candidate of Dilithium2::sign has to pass, on one           *)
(* coefficient of each of its vectors: the bound on z, the bound on the low *)
(* part r0 and the hint (dilithium.cpp).  The products with the challenge,   *)
(* and w, are results of dilithium_invntt: anything between -Q and Q.        *)
(***************************************************************************)
EXTENDS Integers

DQ     == 8380417            \* Q
GAMMA1 == 131072
GAMMA2 == 95232              \* (Q - 1) / 88
BETA   == 78

CONSTANTS
    Masks,        \* coefficients of y
    Commitments,  \* coefficients of w
    Products      \* coefficients of c * s1, c * s2 and c * t0

ASSUME RoundingAssumption ==
    /\ Masks \subseteq -(GAMMA1 - 1) .. GAMMA1 - 1
    /\ Commitments \cup Products \subseteq -(DQ - 1) .. DQ - 1

VARIABLES
    check,        \* the next check, or what became of the candidate
    y, cs1, w, cs2, ct0,
    hint

roundVars == <<check, y, cs1, w, cs2, ct0, hint>>
products == <<y, cs1, w, cs2, ct0>>

caddq(a) == IF a < 0 THEN a + DQ ELSE a
add_mod(a, b) == caddq(a + b - DQ)
sub_mod(a, b) == caddq(a - b)

\* The a1 that decompose returns.
HighBits(a) == ((((a + 127) \div 128) * 1025 + 2097152) \div 4194304) % 16

\* The low part that decompose leaves in *a0.
LowBits(a) ==
    LET a0 == a - HighBits(a) * 2 * GAMMA2
    IN  IF a0 > GAMMA2 - 1 THEN a0 - DQ ELSE a0

\* |val| of the bound checks.
Magnitude(a) ==
    LET val == IF a > DQ \div 2 THEN a - DQ ELSE a
    IN  IF val < 0 THEN -val ELSE val

make_hint(a) == IF a + GAMMA2 - 1 >= 0 /\ GAMMA2 - a >= 0 THEN 0 ELSE 1

RoundInit ==
    /\ check = "z"
    /\ y \in Masks
    /\ cs1 \in Products
    /\ w \in Commitments
    /\ cs2 \in Products
    /\ ct0 \in Products
    /\ hint = 0

Verdict(fails, next) == check' = IF fails THEN "rejected" ELSE next

ZCheck ==
    /\ check = "z"
    /\ Verdict(Magnitude(add_mod(y, cs1)) >= GAMMA1 - BETA, "r0")
    /\ UNCHANGED <<products, hint>>

R0Check ==
    /\ check = "r0"
    /\ Verdict(Magnitude(LowBits(sub_mod(w, cs2))) >= GAMMA2 - BETA, "hint")
    /\ UNCHANGED <<products, hint>>

\* One hint does not exceed OMEGA.
HintCheck ==
    /\ check = "hint"
    /\ hint' = make_hint(LowBits(sub_mod(sub_mod(w, cs2), ct0)))
    /\ Verdict(FALSE, "accepted")
    /\ UNCHANGED products

RoundNext == ZCheck \/ R0Check \/ HintCheck

RoundSpec == RoundInit /\ [][RoundNext]_roundVars

(***************************************************************************)
(* Property                                                                *)
(***************************************************************************)
\* "FIPS 204 CONSTANTS" (dilithium.cpp:14), among them GAMMA2 = (Q - 1) / 88: the low part
\* that the check of r0 looks at is the one decompose has for that GAMMA2, at most GAMMA2 on
\* either side of 0. But decompose divides by the 16 intervals of (Q - 1) / 32 and multiplies
\* with those of GAMMA2 (lines 51-54), so most candidates fail the check for that alone.
LowPartBounded == check = "r0" => Magnitude(LowBits(sub_mod(w, cs2))) <= GAMMA2
=============================================================================
