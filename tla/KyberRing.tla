----------------------------- MODULE KyberRing -----------------------------
(***************************************************************************)
(* The arithmetic of ntt.cpp and poly.cpp on polynomials of 256             *)
(* coefficients.  Values are kept unwrapped; that every one of them fits    *)
(* the int16_t it is stored in is for the modules that use these operators  *)
(* to show.                                                                 *)
(***************************************************************************)
EXTENDS Integers, Sequences

Q == 3329                                  \* KYBER_Q
Index == 0 .. 255
Zero == [i \in Index |-> 0]

\* zetas, in the order of the table.
zetas == <<
    -1044,  -758,  -359, -1517,  1493,  1422,   287,   202,
     -171,   622,  1577,   182,   962, -1202, -1474,  1468,
      573, -1325,   264,   383,  -829,  1458, -1602,  -130,
     -681,  1017,   732,   608, -1542,   411,  -205, -1571,
     1223,   652,  -552,  1015, -1293,  1491,  -282, -1544,
      516,    -8,  -320,  -666, -1618, -1162,   126,  1469,
     -853,   -90,  -271,   830,   107, -1421,  -247,  -951,
     -398,   961, -1508,  -725,   448, -1065,   677, -1275,
    -1103,   430,   555,   843, -1251,   871,  1550,   105,
      422,   587,   177,  -235,  -291,  -460,  1574,  1653,
     -246,   778,  1159,  -147,  -777,  1483,  -602,  1119,
    -1590,   644,  -872,   349,   418,   329,  -156,   -75,
      817,  1097,   603,   610,  1322, -1285, -1465,   384,
    -1215,  -136,  1218, -1335,  -874,   220, -1187, -1659,
    -1185, -1530, -1278,   794, -1510,  -854,  -870,   478,
     -108,  -308,   996,   991,   958, -1460,  1522,  1628 >>

Zeta(k) == zetas[k + 1]

(***************************************************************************)
(* Reductions                                                              *)
(***************************************************************************)
\* Conversion of an integer to int16_t.
Int16(x) == ((x + 32768) % 65536) - 32768

\* montgomery_reduce; 62209 = -3327 modulo 2^16, which keeps the product small.
montgomery_reduce(a) ==
    LET u == Int16(-3327 * (a % 65536))
    IN  (a - u * Q) \div 65536

barrett_reduce(a) == a - ((20159 * a) \div 67108864) * Q

fqmul(a, b) == montgomery_reduce(a * b)

(***************************************************************************)
(* Transforms, one layer at a time: blocks of 2 * len coefficients          *)
(***************************************************************************)
Len7 == <<128, 64, 32, 16, 8, 4, 2>>

\* ntt: the first layer has one block of 256 coefficients, the last one 64 of 4.
NttLayer(r, len) ==
    [i \in Index |->
        LET zeta == Zeta(128 \div len + i \div (2 * len))
        IN  IF i % (2 * len) < len
            THEN r[i] + fqmul(zeta, r[i + len])
            ELSE r[i - len] - fqmul(zeta, r[i])]

\* Mutant of InvLayer: the sums are reduced once at the end, as in ntt.
InvLayerLazy(r, len) ==
    [i \in Index |->
        LET zeta == Zeta(256 \div len - 1 - i \div (2 * len))
        IN  IF i % (2 * len) < len
            THEN r[i] + r[i + len]
            ELSE fqmul(zeta, r[i] - r[i - len])]

\* invntt, whose layers come in the opposite order; k counts down from 127.
InvLayer(r, len) ==
    [i \in Index |->
        LET zeta == Zeta(256 \div len - 1 - i \div (2 * len))
        IN  IF i % (2 * len) < len
            THEN barrett_reduce(r[i] + r[i + len])
            ELSE fqmul(zeta, r[i] - r[i - len])]

\* Mutant of InvScale: 1 / 128 without the Montgomery factor.
InvScalePlain(r) == [i \in Index |-> fqmul(r[i], 3303)]

\* The loop at the end of invntt.
InvScale(r) == [i \in Index |-> fqmul(r[i], 1441)]

(***************************************************************************)
(* Polynomials                                                             *)
(***************************************************************************)
\* basemul on the pair of coefficients that holds i; every second pair takes -zeta.
PairZeta(i) == IF (i \div 2) % 2 = 0 THEN Zeta(64 + i \div 4) ELSE 0 - Zeta(64 + i \div 4)

BaseMul(a, b) ==
    [i \in Index |->
        IF i % 2 = 0
        THEN fqmul(fqmul(a[i + 1], b[i + 1]), PairZeta(i)) + fqmul(a[i], b[i])
        ELSE fqmul(a[i - 1], b[i]) + fqmul(a[i], b[i - 1])]

poly_tomont(r) == [i \in Index |-> montgomery_reduce(r[i] * 1353)]
poly_add(a, b) == [i \in Index |-> a[i] + b[i]]
poly_sub(a, b) == [i \in Index |-> a[i] - b[i]]
poly_reduce(r) == [i \in Index |-> barrett_reduce(r[i])]

\* poly_tobytes and poly_frombytes up to their packing (BitPacking): 12-bit fields.
ToFields(a) == [i \in Index |-> a[i] % Q]

\* poly_frommsg and poly_tomsg: a message is its 256 bits.
poly_frommsg(msg) == [i \in Index |-> msg[i] * 1665]
poly_tomsg(r) ==
    [i \in Index |->
        LET v == IF r[i] < 0 THEN r[i] + Q ELSE r[i]
        IN  ((2 * v + 1664) \div Q) % 2]

\* poly_compress and poly_decompress up to their packing; steps is 2^du.
poly_compress(a, steps) ==
    [i \in Index |->
        LET t == IF a[i] < 0 THEN a[i] + Q ELSE a[i]
        IN  ((t * steps + 1664) \div Q) % steps]
poly_decompress(c, steps) == [i \in Index |-> (c[i] * Q + steps \div 2) \div steps]
=============================================================================
