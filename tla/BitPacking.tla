----------------------------- MODULE BitPacking -----------------------------
(***************************************************************************)
(* The byte layouts of coefficients: the packers of poly.cpp and            *)
(* dilithium.cpp, BitPacker of bitpack.h and BitPacker of                   *)
(* workspace_unified.cpp.  All of them put fields of one width behind each  *)
(* other, from the least significant bit on or (workspace_unified.cpp) from *)
(* the most significant one; they differ in the field a coefficient becomes *)
(* and in what is made of it on the way back.                                *)
(***************************************************************************)
EXTENDS Integers, FiniteSets

(***************************************************************************)
(* Layouts. base > 0: the field is base - coefficient; otherwise it is the   *)
(* low `bits' of the coefficient, and restored means that the highest of     *)
(* them is taken for a sign.                                                 *)
(***************************************************************************)
Plain(w) == [width |-> w, bits |-> w, base |-> 0, restored |-> FALSE, msb |-> FALSE]

poly_tobytes    == Plain(12)
poly_frombytes  == Plain(12)
compress        == [du \in {4, 10} |-> Plain(du)]
decompress      == [du \in {4, 10} |-> Plain(du)]
tomsg           == Plain(1)
frommsg         == Plain(1)

pack_eta   == [Plain(3) EXCEPT !.base = 2]
pack_t1    == Plain(10)
pack_t0    == [Plain(13) EXCEPT !.base = 4096]
pack_z     == [Plain(18) EXCEPT !.base = 131072]
unpack_eta == [Plain(3) EXCEPT !.base = 2]
unpack_pk  == Plain(10)
\* Mutant of unpack_t0: centred on the other side of the rounding.
unpack_t0Off == [Plain(13) EXCEPT !.base = 4095]
unpack_t0  == [Plain(13) EXCEPT !.base = 4096]
unpack_sig == [Plain(18) EXCEPT !.base = 131072]

pack_kyber_poly       == Plain(12)
unpack_kyber_poly     == Plain(12)
pack_dilithium_poly   == [Plain(24) EXCEPT !.bits = 23]
unpack_dilithium_poly == [Plain(24) EXCEPT !.bits = 23, !.restored = TRUE]

Msb(w) == [Plain(w) EXCEPT !.msb = TRUE]
pack_kyber_coefficients       == Msb(12)
unpack_kyber_coefficients     == [Msb(12) EXCEPT !.restored = TRUE]
pack_dilithium_coefficients   == Msb(24)
unpack_dilithium_coefficients == [Msb(24) EXCEPT !.restored = TRUE]

\* Each packer, what reads its bytes, and the coefficients the code gives it.
Pairs ==
    { [write |-> poly_tobytes, read |-> poly_frombytes, from |-> 0, to |-> 3328],
      [write |-> compress[10], read |-> decompress[10], from |-> 0, to |-> 1023],
      [write |-> compress[4], read |-> decompress[4], from |-> 0, to |-> 15],
      [write |-> tomsg, read |-> frommsg, from |-> 0, to |-> 1],
      [write |-> pack_eta, read |-> unpack_eta, from |-> -2, to |-> 2],
      [write |-> pack_t1, read |-> unpack_pk, from |-> 0, to |-> 1023],
      [write |-> pack_t0, read |-> unpack_t0, from |-> -4095, to |-> 4096],
      [write |-> pack_z, read |-> unpack_sig, from |-> -131071, to |-> 131071],
      [write |-> pack_kyber_poly, read |-> unpack_kyber_poly, from |-> 0, to |-> 3328],
      [write |-> pack_dilithium_poly, read |-> unpack_dilithium_poly,
       from |-> -4194304, to |-> 8380416],
      [write |-> pack_kyber_coefficients, read |-> unpack_kyber_coefficients,
       from |-> -2048, to |-> 3328],
      [write |-> pack_dilithium_coefficients, read |-> unpack_dilithium_coefficients,
       from |-> -8388608, to |-> 8380416] }

(***************************************************************************)
(* Packing                                                                 *)
(***************************************************************************)
CONSTANT Arrays       \* Arrays[p]: the coefficients that the packer of p is given

\* Arrays of coefficients from the range of their packer. Only the packers of
\* workspace_unified.cpp take any number of them.
ASSUME PackingAssumption ==
    \A p \in Pairs : \A c \in Arrays[p] :
        /\ Cardinality(DOMAIN c) \in Nat \ {0}
        /\ c \in [0 .. Cardinality(DOMAIN c) - 1 -> p.from .. p.to]
        /\ ~p.write.msb => Cardinality(DOMAIN c) % 8 = 0

VARIABLES
    stage,        \* "pack", "unpack" or "done"
    pair, coeffs, bytes, back

packVars == <<stage, pair, coeffs, bytes, back>>

Field(l, x) == IF l.base > 0 THEN l.base - x ELSE x % 2^l.bits

Coefficient(l, f) ==
    IF l.base > 0 THEN l.base - f
    ELSE IF l.restored /\ f >= 2^(l.bits - 1) THEN f - 2^l.bits
    ELSE f

\* f shifted left by n, or right by -n.
Shift(f, n) == IF n >= 0 THEN f * 2^n ELSE f \div 2^(-n)

\* Where field i begins, in bits from the least significant one of byte n.
Place(l, i, n) == IF l.msb THEN 8 * (n + 1) - l.width * (i + 1) ELSE l.width * i - 8 * n

PackedSize(l, count) == (count * l.width + 7) \div 8

\* What field i, with the value f, has in byte n.
Part(l, f, i, n) ==
    IF l.width * i < 8 * (n + 1) /\ 8 * n < l.width * (i + 1) THEN Shift(f, Place(l, i, n)) % 256
    ELSE 0

\* Byte n with the first j fields in it: it was zero, and one field after the other is put in.
\* The parts of a byte have no bit in common as long as the fields have their width.
Filled(l, fields, n) ==
    LET Or[j \in 0 .. Cardinality(DOMAIN fields)] ==
            IF j = 0 THEN 0 ELSE Or[j - 1] + Part(l, fields[j - 1], j - 1, n)
    IN  Or

Packed(l, fields) ==
    LET count == Cardinality(DOMAIN fields)
    IN  [n \in 0 .. PackedSize(l, count) - 1 |-> Filled(l, fields, n)[count]]

\* Three bytes hold any field; the first one is the one the field begins in.
Unpacked(l, b, i) ==
    LET first == IF l.msb THEN PackedSize(l, i + 1) - 1 ELSE (l.width * i) \div 8
        step  == IF l.msb THEN -1 ELSE 1
        At(n) == IF n \in DOMAIN b THEN b[n] ELSE 0
        window == At(first) + 256 * At(first + step) + 65536 * At(first + 2 * step)
    IN  Shift(window, -Place(l, i, first)) % 2^l.width

\* The unpackers of workspace_unified.cpp read count * 3 / 2 bytes and count * 3 bytes, rounded
\* down; without all of its bits a coefficient is not written.
Readable(l, count, i) == l.msb => l.width * (i + 1) <= 8 * ((count * l.width) \div 8)

PackInit ==
    /\ stage = "pack"
    /\ pair \in Pairs
    /\ coeffs \in Arrays[pair]
    /\ bytes = <<>>
    /\ back = <<>>

Pack ==
    /\ stage = "pack"
    /\ stage' = "unpack"
    /\ bytes' = Packed(pair.write, [i \in DOMAIN coeffs |-> Field(pair.write, coeffs[i])])
    /\ UNCHANGED <<pair, coeffs, back>>

\* The array that is unpacked into held zeros.
Unpack ==
    /\ stage = "unpack"
    /\ stage' = "done"
    /\ back' = [i \in DOMAIN coeffs |->
                   IF Readable(pair.read, Cardinality(DOMAIN coeffs), i)
                   THEN Coefficient(pair.read, Unpacked(pair.read, bytes, i))
                   ELSE 0]
    /\ UNCHANGED <<pair, coeffs, bytes>>

PackNext == Pack \/ Unpack

PackSpec == PackInit /\ [][PackNext]_packVars

(***************************************************************************)
(* Property                                                                *)
(***************************************************************************)
\* The last coefficient of an odd number of 12-bit ones.
LeftOver(i) ==
    pair.read = unpack_kyber_coefficients /\ i % 2 = 0 /\ i + 1 = Cardinality(DOMAIN coeffs)

\* What was packed comes back, with two exceptions in the packers that are to save memory
\* (bitpack.h, workspace_unified.cpp): an odd last 12-bit coefficient is lost, and a
\* coefficient from 2^(bits - 1) on, which those of Kyber and Dilithium may be, comes back
\* as a negative number that is another one modulo 3329 or 8380417.
FieldsComeBack ==
    stage = "done" =>
        \A i \in DOMAIN coeffs :
            LET l == pair.read
                signed == l.restored /\ coeffs[i] >= 2^(l.bits - 1)
            IN  /\ ~LeftOver(i) => back[i] = IF signed THEN coeffs[i] - 2^l.bits ELSE coeffs[i]
                /\ LeftOver(i) => back[i] = 0
=============================================================================
