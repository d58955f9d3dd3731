------------------------------- MODULE Sponge -------------------------------
(***************************************************************************)
(* The Keccak sponge of fips202.cpp.  The permutation is taken as given: a  *)
(* state is what was absorbed, call by call, and how often the state has    *)
(* been permuted since; one block of output is a state.                     *)
(***************************************************************************)
EXTENDS Integers, Sequences

\* shake128_init, shake256_init.
EmptySponge == [calls |-> <<>>, turns |-> 0]

\* keccak_absorb: every call ends with its own padding and a permutation.
Absorb(state, input) ==
    [calls |-> Append(state.calls, [input |-> input, turns |-> state.turns]), turns |-> 0]

\* keccak_squeeze of the given number of blocks: the state is permuted between blocks and
\* not after the last one.
Squeezed(state, blocks) ==
    [i \in 1 .. blocks |-> [state EXCEPT !.turns = @ + i - 1]]

\* sha3_256 and sha3_512: one absorption, at most one block of output.
Sha3(input) == [sha3 |-> Squeezed(Absorb(EmptySponge, input), 1)]
=============================================================================
