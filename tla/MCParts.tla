------------------------------- MODULE MCParts -------------------------------
(* Parts of the ESP32 program that share no state: the anti-replay filter, a buffer     *)
(* pool, the blacklist, the epoch keys, the tests of kyber_dilithium.ino with the       *)
(* updater, and the arithmetic of the two algorithms: the computation inside Kyber, the *)
(* packing of coefficients, and the checks of a Dilithium candidate. A behaviour is one *)
(* of them.                                                                              *)
EXTENDS ReplayWindow, BufferPool, Firewall, NetworkPrivacy, Sketch,
        KyberPke, BitPacking, DilithiumRounding

CONSTANTS m1, m2, m3, p1, p2, v1, v2

VARIABLE job

(* Three peers, two of which share a slot. *)
MCMac == {m1, m2, m3}
MCSlots == {0, 1}
MCSlotOf == [m \in MCMac |-> IF m = m3 THEN 1 ELSE 0]

(* Two callers compete for a pool; two values tell the contents of buffers apart. *)
MCProducer == {p1, p2}
MCValue == {v1, v2}

(* An image of two words, signed as one chunk and, of another, as two. *)
MCImages == { << <<"a", "b">> >>, << <<"b">>, <<"a">> >> }

(* Values spread over lo .. hi; c tells polynomials apart. *)
Spread(c, n, i) == (((i + c) * (i + 3 * c) * 1103 + i * 229 + c * c) % 8191) % n
Poly1(c, lo, hi) == [i \in Index |-> lo + Spread(c, hi - lo + 1, i)]
Vec1(c, lo, hi)  == [j \in Vec |-> Poly1(c + j, lo, hi)]
Matrix1(c)       == [i \in Vec |-> Vec1(c + 10 * i, 0, Q - 1)]
Every(x)         == [i \in Index |-> x]
Sparse(c, x)     == [j \in Vec |-> [i \in Index |-> IF i % c = j THEN x ELSE 0]]

(* A typical key and one whose matrix has nothing but the largest coefficient; the noise *)
(* is one that decryption can tell from a message bit.                                    *)
MCKeySeeds == { [a |-> Matrix1(0), s |-> Vec1(0, -3, 3), e |-> Vec1(20, -3, 3)],
                [a |-> [i \in Vec |-> [j \in Vec |-> Every(Q - 1)]],
                 s |-> Sparse(37, 3), e |-> Vec1(50, -2, 2)] }
MCCoins == { [sp |-> Vec1(30, -3, 3), e1 |-> Vec1(40, -2, 2), e2 |-> Poly1(7, -2, 2),
              msg |-> Poly1(8, 0, 1)],
             [sp |-> Sparse(41, -3), e1 |-> Vec1(60, -2, 2), e2 |-> Every(2), msg |-> Every(1)] }
MCPeerKeys  == { [j \in Vec |-> Every(4095)], Vec1(70, 0, 4095) }
MCPeerTexts == { [u |-> [j \in Vec |-> Every(1023)], v |-> Every(15)],
                 [u |-> Vec1(80, 0, 1023), v |-> Poly1(90, 0, 15)] }

(* Coefficients around the boundaries of both roundings, and the signs of each. *)
MCProducts == {-(DQ - 1), -1, 0, 95153, 95154, 261888, 285617, DQ - 1}
MCMasks == {-(GAMMA1 - 1), 130993, 130994}

(* 3 and 8 coefficients: two neighbouring ones and the rest, each at a boundary of what *)
(* it can be.                                                                            *)
MCBoundary(p) == {p.from, p.from + (p.to - p.from) \div 2 + 1, p.to}
MCPattern(count, i, x, z, rest) ==
    [j \in 0 .. count - 1 |-> IF j = i THEN x ELSE IF j = i + 1 THEN z ELSE rest]
MCArrays ==
    [p \in Pairs |->
        UNION {{MCPattern(count, i, x, z, rest) :
                    i \in 0 .. count - 1, x, z, rest \in MCBoundary(p)} :
               count \in IF p.write.msb THEN {3, 8} ELSE {8}}]

PkeIdle ==
    /\ step = "idle" /\ turn = 0
    /\ matrix = <<>> /\ sk = <<>> /\ coins = <<>> /\ ct = <<>> /\ plain = <<>>
    /\ skpv = <<>> /\ err = <<>> /\ pkpv = <<>> /\ sp = <<>> /\ bp = <<>>
    /\ v = <<>> /\ mp = <<>>
    /\ own = FALSE
PackIdle == stage = "idle" /\ pair = <<>> /\ coeffs = <<>> /\ bytes = <<>> /\ back = <<>>
RoundIdle == /\ check = "idle" /\ hint = 0
             /\ y = 0 /\ cs1 = 0 /\ w = 0 /\ cs2 = 0 /\ ct0 = 0

allVars == <<job, vars, poolVars, firewallVars, keyVars, demoVars, pkeVars, packVars, roundVars>>
arithVars == <<pkeVars, packVars, roundVars>>
messageVars == <<vars, poolVars, firewallVars, keyVars>>

(* Each part begins as at boot and stays so when another one is at work. *)
MCInit ==
    /\ Init /\ PoolInit /\ FirewallInit /\ KeyInit /\ SketchInit
    /\ \/ /\ job \in {"replay", "pool", "blacklist", "keys", "sketch"}
          /\ PkeIdle /\ PackIdle /\ RoundIdle
       \/ job = "kyber" /\ PkeInit /\ PackIdle /\ RoundIdle
       \/ job = "packing" /\ PkeIdle /\ PackInit /\ RoundIdle
       \/ job = "rounding" /\ PkeIdle /\ PackIdle /\ RoundInit

Messaging ==
    \/ job = "replay" /\ Next /\ UNCHANGED <<poolVars, firewallVars, keyVars>>
    \/ job = "pool" /\ PoolNext /\ UNCHANGED <<vars, firewallVars, keyVars>>
    \/ job = "blacklist" /\ FirewallNext /\ UNCHANGED <<vars, poolVars, keyVars>>
    \/ job = "keys" /\ KeyNext /\ UNCHANGED <<vars, poolVars, firewallVars>>

Computing ==
    \/ PkeNext /\ UNCHANGED <<packVars, roundVars>>
    \/ PackNext /\ UNCHANGED <<pkeVars, roundVars>>
    \/ RoundNext /\ UNCHANGED <<pkeVars, packVars>>

MCNext ==
    /\ UNCHANGED job
    /\ \/ Messaging /\ UNCHANGED <<demoVars, arithVars>>
       \/ job = "sketch" /\ SketchNext /\ UNCHANGED <<messageVars, arithVars>>
       \/ Computing /\ UNCHANGED <<messageVars, demoVars>>

(* The fairness of SketchSpec when the sketch is at work. PoolFairness asks for a step *)
(* only when a buffer is in use, which is so only when the pool is at work.             *)
SketchFairness ==
    WF_allVars(job = "sketch" /\ (Program \/ ShortOfMemory)
               /\ UNCHANGED <<job, messageVars, arithVars>>)

MCSpec == MCInit /\ [][MCNext]_allVars /\ PoolFairness /\ SketchFairness
==============================================================================
