-------------------------- MODULE UnifiedWorkspace --------------------------
(***************************************************************************)
(* The memory of workspace_unified.cpp: one malloc'ed block that is used as *)
(* a unified_workspace_t, a struct that is larger than the block.           *)
(* Memory is a function from extents <<first byte, byte after the last>>,   *)
(* counted from the start of the struct, to what was written there.         *)
(***************************************************************************)
EXTENDS Integers, SequencesExt

VARIABLES
    board,       \* the platform the program was built for
    block,       \* bytes that malloc returned; 0 while not allocated
    memory,      \* extent -> value
    overruns     \* history: who wrote at or past the end of the block

wsVars == <<board, block, memory, overruns>>

Boards == {"ESP32", "STM32", "PC"}

\* UNIFIED_WORKSPACE_SIZE and CRYPTO_BUFFER_SIZE.
Size == CASE board = "ESP32" -> 16384 [] board = "STM32" -> 8192 [] board = "PC" -> 32768
CryptoBufferSize == CASE board = "ESP32" -> 4096 [] board = "STM32" -> 2048 [] board = "PC" -> 8192

(***************************************************************************)
(* Extents                                                                 *)
(***************************************************************************)
ZeroBytes == [zero |-> TRUE]

Overlap(e, f) == e[1] < f[2] /\ f[1] < e[2]
Holder(m, e) == CHOOSE f \in DOMAIN m : f[1] <= e[1] /\ e[2] <= f[2]

\* What is left of the memory m outside the extent e; a value that was cut is in parts.
Cut(m, e) ==
    LET hit  == {f \in DOMAIN m : Overlap(e, f)}
        rest == {<<f[1], e[1]>> : f \in {g \in hit : g[1] < e[1]}}
                  \cup {<<e[2], f[2]>> : f \in {g \in hit : e[2] < g[2]}}
    IN  [f \in (DOMAIN m \ hit) \cup rest |->
            IF f \in DOMAIN m THEN m[f]
            ELSE LET whole == m[Holder(m, f)]
                 IN  IF whole = ZeroBytes THEN ZeroBytes ELSE [part |-> whole]]

Store(m, e, value) ==
    LET kept == Cut(m, e)
    IN  [f \in DOMAIN kept \cup {e} |-> IF f = e THEN value ELSE kept[f]]

\* The value of the bytes of e: what was written there as a whole, or whatever they hold.
Load(e) ==
    LET under == {f \in DOMAIN memory : Overlap(e, f)}
    IN  IF e \in under THEN memory[e]
        ELSE IF \A f \in under : memory[f] = ZeroBytes THEN ZeroBytes
        ELSE [bytes |-> {<<f, memory[f]>> : f \in under}]

(***************************************************************************)
(* The struct                                                              *)
(***************************************************************************)
Fields == << "kyber_pk", "kyber_sk", "kyber_ct", "kyber_ss",
             "dilithium_pk", "dilithium_sk", "dilithium_sig",
             "temp_buffer", "hash_buffer", "padding", "raw" >>

\* Mutant of FieldSize: the public key field has the size of a Kyber768 key.
FieldSizeShortPk(field) ==
    CASE field \in {"kyber_pk", "kyber_sk", "kyber_ct"} -> 1536
      [] field \in {"kyber_ss", "padding"} -> 32
      [] field = "dilithium_pk" -> 1184
      [] field = "dilithium_sk" -> 2528
      [] field = "dilithium_sig" -> 2420
      [] field = "temp_buffer" -> CryptoBufferSize
      [] field = "hash_buffer" -> 64
      [] field = "raw" -> Size

\* Sizes as declared; KYBER_POLYVECBYTES is 384 * 4 for every field of Kyber.
FieldSize(field) ==
    CASE field \in {"kyber_pk", "kyber_sk", "kyber_ct"} -> 1536
      [] field \in {"kyber_ss", "padding"} -> 32
      [] field = "dilithium_pk" -> 1312
      [] field = "dilithium_sk" -> 2528
      [] field = "dilithium_sig" -> 2420
      [] field = "temp_buffer" -> CryptoBufferSize
      [] field = "hash_buffer" -> 64
      [] field = "raw" -> Size

\* Where the fields start: one behind the other.
Start[i \in DOMAIN Fields] == IF i = 1 THEN 0 ELSE Start[i - 1] + FieldSize(Fields[i - 1])
Offset(field) == Start[CHOOSE i \in DOMAIN Fields : Fields[i] = field]

\* The extent of size bytes at distance at from the start of a field.
In(field, at, size) == <<Offset(field) + at, Offset(field) + at + size>>

(***************************************************************************)
(* The workspace                                                           *)
(***************************************************************************)
WsInit ==
    /\ board \in Boards
    /\ block = 0
    /\ memory = <<>>
    /\ overruns = {}

IsAllocated == block > 0

\* validate_bounds: within UNIFIED_WORKSPACE_SIZE bytes from the start.
ValidBounds(e) == IsAllocated /\ e[1] >= 0 /\ e[1] < Size /\ e[2] <= Size

\* get_free_size: what the seven buffers of the algorithms leave of the block. They are the
\* first seven of the struct.
Used == Offset("temp_buffer")
FreeSize == IF ~IsAllocated THEN 0 ELSE Max({0, Size - Used})

Beyond(who, e, room) == IF e[2] > room THEN {[by |-> who, extent |-> e]} ELSE {}

\* Mutant of Allocate: the whole struct is set to zero.
AllocateClearsStruct(got) ==
    /\ ~IsAllocated
    /\ got \in {0, Size} \cup (IF board = "STM32" THEN {Size \div 2} ELSE {})
    /\ block' = got
    /\ memory' = IF got > 0 THEN (<<0, Offset("raw") + Size>> :> ZeroBytes) ELSE memory
    /\ overruns' = IF got > 0 THEN Beyond("allocate", <<0, Offset("raw") + Size>>, got) ELSE overruns
    /\ UNCHANGED board

\* allocate: malloc returns got bytes, the STM32 asks again for half; all of the full
\* size is cleared.
Allocate(got) ==
    /\ ~IsAllocated
    /\ got \in {0, Size} \cup (IF board = "STM32" THEN {Size \div 2} ELSE {})
    /\ block' = got
    /\ IF got = 0
       THEN UNCHANGED <<memory, overruns>>
       ELSE /\ memory' = Store(memory, <<0, Size>>, ZeroBytes)
            /\ overruns' = overruns \cup Beyond("allocate", <<0, Size>>, got)
    /\ UNCHANGED board

\* A function is given field as its output and writes the first size bytes of it.
Write(field, size, value) ==
    /\ memory' = Store(memory, In(field, 0, size), value)
    /\ overruns' = overruns \cup Beyond(field, In(field, 0, size), block)
    /\ UNCHANGED <<board, block>>

\* secure_clear: UNIFIED_WORKSPACE_SIZE bytes from raw, the last field of the struct.
SecureClear ==
    /\ memory' = Store(memory, In("raw", 0, Size), ZeroBytes)
    /\ overruns' = overruns \cup Beyond("secure_clear", In("raw", 0, Size), block)
    /\ UNCHANGED <<board, block>>
=============================================================================
