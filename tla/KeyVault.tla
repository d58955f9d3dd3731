---- MODULE KeyVault ----
(***************************************************************************)
(* What a node keeps in flash, and what can be read of it after which      *)
(* boots, power losses and wipes: KeyVault (src/source/storage.cpp), the   *)
(* panic wipe of SecurityOfficer (security.cpp), the records of BlackBox   *)
(* (blackbox.cpp), in the order in which setup() and loop() of             *)
(* kyber_dilithium.ino use them.                                           *)
(*                                                                         *)
(* All of it runs in one task, so steps are interrupted by power loss      *)
(* alone.  A call of NVS takes effect or does not (external); any of them  *)
(* may fail.  AES-256-GCM opens a blob under the key that sealed it and    *)
(* under no other (external), so a sealed blob is a key with a value.      *)
(* SHA3-256 of the device's address and a salt gives one key per salt,     *)
(* which stands for it here.                                               *)
(***************************************************************************)
EXTENDS SecurityOfficer

CONSTANTS
    Name,        \* names of keys the application saves
    HmacSecret,  \* "hmac_secret", the name Messenger::init uses
    Value,       \* what is saved under them
    Peer,        \* addresses of trusted peers
    Salt,        \* salts the random number generator may draw
    EFuseSalt,   \* a salt in the user data eFuse
    None,        \* nothing stored
    Zero,        \* the master key before generate_master_key: 32 zero bytes
    FallbackKey, \* the master key made of 0xA5 when pqc_sys does not open
    MaxFailed    \* bound: failures that are counted

\* What master_vault_key may hold, and what NVS may hold under a name.
MasterKeys == Salt \cup {Zero, FallbackKey, EFuseSalt}
Names == Name \cup {HmacSecret}
Blobs == [under : MasterKeys, value : Value]

ASSUME VaultAssumption ==
    /\ HmacSecret \notin Name
    /\ Value # {}
    /\ None \notin Value \cup Blobs \cup MasterKeys
    /\ {Zero, FallbackKey, EFuseSalt} \cap Salt = {}
    /\ Zero # FallbackKey
    /\ EFuseSalt \notin {Zero, FallbackKey}
    /\ MaxFailed \in Nat

VARIABLES
    \* In hardware and in flash.
    efuse,     \* the salt in the eFuse, None if it is not programmed
    vault,     \* pqc_vault: name -> sealed blob
    peers,     \* pqc_peers: the addresses with a public key
    admin,     \* pqc_sys: admin_pk is stored
    salt,      \* pqc_sys: vault_salt
    log,       \* GumusLog.bin: the keys its records are sealed under
    \* In RAM.
    pc,        \* where setup() or loop() is
    back,      \* where it goes on after a wipe
    master,    \* master_vault_key
    secret,    \* HMAC_SECRET
    locked,    \* system_locked_1, and system_locked_2 with it
    failed,    \* failed_attempts
    \* History.
    promised,  \* name -> what was saved under it by a node that was not locked
    drawn,     \* salts drawn so far
    dead,      \* stored salts that a wipe has erased
    burst,     \* quick failures in a row since boot, without a success
    faulty     \* a call of NVS has failed

flash == <<efuse, vault, peers, admin, salt, log>>
officer == <<locked, failed, burst>>
history == <<promised, drawn, dead, faulty>>
vars == <<flash, pc, back, master, secret, officer, history>>

WipeSteps == {"wipe_vault", "wipe_peers", "wipe_sys"}
Steps == {"messenger", "save_secret", "print_logs", "vault_init", "master_key", "setup", "wait", "loop"}
             \cup WipeSteps

----

\* What load_key returns for n, None when it fails: no blob is stored, or the
\* master key in RAM is not the one it was sealed under.
Loaded(n) == IF vault[n] # None /\ vault[n].under = master THEN vault[n].value ELSE None

\* What save_key writes.
SealedAs(v) == [under |-> master, value |-> v]

\* save_key(n, v) that returns true.
SaveKey(n, v) ==
    /\ vault' = [vault EXCEPT ![n] = SealedAs(v)]
    /\ promised' = [promised EXCEPT ![n] = IF locked THEN None ELSE v]
    /\ UNCHANGED faulty

\* save_key that returns false: nothing is written.
SaveFails ==
    /\ faulty' = TRUE
    /\ UNCHANGED <<vault, promised>>

\* log_security_incident: the record is sealed under the master key of the
\* moment and appended if the file opens.
Record == log' \in {log, log \cup {master}}

\* Mutant of PanicWipe: the lock flags are not set.
PanicWipeUnlocked(next) ==
    /\ Record
    /\ pc' = "wipe_vault"
    /\ back' = next
    /\ promised' = [n \in Names |-> None]
    /\ UNCHANGED <<efuse, vault, peers, admin, salt, master, secret, locked, drawn, dead, faulty>>

\* panic_wipe: locks, records, then has destroy_vault erase the flash.
PanicWipe(next) ==
    /\ locked' = TRUE
    /\ Record
    /\ pc' = "wipe_vault"
    /\ back' = next
    /\ promised' = [n \in Names |-> None]
    /\ UNCHANGED <<efuse, vault, peers, admin, salt, master, secret, drawn, dead, faulty>>

----

Init ==
    /\ efuse \in {None, EFuseSalt}
    /\ vault = [n \in Names |-> None]
    /\ peers = {}
    /\ admin = FALSE
    /\ salt = None
    /\ log = {}
    /\ pc = "messenger"
    /\ back = "master_key"
    /\ master = Zero
    /\ secret = None
    /\ locked = FALSE
    /\ failed = 0
    /\ promised = [n \in Names |-> None]
    /\ drawn = {}
    /\ dead = {}
    /\ burst = 0
    /\ faulty = FALSE

\* Power is lost at any moment; the node starts again.  SecurityOfficer::init
\* and the loader clear what was in RAM.
Restart ==
    /\ pc' = "messenger"
    /\ back' = "master_key"
    /\ master' = Zero
    /\ secret' = None
    /\ locked' = FALSE
    /\ failed' = 0
    /\ burst' = 0
    /\ UNCHANGED <<flash, history>>

\* Mutant of LoadSecret: the saved secret is not looked for.
LoadSecretNever ==
    /\ pc = "messenger"
    /\ secret' \in Value
    /\ pc' = "save_secret"
    /\ UNCHANGED <<flash, back, master, officer, history>>

\* Messenger::init looks for the secret all frames are authenticated with.
\* The vault has no master key yet.
LoadSecret ==
    /\ pc = "messenger"
    /\ \/ /\ Loaded(HmacSecret) # None
          /\ secret' = Loaded(HmacSecret)
          /\ pc' = "print_logs"
          /\ UNCHANGED faulty
       \/ /\ secret' \in Value
          /\ pc' = "save_secret"
          /\ faulty' = (faulty \/ Loaded(HmacSecret) # None)
    /\ UNCHANGED <<flash, back, master, officer, promised, drawn, dead>>

\* A secret that could not be loaded is drawn and saved.
SaveSecret ==
    /\ pc = "save_secret"
    /\ SaveKey(HmacSecret, secret) \/ SaveFails
    /\ pc' = "print_logs"
    /\ UNCHANGED <<efuse, peers, admin, salt, log, back, master, secret, officer, drawn, dead>>

\* BlackBox::init and print_saved_logs: nothing is changed.
PrintLogs ==
    /\ pc = "print_logs"
    /\ pc' = "vault_init"
    /\ UNCHANGED <<flash, back, master, secret, officer, history>>

\* KeyVault::init up to the entropy check, which may start a wipe.
VaultInit ==
    /\ efuse \in {None, EFuseSalt}
    /\ pc = "vault_init"
    /\ \/ /\ pc' = "master_key"
          /\ UNCHANGED <<flash, back, master, secret, locked, history>>
       \/ PanicWipe("master_key")
    /\ UNCHANGED <<failed, burst>>

\* nvs_flash_init finds the partition unusable and everything in it is erased.
FlashErased ==
    /\ pc = "vault_init"
    /\ vault' = [n \in Names |-> None]
    /\ peers' = {}
    /\ admin' = FALSE
    /\ salt' = None
    /\ faulty' = TRUE
    /\ promised' = [n \in Names |-> None]
    /\ UNCHANGED <<efuse, log, pc, back, master, secret, officer, drawn, dead>>

\* Mutant of GenerateMasterKey: the stored salt is not looked up.
GenerateMasterKeyAnew ==
    /\ pc = "master_key"
    /\ \E s \in Salt \ drawn :
           /\ drawn' = drawn \cup {s}
           /\ master' = s
           /\ salt' = s
    /\ pc' = "setup"
    /\ UNCHANGED <<efuse, vault, peers, admin, log, back, secret, officer, promised, dead, faulty>>

\* generate_master_key: from the eFuse, from the stored salt, from a salt drawn
\* now and stored if NVS takes it, or from 0xA5 if NVS does not even open.
FromEFuse ==
    /\ efuse # None
    /\ master' = efuse
    /\ UNCHANGED <<salt, drawn, faulty>>

FromStoredSalt ==
    /\ salt # None
    /\ master' = salt
    /\ UNCHANGED <<salt, drawn, faulty>>

FromNewSalt ==
    \E s \in Salt \ drawn, stored \in BOOLEAN :
        /\ drawn' = drawn \cup {s}
        /\ master' = s
        /\ salt' = IF stored THEN s ELSE salt
        /\ faulty' = (faulty \/ salt # None \/ ~ stored)

FromFallback ==
    /\ master' = FallbackKey
    /\ faulty' = TRUE
    /\ UNCHANGED <<salt, drawn>>

GenerateMasterKey ==
    /\ pc = "master_key"
    /\ \/ FromEFuse
       \/ efuse = None /\ (FromStoredSalt \/ FromNewSalt \/ FromFallback)
    /\ pc' = "setup"
    /\ UNCHANGED <<efuse, vault, peers, admin, log, back, secret, officer, promised, dead>>

----
(* What setup() does once the vault is initialised: it saves keys, peers   *)
(* and the administrator's key, whether the system is locked or not.       *)

Save(n, v) ==
    /\ pc = "setup"
    /\ SaveKey(n, v) \/ SaveFails
    /\ UNCHANGED <<efuse, peers, admin, salt, log, pc, back, master, secret, officer, drawn, dead>>

\* add_trusted_peer, which has no result; if NVS fails nothing changes.
AddTrustedPeer(p) ==
    /\ pc = "setup"
    /\ peers' = peers \cup {p}
    /\ UNCHANGED <<efuse, vault, admin, salt, log, pc, back, master, secret, officer, history>>

SaveAdminPk ==
    /\ pc = "setup"
    /\ admin' = TRUE
    /\ UNCHANGED <<efuse, vault, peers, salt, log, pc, back, master, secret, officer, history>>

EnterLoop ==
    /\ pc = "setup"
    /\ pc' = "wait"
    /\ UNCHANGED <<flash, back, master, secret, officer, history>>

----
(* What setup() and loop() both do: they generate keys and verify          *)
(* signatures.  loop() looks at the lock when it is called; an iteration   *)
(* that a panic interrupts goes on to its end.                             *)

Iterate ==
    /\ pc = "wait"
    /\ ~ locked
    /\ pc' = "loop"
    /\ UNCHANGED <<flash, back, master, secret, officer, history>>

IterationEnds ==
    /\ pc = "loop"
    /\ pc' = "wait"
    /\ UNCHANGED <<flash, back, master, secret, officer, history>>

Working == pc \in {"setup", "loop"}

\* check_entropy_lock, at the start of every key generation, fails.
EntropyTooLow ==
    /\ Working
    /\ PanicWipe(pc)
    /\ UNCHANGED <<failed, burst>>

\* report_signature_result(true).
ReportSuccess ==
    /\ Working
    /\ failed' = AfterSuccess(failed)
    /\ burst' = 0
    /\ UNCHANGED <<flash, pc, back, master, secret, locked, history>>

\* report_signature_result(false).
ReportFailure(quick) ==
    /\ Working
    /\ failed < MaxFailed
    /\ failed' = AfterFailure(failed, quick)
    /\ burst' = IF quick THEN burst + 1 ELSE 0
    /\ IF Panics(failed, quick)
       THEN PanicWipe(pc)
       ELSE /\ Record
            /\ UNCHANGED <<efuse, vault, peers, admin, salt, pc, back, master, secret, locked, history>>

----
(* destroy_vault: one namespace after the other, each erased or not.       *)

\* Mutant of WipeVault: the erasure is not committed.
WipeVaultUncommitted ==
    /\ pc = "wipe_vault"
    /\ pc' = "wipe_peers"
    /\ UNCHANGED <<flash, back, master, secret, officer, history>>

WipeVault ==
    /\ pc = "wipe_vault"
    /\ \/ vault' = [n \in Names |-> None] /\ UNCHANGED faulty
       \/ UNCHANGED vault /\ faulty' = TRUE
    /\ pc' = "wipe_peers"
    /\ UNCHANGED <<efuse, peers, admin, salt, log, back, master, secret, officer, promised, drawn, dead>>

WipePeers ==
    /\ pc = "wipe_peers"
    /\ \/ peers' = {} /\ UNCHANGED faulty
       \/ UNCHANGED peers /\ faulty' = TRUE
    /\ pc' = "wipe_sys"
    /\ UNCHANGED <<efuse, vault, admin, salt, log, back, master, secret, officer, promised, drawn, dead>>

WipeSys ==
    /\ pc = "wipe_sys"
    /\ \/ /\ admin' = FALSE
          /\ salt' = None
          /\ dead' = dead \cup ({salt} \ {None})
          /\ UNCHANGED faulty
       \/ /\ faulty' = TRUE
          /\ UNCHANGED <<admin, salt, dead>>
    /\ pc' = back
    /\ UNCHANGED <<efuse, vault, peers, log, back, master, secret, officer, promised, drawn>>

----

Boot == LoadSecret \/ SaveSecret \/ PrintLogs \/ VaultInit \/ FlashErased \/ GenerateMasterKey

Work ==
    \/ \E n \in Name, v \in Value : Save(n, v)
    \/ \E p \in Peer : AddTrustedPeer(p)
    \/ SaveAdminPk
    \/ EnterLoop \/ Iterate \/ IterationEnds
    \/ EntropyTooLow
    \/ ReportSuccess
    \/ \E quick \in BOOLEAN : ReportFailure(quick)

Wipe == WipeVault \/ WipePeers \/ WipeSys

Next == Restart \/ Boot \/ Work \/ Wipe

Spec == Init /\ [][Next]_vars

----

\* Type correctness; the counters never fall below zero.
TypeOK ==
    /\ efuse \in {None, EFuseSalt}
    /\ vault \in [Names -> Blobs \cup {None}]
    /\ peers \in SUBSET Peer
    /\ admin \in BOOLEAN
    /\ salt \in Salt \cup {None}
    /\ log \in SUBSET MasterKeys
    /\ pc \in Steps
    /\ back \in {"master_key", "setup", "loop"}
    /\ master \in MasterKeys
    /\ secret \in Value \cup {None}
    /\ locked \in BOOLEAN
    /\ failed \in Nat
    /\ promised \in [Names -> Value \cup {None}]
    /\ drawn \in SUBSET Salt
    /\ dead \in SUBSET Salt
    /\ burst \in Nat
    /\ faulty \in BOOLEAN

\* A key that save_key has stored can be loaded for as long as it is not wiped,
\* over any number of restarts and power losses: every boot ends up with the
\* master key of the boot that saved it.  This is said of a node whose NVS has
\* not failed and of keys saved while it was not locked; the master key of a
\* locked node is one whose salt is gone.
SavedKeysLoad ==
    ~ faulty /\ pc \in {"setup", "wait", "loop"} =>
        \A n \in Name : promised[n] # None => Loaded(n) = promised[n]

\* A node authenticates its frames with the same secret after every restart
\* until it is wiped.  The secret is saved and loaded before the vault has its
\* master key, in every boot alike, and that is what lets it be read.
SecretSurvives ==
    ~ faulty /\ secret # None /\ promised[HmacSecret] # None => secret = promised[HmacSecret]

\* A salt that was wiped never comes back, and a node works with the master key
\* made of it at most until its next restart, locked.  What was sealed under
\* that key is lost even where erasing the blobs failed, unless the salt is in
\* the eFuse, which no wipe reaches.
WipedSaltsStayDead ==
    /\ salt \notin dead
    /\ master \in dead => locked

\* destroy_vault takes the secret keys first: when peers, administrator or salt
\* go, no secret key is left, so a power loss inside a wipe never leaves the
\* secrets of a node that has forgotten the rest.
WipeSecretsFirst ==
    [][~ faulty' /\ (~ peers \subseteq peers' \/ (admin /\ ~ admin') \/ (salt # None /\ salt' = None))
           => \A n \in Names : vault'[n] = None]_vars

\* More than FloodThreshold quick failures in a row lock the system, whatever
\* the counter held before them.
FloodLocks == burst > FloodThreshold => locked
====
