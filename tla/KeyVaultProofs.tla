---- MODULE KeyVaultProofs ----
(***************************************************************************)
(* What KeyVault keeps, for every number of keys, values, peers and salts, *)
(* every threshold and any number of restarts, power losses and failures.  *)
(***************************************************************************)
EXTENDS KeyVault, TLAPS

\* Before generate_master_key the vault works with the all-zero key, and
\* SecurityOfficer::init has unlocked the system.
EarlySteps == {"messenger", "save_secret", "print_logs", "vault_init"}

BootOrder ==
    /\ pc \in EarlySteps => master = Zero /\ ~ locked
    /\ pc = "save_secret" => secret \in Value

\* A wipe runs locked, and a locked node has promised nothing.
LockedWipe ==
    /\ pc \in WipeSteps => locked
    /\ locked => \A n \in Names : promised[n] = None

\* The master key a boot will end up with.
BootKey == IF efuse # None THEN efuse ELSE salt

\* A promised key is stored under the key its readers will have: the secret of
\* Messenger under the all-zero key, the others under the key of every boot.
KeptKeys ==
    ~ faulty => \A n \in Name : promised[n] # None =>
                    BootKey # None /\ vault[n] = [under |-> BootKey, value |-> promised[n]]

KeptSecret ==
    ~ faulty /\ promised[HmacSecret] # None => vault[HmacSecret] = [under |-> Zero, value |-> promised[HmacSecret]]

BootKeyInUse == ~ faulty /\ ~ locked /\ pc \in {"setup", "wait", "loop"} => master = BootKey

\* Salts are drawn once.
SaltsDrawn ==
    /\ dead \subseteq drawn
    /\ salt # None => salt \in drawn

\* The second and third step of a wipe find the vault empty.
EmptyVault == ~ faulty /\ pc \in {"wipe_peers", "wipe_sys"} => \A n \in Names : vault[n] = None

\* Quick failures in a row are all in the counter.
BurstCounted == ~ locked => burst <= failed /\ burst <= FloodThreshold

IInv ==
    /\ TypeOK
    /\ BootOrder
    /\ LockedWipe
    /\ KeptKeys
    /\ KeptSecret
    /\ SecretSurvives
    /\ BootKeyInUse
    /\ SaltsDrawn
    /\ WipedSaltsStayDead
    /\ EmptyVault
    /\ BurstCounted

----

\* What report_signature_result makes of the counter stays a natural number.
LEMMA CounterLemma ==
    ASSUME NEW n \in Nat, NEW quick \in BOOLEAN
    PROVE  /\ AfterSuccess(n) \in Nat
           /\ AfterFailure(n, quick) \in Nat
  <1>1. AfterSuccess(n) \in Nat
    BY SMT DEF AfterSuccess
  <1>2. (n + 1) \div 2 \in Nat
    BY SMT
  <1>3. AfterFailure(n, quick) \in Nat
    BY <1>2, SMT DEF AfterFailure
  <1>. QED
    BY <1>1, <1>3

\* The keys the vault may work with.
LEMMA MasterKeysLemma ==
    /\ Salt \subseteq MasterKeys
    /\ Zero \in MasterKeys /\ FallbackKey \in MasterKeys /\ EFuseSalt \in MasterKeys
  BY SMT DEF MasterKeys

\* The invariant holds at the first power-on.
LEMMA InitIInv == Init => IInv
  <1>1. SUFFICES ASSUME Init PROVE IInv
    OBVIOUS
  <1>2. TypeOK
    <2>1. vault \in [Names -> Blobs \cup {None}] /\ promised \in [Names -> Value \cup {None}]
      BY <1>1, SMT DEF Init
    <2>. QED
      BY <1>1, <2>1, MasterKeysLemma, Zenon DEF Init, TypeOK, Steps
  <1>. QED
    BY <1>1, <1>2, VaultAssumption, OfficerAssumption, SMT DEF Init, IInv, BootOrder, EarlySteps, LockedWipe, WipeSteps,
       KeptKeys, KeptSecret, SecretSurvives, BootKeyInUse, SaltsDrawn, WipedSaltsStayDead,
       EmptyVault, BurstCounted, Names, MasterKeys

----
(* The steps of a boot.                                                    *)

\* Power loss and the start of the next boot.
LEMMA RestartIInv ==
    ASSUME IInv, Restart
    PROVE  IInv'
  <1>1. TypeOK'
    BY MasterKeysLemma, Zenon DEF IInv, Restart, TypeOK, flash, history, Steps
  <1>2. /\ BootOrder' /\ LockedWipe' /\ SecretSurvives'
        /\ BootKeyInUse' /\ EmptyVault'
    BY SMT DEF Restart, BootOrder, EarlySteps, LockedWipe, WipeSteps, SecretSurvives,
       BootKeyInUse, EmptyVault
  <1>3. KeptKeys' /\ KeptSecret' /\ SaltsDrawn'
    BY SMT DEF IInv, Restart, KeptKeys, KeptSecret, SaltsDrawn, BootKey, flash, history
  <1>4. WipedSaltsStayDead'
    BY VaultAssumption, SMT DEF IInv, TypeOK, Restart, WipedSaltsStayDead, flash, history, MasterKeys
  <1>5. BurstCounted'
    BY OfficerAssumption, SMT DEF Restart, BurstCounted
  <1>. QED
    BY <1>1, <1>2, <1>3, <1>4, <1>5 DEF IInv

\* Messenger::init finds its secret, or draws one.
LEMMA LoadSecretIInv ==
    ASSUME IInv, LoadSecret
    PROVE  IInv'
  <1>1. /\ master = Zero /\ ~ locked /\ UNCHANGED <<flash, back, master, officer, promised, drawn, dead>>
        /\ pc' \in {"print_logs", "save_secret"}
    BY SMT DEF IInv, LoadSecret, BootOrder, EarlySteps
  <1>2. secret' \in Value /\ faulty' \in BOOLEAN
    <2>1. CASE Loaded(HmacSecret) # None /\ secret' = Loaded(HmacSecret) /\ UNCHANGED faulty
      <3>1. vault[HmacSecret] \in Blobs /\ secret' = vault[HmacSecret].value
        BY <2>1, SMT DEF IInv, TypeOK, Loaded, Names
      <3>. QED
        BY <2>1, <3>1, SMT DEF Blobs, IInv, TypeOK
    <2>2. CASE secret' \in Value /\ faulty' = (faulty \/ Loaded(HmacSecret) # None)
      BY <2>2, Zenon DEF IInv, TypeOK
    <2>. QED
      BY <2>1, <2>2, Zenon DEF LoadSecret
  <1>3. TypeOK'
    BY <1>1, <1>2, Zenon DEF IInv, TypeOK, flash, officer, Steps
  <1>4. SecretSurvives'
    <2>1. SUFFICES ASSUME ~ faulty', promised'[HmacSecret] # None
                   PROVE  secret' = promised'[HmacSecret]
      BY SMT DEF SecretSurvives
    <2>2. ~ faulty /\ (Loaded(HmacSecret) # None => secret' = Loaded(HmacSecret))
      <3>1. CASE Loaded(HmacSecret) # None /\ secret' = Loaded(HmacSecret) /\ faulty' = faulty
        BY <2>1, <3>1, Zenon
      <3>2. CASE faulty' = (faulty \/ Loaded(HmacSecret) # None)
        BY <2>1, <3>2, Zenon
      <3>. QED
        BY <3>1, <3>2, Zenon DEF LoadSecret
    <2>3. vault[HmacSecret] = [under |-> Zero, value |-> promised[HmacSecret]]
      BY <1>1, <2>1, <2>2, SMT DEF IInv, KeptSecret
    <2>4. vault[HmacSecret] # None /\ promised[HmacSecret] # None
      BY <1>1, <2>1, <2>3, VaultAssumption, SMT DEF IInv, TypeOK, Blobs, Names, MasterKeys
    <2>5. Loaded(HmacSecret) = promised[HmacSecret]
      BY <1>1, <2>3, <2>4, SMT DEF Loaded
    <2>. QED
      BY <1>1, <2>2, <2>4, <2>5
  <1>5. faulty => faulty'
    BY Zenon DEF LoadSecret
  <1>6. /\ BootOrder' /\ LockedWipe' /\ KeptKeys' /\ KeptSecret'
        /\ BootKeyInUse' /\ EmptyVault'
    BY <1>1, <1>2, <1>5, SMT DEF IInv, BootOrder, EarlySteps, LockedWipe, WipeSteps, KeptKeys, KeptSecret,
       BootKeyInUse, EmptyVault, BootKey, flash, officer
  <1>7. SaltsDrawn' /\ WipedSaltsStayDead' /\ BurstCounted'
    BY <1>1, SMT DEF IInv, SaltsDrawn, WipedSaltsStayDead, BurstCounted, flash, officer
  <1>. QED
    BY <1>3, <1>4, <1>6, <1>7 DEF IInv

\* save_key keeps the types.
LEMMA SaveKeyType ==
    ASSUME TypeOK, NEW n \in Names, NEW v \in Value, SaveKey(n, v)
    PROVE  /\ vault' \in [Names -> Blobs \cup {None}]
           /\ promised' \in [Names -> Value \cup {None}]
  <1>1. SealedAs(v) \in Blobs
    BY SMT DEF TypeOK, SealedAs, Blobs
  <1>. QED
    BY <1>1, SMT DEF TypeOK, SaveKey

\* A secret that was drawn is saved, or not.
LEMMA SaveSecretIInv ==
    ASSUME IInv, SaveSecret
    PROVE  IInv'
  <1>1. /\ master = Zero /\ ~ locked /\ secret \in Value /\ HmacSecret \in Names
        /\ UNCHANGED <<efuse, peers, admin, salt, log, back, master, secret, officer, drawn, dead>>
        /\ pc = "save_secret" /\ pc' = "print_logs"
    BY SMT DEF IInv, SaveSecret, BootOrder, EarlySteps, Names
  <1>2. CASE SaveKey(HmacSecret, secret)
    <2>1. TypeOK'
      BY <1>1, <1>2, SaveKeyType, Zenon DEF IInv, TypeOK, SaveKey, officer, Steps
    <2>2. /\ vault'[HmacSecret] = [under |-> Zero, value |-> secret]
          /\ promised'[HmacSecret] = secret
          /\ UNCHANGED faulty
          /\ \A n \in Name : vault'[n] = vault[n] /\ promised'[n] = promised[n]
      BY <1>1, <1>2, VaultAssumption, SMT DEF IInv, TypeOK, SaveKey, SealedAs, Names
    <2>3. KeptKeys' /\ KeptSecret' /\ SecretSurvives'
      BY <1>1, <2>2, SMT DEF IInv, KeptKeys, KeptSecret, SecretSurvives, BootKey
    <2>4. BootOrder' /\ LockedWipe' /\ BootKeyInUse' /\ EmptyVault'
      BY <1>1, SMT DEF BootOrder, EarlySteps, LockedWipe, WipeSteps, BootKeyInUse, EmptyVault, officer
    <2>5. SaltsDrawn' /\ WipedSaltsStayDead' /\ BurstCounted'
      BY <1>1, SMT DEF IInv, SaltsDrawn, WipedSaltsStayDead, BurstCounted, officer
    <2>. QED
      BY <2>1, <2>3, <2>4, <2>5 DEF IInv
  <1>3. CASE SaveFails
    <2>1. TypeOK'
      BY <1>1, <1>3, Zenon DEF IInv, TypeOK, SaveFails, officer, Steps
    <2>2. KeptKeys' /\ KeptSecret' /\ SecretSurvives' /\ BootKeyInUse' /\ EmptyVault'
      BY <1>3, SMT DEF SaveFails, KeptKeys, KeptSecret, SecretSurvives, BootKeyInUse, EmptyVault
    <2>3. BootOrder' /\ LockedWipe'
      BY <1>1, SMT DEF BootOrder, EarlySteps, LockedWipe, WipeSteps, officer
    <2>4. SaltsDrawn' /\ WipedSaltsStayDead' /\ BurstCounted'
      BY <1>1, SMT DEF IInv, SaltsDrawn, WipedSaltsStayDead, BurstCounted, officer
    <2>. QED
      BY <2>1, <2>2, <2>3, <2>4 DEF IInv
  <1>. QED
    BY <1>2, <1>3 DEF SaveSecret

\* The partition is unusable and everything is gone.
LEMMA FlashErasedIInv ==
    ASSUME IInv, FlashErased
    PROVE  IInv'
  <1>1. TypeOK'
    <2>1. vault' \in [Names -> Blobs \cup {None}] /\ promised' \in [Names -> Value \cup {None}]
      BY SMT DEF FlashErased
    <2>. QED
      BY <2>1, Zenon DEF IInv, TypeOK, FlashErased, officer
  <1>2. KeptKeys' /\ KeptSecret' /\ SecretSurvives' /\ BootKeyInUse' /\ EmptyVault'
    BY SMT DEF FlashErased, KeptKeys, KeptSecret, SecretSurvives, BootKeyInUse, EmptyVault
  <1>3. BootOrder' /\ LockedWipe'
    BY SMT DEF IInv, FlashErased, BootOrder, EarlySteps, LockedWipe, WipeSteps, officer
  <1>4. None \notin dead
    BY VaultAssumption, MasterKeysLemma, SMT DEF IInv, TypeOK
  <1>5. SaltsDrawn' /\ WipedSaltsStayDead' /\ BurstCounted'
    BY <1>4, SMT DEF IInv, FlashErased, SaltsDrawn, WipedSaltsStayDead, BurstCounted, officer
  <1>. QED
    BY <1>1, <1>2, <1>3, <1>5 DEF IInv

\* A panic keeps the invariant, whatever the counters do in the same step.
LEMMA PanicIInv ==
    ASSUME IInv, NEW next \in {"master_key", "setup", "loop"}, PanicWipe(next),
           failed' \in Nat, burst' \in Nat
    PROVE  IInv'
  <1>1. TypeOK'
    <2>1. promised' \in [Names -> Value \cup {None}]
      BY SMT DEF PanicWipe
    <2>2. log' \in SUBSET MasterKeys
      BY SMT DEF IInv, TypeOK, PanicWipe, Record
    <2>. QED
      BY <2>1, <2>2, Zenon DEF IInv, TypeOK, PanicWipe, Steps, WipeSteps
  <1>2. locked' /\ pc' = "wipe_vault" /\ \A n \in Names : promised'[n] = None
    <2>1. \A n \in Names : promised'[n] = None
      BY SMT DEF PanicWipe
    <2>. QED
      BY <2>1, Zenon DEF PanicWipe
  <1>3. KeptKeys' /\ KeptSecret' /\ SecretSurvives'
    BY <1>2, SMT DEF KeptKeys, KeptSecret, SecretSurvives, Names
  <1>4. BootKeyInUse' /\ EmptyVault' /\ BootOrder' /\ LockedWipe' /\ BurstCounted'
    BY <1>2, SMT DEF BootKeyInUse, EmptyVault, BootOrder, EarlySteps, LockedWipe, BurstCounted
  <1>5. SaltsDrawn' /\ WipedSaltsStayDead'
    BY SMT DEF IInv, PanicWipe, SaltsDrawn, WipedSaltsStayDead
  <1>. QED
    BY <1>1, <1>3, <1>4, <1>5 DEF IInv

\* KeyVault::init goes on to the master key, through a wipe or not.
LEMMA VaultInitIInv ==
    ASSUME IInv, VaultInit
    PROVE  IInv'
  <1>1. CASE PanicWipe("master_key")
    BY <1>1, PanicIInv, Zenon DEF VaultInit, IInv, TypeOK
  <1>2. CASE pc' = "master_key" /\ UNCHANGED <<flash, back, master, secret, locked, history>>
    <2>1. UNCHANGED officer /\ pc = "vault_init"
      BY <1>2, SMT DEF VaultInit, officer
    <2>2. TypeOK'
      BY <1>2, <2>1, Zenon DEF IInv, TypeOK, flash, history, officer, Steps
    <2>3. /\ KeptKeys' /\ KeptSecret' /\ SecretSurvives' /\ BootKeyInUse' /\ EmptyVault'
          /\ BootOrder' /\ LockedWipe' /\ SaltsDrawn' /\ WipedSaltsStayDead' /\ BurstCounted'
      BY <1>2, <2>1, SMT DEF IInv, KeptKeys, KeptSecret, SecretSurvives, BootKeyInUse, EmptyVault,
         BootOrder, EarlySteps, LockedWipe, WipeSteps, SaltsDrawn, WipedSaltsStayDead, BurstCounted,
         BootKey, flash, history, officer
    <2>. QED
      BY <2>2, <2>3 DEF IInv
  <1>. QED
    BY <1>1, <1>2 DEF VaultInit

\* The master key of a boot without failures is BootKey, and no salt of a wiped
\* vault is used again.
LEMMA GenerateMasterKeyIInv ==
    ASSUME IInv, GenerateMasterKey
    PROVE  IInv'
  <1>1. /\ pc = "master_key" /\ pc' = "setup"
        /\ UNCHANGED <<efuse, vault, peers, admin, log, back, secret, officer, promised, dead>>
    BY SMT DEF GenerateMasterKey
  <1>2. PICK s \in Salt \cup {None} :
            \/ FromEFuse
            \/ efuse = None /\ FromStoredSalt
            \/ /\ efuse = None /\ s \in Salt \ drawn
               /\ drawn' = drawn \cup {s} /\ master' = s /\ salt' \in {s, salt}
               /\ ~ faulty' => ~ faulty /\ salt = None /\ salt' = s
               /\ faulty' \in BOOLEAN
            \/ efuse = None /\ FromFallback
    <2>1. CASE FromNewSalt /\ efuse = None
      <3>1. PICK t \in Salt \ drawn, stored \in BOOLEAN :
                /\ drawn' = drawn \cup {t}
                /\ master' = t
                /\ salt' = IF stored THEN t ELSE salt
                /\ faulty' = (faulty \/ salt # None \/ ~ stored)
        BY <2>1, Zenon DEF FromNewSalt
      <3>2. salt' \in {t, salt} /\ faulty' \in BOOLEAN
        BY <3>1, Zenon
      <3>3. ~ faulty' => ~ faulty /\ salt = None /\ salt' = t
        BY <3>1, Zenon
      <3>. QED
        BY <2>1, <3>1, <3>2, <3>3
    <2>. QED
      BY <2>1, Zenon DEF GenerateMasterKey
  <1>3. TypeOK'
    <2>1. master' \in MasterKeys /\ salt' \in Salt \cup {None} /\ drawn' \in SUBSET Salt
      BY <1>2, MasterKeysLemma, VaultAssumption, SMT
         DEF IInv, TypeOK, FromEFuse, FromStoredSalt, FromFallback
    <2>2. faulty' \in BOOLEAN
      BY <1>2, Zenon DEF IInv, TypeOK, FromEFuse, FromStoredSalt, FromFallback
    <2>. QED
      BY <1>1, <2>1, <2>2, Zenon DEF IInv, TypeOK, officer, Steps
  <1>4. SaltsDrawn' /\ WipedSaltsStayDead'
    BY <1>1, <1>2, VaultAssumption, SMT DEF IInv, TypeOK, SaltsDrawn, WipedSaltsStayDead, officer,
       FromEFuse, FromStoredSalt, FromFallback
  <1>5. ~ faulty' => ~ faulty /\ master' = BootKey' /\ (salt' = salt \/ (efuse = None /\ salt = None))
    BY <1>1, <1>2, SMT DEF BootKey, FromEFuse, FromStoredSalt, FromFallback
  <1>6. KeptKeys'
    <2>1. SUFFICES ASSUME ~ faulty', NEW n \in Name, promised'[n] # None
                   PROVE  BootKey' # None /\ vault'[n] = [under |-> BootKey', value |-> promised'[n]]
      BY DEF KeptKeys
    <2>2. BootKey # None /\ vault[n] = [under |-> BootKey, value |-> promised[n]]
      BY <1>1, <1>5, <2>1, SMT DEF IInv, KeptKeys
    <2>. QED
      BY <1>1, <1>5, <2>1, <2>2, SMT DEF BootKey
  <1>7. KeptSecret' /\ SecretSurvives' /\ BootKeyInUse' /\ EmptyVault'
    BY <1>1, <1>5, SMT DEF IInv, KeptSecret, SecretSurvives, BootKeyInUse, EmptyVault
  <1>8. BootOrder' /\ LockedWipe' /\ BurstCounted'
    BY <1>1, SMT DEF IInv, BootOrder, EarlySteps, LockedWipe, WipeSteps, BurstCounted, officer
  <1>. QED
    BY <1>3, <1>4, <1>6, <1>7, <1>8 DEF IInv

----
(* The steps of setup() and loop() at work.                                *)

\* An application key is saved, or not.
LEMMA SaveIInv ==
    ASSUME IInv, NEW n \in Name, NEW v \in Value, Save(n, v)
    PROVE  IInv'
  <1>1. /\ pc = "setup" /\ n \in Names
        /\ UNCHANGED <<efuse, peers, admin, salt, log, pc, back, master, secret, officer, drawn, dead>>
    BY SMT DEF Save, Names
  <1>2. BootOrder' /\ SaltsDrawn' /\ WipedSaltsStayDead' /\ BurstCounted' /\ EmptyVault'
    BY <1>1, SMT DEF IInv, BootOrder, EarlySteps, SaltsDrawn, WipedSaltsStayDead, BurstCounted, EmptyVault, officer
  <1>3. CASE SaveKey(n, v)
    <2>1. TypeOK'
      BY <1>1, <1>3, SaveKeyType, Zenon DEF IInv, TypeOK, SaveKey, officer
    <2>2. /\ UNCHANGED faulty
          /\ vault' = [vault EXCEPT ![n] = SealedAs(v)]
          /\ \A k \in Names \ {n} : vault'[k] = vault[k] /\ promised'[k] = promised[k]
          /\ promised'[n] = IF locked THEN None ELSE v
          /\ vault'[n] = [under |-> master, value |-> v]
      BY <1>1, <1>3, SMT DEF IInv, TypeOK, SaveKey, SealedAs
    <2>3. LockedWipe'
      BY <1>1, <2>2, SMT DEF IInv, LockedWipe, WipeSteps, officer
    <2>4. KeptSecret' /\ SecretSurvives' /\ BootKeyInUse'
      BY <1>1, <2>2, VaultAssumption, SMT DEF IInv, KeptSecret, SecretSurvives, BootKeyInUse, BootKey, officer, Names
    <2>5. KeptKeys'
      <3>1. SUFFICES ASSUME ~ faulty', NEW k \in Name, promised'[k] # None
                     PROVE  BootKey' # None /\ vault'[k] = [under |-> BootKey', value |-> promised'[k]]
        BY DEF KeptKeys
      <3>2. BootKey' = BootKey
        BY <1>1 DEF BootKey
      <3>3. CASE k # n
        BY <2>2, <3>1, <3>2, <3>3, SMT DEF IInv, KeptKeys, Names
      <3>4. CASE k = n
        <4>1. ~ locked /\ promised'[k] = v
          BY <2>2, <3>1, <3>4, SMT
        <4>2. master = BootKey
          BY <1>1, <2>2, <3>1, <4>1, SMT DEF IInv, BootKeyInUse
        <4>3. master # None
          BY VaultAssumption, SMT DEF IInv, TypeOK
        <4>. QED
          BY <2>2, <3>2, <3>4, <4>1, <4>2, <4>3
      <3>. QED
        BY <3>3, <3>4
    <2>. QED
      BY <1>2, <2>1, <2>3, <2>4, <2>5 DEF IInv
  <1>4. CASE SaveFails
    <2>1. TypeOK'
      BY <1>1, <1>4, Zenon DEF IInv, TypeOK, SaveFails, officer
    <2>2. KeptKeys' /\ KeptSecret' /\ SecretSurvives' /\ BootKeyInUse'
      BY <1>4, SMT DEF SaveFails, KeptKeys, KeptSecret, SecretSurvives, BootKeyInUse
    <2>3. LockedWipe'
      BY <1>1, <1>4, SMT DEF IInv, SaveFails, LockedWipe, WipeSteps, officer
    <2>. QED
      BY <1>2, <2>1, <2>2, <2>3 DEF IInv
  <1>. QED
    BY <1>3, <1>4 DEF Save

\* Steps that touch neither keys nor locks, and stuttering.
LEMMA QuietIInv ==
    ASSUME IInv, UNCHANGED <<efuse, vault, salt, master, secret, locked, history>>,
           back' = back, failed' \in Nat, burst' \in Nat, peers' \in SUBSET Peer, admin' \in BOOLEAN,
           log' \in SUBSET MasterKeys,
           ~ locked => burst' <= failed' /\ burst' <= FloodThreshold,
           \/ pc' = pc
           \/ pc = "print_logs" /\ pc' = "vault_init"
           \/ pc \in {"setup", "loop"} /\ pc' = "wait"
           \/ pc = "wait" /\ pc' = "loop"
    PROVE  IInv'
  <1>1. TypeOK'
    BY Zenon DEF IInv, TypeOK, history, Steps
  <1>2. BootOrder' /\ LockedWipe' /\ SecretSurvives' /\ BootKeyInUse' /\ EmptyVault'
    BY SMT DEF IInv, BootOrder, EarlySteps, LockedWipe, WipeSteps, SecretSurvives, BootKeyInUse,
       EmptyVault, BootKey, history
  <1>3. KeptKeys' /\ KeptSecret' /\ SaltsDrawn' /\ WipedSaltsStayDead' /\ BurstCounted'
    BY SMT DEF IInv, KeptKeys, KeptSecret, SaltsDrawn, WipedSaltsStayDead, BurstCounted, BootKey, history
  <1>. QED
    BY <1>1, <1>2, <1>3 DEF IInv

\* Logs, peers, the administrator's key and the end of setup().
LEMMA BookkeepingIInv ==
    ASSUME IInv, PrintLogs \/ (\E p \in Peer : AddTrustedPeer(p)) \/ SaveAdminPk \/ EnterLoop
           \/ Iterate \/ IterationEnds
    PROVE  IInv'
  <1>1. /\ UNCHANGED <<efuse, vault, salt, master, secret, locked, history>>
        /\ UNCHANGED <<back, failed, burst, log>>
        /\ \/ pc' = pc
           \/ pc = "print_logs" /\ pc' = "vault_init"
           \/ pc \in {"setup", "loop"} /\ pc' = "wait"
           \/ pc = "wait" /\ pc' = "loop"
    BY SMT DEF PrintLogs, AddTrustedPeer, SaveAdminPk, EnterLoop, Iterate, IterationEnds,
       flash, officer, history
  <1>2. peers' \in SUBSET Peer
    BY SMT DEF IInv, TypeOK, PrintLogs, AddTrustedPeer, SaveAdminPk, EnterLoop, Iterate, IterationEnds,
       flash
  <1>3. admin' \in BOOLEAN
    BY Zenon DEF IInv, TypeOK, PrintLogs, AddTrustedPeer, SaveAdminPk, EnterLoop, Iterate, IterationEnds,
       flash
  <1>4. ~ locked => burst' <= failed' /\ burst' <= FloodThreshold
    BY <1>1, SMT DEF IInv, BurstCounted
  <1>. QED
    BY <1>1, <1>2, <1>3, <1>4, QuietIInv, Zenon DEF IInv, TypeOK

\* The entropy check fails.
LEMMA EntropyIInv ==
    ASSUME IInv, EntropyTooLow
    PROVE  IInv'
  <1>1. pc \in {"setup", "loop"}
    BY SMT DEF EntropyTooLow, Working
  <1>. QED
    BY <1>1, PanicIInv, Zenon DEF EntropyTooLow, IInv, TypeOK

\* A good signature.
LEMMA ReportSuccessIInv ==
    ASSUME IInv, ReportSuccess
    PROVE  IInv'
  <1>1. /\ UNCHANGED <<efuse, vault, salt, master, secret, locked, history>>
        /\ UNCHANGED <<back, pc, peers, admin, log>>
        /\ failed' = AfterSuccess(failed) /\ burst' = 0
    BY SMT DEF ReportSuccess, flash
  <1>2. failed' \in Nat /\ 0 <= failed' /\ 0 <= FloodThreshold
    BY <1>1, CounterLemma, OfficerAssumption, SMT DEF IInv, TypeOK
  <1>3. ~ locked => burst' <= failed' /\ burst' <= FloodThreshold
    BY <1>1, <1>2
  <1>. QED
    BY <1>1, <1>2, <1>3, QuietIInv, SMT DEF IInv, TypeOK

\* A bad signature: a panic, or one more failure that leaves no more quick ones
\* in a row than the threshold.
LEMMA ReportFailureIInv ==
    ASSUME IInv, NEW quick \in BOOLEAN, ReportFailure(quick)
    PROVE  IInv'
  <1>1. pc \in {"setup", "loop"} /\ failed' = AfterFailure(failed, quick)
    BY SMT DEF ReportFailure, Working
  <1>2. failed' \in Nat
    BY <1>1, CounterLemma DEF IInv, TypeOK
  <1>3. burst' = (IF quick THEN burst + 1 ELSE 0) /\ burst' \in Nat
    <2>1. burst' = IF quick THEN burst + 1 ELSE 0
      BY Zenon DEF ReportFailure
    <2>. QED
      BY <2>1, SMT DEF IInv, TypeOK
  <1>4. CASE Panics(failed, quick)
    <2>1. PanicWipe(pc)
      BY <1>4, Zenon DEF ReportFailure
    <2>. QED
      BY <1>1, <1>2, <1>3, <2>1, PanicIInv, Zenon
  <1>5. CASE ~ Panics(failed, quick)
    <2>1. Record /\ UNCHANGED <<efuse, vault, peers, admin, salt, pc, back, master, secret, locked, history>>
      BY <1>5, Zenon DEF ReportFailure
    <2>2. log' \in SUBSET MasterKeys
      BY <2>1, SMT DEF IInv, TypeOK, Record
    <2>3. ASSUME ~ locked PROVE burst' <= failed' /\ burst' <= FloodThreshold
      <3>1. burst <= failed /\ burst \in Nat /\ failed \in Nat /\ FloodThreshold \in Nat
        BY <2>3, OfficerAssumption, SMT DEF IInv, BurstCounted, TypeOK
      <3>2. CASE quick
        <4>1. ~ (failed + 1 > FloodThreshold)
          BY <1>5, <3>2, Zenon DEF Panics, Flood
        <4>2. failed' = failed + 1 /\ burst' = burst + 1
          BY <1>1, <1>3, <3>2, Zenon DEF AfterFailure
        <4>. QED
          BY <3>1, <4>1, <4>2, SMT
      <3>3. CASE ~ quick
        BY <1>2, <1>3, <3>1, <3>3, SMT
      <3>. QED
        BY <3>2, <3>3
    <2>4. peers' \in SUBSET Peer /\ admin' \in BOOLEAN
      BY <2>1, Zenon DEF IInv, TypeOK
    <2>5. UNCHANGED <<efuse, vault, salt, master, secret, locked, history>> /\ back' = back /\ pc' = pc
      BY <2>1, Zenon
    <2>. QED
      BY <1>2, <1>3, <2>2, <2>3, <2>4, <2>5, QuietIInv, Zenon
  <1>. QED
    BY <1>4, <1>5

----
(* The steps of destroy_vault.                                             *)

\* The secret keys are erased, or not.
LEMMA WipeVaultIInv ==
    ASSUME IInv, WipeVault
    PROVE  IInv'
  <1>1. /\ pc = "wipe_vault" /\ pc' = "wipe_peers"
        /\ UNCHANGED <<efuse, peers, admin, salt, log, back, master, secret, officer, promised, drawn, dead>>
    BY SMT DEF WipeVault
  <1>2. locked /\ \A n \in Names : promised[n] = None
    BY <1>1, SMT DEF IInv, LockedWipe, WipeSteps
  <1>3. TypeOK'
    <2>1. vault' \in [Names -> Blobs \cup {None}]
      BY SMT DEF IInv, TypeOK, WipeVault
    <2>2. faulty' \in BOOLEAN
      BY Zenon DEF IInv, TypeOK, WipeVault
    <2>. QED
      BY <1>1, <2>1, <2>2, Zenon DEF IInv, TypeOK, officer, Steps, WipeSteps
  <1>4. KeptKeys' /\ KeptSecret' /\ SecretSurvives'
    BY <1>1, <1>2, SMT DEF KeptKeys, KeptSecret, SecretSurvives, Names
  <1>5. BootOrder' /\ LockedWipe' /\ BootKeyInUse' /\ BurstCounted'
    BY <1>1, <1>2, SMT DEF BootOrder, EarlySteps, LockedWipe, BootKeyInUse, BurstCounted, officer
  <1>6. EmptyVault'
    BY SMT DEF EmptyVault, WipeVault
  <1>7. SaltsDrawn' /\ WipedSaltsStayDead'
    BY <1>1, SMT DEF IInv, SaltsDrawn, WipedSaltsStayDead, officer
  <1>. QED
    BY <1>3, <1>4, <1>5, <1>6, <1>7 DEF IInv

\* The peers are erased, or not.
LEMMA WipePeersIInv ==
    ASSUME IInv, WipePeers
    PROVE  IInv'
  <1>1. /\ pc = "wipe_peers" /\ pc' = "wipe_sys"
        /\ UNCHANGED <<efuse, vault, admin, salt, log, back, master, secret, officer, promised, drawn, dead>>
    BY SMT DEF WipePeers
  <1>2. locked /\ \A n \in Names : promised[n] = None
    BY <1>1, SMT DEF IInv, LockedWipe, WipeSteps
  <1>3. TypeOK'
    <2>1. peers' \in SUBSET Peer
      BY SMT DEF IInv, TypeOK, WipePeers
    <2>2. faulty' \in BOOLEAN
      BY Zenon DEF IInv, TypeOK, WipePeers
    <2>. QED
      BY <1>1, <2>1, <2>2, Zenon DEF IInv, TypeOK, officer, Steps, WipeSteps
  <1>4. KeptKeys' /\ KeptSecret' /\ SecretSurvives'
    BY <1>1, <1>2, SMT DEF KeptKeys, KeptSecret, SecretSurvives, Names
  <1>5. BootOrder' /\ LockedWipe' /\ BootKeyInUse' /\ BurstCounted'
    BY <1>1, <1>2, SMT DEF BootOrder, EarlySteps, LockedWipe, BootKeyInUse, BurstCounted, officer
  <1>6. EmptyVault'
    BY <1>1, SMT DEF IInv, EmptyVault, WipePeers
  <1>7. SaltsDrawn' /\ WipedSaltsStayDead'
    BY <1>1, SMT DEF IInv, SaltsDrawn, WipedSaltsStayDead, officer
  <1>. QED
    BY <1>3, <1>4, <1>5, <1>6, <1>7 DEF IInv

\* The salt goes and joins the dead ones, or not.
LEMMA WipeSysIInv ==
    ASSUME IInv, WipeSys
    PROVE  IInv'
  <1>1. /\ pc = "wipe_sys" /\ pc' = back
        /\ UNCHANGED <<efuse, vault, peers, log, back, master, secret, officer, promised, drawn>>
    BY SMT DEF WipeSys
  <1>2. locked /\ (\A n \in Names : promised[n] = None) /\ back \in {"master_key", "setup", "loop"}
    BY <1>1, SMT DEF IInv, LockedWipe, WipeSteps, TypeOK
  <1>3. \/ /\ admin' = FALSE /\ salt' = None /\ dead' = dead \cup ({salt} \ {None})
        \/ /\ UNCHANGED <<admin, salt, dead>>
    BY SMT DEF WipeSys
  <1>4. None \notin Salt
    BY VaultAssumption, MasterKeysLemma, SMT
  <1>5. TypeOK'
    <2>1. salt' \in Salt \cup {None} /\ dead' \in SUBSET Salt
      BY <1>3, SMT DEF IInv, TypeOK
    <2>2. faulty' \in BOOLEAN /\ admin' \in BOOLEAN
      BY Zenon DEF IInv, TypeOK, WipeSys
    <2>. QED
      BY <1>1, <1>2, <2>1, <2>2, Zenon DEF IInv, TypeOK, officer, Steps
  <1>6. KeptKeys' /\ KeptSecret' /\ SecretSurvives'
    BY <1>1, <1>2, SMT DEF KeptKeys, KeptSecret, SecretSurvives, Names
  <1>7. BootOrder' /\ LockedWipe' /\ BootKeyInUse' /\ BurstCounted' /\ EmptyVault'
    BY <1>1, <1>2, SMT DEF BootOrder, EarlySteps, LockedWipe, BootKeyInUse, BurstCounted, EmptyVault, officer
  <1>8. SaltsDrawn' /\ WipedSaltsStayDead'
    BY <1>1, <1>2, <1>3, <1>4, SMT DEF IInv, TypeOK, SaltsDrawn, WipedSaltsStayDead, officer
  <1>. QED
    BY <1>5, <1>6, <1>7, <1>8 DEF IInv

----

\* Every step keeps the invariant.
LEMMA NextIInv == IInv /\ [Next]_vars => IInv'
  <1>1. SUFFICES ASSUME IInv, [Next]_vars PROVE IInv'
    OBVIOUS
  <1>2. CASE Boot
    BY <1>1, <1>2, LoadSecretIInv, SaveSecretIInv, BookkeepingIInv, VaultInitIInv, FlashErasedIInv,
       GenerateMasterKeyIInv DEF Boot
  <1>3. CASE Work
    BY <1>1, <1>3, SaveIInv, BookkeepingIInv, EntropyIInv, ReportSuccessIInv, ReportFailureIInv DEF Work
  <1>4. CASE Wipe
    BY <1>1, <1>4, WipeVaultIInv, WipePeersIInv, WipeSysIInv DEF Wipe
  <1>5. CASE UNCHANGED vars
    <2>1. /\ UNCHANGED <<efuse, vault, salt, master, secret, locked, history>>
          /\ UNCHANGED <<back, failed, burst, log, peers, admin, pc>>
      BY <1>5, Zenon DEF vars, flash, officer
    <2>2. ~ locked => burst' <= failed' /\ burst' <= FloodThreshold
      BY <1>1, <2>1, SMT DEF IInv, BurstCounted
    <2>. QED
      BY <1>1, <2>1, <2>2, QuietIInv, Zenon DEF IInv, TypeOK
  <1>. QED
    BY <1>1, <1>2, <1>3, <1>4, <1>5, RestartIInv DEF Next

\* The invariant of every behaviour.
THEOREM Invariance == Spec => []IInv
  BY InitIInv, NextIInv, PTL DEF Spec

\* Type correctness of the flash, the RAM and the histories.
THEOREM TypeCorrect == Spec => []TypeOK
  <1>1. IInv => TypeOK
    BY DEF IInv
  <1>. QED
    BY <1>1, Invariance, PTL

\* save_key is kept: what it stored loads after any number of restarts.
THEOREM KeysLoad == Spec => []SavedKeysLoad
  <1>1. IInv => SavedKeysLoad
    <2>1. SUFFICES ASSUME IInv, ~ faulty, pc \in {"setup", "wait", "loop"}, NEW n \in Name, promised[n] # None
                   PROVE  Loaded(n) = promised[n]
      BY DEF SavedKeysLoad
    <2>2. ~ locked
      BY <2>1, SMT DEF IInv, LockedWipe, Names
    <2>3. vault[n] = [under |-> master, value |-> promised[n]]
      BY <2>1, <2>2, SMT DEF IInv, KeptKeys, BootKeyInUse
    <2>4. vault[n] # None
      BY <2>1, <2>3, VaultAssumption, SMT DEF IInv, TypeOK, Blobs, Names
    <2>. QED
      BY <2>3, <2>4, SMT DEF Loaded
  <1>. QED
    BY <1>1, Invariance, PTL

\* The secret of Messenger is the same after any number of restarts.
THEOREM SecretKept == Spec => []SecretSurvives
  <1>1. IInv => SecretSurvives
    BY DEF IInv
  <1>. QED
    BY <1>1, Invariance, PTL

\* No salt and no master key of a wiped vault is used again.
THEOREM SaltsStayDead == Spec => []WipedSaltsStayDead
  <1>1. IInv => WipedSaltsStayDead
    BY DEF IInv
  <1>. QED
    BY <1>1, Invariance, PTL

\* A flood of bad signatures locks the system.
THEOREM FloodIsLocked == Spec => []FloodLocks
  <1>1. IInv => FloodLocks
    BY OfficerAssumption, SMT DEF IInv, TypeOK, BurstCounted, FloodLocks
  <1>. QED
    BY <1>1, Invariance, PTL

\* What WipeSecretsFirst says of one step: something else of the flash is lost,
\* and no secret key is left.
Forgets == ~ peers \subseteq peers' \/ (admin /\ ~ admin') \/ (salt # None /\ salt' = None)

SecretsFirst == ~ faulty' /\ Forgets => \A n \in Names : vault'[n] = None

\* Steps that lose neither peers nor administrator nor salt.
LEMMA NothingForgotten ==
    ASSUME TypeOK, peers \subseteq peers', admin => admin', salt # None => salt' # None
    PROVE  SecretsFirst
  BY Zenon DEF SecretsFirst, Forgets

\* Every step obeys the order of destroy_vault.
LEMMA StepSecretsFirst ==
    ASSUME IInv, [Next]_vars
    PROVE  SecretsFirst
  <1>1. TypeOK
    BY DEF IInv
  <1>2. CASE UNCHANGED vars \/ Restart \/ Work \/ LoadSecret \/ SaveSecret \/ PrintLogs \/ VaultInit \/ WipeVault
    <2>1. UNCHANGED peers \/ \E p \in Peer : peers' = peers \cup {p}
      BY <1>2, SMT DEF vars, flash, Restart, Work, Save, AddTrustedPeer, SaveAdminPk,
         EnterLoop, Iterate, IterationEnds, EntropyTooLow,
         ReportSuccess, ReportFailure, PanicWipe, LoadSecret, SaveSecret, PrintLogs, VaultInit, WipeVault
    <2>2. UNCHANGED salt
      BY <1>2, SMT DEF vars, flash, Restart, Work, Save, AddTrustedPeer, SaveAdminPk,
         EnterLoop, Iterate, IterationEnds, EntropyTooLow,
         ReportSuccess, ReportFailure, PanicWipe, LoadSecret, SaveSecret, PrintLogs, VaultInit, WipeVault
    <2>3. admin => admin'
      BY <1>2, Zenon DEF vars, flash, Restart, Work, Save, AddTrustedPeer, SaveAdminPk,
         EnterLoop, Iterate, IterationEnds, EntropyTooLow,
         ReportSuccess, ReportFailure, PanicWipe, LoadSecret, SaveSecret, PrintLogs, VaultInit, WipeVault
    <2>4. peers \subseteq peers'
      BY <2>1, SMT
    <2>. QED
      BY <1>1, <2>2, <2>3, <2>4, NothingForgotten
  <1>3. CASE FlashErased
    BY <1>3, SMT DEF FlashErased, SecretsFirst
  <1>4. CASE GenerateMasterKey
    <2>1. peers \subseteq peers' /\ (admin => admin')
      BY <1>4, Zenon DEF GenerateMasterKey
    <2>2. None \notin Salt
      BY VaultAssumption, MasterKeysLemma, SMT
    <2>3. salt # None => salt' # None
      BY <1>4, <2>2, SMT DEF GenerateMasterKey, FromEFuse, FromStoredSalt, FromNewSalt, FromFallback
    <2>. QED
      BY <1>1, <2>1, <2>3, NothingForgotten
  <1>5. CASE WipePeers
    <2>1. pc = "wipe_peers" /\ vault' = vault
      BY <1>5, SMT DEF WipePeers
    <2>2. faulty' = faulty \/ faulty' = TRUE
      BY <1>5, Zenon DEF WipePeers
    <2>3. ~ faulty' => ~ faulty
      BY <2>2
    <2>. QED
      BY <2>1, <2>3, SMT DEF IInv, EmptyVault, SecretsFirst
  <1>6. CASE WipeSys
    <2>1. pc = "wipe_sys" /\ vault' = vault
      BY <1>6, SMT DEF WipeSys
    <2>2. faulty' = faulty \/ faulty' = TRUE
      BY <1>6, Zenon DEF WipeSys
    <2>3. ~ faulty' => ~ faulty
      BY <2>2
    <2>. QED
      BY <2>1, <2>3, SMT DEF IInv, EmptyVault, SecretsFirst
  <1>. QED
    BY <1>2, <1>3, <1>4, <1>5, <1>6 DEF Next, Boot, Wipe

\* A wipe takes the secret keys before anything else.
THEOREM SecretsGoFirst == Spec => WipeSecretsFirst
  <1>1. IInv /\ [Next]_vars => [SecretsFirst]_vars
    BY StepSecretsFirst
  <1>2. Spec => [][SecretsFirst]_vars
    BY <1>1, Invariance, PTL DEF Spec
  <1>. QED
    BY <1>2, PTL DEF WipeSecretsFirst, SecretsFirst, Forgets
====
