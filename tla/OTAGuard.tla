------------------------------ MODULE OTAGuard ------------------------------
(***************************************************************************)
(* The verification of firmware updates, ota.cpp: an image is hashed chunk  *)
(* by chunk and the hash is what the root key must have signed. A chunk is  *)
(* a sequence of words; the empty one stands for no bytes.                  *)
(***************************************************************************)
EXTENDS Dilithium, SequencesExt

VARIABLES
    root_public_key,       \* NoKey until set_root_pk (pk_set)
    ota_hash_state, active_signature, verification_active,
    fed,                   \* history: chunks since the last begin
    acceptedUpdate         \* history: the last update that was accepted

otaVars == <<root_public_key, ota_hash_state, active_signature, verification_active,
             fed, acceptedUpdate>>

NoKey == [none |-> TRUE]
NoUpdate == [chunks |-> <<>>, sig |-> NoKey]

OtaInit ==
    /\ root_public_key = NoKey
    /\ ota_hash_state = EmptySponge
    /\ active_signature = NoKey
    /\ verification_active = FALSE
    /\ fed = <<>>
    /\ acceptedUpdate = NoUpdate

PkSet == root_public_key # NoKey

SetRootPk(pk) ==
    /\ root_public_key' = pk
    /\ UNCHANGED <<ota_hash_state, active_signature, verification_active, fed, acceptedUpdate>>

\* Mutant of OtaBegin: during a verification only the signature is exchanged.
OtaBeginGoesOn(sig) ==
    /\ PkSet
    /\ active_signature' = sig
    /\ ota_hash_state' = IF verification_active THEN ota_hash_state ELSE EmptySponge
    /\ verification_active' = TRUE
    /\ fed' = <<>>
    /\ UNCHANGED <<root_public_key, acceptedUpdate>>

\* begin_streaming_verification
OtaBegin(sig) ==
    /\ PkSet
    /\ active_signature' = sig
    /\ ota_hash_state' = EmptySponge
    /\ verification_active' = TRUE
    /\ fed' = <<>>
    /\ UNCHANGED <<root_public_key, acceptedUpdate>>

\* process_firmware_chunk
OtaChunk(chunk) ==
    /\ verification_active
    /\ chunk # <<>>
    /\ ota_hash_state' = Absorb(ota_hash_state, chunk)
    /\ fed' = Append(fed, chunk)
    /\ UNCHANGED <<root_public_key, active_signature, verification_active, acceptedUpdate>>

FirmwareHash(state) == [hash |-> Squeezed(state, 1)]

\* The results complete_streaming_verification may have in the sponge state it finds; verify
\* gets no workspace of the caller's, and one that it cannot allocate counts as a refusal.
OtaResults(state, sig) ==
    {FALSE} \cup DilithiumVerify(sig, FirmwareHash(state), root_public_key)

OtaComplete(result) ==
    /\ verification_active
    /\ result \in OtaResults(ota_hash_state, active_signature)
    /\ verification_active' = FALSE
    /\ acceptedUpdate' = IF result THEN [chunks |-> fed, sig |-> active_signature]
                                   ELSE acceptedUpdate
    /\ UNCHANGED <<root_public_key, ota_hash_state, active_signature, fed>>

\* verify_update: the three calls in a row, with the whole firmware as one chunk.
VerifyUpdate(sig, firmware, result) ==
    /\ PkSet
    /\ firmware # <<>>
    /\ LET hashed == Absorb(EmptySponge, firmware)
       IN  /\ result \in OtaResults(hashed, sig)
           /\ ota_hash_state' = hashed
    /\ active_signature' = sig
    /\ verification_active' = FALSE
    /\ fed' = <<firmware>>
    /\ acceptedUpdate' = IF result THEN [chunks |-> <<firmware>>, sig |-> sig] ELSE acceptedUpdate
    /\ UNCHANGED root_public_key
=============================================================================
