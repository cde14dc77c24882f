------------------------------ MODULE Envelopes ------------------------------
(***************************************************************************)
(* The texts that are signed, and the boxes that are sealed, by            *)
(* packages/protocol and packages/crypto.                                  *)
(* An object is a record: canonicalJson writes its keys in order, so two   *)
(* objects have one text exactly when they are equal as records, and the   *)
(* order counts in arrays only, which are sequences.  A hash, a signature  *)
(* and a ciphertext are the terms they are computed from; a key pair, and  *)
(* everything drawn at random, has a name of its own.  Field values that   *)
(* are the same in every object (schemaVersion, format) are left out.      *)
(***************************************************************************)
EXTENDS Naturals, Sequences, Functions

CONSTANT None   \* the result of a check that throws

Hash(text) == <<"sha256", text>>
Sign(key, text) == <<"signature", key, text>>
Verify(key, text, signature) == signature = Sign(key, text)

Encrypt(key, nonce, plaintext, aad) ==
    [key |-> key, nonce |-> nonce, plaintext |-> plaintext, aad |-> aad]
Decrypt(key, nonce, ciphertext, aad) ==
    IF ciphertext.key = key /\ ciphertext.nonce = nonce /\ ciphertext.aad = aad
    THEN ciphertext.plaintext
    ELSE None

\* The two ends of a Diffie-Hellman exchange arrive at one secret.
DeriveSharedSecret(private, public) == {private, public}
DeriveAesGcmKey(secret, info) == <<"hkdf", secret, info>>

\* The wrapping key is bound to the text it is used for.
DeriveWrapKey(private, public, aad) ==
    DeriveAesGcmKey(DeriveSharedSecret(private, public), <<"agent-notifier/key-wrap/v1", Hash(aad)>>)

WrapContentKey(contentKey, device, aad, draw) ==
    LET ephemeral == <<"ephemeral", draw, device.deviceId>>
        nonce == <<"wrap nonce", draw, device.deviceId>>
    IN  [deviceId |-> device.deviceId,
         ephemeralPublicKey |-> ephemeral,
         wrappedKey |-> Encrypt(DeriveWrapKey(ephemeral, device.publicKey, aad), nonce, contentKey, aad),
         wrapNonce |-> nonce]

\* Without a device there is nobody to seal for.
SealContentForDevices(plaintext, aad, devices, draw) ==
    LET contentKey == <<"content", draw>>
        nonce == <<"nonce", draw>>
    IN  IF devices = <<>> THEN None
        ELSE [ciphertext |-> Encrypt(contentKey, nonce, plaintext, aad),
              contentNonce |-> nonce,
              contentAadHash |-> Hash(aad),
              keyWraps |-> [i \in DOMAIN devices |-> WrapContentKey(contentKey, devices[i], aad, draw)]]

UnwrapContentKey(wrap, private, aad) ==
    Decrypt(DeriveWrapKey(private, wrap.ephemeralPublicKey, aad), wrap.wrapNonce, wrap.wrappedKey, aad)

OpenContent(sealed, wrap, private, aad) ==
    IF sealed.contentAadHash # Hash(aad) THEN None
    ELSE Decrypt(UnwrapContentKey(wrap, private, aad), sealed.contentNonce, sealed.ciphertext, aad)

-----------------------------------------------------------------------------
(* What is signed and what is bound to a box *)

\* canonicalSigningText: the domain, and the payload in canonical JSON.
SigningText(domain, payload) == <<domain, payload>>

MessageContentAad(metadata) == SigningText("message-content-aad/v1", metadata)

\* Mutant: the wraps are signed in the order they come in.
UnsortedKeyWraps(wraps) == wraps

\* The wraps of one message are for distinct devices, so their texts are in the order
\* of the device ids.
ByDevice(wraps) ==
    CHOOSE sorted \in Surjection(DOMAIN wraps, Range(wraps)) :
        \A i, j \in DOMAIN wraps : i < j => sorted[i].deviceId <= sorted[j].deviceId
NormalizeKeyWraps(wraps) == ByDevice(wraps)

MessageSigningText(envelope) ==
    SigningText("message/v1",
        [metadata |-> envelope.metadata,
         ciphertext |-> envelope.ciphertext,
         contentNonce |-> envelope.contentNonce,
         contentAadHash |-> envelope.contentAadHash,
         keyWraps |-> NormalizeKeyWraps(envelope.keyWraps)])

ResponseContentAad(response) ==
    SigningText("response/v1",
        [responseId |-> response.responseId, messageId |-> response.messageId,
         kind |-> response.kind, expiresAt |-> response.expiresAt])

ResponseSigningText(response) ==
    SigningText("response/v1",
        [responseId |-> response.responseId, messageId |-> response.messageId,
         kind |-> response.kind, expiresAt |-> response.expiresAt,
         ciphertext |-> response.ciphertext, contentNonce |-> response.contentNonce])
=============================================================================
