------------------------------- MODULE Crypto -------------------------------
(***************************************************************************)
(* What zerotrust/common/crypto_primitives.py and transcript.py compute,   *)
(* as terms: a key pair is one value, a signature or a ciphertext is a     *)
(* record of the key and of what was signed or encrypted, and a hash or a  *)
(* derived key is the tuple of its inputs, in their order.                 *)
(***************************************************************************)

rsa_sign(key, data) == [by |-> key, of |-> data]
rsa_verify(key, data, signature) == signature = rsa_sign(key, data)

rsa_oaep_encrypt(key, data) == [under |-> key, hides |-> data]

(* A key opens only what was encrypted under it: anything else is a CryptoError. *)
Opens(key, ciphertext) == ciphertext.under = key

NotDecrypted(ciphertext) == ciphertext     \* mutant: the ciphertext is taken for the plaintext

rsa_oaep_decrypt(ciphertext) == ciphertext.hides

build_transcript_hash(nonce_c, nonce_s, pre_master_ct) == <<nonce_c, nonce_s, pre_master_ct>>

hkdf_derive(ikm, salt) == [c2s |-> <<ikm, salt, "first">>, s2c |-> <<ikm, salt, "second">>]
=============================================================================
