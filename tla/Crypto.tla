------------------------------- MODULE Crypto -------------------------------
(***************************************************************************)
(* internal/crypto and internal/protobuf: secret keys, how they are stored *)
(* and what they encrypt.                                                  *)
(*                                                                         *)
(* Random bytes are numbers that are drawn once.  Authenticated encryption *)
(* is ideal: what Seal returns is opened only under the same derived key,  *)
(* nonce and associated data.                                              *)
(***************************************************************************)
EXTENDS Naturals

Ciphers == {"AES256", "ChaCha20"}
NoHMAC == 0

(* A KeyVersion: the secret key's bytes and cipher, the HMAC key, if any,  *)
(* and who created it.                                                     *)
KeyVersion(bytes, cipher, hmac, by) ==
    [bytes |-> bytes, cipher |-> cipher, hmac |-> hmac, by |-> by]

HasHMACKey(key) == key.hmac # NoHMAC

DetermineSecretKeyType(build) ==
    IF build.fips \/ build.aes THEN "AES256" ELSE "ChaCha20"

ParseSecretKeyType(s) ==
    CASE s \in {"AES256", "AES256-GCM_SHA256"} -> "AES256"
      [] s \in {"ChaCha20", "XCHACHA20-POLY1305"} -> "ChaCha20"
      [] OTHER -> "invalid"

(* NewSecretKey with 32 random bytes, NewHMACKey with others.              *)
GenerateSecretKey(cipher, random, by) == KeyVersion(random, cipher, random, by)

-----------------------------------------------------------------------------
(***************************************************************************)
(* What a key store keeps: protocol buffers (base64 encoded), the JSON of  *)
(* earlier versions, which has no HMAC key and may not name the algorithm, *)
(* or what a crash left of it, an empty file.                              *)
(***************************************************************************)
Stored(form, alg, key) == [form |-> form, alg |-> alg, key |-> key]

MarshalSecretKey(key) == key.cipher \in Ciphers
MarshalHMACKey(key) == key.hmac # NoHMAC

(* EncodeKeyVersion fails for a key without HMAC key.                      *)
CanEncode(key) == MarshalSecretKey(key) /\ MarshalHMACKey(key)
EncodeKeyVersion(key) == Stored("pb", key.cipher, key)

UnmarshalSecretKey(v) == v.alg \in Ciphers
UnmarshalHMACKey(v) == v.key.hmac # NoHMAC

(* Parsing succeeds, fails, or, of an empty value, panics: an empty value  *)
(* is a message without Key, and UnmarshalPB dereferences it.              *)
ParsePanics(v) == v.form = "empty"

ParseKeyVersion(v) ==
    LET cipher == IF v.alg = "" THEN "AES256" ELSE ParseSecretKeyType(v.alg)
    IN  CASE v.form = "json" ->
                 [ok |-> cipher # "invalid",
                  key |-> [v.key EXCEPT !.cipher = cipher, !.hmac = NoHMAC]]
          [] v.form = "pb" ->
                 [ok |-> UnmarshalSecretKey(v) /\ UnmarshalHMACKey(v), key |-> v.key]
          [] OTHER -> [ok |-> FALSE, key |-> v.key]

-----------------------------------------------------------------------------
(* Seal and Open of the AEAD for the key derived from the IV.              *)
Seal(key, iv, nonce, context, plaintext) ==
    [bytes |-> key.bytes, cipher |-> key.cipher, iv |-> iv, nonce |-> nonce,
     context |-> context, plaintext |-> plaintext]

Opens(sealed, key, iv, nonce, context) ==
    sealed = Seal(key, iv, nonce, context, sealed.plaintext)

(* A ciphertext is the sealed bytes, the IV and the nonce in this order,   *)
(* and earlier the fields of a msgp array or of a JSON object; known says  *)
(* whether the parsers of those accept it.                                 *)
Raw(bytes, iv, nonce) == [form |-> "raw", known |-> FALSE, raw |-> <<bytes, iv, nonce>>]
Fields(form, known, bytes, iv, nonce) ==
    [form |-> form, known |-> known, Bytes |-> bytes, IV |-> iv, Nonce |-> nonce]

UnmarshalBinary(c) == c.form = "msgp" /\ c.known
UnmarshalJSON(c) == c.form = "json" /\ c.known

(* Mutant of parseCiphertext: IV and nonce are swapped.                    *)
parseCiphertextSwapped(c) ==
    IF UnmarshalBinary(c) \/ UnmarshalJSON(c) THEN Raw(c.Bytes, c.Nonce, c.IV) ELSE c

parseCiphertext(c) ==
    IF UnmarshalBinary(c) \/ UnmarshalJSON(c) THEN Raw(c.Bytes, c.IV, c.Nonce) ELSE c

(* SecretKey.Encrypt and Decrypt are not available for a cipher that the   *)
(* build does not allow.                                                   *)
Usable(build, key) == build.fips => key.cipher = "AES256"

Encrypt(key, random, context, plaintext) ==
    Raw(Seal(key, random, random, context, plaintext), random, random)

Decrypts(key, ciphertext, context) ==
    LET c == parseCiphertext(ciphertext)
    IN  c.form = "raw" /\ Opens(c.raw[1], key, c.raw[2], c.raw[3], context)

Decrypt(ciphertext) == parseCiphertext(ciphertext).raw[1].plaintext

(* HMACKey.Sum.                                                            *)
Sum(key, message) == [hmac |-> key.hmac, message |-> message]
=============================================================================
