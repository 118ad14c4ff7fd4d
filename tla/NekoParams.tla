------------------------------ MODULE NekoParams -----------------------------
(***************************************************************************)
(* The lengths src/transport/neko/params.go derives for a cipher kind and *)
(* the AEAD src/transport/neko/crypto.go NewCipher builds from them.  The *)
(* BLAKE3 outputs are abstracted to what the lengths depend on: the first *)
(* seed byte (TagLen, handshakePayloadLen, HandshakeOffset); key, mask    *)
(* and nonce bytes are not modelled.                                      *)
(*                                                                         *)
(* A cipher name is a record: its letters, in lower case, and whether it  *)
(* was written in capitals.  strings.ToLower drops the second field, so   *)
(* two names compare equal after ToLower exactly when their letters do.  *)
(***************************************************************************)
EXTENDS Integers

\* constants.go: the nonce field is 24 bytes on the wire, the tag 16.
NetworkNonceLen == 24

FullTagLen == 16

\* deriveParams: tagLen = 12 + baseSeed[0] % 5.
TagLen(b) == 12 + (b % 5)

\* handshakePayloadLen: 320 + baseSeed[0] % 321.
handshakePayloadLen(b) == 320 + (b % 321)

\* deriveParams: offset = offsetSeed[0] % maxOffset.
HandshakeOffset(o, m) == IF m > 0 THEN o % m ELSE 0

\* The names a configuration may carry: the four kinds, two the code
\* does not know, the empty string and one of blanks only; each in lower
\* case or capitals.
CipherLetters == {"aes-128-gcm", "aes-256-gcm", "chacha20-poly1305",
                  "xchacha20-poly1305", "aes-192-gcm", "chacha20", "", "  "}

CipherNames == [letters : CipherLetters, upper : BOOLEAN]

ToLower(kind) == kind.letters

\* The error return ("unsupported cipher") of the switches below.
Unsupported == -1

\* cipherKeyLen.
cipherKeyLen(kind) ==
    CASE ToLower(kind) = "aes-128-gcm" -> 16
      [] ToLower(kind) = "aes-256-gcm" -> 32
      [] ToLower(kind) \in {"chacha20-poly1305", "xchacha20-poly1305"} -> 32
      [] OTHER -> Unsupported

\* Mutation: xchacha20-poly1305 listed with the 12-byte nonces.
cipherNonceLenX12(kind) ==
    CASE ToLower(kind) \in {"aes-128-gcm", "aes-256-gcm", "chacha20-poly1305",
                            "xchacha20-poly1305"} -> 12
      [] OTHER -> Unsupported

\* cipherNonceLen.
cipherNonceLen(kind) ==
    CASE ToLower(kind) = "xchacha20-poly1305" -> 24
      [] ToLower(kind) \in {"aes-128-gcm", "aes-256-gcm", "chacha20-poly1305"} -> 12
      [] OTHER -> Unsupported

\* NewCipher(kind, key): aes.NewCipher takes 16-, 24- and 32-byte keys and
\* cipher.NewGCM gives 12-byte nonces; chacha20poly1305.New and NewX take
\* 32-byte keys and give 12- and 24-byte nonces.  err is TRUE on an error.
NewCipher(kind, keyLen) ==
    CASE ToLower(kind) \in {"aes-128-gcm", "aes-256-gcm"} ->
           [err |-> keyLen \notin {16, 24, 32}, nonceSize |-> 12]
      [] ToLower(kind) = "chacha20-poly1305" ->
           [err |-> keyLen # 32, nonceSize |-> 12]
      [] ToLower(kind) = "xchacha20-poly1305" ->
           [err |-> keyLen # 32, nonceSize |-> 24]
      [] OTHER -> [err |-> TRUE, nonceSize |-> 0]

\* deriveParams for cipher kind and seed bytes b (baseSeed[0]) and o
\* (offsetSeed[0]): an error when either switch rejects the kind, else
\* the lengths it slices the 32-byte derived keys to.
deriveParams(kind, b, o, maxOffset) ==
    IF cipherNonceLen(kind) = Unsupported \/ cipherKeyLen(kind) = Unsupported
    THEN [err |-> TRUE]
    ELSE [err |-> FALSE, keyLen |-> cipherKeyLen(kind),
          nonceLen |-> cipherNonceLen(kind),
          tagLen |-> TagLen(b), offset |-> HandshakeOffset(o, maxOffset)]

\* deriveSessionParams, with b = sessionBase[0].
deriveSessionParams(kind, b) ==
    IF cipherNonceLen(kind) = Unsupported \/ cipherKeyLen(kind) = Unsupported
    THEN [err |-> TRUE]
    ELSE [err |-> FALSE, keyLen |-> cipherKeyLen(kind),
          nonceLen |-> cipherNonceLen(kind), tagLen |-> TagLen(b)]

\* spec.md section 3, "Cipher kind": key and nonce length per kind.
SpecCipherTable ==
    [n \in {"aes-128-gcm", "aes-256-gcm", "chacha20-poly1305",
            "xchacha20-poly1305"} |->
       CASE n = "aes-128-gcm" -> <<16, 12>>
         [] n = "xchacha20-poly1305" -> <<32, 24>>
         [] OTHER -> <<32, 12>>]
==============================================================================
