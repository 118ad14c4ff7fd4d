------------------------------ MODULE NekoConfig -----------------------------
(***************************************************************************)
(* From the options a user writes to the ClientConfig and ServerConfig    *)
(* the handshakes start from: ParsePSK (src/transport/neko/crypto.go),    *)
(* the outbound's NewNEKO (src/adapter/outbound/neko.go), the inbound's   *)
(* NewNEKO and Listen (src/listener/inbound/neko.go) and the checks of    *)
(* neko.New (src/listener/neko/server.go).                                *)
(*                                                                         *)
(* A PSK string is abstracted to how it was written: the encoding (std or *)
(* raw base64, hex, or text with a character none of them allows), the    *)
(* number n of bytes it encodes, and whether blanks surround it; the      *)
(* empty string and a string of blanks have encoding "empty".  A decoder  *)
(* is modelled by the length of what it returns and whether that is the   *)
(* key the string encodes ("key") or other bytes ("other").  A base64     *)
(* encoding of a key is assumed to contain a letter outside the hex       *)
(* alphabet, as one of random bytes does but for a vanishing fraction.    *)
(***************************************************************************)
EXTENDS Integers, SequencesExt, NekoParams

PSKEncodings == {"std", "raw", "hex", "text"}

\* Lengths around 32, and those whose other decodings come closest to 32.
PSKLengths == {16, 21, 22, 24, 31, 32, 33, 48}

PSKStrings ==
    [enc : PSKEncodings, n : PSKLengths, pad : BOOLEAN]
      \cup [enc : {"empty"}, n : {0}, pad : BOOLEAN]

\* strings.TrimSpace.
TrimSpace(s) == [s EXCEPT !.pad = FALSE]

Decoded(len, val) == [ok |-> TRUE, len |-> len, val |-> val]

NotDecoded == [ok |-> FALSE, len |-> 0, val |-> "none"]

\* base64.StdEncoding.DecodeString: the length must be a multiple of 4 and
\* padding is required.  A raw encoding of n bytes needs no padding when
\* n % 3 = 0; 2n hex digits are base64 letters.
StdDecode(s) ==
    CASE s.enc = "std" -> Decoded(s.n, "key")
      [] s.enc = "raw" /\ s.n % 3 = 0 -> Decoded(s.n, "key")
      [] s.enc = "hex" /\ (2 * s.n) % 4 = 0 -> Decoded((2 * s.n * 3) \div 4, "other")
      [] OTHER -> NotDecoded

\* base64.RawStdEncoding.DecodeString: no padding; any length but 4k+1.
RawDecode(s) ==
    CASE s.enc = "raw" -> Decoded(s.n, "key")
      [] s.enc = "std" /\ s.n % 3 = 0 -> Decoded(s.n, "key")
      [] s.enc = "hex" -> Decoded((2 * s.n * 3) \div 4, "other")
      [] OTHER -> NotDecoded

\* hex.DecodeString.
HexDecode(s) ==
    IF s.enc = "hex" THEN Decoded(s.n, "key") ELSE NotDecoded

PSKError == [err |-> TRUE, key |-> "none", len |-> 0]

Fits(d) == d.ok /\ d.len = 32

\* Mutation: the std base64 result is taken whatever its length.
ParsePSKAnyStdLen(psk) ==
    LET t == TrimSpace(psk)
        Try == <<StdDecode(t), RawDecode(t), HexDecode(t)>>
        i == IF Try[1].ok THEN 1 ELSE SelectInSeq(Try, Fits)
    IN  IF t.enc = "empty" \/ i = 0 THEN PSKError
        ELSE [err |-> FALSE, key |-> Try[i].val, len |-> Try[i].len]

\* ParsePSK: trim, refuse the empty string, then take the first decoding
\* that gives 32 bytes, trying std base64, raw base64 and hex in order.
ParsePSK(psk) ==
    LET t == TrimSpace(psk)
        Try == <<StdDecode(t), RawDecode(t), HexDecode(t)>>
        i == SelectInSeq(Try, Fits)
    IN  IF t.enc = "empty" \/ i = 0 THEN PSKError
        ELSE [err |-> FALSE, key |-> Try[i].val, len |-> Try[i].len]

\* ClientHandshake / ServerHandshake: max-offset <= 0 means the default.
MaxOffsetOrDefault(m) == IF m <= 0 THEN 64 ELSE m

Rejected == [err |-> TRUE]

\* The outbound's NewNEKO: its checks in order, then the ClientConfig.
\* (The option's text is the PSK string itself; a blank one is not "".)
NewNEKOOutbound(o) ==
    CASE o.server = "" -> Rejected
      [] o.port <= 0 \/ o.port > 65535 -> Rejected
      [] o.psk = [enc |-> "empty", n |-> 0, pad |-> FALSE] -> Rejected
      [] ParsePSK(o.psk).err -> Rejected
      [] ToLower(o.cipher) = "" -> Rejected
      [] OTHER -> [err |-> FALSE, psk |-> ParsePSK(o.psk),
                   cipher |-> [letters |-> ToLower(o.cipher), upper |-> FALSE]]

\* The inbound's NewNEKO and the same checks again in Listen: the PSK and
\* cipher options must not be empty; the cipher is lowered.
NewNEKOInbound(o) ==
    IF o.psk = [enc |-> "empty", n |-> 0, pad |-> FALSE] \/ o.cipher.letters = ""
    THEN Rejected
    ELSE [err |-> FALSE, psk |-> o.psk, fallback |-> o.fallback,
          cipher |-> [letters |-> ToLower(o.cipher), upper |-> FALSE]]

\* neko.New's checks after the bind: ParsePSK, a cipher of blanks, and the
\* fallback destination (127.0.0.1:80 unless one is given) socks5.ParseAddr
\* must read; fallback is "none" (no fallback section), "" (no dest),
\* "valid" or "invalid".
NewServerConfig(conf) ==
    LET dest == IF conf.fallback \in {"none", ""} THEN "valid" ELSE conf.fallback
    IN  CASE ParsePSK(conf.psk).err -> Rejected
          [] conf.cipher.letters = "  " -> Rejected
          [] dest = "invalid" -> Rejected
          [] OTHER -> [err |-> FALSE, psk |-> ParsePSK(conf.psk),
                       cipher |-> [letters |-> ToLower(conf.cipher), upper |-> FALSE]]

\* ClientHandshake's and ServerHandshake's checks before the first byte:
\* a 32-byte PSK, deriveParams, and (client) NewCipher; what fails first.
HandshakeChecks(cfg) ==
    LET hp == deriveParams(cfg.cipher, 0, 0, MaxOffsetOrDefault(0))
    IN  IF cfg.psk.len # 32 THEN "psk"
        ELSE IF hp.err \/ NewCipher(cfg.cipher, hp.keyLen).err THEN "cipher"
        ELSE "ok"

==============================================================================
