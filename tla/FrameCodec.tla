----------------------------- MODULE FrameCodec -----------------------------
(***************************************************************************)
(* Record sizing and the length field of NEKO data records                *)
(* (src/transport/neko/shaping.go Split and maxPayloadLenFromConfig,       *)
(* frames.go sendFrames, writeFrame and readFrame), and the byte layout   *)
(* of the handshake record (frames.go writeHandshake, handshake.go        *)
(* attemptHandshake, with the lengths params.go derives from the seeds).   *)
(*                                                                         *)
(* Both peers derive maxPayloadLen from the same max-frame-len.  One      *)
(* WriteFrames call of n bytes is split into segments; each segment is     *)
(* sealed into a record whose plaintext is seq (8 bytes), a 16-bit length  *)
(* field and the payload padded to FrameMetaLen + maxPayloadLen bytes.    *)
(* The reader reads records of that size and returns the first `length`   *)
(* bytes after the header.  Payload bytes are abstracted to their count:  *)
(* every record carries a prefix of what is left of the data, in order.   *)
(* AEAD and the sequence check are NekoSession's subject.                  *)
(***************************************************************************)
EXTENDS Integers, Sequences, SequencesExt, NekoConfig

CONSTANTS
    MaxFrameLens,    \* values of shaping.max-frame-len to check
    HandshakeSeeds,  \* values of the first byte of baseSeed and offsetSeed
    MaxOffsets       \* values of max-offset

FrameMetaLen == 10

DefaultMaxFrameLen == 1400

\* binary.LittleEndian.PutUint16(lenBuf, uint16(len(payload)))
Uint16(x) == x % 65536

Larger(a, b) == IF a >= b THEN a ELSE b

Smaller(a, b) == IF a <= b THEN a ELSE b

maxPayloadLenFromConfigNoMeta(mfl) ==
    LET f1 == IF mfl <= 0 THEN DefaultMaxFrameLen ELSE mfl
    IN  Larger(Larger(f1, FrameMetaLen + 1), 1)

maxPayloadLenFromConfig(mfl) ==
    LET f1 == IF mfl <= 0 THEN DefaultMaxFrameLen ELSE mfl
        f2 == Larger(f1, FrameMetaLen + 1)
    IN  Larger(f2 - FrameMetaLen, 1)

SplitUnclamped(n, maxLen) ==
    LET RECURSIVE Parts(_)
        Parts(m) == IF m <= 0 THEN <<>> ELSE <<maxLen>> \o Parts(m - maxLen)
    IN  Parts(n)

\* FrameShaper.Split: segments of maxLen bytes, the last one shorter.
Split(n, maxLen) ==
    LET m == Larger(maxLen, 1)
        RECURSIVE Parts(_)
        Parts(k) == IF k <= 0 THEN <<>>
                    ELSE <<Smaller(m, k)>> \o Parts(k - Smaller(m, k))
    IN  Parts(n)

\* sendFrames' loop: each segment is clamped to what is left of the data,
\* and the loop returns once nothing is left.
RECURSIVE Takes(_, _)
Takes(segs, remaining) ==
    IF segs = <<>> \/ remaining <= 0 THEN <<>>
    ELSE LET take == Smaller(Head(segs), remaining)
         IN  <<take>> \o Takes(Tail(segs), remaining - take)

EncodeUnpadded(payloadLen, mp) ==
    [field |-> Uint16(payloadLen), plainLen |-> FrameMetaLen + payloadLen]

\* writeFrame: the header's length field and the plaintext length.
Encode(payloadLen, mp) ==
    [field |-> Uint16(payloadLen),
     plainLen |-> Larger(FrameMetaLen + mp, FrameMetaLen + payloadLen)]

\* The data lengths worth writing for a given maxPayloadLen: none, one
\* byte, and the edges of one and two full records.
Lengths(mp) == {0, 1, mp - 1, mp, mp + 1, 2 * mp + 1} \cap Nat

-----------------------------------------------------------------------------
(* The handshake record.  A wire byte is named by the field it carries:   *)
(* <<"noise", i>>, <<"tag", j>> (byte j of the masked 16-byte tag),       *)
(* <<"nonce", j>> (the masked 24-byte nonce) or <<"ct", j>> (ciphertext).  *)


Field(name, k) == [j \in 1..k |-> <<name, j>>]

\* writeHandshake: noise of offset + tagTailLen bytes whose last tagTailLen
\* bytes are the tag's tail, the encoded nonce, the ciphertext of the
\* FrameMetaLen + payloadLen plaintext, the tag's first tagLen bytes.
WriteHandshake(off, tl, pl) ==
    LET tail == FullTagLen - tl
    IN  [i \in 1..off + tail |-> IF i > off THEN <<"tag", tl + i - off>>
                                            ELSE <<"noise", i>>]
        \o Field("nonce", NetworkNonceLen)
        \o Field("ct", FrameMetaLen + pl)
        \o Field("tag", tl)

\* attemptHandshake: the bytes it needs and, from what the pre-buffer
\* holds, the nonce, the ciphertext and the tag (prefix, then tail).
ExpectedTotalNoTail(off, tl, pl) ==
    off + NetworkNonceLen + FrameMetaLen + pl + tl

ExpectedTotal(off, tl, pl) ==
    off + (FullTagLen - tl) + NetworkNonceLen + FrameMetaLen + pl + tl

AttemptHandshake(buf, off, tl, pl) ==
    LET tail == FullTagLen - tl
        noncePos == off + tail
        ctStart == noncePos + NetworkNonceLen
        ctEnd == ctStart + FrameMetaLen + pl
    IN  IF Len(buf) < ExpectedTotal(off, tl, pl) THEN [short |-> TRUE]
        ELSE [short |-> FALSE,
              nonce |-> SubSeq(buf, noncePos + 1, noncePos + NetworkNonceLen),
              ct |-> SubSeq(buf, ctStart + 1, ctEnd),
              tag |-> SubSeq(buf, ctEnd + 1, ctEnd + tl)
                      \o SubSeq(buf, off + 1, off + tail),
              consumed |-> ExpectedTotal(off, tl, pl)]

-----------------------------------------------------------------------------
(* The shaper's jitter (shaping.go MaybeSleep, called before every record  *)
(* sendFrames writes) and the random helpers it draws from (random.go).    *)
(* A draw is the set of values it can return.                              *)

\* randIntn: crypto/rand over [0, n); 0 when n <= 0 or the source fails.
randIntn(n) == IF n <= 0 THEN {0} ELSE 0..(n - 1)

\* randRange: min + randIntn(max - min + 1), or min when max <= min.
randRange(lo, hi) ==
    IF hi <= lo THEN {lo} ELSE {lo + r : r \in randIntn(hi - lo + 1)}

\* randChance(prob), prob = num / den: threshold = int(prob * 10000).
randChance(prob) ==
    LET t == (prob[1] * 10000) \div prob[2]
    IN  IF prob[1] <= 0 THEN {FALSE}
        ELSE IF prob[1] >= prob[2] THEN {TRUE}
        ELSE IF t <= 0 THEN {FALSE}
        \* randIntn(10000) < t: TRUE for some draw iff t > 0, FALSE iff t < 10000
        ELSE {b \in BOOLEAN : IF b THEN t > 0 ELSE t < 10000}

\* defaultJitterProb, 0.04.
defaultJitterProb == <<4, 100>>

\* shaping.jitter-range as NewNEKO (and New on the server) read it: the
\* first two entries, one entry for both ends, or [0, 0].
JitterRangeFromOption(js) ==
    IF Len(js) >= 2 THEN <<js[1], js[2]>>
    ELSE IF Len(js) = 1 THEN <<js[1], js[1]>>
    ELSE <<0, 0>>

\* Mutation: the ends are clamped but not swapped.
normalizeJitterRangeNoSwap(j) == <<Larger(j[1], 0), Larger(j[2], 0)>>

\* normalizeJitterRange: swap an inverted range, then clamp both ends at 0.
normalizeJitterRange(j) ==
    LET s == IF j[1] > j[2] THEN <<j[2], j[1]>> ELSE j
    IN  <<Larger(s[1], 0), Larger(s[2], 0)>>

\* MaybeSleep: the delays in ms a write can wait (0: it does not sleep).
MaybeSleep(enabled, j, prob) ==
    IF ~enabled \/ j[2] <= 0 \/ prob[1] <= 0 THEN {0}
    ELSE UNION {IF ch THEN {IF d > 0 THEN d ELSE 0 : d \in randRange(j[1], j[2])}
                ELSE {0} : ch \in randChance(prob)}

\* The jitter-range options checked: every length up to three, entries
\* negative, zero and positive, inverted and not.
JitterOptions == UNION {[1..k -> {-3, 0, 2, 5}] : k \in 0..3}

VARIABLES
    hs,       \* the handshake's seeds: baseSeed[0], offsetSeed[0], and
              \* the max-offset both peers are configured with
    mfl,      \* shaping.max-frame-len, the same on both peers
    n,        \* length of the data handed to WriteFrames
    written,  \* WriteFrames has returned
    wire,     \* encoded records not yet read
    got,      \* payload lengths readFrame returned, in order
    reader    \* "open", or "eof" once readFrame rejected a record

vars == <<hs, mfl, n, written, wire, got, reader>>

MP == maxPayloadLenFromConfig(mfl)

Init ==
    /\ hs \in [base : HandshakeSeeds, off : HandshakeSeeds, max : MaxOffsets]
    /\ mfl \in MaxFrameLens
    /\ n \in Lengths(maxPayloadLenFromConfig(mfl))
    /\ written = FALSE
    /\ wire = <<>>
    /\ got = <<>>
    /\ reader = "open"

\* Session.WriteFrames -> sendFrames -> writeFrame, for every segment.
WriteFrames ==
    /\ ~written
    /\ written' = TRUE
    /\ wire' = [i \in 1..Len(Takes(Split(n, MP), n)) |->
                   Encode(Takes(Split(n, MP), n)[i], MP)]
    /\ UNCHANGED <<hs, mfl, n, got, reader>>

\* readFrame: read a record of FrameMetaLen + maxPayloadLen plaintext
\* bytes and return the first `length` bytes after the header.
ReadFrame ==
    /\ reader = "open"
    /\ wire # <<>>
    /\ LET rec == Head(wire)
       IN  IF rec.field > rec.plainLen - FrameMetaLen
             THEN /\ reader' = "eof"
                  /\ UNCHANGED got
             ELSE /\ got' = Append(got, rec.field)
                  /\ UNCHANGED reader
    /\ wire' = Tail(wire)
    /\ UNCHANGED <<hs, mfl, n, written>>

Next == WriteFrames \/ ReadFrame

Spec == Init /\ [][Next]_vars

-----------------------------------------------------------------------------
(* Properties *)

\* Types; a record's plaintext is always padded to the size the reader
\* reads (FrameMetaLen + maxPayloadLen), whatever its payload.
TypeOK ==
    /\ hs \in [base : HandshakeSeeds, off : HandshakeSeeds, max : MaxOffsets]
    /\ mfl \in MaxFrameLens
    /\ n \in Nat
    /\ written \in BOOLEAN
    /\ \A i \in 1..Len(wire) : /\ wire[i].field \in 0..65535
                               /\ wire[i].plainLen = FrameMetaLen + MP
    /\ \A i \in 1..Len(got) : got[i] \in 0..65535
    /\ reader \in {"open", "eof"}

\* The definition Split is checked against: ceil(n / maxLen) parts, all of
\* maxLen bytes but the last (spec.md 8, invariant 2).
SplitRef(k, maxLen) ==
    LET c == (k + maxLen - 1) \div maxLen
    IN  [i \in 1..c |-> IF i < c THEN maxLen ELSE k - (c - 1) * maxLen]

\* Split cuts every length the writer can be handed into ceil(n / max)
\* segments of the configured size, with only the last one shorter.
SplitMatchesReference ==
    n > 0 => Split(n, MP) = SplitRef(n, MP)

\* Once WriteFrames returned and every record has been read, readFrame
\* accepted every record and the payloads it returned add up to the n
\* bytes written: the stream is reassembled byte for byte (spec.md 8,
\* invariant 2), for every max-frame-len in MaxFrameLens, which stops at
\* 65545: neither NewNEKO nor New bounds the option, and above 65545 the
\* uint16 length field of frames.go:151 wraps, so this fails there.
StreamReassembled ==
    (written /\ wire = <<>>) =>
        /\ reader = "open"
        /\ FoldLeft(+, 0, got) = n

\* The server parses the handshake record the client wrote: for every tag
\* split (a tag tail of 4 down to 0 bytes), offset and payload length the
\* seeds give, attemptHandshake finds the nonce, the ciphertext and the
\* whole tag where writeHandshake put them, and consumes exactly the
\* record, so the leftover it hands the session starts at the first data
\* record (spec.md 4.5, 4.6).
HandshakeLayoutRoundTrip ==
    LET tl == TagLen(hs.base)
        pl == handshakePayloadLen(hs.base)
        off == HandshakeOffset(hs.off, MaxOffsetOrDefault(hs.max))
        wire1 == WriteHandshake(off, tl, pl)
        r == AttemptHandshake(wire1, off, tl, pl)
    IN  /\ ~r.short
        /\ r.nonce = Field("nonce", NetworkNonceLen)
        /\ r.ct = Field("ct", FrameMetaLen + pl)
        /\ r.tag = Field("tag", FullTagLen)
        /\ r.consumed = Len(wire1)

\* The reading of jitter-range spec.md 4.4 and 6 give: the first one or
\* two entries, ordered, clamped at 0.
JitterBounds(js) ==
    LET v == {js[i] : i \in 1..Smaller(Len(js), 2)}
    IN  IF v = {} THEN <<0, 0>>
        ELSE <<Larger(0, Min(v)), Larger(0, Max(v))>>

\* A write with shaping enabled may go out at once or after a delay, and
\* the delays MaybeSleep can wait are exactly the positive whole
\* milliseconds of the configured jitter range, whichever order and sign
\* its ends were given in (spec.md 4.4: the range is swapped if inverted
\* and clamped to 0); with shaping disabled it never waits.
JitterWithinRange ==
    \A js \in JitterOptions :
        LET j == normalizeJitterRange(JitterRangeFromOption(js))
            b == JitterBounds(js)
        IN  /\ MaybeSleep(TRUE, j, defaultJitterProb)
                 = {0} \cup {d \in b[1]..b[2] : d > 0}
            /\ MaybeSleep(FALSE, j, defaultJitterProb) = {0}

\* For every cipher name a configuration may carry, in either case:
\* deriveParams and deriveSessionParams refuse exactly the names spec.md
\* section 3 does not list, and cut the key and nonce lengths it gives for
\* the others; NewCipher accepts the key they cut for that name, its AEAD
\* takes nonces of exactly the length they cut (Seal and Open in
\* Encrypt and Decrypt panic on any other), and the nonce and its mask fit
\* the 24-byte encoded nonce writeFrame and writeHandshake XOR them into
\* and the 32-byte derived keys they are sliced from.
CipherParamsAgree ==
    \A kind \in CipherNames :
        LET hp == deriveParams(kind, 0, 0, MaxOffsetOrDefault(0))
            sp == deriveSessionParams(kind, 0)
            c  == NewCipher(kind, hp.keyLen)
        IN  /\ hp.err = (ToLower(kind) \notin DOMAIN SpecCipherTable)
            /\ sp.err = hp.err
            /\ ~hp.err =>
                 /\ <<hp.keyLen, hp.nonceLen>> = SpecCipherTable[ToLower(kind)]
                 /\ <<sp.keyLen, sp.nonceLen>> = <<hp.keyLen, hp.nonceLen>>
                 /\ ~c.err /\ c.nonceSize = hp.nonceLen
                 /\ hp.nonceLen <= NetworkNonceLen
                 /\ hp.keyLen <= 32 /\ hp.nonceLen <= 32

-----------------------------------------------------------------------------
(* Configuration: NekoConfig's ParsePSK against spec.md 6 *)

\* What ClientHandshake and ServerHandshake should make of a cipher name.
HandshakeVerdict(kind) ==
    IF ToLower(kind) \in DOMAIN SpecCipherTable THEN "ok" ELSE "cipher"

\* spec.md 6: a PSK is 32 bytes in std base64, raw base64 or hex.
SpecPSKForms == [enc \in {"std", "raw", "hex"} |-> 32]

SpecPSK(s) == s.enc \in DOMAIN SpecPSKForms /\ s.n = SpecPSKForms[s.enc]

\* ParsePSK accepts a PSK exactly when, blanks around it aside, it is a
\* 32-byte key in std base64, raw base64 or hex, and then returns that key:
\* no string of another length or encoding decodes to 32 bytes under one of
\* the decoders ParsePSK tries, and no 32-byte key comes out of a decoder
\* tried before its own as other bytes.  The key it returns passes the
\* handshakes' own 32-byte check, whatever the cipher name.
PSKParsedAsSpecified ==
    \A s \in PSKStrings :
        LET r == ParsePSK(s)
        IN  /\ r = IF SpecPSK(s) THEN [err |-> FALSE, key |-> "key", len |-> 32]
                                 ELSE PSKError
            /\ ~r.err => \A kind \in CipherNames :
                             HandshakeChecks([psk |-> r, cipher |-> kind])
                               = HandshakeVerdict(kind)

=============================================================================
