------------------------------- MODULE NekoConn -----------------------------
(***************************************************************************)
(* The server side of one proxied TCP stream after a successful           *)
(* handshake: handleConn's early-data selection (src/listener/neko/       *)
(* server.go), the Conn stream adapter over the session                    *)
(* (src/transport/neko/session.go Read, Write, Close, triggerReplay) and   *)
(* the replay handler handleConn installs (blackhole, SilentFallbackSplit *)
(* writing noise under the session's write lock, or close).                *)
(*                                                                         *)
(* The client's data bytes are numbered 1, 2, ...; the handshake          *)
(* payload, which the client fills with the target descriptor only        *)
(* (ClientHandshake), is AddrBytes.  A record that trips the replay        *)
(* filter (an attacker's copy sent in the same window) is a `hit`; what   *)
(* else can go wrong in readFrame is NekoSession's subject.  Outbound      *)
(* records are written by writeFrame's writeAll calls, `Pieces` of them.  *)
(***************************************************************************)
EXTENDS Integers, Sequences, SequencesExt

CONSTANTS
    Target,        \* the host:port the client asked for
    FallbackDest,  \* l.fallbackDest (default 127.0.0.1:80)
    MaxBytes,      \* data bytes the client writes in all
    ReadSizes,     \* len(p) of the upstream relay's Conn.Read calls
    Pieces,        \* writeAll calls per outbound record
    MaxWrites,     \* Conn.Write calls of the downstream relay
    MaxNoise,      \* noise writes of the fallback
    Noise          \* a noise write on the wire

ASSUME ReadSizes \subseteq Nat \ {0} /\ Pieces \in Nat \ {0}

\* The target descriptor's bytes, as SplitAddr(payload) returns them.
AddrBytes == <<-1, -2>>

\* handleConn: earlyData for the payload the handshake returned.  When
\* the target is the fallback destination the payload is forwarded, but
\* cut to SplitAddr's length: payload[:targetLen].
EarlyData(payload) ==
    LET targetLen == Len(AddrBytes)
    IN  IF Target = FallbackDest /\ Len(payload) > 0
          THEN IF targetLen > 0 /\ targetLen <= Len(payload)
                 THEN SubSeq(payload, 1, targetLen)
                 ELSE payload
          ELSE <<>>

\* The replay handler's choices, from readFrame's roll.
ReplayActions == {"blackhole", "fallback", "close"}

VARIABLES
    c2s,       \* records the server has yet to read: [hit, bytes]
    sent,      \* bytes the client wrote, in order
    preRead,   \* Conn.preRead: what is left of earlyData
    readBuf,   \* Conn.readBuf
    upstream,  \* bytes Conn.Read handed the upstream relay
    reading,   \* "open", or "eof" once Conn.Read returned an error
    state,     \* Conn.state: "normal" or "replay"
    handler,   \* "none", the action the replay handler runs, or "done"
    wpc,       \* downstream writer: idle, checked, writing or stopped
    writes,    \* Conn.Write calls made
    left,      \* writeAll calls left in the record being written
    mu,        \* holder of Session.writeMu: none or writer (the noise
               \* write takes and releases it in one step)
    s2c,       \* what the server put on the wire to the client
    noise,     \* noise writes made
    sock,      \* the TCP socket: "open" or "closed"
    replays    \* replayed records the attacker sent

vars == <<c2s, sent, preRead, readBuf, upstream, reading, state, handler,
          wpc, writes, left, mu, s2c, noise, sock, replays>>

Init ==
    /\ c2s = <<>>
    /\ sent = <<>>
    /\ preRead = EarlyData(AddrBytes)
    /\ readBuf = <<>>
    /\ upstream = <<>>
    /\ reading = "open"
    /\ state = "normal"
    /\ handler = "none"
    /\ wpc = "idle"
    /\ writes = 0
    /\ left = 0
    /\ mu = "none"
    /\ s2c = <<>>
    /\ noise = 0
    /\ sock = "open"
    /\ replays = 0

Smaller(a, b) == IF a <= b THEN a ELSE b

\* copy(p, buf) with len(p) = k: the bytes handed over.
Taken(buf, k) == SubSeq(buf, 1, Smaller(k, Len(buf)))

RestKeeps(buf, k) == buf

\* buf[n:] after copy(p, buf) with len(p) = k.
Rest(buf, k) == SubSeq(buf, Smaller(k, Len(buf)) + 1, Len(buf))

-----------------------------------------------------------------------------
(* Conn.Read, from the upstream relay *)

\* Conn.Read(p): the early data first, then the rest of the last record,
\* then ReadFrame until a non-empty payload.  A replay action flips the
\* state and starts the handler once (triggerReplay, replayOnce) and the
\* read returns EOF; any other error (the socket is closed) too.
ConnRead(k) ==
    /\ reading = "open"
    /\ CASE preRead # <<>> ->
              /\ upstream' = upstream \o Taken(preRead, k)
              /\ preRead' = Rest(preRead, k)
              /\ UNCHANGED <<c2s, readBuf, reading, state, handler>>
         [] readBuf # <<>> ->
              /\ upstream' = upstream \o Taken(readBuf, k)
              /\ readBuf' = Rest(readBuf, k)
              /\ UNCHANGED <<c2s, preRead, reading, state, handler>>
         [] sock = "closed" ->
              /\ reading' = "eof"
              /\ UNCHANGED <<c2s, preRead, readBuf, upstream, state, handler>>
         [] c2s # <<>> /\ Head(c2s).hit ->
              /\ c2s' = Tail(c2s)
              /\ reading' = "eof"
              /\ IF handler = "none"
                   THEN /\ state' = "replay"
                        /\ handler' \in ReplayActions
                   ELSE UNCHANGED <<state, handler>>
              /\ UNCHANGED <<preRead, readBuf, upstream>>
         [] c2s # <<>> ->
              /\ c2s' = Tail(c2s)
              /\ upstream' = upstream \o Taken(Head(c2s).bytes, k)
              /\ readBuf' = Rest(Head(c2s).bytes, k)
              /\ UNCHANGED <<preRead, reading, state, handler>>
         [] OTHER -> FALSE
    /\ UNCHANGED <<sent, wpc, writes, left, mu, s2c, noise, sock, replays>>

-----------------------------------------------------------------------------
(* Conn.Write, from the downstream relay, and Conn.Close *)

\* Conn.Write loads the state once, before WriteFrames takes writeMu;
\* in the replay state it fails with ErrClosedPipe and the relay stops.
ConnWrite ==
    /\ wpc = "idle"
    /\ writes < MaxWrites
    /\ writes' = writes + 1
    /\ wpc' = IF state = "normal" THEN "checked" ELSE "stopped"
    /\ UNCHANGED <<c2s, sent, preRead, readBuf, upstream, reading, state,
                   handler, left, mu, s2c, noise, sock, replays>>

\* WriteFrames takes writeMu (one record here).
WriteLock ==
    /\ wpc = "checked"
    /\ mu = "none"
    /\ mu' = "writer"
    /\ wpc' = "writing"
    /\ left' = Pieces
    /\ UNCHANGED <<c2s, sent, preRead, readBuf, upstream, reading, state,
                   handler, writes, s2c, noise, sock, replays>>

WritePieceOffByOne ==
    /\ wpc = "writing"
    /\ IF sock = "closed"
         THEN /\ wpc' = "stopped"
              /\ mu' = "none"
              /\ left' = 0
              /\ UNCHANGED s2c
         ELSE /\ s2c' = Append(s2c, [rec |-> writes, part |-> Pieces - left + 1])
              /\ left' = left - 1
              /\ IF left = 0 THEN mu' = "none" /\ wpc' = "idle"
                             ELSE UNCHANGED <<mu, wpc>>
    /\ UNCHANGED <<c2s, sent, preRead, readBuf, upstream, reading, state,
                   handler, writes, noise, sock, replays>>

\* One writeAll of writeFrame; the last one ends the record and
\* WriteFrames releases writeMu.  On a closed socket it fails.
WritePiece ==
    /\ wpc = "writing"
    /\ IF sock = "closed"
         THEN /\ wpc' = "stopped"
              /\ mu' = "none"
              /\ left' = 0
              /\ UNCHANGED s2c
         ELSE /\ s2c' = Append(s2c, [rec |-> writes, part |-> Pieces - left + 1])
              /\ left' = left - 1
              /\ IF left = 1 THEN mu' = "none" /\ wpc' = "idle"
                             ELSE UNCHANGED <<mu, wpc>>
    /\ UNCHANGED <<c2s, sent, preRead, readBuf, upstream, reading, state,
                   handler, writes, noise, sock, replays>>

\* Conn.Close: the replay state (no further Conn.Write succeeds) and the
\* socket closed.
ConnClose ==
    /\ sock = "open"
    /\ state' = "replay"
    /\ sock' = "closed"
    /\ UNCHANGED <<c2s, sent, preRead, readBuf, upstream, reading, handler,
                   wpc, writes, left, mu, s2c, noise, replays>>

-----------------------------------------------------------------------------
(* The replay handler, on its own goroutine *)

\* SlowBlackhole reads the socket for 20 s and closes it (ProbeResponse
\* checks that loop); handleConn's default branch closes it at once.
HandlerCloses ==
    /\ handler \in {"blackhole", "close"}
    /\ handler' = "done"
    /\ sock' = "closed"
    /\ UNCHANGED <<c2s, sent, preRead, readBuf, upstream, reading, state,
                   wpc, writes, left, mu, s2c, noise, replays>>

FallbackNoiseUnlocked ==
    /\ handler = "fallback"
    /\ sock = "open"
    /\ noise < MaxNoise
    /\ s2c' = Append(s2c, Noise)
    /\ noise' = noise + 1
    /\ UNCHANGED <<c2s, sent, preRead, readBuf, upstream, reading, state,
                   handler, wpc, writes, left, mu, sock, replays>>

\* SilentFallbackSplit after a read timeout: take the session's writeMu,
\* write 1-8 random bytes, release it.
FallbackNoise ==
    /\ handler = "fallback"
    /\ sock = "open"
    /\ noise < MaxNoise
    /\ mu = "none"
    /\ s2c' = Append(s2c, Noise)
    /\ noise' = noise + 1
    /\ UNCHANGED <<c2s, sent, preRead, readBuf, upstream, reading, state,
                   handler, wpc, writes, left, mu, sock, replays>>

\* SilentFallbackSplit returns on EOF or a read error.
FallbackReturns ==
    /\ handler = "fallback"
    /\ handler' = "done"
    /\ UNCHANGED <<c2s, sent, preRead, readBuf, upstream, reading, state,
                   wpc, writes, left, mu, s2c, noise, sock, replays>>

-----------------------------------------------------------------------------
(* The client and the attacker *)

\* The client's Conn.Write of n bytes, one record.
ClientWrite(n) ==
    /\ sock = "open"
    /\ Len(sent) + n <= MaxBytes
    /\ LET bytes == [i \in 1..n |-> Len(sent) + i]
       IN  /\ c2s' = Append(c2s, [hit |-> FALSE, bytes |-> bytes])
           /\ sent' = sent \o bytes
    /\ UNCHANGED <<preRead, readBuf, upstream, reading, state, handler, wpc,
                   writes, left, mu, s2c, noise, sock, replays>>

\* A copy of a record already sent, in the same window: the filter hits.
ReplayRecord ==
    /\ sock = "open"
    /\ sent # <<>>
    /\ replays = 0
    /\ c2s' = Append(c2s, [hit |-> TRUE, bytes |-> <<>>])
    /\ replays' = 1
    /\ UNCHANGED <<sent, preRead, readBuf, upstream, reading, state, handler,
                   wpc, writes, left, mu, s2c, noise, sock>>

Next ==
    \/ \E k \in ReadSizes : ConnRead(k)
    \/ ConnWrite \/ WriteLock \/ WritePiece \/ ConnClose
    \/ HandlerCloses \/ FallbackNoise \/ FallbackReturns
    \/ \E n \in 1..2 : ClientWrite(n)
    \/ ReplayRecord

Spec == Init /\ [][Next]_vars

-----------------------------------------------------------------------------
(* Properties *)

TypeOK ==
    /\ \A i \in 1..Len(upstream) : upstream[i] \in (1..MaxBytes) \cup {-1, -2}
    /\ reading \in {"open", "eof"}
    /\ state \in {"normal", "replay"}
    /\ handler \in ReplayActions \cup {"none", "done"}
    /\ wpc \in {"idle", "checked", "writing", "stopped"}
    /\ writes \in 0..MaxWrites /\ left \in 0..Pieces
    /\ mu \in {"none", "writer"}
    /\ noise \in 0..MaxNoise
    /\ sock \in {"open", "closed"}

\* The upstream reads exactly the bytes the client wrote, in order, however
\* the reads are sized against the early data and the records (spec.md S1:
\* the client writes "hello" and the server reads exactly those 5 bytes).
StreamIntact ==
    IsPrefix(upstream, sent)

\* Fallback noise never lands between the writeAll calls of a record: the
\* noise writer takes the session's writeMu, which WriteFrames holds for
\* the whole record (spec.md 5, "Probe response on a session-held
\* connection").
NoiseOutsideRecords ==
    \A i \in 2..Len(s2c) :
        s2c[i] = Noise => (s2c[i - 1] = Noise \/ s2c[i - 1].part = Pieces)

\* Once a replay action has started the handler, no WriteFrames call
\* starts (spec.md 4.8: the replay handler "transitions the connection to
\* a closed-like state that refuses further writes").
NoWriteAfterReplay ==
    [][wpc = "checked" /\ wpc' = "writing" => handler = "none"]_vars
=============================================================================
