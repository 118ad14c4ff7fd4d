# TLA+ models of the NEKO transport

This directory holds TLA+ models of the NEKO transport in `src/`, checked with TLC.
NEKO is an obfuscated, PSK-authenticated record protocol that carries proxied TCP
streams and UDP datagrams, plus the mihomo listener and adapter glue around it.
Every definition is translated from the Go source. `PROJECT.json` maps each
definition to the lines it models, and lists the runs, mutants, findings and hazards.

## 1. Inventory

| Component | Source | State | Operations |
|---|---|---|---|
| Replay filter | `transport/neko/replay.go` | `windows[0..W-1]`, each slot holding `id`, a key map `entries`, a `ring` of `capacity` keys, `head` and `count`. One mutex guards all slots. | `NewReplayFilter`, `CheckAndSet` (pick slot `|id mod W|`, repurpose on id mismatch, hit, or admit with FIFO eviction) |
| Handshake | `transport/neko/handshake.go` | Client: the session salt and seq 0. Server: the candidate windows, the pre-buffer and the time read twice. | `ClientHandshake`, `ServerHandshake` (peek length, pre-buffer loop with a 2000 ms budget, candidate scan), `attemptHandshake` (AEAD, seq 0, length, salt and mode, replay check) |
| Frame codec | `transport/neko/frames.go` | The per-direction sequence counter, owned by the session. | `writeHandshake`, `sendFrames` (split, then one record per segment), `writeFrame` (frame limit, length field, seal, tag split), `readFrame` (read the record, replay check, AEAD, seq check, length check) |
| Session | `transport/neko/session.go` | `inboundSeq`, `outboundSeq`, shapers, filter, `readMu`, `writeMu`. | `ReadFrame`, `ReadPacket`, `WriteFrames`, `WritePacket`, `WriterLock` |
| Stream adapter `Conn` | `transport/neko/session.go` | `preRead`, `readBuf`, `replayOnce`, `replayHandler`, `state` (atomic). | `Read`, `Write`, `Close`, `triggerReplay`; `prefixedReader` splices the handshake leftover in front of the socket |
| Packet adapter | `transport/neko/packet.go` | The session. | `ReadFrom`, `WriteTo` |
| Frame shaper | `transport/neko/shaping.go` | `maxPayloadLen`, jitter range, probability. | `Split`, `MaybeSleep`, `maxPayloadLenFromConfig`, `normalizeJitterRange` |
| Probe response | `transport/neko/fallback.go` | The socket and its deadlines. | `PickProbeResponse`, `SlowBlackhole*` (20 s of 2 s reads, then close), `SilentFallback*` (3–9 s reads, 10% noise on timeout, under the session write lock in the split variant), `CloseConn` |
| Listener | `listener/neko/server.go` | The listener, server config, its filter, fallback settings. | `New` (builds the listener's filter), the accept loop, `handleConn` (whitelist, handshake, probe response, early data, replay handler), `handleUDPSession`, `WriteBack` |
| Parameters, cipher, random | `params.go`, `crypto.go`, `random.go` | None (pure functions). | BLAKE3 derivations, AEAD, PSK parsing, CSPRNG helpers. Lengths and accepted keys are modelled in `NekoParams`, and `ParsePSK` in `NekoConfig`. |
| Option plumbing | `listener/inbound/neko.go`, `listener/config/neko.go`, `adapter/outbound/neko.go`, `config.go`, `constants.go` | Configuration values. | Option checks, `DialContext` and `ListenPacketContext` (dial, then `ClientHandshake`) |

**How the parts interact.** The inbound's `Listen` calls `neko.New` once per
listen address, so each address gets a listener with its own `ReplayFilter`.
A listener runs one goroutine per accepted connection.
All of them share that listener's `ReplayFilter`. That filter checks handshakes, under the
client's window id, and every inbound data record of every session, under the
server's current window id. A session runs two independent directions. Each
direction has its own sequence counter and its own mutex. A replay action found by
a reader is handed to `Conn.triggerReplay`, which flips the atomic state once and
starts the listener's replay handler on a new goroutine. That handler runs the
blackhole or the fallback on the raw socket, and the fallback writes noise under
the session's write mutex.

**What is hard here.**
- The filter's memory is bounded in two ways: `capacity` keys per slot, and `W`
  slots indexed modulo `W`. Handshakes and data records compete for it.
- Time is read twice in `ServerHandshake`, with up to 2000 ms between the reads.
- Per-record checks run in a fixed order: replay filter, then AEAD, then seq, then
  length. This order decides what a dropped, duplicated, reordered or forged record
  does to the session.
- A record is written with four `writeAll` calls, and seq advances only after the
  last one succeeds.
- `Conn` mixes an atomic state with unsynchronised reads, and the replay handler
  runs on its own goroutine.
- The probe-response loops run on read deadlines and may never end.

**What makes each part correct.**
- Replay filter: it answers exactly as a per-window FIFO memory of the last
  `capacity` keys.
- Handshake: a captured record yields at most one session. A genuine client within
  the span is accepted.
- Session: the reader delivers a prefix of what the writer sent, in order and
  without repeats, and nothing after the first bad record. The frame limit is never
  exceeded.
- Stream adapter: the bytes read equal the bytes the peer wrote. No write goes out
  after the replay state is entered. The replay handler runs at most once.
- Probe response: every probed connection is eventually closed.
- Codec: decode(encode) returns the payload for every allowed frame length.

## 2. Plan

Items marked *(done)* exist now.

1. `ReplayFilter` + abstract `ReplayMemory` *(done)*: the ring refines the FIFO memory.
2. `NekoHandshake` *(done)*: clients with skewed clocks, a replaying attacker,
   the two-phase `ServerHandshake`, and data records sharing the filter.
3. `NekoSession` + abstract `RecordStream` *(done)*: one session, both
   directions, with an on-path adversary and partial write failure.
4. `FrameCodec` *(done)*: `Split`, `maxPayloadLenFromConfig`, the 16-bit length
   field, checked against a reference split; the handshake record's byte layout,
   written by `writeHandshake` and parsed by `attemptHandshake`.
5. `ProbeResponse` *(done)*: `handleConn`'s dispatch of unauthenticated
   connections, the blackhole and fallback loops, with liveness.
6. `NekoConn` *(done)*: the stream adapter (`Conn`), the listener's early-data
   selection, the replay trigger and the noise written under the write lock.

7. `NekoPacket` *(done)*: UDP over a session, the client's `PacketConn`, the
   server's `handleUDPSession` and the tunnel's `WriteBack`, reusing
   `FrameCodec`'s `Split` for `WritePacket`.
8. `NekoInbound` *(done)*: the inbound's `Listen` and `Close` over its
   addresses, `New`'s bind and checks, the accept loops and `Listener.Close`,
   composed with `ProbeResponse`.
9. `NekoParams` and `NekoConfig` *(done)*: the cipher-length switches and
   `NewCipher`, `ParsePSK`, and the option checks of both constructions,
   checked against spec.md 3 and 6 in the `frame_codec` run.

Left for later sittings:
- a composition of `NekoHandshake` and `NekoSession`, so that the handshake's
  seq roles and the shared filter are one state rather than two modules' constants;
- the client dialer's side of `Conn` (`DialConn` and the outbound adapter);
- `SlowBlackhole` in detail on the replay path (now reduced to closing the socket).

## 3. Modules and their correspondence to the code

### ReplayFilter (`replay.go`)
- `windows` is `ReplayFilter.windows`. Each slot is a record with `id`, `entries`,
  `ring`, `head` and `count`, as in `replayWindow`.
- `result` records the last call's arguments and return value. The refinement
  needs this to tie each abstract step to the same call.
- `CheckAndSetOp(ws, w, n)` is the body of `CheckAndSet` as a function of the
  filter value:
  - `SlotIdx` uses Go's truncating `%` and then the sign flip;
  - `Repurpose` is the id-mismatch reset;
  - `Admit` is the evict-or-count branch, the ring write, the head wrap and the
    map insert.
- Each call is one atomic step, because the whole body holds `r.mu`.
- `hashReplayKey` is the pair (window id, nonce). This assumes the 64-bit
  truncated BLAKE3 digest does not collide.
- Window id 0 is excluded by an ASSUME. A fresh slot's id is 0 with a nil ring,
  and Unix time never yields window id 0.
- `ReplayMemory` is the abstract promise of spec.md §4.3: a slot per `id mod W`,
  holding the last `Capacity` keys in admission order. `ReplayFilter` maps its
  ring to that sequence with `RingOrder`, which reads oldest first from `head`
  once the ring is full.

### NekoHandshake (`handshake.go`, `frames.go`, `server.go`)
- `now` is the server's window id.
- `conn[k]` is the server's view of accepted connection `k`. Its fields:
  - `phase`: idle, sent, buffering, session, failed or closed;
  - `rec`: the record on the connection, identified by its nonce and the window
    it was sealed in;
  - `genuine`: whether the client sent it, as opposed to the attacker;
  - `startWin`: the window at the first `time.Now()`;
  - `covered`: whether the pre-buffer holds the record;
  - `seq`: the client's outbound seq.
- `captured` is what the attacker has seen on the wire.
- `filter[l]` is listener `l`'s filter, operated on through `ReplayFilter`'s
  operators. `ListenerOf[k]` is the listener connection `k` reached; `Filters`
  is `NEKO.Listen`'s one `neko.New` (and one `NewReplayFilter`) per address.
  `HandshakeAcceptedOnce` is stated per listener, as spec.md 9 designs it.
- Actions:
  - `ClientHandshake`: client `c` seals a record for window `now + Skew[c]` on a
    fresh connection.
  - `ReplayHandshake`: the attacker sends a captured record on a fresh connection.
  - `BeginHandshake`: `ServerHandshake` up to the end of pre-buffering. The peek
    length is the longest layout among the current candidates, so the buffer
    covers the record if the record's window is one of them. Otherwise either
    outcome is possible.
  - `FinishHandshake`: the second `time.Now()`, the candidate scan and
    `attemptHandshake`. AEAD opens only under the sealing window's key, and only
    then is the filter consulted.
  - `DataRecord`: the genuine client's `writeFrame`, with the frame limit, and the
    server's `readFrame` replay check under the current window id.
  - `Tick`: the clock moves to the next window. At most one boundary passes during
    a pre-buffer wait, because 2000 ms is shorter than a window.

### RecordStream (abstract)
What one direction of a session promises (spec.md 8): payloads are delivered
in the order sent, without loss or duplication, until the stream stops.
`Send` appends to `sent`, `Deliver` hands out the next undelivered one,
`Stop` ends delivery for good.

### NekoSession (`frames.go`, `session.go`, `replay.go`)
- `wseq[d]` and `rseq[d]` are the writer's and reader's `seq` for direction
  `d`; their start values come from `ClientSession` / `ServerSession`, the
  roles `NewSession` is given by the two handshakes.
- `wire[d]` is the byte stream as a sequence of records `[seq, nonce, pay,
  intact]`, or the marker `Cut` where a `writeAll` failed part-way.
- `WriteFrames(d, n)` takes `writeMu` for `n` records; `WriteRecord(d)` is one
  `writeFrame` (limit check, seal, four writes, `seq++` after the last);
  `WriteFails(d)` is a `writeAll` error before or inside a record.
- `ReadFrame(d)` is `readFrame` in the code's order: replay filter (inbound
  client-to-server records only, as the server passes its filter), AEAD,
  seq, then delivery. A `Cut` followed by more bytes misaligns the reader and
  fails AEAD.
- The adversary drops, duplicates, swaps, corrupts and (bounded) tampers with
  records; `Tick` moves the filter's window.
- `ImplementsRecordStream` maps `sentRecs[d]`, `delivered[d]` and
  `reader[d] = "open"` to `RecordStream`.

### FrameCodec (`shaping.go`, `frames.go`)
Record sizing as operators: `maxPayloadLenFromConfig`, `Split` (recursive),
`Takes` (the clamp in `sendFrames`), `Encode` (the 16-bit length field and the
padded plaintext). `WriteFrames` emits every record of one write;
`ReadFrame` applies `readFrame`'s length check and returns `length` bytes.

The handshake record is a pair of operators over wire bytes named by the field
they carry. `WriteHandshake` is `writeHandshake`'s layout: noise of
`offset + tagTailLen` bytes ending in the tag's tail, the 24-byte encoded nonce,
the ciphertext, the tag's first `tagLen` bytes. `AttemptHandshake` takes the
fields back by `attemptHandshake`'s positions. `TagLen`, `HandshakeOffset`,
`MaxOffsetOrDefault` and `handshakePayloadLen` are the lengths `deriveParams`
computes from the first seed bytes; the variable `hs` holds those bytes and the
max-offset, chosen in `Init`.

The shaper's jitter is a set of possible delays. `randIntn`, `randRange` and
`randChance` give the values a draw of `random.go` can return. This includes
the 0 that `randIntn` falls back to when the source fails.
`JitterRangeFromOption` is how `NewNEKO` (and the server's `New`) reads
`shaping.jitter-range`. `normalizeJitterRange` swaps, then clamps.
`MaybeSleep(enabled, range, prob)` is the set of delays a write waits,
with 0 meaning it does not sleep.

### NekoParams (`params.go`, `crypto.go`)
Operators only, extended by `FrameCodec`. A cipher name is a record of its
letters and whether it was written in capitals; `ToLower` keeps the letters,
which is all the three `strings.ToLower` switches compare. `cipherKeyLen` and
`cipherNonceLen` are the two switches, with `Unsupported` for their error.
`NewCipher` is the key lengths `aes.NewCipher` and `chacha20poly1305.New`/`NewX`
accept and the nonce size of the AEAD they build. `deriveParams` and
`deriveSessionParams` give the lengths they slice the 32-byte derived keys to,
and the tag split and offset from the first seed byte (moved here from
`FrameCodec`, with `TagLen`, `HandshakeOffset` and `handshakePayloadLen`).
`SpecCipherTable` is spec.md section 3's table, the reference.

### NekoConfig (`crypto.go` ParsePSK, outbound and inbound `NewNEKO`, `server.go` New)
Operators only, extended by `FrameCodec`. A PSK string is abstracted to how it
was written: its encoding (std or raw base64, hex, or text none of them reads),
the number of bytes it encodes and whether blanks surround it. `StdDecode`,
`RawDecode` and `HexDecode` give what Go's decoders return for such a string:
its own key, other bytes of a computed length (64 hex digits are valid base64
and decode to 48 bytes), or an error. `ParsePSK` trims, then takes the first
decoding of exactly 32 bytes. `NewNEKOOutbound` is the outbound's checks in
order, `NewNEKOInbound` the inbound's (and `Listen`'s, which repeat them),
`NewServerConfig` the checks `neko.New` makes after the bind (PSK, blank
cipher, fallback destination). No property checks these three: the one
that did only restated their guard lists, and the key half is
`PSKParsedAsSpecified`. They stay as the translation the README's note on
unsupported cipher names is read from. `HandshakeChecks` is what `ClientHandshake` and
`ServerHandshake` check before the first byte: the 32-byte PSK, then
`deriveParams` and `NewCipher`. `MaxOffsetOrDefault` moved here from `FrameCodec`.

### ProbeResponse (`server.go` handleConn, `fallback.go`)
`pc` walks accept → handshake → blackhole / fallback / returned. The blackhole
is `silentBlackholeConn`: `BlackholePoll` is its loop test, `BlackholeRead` a
2 s read that returns data, EOF or a timeout, and `Tick` a second of
`elapsed`. The fallback is `SilentFallback`: `FallbackPoll` sets a deadline,
`FallbackRead` returns data (continue), a timeout (maybe noise, continue) or
EOF (return). The prober sends or closes at will.
The connection is the first one an accept loop of the inbound's listeners
hands over. The module instantiates `NekoInbound` as `IB`. `HandOff` is the
one step the two share: a listener's `ListenerAccept`, which moves `pc` from
`listening` to `accept` the first time. Every other step of either side
leaves the other's variables alone.

### NekoInbound (`inbound/neko.go` Listen and Close, `server.go` New)
- A socket is named `<<r, a>>`: the `r`-th `Listen` call and the address.
  Per socket, `sock` is none, open or closed, and `lclosed` is
  `Listener.closed`. `acceptor` is its accept goroutine.
- `listeners` is `s.listeners`. `closing` and `flagged` are where
  `NEKO.Close`'s loop is. `lastCall` is the caller's last returned call.
  `cfgErr` is whether `New`'s checks after the bind reject the config
  (PSK, cipher, fallback destination). Since the config is the same for
  every address, it is chosen once in `Init`.
- Actions:
  - `Listen` is one step. For each address `NewListener` gives the bind
    failing (or the address still held, `InUse`), or `New` closing the
    socket again, or an open listener whose accept loop starts.
    `SelectSeq` appends the ones that came up, in address order.
  - `StartClose`, `CloseSetsFlag`, `CloseListener` and `NextListener` are
    `NEKO.Close`'s loop over `Listener.Close`, whose two steps let an
    accept loop run between them. A listener an earlier `Close` closed
    makes `l.listener.Close()` fail; the loop collects the error and goes on.
  - `ListenerAccept`, `AcceptReturnsError`, `AcceptTransientError` and
    `AcceptCheckClosed` are the accept goroutine.

### NekoConn (`session.go` Conn, `server.go`, `fallback.go`)
- `preRead` is `Conn.preRead`, built in `Init` by `EarlyData`, which is
  `handleConn`'s early-data selection applied to the client's first payload
  (the target descriptor `AddrBytes` followed by data).
- `ConnRead(k)` is `Conn.Read` with a buffer of `k` bytes: `preRead` first,
  then `readBuf`, then a new record. A record whose replay check hits runs
  `triggerReplay` (once): the state becomes replay and the handler chosen by
  `replayHandler` starts.
- `ConnWrite` is `Conn.Write`'s state check; `WriteLock` and `WritePiece`
  are `WriteFrames` taking `writeMu` and the four `writeAll` calls.
- `FallbackNoise` is `SilentFallbackSplit` writing noise under `writeMu`,
  `FallbackReturns` its return; `HandlerCloses` is the blackhole or close
  handler closing the socket; `ConnClose` is `Conn.Close`.

### NekoPacket (`packet.go`, `server.go` handleUDPSession and WriteBack)
- A SOCKS5 UDP packet is a sequence of items: the address, then one item per
  data byte. `EncodeUDPPacket` / `DecodeUDPPacket` / `HasUDPAddr` stand for the
  socks5 package outside this repository (spec.md 6). A data byte is one of
  "plain", "v4" or "domain": what the decoder makes of it when a record starts
  with it.
- `Records(p)` is `WriteFrames` → `sendFrames` on packet `p`: the record
  payloads, cut by `FrameCodec`'s `Split` and `Takes` (instantiated as `FC`).
  `WritePacket` is `WriteFrames`, so this is what both sides send.
- Client: `WriteTo`, `ReadFrom` (one `ReadPacket` per step; undecodable
  records skipped, a domain address ends the call with an error),
  `ClientClose`.
- Server: `ServerRead` is one turn of `handleUDPSession`; `EndSession` its
  close-and-return on a replay action or a read error; `HandlePacket` the
  decode and `tunnel.HandleUDPPacket`. `WriteBack(i, a, d)` is the tunnel's
  reply to the i-th packet, its address chosen by `ReplyAddr`; it may run
  after the handler returned.
- `ReplayRecord` is an on-path copy that the server's filter flags.


## 4. Runs

| Run | Expect | What it shows |
|---|---|---|
| `replay_filter_refines` | pass | `ImplementsReplayMemory`. `Capacity = 3`, `W = 2`, window ids {1,2,3}, four nonces. The ring wraps several times, and each slot is repurposed back and forth between two ids. About 118k states. |
| `handshake_replay` | pass | `HandshakeAcceptedOnce`. Two clients, at skew +1 and −1 window; three connections, 1 and 2 on one listener and 3 on a second; the server ticks from window 4 to 7; up to two data records per session; `W = 4`; span 1; `Capacity = 8`. About 913k states. |
| `handshake_replay_evicted` | violation | Same, but `Capacity = 2`: two data records of a session evict its handshake key and the replay is accepted. |
| `handshake_skew_window_crossing` | violation | `GenuineHandshakeAccepted`: a client one window behind is rejected when the window ticks during the pre-buffer wait (spec S4). |
| `session_stream` | pass | `ImplementsRecordStream`, `CleanStreamDelivered`. Three records per direction, two write calls, one tamper, windows 1–2. About 172k states. |
| `frame_codec` | pass | `SplitMatchesReference`, `StreamReassembled` for max-frame-len 0, 5, 11, 12, 1400 and 65545 (it is stated only up to 65545; see the length field below), with write lengths at the record edges; `HandshakeLayoutRoundTrip`: for every tag split 12..16, offsets up to 255 and the max-offset default, the server reads nonce, ciphertext and tag where the client wrote them and consumes exactly the record, so the session's leftover starts at the first data record; `JitterWithinRange`: for every jitter-range option of up to three entries from {−3, 0, 2, 5}, `MaybeSleep` can wait exactly the positive milliseconds of the range spec.md 4.4 describes, and never with shaping off; `CipherParamsAgree`: for every cipher name (the four kinds, `aes-192-gcm`, `chacha20`, the empty name, each in lower case or capitals) both derivations refuse exactly the names spec.md 3 does not list and otherwise cut its key and nonce lengths, `NewCipher` accepts that key, and its AEAD's nonce size is the derived nonce length, so `Seal`/`Open` never panic on it; `PSKParsedAsSpecified`: for PSK strings of 16, 21, 22, 24, 31, 32, 33 and 48 bytes in each encoding, with and without blanks around them, `ParsePSK` accepts exactly the 32-byte keys in the three encodings spec.md 6 names and returns their key, never other bytes another decoder made; the key it returns passes the handshakes' own 32-byte check. |
| `probe_blackhole` | pass | `BlackholeClosedInTime`, `BlackholeEventuallyClosed` with the code's 20 s / 2 s; `FallbackEndsWhenProberLeaves`: a fallback connection, by the whitelist or after a failed handshake, ends once the prober hangs up, however the reads and its bytes interleave.; `NoLeakAfterClose`: once `NEKO.Close` returned (and no `Listen` since), no socket any `Listen` bound is open, across `Listen`, `Close`, `Listen`, `Close` with bind failures and the second `Listen` meeting a held address; `AcceptLoopsExit`: every listener `Close` closed has its accept goroutine exit, with a transient Accept error before, between or after `Listener.Close`'s two steps. About 287k states. |
| `conn_stream` | pass | `StreamIntact`, `NoiseOutsideRecords`: four bytes, reads of 1 to 3 bytes, two writes of four pieces, two noise writes. |
| `conn_early_data_fallback_target` | violation | `StreamIntact` with `Target = FallbackDest`: the upstream first reads the address bytes. |
| `conn_write_after_replay` | violation | `NoWriteAfterReplay`: a write checked while normal starts after the replay handler. |
| `packet_udp` | pass | `RequestsIntact`, `RepliesIntact`, `ClientSeesSessionEnd`: datagrams of up to two bytes with max-frame-len 13 (the longest fills one record exactly), two targets, two client datagrams, two tunnel replies with or without an address, one replayed record. About 113k states. |
| `packet_split_datagram` | violation | `RequestsIntact` with a three-byte datagram: `WriteFrames` cuts it into two records and the tunnel gets a truncated datagram (spec.md 6: one record per datagram). |

Further disagreements, recorded as hazards rather than runs (the project
keeps at most twelve runs):
- `SilentFallback` returns on EOF without closing the socket and `handleConn`
  returns right after it (`fallback.go:50`), while spec.md 7 says the
  connection is closed after the probe response. In `ProbeResponse` it takes
  one step after the prober closes.
- `SilentFallback` has no overall time limit (`fallback.go:48`): against a
  prober that neither sends nor closes, "the handler eventually returns" fails
  in `ProbeResponse` under the same fairness as `probe_blackhole`. The half
  that must hold, that the loop ends once the prober hangs up, is
  `FallbackEndsWhenProberLeaves`.
- The 16-bit length field (`frames.go:151`): neither `NewNEKO` nor `New`
  bounds max-frame-len, so `StreamReassembled` is stated, and checked, only up
  to 65545. Checking `MCFrameCodec` with `MaxFrameLens = {65546}` and that
  invariant alone, TLC finds it violated by a 65536-byte write: one record
  whose length field reads 0, so its bytes are lost without an error. No
  run in PROJECT.json keeps this check.
- A handshake captured on one listen address of an inbound and replayed to
  another address of the same inbound is accepted: every address has its own
  filter (`inbound/neko.go:143`). spec.md 9 chooses per-listener filters, and
  S3 says a replay must not produce a session; the model's second listener
  reaches this case, and `HandshakeAcceptedOnce` is stated per listener.
- An unsupported cipher name is not rejected at construction. `NewNEKO`
  (both sides) and `New` check only that it is non-empty. spec.md 7 lists
  "unsupported cipher" among the config-invalid errors returned at
  construction. With such a name, `ClientHandshake` fails when it derives its
  parameters, and the server fails every candidate, so a genuine client gets
  the probe response. This needs no model to see; no run checks it.
- `handshake-candidate-span` and `replay-windows` are not checked against
  each other. With a span of 2 and the default 4 windows, window w+2's
  handshake shares window w−2's filter slot and clears it while w−2 is
  still a candidate. With `Span = 2`, skews ±2 and one listener,
  `NekoHandshake` accepts the replay (a run of `MCNekoHandshake` with
  those constants; it is not kept among the runs).
- In UDP mode a replay action only closes the socket (`server.go:126`); the
  blackhole / fallback / close choice spec.md 4.7 says is honoured is not.

**Why the bounds are enough.**
- Two clients at skews ±1 make every neighbouring window id the filter can
  see occur; three connections let a record be replayed while its original is
  buffering and after it was accepted; four windows make every slot be
  claimed twice. Two listeners, one of them with two connections, are
  enough to tell a per-listener filter from a shared one.
- `NekoSession`: three records let a drop, a duplicate and a swap each land
  between two others; one tamper and one part-way write failure per direction
  reach every reader verdict.
- `FrameCodec`: the lengths 0, 1, mp−1, mp, mp+1 and 2mp+1 are every case of
  the split, and the max-frame-len values are every branch of the config clamp
  plus the largest that fits 16 bits. Seed bytes 0..4 give every tag split,
  255 the longest payload (575) and offset; 63 and 64 sit at the default
  max-offset's wrap; max-offset 0 takes the default, 300 exceeds a byte.
  Jitter options of length 0 to 3 over {−3, 0, 2, 5} cover the empty, single,
  inverted, negative and extra-entry cases.
- `ProbeResponse` uses the code's own constants. The inbound has one
  address, two `Listen` calls, one accepted connection and one transient
  Accept error. That is enough for the loop to fail and continue before
  `Close`, for a second `Listen` to meet the held address, and for a second
  `Close` to meet the first call's closed listener ahead of a new one.
  With one accepted connection, `NekoInbound` alone has 500 states for one
  address and 10672 for two. The composed run with two addresses (and two
  accepted connections) did not finish in 30 minutes, so the composition
  checks one address. Partial failure across addresses is the same
  `Listen` step with one more address in `fails`, but with one address a
  failed `Listen` keeps no listener, so no run exercises it
  (`inbound/neko.go:150`).
- `NekoPacket`: a two-byte datagram after its address fills a record of
  maxPayloadLen 3 exactly, the edge `Split` must not cross; two targets let a
  reply's address differ from its request's; the replayed record can arrive
  before, between or after the datagrams.
- `NekoConn`: read sizes smaller than, equal to and larger than a record
  exercise the readBuf-remainder and new-record branches of `Conn.Read`;
  `preRead` is empty there, and only `conn_early_data_fallback_target`
  (which has early data) takes the preRead branch; four pieces, writeFrame's four writeAll calls, give three points
  inside a record for one of two noise writes to land.

**Fairness.**
- `NekoSession`: weak fairness of each direction's `ReadFrame`; the reader
  goroutines loop on `ReadFrame` as long as bytes are there.
- `ProbeResponse`: weak fairness of the handler goroutine's steps, and strong
  fairness of `Tick`, since a read deadline fires whatever the prober sends.
  The prober owes nothing. Weak fairness of each accept goroutine's test,
  of `Accept` on a closed listener (it returns at once), and of the steps
  of a `NEKO.Close` call that started. Arrivals, transient errors and the
  caller's `Listen` and `Close` calls owe nothing.
- `NekoPacket`: weak fairness of `ServerRead` and `ReadFrom`, the two
  goroutines that loop on `ReadPacket`; the client, the tunnel and the
  attacker owe nothing.
- The others check safety only. The runs set `CHECK_DEADLOCK FALSE` where the
  system really stops: handled connections, a closed socket, a read record.

## 5. What is not modelled, and why

- BLAKE3 derivations, AEAD and PSK parsing. These are byte-level functions, out of
  TLC's reach. (The lengths `deriveParams` and `deriveSessionParams` cut, and
  which keys `NewCipher` accepts, are modelled in `NekoParams`.) The models keep only what the protocol relies on: parameters are a
  function of (PSK, window) and of (PSK, salt), a record opens only under the key
  it was sealed with, and the replay key is injective.
- `Listener.closed` is a plain bool written by `Close` and read by the accept
  goroutine without synchronisation, a data race. `NekoInbound` gives the
  read the last value written (sequential consistency); a stale read would
  only add iterations of the loop on a closed listener.
- Random choices are nondeterminism. Their probabilities (34/33/33, 50/40/10, the
  4% jitter) are not modelled; `randChance` keeps only which outcomes a
  probability allows.
- The shaper's sleep only delays a write. `MaybeSleep` says which delays
  are possible; no model waits them.
- `DialContext` and `ListenPacketContext` (outbound) are a dial followed by
  `ClientHandshake`. What they add is the context watcher
  (`N.SetupContextForConn`) and the close-on-error helper (`safeConnClose`),
  both outside this repository, so a model of them would be a guess.
  `buildNEKOTransportConfig` and the transport options only set socket flags.
  The `NEKOServer` record of `listener/config` only carries the options, and
  its `String` is JSON for logging.
- Option parsing and proxy wiring carry no protocol state. Whether the
  listeners a partly failed `Listen` started are closed depends on its caller,
  outside this repository.
- The pre-buffer's byte counts are abstracted to whether the buffer covers the
  record. When no bytes arrive, the handshake fails before the scan. That path
  belongs to the probe-response model.
- `NekoPacket`'s client sends to IPv4 targets only: `ListenPacketContext`
  resolves the target before the session starts.
- The proxy relay that reads from and closes a `Conn` is outside this
  repository; `NekoConn` models it as reads of bounded sizes.
- Misaligned garbage after a part-way write failure could add one more key to
  the filter before AEAD fails; `NekoSession` leaves that entry out.
