------------------------------ MODULE NekoPacket ----------------------------
(***************************************************************************)
(* UDP over one NEKO session (handshake mode 0x01).  The client's          *)
(* PacketConn (src/transport/neko/packet.go) sends each datagram with      *)
(* WriteTo -> Session.WritePacket and reads replies with ReadFrom ->       *)
(* Session.ReadPacket; the server's handleUDPSession                      *)
(* (src/listener/neko/server.go) hands every decoded record to the tunnel, *)
(* whose replies come back through udpPacket.WriteBack.                    *)
(*                                                                         *)
(* A SOCKS5 UDP packet is a sequence of items: one item for the address   *)
(* prefix, then one per data byte.  WritePacket is WriteFrames, so the     *)
(* packet is cut into records of maxPayloadLen items by FrameCodec's      *)
(* Split; each record read is decoded as a packet of its own.  A data      *)
(* byte is abstracted to what DecodeUDPPacket makes of it when a record    *)
(* starts with it: "plain" fails to decode, "v4" reads as an IPv4 address  *)
(* and "domain" as a domain address.  The byte stream itself is lossless  *)
(* and in order here (its faults are NekoSession's subject) except for    *)
(* `Hit`, an on-path copy of a record that trips the server's replay       *)
(* filter.                                                                 *)
(***************************************************************************)
EXTENDS Integers, Sequences, SequencesExt

CONSTANTS
    Targets,       \* IPv4 addresses datagrams are sent to or come from
    DataBytes,     \* kinds of data byte, a subset of {"plain", "v4", "domain"}
    MaxData,       \* longest datagram payload, in bytes
    MaxFrameLen,   \* shaping.max-frame-len, the same on both peers
    MaxDatagrams,  \* WriteTo calls of the client
    MaxReplies,    \* WriteBack calls of the tunnel
    MaxHits,       \* replayed records the attacker injects
    Hit,           \* such a record on the wire
    NoAddr         \* WriteBack called with a nil address

ASSUME DataBytes \subseteq {"plain", "v4", "domain"} /\ MaxData \in Nat \ {0}

FC == INSTANCE FrameCodec WITH MaxFrameLens <- {MaxFrameLen}, mfl <- MaxFrameLen,
          n <- 0, written <- FALSE, wire <- <<>>, got <- <<>>, reader <- "open",
          HandshakeSeeds <- {0}, MaxOffsets <- {0},
          hs <- [base |-> 0, off |-> 0, max |-> 0]

\* Session.outboundShaper.maxPayloadLen, in items.
MP == FC!maxPayloadLenFromConfig(MaxFrameLen)

Payloads == UNION {[1..k -> DataBytes] : k \in 1..MaxData}

\* What DecodeUDPPacket can read as an address.
Addrs == Targets \cup {"v4", "domain"}

\* socks5.EncodeUDPPacket(addr, data): the address prefix, then the data.
EncodeUDPPacket(a, d) == <<a>> \o d

\* socks5.DecodeUDPPacket: an address prefix and the rest, or an error.
DecodeUDPPacket(p) ==
    IF Len(p) > 0 /\ p[1] \in Addrs
      THEN [ok |-> TRUE, to |-> p[1], data |-> Tail(p)]
      ELSE [ok |-> FALSE]

\* Addr.UDPAddr() is nil for a domain address.
HasUDPAddr(a) == a # "domain"

Sum(s) == FoldLeft(+, 0, s)

RecordsOffByOne(p) ==
    LET lens == FC!Takes(FC!Split(Len(p), MP), Len(p))
    IN  [i \in 1..Len(lens) |->
            SubSeq(p, Sum(SubSeq(lens, 1, i - 1)) + 1,
                      Sum(SubSeq(lens, 1, i)) - 1)]

\* Session.WriteFrames -> sendFrames: the payloads of the records one
\* write of packet p puts on the wire, in order, under writeMu.
Records(p) ==
    LET lens == FC!Takes(FC!Split(Len(p), MP), Len(p))
    IN  [i \in 1..Len(lens) |->
            SubSeq(p, Sum(SubSeq(lens, 1, i - 1)) + 1, Sum(SubSeq(lens, 1, i)))]

VARIABLES
    c2s,      \* record payloads (or Hit) the server has yet to read
    s2c,      \* record payloads the client has yet to read
    sock,     \* "open", or who closed it: "server" or "client"
    cliSent,  \* datagrams the client's WriteTo sent: [to, data]
    tun,      \* datagrams handleUDPSession handed to the tunnel
    replies,  \* WriteBack calls that wrote: [req, addr, data]
    cliGot,   \* datagrams the client's ReadFrom returned
    srv,      \* handleUDPSession: "running" or "done"
    cli,      \* the client's ReadFrom: "open", "eof" or "failed"
    hits      \* replayed records injected

vars == <<c2s, s2c, sock, cliSent, tun, replies, cliGot, srv, cli, hits>>

Init ==
    /\ c2s = <<>> /\ s2c = <<>>
    /\ sock = "open"
    /\ cliSent = <<>> /\ tun = <<>> /\ replies = <<>> /\ cliGot = <<>>
    /\ srv = "running"
    /\ cli = "open"
    /\ hits = 0

-----------------------------------------------------------------------------
(* The client: PacketConn *)

\* PacketConn.WriteTo: encode the address prefix and WritePacket.  On a
\* closed socket the write fails and nothing changes.
WriteTo(a, d) ==
    /\ sock = "open"
    /\ Len(cliSent) < MaxDatagrams
    /\ c2s' = c2s \o Records(EncodeUDPPacket(a, d))
    /\ cliSent' = Append(cliSent, [to |-> a, data |-> d])
    /\ UNCHANGED <<s2c, sock, tun, replies, cliGot, srv, cli, hits>>

\* PacketConn.ReadFrom, one ReadPacket at a time: a record that does not
\* decode is skipped; one whose address has no UDPAddr ends the call with
\* "parse udp addr error"; a closed socket ends it with an error.  The
\* client's session has no replay filter.
ReadFrom ==
    /\ cli = "open"
    /\ \/ /\ s2c # <<>> /\ sock # "client"
          /\ s2c' = Tail(s2c)
          /\ LET r == DecodeUDPPacket(Head(s2c))
             IN  IF ~r.ok THEN UNCHANGED <<cliGot, cli>>
                 ELSE IF HasUDPAddr(r.to)
                        THEN /\ cliGot' = Append(cliGot, [to |-> r.to, data |-> r.data])
                             /\ UNCHANGED cli
                        ELSE /\ cli' = "failed"
                             /\ UNCHANGED cliGot
       \/ /\ sock # "open" /\ (s2c = <<>> \/ sock = "client")
          /\ cli' = "eof"
          /\ UNCHANGED <<s2c, cliGot>>
    /\ UNCHANGED <<c2s, sock, cliSent, tun, replies, srv, hits>>

\* PacketConn.Close closes the session's socket.
ClientClose ==
    /\ sock = "open"
    /\ sock' = "client"
    /\ UNCHANGED <<c2s, s2c, cliSent, tun, replies, cliGot, srv, cli, hits>>

-----------------------------------------------------------------------------
(* The server: handleUDPSession and the tunnel's WriteBack *)

EndSessionNoClose ==
    /\ srv' = "done"
    /\ UNCHANGED sock

\* handleUDPSession's exit: Close the session's socket and return.
EndSession ==
    /\ srv' = "done"
    /\ sock' = IF sock = "open" THEN "server" ELSE sock

HandlePacketUnstripped(p) ==
    LET r == DecodeUDPPacket(p)
    IN  IF r.ok THEN tun' = Append(tun, [to |-> r.to, data |-> p])
                ELSE UNCHANGED tun

\* DecodeUDPPacket, skip the record on an error, else hand the datagram
\* (target, data) to tunnel.HandleUDPPacket.
HandlePacket(p) ==
    LET r == DecodeUDPPacket(p)
    IN  IF r.ok THEN tun' = Append(tun, [to |-> r.to, data |-> r.data])
                ELSE UNCHANGED tun

\* One turn of handleUDPSession's loop.  ReadPacket returns a replay
\* action or an error (EOF once the client closed and the bytes ran out):
\* close the socket and return.  Otherwise DecodeUDPPacket; a record that
\* does not decode is skipped, the rest go to tunnel.HandleUDPPacket.
\* (ReadPacket's skip of empty payloads and the nil-target test never
\* apply: no record is empty and a decoded address is never nil.)
ServerRead ==
    /\ srv = "running"
    /\ \/ /\ c2s # <<>> /\ Head(c2s) = Hit
          /\ c2s' = Tail(c2s)
          /\ EndSession
          /\ UNCHANGED tun
       \/ /\ c2s # <<>> /\ Head(c2s) # Hit
          /\ c2s' = Tail(c2s)
          /\ HandlePacket(Head(c2s))
          /\ UNCHANGED <<sock, srv>>
       \/ /\ c2s = <<>> /\ sock # "open"
          /\ EndSession
          /\ UNCHANGED <<c2s, tun>>
    /\ UNCHANGED <<s2c, cliSent, replies, cliGot, cli, hits>>

ReplyAddrTargetOnly(target, a) == target

\* WriteBack's socksAddr: the parsed address the tunnel gives, else the
\* packet's target.
ReplyAddr(target, a) == IF a = NoAddr THEN target ELSE a

\* udpPacket.WriteBack on the i-th packet: the reply goes to the address
\* the tunnel gives, or to the packet's target when it gives none, and
\* is written by WritePacket (it fails, changing nothing, once the socket
\* is closed).  The tunnel may call it after handleUDPSession returned.
WriteBack(i, a, d) ==
    /\ sock = "open"
    /\ i \in 1..Len(tun)
    /\ Len(replies) < MaxReplies
    /\ s2c' = s2c \o Records(EncodeUDPPacket(ReplyAddr(tun[i].to, a), d))
    /\ replies' = Append(replies, [req |-> i, addr |-> a, data |-> d])
    /\ UNCHANGED <<c2s, sock, cliSent, tun, cliGot, srv, cli, hits>>

\* An on-path copy of a record; the server's filter flags it as a replay.
ReplayRecord ==
    /\ sock = "open"
    /\ hits < MaxHits
    /\ c2s' = Append(c2s, Hit)
    /\ hits' = hits + 1
    /\ UNCHANGED <<s2c, sock, cliSent, tun, replies, cliGot, srv, cli>>

Next ==
    \/ \E a \in Targets, d \in Payloads : WriteTo(a, d)
    \/ ReadFrom \/ ClientClose \/ ServerRead
    \/ \E i \in 1..MaxDatagrams, a \in Targets \cup {NoAddr}, d \in Payloads :
          WriteBack(i, a, d)
    \/ ReplayRecord

\* handleUDPSession and the client's reader are goroutines that loop on
\* ReadPacket: weak fairness of each.  The client, the tunnel and the
\* attacker owe nothing.
Spec == Init /\ [][Next]_vars /\ WF_vars(ServerRead) /\ WF_vars(ReadFrom)
-----------------------------------------------------------------------------
(* Properties *)

Datagram(as) == [to : as, data : Payloads]

TypeOK ==
    /\ sock \in {"open", "server", "client"}
    /\ srv \in {"running", "done"}
    /\ cli \in {"open", "eof", "failed"}
    /\ cliSent \in Seq(Datagram(Targets))
    /\ tun \in Seq([to : Addrs, data : Seq(DataBytes)])
    /\ cliGot \in Seq([to : Addrs, data : Seq(DataBytes)])
    /\ \A j \in 1..Len(replies) : replies[j].req \in 1..Len(tun)
    /\ \A j \in 1..Len(c2s) : c2s[j] = Hit \/ Len(c2s[j]) \in 1..MP
    /\ \A j \in 1..Len(s2c) : Len(s2c[j]) \in 1..MP
    /\ hits \in 0..MaxHits

\* The datagrams handleUDPSession hands the tunnel are the datagrams the
\* client's WriteTo sent, whole, in order and each once (spec.md 6: "each
\* datagram travels in one record"; scenario S2), however WriteFrames
\* cuts the packet into records.
RequestsIntact == IsPrefix(tun, cliSent)

\* Where a reply must arrive from: the address the tunnel passed to
\* WriteBack, or the request's target when it passed none.
ReplyFrom(r) == IF r.addr = NoAddr THEN tun[r.req].to ELSE r.addr

\* The datagrams the client's ReadFrom returns are the tunnel's replies,
\* whole and in order, each from the address WriteBack was meant to use:
\* for S2, ("1.2.3.4:9999", "pong") for a reply to a datagram sent there.
RepliesIntact ==
    IsPrefix(cliGot, [j \in 1..Len(replies) |->
                         [to |-> ReplyFrom(replies[j]), data |-> replies[j].data]])

\* Once handleUDPSession has returned (a replay action, or the client's
\* EOF), the client's ReadFrom eventually returns instead of waiting
\* forever on a session nobody serves.
ClientSeesSessionEnd == srv = "done" ~> cli # "open"
====
