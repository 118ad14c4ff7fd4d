----------------------------- MODULE NekoSession ----------------------------
(***************************************************************************)
(* One established NEKO session, both directions (src/transport/neko/     *)
(* session.go Session, frames.go sendFrames/writeFrame/readFrame).         *)
(*                                                                         *)
(* "c2s" carries the client's records to the server, "s2c" the server's   *)
(* to the client.  Each direction has a writer (WriteFrames under         *)
(* writeMu, one writeFrame per segment), the TCP byte stream between the  *)
(* peers, in which an on-path adversary may drop, duplicate, swap or      *)
(* corrupt whole records, and a reader (ReadFrame under readMu).  Only    *)
(* the server's reader holds a replay filter (the client passes nil to    *)
(* NewSession); it checks every record's nonce under the server's current *)
(* window id before AEAD.  A record is identified by its direction and    *)
(* the sequence number it was sealed with: writeFrame draws a fresh       *)
(* random nonce for every call.                                            *)
(***************************************************************************)
EXTENDS Integers, Sequences, SequencesExt

CONSTANTS
    MaxSessionFrames,  \* writeFrame refuses seq >= MaxSessionFrames (2^30)
    MaxSegments,       \* most segments Split hands one WriteFrames call
    MaxTamper,         \* most records the adversary alters
    FirstWindow,       \* the server's window id when the model starts
    LastWindow,        \* the server's window id when the model stops ticking
    Capacity, NumWindows, NoKey,  \* the server's ReplayFilter
    Cut           \* the bytes of a record whose writeAll failed half way

ASSUME MaxSessionFrames \in Nat \ {0} /\ MaxSegments \in Nat \ {0}

Dirs == {"c2s", "s2c"}

\* NewSession's (inboundSeq, outboundSeq): the client's after its handshake
\* record took seq 0, the server's after it accepted that record.
ClientSession == [in |-> 0, out |-> 1]

ServerSessionFromZero == [in |-> 0, out |-> 0]

ServerSession == [in |-> 1, out |-> 0]

\* The writer and the reader of each direction start from these.
WriterStart == [c2s |-> ClientSession.out, s2c |-> ServerSession.out]

ReaderStart == [c2s |-> ServerSession.in, s2c |-> ClientSession.in]

Nonces == Dirs \X (0..MaxSessionFrames)

\* What ends up on the wire: whole records, or Cut.
Record == [seq : 0..MaxSessionFrames, nonce : Nonces,
           pay : 1..MaxSessionFrames + 1, intact : BOOLEAN]

\* Why a reader stopped: replay action, AEAD failure, seq mismatch.
ReaderStates == {"open", "replay", "aead", "eof"}

VARIABLES
    now,        \* time.Now().Unix() / windowSize on the server
    wseq,       \* wseq[d]: the writer's outboundSeq
    rseq,       \* rseq[d]: the reader's inboundSeq (expectedSeq)
    todo,       \* todo[d]: segments left in the WriteFrames call holding writeMu
    wire,       \* wire[d]: what the reader has yet to read
    reader,     \* reader[d]: open, or why ReadFrame's caller stopped
    sentRecs,   \* sentRecs[d]: payloads of whole records written, in order
    delivered,  \* delivered[d]: payloads ReadFrame returned, in order
    broken,     \* directions where a writeAll failed part-way
    dirty,      \* directions whose stream was altered or cut mid-record
    tampers,    \* records the adversary altered so far
    filter      \* the server's ReplayFilter.windows

vars == <<now, wseq, rseq, todo, wire, reader, sentRecs, delivered,
          broken, dirty, tampers, filter>>

RF == INSTANCE ReplayFilter WITH windows <- filter, result <- NoKey,
                                WindowIds <- FirstWindow..LastWindow

Init ==
    /\ now = FirstWindow
    /\ wseq = WriterStart
    /\ rseq = ReaderStart
    /\ todo = [d \in Dirs |-> 0]
    /\ wire = [d \in Dirs |-> <<>>]
    /\ reader = [d \in Dirs |-> "open"]
    /\ sentRecs = [d \in Dirs |-> <<>>]
    /\ delivered = [d \in Dirs |-> <<>>]
    /\ broken = {}
    /\ dirty = {}
    /\ tampers = 0
    /\ filter = RF!InitFilter

-----------------------------------------------------------------------------
(* Writers *)

\* WriteFrames: take writeMu; Split(len(data)) yields n segments.
WriteFrames(d, n) ==
    /\ todo[d] = 0
    /\ todo' = [todo EXCEPT ![d] = n]
    /\ UNCHANGED <<now, wseq, rseq, wire, reader, sentRecs, delivered,
                   broken, dirty, tampers, filter>>

CanSendPastLimit(d) == wseq[d] <= MaxSessionFrames

\* writeFrame's first check.
CanSend(d) == wseq[d] < MaxSessionFrames

\* One iteration of sendFrames' loop: writeFrame puts the whole record on
\* the wire and then advances seq; past the limit it fails, and sendFrames
\* returns the error and releases writeMu.
WriteRecord(d) ==
    /\ todo[d] > 0
    /\ IF CanSend(d)
         THEN LET p == Len(sentRecs[d]) + 1
              IN  /\ wire' = [wire EXCEPT ![d] = Append(@,
                        [seq |-> wseq[d], nonce |-> <<d, wseq[d]>>,
                         pay |-> p, intact |-> TRUE])]
                  /\ sentRecs' = [sentRecs EXCEPT ![d] = Append(@, p)]
                  /\ wseq' = [wseq EXCEPT ![d] = @ + 1]
                  /\ todo' = [todo EXCEPT ![d] = @ - 1]
         ELSE /\ todo' = [todo EXCEPT ![d] = 0]
              /\ UNCHANGED <<wire, sentRecs, wseq>>
    /\ UNCHANGED <<now, rseq, reader, delivered, broken, dirty, tampers,
                   filter>>

\* writeFrame fails before seq advances: either before any byte is written
\* (fillBytes, Encrypt) or in one of the four writeAll calls after some
\* bytes of the record went out.  WriteFrames returns the error, nothing
\* marks the session dead, and a later call starts again with the same
\* seq.  At most one write per direction fails part-way (MaxCuts = 1).
WriteFails(d) ==
    /\ todo[d] > 0
    /\ todo' = [todo EXCEPT ![d] = 0]
    /\ \/ UNCHANGED <<wire, broken, dirty>>
       \/ /\ d \notin broken
          /\ wire' = [wire EXCEPT ![d] = Append(@, Cut)]
          /\ broken' = broken \cup {d}
          /\ dirty' = dirty \cup {d}
    /\ UNCHANGED <<now, wseq, rseq, reader, sentRecs, delivered, tampers,
                   filter>>
-----------------------------------------------------------------------------
(* Readers *)

\* The replay check readFrame makes once the record's bytes are read: only
\* the server's reader has a filter, keyed by its current window id.
ReplayCheck(d, rec) ==
    IF d = "c2s" THEN RF!CheckAndSetOp(filter, now, rec.nonce)
                 ELSE [filter |-> filter, present |-> FALSE]

VerdictNoSeqCheck(d, rec, hit) ==
    CASE hit         -> "replay"
      [] ~rec.intact -> "aead"
      [] OTHER       -> "open"

\* readFrame's checks after the replay check, in the code's order.
Verdict(d, rec, hit) ==
    CASE hit                 -> "replay"
      [] ~rec.intact         -> "aead"
      [] rec.seq # rseq[d]   -> "eof"
      [] OTHER               -> "open"

\* ReadFrame under readMu.  Cut bytes misalign the record read after them:
\* readExact waits until later bytes complete it, and AEAD then rejects
\* the garbage.  The garbage's random nonce is admitted to the filter
\* first; that extra entry is left out, since this reader stops anyway.  A
\* record that passes every check advances expectedSeq and is returned.
\* Every caller (Conn.Read, PacketConn.ReadFrom, the listener's UDP loop)
\* stops on an error or a replay action.
ReadFrame(d) ==
    /\ reader[d] = "open"
    /\ wire[d] # <<>>
    /\ LET item == Head(wire[d])
       IN  IF item = Cut
             THEN /\ Len(wire[d]) > 1
                  /\ wire' = [wire EXCEPT ![d] = Tail(Tail(@))]
                  /\ reader' = [reader EXCEPT ![d] = "aead"]
                  /\ UNCHANGED <<rseq, delivered, filter>>
             ELSE LET chk == ReplayCheck(d, item)
                      v   == Verdict(d, item, chk.present)
                  IN  /\ wire' = [wire EXCEPT ![d] = Tail(@)]
                      /\ filter' = chk.filter
                      /\ reader' = [reader EXCEPT ![d] = v]
                      /\ IF v = "open"
                           THEN /\ rseq' = [rseq EXCEPT ![d] = @ + 1]
                                /\ delivered' = [delivered EXCEPT
                                                   ![d] = Append(@, item.pay)]
                           ELSE UNCHANGED <<rseq, delivered>>
    /\ UNCHANGED <<now, wseq, todo, sentRecs, broken, dirty, tampers>>

-----------------------------------------------------------------------------
(* The on-path adversary and the clock *)

\* Positions of whole records on the wire of d.
Records(d) == {i \in 1..Len(wire[d]) : wire[d][i] # Cut}

Tamper(d, w) ==
    /\ tampers < MaxTamper
    /\ wire' = [wire EXCEPT ![d] = w]
    /\ tampers' = tampers + 1
    /\ dirty' = dirty \cup {d}
    /\ UNCHANGED <<now, wseq, rseq, todo, reader, sentRecs, delivered, broken,
                   filter>>

Drop(d, i) == Tamper(d, RemoveAt(wire[d], i))

Duplicate(d, i) == Tamper(d, InsertAt(wire[d], i + 1, wire[d][i]))

Swap(d, i) ==
    /\ i + 1 \in Records(d)
    /\ Tamper(d, [wire[d] EXCEPT ![i] = wire[d][i + 1], ![i + 1] = wire[d][i]])

Corrupt(d, i) == Tamper(d, [wire[d] EXCEPT ![i].intact = FALSE])

Tick ==
    /\ now < LastWindow
    /\ now' = now + 1
    /\ UNCHANGED <<wseq, rseq, todo, wire, reader, sentRecs, delivered,
                   broken, dirty, tampers, filter>>

Next ==
    \/ \E d \in Dirs :
          \/ \E n \in 1..MaxSegments : WriteFrames(d, n)
          \/ WriteRecord(d)
          \/ WriteFails(d)
          \/ ReadFrame(d)
          \/ \E i \in Records(d) :
                Drop(d, i) \/ Duplicate(d, i) \/ Swap(d, i) \/ Corrupt(d, i)
    \/ Tick

\* The reader's caller keeps calling ReadFrame while the connection is open
\* (the relay loop of the listener and of the outbound adapter).
Spec == Init /\ [][Next]_vars /\ \A d \in Dirs : WF_vars(ReadFrame(d))

-----------------------------------------------------------------------------
(* Properties *)

\* Type of every variable; in particular writeFrame's limit keeps every
\* outboundSeq within 0..MaxSessionFrames.
TypeOK ==
    /\ now \in FirstWindow..LastWindow
    /\ wseq \in [Dirs -> 0..MaxSessionFrames]
    /\ rseq \in [Dirs -> 0..MaxSessionFrames]
    /\ todo \in [Dirs -> 0..MaxSegments]
    /\ \A d \in Dirs : \A i \in 1..Len(wire[d]) : wire[d][i] \in Record \cup {Cut}
    /\ reader \in [Dirs -> ReaderStates]
    /\ broken \subseteq dirty /\ dirty \subseteq Dirs
    /\ tampers \in 0..MaxTamper

StreamC2S == INSTANCE RecordStream
                 WITH sent <- sentRecs["c2s"], delivered <- delivered["c2s"],
                      open <- reader["c2s"] = "open",
                      Payloads <- 1..MaxSessionFrames + 1

StreamS2C == INSTANCE RecordStream
                 WITH sent <- sentRecs["s2c"], delivered <- delivered["s2c"],
                      open <- reader["s2c"] = "open",
                      Payloads <- 1..MaxSessionFrames + 1

\* Whatever the adversary does to the stream and however the writer fails,
\* each direction behaves as RecordStream: ReadFrame returns the next record
\* the writer wrote, each once and in order, or stops for good (spec S6).
ImplementsRecordStream == StreamC2S!Spec /\ StreamS2C!Spec

\* A direction nobody tampered with and no writeAll cut short is read in
\* full: the sequence roles the two handshakes give (ClientSession,
\* ServerSession) line up, and no genuine record trips the replay filter.
CleanStreamDelivered ==
    \A d \in Dirs : <>[](d \notin dirty => delivered[d] = sentRecs[d])
=============================================================================
