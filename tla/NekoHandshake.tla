---------------------------- MODULE NekoHandshake ---------------------------
(***************************************************************************)
(* Handshake admission on a NEKO inbound (src/transport/neko/             *)
(* handshake.go, frames.go readFrame).  The inbound opens one listener    *)
(* per address of its listen list (listener/inbound/neko.go Listen), and  *)
(* each listener's New builds its own ReplayFilter (replay.go), shared by *)
(* all connections and all sessions of that listener.                     *)
(*                                                                         *)
(* Time is the server's window id `now`.  A client whose clock is Skew[c] *)
(* windows off the server's seals its one handshake record with the keys  *)
(* of its own window.  Every handshake record on the wire is captured by  *)
(* an attacker, who may open further connections and send it again.  The  *)
(* server scans the candidate windows now-Span..now+Span; AEAD opens a     *)
(* record only under the key of the window it was sealed in (a record is  *)
(* identified by its nonce; forging is out of the attacker's reach).       *)
(* Each accepted genuine session then reads data records, and readFrame   *)
(* checks every record's fresh nonce against the same filter.             *)
(***************************************************************************)
EXTENDS Integers, FiniteSets

CONSTANTS
    Clients,      \* client dials, each sending one handshake record
    Skew,         \* Skew[c]: client c's clock minus the server's, in windows
    Conns,        \* accepted TCP connections (1..N)
    Listeners,    \* the addresses of the inbound's listen list
    ListenerOf,   \* ListenerOf[k]: the listener that accepted connection k
    Span,         \* HandshakeCandidateSpan
    FirstWindow,  \* the server's window id when the model starts
    LastWindow,   \* the server's window id when the model stops ticking
    MaxSessionFrames,  \* writeFrame refuses seq >= MaxSessionFrames (2^30)
    Capacity, NumWindows, NoKey   \* the ReplayFilter's

ASSUME Span \in Nat \ {0} /\ MaxSessionFrames \in Nat \ {0}
ASSUME Conns \subseteq Nat \ {0}
ASSUME ListenerOf \in [Conns -> Listeners]

\* Every window id that reaches the filter.
WindowIds == (FirstWindow - Span - 2)..(LastWindow + Span + 2)

\* Real nonces: <<0, c>> for client c's handshake, <<k, s>> for the data
\* record with sequence number s on connection k.
Nonces == ({0} \X Clients) \cup (Conns \X (0..MaxSessionFrames))

VARIABLES
    now,       \* time.Now().Unix() / windowSize on the server
    conn,      \* per accepted connection: handshake progress
    dialed,    \* clients that have run ClientHandshake
    captured,  \* handshake records seen on the wire
    filter     \* filter[l]: listener l's cfg.ReplayFilter (its windows)

vars == <<now, conn, dialed, captured, filter>>

RF == INSTANCE ReplayFilter WITH windows <- filter, result <- NoKey

\* NEKO.Listen: one neko.New per address, each with a fresh filter.
Filters == [l \in Listeners |-> RF!InitFilter]


Record == [nonce : {0} \X Clients, win : WindowIds]

NoRecord == [nonce |-> <<0, 0>>, win |-> 0]

Phases == {"idle", "sent", "buffering", "session", "failed", "closed"}

FreshConn == [phase |-> "idle", rec |-> NoRecord, genuine |-> FALSE,
              startWin |-> 0, covered |-> FALSE, seq |-> 1]

\* timeCandidates: the window ids now-Span .. now+Span, scanned in order.
Candidates(w) == (w - Span)..(w + Span)

\* AEAD open of a record with the handshake cipher of window w succeeds
\* only when w is the window it was sealed in (attemptHandshake 175-216).
Opens(rec, w) == rec.win = w

Init ==
    /\ now = FirstWindow
    /\ conn = [k \in Conns |-> FreshConn]
    /\ dialed = {}
    /\ captured = {}
    /\ filter = Filters

\* ClientHandshake: derive the parameters of the client's own window,
\* write one handshake record (seq 0, fresh salt and nonce) on a new
\* connection.  The record is visible on the wire.
ClientHandshake(c, k) ==
    /\ c \notin dialed
    /\ conn[k].phase = "idle"
    /\ LET rec == [nonce |-> <<0, c>>, win |-> now + Skew[c]]
       IN  /\ conn' = [conn EXCEPT ![k] = [FreshConn EXCEPT !.phase = "sent",
                                             !.rec = rec, !.genuine = TRUE]]
           /\ captured' = captured \cup {rec}
    /\ dialed' = dialed \cup {c}
    /\ UNCHANGED <<now, filter>>

\* The attacker opens a connection and sends a captured record verbatim.
ReplayHandshake(k) ==
    /\ conn[k].phase = "idle"
    /\ \E rec \in captured :
         conn' = [conn EXCEPT ![k] = [FreshConn EXCEPT !.phase = "sent",
                                       !.rec = rec]]
    /\ UNCHANGED <<now, dialed, captured, filter>>

\* ServerHandshake up to the end of pre-buffering: the peek length is the
\* longest handshake layout among the candidates of the current window, so
\* the buffer holds the whole record if it was sealed in one of them;
\* otherwise it depends on the PSK-derived layout lengths and on whether
\* more data followed, and either outcome is possible.
BeginHandshake(k) ==
    /\ conn[k].phase = "sent"
    /\ \E covered \in IF conn[k].rec.win \in Candidates(now) THEN {TRUE}
                      ELSE BOOLEAN :
         conn' = [conn EXCEPT ![k].phase = "buffering",
                              ![k].startWin = now,
                              ![k].covered = covered]
    /\ UNCHANGED <<now, dialed, captured, filter>>

\* Mutation: a filter hit is not treated as a failed candidate.
FinishHandshakeIgnoresHit(k) ==
    /\ conn[k].phase = "buffering"
    /\ LET rec == conn[k].rec
           r   == RF!CheckAndSetOp(filter[ListenerOf[k]], rec.win, rec.nonce)
       IN  IF \E c \in Candidates(now) : Opens(rec, c) /\ conn[k].covered
           THEN /\ filter' = [filter EXCEPT ![ListenerOf[k]] = r.filter]
                /\ conn' = [conn EXCEPT ![k].phase = "session"]
           ELSE /\ conn' = [conn EXCEPT ![k].phase = "failed"]
                /\ UNCHANGED filter
    /\ UNCHANGED <<now, dialed, captured>>

\* After pre-buffering: recompute the candidates from a fresh time.Now()
\* and try each one; the record opens under at most one candidate, and
\* only then is (window id, nonce) checked and set in the filter.  A hit
\* makes that candidate fail; with no candidate left the handshake fails.
FinishHandshake(k) ==
    /\ conn[k].phase = "buffering"
    /\ LET rec == conn[k].rec
           w   == rec.win
           r   == RF!CheckAndSetOp(filter[ListenerOf[k]], w, rec.nonce)
       IN  IF \E c \in Candidates(now) : Opens(rec, c) /\ conn[k].covered
           THEN /\ filter' = [filter EXCEPT ![ListenerOf[k]] = r.filter]
                /\ conn' = [conn EXCEPT ![k].phase =
                              IF r.present THEN "failed" ELSE "session"]
           ELSE /\ conn' = [conn EXCEPT ![k].phase = "failed"]
                /\ UNCHANGED filter
    /\ UNCHANGED <<now, dialed, captured>>

\* Mutation: the frame limit checked with > instead of >=.
CanSendPastLimit(k) == conn[k].seq <= MaxSessionFrames

\* writeFrame: the client's outbound seq (1 after the handshake) must stay
\* below MaxSessionFrames.
CanSend(k) == conn[k].seq < MaxSessionFrames

\* One data record of the genuine client: writeFrame sends it with the
\* client's next seq, and the server's Session.ReadFrame checks and sets
\* (current window id, real nonce) in the shared filter before AEAD; a hit
\* ends the session with a replay action.
DataRecord(k) ==
    /\ conn[k].phase = "session"
    /\ conn[k].genuine
    /\ CanSend(k)
    /\ LET r == RF!CheckAndSetOp(filter[ListenerOf[k]], now, <<k, conn[k].seq>>)
       IN  /\ filter' = [filter EXCEPT ![ListenerOf[k]] = r.filter]
           /\ conn' = [conn EXCEPT ![k].seq = @ + 1,
                                   ![k].phase = IF r.present THEN "closed"
                                                ELSE @]
    /\ UNCHANGED <<now, dialed, captured>>

\* The server clock moves to the next window.  The pre-buffer wait is
\* 2000 ms, shorter than a window, so a handshake sees at most one
\* boundary while it waits.
Tick ==
    /\ now < LastWindow
    /\ \A k \in Conns : conn[k].phase = "buffering" => conn[k].startWin = now
    /\ now' = now + 1
    /\ UNCHANGED <<conn, dialed, captured, filter>>

Next ==
    \/ \E c \in Clients, k \in Conns : ClientHandshake(c, k)
    \/ \E k \in Conns :
         \/ ReplayHandshake(k)
         \/ BeginHandshake(k)
         \/ FinishHandshake(k)
         \/ DataRecord(k)
    \/ Tick

Spec == Init /\ [][Next]_vars

-----------------------------------------------------------------------------
TypeOK ==
    /\ now \in FirstWindow..LastWindow
    /\ dialed \subseteq Clients
    /\ captured \subseteq Record
    /\ \A k \in Conns :
         /\ conn[k].phase \in Phases
         /\ conn[k].seq \in 1..MaxSessionFrames
    /\ DOMAIN filter = Listeners
    /\ \A l \in Listeners : \A b \in DOMAIN filter[l] :
         /\ filter[l][b].count \in 0..Capacity
         /\ filter[l][b].head \in 0..Capacity-1

\* Replay protection of handshakes (spec.md 3, invariant 4; scenario S3):
\* a handshake record captured on the wire and sent again on other
\* connections of the same listener yields a session on at most one of
\* them, however the replays, the window ticks and the other sessions'
\* data records that share the filter are interleaved.  (The filter is
\* per listener, spec.md 9; a copy sent to another address of the same
\* inbound meets another filter.)
HandshakeAcceptedOnce ==
    \A k1, k2 \in Conns :
        /\ k1 # k2
        /\ ListenerOf[k1] = ListenerOf[k2]
        /\ conn[k1].phase \in {"session", "closed"}
        /\ conn[k2].phase \in {"session", "closed"}
        => conn[k1].rec.nonce # conn[k2].rec.nonce

\* Clock-skew tolerance (spec.md scenario S4): a genuine client whose
\* window is within Span of the server's window when its connection is
\* taken up gets a session, unless an earlier copy of the same record was
\* already accepted on another connection.
GenuineHandshakeAccepted ==
    \A k \in Conns :
        (conn[k].genuine /\ conn[k].phase = "failed"
         /\ conn[k].rec.win \in Candidates(conn[k].startWin))
        => \E k2 \in Conns \ {k} :
              /\ conn[k2].phase \in {"session", "closed"}
              /\ conn[k2].rec = conn[k].rec
=============================================================================
