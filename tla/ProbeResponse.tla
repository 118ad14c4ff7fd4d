---------------------------- MODULE ProbeResponse ---------------------------
(***************************************************************************)
(* The listener's answer to a connection that does not authenticate       *)
(* (src/listener/neko/server.go handleConn, src/transport/neko/            *)
(* fallback.go).  A source missing from a non-empty whitelist goes to     *)
(* SilentFallback without a handshake; a failed ServerHandshake picks     *)
(* blackhole, fallback or close (PickProbeResponse).                       *)
(*                                                                         *)
(* The connection is the first one an accept loop (New's goroutine) of  *)
(* the inbound's listeners hands to handleConn.  The listeners' life,      *)
(* NEKO.Listen and Close over several addresses, is NekoInbound, composed *)
(* here: an accepted connection is the step the two share.               *)
(*                                                                         *)
(* The prober may send bytes at any time and may close its side; nothing  *)
(* obliges it to do either.  `elapsed` counts whole seconds since the      *)
(* blackhole started; the fallback's deadlines (3-9 s) only decide when   *)
(* a read times out, so its timeouts carry no clock.                       *)
(***************************************************************************)
EXTENDS Naturals

CONSTANTS
    BlackholeSecs,      \* silentBlackholeConn's duration (20 s)
    BlackholePollSecs,  \* its per-read deadline (2 s)
    Addresses, MaxListens, MaxAccepts, MaxAcceptErrors  \* NekoInbound's

ASSUME BlackholeSecs \in Nat \ {0} /\ BlackholePollSecs \in Nat \ {0}

\* l.fallbackCfg.Whitelist: empty, or listing the source, or not listing it.
WhitelistCases == {"empty", "listed", "unlisted"}

\* PickProbeResponse's outcomes (the 50/40/10 roll is nondeterminism).
Responses == {"blackhole", "fallback", "close"}

VARIABLES
    whitelist,  \* which WhitelistCases this source falls in
    pc,         \* accept, handshake, blackhole, fallback or returned
    reading,    \* a conn.Read is outstanding
    elapsed,    \* seconds since silentBlackholeConn's start
    deadline,   \* the outstanding blackhole read times out at this elapsed
    pending,    \* the prober's bytes wait in the socket
    peer,       \* "open", or "closed" once the prober closed its side
    closed,     \* the server closed the socket
    noise,      \* the fallback has written noise
    cfgErr, sock, lclosed, acceptor, listeners, listens, closing, flagged,
    lastCall, accepted, acceptErrors   \* NekoInbound's

IB == INSTANCE NekoInbound

cvars == <<whitelist, pc, reading, elapsed, deadline, pending, peer, closed,
           noise>>

ivars == <<cfgErr, sock, lclosed, acceptor, listeners, listens, closing,
           flagged, lastCall, accepted, acceptErrors>>

vars == <<cvars, ivars>>

Init ==
    /\ whitelist \in WhitelistCases
    /\ pc = "listening"
    /\ reading = FALSE
    /\ elapsed = 0
    /\ deadline = 0
    /\ pending \in BOOLEAN
    /\ peer = "open"
    /\ closed = FALSE
    /\ noise = FALSE
    /\ IB!Init

-----------------------------------------------------------------------------
(* The server *)

\* handleConn's whitelist check.
Accept ==
    /\ pc = "accept"
    /\ pc' = IF whitelist = "unlisted" THEN "fallback" ELSE "handshake"
    /\ UNCHANGED <<whitelist, reading, elapsed, deadline, pending, peer,
                   closed, noise>>

HandshakeFailsNoReturn ==
    /\ pc = "handshake"
    /\ pending' = FALSE
    /\ \E r \in Responses : pc' = r /\ closed' = (r = "close")
    /\ UNCHANGED <<whitelist, reading, elapsed, deadline, peer, noise>>

\* ServerHandshake fails (its pre-buffer took what was sent), and handleConn
\* runs the response PickProbeResponse chose; CloseConn closes at once.
HandshakeFails ==
    /\ pc = "handshake"
    /\ pending' = FALSE
    /\ \E r \in Responses :
          /\ pc' = IF r = "close" THEN "returned" ELSE r
          /\ closed' = (r = "close")
    /\ UNCHANGED <<whitelist, reading, elapsed, deadline, peer, noise>>

BlackholePollRestarts ==
    /\ pc = "blackhole"
    /\ ~reading
    /\ reading' = TRUE
    /\ deadline' = BlackholePollSecs
    /\ elapsed' = 0
    /\ UNCHANGED <<whitelist, pc, pending, peer, closed, noise>>

BlackholePollAtLimit ==
    /\ pc = "blackhole"
    /\ ~reading
    /\ IF elapsed <= BlackholeSecs
         THEN /\ reading' = TRUE
              /\ deadline' = elapsed + BlackholePollSecs
              /\ UNCHANGED <<pc, closed>>
         ELSE /\ pc' = "returned"
              /\ closed' = TRUE
              /\ UNCHANGED <<reading, deadline>>
    /\ UNCHANGED <<whitelist, elapsed, pending, peer, noise>>

\* silentBlackholeConn's loop test: while less than the duration has
\* passed, read with a fresh deadline; then close.
BlackholePoll ==
    /\ pc = "blackhole"
    /\ ~reading
    /\ IF elapsed < BlackholeSecs
         THEN /\ reading' = TRUE
              /\ deadline' = elapsed + BlackholePollSecs
              /\ UNCHANGED <<pc, closed>>
         ELSE /\ pc' = "returned"
              /\ closed' = TRUE
              /\ UNCHANGED <<reading, deadline>>
    /\ UNCHANGED <<whitelist, elapsed, pending, peer, noise>>

\* The read returns the prober's bytes (discarded), or times out (the loop
\* continues), or fails with EOF once the prober closed (break, then close).
BlackholeRead ==
    /\ pc = "blackhole"
    /\ reading
    /\ reading' = FALSE
    /\ \/ pending /\ pending' = FALSE /\ UNCHANGED <<pc, closed>>
       \/ ~pending /\ peer = "closed" /\ pc' = "returned" /\ closed' = TRUE
          /\ UNCHANGED pending
       \/ ~pending /\ peer = "open" /\ elapsed >= deadline
          /\ UNCHANGED <<pending, pc, closed>>
    /\ UNCHANGED <<whitelist, elapsed, deadline, peer, noise>>

\* SilentFallback's loop: set a 3-9 s deadline and read.
FallbackPoll ==
    /\ pc = "fallback"
    /\ ~reading
    /\ reading' = TRUE
    /\ UNCHANGED <<whitelist, pc, elapsed, deadline, pending, peer, closed,
                   noise>>

FallbackReadOnlyTimeouts ==
    /\ pc = "fallback"
    /\ reading
    /\ reading' = FALSE
    /\ \/ pending /\ pending' = FALSE /\ UNCHANGED <<pc, noise>>
       \/ ~pending /\ noise' \in {noise, TRUE} /\ UNCHANGED <<pending, pc>>
    /\ UNCHANGED <<whitelist, elapsed, deadline, peer, closed>>

\* Bytes read: continue.  Timeout: write 1-8 bytes of noise one time in ten
\* and continue.  EOF or another error: return, leaving the socket open.
FallbackRead ==
    /\ pc = "fallback"
    /\ reading
    /\ reading' = FALSE
    /\ \/ pending /\ pending' = FALSE /\ UNCHANGED <<pc, noise>>
       \/ ~pending /\ peer = "closed" /\ pc' = "returned"
          /\ UNCHANGED <<pending, noise>>
       \/ ~pending /\ peer = "open" /\ noise' \in {noise, TRUE}
          /\ UNCHANGED <<pending, pc>>
    /\ UNCHANGED <<whitelist, elapsed, deadline, peer, closed>>

-----------------------------------------------------------------------------
(* The prober and the clock *)

ProberSends ==
    /\ peer = "open" /\ ~closed /\ ~pending
    /\ pending' = TRUE
    /\ UNCHANGED <<whitelist, pc, reading, elapsed, deadline, peer, closed,
                   noise>>

ProberCloses ==
    /\ peer = "open"
    /\ peer' = "closed"
    /\ UNCHANGED <<whitelist, pc, reading, elapsed, deadline, pending, closed,
                   noise>>

\* A second passes while a blackhole read is outstanding; the read's timer
\* fires at its deadline, so time does not pass it.
Tick ==
    /\ pc = "blackhole" /\ reading
    /\ elapsed < deadline
    /\ elapsed' = elapsed + 1
    /\ UNCHANGED <<whitelist, pc, reading, deadline, pending, peer, closed,
                   noise>>

-----------------------------------------------------------------------------
(* The composition *)

\* A listener's Accept returns a connection: go handleConn.  The first
\* one is the connection this module follows.
HandOff ==
    /\ \E s \in IB!Socks : IB!ListenerAccept(s)
    /\ pc' = IF pc = "listening" THEN "accept" ELSE pc
    /\ UNCHANGED <<whitelist, reading, elapsed, deadline, pending, peer,
                   closed, noise>>

Server == Accept \/ HandshakeFails \/ BlackholePoll \/ BlackholeRead
            \/ FallbackPoll \/ FallbackRead

\* The connection's steps leave the listeners alone, and theirs the
\* connection.
Connection == (Server \/ ProberSends \/ ProberCloses \/ Tick) /\ UNCHANGED ivars

Listeners == IB!Lifecycle /\ UNCHANGED cvars

Next == Connection \/ Listeners \/ HandOff

\* The handler goroutine keeps running (weak fairness of its steps).  Time
\* passes however often the prober's bytes end a read early: strong
\* fairness of Tick.  The accept goroutines keep running, Accept on a
\* closed listener returns, and a Close call that started completes
\* (NekoInbound's fairness, each step leaving the connection alone).
\* The prober, arriving clients, transient errors and the caller of
\* Listen and Close owe nothing.
Spec == /\ Init /\ [][Next]_vars
        /\ WF_vars(Server /\ UNCHANGED ivars)
        /\ SF_vars(Tick /\ UNCHANGED ivars)
        /\ \A s \in IB!Socks :
              /\ WF_vars(IB!AcceptReturnsError(s) /\ UNCHANGED cvars)
              /\ WF_vars(IB!AcceptCheckClosed(s) /\ UNCHANGED cvars)
        /\ WF_vars(IB!CloseSetsFlag /\ UNCHANGED cvars)
        /\ WF_vars(IB!CloseListener /\ UNCHANGED cvars)

-----------------------------------------------------------------------------
(* Properties *)

TypeOK ==
    /\ whitelist \in WhitelistCases
    /\ pc \in ({"listening", "accept", "handshake", "returned"} \cup Responses)
              \ {"close"}
    /\ reading \in BOOLEAN /\ pending \in BOOLEAN
    /\ elapsed \in Nat /\ deadline \in Nat
    /\ peer \in {"open", "closed"}
    /\ closed \in BOOLEAN /\ noise \in BOOLEAN
    /\ IB!TypeOK

\* A blackholed prober never holds the connection for the blackhole's
\* duration plus one read deadline: the 20 s loop test and the 2 s read
\* deadline bound silentBlackholeConn however the prober sends.
BlackholeClosedInTime ==
    pc = "blackhole" => elapsed < BlackholeSecs + BlackholePollSecs

\* Every connection answered with the blackhole is closed by the server,
\* whether the prober stays silent, keeps sending or hangs up.
BlackholeEventuallyClosed ==
    pc = "blackhole" ~> closed

\* A prober answered with SilentFallback, by the whitelist or after a
\* failed handshake, is let go once it hangs up: the fallback loop ends
\* at EOF, whatever the prober sent before, and only timeouts keep it
\* reading (spec.md 4.7, "on any non-timeout error or EOF return").
FallbackEndsWhenProberLeaves ==
    (pc = "fallback" /\ peer = "closed") ~> pc = "returned"

\* Once NEKO.Close has returned, and no Listen came after it, no socket a
\* Listen call bound is open (NekoInbound), with connections being
\* accepted and handled meanwhile.
NoLeakAfterClose == IB!NoLeakAfterClose

\* Every accept goroutine of a listener NEKO.Close closed exits
\* (NekoInbound), with the connection's steps interleaved.
AcceptLoopsExit == IB!AcceptLoopsExit
=============================================================================
