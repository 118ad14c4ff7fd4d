----------------------------- MODULE NekoInbound ----------------------------
(***************************************************************************)
(* The life of a NEKO inbound's listeners (src/listener/inbound/neko.go   *)
(* Listen and Close, src/listener/neko/server.go New, its accept loop and *)
(* Listener.Close).                                                        *)
(*                                                                         *)
(* Listen splits the inbound's address on "," and calls neko.New for each *)
(* address in turn.  New binds the address, then checks the PSK, the      *)
(* cipher and the fallback destination, closing the socket on an error;  *)
(* on success it starts an accept goroutine and Listen appends the        *)
(* listener to s.listeners.  An address whose bind fails is skipped and  *)
(* Listen returns the joined errors.  NEKO.Close calls Listener.Close on  *)
(* every listener in s.listeners, collecting errors, and never empties    *)
(* the list.  The caller may call Listen and Close again; nothing in the  *)
(* inbound forbids it.                                                    *)
(*                                                                         *)
(* A socket is named by the Listen call that bound it and its address.   *)
(* Listen runs as one step: the accept goroutines it starts only touch    *)
(* their own socket, so their steps commute with the rest of its loop.   *)
(***************************************************************************)
EXTENDS Naturals, Sequences, SequencesExt

CONSTANTS
    Addresses,        \* RawAddress split on ",", in order
    MaxListens,       \* Listen calls the caller makes
    MaxAccepts,       \* connections the listeners accept in all
    MaxAcceptErrors   \* transient Accept errors (EMFILE and the like)

\* Listen call r's listener for address a.
Socks == (1..MaxListens) \X Range(Addresses)

VARIABLES
    cfgErr,      \* New's checks after the bind fail (PSK, cipher, fallback)
    sock,        \* sock[s]: "none" (not bound), "open" or "closed"
    lclosed,     \* lclosed[s]: Listener.closed, a plain bool
    acceptor,    \* acceptor[s]: the accept goroutine: none, accepting,
                 \* failed (Accept erred) or exited
    listeners,   \* s.listeners
    listens,     \* Listen calls so far
    closing,     \* NEKO.Close's loop: 0 when idle, else the index in
                 \* s.listeners of the Listener.Close it is in
    flagged,     \* that Listener.Close has set l.closed
    lastCall,    \* the caller's last returned call: none, listen or close
    accepted,    \* connections accepted
    acceptErrors \* transient Accept errors so far

ivars == <<cfgErr, sock, lclosed, acceptor, listeners, listens, closing,
           flagged, lastCall, accepted, acceptErrors>>

\* NewNEKO builds the server config; no address is bound yet.  Whether
\* New's later checks reject that config is fixed with it.
Init ==
    /\ cfgErr \in BOOLEAN
    /\ sock = [s \in Socks |-> "none"]
    /\ lclosed = [s \in Socks |-> FALSE]
    /\ acceptor = [s \in Socks |-> "none"]
    /\ listeners = <<>>
    /\ listens = 0
    /\ closing = 0
    /\ flagged = FALSE
    /\ lastCall = "none"
    /\ accepted = 0
    /\ acceptErrors = 0

\* An address some earlier listener still holds cannot be bound again.
InUse(a) == \E s \in Socks : s[2] = a /\ sock[s] = "open"

\* neko.New for address a in Listen call r: the bind fails (the address
\* in use, or another error), or it succeeds and New's checks close the
\* socket again, or New starts the accept loop.  The value is the new
\* socket state.
NewListener(a, bindFails) ==
    IF bindFails \/ InUse(a) THEN "none"
    ELSE IF cfgErr THEN "closed"
    ELSE "open"

\* NEKO.Listen: one New per address, in order; the listeners that came up
\* are appended (those of earlier calls stay), the rest are errors.
Listen ==
    /\ closing = 0
    /\ listens < MaxListens
    /\ \E fails \in SUBSET Range(Addresses) :
         LET r == listens + 1
             st == [a \in Range(Addresses) |-> NewListener(a, a \in fails)]
             Up(a) == st[a] = "open"
             up == SelectSeq(Addresses, Up)
         IN  /\ sock' = [s \in Socks |-> IF s[1] = r THEN st[s[2]] ELSE sock[s]]
             /\ acceptor' = [s \in Socks |->
                               IF s[1] = r /\ st[s[2]] = "open"
                               THEN "accepting" ELSE acceptor[s]]
             /\ listeners' = listeners \o [i \in 1..Len(up) |-> <<r, up[i]>>]
    /\ listens' = listens + 1
    /\ lastCall' = "listen"
    /\ UNCHANGED <<cfgErr, lclosed, closing, flagged, accepted, acceptErrors>>

\* NEKO.Close starts its loop over s.listeners (with none it returns).
StartClose ==
    /\ closing = 0
    /\ IF listeners = <<>>
         THEN /\ lastCall' = "close" /\ UNCHANGED closing
         ELSE /\ closing' = 1 /\ UNCHANGED lastCall
    /\ UNCHANGED <<cfgErr, sock, lclosed, acceptor, listeners, listens,
                   flagged, accepted, acceptErrors>>

\* Mutation: Listener.Close does not set l.closed.
CloseSkipsFlag ==
    /\ closing > 0 /\ ~flagged
    /\ flagged' = TRUE
    /\ UNCHANGED <<cfgErr, sock, lclosed, acceptor, listeners, listens, closing,
                   lastCall, accepted, acceptErrors>>

\* Listener.Close, first half: l.closed = true.
CloseSetsFlag ==
    /\ closing > 0 /\ ~flagged
    /\ lclosed' = [lclosed EXCEPT ![listeners[closing]] = TRUE]
    /\ flagged' = TRUE
    /\ UNCHANGED <<cfgErr, sock, acceptor, listeners, listens, closing,
                   lastCall, accepted, acceptErrors>>

\* The loop after Listener.Close returned: on to the next listener, or
\* return once all were closed.
NextListener ==
    /\ closing' = IF closing < Len(listeners) THEN closing + 1 ELSE 0
    /\ lastCall' = IF closing < Len(listeners) THEN lastCall ELSE "close"

\* Mutation: NEKO.Close returns at the first error.
CloseListenerStopsAtError ==
    /\ closing > 0 /\ flagged
    /\ LET s == listeners[closing]
       IN  /\ sock' = [sock EXCEPT ![s] = "closed"]
           /\ IF sock[s] = "closed"
                THEN closing' = 0 /\ lastCall' = "close"
                ELSE NextListener
    /\ flagged' = FALSE
    /\ UNCHANGED <<cfgErr, lclosed, acceptor, listeners, listens, accepted,
                   acceptErrors>>

\* Listener.Close, second half: l.listener.Close(); on a listener an
\* earlier Close already closed it returns an error, which NEKO.Close
\* collects and goes on.
CloseListener ==
    /\ closing > 0 /\ flagged
    /\ sock' = [sock EXCEPT ![listeners[closing]] = "closed"]
    /\ NextListener
    /\ flagged' = FALSE
    /\ UNCHANGED <<cfgErr, lclosed, acceptor, listeners, listens, accepted,
                   acceptErrors>>

\* l.Accept() returns a connection: go handleConn.
ListenerAccept(s) ==
    /\ acceptor[s] = "accepting"
    /\ sock[s] = "open"
    /\ accepted < MaxAccepts
    /\ accepted' = accepted + 1
    /\ UNCHANGED <<cfgErr, sock, lclosed, acceptor, listeners, listens,
                   closing, flagged, lastCall, acceptErrors>>

\* l.Accept() on a closed listener returns an error at once.
AcceptReturnsError(s) ==
    /\ acceptor[s] = "accepting"
    /\ sock[s] = "closed"
    /\ acceptor' = [acceptor EXCEPT ![s] = "failed"]
    /\ UNCHANGED <<cfgErr, sock, lclosed, listeners, listens, closing,
                   flagged, lastCall, accepted, acceptErrors>>

\* l.Accept() fails on an open listener.
AcceptTransientError(s) ==
    /\ acceptor[s] = "accepting"
    /\ sock[s] = "open"
    /\ acceptErrors < MaxAcceptErrors
    /\ acceptErrors' = acceptErrors + 1
    /\ acceptor' = [acceptor EXCEPT ![s] = "failed"]
    /\ UNCHANGED <<cfgErr, sock, lclosed, listeners, listens, closing,
                   flagged, lastCall, accepted>>

\* After an error the loop breaks if sl.closed is set, else continues.
AcceptCheckClosed(s) ==
    /\ acceptor[s] = "failed"
    /\ acceptor' = [acceptor EXCEPT ![s] = IF lclosed[s] THEN "exited"
                                                          ELSE "accepting"]
    /\ UNCHANGED <<cfgErr, sock, lclosed, listeners, listens, closing,
                   flagged, lastCall, accepted, acceptErrors>>

\* Every step but an accepted connection.
Lifecycle ==
    \/ Listen \/ StartClose \/ CloseSetsFlag \/ CloseListener
    \/ \E s \in Socks : \/ AcceptReturnsError(s)
                        \/ AcceptTransientError(s)
                        \/ AcceptCheckClosed(s)

Next == Lifecycle \/ \E s \in Socks : ListenerAccept(s)

\* The accept goroutines keep running, Accept on a closed listener
\* returns, and a Close call that started completes; the caller, the
\* clients and transient errors owe nothing.
Fairness ==
    /\ \A s \in Socks : WF_ivars(AcceptReturnsError(s))
                      /\ WF_ivars(AcceptCheckClosed(s))
    /\ WF_ivars(CloseSetsFlag) /\ WF_ivars(CloseListener)

Spec == Init /\ [][Next]_ivars /\ Fairness

-----------------------------------------------------------------------------
(* Properties *)

TypeOK ==
    /\ cfgErr \in BOOLEAN
    /\ sock \in [Socks -> {"none", "open", "closed"}]
    /\ lclosed \in [Socks -> BOOLEAN]
    /\ acceptor \in [Socks -> {"none", "accepting", "failed", "exited"}]
    /\ listeners \in Seq(Socks)
    /\ listens \in 0..MaxListens
    /\ closing \in 0..Len(listeners) /\ flagged \in BOOLEAN
    /\ lastCall \in {"none", "listen", "close"}
    /\ accepted \in 0..MaxAccepts /\ acceptErrors \in 0..MaxAcceptErrors

\* Once NEKO.Close has returned, and the caller has not called Listen
\* since, no socket any Listen call bound is still open: New closes the
\* sockets it rejects, Listen keeps every one it does not, and Close
\* goes on past the errors of listeners an earlier Close closed, however
\* Listen and Close calls and partial bind failures followed each other.
NoLeakAfterClose ==
    (lastCall = "close") => \A s \in Socks : sock[s] # "open"

\* Once NEKO.Close has closed a listener, its accept goroutine exits: the
\* flag is set before the socket is closed, so the error the closed
\* socket returns always finds it, whether Close came before, during or
\* after an Accept that failed for another reason.
AcceptLoopsExit ==
    \A s \in Socks :
        (s \in Range(listeners) /\ sock[s] = "closed") ~> acceptor[s] = "exited"
=============================================================================
