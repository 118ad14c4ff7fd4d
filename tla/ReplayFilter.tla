---------------------------- MODULE ReplayFilter ----------------------------
(***************************************************************************)
(* ReplayFilter of src/transport/neko/replay.go: NumWindows slots, each a  *)
(* map of admitted keys plus a fixed ring of Capacity keys that evicts     *)
(* the oldest key once the slot is full, all behind one mutex (so each     *)
(* CheckAndSet is one atomic step).                                        *)
(*                                                                         *)
(* hashReplayKey truncates BLAKE3(window id || nonce) to 64 bits; the      *)
(* model takes the key to be the pair itself, i.e. it assumes no two       *)
(* (window id, nonce) pairs collide in 64 bits.                            *)
(*                                                                         *)
(* The operators on an explicit filter value (CheckAndSetOp) are what the  *)
(* handshake and session modules use on their own copy of the filter.      *)
(***************************************************************************)
EXTENDS Integers, Sequences

CONSTANTS
    Capacity,     \* ReplayFilter.capacity (replay-capacity)
    NumWindows,   \* len(ReplayFilter.windows) (replay-windows)
    WindowIds,    \* window ids CheckAndSet is called with
    Nonces,       \* real nonces CheckAndSet is called with
    NoKey         \* an unused ring cell

ASSUME Capacity \in Nat \ {0} /\ NumWindows \in Nat \ {0}
\* A slot starts with id 0 and a nil ring: a call with window id 0 would
\* match that id and index the nil ring.  Unix time / window size is far
\* from 0, so window id 0 never reaches the filter.
ASSUME 0 \notin WindowIds

VARIABLES
    windows,  \* ReplayFilter.windows
    result    \* arguments and return value of the last CheckAndSet

vars == <<windows, result>>

Ring == 0..Capacity-1

\* hashReplayKey(windowID, nonce)
hashReplayKey(w, n) == <<w, n>>

\* The zero value of replayWindow.
ZeroWindow == [id |-> 0, entries |-> {}, ring |-> [i \in Ring |-> NoKey],
               head |-> 0, count |-> 0]

\* Go's %, which truncates towards zero.
GoRem(a, b) == IF a >= 0 THEN a % b ELSE -((-a) % b)

\* idx := int(windowID % len(windows)); if idx < 0 { idx = -idx }
SlotIdx(w) == IF GoRem(w, NumWindows) < 0 THEN -GoRem(w, NumWindows)
              ELSE GoRem(w, NumWindows)

\* A slot holding another id is re-made for w.
Repurpose(win, w) ==
    IF win.id # w
    THEN [id |-> w, entries |-> {}, ring |-> [i \in Ring |-> NoKey],
          head |-> 0, count |-> 0]
    ELSE win

\* Mutation: the evicted key stays in the map (delete forgotten).
AdmitKeepsEvicted(win, k) ==
    [win EXCEPT !.entries = @ \cup {k},
                !.ring[win.head] = k,
                !.head = IF @ + 1 >= Capacity THEN 0 ELSE @ + 1,
                !.count = IF @ >= Capacity THEN @ ELSE @ + 1]

\* Mutation: count keeps growing once the slot is full.
AdmitCountsPastFull(win, k) ==
    LET full    == win.count >= Capacity
        evicted == IF full THEN {win.ring[win.head]} ELSE {}
    IN  [win EXCEPT !.entries = (@ \ evicted) \cup {k},
                    !.ring[win.head] = k,
                    !.head = IF @ + 1 >= Capacity THEN 0 ELSE @ + 1,
                    !.count = @ + 1]

\* Admit key k: evict ring[head] when full, else count++; write the ring
\* cell, advance head with wrap-around, insert into the map.
Admit(win, k) ==
    LET full    == win.count >= Capacity
        evicted == IF full THEN {win.ring[win.head]} ELSE {}
    IN  [win EXCEPT !.entries = (@ \ evicted) \cup {k},
                    !.ring[win.head] = k,
                    !.head = IF @ + 1 >= Capacity THEN 0 ELSE @ + 1,
                    !.count = IF full THEN @ ELSE @ + 1]

\* CheckAndSet on filter value ws: the new filter and the return value.
CheckAndSetOp(ws, w, n) ==
    LET b   == SlotIdx(w)
        win == Repurpose(ws[b], w)
        k   == hashReplayKey(w, n)
    IN  IF k \in win.entries
        THEN [filter |-> [ws EXCEPT ![b] = win], present |-> TRUE]
        ELSE [filter |-> [ws EXCEPT ![b] = Admit(win, k)], present |-> FALSE]

\* NewReplayFilter(capacity, windows) with positive arguments.
InitFilter == [b \in 0..NumWindows-1 |-> ZeroWindow]

Init ==
    /\ windows = InitFilter
    /\ result = [call |-> <<>>, present |-> FALSE]

CheckAndSet(w, n) ==
    LET r == CheckAndSetOp(windows, w, n)
    IN  /\ windows' = r.filter
        /\ result' = [call |-> <<w, n>>, present |-> r.present]

Next == \E w \in WindowIds, n \in Nonces : CheckAndSet(w, n)

Spec == Init /\ [][Next]_vars

-----------------------------------------------------------------------------
TypeOK ==
    /\ result.present \in BOOLEAN
    /\ \A b \in DOMAIN windows :
        /\ windows[b].head \in Ring
        /\ windows[b].count \in 0..Capacity
        /\ windows[b].ring \in [Ring -> {NoKey} \cup
                                 {hashReplayKey(w, n) : w \in WindowIds, n \in Nonces}]

\* The keys a slot remembers, oldest first, read off the ring.
RingOrder(win) ==
    IF win.count < Capacity
    THEN [i \in 1..win.count |-> win.ring[i-1]]
    ELSE [i \in 1..Capacity |-> win.ring[(win.head + i - 1) % Capacity]]

Memory == INSTANCE ReplayMemory
    WITH slots <- [b \in DOMAIN windows |->
                     [id |-> windows[b].id, fifo |-> RingOrder(windows[b])]]

\* The ring, head, count and entries map together behave as the promised
\* per-window FIFO memory: every answer of CheckAndSet, after any sequence of
\* admissions, evictions and slot repurposing, is the answer of the abstract
\* filter of spec.md 4.3.
ImplementsReplayMemory == Memory!Spec
=============================================================================
