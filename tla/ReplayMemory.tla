---------------------------- MODULE ReplayMemory ----------------------------
(***************************************************************************)
(* What the replay filter promises (spec.md section 4.3): the filter has   *)
(* NumWindows slots, one per window id modulo NumWindows.  A slot belongs  *)
(* to one window id at a time and remembers, in admission order, the last *)
(* Capacity keys admitted for that id.  check_and_set answers TRUE exactly *)
(* for a remembered key; otherwise the key is admitted, pushing out the    *)
(* oldest one when the slot is full.  Moving a slot to another id forgets  *)
(* everything it held.                                                     *)
(***************************************************************************)
EXTENDS Integers, Sequences, SequencesExt

CONSTANTS Capacity, NumWindows, WindowIds, Nonces

VARIABLES slots, result  \* result: the last call's arguments and answer

vars == <<slots, result>>

SlotIndex(w) == (IF w < 0 THEN -w ELSE w) % NumWindows

\* The slot after it has been claimed by window id w.
Claimed(s, w) == IF s.id = w THEN s ELSE [id |-> w, fifo |-> <<>>]

\* Admit key k at the end of the FIFO, dropping the oldest key when full.
Admit(fifo, k) ==
    IF Len(fifo) >= Capacity THEN Append(Tail(fifo), k) ELSE Append(fifo, k)

Init ==
    /\ slots = [b \in 0..NumWindows-1 |-> [id |-> 0, fifo |-> <<>>]]
    /\ result = [call |-> <<>>, present |-> FALSE]

CheckAndSet(w, n) ==
    LET b == SlotIndex(w)
        s == Claimed(slots[b], w)
        k == <<w, n>>
    IN  /\ result' = [call |-> <<w, n>>, present |-> Contains(s.fifo, k)]
        /\ slots' = [slots EXCEPT ![b] =
                        IF Contains(s.fifo, k) THEN s
                        ELSE [s EXCEPT !.fifo = Admit(@, k)]]

Next == \E w \in WindowIds, n \in Nonces : CheckAndSet(w, n)

Spec == Init /\ [][Next]_vars
=============================================================================
