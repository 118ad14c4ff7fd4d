---------------------------- MODULE RecordStream ----------------------------
(***************************************************************************)
(* What one direction of a NEKO session promises its caller (spec.md 5,   *)
(* "Ordering", and 7): the reader hands over the writer's records in the  *)
(* order they were written, each once, and once it has stopped, on an     *)
(* error or a replay action, it hands over nothing more.                   *)
(***************************************************************************)
EXTENDS Naturals, Sequences

CONSTANT Payloads

VARIABLES
    sent,       \* payloads of the records the writer put on the wire
    delivered,  \* payloads the reader handed to its caller
    open        \* the reader has not stopped

vars == <<sent, delivered, open>>

Init ==
    /\ sent = <<>>
    /\ delivered = <<>>
    /\ open = TRUE

Send(p) ==
    /\ sent' = Append(sent, p)
    /\ UNCHANGED <<delivered, open>>

Deliver ==
    /\ open
    /\ Len(delivered) < Len(sent)
    /\ delivered' = Append(delivered, sent[Len(delivered) + 1])
    /\ UNCHANGED <<sent, open>>

Stop ==
    /\ open
    /\ open' = FALSE
    /\ UNCHANGED <<sent, delivered>>

Next == (\E p \in Payloads : Send(p)) \/ Deliver \/ Stop

Spec == Init /\ [][Next]_vars
=============================================================================
