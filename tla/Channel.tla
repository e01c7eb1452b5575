------------------------------ MODULE Channel ------------------------------
(***************************************************************************)
(* What one direction of a transport.Conn promises: frames accepted by     *)
(* Send arrive once, in order and without a gap, until the connection      *)
(* breaks; from then on what has not arrived may be lost, the newest       *)
(* first.  A frame the codec refuses may be skipped and breaks nothing.    *)
(***************************************************************************)
EXTENDS Naturals, Sequences

CONSTANTS
    Frame,   \* what may be sent
    Refused  \* those of them that Encode or Decode rejects

VARIABLES
    q,       \* accepted and still to arrive
    got,     \* arrived
    broken   \* the direction has begun to fail

vars == <<q, got, broken>>

Init == q = <<>> /\ got = <<>> /\ ~broken

Accept(f) ==
    /\ q' = IF broken THEN q ELSE Append(q, f)
    /\ UNCHANGED <<got, broken>>

Without(i) == [j \in 1 .. Len(q) - 1 |-> IF j < i THEN q[j] ELSE q[j + 1]]

Skip ==
    /\ \E i \in 1..Len(q) : q[i] \in Refused /\ q' = Without(i)
    /\ UNCHANGED <<got, broken>>

Deliver ==
    /\ q # <<>> /\ Head(q) \notin Refused
    /\ got' = Append(got, Head(q))
    /\ q' = Tail(q)
    /\ UNCHANGED broken

Break ==
    /\ broken' = TRUE
    /\ \E k \in 0..Len(q) : q' = SubSeq(q, 1, k)
    /\ UNCHANGED got

Next == (\E f \in Frame : Accept(f)) \/ Skip \/ Deliver \/ Break

Safety == Init /\ [][Next]_vars

(* A direction that has not broken goes on. *)
Spec == Safety /\ WF_vars(~broken /\ (Skip \/ Deliver))

=============================================================================
