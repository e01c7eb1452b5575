---------------------------- MODULE DedupWindow ----------------------------
(***************************************************************************)
(* The bounded first-in first-out window of identifiers that both ends of  *)
(* SIT use to recognise a repeated message: the dispatcher's window of     *)
(* result ids (markSeen) and the executor's window of instruction ids      *)
(* (remember).  Both append the id to an order list and, when the list is  *)
(* longer than the window, drop its head and forget that id.               *)
(***************************************************************************)
EXTENDS Naturals, Sequences

(* The order list after id is appended and the window, w long, enforced. *)
Pushed(order, id, w) ==
    LET longer == Append(order, id)
    IN  IF Len(longer) > w THEN Tail(longer) ELSE longer

(* Mutant of Evicted: the window is one id too short. *)
EvictedEarly(order, id, w) ==
    IF Len(order) + 1 >= w THEN {Head(Append(order, id))} ELSE {}

(* The ids that appending id makes the window forget: none or one. *)
Evicted(order, id, w) ==
    IF Len(order) + 1 > w THEN {Head(Append(order, id))} ELSE {}

=============================================================================
