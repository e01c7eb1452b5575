---------------------------- MODULE MCTransport ----------------------------
(* Instances of Transport for model checking. *)
EXTENDS Transport

(* Frames of the node, of which one is too large and one of another        *)
(* version, and one too large of the manager.                              *)
Sends == [node |-> 4, manager |-> 1]

=============================================================================
