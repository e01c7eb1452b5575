------------------------------ MODULE MCAgent ------------------------------
(* Instances of Agent for model checking: the .cfg files give the times.   *)
EXTENDS Agent
=============================================================================
