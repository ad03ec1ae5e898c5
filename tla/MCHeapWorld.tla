---------------------------- MODULE MCHeapWorld ----------------------------
(* The heap's world state with a few tickets. *)
EXTENDS HeapWorld
=============================================================================
