---------------------------- MODULE MCParkingLot ----------------------------
(***************************************************************************)
(* Small instances of ParkingLot for TLC.  With both factors 1 the table   *)
(* grows from one bucket to two and then three as threads are created.     *)
(***************************************************************************)
EXTENDS ParkingLot

CONSTANTS a1, a2

\* a1 and a2 share the only bucket at size 1 and part at size 2.
MCHash == (a1 :> 3) @@ (a2 :> 4)
MCCalls == (a1 :> {[kind |-> "callback", count |-> 1], [kind |-> "one", count |-> 1]})
           @@ (a2 :> {[kind |-> "count", count |-> 2]})
MCBucket == 1 .. 3
\* The allocator takes the lowest address that is free.
MCMalloc == [A \in SUBSET MCBucket |-> {b \in MCBucket \ A : \A c \in MCBucket \ A : b <= c}]
Symmetry == Permutations(Thread)
=============================================================================
