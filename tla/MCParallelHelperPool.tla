------------------------ MODULE MCParallelHelperPool ------------------------
(* A pool of a few threads shared by two clients. *)
EXTENDS ParallelHelperPool
=============================================================================
