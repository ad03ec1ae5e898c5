-------------------------- MODULE MCReadWriteLock --------------------------
(* Instances of ReadWriteLock for TLC: every thread reads and writes. *)
EXTENDS ReadWriteLock

=============================================================================
