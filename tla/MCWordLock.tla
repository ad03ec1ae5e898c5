----------------------------- MODULE MCWordLock -----------------------------
(* Small instances of WordLock for TLC. *)
EXTENDS WordLock

=============================================================================
