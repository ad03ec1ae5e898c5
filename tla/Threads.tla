------------------------------ MODULE Threads ------------------------------
(* The threads that use a Condition, and a ReadWriteLock built on one. *)
EXTENDS Integers, FiniteSets

CONSTANTS Thread,
          Nil          \* "nobody" as an owner

ASSUME NilAssumption == Nil \notin Thread
ASSUME FiniteAssumption == IsFiniteSet(Thread)
=============================================================================
