------------------------------- MODULE Mutex -------------------------------
(***************************************************************************)
(* What every mutex of WTF promises its callers, with no word, no queue    *)
(* and no parking in sight.  A thread is outside the lock, has asked for   *)
(* it, or holds it; nobody enters while somebody holds; a holder leaves    *)
(* by releasing, or by handing the lock to a thread that asked for it.     *)
(* WordLock and Lock are shown to implement this module.                   *)
(***************************************************************************)
CONSTANT Thread

VARIABLE status    \* status[t]: where thread t stands with the lock

vars == <<status>>

TypeOK == status \in [Thread -> {"outside", "waiting", "holding"}]

Free == \A t \in Thread : status[t] # "holding"

Init == status = [t \in Thread |-> "outside"]

Request(t) == /\ status[t] = "outside"
              /\ status' = [status EXCEPT ![t] = "waiting"]

\* Either the uncontended path, or the end of a wait.
Acquire(t) == /\ status[t] \in {"outside", "waiting"}
              /\ Free
              /\ status' = [status EXCEPT ![t] = "holding"]

Release(t) == /\ status[t] = "holding"
              /\ status' = [status EXCEPT ![t] = "outside"]

\* A fair unlock: the lock is never free in between.
Handoff(s, t) == /\ status[s] = "holding"
                 /\ status[t] = "waiting"
                 /\ status' = [status EXCEPT ![s] = "outside", ![t] = "holding"]

Next == \/ \E t \in Thread : Request(t) \/ Acquire(t) \/ Release(t)
        \/ \E s, t \in Thread : Handoff(s, t)

Spec == Init /\ [][Next]_vars

\* At most one thread holds the lock.
Exclusive == \A s, t \in Thread :
                status[s] = "holding" /\ status[t] = "holding" => s = t
=============================================================================
