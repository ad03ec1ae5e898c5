--------------------------- MODULE ParkingQueues ---------------------------
(***************************************************************************)
(* What ParkingLot promises (WTF/wtf/ParkingLot.h): one FIFO queue of      *)
(* threads per address, from which a thread leaves exactly once, taken by  *)
(* an unpark or by its own timeout, and is told truthfully which of the    *)
(* two it was.  No buckets, no hashtable, no rehashing.                    *)
(***************************************************************************)
EXTENDS Naturals, Sequences

CONSTANTS Thread, Address

VARIABLES queues,   \* queues[a]: the threads parked on a, first come first
          status    \* where each thread stands; wasUnparked is what it says
                    \* when the thread returns

vars == <<queues, status>>

Init == /\ queues = [a \in Address |-> <<>>]
        /\ status = [t \in Thread |-> "running"]

Park(t, a) == /\ status[t] = "running"
              /\ queues' = [queues EXCEPT ![a] = Append(@, t)]
              /\ status' = [status EXCEPT ![t] = "parked"]

\* The first n threads of a leave its queue together.
Unpark(a, n) ==
    /\ n \in 1 .. Len(queues[a])
    /\ queues' = [queues EXCEPT ![a] = SubSeq(@, n + 1, Len(@))]
    /\ status' = [t \in Thread |-> IF \E i \in 1 .. n : queues[a][i] = t
                                   THEN "unparked" ELSE status[t]]

TimeOut(t, a) ==
    /\ \E i \in 1 .. Len(queues[a]) :
          /\ queues[a][i] = t
          /\ queues' = [queues EXCEPT ![a] = SubSeq(@, 1, i - 1) \o SubSeq(@, i + 1, Len(@))]
    /\ status' = [status EXCEPT ![t] = "timedOut"]

Return(t) == /\ status[t] \in {"unparked", "timedOut"}
             /\ status' = [status EXCEPT ![t] = "running"]
             /\ UNCHANGED queues

\* The first conjunct follows from each of the others; it lets TLC tell a
\* stuttering step at once.
Next == /\ status' # status
        /\ \/ \E t \in Thread : Return(t)
           \/ \E t \in Thread, a \in Address : Park(t, a) \/ TimeOut(t, a)
           \/ \E a \in Address : \E n \in 1 .. Len(queues[a]) : Unpark(a, n)

Spec == Init /\ [][Next]_vars
=============================================================================
