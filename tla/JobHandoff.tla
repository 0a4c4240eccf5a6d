----------------------------- MODULE JobHandoff -----------------------------
(***************************************************************************)
(* What the admission backlog promises its producers: an accepted job      *)
(* waits in the first-in-first-out queue of its fairness key until it is   *)
(* handed to BullMQ, once, and no accepted job is forgotten.               *)
(***************************************************************************)
EXTENDS Naturals, Sequences

CONSTANTS Jobs, Keys, KeyOf

VARIABLES
    queue,      \* the accepted jobs of a key that wait, oldest first
    handed      \* the jobs BullMQ has been given

vars == <<queue, handed>>

Waits(j) == \E i \in DOMAIN queue[KeyOf[j]] : queue[KeyOf[j]][i] = j

Init ==
    /\ queue = [k \in Keys |-> <<>>]
    /\ handed = {}

Accept(j) ==
    /\ ~Waits(j)
    /\ j \notin handed
    /\ queue' = [queue EXCEPT ![KeyOf[j]] = Append(@, j)]
    /\ UNCHANGED handed

HandOver(k) ==
    /\ queue[k] # <<>>
    /\ handed' = handed \cup {Head(queue[k])}
    /\ queue' = [queue EXCEPT ![k] = Tail(@)]

Next == (\E j \in Jobs : Accept(j)) \/ (\E k \in Keys : HandOver(k))

Spec == Init /\ [][Next]_vars /\ \A k \in Keys : WF_vars(HandOver(k))
=============================================================================
