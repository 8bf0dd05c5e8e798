------------------------------ MODULE ActionLog ------------------------------
(***************************************************************************)
(* What a scheduler may rely on when it logs completed actions: they wait  *)
(* in the order in which they completed, and the first one leaves only     *)
(* once it is settled, that is, indexed or refused for good.  There are no *)
(* streams, acknowledgements or retries here; an action may be settled     *)
(* while it waits anywhere in the queue, and after it has left.            *)
(***************************************************************************)
EXTENDS Sequences

CONSTANT Actions

VARIABLES
    logged,    \* actions that ever completed
    waiting,   \* those the scheduler still keeps
    settled    \* those that are indexed or refused

vars == <<logged, waiting, settled>>

Init == logged = {} /\ waiting = <<>> /\ settled = {}

Complete(a) ==
    /\ a \notin logged
    /\ logged' = logged \cup {a} /\ waiting' = Append(waiting, a)
    /\ UNCHANGED settled

(* Nothing that has not completed is ever indexed.                         *)
Settle(a) ==
    /\ a \in logged
    /\ settled' = settled \cup {a}
    /\ UNCHANGED <<logged, waiting>>

Drop ==
    /\ waiting # <<>> /\ Head(waiting) \in settled
    /\ waiting' = Tail(waiting)
    /\ UNCHANGED <<logged, settled>>

Next == Drop \/ \E a \in Actions : Complete(a) \/ Settle(a)

Spec == Init /\ [][Next]_vars
=============================================================================
