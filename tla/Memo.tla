--------------------------------- MODULE Memo ---------------------------------
(***************************************************************************)
(* What memoization promises to those who invoke it.  An invocation either *)
(* executes its command itself, or recalls a result that an invocation of  *)
(* the same key executed and offered; it answers with that result as a     *)
(* whole, or it gives up.                                                  *)
(***************************************************************************)
CONSTANTS
    Runs,
    Key,       \* Key[r]: what identifies the work of r
    Cacheable, \* the invocations that may recall and offer
    Results,
    None, Unusable, Failed

VARIABLES
    own,    \* own[r]: the result of r's own execution
    memo,   \* the <<key, result>> pairs offered so far
    answer  \* answer[r]: what r's caller got

vars == <<own, memo, answer>>

Init ==
    /\ own = [r \in Runs |-> None]
    /\ memo = {}
    /\ answer = [r \in Runs |-> None]

Execute(r) ==
    /\ own[r] = None
    /\ answer[r] = None
    /\ own' \in [Runs -> {None, Unusable} \cup Results]
    /\ own'[r] # None
    /\ \A q \in Runs \ {r} : own'[q] = own[q]
    /\ UNCHANGED <<memo, answer>>

(* The result becomes known to others as its invocation ends; the caller   *)
(* may not learn of it.                                                    *)
Offer(r) ==
    /\ r \in Cacheable
    /\ own[r] \notin {None, Unusable}
    /\ answer[r] = None
    /\ memo' = memo \cup {<<Key[r], own[r]>>}
    /\ \/ answer' = [answer EXCEPT ![r] = own[r]]
       \/ answer' = [answer EXCEPT ![r] = Failed]
    /\ UNCHANGED own

Keep(r) ==
    /\ r \notin Cacheable
    /\ own[r] \notin {None, Unusable}
    /\ answer[r] = None
    /\ answer' = [answer EXCEPT ![r] = own[r]]
    /\ UNCHANGED <<own, memo>>

Recall(r) ==
    /\ r \in Cacheable
    /\ own[r] = None
    /\ answer[r] = None
    /\ \E entry \in memo :
         /\ entry[1] = Key[r]
         /\ answer' = [answer EXCEPT ![r] = entry[2]]
    /\ UNCHANGED <<own, memo>>

GiveUp(r) ==
    /\ answer[r] = None
    /\ answer' = [answer EXCEPT ![r] = Failed]
    /\ UNCHANGED <<own, memo>>

Next == \E r \in Runs : Execute(r) \/ Offer(r) \/ Keep(r) \/ Recall(r) \/ GiveUp(r)

Safe == Init /\ [][Next]_vars

(* Everyone gets an answer.                                                *)
Spec == Safe /\ \A r \in Runs : <>(answer[r] # None)
=============================================================================
