-------------------------------- MODULE ListOps --------------------------------
(* What the code computes of a list in one pass, by recursion on its       *)
(* length.                                                                 *)
EXTENDS Naturals, Sequences

(* The items that are in S, in order.                                      *)
Extended(part, item, S) == IF item \in S THEN Append(part, item) ELSE part
Selected(list, S) ==
    LET upTo[n \in 0 .. Len(list)] ==
          IF n = 0 THEN <<>> ELSE Extended(upTo[n - 1], list[n], S)
    IN upTo[Len(list)]

(* The items of a list of lists, in order.                                 *)
Joined(lists) ==
    LET upTo[n \in 0 .. Len(lists)] == IF n = 0 THEN <<>> ELSE upTo[n - 1] \o lists[n]
    IN upTo[Len(lists)]
=============================================================================
