------------------------------- MODULE Batching -------------------------------
(***************************************************************************)
(* chunk_by_size (src/cmd/re_memoize/src/client.rs): the items of          *)
(* FindMissingBlobs, BatchUpdateBlobs and BatchReadBlobs are split into    *)
(* batches, each of them one request.  An item has the size that the       *)
(* caller's size_of gives it.  Splits is the call, Returned its end.       *)
(***************************************************************************)
EXTENDS Naturals, Sequences, ListOps

CONSTANTS
    Blobs,     \* what an item is about
    Budget     \* max_message_size_bytes

ASSUME BudgetAssumption == Budget \in Nat

Items == [blob : Blobs, size : Nat]

VARIABLES
    given,         \* the argument
    todo,          \* what the loop has not seen yet
    current,       \* the batch being filled
    current_size,
    batches,
    returned

batchingVars == <<given, todo, current, current_size, batches, returned>>

Splitting(list) ==
    /\ given = list /\ todo = list
    /\ current = <<>> /\ current_size = 0
    /\ batches = <<>> /\ returned = FALSE

Splits(list) ==
    /\ given' = list /\ todo' = list
    /\ current' = <<>> /\ current_size' = 0
    /\ batches' = <<>> /\ returned' = FALSE

(* (Mutations: a batch is flushed although it is empty; only once it is    *)
(* full, so that the item goes in; the size is not reset with the batch.)  *)
FlushesEmpty(item) == current_size + item.size > Budget
FlushesLate(item) == current # <<>> /\ current_size >= Budget
Flushes(item) == current # <<>> /\ current_size + item.size > Budget
ResetNot == current_size
Reset == 0

TakeItem ==
    /\ todo # <<>>
    /\ IF Flushes(Head(todo))
       THEN /\ batches' = Append(batches, current)
            /\ current' = <<Head(todo)>> /\ current_size' = Reset + Head(todo).size
       ELSE /\ UNCHANGED batches
            /\ current' = Append(current, Head(todo))
            /\ current_size' = current_size + Head(todo).size
    /\ todo' = Tail(todo)
    /\ UNCHANGED <<given, returned>>

(* (Mutation: the last batch is forgotten.)                                *)
AllButLast == batches
AllBatches == IF current # <<>> THEN Append(batches, current) ELSE batches
Return ==
    /\ todo = <<>> /\ ~returned
    /\ batches' = AllBatches
    /\ returned' = TRUE
    /\ UNCHANGED <<given, todo, current, current_size>>

-----------------------------------------------------------------------------
(* The size of all the items of s.                                         *)
Total(s) == LET upTo[n \in 0 .. Len(s)] == IF n = 0 THEN 0 ELSE upTo[n - 1] + s[n].size
            IN upTo[Len(s)]

BatchingTypeOK ==
    /\ given \in Seq(Items) /\ todo \in Seq(Items) /\ current \in Seq(Items)
    /\ batches \in Seq(Seq(Items)) /\ returned \in BOOLEAN
    /\ current_size = Total(current)

(* No item is lost, duplicated or moved, in any call that needs batches.   *)
NothingMoved ==
    Joined(batches) \o (IF returned THEN <<>> ELSE current) \o todo = given

(* A batch is within the budget, or it is one item that is larger than it; *)
(* no request is empty; and no batch is cut short: its successor's first   *)
(* item would not have fitted.                                             *)
Fits(b) == b # <<>> /\ (Total(b) <= Budget \/ Len(b) = 1)
WellCut ==
    /\ \A n \in DOMAIN batches : Fits(batches[n])
    /\ current # <<>> => Fits(current)
    /\ \A n \in DOMAIN batches : n + 1 \in DOMAIN batches =>
          Total(batches[n]) + batches[n + 1][1].size > Budget
=============================================================================
