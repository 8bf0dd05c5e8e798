----------------------------- MODULE BatchClient -----------------------------
(***************************************************************************)
(* The calls of RemoteClient (src/cmd/re_memoize/src/client.rs) that move  *)
(* blobs, each of them a sequence of batches: upload_if_missing asks which *)
(* blobs are missing and then sends those, download_blobs reads them.  All *)
(* of chunk_by_size, one request and its answer are steps, and between     *)
(* them other clients store blobs and the server drops some.               *)
(*                                                                         *)
(* The server is external.  Its answer to an update or a read has a status *)
(* for every digest; with MayOmit it may leave digests out, which the code *)
(* does not look for.  Messages larger than Limit may be refused, by the   *)
(* server or by the client's own side of gRPC; they are larger than what   *)
(* chunk_by_size has counted, by what the encoding of their items adds.    *)
(***************************************************************************)
EXTENDS Batching, FiniteSets, SequencesExt

CONSTANTS
    Size,        \* the size of each blob
    HashLen,     \* the size of a hash in a request
    Lists,       \* lists of blobs that may be passed in
    Evictable,   \* blobs the server may drop at any moment
    Limit,       \* the largest message that is always taken
    Framing,     \* bytes that the encoding may add to what is counted of an item
    MaxFaults,   \* bound: calls, items or answers that go wrong
    MayOmit

ASSUME ListsAssumption == Lists \subseteq Seq(Blobs)
ASSUME SizeAssumption  ==
    Size \in [Blobs -> Nat] /\ HashLen \in Nat /\ Evictable \subseteq Blobs
ASSUME LimitAssumption  == Limit \in Nat /\ Framing \in Nat
ASSUME FaultsAssumption == MaxFaults \in Nat /\ MayOmit \in BOOLEAN

(* What is done with a download: the tools look every digest up and fail   *)
(* without it; write_stream prints what there is.                          *)
Uses == {"upload", "look up", "write_stream"}

VARIABLES
    use,      \* which call this is, and who reads what it returns
    blobs,    \* its argument
    phase,    \* the RPC under way
    sent,     \* batches of it that were answered
    missing,  \* what the answers to FindMissingBlobs named
    result,   \* what the answers to BatchReadBlobs held
    outcome,
    cas,      \* blobs on the server
    touched,  \* history: blobs the server did not have, or failed
    omitted,  \* history: blobs that an answer left out
    lost,     \* history: an RPC failed, whatever was in it
    faults

history == <<touched, omitted, lost>>

clientVars == <<use, blobs, phase, sent, missing, result, outcome>>
vars       == <<batchingVars, clientVars, cas, history, faults>>

(* size_of, in each of the three calls.                                    *)
ToItem(p, b) == [blob |-> b, size |-> IF p = "FindMissing" THEN HashLen + 8 ELSE HashLen + Size[b]]
ItemsOf(p, list) == [n \in DOMAIN list |-> ToItem(p, list[n])]

Init ==
    /\ use \in Uses /\ blobs \in Lists /\ cas \in SUBSET Blobs
    /\ use = "write_stream" => Len(blobs) = 1
    /\ phase = IF use = "upload" THEN "FindMissing" ELSE "Read"
    /\ Splitting(ItemsOf(phase, blobs))
    /\ sent = 0 /\ missing = {} /\ result = {} /\ outcome = "none"
    /\ touched = {} /\ omitted = {} /\ lost = FALSE /\ faults = 0

Fault == faults < MaxFaults /\ faults' = faults + 1

-----------------------------------------------------------------------------
Split ==
    /\ outcome = "none" /\ (TakeItem \/ Return)
    /\ UNCHANGED <<clientVars, cas, history, faults>>

(* (Mutation: only the first batch is sent.)                               *)
AllSentOnce == sent >= 1 \/ sent = Len(batches)
AllSent == sent = Len(batches)
Asks(p) == outcome = "none" /\ returned /\ phase = p /\ sent < Len(batches)
Batch == {batches[sent + 1][n].blob : n \in DOMAIN batches[sent + 1]}

FindMissing ==
    /\ Asks("FindMissing")
    /\ missing' = missing \cup (Batch \ cas)
    /\ sent' = sent + 1
    /\ UNCHANGED <<batchingVars, use, blobs, phase, result, outcome, cas, history, faults>>

(* The misses are sent, in the order in which they were given.             *)
ToUpload == Selected(blobs, missing)
Filter ==
    /\ outcome = "none" /\ returned /\ phase = "FindMissing" /\ AllSent
    /\ phase' = "Update" /\ sent' = 0
    /\ Splits(ItemsOf("Update", ToUpload))
    /\ UNCHANGED <<use, blobs, missing, result, outcome, cas, history, faults>>

(* The RPC succeeds and says of each blob whether it was stored; one that  *)
(* it does not mention counts as stored.                                   *)
(* (Mutation: the statuses are not looked at.)                             *)
CheckedNothing(failed) == outcome' = "none"
Checked(failed) == outcome' = IF failed = {} THEN "none" ELSE "error"
LeavesOut(left) == omitted' = omitted \cup left /\ (left # {} => MayOmit)
Update ==
    /\ Asks("Update")
    /\ \E failed, left \in SUBSET Batch :
         /\ IF failed \cup left = {} THEN UNCHANGED faults ELSE Fault
         /\ cas' = cas \cup (Batch \ (failed \cup left))
         /\ touched' = touched \cup failed
         /\ LeavesOut(left)
         /\ Checked(failed \ left)
    /\ sent' = sent + 1
    /\ UNCHANGED <<batchingVars, use, blobs, phase, missing, result, lost>>

(* A digest the server does not have is a status; one it leaves out is     *)
(* not in the map.                                                         *)
Read ==
    /\ Asks("Read")
    /\ \E left \in SUBSET Batch :
         /\ IF left = {} THEN UNCHANGED faults ELSE Fault
         /\ result' = result \cup ((Batch \cap cas) \ left)
         /\ touched' = touched \cup (Batch \ cas)
         /\ LeavesOut(left)
         /\ Checked(Batch \ (cas \cup left))
    /\ sent' = sent + 1
    /\ UNCHANGED <<batchingVars, use, blobs, phase, missing, cas, lost>>

(* The RPC fails; some of an update may be stored all the same.            *)
RpcFails ==
    /\ \E p \in {"FindMissing", "Update", "Read"} : Asks(p)
    /\ Fault /\ outcome' = "error" /\ lost' = TRUE
    /\ IF phase = "Update" THEN \E stored \in SUBSET Batch : cas' = cas \cup stored
                           ELSE UNCHANGED cas
    /\ UNCHANGED <<batchingVars, use, blobs, phase, sent, missing, result, touched, omitted>>

(* A request, or the answer to a read, is too large for a message.         *)
Message(batch) == Total(batch) + Framing * Len(batch)
Refused ==
    /\ \E p \in {"FindMissing", "Update", "Read"} : Asks(p)
    /\ Message(batches[sent + 1]) > Limit
    /\ outcome' = "error"
    /\ UNCHANGED <<batchingVars, use, blobs, phase, sent, missing, result, cas, history, faults>>

(* The caller looks each digest up in the map; write_stream does not mind  *)
(* one that is not there.                                                  *)
Used == IF use = "look up" /\ ~(ToSet(blobs) \subseteq result) THEN "error" ELSE "ok"
Done ==
    /\ outcome = "none" /\ returned /\ AllSent /\ phase \in {"Update", "Read"}
    /\ outcome' = Used
    /\ UNCHANGED <<batchingVars, use, blobs, phase, sent, missing, result, cas, history, faults>>

(* External: other clients and the server's own housekeeping.              *)
Stored(b) ==
    /\ outcome = "none" /\ cas' = cas \cup {b}
    /\ UNCHANGED <<batchingVars, clientVars, history, faults>>
Evict(b) ==
    /\ outcome = "none" /\ cas' = cas \ {b}
    /\ UNCHANGED <<batchingVars, clientVars, history, faults>>

Client == Split \/ FindMissing \/ Filter \/ Update \/ Read \/ Done
Next == \/ Client \/ RpcFails
        \/ Refused
        \/ \E b \in Blobs : Stored(b)
        \/ \E b \in Evictable : Evict(b)

Spec == Init /\ [][Next]_vars

-----------------------------------------------------------------------------
(* Every variable keeps its type.                                          *)
TypeOK ==
    /\ BatchingTypeOK
    /\ use \in Uses /\ blobs \in Seq(Blobs)
    /\ phase \in {"FindMissing", "Update", "Read"} /\ outcome \in {"none", "ok", "error"}
    /\ sent \in 0 .. Len(batches) /\ faults \in 0 .. MaxFaults
    /\ missing \subseteq Blobs /\ result \subseteq Blobs
    /\ cas \subseteq Blobs /\ touched \subseteq Blobs
    /\ omitted \subseteq Blobs /\ lost \in BOOLEAN

(* An upload that reports success leaves every blob it was given on the    *)
(* server, unless the server dropped it or did not mention it in its       *)
(* answer: those found missing were sent, in one of the batches, and those *)
(* found present, or stored by someone else in the meantime, are still     *)
(* there.                                                                  *)
StoredOnSuccess ==
    use = "upload" /\ outcome = "ok" =>
      /\ ToSet(blobs) \subseteq cas \cup Evictable \cup omitted
      /\ omitted # {} => MayOmit

(* A download that reports success has the content of every digest,        *)
(* repeated ones included.  Only write_stream, which does not look its     *)
(* digest up, may succeed without, and only if the server left it out.     *)
ReadOnSuccess ==
    use # "upload" /\ outcome = "ok" /\ ~(ToSet(blobs) \subseteq result)
      => use = "write_stream" /\ MayOmit /\ ToSet(blobs) \subseteq omitted

(* A call fails because of a blob it was given that the server did not     *)
(* have, left out or failed, or that is larger than the budget by itself,  *)
(* or because an RPC was lost; never for the way in which it was batched.  *)
FailsForABlob ==
    outcome = "error" =>
      \/ lost
      \/ ToSet(blobs) \cap (touched \cup omitted) # {}
      \/ \E b \in ToSet(blobs) : ToItem(phase, b).size > Budget
=============================================================================
