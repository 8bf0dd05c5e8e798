----------------------------- MODULE MCBatching -----------------------------
(* Instances of BatchClient, and so of Batching, for TLC: lists of blobs,  *)
(* with repetitions, against a budget of 20 bytes.  With a hash of one     *)
(* byte, two digests fit into a FindMissingBlobs; two blobs of nine bytes  *)
(* fill a request exactly, with ten they exceed it, and the large one      *)
(* exceeds it alone.                                                       *)
EXTENDS BatchClient

CONSTANTS nil, small, medium, large, MaxLength

MCBlobs == {nil, small, medium, large}
MCSize  == [b \in MCBlobs |-> IF b = nil THEN 0 ELSE IF b = small THEN 9
                              ELSE IF b = medium THEN 10 ELSE 30]
MCLists == UNION {[1 .. n -> MCBlobs] : n \in 0 .. MaxLength}
=============================================================================
