----------------------------- MODULE MCDispatch -----------------------------
(* Instances of Dispatch for TLC: four specs, of which one is composed of  *)
(* directories, two of them equal, one is a mounted tree, one has neither  *)
(* arguments nor inputs, and one is unusable.                              *)
EXTENDS Dispatch

CONSTANTS tree, dir, root, other, empty

MCBlobs == {tree, dir, root, other, empty}

Composed(r, ds) == [usable |-> TRUE, mounted |-> FALSE, root |-> r, dirs |-> ds,
                    present |-> {}]
Mounted == [usable |-> TRUE, mounted |-> TRUE, root |-> tree, dirs |-> <<>>,
            present |-> {tree}]
Unusable == [usable |-> FALSE, mounted |-> FALSE, root |-> other, dirs |-> <<>>,
             present |-> {}]

FourSpecs  == <<Composed(root, <<dir, dir>>), Mounted, Composed(empty, <<>>), Unusable>>

(* An empty Command, blobs of exactly one and two chunks of two bytes, and *)
(* one of a chunk and a half.                                              *)
MCSize == [b \in AllBlobs |->
             IF b = Command(3) THEN 0 ELSE IF b = root THEN 3 ELSE IF b = dir THEN 4 ELSE 2]

Outcome(s, h, c, out, err) ==
    [status |-> s, hasResult |-> h, code |-> c, stdout |-> out, stderr |-> err]
Stream(h, n) == [held |-> h, size |-> n]
None == Stream("none", 0)

MCOutcomes == {Outcome(0, TRUE, 0, Stream("digest", 2), Stream("digest", 0)),
               Outcome(0, TRUE, 1, Stream("raw", 1), Stream("digest", 1)),
               Outcome(0, FALSE, 0, None, None),
               Outcome(9, TRUE, 0, Stream("digest", 1), None)}
=============================================================================
