---------------------------- MODULE MCTreeTransfer ----------------------------
(* Instances of TreeTransfer for TLC: every directory of two levels over   *)
(* two names, and some of three levels that hold one twice.                *)
EXTENDS TreeTransfer

CONSTANTS x, y

MCNames == {"a", "b"}
Leaves == {[kind |-> "file", data |-> x, mode |-> "nobody"],
           [kind |-> "file", data |-> y, mode |-> "owner"],
           [kind |-> "link", target |-> "a"]}

Maps(s) == UNION {[D -> s] : D \in SUBSET MCNames}

(* Nested functions made functions of paths.                               *)
Under(n, d) == {<<n>> \o p : p \in DOMAIN d}
FlatLeaf(l) == [p \in {<<>>} |-> l]
Flat(m) ==
    [p \in {<<>>} \cup (UNION {Under(n, m[n]) : n \in DOMAIN m}) |->
       IF p = <<>> THEN Dir ELSE m[p[1]][Tail(p)]]

Level0 == {FlatLeaf(l) : l \in Leaves}
Level1 == {Flat(m) : m \in Maps(Level0)}
Level2 == {Flat(m) : m \in Maps(Level0 \cup Level1)}

(* A directory with the same one at every name of one, or of both.         *)
Copies(ds) == {Flat([n \in D |-> d]) : D \in {{"a"}, MCNames}, d \in ds}
Small == {Flat([n \in {} |-> Dir]),
          Flat([n \in {"b"} |-> FlatLeaf([kind |-> "file", data |-> x, mode |-> "others"])])}

MCDirectories == Level2 \cup Copies(Copies(Small)) \cup Copies(Copies(Copies(Small)))

MCEvictable == {DataBlob(x), DirBlob([n \in {} |-> Dir])}
=============================================================================
