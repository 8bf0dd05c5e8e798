----------------------------- MODULE MCPathTrie -----------------------------
(* Instances of PathTrie and LocalInput for TLC: lists of two paths with   *)
(* odd components, of two deep paths and of three shallow ones; and file   *)
(* systems with a root r and something beside it, o, where r/a, r/l, r/d   *)
(* and what is in r/d vary.                                                *)
EXTENDS LocalInput

MCOdd   == {".", ".."}
MCNames == {"a", "b", "d", "gone", "l", "o", "r", "x"}

PathsOver(s, n)  == UNION {[1 .. k -> s] : k \in 0 .. n}
EntriesOver(s, n) == [path : PathsOver(s, n), kind : {"file", "tree"}]
ListsOver(s, n, m) == UNION {[1 .. k -> EntriesOver(s, n)] : k \in 0 .. m}

MCLists == ListsOver({"a"} \cup MCOdd, 2, 2) \cup ListsOver({"a", "b"}, 3, 2)
           \cup ListsOver({"a", "b"}, 2, 3)

(* A file system with a, l and d in r, and z in r/d, where they exist.     *)
Missing == [kind |-> "missing"]
System(a, l, d, z) ==
    LET all == <<>> :> Dir @@ <<"r">> :> Dir @@ <<"o">> :> Dir @@ <<"o", "x">> :> File("one", {})
               @@ <<"r", "a">> :> a @@ <<"r", "l">> :> l
               @@ <<"r", "d">> :> d @@ <<"r", "d", "x">> :> (IF d = Dir THEN z ELSE Missing)
    IN [p \in {q \in DOMAIN all : all[q] # Missing} |-> all[p]]

To(target) == Link(FALSE, target)
Targets == {To(<<"a">>), To(<<".", "a">>), To(<<".">>), To(<<"l">>), To(<<"gone">>), To(<<"d">>),
            To(<<"d", "..", "a">>), To(<<"..", "o">>), To(<<"..", "r", "d">>),
            To(<<"d", "x", "..", "..", "o">>), Link(TRUE, <<"r", "a">>)}
FilesOrNone == {Missing, File("one", {}), File("two", {"owner"}), File("one", {"others"})}
Inner == {Missing, File("two", {}), To(<<"..", "a">>), To(<<"..">>), To(<<"..", "l">>),
          To(<<"..", "..", "r", "a">>)}

MCWalks == [fs : {System(a, l, d, z) : a \in FilesOrNone, l \in Targets \cup {Missing, Other},
                                       d \in {Missing, Dir}, z \in Inner},
            root : {<<"r">>}]

(* Filters over the same: alone, any path of up to three components; two   *)
(* of them, each named in several ways.                                    *)
Filters1 == {<<f>> : f \in PathsOver({"a", "d", "l", "x", ".", ".."}, 3)}
Filters2 == [1 .. 2 -> {<<"a">>, <<"..", "r", "a">>, <<"d">>, <<"d", ".">>, <<"l">>, <<"l", ".">>,
                        <<"d", "x">>, <<"l", "x">>, <<"o", "x">>}]
FilterSystems ==
    {System(a, l, Dir, z) : a \in {File("two", {"owner"}), Missing},
                            l \in {To(<<"d">>), To(<<"..", "o">>), To(<<"gone">>), Missing, Other},
                            z \in {File("two", {}), To(<<"..">>), To(<<"..", "a">>)}}
MCDigests == {[fs |-> fs, cwd |-> <<"r">>, root |-> r, filters |-> f] :
                fs \in FilterSystems, r \in {<<".">>, <<"d">>, <<"l">>},
                f \in Filters1 \cup Filters2}
=============================================================================
